--------------------------- MODULE ScalarFunctions ---------------------------
(***************************************************************************)
(* The four scalar functions on one row of a batch                         *)
(* (crates/mask-worker/src/scalar, arrow_io.rs), without their loop.       *)
(*                                                                         *)
(* A request names a function and carries one column per argument; a       *)
(* column has an Arrow type and one cell for each row.                     *)
(***************************************************************************)
EXTENDS MaskEngine

Arity == [mask_fpe |-> 3, mask_unfpe |-> 3, mask_token |-> 2, mask_redact |-> 2]
Functions == DOMAIN Arity
TextTypes == {"Utf8", "LargeUtf8"}

(* Mutated on_bind: the result is announced as the other string type.      *)
BindsLarge == [fn \in Functions |-> "LargeUtf8"]

(* The column type a function announces before its first batch.            *)
on_bind == [fn \in Functions |-> "Utf8"]

NumRows(req) == Len(req.args[1].cells)

(* What a client can send: on_bind fixes the number of columns, a batch    *)
(* their common length.                                                    *)
IsRequest(req) ==
    /\ req.fn \in Functions
    /\ DOMAIN req.args = 1..Arity[req.fn]
    /\ \A a \in DOMAIN req.args :
          DOMAIN req.args[a].cells = 1..NumRows(req)
    /\ NumRows(req) \in Nat
    /\ \A i \in 1..NumRows(req) :
          req.args[1].cells[i] \in Value \cup {NULL}

(* One cell as text: NULL whatever the type, an error if not a string.     *)
text_str(col, i) ==
    CASE col.cells[i] = NULL     -> Ok(NULL)
      [] col.type \in TextTypes  -> Ok(col.cells[i])
      [] OTHER                   -> Err("NotVarchar")

RunFpe(value, name, key, forward) ==
    IF IsOk(FormatParse(name))
    THEN fpe_crypt(value, FormatParse(name).val, key, forward)
    ELSE FormatParse(name)

RunRedact(value, name) ==
    IF IsOk(ModeParse(name)) THEN Ok(redact(value, ModeParse(name).val))
    ELSE ModeParse(name)

(* Mutated Apply: mask_unfpe encrypts as mask_fpe does.                    *)
ApplyForward(fn, v) ==
    CASE fn \in {"mask_fpe", "mask_unfpe"} -> RunFpe(v[1], v[2], v[3], TRUE)
      [] fn = "mask_token"      -> token(v[1], v[2])
      [] fn = "mask_redact"     -> RunRedact(v[1], v[2])

(* A function on the operands of one row, none of them NULL.               *)
Apply(fn, v) ==
    CASE fn = "mask_fpe"   -> RunFpe(v[1], v[2], v[3], TRUE)
      [] fn = "mask_unfpe" -> RunFpe(v[1], v[2], v[3], FALSE)
      [] fn = "mask_token"      -> token(v[1], v[2])
      [] fn = "mask_redact"     -> RunRedact(v[1], v[2])

(* RecordBatch::try_new: a StringBuilder's column against the bound schema. *)
try_new(fn, cells) ==
    IF on_bind[fn] = "Utf8" THEN Ok(cells) ELSE Err("OutputSchema")
=============================================================================
