---------------------------- MODULE MCMaskWorker ----------------------------
(***************************************************************************)
(* An instance of MaskWorker for TLC: two connections, and batches that    *)
(* put every kind of row in every order.                                   *)
(***************************************************************************)
EXTENDS MaskWorker, SmallEngine

CONSTANTS c1, c2

-----------------------------------------------------------------------------

Named(word) == [word |-> word, spelling |-> "plain"]

Card == <<"0", "1", "1", "0">>
Digit == <<"0">>

(* Rows of mask_fpe that succeed, are NULL beside operands the function    *)
(* would refuse, or fail, each for a reason of its own.                    *)
FpeRows(value, format) ==
    {<<value, Named(format), 1>>,
     <<NULL, Named("bogus"), EmptyKey>>, <<value, NULL, EmptyKey>>,
     <<value, Named("bogus"), EmptyKey>>, <<value, Named(format), EmptyKey>>}
TokenRows == {<<Card, 1>>, <<NULL, EmptyKey>>, <<Card, EmptyKey>>}
RedactRows == {<<Card, Named("full")>>, <<NULL, Named("bogus")>>,
               <<Card, Named("bogus")>>}

Request(fn, types, rows) ==
    [fn |-> fn,
     args |-> [a \in 1..Arity[fn] |->
                  [type |-> types[a],
                   cells |-> [i \in DOMAIN rows |-> rows[i][a]]]]]
Batches(rows, n) == UNION {[1..k -> rows] : k \in 0..n}
Texts == <<"Utf8", "LargeUtf8", "Utf8">>

(* A column that is not text is an error at the first cell that is not     *)
(* NULL, which may come after rows that were fine.                         *)
NotText == {Request("mask_fpe", <<"Utf8", "Int64", "Utf8">>, rows) :
    rows \in Batches({<<Digit, NULL, 1>>, <<NULL, Named("digits"), 1>>}, 3)}

(* Batches on a value the engine passes through: the loop is what matters. *)
LoopRequests ==
    {Request("mask_fpe", Texts, rows) : rows \in Batches(FpeRows(Digit, "digits"), 2)}
    \cup {Request("mask_token", Texts, rows) : rows \in Batches(TokenRows, 2)}
    \cup {Request("mask_redact", Texts, rows) : rows \in Batches(RedactRows, 2)}
    \cup NotText

(* Every value of up to four of these characters, and the separated cards  *)
(* of four digits, under every profile and in both directions.             *)
EngineValues ==
    UNION {[1..n -> {"0", "1", "a", "@"}] : n \in 0..4}
    \cup {<<a, b, "-", c, d>> : a, b, c, d \in {"0", "1"}}
EngineRequests == {Request(fn, Texts, <<<<v, Named(format), 1>>>>) :
    fn \in {"mask_fpe", "mask_unfpe"}, v \in EngineValues, format \in FormatNames}
=============================================================================
