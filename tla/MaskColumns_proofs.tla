-------------------------- MODULE MaskColumns_proofs --------------------------
(***************************************************************************)
(* Proofs about the columns of clients, for every set of tables, every     *)
(* columns, names and keys, any number of layers and every interleaving of *)
(* statements: what is masked comes back, shapes are kept, masked columns  *)
(* join as the originals do and what a redaction hides stays hidden.       *)
(***************************************************************************)
EXTENDS MaskColumns, MaskBatch_proofs, WellFoundedInduction

-----------------------------------------------------------------------------
(* Induction over levels, by the least level that would fail.              *)

(* A set of numbers that is not empty has a least one.                     *)
LEMMA LeastElement ==
    ASSUME NEW T \in SUBSET Nat, T # {}
    PROVE  \E n \in T : \A m \in T : n <= m
<1>1. \E x \in T : \A y \in T : ~(<<y, x>> \in OpToRel(<, Nat))
    BY NatLessThanWellFounded, WFMin
<1>2. \A x, y \in Nat : <<x, y>> \in OpToRel(<, Nat) <=> x < y
    BY DEF OpToRel
<1>3. PICK x \in T : \A y \in T : ~(y < x)
    BY <1>1, <1>2
<1>4. QED
    BY <1>3

(* What holds of the bottom level, and of each level if it holds of the    *)
(* one below, holds of all of them.                                        *)
LEMMA LevelByLevel ==
    ASSUME NEW n \in Nat, NEW S, 1 \in S, \A k \in 1..n : k \in S => k + 1 \in S
    PROVE  \A k \in 1..(n + 1) : k \in S
<1> SUFFICES ASSUME NEW k \in 1..(n + 1), k \notin S
             PROVE  FALSE
    OBVIOUS
<1> DEFINE T == (1..(n + 1)) \ S
<1>1. T \in SUBSET Nat /\ T # {}
    OBVIOUS
<1>2. PICK m \in T : \A j \in T : m <= j
    BY <1>1, LeastElement
<1>3. m \in 2..(n + 1) /\ m - 1 \in 1..n
    BY <1>2
<1>4. m - 1 \in S
    BY <1>2, <1>3
<1>5. QED
    BY <1>2, <1>3, <1>4

-----------------------------------------------------------------------------
(* What one layer does to one cell.                                        *)

Cell == Value \cup {NULL}

IsLayer(layer) ==
    \/ layer.fn = "mask_redact" /\ layer.how \in Modes
    \/ layer.fn \in {"mask_fpe", "mask_unfpe"} /\ layer.how \in Formats

(* A profile changes a value only where it reaches.                        *)
LEMMA ChangedInReach ==
    ASSUME NEW format \in Formats, NEW value \in Value, NEW w,
           SameShape(value, w, ALNUM),
           format \in {"Digits", "Ssn", "Card"} => SameShape(value, w, DIGITS),
           format = "Email" /\ HasDomain(value) =>
               \A i \in LastAt(value)..Len(value) : w[i] = value[i],
           NEW i \in DOMAIN value, w[i] # value[i]
    PROVE  i \in Reach(format, value)
<1>1. CASE format \in {"Digits", "Ssn", "Card"}
    <2>1. Reach(format, value) = Positions(value, DIGITS)
        BY <1>1 DEF Reach
    <2>2. QED BY <1>1, <2>1 DEF SameShape
<1>2. CASE format = "Alnum"
    <2>1. Reach(format, value) = Positions(value, ALNUM)
        BY <1>2 DEF Reach
    <2>2. QED BY <2>1 DEF SameShape
<1>3. CASE format = "Email"
    <2> DEFINE n == Len(value)
               a == LastAt(value)
    <2>1. Reach(format, value)
          = {j \in Positions(value, ALNUM) :
                \/ \A m \in DOMAIN value : value[m] # At
                \/ value[n] = At
                \/ \E m \in (j + 1)..n : value[m] = At}
        BY <1>3 DEF Reach
    <2>2. i \in Positions(value, ALNUM)
        BY DEF SameShape
    <2>3. n \in Nat /\ i \in 1..n /\ a \in 0..n
        BY PositionsType, LastAtType
    <2>4. CASE a = 0
        <3>1. \A m \in DOMAIN value : value[m] # At
            BY <2>4, LastAtType
        <3>2. QED BY <2>1, <2>2, <3>1
    <2>5. CASE a = n
        <3>1. value[n] = At
            BY <2>3, <2>5, LastAtType
        <3>2. QED BY <2>1, <2>2, <3>1
    <2>6. CASE a \in 1..(n - 1)
        <3>1. \A j \in a..n : w[j] = value[j]
            BY <1>3, <2>6 DEF HasDomain
        <3>2. i < a
            BY <2>3, <2>6, <3>1
        <3>3. a \in (i + 1)..n /\ value[a] = At
            BY <2>3, <2>6, <3>2, LastAtType
        <3>4. QED BY <2>1, <2>2, <3>3
    <2>7. QED BY <2>3, <2>4, <2>5, <2>6
<1>4. QED
    BY <1>1, <1>2, <1>3 DEF Formats

(* A layer of one of the profiles on a value.                              *)
LEMMA ProfileLayer ==
    ASSUME Ff1Contract, NEW layer, IsLayer(layer), layer.fn # "mask_redact",
           NEW value \in Value
    PROVE  \E w \in Value :
              /\ LayerAnswer(layer, value) = Ok(w)
              /\ SameShape(value, w, ALNUM)
              /\ \A i \in DOMAIN value : w[i] # value[i] => i \in Reach(layer.how, value)
              /\ layer.how = "Card" /\ IsPan(value) => IsPan(w) /\ is_luhn_valid(w)
<1> DEFINE format == layer.how
           forward == layer.fn = "mask_fpe"
<1>1. format \in Formats /\ forward \in BOOLEAN
    BY DEF IsLayer
<1>2. LayerAnswer(layer, value) = fpe_dispatch(value, format, layer.key, forward)
    BY NullAssumption DEF LayerAnswer
<1> HIDE DEF format, forward
<1>3. PICK w \in Value :
          /\ fpe_dispatch(value, format, layer.key, forward) = Ok(w)
          /\ SameShape(value, w, ALNUM)
          /\ format \in {"Digits", "Ssn", "Card"} => SameShape(value, w, DIGITS)
          /\ format = "Email" /\ HasDomain(value) =>
                \A i \in LastAt(value)..Len(value) : w[i] = value[i]
          /\ format = "Card" /\ IsPanValue(value) => IsPanValue(w) /\ HasCheckDigit(w)
    BY <1>1, ProfilesKeepShape
<1>4. \A i \in DOMAIN value : w[i] # value[i] => i \in Reach(format, value)
    BY <1>1, <1>3, ChangedInReach
<1>5. format = "Card" /\ IsPan(value) => IsPan(w) /\ is_luhn_valid(w)
    <2>1. \A v : IsPan(v) <=> IsPanValue(v)
        BY DEF IsPan, PanDigits, IsPanValue
    <2>2. QED BY <1>3, <2>1, CheckDigitIsValid
<1>6. QED
    BY <1>2, <1>3, <1>4, <1>5 DEF format

(* What any layer keeps of a cell.                                         *)
Kin(layer, cell, w) ==
    /\ w \in Value /\ Len(w) = Len(cell)
    /\ \A i \in DOMAIN cell :
          /\ cell[i] = Star => w[i] = Star
          /\ cell[i] \notin Symbols(ALNUM) =>
                w[i] = cell[i] \/ (w[i] = Star /\ layer.fn = "mask_redact")

(* A layer answers NULL for NULL, and a value of the same length for a     *)
(* value: a character outside the alphabets stays or is starred, a star    *)
(* stays.  No layer fails.                                                 *)
LEMMA LayerKeeps ==
    ASSUME Ff1Contract, NEW layer, IsLayer(layer), NEW cell \in Cell
    PROVE  \E w \in Cell : /\ LayerAnswer(layer, cell) = Ok(w)
                           /\ cell = NULL => w = NULL
                           /\ cell # NULL => Kin(layer, cell, w)
<1>1. CASE cell = NULL
    BY <1>1 DEF LayerAnswer, Cell
<1>2. CASE cell # NULL /\ layer.fn = "mask_redact"
    <2> DEFINE w == redact(cell, layer.how)
    <2>1. cell \in Value
        BY <1>2 DEF Cell
    <2>2. LayerAnswer(layer, cell) = Ok(w)
        BY <1>2 DEF LayerAnswer
    <2>3. /\ w \in Value /\ Len(w) = Len(cell)
          /\ \A i \in DOMAIN cell : w[i] \in {cell[i], Star}
        BY <2>1, RedactKeepsLength
    <2> HIDE DEF w
    <2>4. Kin(layer, cell, w)
        BY <1>2, <2>3 DEF Kin
    <2>5. QED BY <1>2, <2>2, <2>3, <2>4 DEF Cell
<1>3. CASE cell # NULL /\ layer.fn # "mask_redact"
    <2>1. cell \in Value
        BY <1>3 DEF Cell
    <2>2. PICK w \in Value : LayerAnswer(layer, cell) = Ok(w) /\ SameShape(cell, w, ALNUM)
        BY <1>3, <2>1, ProfileLayer
    <2>3. Kin(layer, cell, w)
        BY <2>2, AlphabetAssumption DEF Kin, SameShape, Positions
    <2>4. QED BY <1>3, <2>2, <2>3 DEF Cell
<1>4. QED
    BY <1>1, <1>2, <1>3

(* A call in the other direction takes off a layer that kept the check     *)
(* digit.                                                                  *)
LEMMA LayerUndone ==
    ASSUME Ff1Contract, NEW a, NEW b, IsLayer(a), Undoes(b, a), NEW cell \in Cell,
           KeepsCheckDigit(a, cell), NEW w, LayerAnswer(a, cell) = Ok(w)
    PROVE  LayerAnswer(b, w) = Ok(cell)
<1>1. CASE cell = NULL
    <2>1. w = NULL
        BY <1>1 DEF LayerAnswer, Ok
    <2>2. QED BY <1>1, <2>1 DEF LayerAnswer
<1>2. CASE cell # NULL
    <2> DEFINE format == a.how
               forward == a.fn = "mask_fpe"
    <2>1. cell \in Value
        BY <1>2 DEF Cell
    <2>2. /\ a.fn # "mask_redact" /\ b.fn # "mask_redact"
          /\ b.how = a.how /\ b.key = a.key
          /\ (b.fn = "mask_fpe") = ~forward
        BY DEF Undoes
    <2>3. format \in Formats /\ forward \in BOOLEAN
        BY <2>2 DEF IsLayer
    <2>4. fpe_dispatch(cell, format, a.key, forward) = Ok(w)
        BY <1>2, <2>2 DEF LayerAnswer
    <2>5. w # NULL
        <3>1. \E v \in Value : LayerAnswer(a, cell) = Ok(v)
            BY <2>1, <2>2, ProfileLayer
        <3>2. QED BY <3>1, NullAssumption DEF Ok
    <2>6. LayerAnswer(b, w) = fpe_dispatch(w, format, a.key, ~forward)
        BY <2>2, <2>5 DEF LayerAnswer
    <2>7. format = "Card" /\ IsPanValue(cell) => HasCheckDigit(cell)
        BY <1>2, <2>1, CheckDigitIsValid
        DEF KeepsCheckDigit, IsPan, PanDigits, IsPanValue
    <2> HIDE DEF format, forward
    <2>8. fpe_dispatch(fpe_dispatch(cell, format, a.key, forward).val,
                       format, a.key, ~forward) = Ok(cell)
        BY <2>1, <2>3, <2>7, ProfilesRoundTrip
    <2>9. fpe_dispatch(cell, format, a.key, forward).val = w
        BY <2>4 DEF Ok
    <2>10. QED BY <2>6, <2>8, <2>9
<1>3. QED
    BY <1>1, <1>2

-----------------------------------------------------------------------------
(* What the worker promises a statement.                                   *)

(* A statement over a column of these cells.                               *)
IsStatement(cells, req) ==
    \/ \E fn \in Calls \ {"mask_redact"}, name \in Names, key \in Keys :
          name.word \in FormatWords /\ req = CryptRequest(cells, fn, name, key)
    \/ \E name \in Names :
          /\ "mask_redact" \in Calls /\ name.word \in ModeWords
          /\ req = RedactRequest(cells, name)

(* A call of a profile: the request it makes, the layer it is, and what    *)
(* each of its rows is promised.                                           *)
LEMMA CryptStatement ==
    ASSUME NEW cells \in Seq(Cell), Len(cells) # 0,
           NEW fn \in Calls \ {"mask_redact"}, NEW name \in Names, NEW key \in Keys,
           name.word \in FormatWords
    PROVE  LET req == CryptRequest(cells, fn, name, key)
           IN  /\ IsRequest(req) /\ NumRows(req) = Len(cells)
               /\ IsLayer(LayerOf(req))
               /\ LayerOf(req).fn = fn /\ LayerOf(req).key \in Keys
               /\ \A i \in 1..Len(cells) :
                     RowPromise(req, i) = LayerAnswer(LayerOf(req), cells[i])
<1> DEFINE n == Len(cells)
           req == CryptRequest(cells, fn, name, key)
<1>1. n \in Nat \ {0} /\ DOMAIN cells = 1..n /\ \A i \in 1..n : cells[i] \in Cell
    BY LenProperties, ElementOfSeq
<1>2. /\ req.fn = fn /\ DOMAIN req.args = 1..3
      /\ req.args[1] = [type |-> "Utf8", cells |-> cells]
      /\ req.args[2] = [type |-> "Utf8", cells |-> [i \in 1..n |-> name]]
      /\ req.args[3] = [type |-> "Utf8", cells |-> [i \in 1..n |-> key]]
    BY DEF CryptRequest, Stored, Literal
<1>3. fn \in {"mask_fpe", "mask_unfpe"}
    BY ColumnsAssumption DEF Functions, Arity
<1>4. PICK format \in Formats : FormatParse(name) = Ok(format)
    BY FormatNamesParse DEF FormatWords, Normalised
<1> HIDE DEF req, n
<1>5. NumRows(req) = n
    BY <1>2 DEF NumRows, n
<1>6. IsRequest(req)
    BY <1>1, <1>2, <1>3, <1>5 DEF IsRequest, Functions, Arity, Cell
<1>7. LayerOf(req) = [fn |-> fn, how |-> format, key |-> key]
    BY <1>1, <1>2, <1>3, <1>4 DEF LayerOf, Ok
<1>8. IsLayer(LayerOf(req)) /\ LayerOf(req).fn = fn /\ LayerOf(req).key \in Keys
    BY <1>3, <1>7 DEF IsLayer
<1>9. ASSUME NEW i \in 1..n
      PROVE  RowPromise(req, i) = LayerAnswer(LayerOf(req), cells[i])
    <2>1. ~Misread(req, i)
        BY <1>2 DEF Misread, TextTypes
    <2>2. /\ DOMAIN req.args = {1, 2, 3} /\ req.args[1].cells[i] = cells[i]
          /\ req.args[2].cells[i] = name /\ req.args[3].cells[i] = key
        BY <1>2
    <2>3. (\E a \in DOMAIN req.args : req.args[a].cells[i] = NULL) <=> cells[i] = NULL
        <3>1. name # NULL /\ key # NULL
            BY ColumnsAssumption
        <3>2. QED BY <2>2, <3>1
    <2>4. CASE cells[i] = NULL
        BY <2>1, <2>3, <2>4 DEF RowPromise, LayerAnswer
    <2>5. CASE cells[i] # NULL
        <3> DEFINE v == [a \in DOMAIN req.args |-> req.args[a].cells[i]]
        <3>1. RowPromise(req, i) = Apply(fn, v)
            BY <1>2, <2>1, <2>3, <2>5 DEF RowPromise
        <3>2. v[1] = cells[i] /\ v[2] = name /\ v[3] = key
            BY <2>2
        <3> HIDE DEF v
        <3>3. Apply(fn, v) = RunFpe(cells[i], name, key, fn = "mask_fpe")
            <4>1. CASE fn = "mask_fpe"
                BY <3>2, <4>1 DEF Apply
            <4>2. CASE fn = "mask_unfpe"
                BY <3>2, <4>2 DEF Apply
            <4>3. QED BY <1>3, <4>1, <4>2
        <3>4. RunFpe(cells[i], name, key, fn = "mask_fpe")
              = fpe_crypt(cells[i], format, key, fn = "mask_fpe")
            BY <1>4 DEF RunFpe, Ok, IsOk
        <3>5. fpe_crypt(cells[i], format, key, fn = "mask_fpe")
              = fpe_dispatch(cells[i], format, key, fn = "mask_fpe")
            BY ColumnsAssumption DEF fpe_crypt
        <3>6. LayerAnswer(LayerOf(req), cells[i])
              = fpe_dispatch(cells[i], format, key, fn = "mask_fpe")
            BY <1>3, <1>7, <2>5 DEF LayerAnswer
        <3>7. QED BY <3>1, <3>3, <3>4, <3>5, <3>6
    <2>6. QED BY <2>4, <2>5
<1>10. QED
    BY <1>5, <1>6, <1>8, <1>9 DEF req, n

(* The same for a redaction.                                               *)
LEMMA RedactStatement ==
    ASSUME NEW cells \in Seq(Cell), Len(cells) # 0,
           "mask_redact" \in Calls, NEW name \in Names, name.word \in ModeWords
    PROVE  LET req == RedactRequest(cells, name)
           IN  /\ IsRequest(req) /\ NumRows(req) = Len(cells)
               /\ IsLayer(LayerOf(req))
               /\ LayerOf(req).fn = "mask_redact" /\ LayerOf(req).key = None
               /\ \A i \in 1..Len(cells) :
                     RowPromise(req, i) = LayerAnswer(LayerOf(req), cells[i])
<1> DEFINE n == Len(cells)
           req == RedactRequest(cells, name)
<1>1. n \in Nat \ {0} /\ DOMAIN cells = 1..n /\ \A i \in 1..n : cells[i] \in Cell
    BY LenProperties, ElementOfSeq
<1>2. /\ req.fn = "mask_redact" /\ DOMAIN req.args = 1..2
      /\ req.args[1] = [type |-> "Utf8", cells |-> cells]
      /\ req.args[2] = [type |-> "Utf8", cells |-> [i \in 1..n |-> name]]
    BY DEF RedactRequest, Stored, Literal
<1>3. PICK mode \in Modes : ModeParse(name) = Ok(mode)
    BY ModeNamesParse DEF ModeWords, Normalised
<1> HIDE DEF req, n
<1>4. NumRows(req) = n
    BY <1>2 DEF NumRows, n
<1>5. IsRequest(req)
    BY <1>1, <1>2, <1>4 DEF IsRequest, Functions, Arity, Cell
<1>6. LayerOf(req) = [fn |-> "mask_redact", how |-> mode, key |-> None]
    BY <1>1, <1>2, <1>3 DEF LayerOf, Ok
<1>7. IsLayer(LayerOf(req)) /\ LayerOf(req).fn = "mask_redact" /\ LayerOf(req).key = None
    BY <1>6 DEF IsLayer
<1>8. ASSUME NEW i \in 1..n
      PROVE  RowPromise(req, i) = LayerAnswer(LayerOf(req), cells[i])
    <2>1. ~Misread(req, i)
        BY <1>2 DEF Misread, TextTypes
    <2>2. /\ DOMAIN req.args = {1, 2}
          /\ req.args[1].cells[i] = cells[i] /\ req.args[2].cells[i] = name
        BY <1>2
    <2>3. (\E a \in DOMAIN req.args : req.args[a].cells[i] = NULL) <=> cells[i] = NULL
        BY <2>2, ColumnsAssumption
    <2>4. CASE cells[i] = NULL
        BY <2>1, <2>3, <2>4 DEF RowPromise, LayerAnswer
    <2>5. CASE cells[i] # NULL
        <3> DEFINE v == [a \in DOMAIN req.args |-> req.args[a].cells[i]]
        <3>1. RowPromise(req, i) = Apply("mask_redact", v)
            BY <1>2, <2>1, <2>3, <2>5 DEF RowPromise
        <3>2. v[1] = cells[i] /\ v[2] = name
            BY <2>2
        <3> HIDE DEF v
        <3>3. Apply("mask_redact", v) = RunRedact(cells[i], name)
            BY <3>2 DEF Apply
        <3>4. RunRedact(cells[i], name) = Ok(redact(cells[i], mode))
            BY <1>3 DEF RunRedact, Ok, IsOk
        <3>5. LayerAnswer(LayerOf(req), cells[i]) = Ok(redact(cells[i], mode))
            BY <1>6, <2>5 DEF LayerAnswer
        <3>6. QED BY <3>1, <3>3, <3>4, <3>5
    <2>6. QED BY <2>4, <2>5
<1>9. QED
    BY <1>4, <1>5, <1>7, <1>8 DEF req, n

(* Any statement: what each of its rows is promised is what its layer      *)
(* answers, so the worker promises it a whole column.                      *)
LEMMA StatementAnswer ==
    ASSUME Ff1Contract, NEW cells \in Seq(Cell), Len(cells) # 0,
           NEW req, IsStatement(cells, req)
    PROVE  /\ IsRequest(req) /\ IsLayer(LayerOf(req))
           /\ LayerOf(req).fn \in Calls /\ LayerOf(req).key \in Keys \cup {None}
           /\ \E new \in Seq(Cell) :
                 /\ Batch!Answer(req) = Ok(new) /\ Len(new) = Len(cells)
                 /\ \A i \in 1..Len(cells) :
                       LayerAnswer(LayerOf(req), cells[i]) = Ok(new[i])
<1> DEFINE n == Len(cells)
           layer == LayerOf(req)
<1>1. /\ IsRequest(req) /\ NumRows(req) = n
      /\ IsLayer(layer) /\ layer.fn \in Calls /\ layer.key \in Keys \cup {None}
      /\ \A i \in 1..n : RowPromise(req, i) = LayerAnswer(layer, cells[i])
    <2>1. CASE \E fn \in Calls \ {"mask_redact"}, name \in Names, key \in Keys :
                  name.word \in FormatWords /\ req = CryptRequest(cells, fn, name, key)
        BY <2>1, CryptStatement
    <2>2. CASE \E name \in Names :
                  /\ "mask_redact" \in Calls /\ name.word \in ModeWords
                  /\ req = RedactRequest(cells, name)
        BY <2>2, RedactStatement
    <2>3. QED BY <2>1, <2>2 DEF IsStatement
<1>2. n \in Nat /\ \A i \in 1..n : cells[i] \in Cell
    BY LenProperties, ElementOfSeq
<1> HIDE DEF layer
<1>3. \A i \in 1..n : \E w \in Cell : LayerAnswer(layer, cells[i]) = Ok(w)
    BY <1>1, <1>2, LayerKeeps
<1> DEFINE new == [i \in 1..n |-> LayerAnswer(layer, cells[i]).val]
<1>4. ASSUME NEW i \in 1..n
      PROVE  new[i] \in Cell /\ LayerAnswer(layer, cells[i]) = Ok(new[i])
    <2>1. PICK w \in Cell : LayerAnswer(layer, cells[i]) = Ok(w)
        BY <1>3
    <2>2. new[i] = w
        BY <2>1 DEF Ok
    <2>3. QED BY <2>1, <2>2
<1>5. new \in [1..n -> Cell]
    BY <1>4
<1> HIDE DEF new
<1>6. new \in Seq(Cell) /\ Len(new) = n
    BY <1>2, <1>5, SeqDef
<1>7. ASSUME NEW i \in 1..n
      PROVE  IsOk(RowPromise(req, i)) /\ new[i] = RowPromise(req, i).val
    <2>1. RowPromise(req, i) = Ok(new[i])
        BY <1>1, <1>4
    <2>2. QED BY <2>1 DEF Ok, IsOk
<1>8. Batch!Answer(req) = Ok(new)
    BY <1>1, <1>2, <1>6, <1>7, WholeColumn
<1>9. QED
    BY <1>1, <1>4, <1>6, <1>8 DEF layer

-----------------------------------------------------------------------------
(* The inductive invariant of columns and worker.                          *)

(* A request in progress is a statement over the column as it is, for a    *)
(* table waits for its statement to end; and each layer is a call with one *)
(* of its own profiles or modes.                                           *)
ColumnsInv ==
    /\ BatchInv
    /\ ColumnsTypeOK
    /\ \A t \in Tables :
          /\ request[t] # None => IsStatement(column[t], request[t])
          /\ \A k \in DOMAIN layers[t] : IsLayer(layers[t][k])

(* A column is never empty.                                                *)
LEMMA ColumnType ==
    ASSUME ColumnsInv, NEW t \in Tables
    PROVE  /\ column[t] \in Seq(Cell) /\ Len(column[t]) \in Nat \ {0}
           /\ DOMAIN column[t] = 1..Len(column[t])
           /\ origin[t] \in Seq(Cell) /\ Len(origin[t]) = Len(column[t])
           /\ DOMAIN origin[t] = DOMAIN column[t]
           /\ layers[t] \in Seq(LayerFields) /\ Len(layers[t]) \in Nat
           /\ DOMAIN layers[t] = 1..Len(layers[t])
<1>1. /\ column[t] \in Seq(Cell) /\ Len(column[t]) = Len(origin[t])
      /\ origin[t] \in Originals /\ layers[t] \in Seq(LayerFields)
    BY DEF ColumnsInv, ColumnsTypeOK, Cell
<1>2. origin[t] \in Seq(Cell) /\ origin[t] # <<>>
    BY <1>1, ColumnsAssumption DEF Cell
<1>3. Len(origin[t]) # 0
    BY <1>2, EmptySeq
<1>4. QED
    BY <1>1, <1>2, <1>3, LenProperties

(* A reply that waits is the column of answers of the statement's layer.   *)
LEMMA ReplyIsColumn ==
    ASSUME Ff1Contract, ColumnsInv, NEW t \in Tables, reply[t] # None
    PROVE  LET layer == LayerOf(request[t])
           IN  /\ IsLayer(layer) /\ layer.fn \in Calls /\ layer.key \in Keys \cup {None}
               /\ IsOk(reply[t])
               /\ reply[t].val \in Seq(Cell) /\ Len(reply[t].val) = Len(column[t])
               /\ \A r \in 1..Len(column[t]) :
                     LayerAnswer(layer, column[t][r]) = Ok(reply[t].val[r])
<1>1. IsStatement(column[t], request[t])
    BY DEF ColumnsInv, ColumnsTypeOK, TypeOK, Tables
<1>2. reply[t] = Batch!Answer(request[t])
    BY DEF ColumnsInv, BatchInv, ReplyPromised, Tables
<1>3. column[t] \in Seq(Cell) /\ Len(column[t]) # 0
    BY ColumnType
<1>4. QED
    BY <1>1, <1>2, <1>3, StatementAnswer DEF Ok, IsOk

(* The statement of one table ends: no other table changes.                *)
LEMMA CommitElsewhere ==
    ASSUME ColumnsInv, NEW t \in Tables, Commit(t)
    PROVE  /\ origin' = origin
           /\ DOMAIN column' = Tables /\ DOMAIN layers' = Tables /\ DOMAIN lost' = Tables
           /\ \A u \in Tables \ {t} :
                 column'[u] = column[u] /\ layers'[u] = layers[u] /\ lost'[u] = lost[u]
BY DEF ColumnsInv, ColumnsTypeOK, Commit

(* Its column becomes the one its layer answers.                           *)
LEMMA CommitColumn ==
    ASSUME Ff1Contract, ColumnsInv, NEW t \in Tables, Commit(t)
    PROVE  LET layer == LayerOf(request[t])
           IN  /\ IsLayer(layer) /\ layer.fn \in Calls /\ layer.key \in Keys \cup {None}
               /\ column'[t] \in Seq(Cell) /\ Len(column'[t]) = Len(column[t])
               /\ \A r \in 1..Len(column[t]) :
                     LayerAnswer(layer, column[t][r]) = Ok(column'[t][r])
<1>1. reply[t] # None /\ column' = [column EXCEPT ![t] = reply[t].val]
    BY DEF Commit, Collect
<1>2. column'[t] = reply[t].val
    BY <1>1 DEF ColumnsInv, ColumnsTypeOK
<1>3. QED
    BY <1>1, <1>2, ReplyIsColumn

(* If it undoes the layer on top, that layer comes off ...                 *)
LEMMA CommitUndo ==
    ASSUME ColumnsInv, NEW t \in Tables, Commit(t), UndoesTop(t, LayerOf(request[t]))
    PROVE  LET n == Len(layers[t])
           IN  /\ n \in Nat \ {0} /\ Undoes(LayerOf(request[t]), layers[t][n])
               /\ layers'[t] \in Seq(LayerFields) /\ Len(layers'[t]) = n - 1
               /\ \A k \in 1..(n - 1) : layers'[t][k] = layers[t][k]
               /\ lost'[t] = lost[t]
<1> DEFINE n == Len(layers[t])
<1>1. /\ n \in Nat /\ layers[t] \in Seq(LayerFields)
      /\ \A k \in 1..n : layers[t][k] \in LayerFields
    BY ColumnType, ElementOfSeq
<1>2. n # 0 /\ Undoes(LayerOf(request[t]), layers[t][n])
    BY <1>1, EmptySeq DEF UndoesTop, Top
<1>3. layers'[t] = SubSeq(layers[t], 1, n - 1)
    BY DEF Commit, ColumnsInv, ColumnsTypeOK
<1>4. lost'[t] = lost[t]
    BY DEF Commit, ColumnsInv, ColumnsTypeOK
<1> HIDE DEF n
<1>5. /\ layers'[t] \in Seq(LayerFields) /\ Len(layers'[t]) = n - 1
      /\ \A k \in 1..(n - 1) : layers'[t][k] = layers[t][k]
    <2>1. /\ SubSeq(layers[t], 1, n - 1) \in Seq(LayerFields)
          /\ Len(SubSeq(layers[t], 1, n - 1)) = IF 1 <= n - 1 THEN (n - 1) - 1 + 1 ELSE 0
          /\ \A k \in 1..((n - 1) - 1 + 1) :
                SubSeq(layers[t], 1, n - 1)[k] = layers[t][1 + k - 1]
        BY <1>1, SubSeqProperties
    <2>2. QED BY <1>1, <1>2, <1>3, <2>1
<1>6. QED
    BY <1>1, <1>2, <1>4, <1>5 DEF n

(* ... else it is a layer of its own.                                      *)
LEMMA CommitLayer ==
    ASSUME Ff1Contract, ColumnsInv, NEW t \in Tables, Commit(t),
           ~UndoesTop(t, LayerOf(request[t]))
    PROVE  LET n == Len(layers[t])
               layer == LayerOf(request[t])
           IN  /\ layers'[t] \in Seq(LayerFields) /\ Len(layers'[t]) = n + 1
               /\ \A k \in 1..n : layers'[t][k] = layers[t][k]
               /\ layers'[t][n + 1].fn = layer.fn /\ layers'[t][n + 1].how = layer.how
               /\ layers'[t][n + 1].key = layer.key
               /\ layers'[t][n + 1].before = column[t]
               /\ lost'[t] = lost[t] \cup
                     {r \in DOMAIN column[t] : ~KeepsCheckDigit(layer, column[t][r])}
<1> DEFINE n == Len(layers[t])
           layer == LayerOf(request[t])
           top == [fn |-> layer.fn, how |-> layer.how, key |-> layer.key,
                   before |-> column[t]]
<1>1. n \in Nat /\ layers[t] \in Seq(LayerFields)
    BY ColumnType
<1>2. layers'[t] = Append(layers[t], top)
    BY DEF Commit, ColumnsInv, ColumnsTypeOK
<1>3. lost'[t] = lost[t] \cup
          {r \in DOMAIN column[t] : ~KeepsCheckDigit(layer, column[t][r])}
    BY DEF Commit, ColumnsInv, ColumnsTypeOK
<1>4. top \in LayerFields
    <2>1. /\ IsLayer(layer) /\ layer.fn \in Calls /\ layer.key \in Keys \cup {None}
        BY CommitColumn
    <2>2. layer.how \in Formats \cup Modes
        BY <2>1 DEF IsLayer
    <2>3. column[t] \in Seq(Value \cup {NULL})
        BY ColumnType DEF Cell
    <2> HIDE DEF layer
    <2>4. QED BY <2>1, <2>2, <2>3 DEF LayerFields
<1>5. /\ top.fn = layer.fn /\ top.how = layer.how /\ top.key = layer.key
      /\ top.before = column[t]
    OBVIOUS
<1> HIDE DEF n, layer, top
<1>6. /\ layers'[t] \in Seq(LayerFields) /\ Len(layers'[t]) = n + 1
      /\ \A k \in 1..n : layers'[t][k] = layers[t][k]
      /\ layers'[t][n + 1] = top
    BY <1>1, <1>2, <1>4, AppendProperties DEF n
<1>7. QED
    BY <1>3, <1>5, <1>6 DEF n, layer

(* A statement that starts is a request of the worker.                     *)
LEMMA StartKeepsColumnsInv ==
    ASSUME Ff1Contract, ColumnsInv, NEW t \in Tables, NEW req,
           IsStatement(column[t], req), Statement(t, req)
    PROVE  ColumnsInv'
<1>1. /\ t \in Connections /\ Submit(t, req) /\ UNCHANGED <<column, origin, layers, lost>>
      /\ request' = [request EXCEPT ![t] = req]
    BY DEF Statement, Submit, Tables
<1>2. IsRequest(req)
    BY ColumnType, StatementAnswer
<1>3. IInv'
    BY <1>1, <1>2, SubmitKeepsIInv DEF ColumnsInv, BatchInv
<1>4. PrefixPromised' /\ ReplyPromised'
    BY <1>1, SubmitPromised, RepliesStayPromised DEF ColumnsInv
<1>5. ColumnsTypeOK'
    BY <1>1, <1>3 DEF ColumnsInv, ColumnsTypeOK, IInv
<1>6. \A u \in Tables : request'[u] # None => IsStatement(column[u], request'[u])
    BY <1>1 DEF ColumnsInv, BatchInv, IInv, TypeOK, Tables
<1>7. QED
    BY <1>1, <1>3, <1>4, <1>5, <1>6 DEF ColumnsInv, BatchInv

(* The worker's steps change no column.                                    *)
LEMMA WorkKeepsColumnsInv ==
    ASSUME Ff1Contract, HmacContract, ColumnsInv, NEW t \in Tables, Work(t)
    PROVE  ColumnsInv'
<1>1. t \in Connections /\ Process(t) /\ UNCHANGED <<column, origin, layers, lost>>
    BY DEF Work, Tables
<1>2. IInv'
    BY <1>1, ProcessKeepsIInv DEF ColumnsInv, BatchInv
<1>3. PrefixPromised' /\ ReplyPromised'
    BY <1>1, ProcessPromised, RepliesStayPromised DEF ColumnsInv
<1>4. request' = request
    BY <1>1 DEF Process, UnreadableRow, NullRow, ValueRow, ErrorRow, Finish,
                Return, AppendCell
<1>5. ColumnsTypeOK'
    BY <1>1, <1>2 DEF ColumnsInv, ColumnsTypeOK, IInv
<1>6. QED
    BY <1>1, <1>2, <1>3, <1>4, <1>5 DEF ColumnsInv, BatchInv

(* The end of a statement.                                                 *)
LEMMA CommitKeepsColumnsInv ==
    ASSUME Ff1Contract, ColumnsInv, NEW t \in Tables, Commit(t)
    PROVE  ColumnsInv'
<1> DEFINE n == Len(layers[t])
<1>1. t \in Connections /\ Collect(t) /\ request' = [request EXCEPT ![t] = None]
    BY DEF Commit, Collect, Tables
<1>2. IInv'
    BY <1>1, CollectKeepsIInv DEF ColumnsInv, BatchInv
<1>3. PrefixPromised' /\ ReplyPromised'
    BY <1>1, CollectPromised, RepliesStayPromised DEF ColumnsInv
<1>4. /\ origin' = origin
      /\ DOMAIN column' = Tables /\ DOMAIN layers' = Tables /\ DOMAIN lost' = Tables
      /\ \A u \in Tables \ {t} :
            column'[u] = column[u] /\ layers'[u] = layers[u] /\ lost'[u] = lost[u]
    BY CommitElsewhere
<1>5. column'[t] \in Seq(Cell) /\ Len(column'[t]) = Len(column[t])
    BY CommitColumn
<1>6. /\ layers'[t] \in Seq(LayerFields)
      /\ \A k \in DOMAIN layers'[t] : /\ IsLayer(layers'[t][k])
                                      /\ Len(layers'[t][k].before) = Len(origin[t])
      /\ lost'[t] \subseteq DOMAIN origin[t]
    <2>1. /\ n \in Nat /\ DOMAIN layers[t] = 1..n /\ Len(column[t]) = Len(origin[t])
          /\ DOMAIN column[t] = DOMAIN origin[t]
        BY ColumnType
    <2>2. /\ \A k \in 1..n : /\ IsLayer(layers[t][k])
                              /\ Len(layers[t][k].before) = Len(origin[t])
          /\ lost[t] \subseteq DOMAIN origin[t]
        BY <2>1 DEF ColumnsInv, ColumnsTypeOK
    <2>3. CASE UndoesTop(t, LayerOf(request[t]))
        <3>1. /\ layers'[t] \in Seq(LayerFields) /\ Len(layers'[t]) = n - 1
              /\ \A k \in 1..(n - 1) : layers'[t][k] = layers[t][k]
              /\ lost'[t] = lost[t]
            BY <2>3, CommitUndo
        <3>2. DOMAIN layers'[t] = 1..(n - 1)
            BY <3>1, LenProperties
        <3>3. \A k \in 1..(n - 1) : k \in 1..n
            BY <2>1
        <3> HIDE DEF n
        <3>4. QED BY <2>1, <2>2, <3>1, <3>2, <3>3
    <2>4. CASE ~UndoesTop(t, LayerOf(request[t]))
        <3> DEFINE layer == LayerOf(request[t])
        <3>1. /\ layers'[t] \in Seq(LayerFields) /\ Len(layers'[t]) = n + 1
              /\ \A k \in 1..n : layers'[t][k] = layers[t][k]
              /\ layers'[t][n + 1].fn = layer.fn /\ layers'[t][n + 1].how = layer.how
              /\ layers'[t][n + 1].before = column[t]
              /\ lost'[t] \subseteq lost[t] \cup DOMAIN column[t]
            BY <2>4, CommitLayer
        <3>2. DOMAIN layers'[t] = 1..(n + 1)
            BY <3>1, LenProperties
        <3>3. IsLayer(layer)
            BY CommitColumn
        <3> HIDE DEF layer
        <3>4. IsLayer(layers'[t][n + 1])
            BY <3>1, <3>3 DEF IsLayer
        <3>5. \A k \in 1..(n + 1) : k \in 1..n \/ k = n + 1
            BY <2>1
        <3> HIDE DEF n
        <3>6. QED BY <2>1, <2>2, <3>1, <3>2, <3>4, <3>5
    <2>5. QED BY <2>3, <2>4
<1> HIDE DEF n
<1>7. ColumnsTypeOK'
    <2>1. TypeOK'
        BY <1>2 DEF IInv
    <2>2. column'[t] \in Seq(Value \cup {NULL}) /\ Len(column'[t]) = Len(origin[t])
        BY <1>5, ColumnType DEF Cell
    <2>3. QED BY <1>4, <1>6, <2>1, <2>2 DEF ColumnsInv, ColumnsTypeOK
<1>8. \A u \in Tables : request'[u] # None => IsStatement(column'[u], request'[u])
    BY <1>1, <1>4 DEF ColumnsInv, BatchInv, IInv, TypeOK, Tables
<1>9. \A u \in Tables : \A k \in DOMAIN layers'[u] : IsLayer(layers'[u][k])
    BY <1>4, <1>6 DEF ColumnsInv
<1>10. QED
    BY <1>2, <1>3, <1>7, <1>8, <1>9 DEF ColumnsInv, BatchInv

(* A step ends a statement or changes no column.                           *)
LEMMA StepCases ==
    ASSUME [ColumnsNext]_columnsVars
    PROVE  \/ \E t \in Tables : Commit(t)
           \/ UNCHANGED <<column, origin, layers, lost>>
BY DEF ColumnsNext, columnsVars, Crypt, Redact, Statement, Work

(* Every step keeps the invariant.                                         *)
LEMMA StepKeepsColumnsInv ==
    ASSUME Ff1Contract, HmacContract, ColumnsInv, [ColumnsNext]_columnsVars
    PROVE  ColumnsInv'
<1>1. CASE UNCHANGED columnsVars
    <2>1. [Next]_vars /\ UNCHANGED <<column, origin, layers, lost>> /\ request' = request
        BY <1>1 DEF columnsVars, vars
    <2>2. IInv' /\ PrefixPromised' /\ ReplyPromised'
        BY <2>1, StepKeepsIInv, StepImplements DEF ColumnsInv, BatchInv
    <2>3. ColumnsTypeOK'
        BY <2>1, <2>2 DEF ColumnsInv, ColumnsTypeOK, IInv
    <2>4. QED BY <2>1, <2>2, <2>3 DEF ColumnsInv, BatchInv
<1>2. ASSUME NEW t \in Tables, Crypt(t)
      PROVE  ColumnsInv'
    <2>1. \E req : IsStatement(column[t], req) /\ Statement(t, req)
        BY <1>2 DEF Crypt, IsStatement
    <2>2. QED BY <2>1, StartKeepsColumnsInv
<1>3. ASSUME NEW t \in Tables, Redact(t)
      PROVE  ColumnsInv'
    <2>1. \E req : IsStatement(column[t], req) /\ Statement(t, req)
        BY <1>3 DEF Redact, IsStatement
    <2>2. QED BY <2>1, StartKeepsColumnsInv
<1>4. ASSUME NEW t \in Tables, Work(t)
      PROVE  ColumnsInv'
    BY <1>4, WorkKeepsColumnsInv
<1>5. ASSUME NEW t \in Tables, Commit(t)
      PROVE  ColumnsInv'
    BY <1>5, CommitKeepsColumnsInv
<1>6. QED
    BY <1>1, <1>2, <1>3, <1>4, <1>5 DEF ColumnsNext

(* The clients start in the invariant.                                     *)
LEMMA InitColumnsInv == ColumnsInit => ColumnsInv
<1> SUFFICES ASSUME ColumnsInit PROVE ColumnsInv
    OBVIOUS
<1>1. IInv /\ PrefixPromised /\ ReplyPromised
    <2>1. PrefixPromised /\ ReplyPromised
        BY DEF ColumnsInit, Init, PrefixPromised, ReplyPromised, Running
    <2>2. QED BY <2>1, InitIInv DEF ColumnsInit
<1>2. /\ origin \in [Tables -> Originals] /\ column = origin
      /\ layers = [t \in Tables |-> <<>>] /\ lost = [t \in Tables |-> {}]
      /\ request = [t \in Tables |-> None]
    BY DEF ColumnsInit, Init, Tables
<1>3. /\ \A t \in Tables : column[t] \in Seq(Value \cup {NULL})
      /\ <<>> \in Seq(LayerFields) /\ DOMAIN <<>> = {}
    BY <1>2, ColumnsAssumption, EmptySeq
<1>4. ColumnsTypeOK
    BY <1>1, <1>2, <1>3 DEF ColumnsTypeOK, IInv
<1>5. QED
    BY <1>1, <1>2, <1>3, <1>4 DEF ColumnsInv, BatchInv

(* Columns, layers and lost rows have their types in every reachable       *)
(* state, and no statement changes the number of rows.                     *)
THEOREM ColumnsTypeCorrect ==
    ASSUME Ff1Contract, HmacContract
    PROVE  ColumnsSpec => []ColumnsTypeOK
<1>1. ColumnsInv /\ [ColumnsNext]_columnsVars => ColumnsInv'
    BY StepKeepsColumnsInv
<1>2. ColumnsInv => ColumnsTypeOK
    BY DEF ColumnsInv
<1>3. QED
    BY <1>1, <1>2, InitColumnsInv, PTL DEF ColumnsSpec

(* No statement with a known name and a non-empty key is ever refused,     *)
(* whatever earlier statements have made of the column.                    *)
THEOREM NothingIsRefused ==
    ASSUME Ff1Contract, HmacContract
    PROVE  ColumnsSpec => []NeverRefused
<1>1. ColumnsInv /\ [ColumnsNext]_columnsVars => ColumnsInv'
    BY StepKeepsColumnsInv
<1>2. ColumnsInv => NeverRefused
    BY ReplyIsColumn DEF NeverRefused
<1>3. QED
    BY <1>1, <1>2, InitColumnsInv, PTL DEF ColumnsSpec

-----------------------------------------------------------------------------
(* The levels of a column: Onion made inductive.                           *)

(* The rows whose original can still be told.                              *)
Traceable(t) == DOMAIN origin[t] \ lost[t]

(* No layer over such a row has overwritten a check digit: without it a    *)
(* call in the other direction need not give the level below.              *)
DigitsKept == \A t \in Tables : \A r \in Traceable(t), k \in DOMAIN layers[t] :
    KeepsCheckDigit(layers[t][k], Level(t, k)[r])

OnionInv == ColumnsInv /\ Onion /\ DigitsKept

(* The calls of two layers, whatever the cells before them.                *)
SameCall(a, b) == a.fn = b.fn /\ a.how = b.how /\ a.key = b.key

(* What a layer does to a cell is its call's alone.                        *)
LEMMA SameCallAnswers ==
    ASSUME NEW a, NEW b, SameCall(a, b), NEW cell
    PROVE  /\ LayerAnswer(a, cell) = LayerAnswer(b, cell)
           /\ KeepsCheckDigit(a, cell) <=> KeepsCheckDigit(b, cell)
BY DEF SameCall, LayerAnswer, KeepsCheckDigit

(* Every level has a cell in every row; the one over the last layer is the *)
(* column.                                                                 *)
LEMMA LevelCells ==
    ASSUME ColumnsInv, NEW t \in Tables
    PROVE  LET n == Len(layers[t])
           IN  /\ Level(t, n + 1) = column[t]
               /\ \A k \in 1..n : Level(t, k) = layers[t][k].before
               /\ \A k \in 1..(n + 1) : \A r \in DOMAIN origin[t] :
                     Level(t, k)[r] \in Cell
<1> DEFINE n == Len(layers[t])
<1>1. /\ n \in Nat /\ DOMAIN layers[t] = 1..n
      /\ column[t] \in Seq(Cell) /\ DOMAIN column[t] = DOMAIN origin[t]
      /\ DOMAIN origin[t] = 1..Len(origin[t])
      /\ \A k \in 1..n : layers[t][k] \in LayerFields
    BY ColumnType, ElementOfSeq
<1>2. /\ \A k \in 1..n : Level(t, k) = layers[t][k].before
      /\ Level(t, n + 1) = column[t]
    BY <1>1 DEF Level
<1>3. ASSUME NEW k \in 1..(n + 1), NEW r \in DOMAIN origin[t]
      PROVE  Level(t, k)[r] \in Cell
    <2>1. CASE k \in 1..n
        <3>1. layers[t][k].before \in Seq(Cell)
            BY <1>1, <2>1 DEF LayerFields, Cell
        <3>2. Len(layers[t][k].before) = Len(origin[t])
            BY <1>1, <2>1 DEF ColumnsInv, ColumnsTypeOK
        <3>3. QED BY <1>1, <1>2, <1>3, <2>1, <3>1, <3>2, ElementOfSeq
    <2>2. CASE k = n + 1
        BY <1>1, <1>2, <1>3, <2>2, ElementOfSeq, LenProperties
    <2>3. QED BY <1>1, <2>1, <2>2
<1>4. QED
    BY <1>2, <1>3

(* A table whose statement does not end keeps its levels.                  *)
LEMMA LevelsElsewhere ==
    ASSUME ColumnsInv, NEW t \in Tables, Commit(t), NEW u \in Tables \ {t}
    PROVE  /\ layers'[u] = layers[u] /\ Traceable(u)' = Traceable(u)
           /\ \A k : Level(u, k)' = Level(u, k)
BY CommitElsewhere DEF Level, Traceable

(* A call that takes a layer off restores, in every row still told apart,  *)
(* the cell the layer was put over; the levels below stay.                 *)
LEMMA LevelsUndone ==
    ASSUME Ff1Contract, OnionInv, NEW t \in Tables, Commit(t),
           UndoesTop(t, LayerOf(request[t])), NEW n, n = Len(layers[t])
    PROVE  /\ n \in Nat \ {0} /\ Undoes(LayerOf(request[t]), layers[t][n])
           /\ Len(layers'[t]) = n - 1
           /\ \A k \in 1..(n - 1) : layers'[t][k] = layers[t][k]
           /\ Traceable(t)' = Traceable(t)
           /\ \A k \in 1..n : \A r \in Traceable(t) : Level(t, k)'[r] = Level(t, k)[r]
<1> DEFINE layer == LayerOf(request[t])
<1>1. /\ n \in Nat \ {0} /\ DOMAIN layers[t] = 1..n /\ Undoes(layer, layers[t][n])
      /\ Len(layers'[t]) = n - 1
      /\ \A k \in 1..(n - 1) : layers'[t][k] = layers[t][k]
      /\ lost'[t] = lost[t] /\ origin' = origin
    BY CommitUndo, CommitElsewhere, ColumnType DEF OnionInv
<1>2. Traceable(t)' = Traceable(t)
    BY <1>1 DEF Traceable
<1> HIDE DEF layer
<1>3. ASSUME NEW k \in 1..(n - 1)
      PROVE  Level(t, k)' = Level(t, k)
    <2>1. Level(t, k)' = layers'[t][k].before
        BY <1>1, <1>3 DEF Level
    <2>2. Level(t, k) = layers[t][k].before
        BY <1>1, <1>3 DEF Level
    <2>3. QED BY <1>1, <1>3, <2>1, <2>2
<1>4. Level(t, n)' = column'[t]
    BY <1>1 DEF Level
<1>5. ASSUME NEW r \in Traceable(t)
      PROVE  column'[t][r] = Level(t, n)[r]
    <2> DEFINE cell == Level(t, n)[r]
    <2>1. r \in DOMAIN origin[t] /\ r \in 1..Len(column[t])
        BY ColumnType DEF OnionInv, Traceable
    <2>2. cell \in Cell /\ Level(t, n + 1) = column[t]
        BY <1>1, <2>1, LevelCells DEF OnionInv
    <2>3. LayerAnswer(layers[t][n], cell) = Ok(column[t][r])
        BY <1>1, <2>2 DEF OnionInv, Onion, Traceable
    <2>4. IsLayer(layers[t][n]) /\ KeepsCheckDigit(layers[t][n], cell)
        BY <1>1 DEF OnionInv, ColumnsInv, DigitsKept
    <2>5. LayerAnswer(layer, column[t][r]) = Ok(column'[t][r])
        BY <2>1, CommitColumn DEF OnionInv, layer
    <2> HIDE DEF cell
    <2>6. LayerAnswer(layer, column[t][r]) = Ok(cell)
        BY <1>1, <2>2, <2>3, <2>4, LayerUndone
    <2>7. QED BY <2>5, <2>6 DEF Ok, cell
<1>6. \A k \in 1..n : k \in 1..(n - 1) \/ k = n
    BY <1>1
<1>7. QED
    BY <1>1, <1>2, <1>3, <1>4, <1>5, <1>6 DEF layer

(* A call that is a layer of its own puts one level over the others.       *)
LEMMA LevelsAdded ==
    ASSUME Ff1Contract, ColumnsInv, NEW t \in Tables, Commit(t),
           ~UndoesTop(t, LayerOf(request[t])), NEW n, n = Len(layers[t])
    PROVE  /\ n \in Nat /\ Len(layers'[t]) = n + 1
           /\ \A k \in 1..n : layers'[t][k] = layers[t][k]
           /\ SameCall(layers'[t][n + 1], LayerOf(request[t]))
           /\ \A k \in 1..(n + 1) : Level(t, k)' = Level(t, k)
           /\ Level(t, n + 2)' = column'[t]
           /\ Traceable(t)' = {r \in Traceable(t) : KeepsCheckDigit(LayerOf(request[t]),
                                                          column[t][r])}
<1> DEFINE layer == LayerOf(request[t])
<1>1. /\ n \in Nat /\ Len(layers'[t]) = n + 1
      /\ \A k \in 1..n : layers'[t][k] = layers[t][k]
      /\ SameCall(layers'[t][n + 1], layer) /\ layers'[t][n + 1].before = column[t]
      /\ lost'[t] = lost[t] \cup
            {r \in DOMAIN column[t] : ~KeepsCheckDigit(layer, column[t][r])}
      /\ origin' = origin /\ DOMAIN column[t] = DOMAIN origin[t]
    BY CommitLayer, CommitElsewhere, ColumnType DEF SameCall
<1>2. /\ Level(t, n + 1) = column[t]
      /\ \A k \in 1..n : Level(t, k) = layers[t][k].before
    BY LevelCells
<1> HIDE DEF layer
<1>3. \A k \in 1..(n + 1) : Level(t, k)' = layers'[t][k].before
    BY <1>1 DEF Level
<1>4. Level(t, n + 2)' = column'[t]
    BY <1>1 DEF Level
<1>5. \A k \in 1..(n + 1) : k \in 1..n \/ k = n + 1
    BY <1>1
<1>6. Traceable(t)' = {r \in Traceable(t) : KeepsCheckDigit(layer, column[t][r])}
    BY <1>1 DEF Traceable
<1>7. QED
    BY <1>1, <1>2, <1>3, <1>4, <1>5, <1>6 DEF layer

(* The end of a statement keeps the onion: what it adds is a layer of its  *)
(* own, what it takes off bares the level below.                           *)
LEMMA CommitKeepsOnion ==
    ASSUME Ff1Contract, OnionInv, NEW t \in Tables, Commit(t)
    PROVE  Onion' /\ DigitsKept'
<1>1. origin' = origin
    BY CommitElsewhere DEF OnionInv
<1>2. ASSUME NEW u \in Tables \ {t}, NEW r \in Traceable(u)'
      PROVE  /\ Level(u, 1)'[r] = origin'[u][r]
             /\ \A k \in DOMAIN layers'[u] :
                   /\ LayerAnswer(layers'[u][k], Level(u, k)'[r])
                      = Ok(Level(u, k + 1)'[r])
                   /\ KeepsCheckDigit(layers'[u][k], Level(u, k)'[r])
    <2>1. /\ layers'[u] = layers[u] /\ r \in Traceable(u)
          /\ \A k : Level(u, k)' = Level(u, k)
        BY <1>2, LevelsElsewhere DEF OnionInv
    <2>2. QED BY <1>1, <2>1 DEF OnionInv, Onion, DigitsKept, Traceable
<1>3. ASSUME NEW r \in Traceable(t)'
      PROVE  /\ Level(t, 1)'[r] = origin'[t][r]
             /\ \A k \in DOMAIN layers'[t] :
                   /\ LayerAnswer(layers'[t][k], Level(t, k)'[r])
                      = Ok(Level(t, k + 1)'[r])
                   /\ KeepsCheckDigit(layers'[t][k], Level(t, k)'[r])
    <2>1. PICK n : n = Len(layers[t])
        OBVIOUS
    <2>2. ColumnsInv' /\ layers'[t] \in Seq(LayerFields)
        BY CommitKeepsColumnsInv DEF OnionInv, ColumnsInv, ColumnsTypeOK
    <2>3. ASSUME r \in Traceable(t)
          PROVE  /\ Level(t, 1)[r] = origin[t][r]
                 /\ \A k \in 1..n :
                       /\ LayerAnswer(layers[t][k], Level(t, k)[r])
                          = Ok(Level(t, k + 1)[r])
                       /\ KeepsCheckDigit(layers[t][k], Level(t, k)[r])
        <3>1. DOMAIN layers[t] = 1..n
            BY <2>1, ColumnType DEF OnionInv
        <3>2. QED BY <2>3, <3>1 DEF OnionInv, Onion, DigitsKept, Traceable
    <2>4. CASE UndoesTop(t, LayerOf(request[t]))
        <3>1. /\ n \in Nat \ {0} /\ Len(layers'[t]) = n - 1
              /\ \A k \in 1..(n - 1) : layers'[t][k] = layers[t][k]
              /\ r \in Traceable(t)
              /\ \A k \in 1..n : Level(t, k)'[r] = Level(t, k)[r]
            BY <1>3, <2>1, <2>4, LevelsUndone
        <3>2. DOMAIN layers'[t] = 1..(n - 1)
            BY <2>2, <3>1, LenProperties
        <3>3. /\ 1 \in 1..n
              /\ \A k \in 1..(n - 1) : k \in 1..n /\ k + 1 \in 1..n
            BY <3>1
        <3>4. Level(t, 1)'[r] = origin'[t][r]
            BY <1>1, <2>3, <3>1, <3>3
        <3>5. ASSUME NEW k \in 1..(n - 1)
              PROVE  /\ LayerAnswer(layers'[t][k], Level(t, k)'[r])
                        = Ok(Level(t, k + 1)'[r])
                     /\ KeepsCheckDigit(layers'[t][k], Level(t, k)'[r])
            <4>1. /\ layers'[t][k] = layers[t][k]
                  /\ Level(t, k)'[r] = Level(t, k)[r]
                  /\ Level(t, k + 1)'[r] = Level(t, k + 1)[r]
                BY <3>1, <3>3
            <4>2. QED BY <2>3, <3>1, <3>3, <4>1
        <3>6. QED BY <3>2, <3>4, <3>5
    <2>5. CASE ~UndoesTop(t, LayerOf(request[t]))
        <3> DEFINE layer == LayerOf(request[t])
        <3>1. /\ n \in Nat /\ Len(layers'[t]) = n + 1
              /\ \A k \in 1..n : layers'[t][k] = layers[t][k]
              /\ SameCall(layers'[t][n + 1], layer)
              /\ \A k \in 1..(n + 1) : Level(t, k)' = Level(t, k)
              /\ Level(t, n + 2)' = column'[t]
              /\ r \in Traceable(t) /\ KeepsCheckDigit(layer, column[t][r])
            BY <1>3, <2>1, <2>5, LevelsAdded DEF OnionInv
        <3>2. DOMAIN layers'[t] = 1..(n + 1)
            BY <2>2, <3>1, LenProperties
        <3>3. LayerAnswer(layer, column[t][r]) = Ok(column'[t][r])
            BY <3>1, ColumnType, CommitColumn DEF OnionInv, Traceable
        <3>4. Level(t, n + 1) = column[t]
            BY <2>1, LevelCells DEF OnionInv
        <3> HIDE DEF layer
        <3>5. Level(t, 1)'[r] = origin'[t][r]
            BY <1>1, <2>3, <3>1
        <3>6. ASSUME NEW k \in 1..n
              PROVE  /\ LayerAnswer(layers'[t][k], Level(t, k)'[r])
                        = Ok(Level(t, k + 1)'[r])
                     /\ KeepsCheckDigit(layers'[t][k], Level(t, k)'[r])
            <4>1. k \in 1..(n + 1) /\ k + 1 \in 1..(n + 1)
                BY <3>1
            <4>2. /\ layers'[t][k] = layers[t][k]
                  /\ Level(t, k)' = Level(t, k) /\ Level(t, k + 1)' = Level(t, k + 1)
                BY <3>1, <4>1
            <4>3. QED BY <2>3, <3>1, <4>2
        <3>7. /\ LayerAnswer(layers'[t][n + 1], Level(t, n + 1)'[r])
                 = Ok(Level(t, n + 2)'[r])
              /\ KeepsCheckDigit(layers'[t][n + 1], Level(t, n + 1)'[r])
            <4>1. Level(t, n + 1)' = column[t]
                BY <3>1, <3>4
            <4>2. QED BY <3>1, <3>3, <4>1, SameCallAnswers
        <3>8. \A k \in 1..(n + 1) : k \in 1..n \/ (k = n + 1 /\ k + 1 = n + 2)
            BY <3>1
        <3>9. QED BY <3>2, <3>5, <3>6, <3>7, <3>8
    <2>6. QED BY <2>4, <2>5
<1>4. QED
    BY <1>2, <1>3 DEF Onion, DigitsKept, Traceable

(* Every step keeps it.                                                    *)
LEMMA StepKeepsOnionInv ==
    ASSUME Ff1Contract, HmacContract, OnionInv, [ColumnsNext]_columnsVars
    PROVE  OnionInv'
<1>1. ColumnsInv'
    BY StepKeepsColumnsInv DEF OnionInv
<1>2. CASE \E t \in Tables : Commit(t)
    BY <1>1, <1>2, CommitKeepsOnion DEF OnionInv
<1>3. CASE UNCHANGED <<column, origin, layers, lost>>
    BY <1>1, <1>3 DEF OnionInv, Onion, DigitsKept, Traceable, Level
<1>4. QED
    BY <1>2, <1>3, StepCases

(* A column starts as its own bottom level.                                *)
LEMMA InitOnionInv == ColumnsInit => OnionInv
<1> SUFFICES ASSUME ColumnsInit PROVE OnionInv
    OBVIOUS
<1>1. ASSUME NEW t \in Tables
      PROVE  DOMAIN layers[t] = {} /\ Level(t, 1) = origin[t]
    <2>1. layers[t] = <<>> /\ column[t] = origin[t]
        BY DEF ColumnsInit
    <2>2. QED BY <2>1, EmptySeq DEF Level
<1>2. QED
    BY <1>1, InitColumnsInv DEF OnionInv, Onion, DigitsKept

(* Every level of a column is the one below it under the call between      *)
(* them, down to the original, whatever was masked, unmasked and redacted  *)
(* and however the worker served it.                                       *)
THEOREM OnionHolds ==
    ASSUME Ff1Contract, HmacContract
    PROVE  ColumnsSpec => []Onion
<1>1. OnionInv /\ [ColumnsNext]_columnsVars => OnionInv'
    BY StepKeepsOnionInv
<1>2. OnionInv => Onion
    BY DEF OnionInv
<1>3. QED
    BY <1>1, <1>2, InitOnionInv, PTL DEF ColumnsSpec

(* A column with every layer taken off again is the original, in every row *)
(* no card call has overwritten: "decryption with the same key recovers    *)
(* the original exactly".                                                  *)
THEOREM UnwoundHolds ==
    ASSUME Ff1Contract, HmacContract
    PROVE  ColumnsSpec => []Unwound
<1>1. OnionInv /\ [ColumnsNext]_columnsVars => OnionInv'
    BY StepKeepsOnionInv
<1>2. OnionInv => Unwound
    <2> SUFFICES ASSUME OnionInv, NEW t \in Tables, layers[t] = <<>>,
                        NEW r \in DOMAIN origin[t] \ lost[t]
                 PROVE  column[t][r] = origin[t][r]
        BY DEF Unwound
    <2>1. Level(t, 1) = column[t]
        BY EmptySeq DEF Level
    <2>2. QED BY <2>1 DEF OnionInv, Onion
<1>3. QED
    BY <1>1, <1>2, InitOnionInv, PTL DEF ColumnsSpec

-----------------------------------------------------------------------------
(* What redaction marks.                                                   *)

(* Only a call of mask_redact makes a column redacted, and no call makes   *)
(* it unredacted again.                                                    *)
LEMMA RedactedAfter ==
    ASSUME Ff1Contract, OnionInv, NEW t \in Tables, Commit(t)
    PROVE  Redacted(t)' <=> Redacted(t) \/ LayerOf(request[t]).fn = "mask_redact"
<1> DEFINE layer == LayerOf(request[t])
<1>1. PICK n : n = Len(layers[t])
    OBVIOUS
<1>2. DOMAIN layers[t] = 1..n
    BY <1>1, ColumnType DEF OnionInv
<1>3. layers'[t] \in Seq(LayerFields)
    BY CommitKeepsColumnsInv DEF OnionInv, ColumnsInv, ColumnsTypeOK
<1>4. CASE UndoesTop(t, LayerOf(request[t]))
    <2>1. /\ n \in Nat \ {0} /\ Len(layers'[t]) = n - 1 /\ Undoes(layer, layers[t][n])
          /\ \A k \in 1..(n - 1) : layers'[t][k] = layers[t][k]
        BY <1>1, <1>4, LevelsUndone
    <2>2. layer.fn # "mask_redact" /\ layers[t][n].fn # "mask_redact"
        BY <2>1 DEF Undoes
    <2>3. /\ DOMAIN layers'[t] = 1..(n - 1)
          /\ \A k \in 1..n : k \in 1..(n - 1) \/ k = n
          /\ \A k \in 1..(n - 1) : k \in 1..n
        BY <1>3, <2>1, LenProperties
    <2>4. QED BY <1>2, <2>1, <2>2, <2>3 DEF Redacted
<1>5. CASE ~UndoesTop(t, LayerOf(request[t]))
    <2>1. /\ n \in Nat /\ Len(layers'[t]) = n + 1
          /\ \A k \in 1..n : layers'[t][k] = layers[t][k]
          /\ layers'[t][n + 1].fn = layer.fn
        BY <1>1, <1>5, LevelsAdded DEF OnionInv, SameCall
    <2>2. /\ DOMAIN layers'[t] = 1..(n + 1) /\ n + 1 \in 1..(n + 1)
          /\ \A k \in 1..(n + 1) : k \in 1..n \/ k = n + 1
          /\ \A k \in 1..n : k \in 1..(n + 1)
        BY <1>3, <2>1, LenProperties
    <2> HIDE DEF layer
    <2>3. QED BY <1>2, <2>1, <2>2 DEF Redacted, layer
<1>6. QED
    BY <1>4, <1>5

(* A statement of any kind, in any row, keeps the shape of the cell.       *)
LEMMA CommitKin ==
    ASSUME Ff1Contract, ColumnsInv, NEW t \in Tables, Commit(t),
           NEW r \in DOMAIN column[t]
    PROVE  /\ column[t][r] = NULL => column'[t][r] = NULL
           /\ column[t][r] # NULL =>
                 Kin(LayerOf(request[t]), column[t][r], column'[t][r])
<1> DEFINE layer == LayerOf(request[t])
<1>1. column[t][r] \in Cell /\ r \in 1..Len(column[t])
    BY ColumnType, ElementOfSeq
<1>2. IsLayer(layer) /\ LayerAnswer(layer, column[t][r]) = Ok(column'[t][r])
    BY <1>1, CommitColumn
<1> HIDE DEF layer
<1>3. PICK w \in Cell : /\ LayerAnswer(layer, column[t][r]) = Ok(w)
                        /\ column[t][r] = NULL => w = NULL
                        /\ column[t][r] # NULL => Kin(layer, column[t][r], w)
    BY <1>1, <1>2, LayerKeeps
<1>4. w = column'[t][r]
    BY <1>2, <1>3 DEF Ok
<1>5. QED
    BY <1>3, <1>4 DEF layer

(* So does every step.                                                     *)
LEMMA StepKeepsShape ==
    ASSUME Ff1Contract, OnionInv, ShapeKept, [ColumnsNext]_columnsVars
    PROVE  ShapeKept'
<1>1. ASSUME NEW t \in Tables, Commit(t), NEW u \in Tables, NEW r \in DOMAIN origin'[u]
      PROVE  LET was == origin'[u][r]
                 now == column'[u][r]
             IN  IF was = NULL THEN now = NULL
                 ELSE /\ now # NULL
                      /\ Len(now) = Len(was)
                      /\ \A i \in DOMAIN was : was[i] \notin Symbols(ALNUM) =>
                            now[i] = was[i] \/ (now[i] = Star /\ Redacted(u)')
    <2>1. origin' = origin
        BY <1>1, CommitElsewhere DEF OnionInv
    <2>2. CASE u # t
        <3>1. column'[u] = column[u] /\ layers'[u] = layers[u]
            BY <1>1, <2>2, CommitElsewhere DEF OnionInv
        <3>2. Redacted(u)' <=> Redacted(u)
            BY <3>1 DEF Redacted
        <3>3. QED BY <1>1, <2>1, <3>1, <3>2 DEF ShapeKept
    <2>3. CASE u = t
        <3> DEFINE was == origin[t][r]
                   now == column[t][r]
                   next == column'[t][r]
                   layer == LayerOf(request[t])
        <3>1. /\ r \in DOMAIN origin[t] /\ r \in DOMAIN column[t]
              /\ was \in Cell /\ now \in Cell
            BY <1>1, <2>1, <2>3, ColumnType, ElementOfSeq DEF OnionInv
        <3>2. /\ now = NULL => next = NULL
              /\ now # NULL => Kin(layer, now, next)
            BY <1>1, <3>1, CommitKin DEF OnionInv
        <3>3. IF was = NULL THEN now = NULL
              ELSE /\ now # NULL
                   /\ Len(now) = Len(was)
                   /\ \A i \in DOMAIN was : was[i] \notin Symbols(ALNUM) =>
                         now[i] = was[i] \/ (now[i] = Star /\ Redacted(t))
            BY <3>1 DEF ShapeKept
        <3>4. Redacted(t) \/ layer.fn = "mask_redact" => Redacted(t)'
            BY <1>1, RedactedAfter
        <3> HIDE DEF was, now, next, layer
        <3>5. CASE was # NULL
            <4>1. was \in Value /\ now \in Value /\ next \in Value /\ Kin(layer, now, next)
                BY <3>1, <3>2, <3>3, <3>5 DEF Cell, Kin
            <4>2. DOMAIN was = DOMAIN now /\ next # NULL /\ Len(next) = Len(was)
                BY <3>3, <3>5, <4>1, PositionsType, NullAssumption DEF Kin
            <4>3. ASSUME NEW i \in DOMAIN was, was[i] \notin Symbols(ALNUM)
                  PROVE  next[i] = was[i] \/ (next[i] = Star /\ Redacted(t)')
                BY <3>3, <3>4, <3>5, <4>1, <4>2, <4>3 DEF Kin
            <4>4. QED BY <2>1, <2>3, <3>5, <4>2, <4>3 DEF was, next
        <3>6. CASE was = NULL
            BY <2>1, <2>3, <3>2, <3>3, <3>6 DEF was, next
        <3>7. QED BY <3>5, <3>6
    <2>4. QED BY <2>2, <2>3
<1>2. CASE \E t \in Tables : Commit(t)
    <2>1. QED BY <1>1, <1>2 DEF ShapeKept
<1>3. CASE UNCHANGED <<column, origin, layers, lost>>
    BY <1>3 DEF ShapeKept, Redacted
<1>4. QED
    BY <1>2, <1>3, StepCases

(* Whatever is called, a NULL stays NULL, a value keeps its length, and a  *)
(* character outside the alphabets is where it was or was starred by a     *)
(* redaction.                                                              *)
THEOREM ShapeAlwaysKept ==
    ASSUME Ff1Contract, HmacContract
    PROVE  ColumnsSpec => []ShapeKept
<1>1. ColumnsInit => ShapeKept
    BY InitColumnsInv DEF ColumnsInit, ShapeKept
<1>2. OnionInv /\ ShapeKept /\ [ColumnsNext]_columnsVars => OnionInv' /\ ShapeKept'
    BY StepKeepsOnionInv, StepKeepsShape
<1>3. QED
    BY <1>1, <1>2, InitOnionInv, PTL DEF ColumnsSpec

(* A star is for ever: what a redaction hid, unmasking does not bring      *)
(* back.                                                                   *)
THEOREM StarsAlwaysStay ==
    ASSUME Ff1Contract, HmacContract
    PROVE  ColumnsSpec => StarsStay
<1> DEFINE StarsStayIn(t, r) ==
        column[t][r] # NULL =>
           /\ Len(column'[t][r]) = Len(column[t][r])
           /\ \A i \in DOMAIN column[t][r] :
                 column[t][r][i] = Star => column'[t][r][i] = Star
<1>1. ASSUME ColumnsInv, [ColumnsNext]_columnsVars
      PROVE  [\A t \in Tables : \A r \in DOMAIN column[t] : StarsStayIn(t, r)]_columnsVars
    <2>1. ASSUME NEW t \in Tables, Commit(t), NEW u \in Tables, NEW r \in DOMAIN column[u]
          PROVE  StarsStayIn(u, r)
        <3>1. CASE u # t
            BY <1>1, <2>1, <3>1, CommitElsewhere
        <3>2. CASE u = t
            BY <1>1, <2>1, <3>2, CommitKin DEF Kin
        <3>3. QED BY <3>1, <3>2
    <2>2. CASE UNCHANGED <<column, origin, layers, lost>>
        BY <2>2
    <2>3. QED BY <1>1, <2>1, <2>2, StepCases
<1>2. ColumnsInv /\ [ColumnsNext]_columnsVars => ColumnsInv'
    BY StepKeepsColumnsInv
<1>3. QED
    BY <1>1, <1>2, InitColumnsInv, PTL DEF ColumnsSpec, StarsStay

(* The card profile never hands out a number no checker would accept.      *)
THEOREM CardsAlwaysAnswerLuhn ==
    ASSUME Ff1Contract, HmacContract
    PROVE  ColumnsSpec => CardAnswersLuhn
<1> DEFINE AnswersLuhn(t) == Commit(t) /\ LayerOf(request[t]).how = "Card" =>
        \A r \in DOMAIN column[t] :
           column[t][r] # NULL /\ IsPan(column[t][r]) =>
              IsPan(column'[t][r]) /\ is_luhn_valid(column'[t][r])
<1>1. ASSUME ColumnsInv, NEW t \in Tables
      PROVE  AnswersLuhn(t)
    <2> DEFINE layer == LayerOf(request[t])
    <2> SUFFICES ASSUME Commit(t), layer.how = "Card", NEW r \in DOMAIN column[t],
                        column[t][r] # NULL, IsPan(column[t][r])
                 PROVE  IsPan(column'[t][r]) /\ is_luhn_valid(column'[t][r])
        OBVIOUS
    <2>1. column[t][r] \in Value /\ r \in 1..Len(column[t])
        BY <1>1, ColumnType, ElementOfSeq DEF Cell
    <2>2. /\ IsLayer(layer)
          /\ LayerAnswer(layer, column[t][r]) = Ok(column'[t][r])
        BY <1>1, <2>1, CommitColumn
    <2>3. layer.fn # "mask_redact"
        BY <2>2 DEF IsLayer, Modes
    <2> HIDE DEF layer
    <2>4. PICK w \in Value : /\ LayerAnswer(layer, column[t][r]) = Ok(w)
                             /\ IsPan(w) /\ is_luhn_valid(w)
        BY <2>1, <2>2, <2>3, ProfileLayer
    <2>5. w = column'[t][r]
        BY <2>2, <2>4 DEF Ok
    <2>6. QED BY <2>4, <2>5
<1>2. ColumnsInv /\ [ColumnsNext]_columnsVars => ColumnsInv'
    BY StepKeepsColumnsInv
<1>3. ColumnsInv => [\A t \in Tables : AnswersLuhn(t)]_columnsVars
    BY <1>1
<1>4. QED
    BY <1>2, <1>3, InitColumnsInv, PTL DEF ColumnsSpec, CardAnswersLuhn

-----------------------------------------------------------------------------
(* What the levels of one column tell of its original.                     *)

(* Where a value still has the character of another of the same shape, a   *)
(* profile that reaches it there reaches it in the other.                  *)
LEMMA ReachOfShape ==
    ASSUME NEW how \in Formats, NEW value \in Value, NEW w,
           SameShape(value, w, ALNUM),
           NEW i \in DOMAIN value, w[i] = value[i], i \in Reach(how, w)
    PROVE  i \in Reach(how, value)
<1>1. /\ w \in Value /\ Len(w) = Len(value) /\ Len(value) \in Nat
      /\ DOMAIN value = 1..Len(value) /\ DOMAIN w = 1..Len(value)
    BY PositionsType DEF SameShape
<1>2. \A alphabet : i \in Positions(w, alphabet) => i \in Positions(value, alphabet)
    BY DEF Positions
<1>3. \A j \in 1..Len(value) : value[j] = At <=> w[j] = At
    BY <1>1, AlphabetAssumption DEF SameShape, Positions
<1>4. CASE how \in {"Digits", "Ssn", "Card"}
    <2>1. \A v : Reach(how, v) = Positions(v, DIGITS)
        BY <1>4 DEF Reach
    <2>2. QED BY <1>2, <2>1
<1>5. CASE how = "Alnum"
    <2>1. \A v : Reach(how, v) = Positions(v, ALNUM)
        BY <1>5 DEF Reach
    <2>2. QED BY <1>2, <2>1
<1>6. CASE how = "Email"
    <2>1. \A v : Reach(how, v)
          = {j \in Positions(v, ALNUM) :
                \/ \A m \in DOMAIN v : v[m] # At
                \/ v[Len(v)] = At
                \/ \E m \in (j + 1)..Len(v) : v[m] = At}
        BY <1>6 DEF Reach
    <2>2. /\ i \in Positions(w, ALNUM)
          /\ \/ \A m \in DOMAIN w : w[m] # At
             \/ w[Len(w)] = At
             \/ \E m \in (i + 1)..Len(w) : w[m] = At
        BY <2>1
    <2>3. i \in Positions(value, ALNUM)
        BY <1>2, <2>2
    <2>4. \/ \A m \in DOMAIN value : value[m] # At
          \/ value[Len(value)] = At
          \/ \E m \in (i + 1)..Len(value) : value[m] = At
        <3>1. /\ \A m \in (i + 1)..Len(value) : m \in 1..Len(value)
              /\ Len(value) \in 1..Len(value)
            BY <1>1
        <3>2. QED BY <1>1, <1>3, <2>2, <3>1
    <2>5. QED BY <2>1, <2>3, <2>4
<1>7. QED
    BY <1>4, <1>5, <1>6 DEF Formats

(* The levels of a row that is still told apart, between which its layers  *)
(* lie.                                                                    *)
LEMMA RowLevels ==
    ASSUME OnionInv, NEW t \in Tables, NEW r \in Traceable(t),
           NEW n, n = Len(layers[t])
    PROVE  /\ n \in Nat /\ DOMAIN layers[t] = 1..n
           /\ Level(t, 1)[r] = origin[t][r] /\ Level(t, n + 1)[r] = column[t][r]
           /\ \A k \in 1..(n + 1) : Level(t, k)[r] \in Cell
           /\ \A k \in 1..n :
                 /\ IsLayer(layers[t][k])
                 /\ LayerAnswer(layers[t][k], Level(t, k)[r]) = Ok(Level(t, k + 1)[r])
                 /\ KeepsCheckDigit(layers[t][k], Level(t, k)[r])
<1>1. n \in Nat /\ DOMAIN layers[t] = 1..n
    BY ColumnType DEF OnionInv
<1>2. /\ Level(t, n + 1) = column[t]
      /\ \A k \in 1..(n + 1) : Level(t, k)[r] \in Cell
    BY LevelCells DEF OnionInv, Traceable
<1>3. QED
    BY <1>1, <1>2 DEF OnionInv, ColumnsInv, Onion, DigitsKept, Traceable

(* A character that differs from the original is one some layer reaches,   *)
(* in the original itself: a letter that alnum made a digit and digits     *)
(* changed again was in the reach of alnum.                                *)
LEMMA ReachedFromOriginal ==
    ASSUME Ff1Contract, OnionInv, NEW t \in Tables, NEW r \in Traceable(t),
           ~Redacted(t), origin[t][r] # NULL
    PROVE  \A i \in DOMAIN origin[t][r] : column[t][r][i] # origin[t][r][i] =>
              \E k \in DOMAIN layers[t] : i \in Reach(layers[t][k].how, origin[t][r])
<1>1. PICK n : n = Len(layers[t])
    OBVIOUS
<1> DEFINE was == origin[t][r]
           Reached(i) == \E m \in 1..n : i \in Reach(layers[t][m].how, was)
           Within(v) == /\ v # NULL /\ SameShape(was, v, ALNUM)
                        /\ \A i \in DOMAIN was : v[i] # was[i] => Reached(i)
           S == {k \in 1..(n + 1) : Within(Level(t, k)[r])}
<1>2. /\ n \in Nat /\ DOMAIN layers[t] = 1..n
      /\ Level(t, 1)[r] = was /\ Level(t, n + 1)[r] = column[t][r]
      /\ \A k \in 1..(n + 1) : Level(t, k)[r] \in Cell
      /\ \A k \in 1..n :
            /\ IsLayer(layers[t][k])
            /\ LayerAnswer(layers[t][k], Level(t, k)[r]) = Ok(Level(t, k + 1)[r])
    BY <1>1, RowLevels
<1>3. was \in Value /\ 1 \in 1..(n + 1)
    BY <1>2 DEF Cell
<1> HIDE DEF was
<1>4. 1 \in S
    BY <1>2, <1>3, NullAssumption DEF SameShape
<1>5. ASSUME NEW k \in 1..n, k \in S
      PROVE  k + 1 \in S
    <2> DEFINE layer == layers[t][k]
               v == Level(t, k)[r]
               w == Level(t, k + 1)[r]
    <2>1. Within(v) /\ v \in Value /\ k + 1 \in 1..(n + 1)
        <3>1. Within(v)
            BY <1>5
        <3>2. k \in 1..(n + 1) /\ k + 1 \in 1..(n + 1)
            BY <1>2
        <3>3. v \in Cell /\ v # NULL
            BY <1>2, <3>1, <3>2
        <3>4. QED BY <3>1, <3>2, <3>3 DEF Cell
    <2>2. /\ IsLayer(layer) /\ layer.fn # "mask_redact" /\ layer.how \in Formats
          /\ LayerAnswer(layer, v) = Ok(w)
        BY <1>2 DEF Redacted, IsLayer
    <2> HIDE DEF layer, v, w
    <2>3. /\ w \in Value /\ SameShape(v, w, ALNUM)
          /\ \A i \in DOMAIN v : w[i] # v[i] => i \in Reach(layer.how, v)
        <3>1. PICK x \in Value :
                  /\ LayerAnswer(layer, v) = Ok(x) /\ SameShape(v, x, ALNUM)
                  /\ \A i \in DOMAIN v : x[i] # v[i] => i \in Reach(layer.how, v)
            BY <2>1, <2>2, ProfileLayer
        <3>2. x = w
            BY <2>2, <3>1 DEF Ok
        <3>3. QED BY <3>1, <3>2
    <2>4. DOMAIN v = DOMAIN was
        BY <1>3, <2>1, PositionsType DEF SameShape
    <2>5. SameShape(was, w, ALNUM)
        BY <2>1, <2>3, <2>4 DEF SameShape
    <2>6. ASSUME NEW i \in DOMAIN was, w[i] # was[i]
          PROVE  Reached(i)
        <3>1. CASE v[i] # was[i]
            BY <2>1, <3>1
        <3>2. CASE v[i] = was[i]
            <4>1. i \in Reach(layer.how, v)
                BY <2>3, <2>4, <2>6, <3>2
            <4>2. i \in Reach(layer.how, was)
                BY <1>3, <2>1, <2>2, <3>2, <4>1, ReachOfShape
            <4>3. QED BY <4>2 DEF layer
        <3>3. QED BY <3>1, <3>2
    <2>7. w # NULL
        BY <2>3, NullAssumption
    <2>8. Within(w)
        BY <2>5, <2>6, <2>7
    <2>9. QED BY <2>1, <2>8 DEF w
<1>6. n + 1 \in S
    <2> HIDE DEF S
    <2>1. \A k \in 1..(n + 1) : k \in S
        BY <1>2, <1>4, <1>5, LevelByLevel
    <2>2. QED BY <1>2, <2>1
<1>7. QED
    BY <1>2, <1>6 DEF was

(* No character changes beyond the reach of the profiles over it.          *)
THEOREM ChangesStayInReach ==
    ASSUME Ff1Contract, HmacContract
    PROVE  ColumnsSpec => []ChangedOnlyInReach
<1>1. OnionInv /\ [ColumnsNext]_columnsVars => OnionInv'
    BY StepKeepsOnionInv
<1>2. OnionInv => ChangedOnlyInReach
    BY ReachedFromOriginal DEF ChangedOnlyInReach, Traceable
<1>3. QED
    BY <1>1, <1>2, InitOnionInv, PTL DEF ColumnsSpec

-----------------------------------------------------------------------------
(* What the levels of two columns tell of each other.                      *)

(* An outcome has one value.                                               *)
LEMMA OkIsOneToOne ==
    ASSUME NEW x, NEW y, Ok(x) = Ok(y)
    PROVE  x = y
BY DEF Ok

(* Equal stacks are the same calls in the same order.                      *)
LEMMA SameStack ==
    ASSUME ColumnsInv, NEW t \in Tables, NEW u \in Tables, Stack(t) = Stack(u),
           NEW n, n = Len(layers[t])
    PROVE  /\ n = Len(layers[u])
           /\ \A k \in 1..n : SameCall(layers[t][k], layers[u][k])
<1>1. /\ n \in Nat /\ DOMAIN layers[t] = 1..n
      /\ Len(layers[u]) \in Nat /\ DOMAIN layers[u] = 1..Len(layers[u])
    BY ColumnType
<1>2. DOMAIN Stack(t) = 1..n /\ DOMAIN Stack(u) = 1..Len(layers[u])
    BY <1>1 DEF Stack
<1>3. n = Len(layers[u])
    BY <1>1, <1>2
<1>4. ASSUME NEW k \in 1..n
      PROVE  SameCall(layers[t][k], layers[u][k])
    <2>1. /\ Stack(t)[k] = <<layers[t][k].fn, layers[t][k].how, layers[t][k].key>>
          /\ Stack(u)[k] = <<layers[u][k].fn, layers[u][k].how, layers[u][k].key>>
        BY <1>1, <1>3 DEF Stack
    <2>2. QED BY <2>1 DEF SameCall
<1>5. QED
    BY <1>3, <1>4

(* Masking is a function: under the same calls, cells that are equal at    *)
(* one level are equal in the columns.                                     *)
LEMMA EqualUpwards ==
    ASSUME OnionInv, NEW t \in Tables, NEW u \in Tables, Stack(t) = Stack(u),
           NEW n, n = Len(layers[t]), NEW r \in Traceable(t), NEW s \in Traceable(u),
           NEW k \in 1..(n + 1), Level(t, k)[r] = Level(u, k)[s]
    PROVE  column[t][r] = column[u][s]
<1> DEFINE S == {j \in 1..(n + 1) : j < k \/ Level(t, j)[r] = Level(u, j)[s]}
<1>1. n = Len(layers[u]) /\ \A j \in 1..n : SameCall(layers[t][j], layers[u][j])
    BY SameStack DEF OnionInv
<1>2. /\ n \in Nat
      /\ Level(t, n + 1)[r] = column[t][r] /\ Level(u, n + 1)[s] = column[u][s]
      /\ \A j \in 1..n :
            /\ LayerAnswer(layers[t][j], Level(t, j)[r]) = Ok(Level(t, j + 1)[r])
            /\ LayerAnswer(layers[u][j], Level(u, j)[s]) = Ok(Level(u, j + 1)[s])
    <2>1. /\ n \in Nat /\ Level(t, n + 1)[r] = column[t][r]
          /\ \A j \in 1..n :
                LayerAnswer(layers[t][j], Level(t, j)[r]) = Ok(Level(t, j + 1)[r])
        BY RowLevels
    <2>2. /\ Level(u, n + 1)[s] = column[u][s]
          /\ \A j \in 1..n :
                LayerAnswer(layers[u][j], Level(u, j)[s]) = Ok(Level(u, j + 1)[s])
        BY <1>1, RowLevels
    <2>3. QED BY <2>1, <2>2
<1>3. 1 \in S
    <2>1. 1 \in 1..(n + 1) /\ (1 < k \/ k = 1)
        BY <1>2
    <2>2. QED BY <2>1
<1>4. ASSUME NEW j \in 1..n, j \in S
      PROVE  j + 1 \in S
    <2>1. j + 1 \in 1..(n + 1)
        BY <1>2
    <2>2. CASE j + 1 < k
        BY <2>1, <2>2
    <2>3. CASE j + 1 = k
        BY <2>1, <2>3
    <2>4. CASE j >= k
        <3>1. Level(t, j)[r] = Level(u, j)[s]
            BY <1>2, <1>4, <2>4
        <3>2. LayerAnswer(layers[t][j], Level(t, j)[r])
              = LayerAnswer(layers[u][j], Level(u, j)[s])
            BY <1>1, <3>1, SameCallAnswers
        <3>3. Ok(Level(t, j + 1)[r]) = Ok(Level(u, j + 1)[s])
            BY <1>2, <3>2
        <3>4. Level(t, j + 1)[r] = Level(u, j + 1)[s]
            BY <3>3, OkIsOneToOne
        <3>5. QED BY <2>1, <3>4
    <2>5. QED BY <1>2, <2>2, <2>3, <2>4
<1>5. n + 1 \in S
    <2> HIDE DEF S
    <2>1. \A j \in 1..(n + 1) : j \in S
        BY <1>2, <1>3, <1>4, LevelByLevel
    <2>2. QED BY <1>2, <2>1
<1>6. Level(t, n + 1)[r] = Level(u, n + 1)[s]
    BY <1>2, <1>5
<1>7. QED
    BY <1>2, <1>6

(* A profile is one to one on the rows still told apart: equal answers of  *)
(* the same call come from equal cells, those the call in the other        *)
(* direction gives.                                                        *)
LEMMA LayerOneToOne ==
    ASSUME Ff1Contract, NEW a, IsLayer(a), a.fn # "mask_redact",
           NEW v \in Cell, NEW w \in Cell, KeepsCheckDigit(a, v), KeepsCheckDigit(a, w),
           NEW x, LayerAnswer(a, v) = Ok(x), LayerAnswer(a, w) = Ok(x)
    PROVE  v = w
<1> DEFINE b == [fn |-> IF a.fn = "mask_fpe" THEN "mask_unfpe" ELSE "mask_fpe",
                 how |-> a.how, key |-> a.key]
<1>1. Undoes(b, a)
    BY DEF Undoes, IsLayer
<1> HIDE DEF b
<1>2. LayerAnswer(b, x) = Ok(v) /\ LayerAnswer(b, x) = Ok(w)
    BY <1>1, LayerUndone
<1>3. QED
    BY <1>2 DEF Ok

(* So under the same profiles equal cells have equal originals.            *)
LEMMA EqualDownwards ==
    ASSUME Ff1Contract, OnionInv, NEW t \in Tables, NEW u \in Tables,
           Stack(t) = Stack(u), ~Redacted(t),
           NEW r \in Traceable(t), NEW s \in Traceable(u),
           column[t][r] = column[u][s]
    PROVE  origin[t][r] = origin[u][s]
<1>1. PICK n : n = Len(layers[t])
    OBVIOUS
<1> DEFINE Equal(k) == Level(t, k)[r] = Level(u, k)[s]
           S == {j \in 1..(n + 1) : Equal(n + 2 - j)}
<1>2. n = Len(layers[u]) /\ \A k \in 1..n : SameCall(layers[t][k], layers[u][k])
    BY <1>1, SameStack DEF OnionInv
<1>3. /\ n \in Nat /\ DOMAIN layers[t] = 1..n
      /\ Level(t, 1)[r] = origin[t][r] /\ Level(u, 1)[s] = origin[u][s]
      /\ Level(t, n + 1)[r] = column[t][r] /\ Level(u, n + 1)[s] = column[u][s]
      /\ \A k \in 1..(n + 1) : Level(t, k)[r] \in Cell /\ Level(u, k)[s] \in Cell
      /\ \A k \in 1..n :
            /\ IsLayer(layers[t][k])
            /\ LayerAnswer(layers[t][k], Level(t, k)[r]) = Ok(Level(t, k + 1)[r])
            /\ LayerAnswer(layers[u][k], Level(u, k)[s]) = Ok(Level(u, k + 1)[s])
            /\ KeepsCheckDigit(layers[t][k], Level(t, k)[r])
            /\ KeepsCheckDigit(layers[u][k], Level(u, k)[s])
    <2>1. /\ n \in Nat /\ DOMAIN layers[t] = 1..n
          /\ Level(t, 1)[r] = origin[t][r] /\ Level(t, n + 1)[r] = column[t][r]
          /\ \A k \in 1..(n + 1) : Level(t, k)[r] \in Cell
          /\ \A k \in 1..n :
                /\ IsLayer(layers[t][k])
                /\ LayerAnswer(layers[t][k], Level(t, k)[r]) = Ok(Level(t, k + 1)[r])
                /\ KeepsCheckDigit(layers[t][k], Level(t, k)[r])
        BY <1>1, RowLevels
    <2>2. /\ Level(u, 1)[s] = origin[u][s] /\ Level(u, n + 1)[s] = column[u][s]
          /\ \A k \in 1..(n + 1) : Level(u, k)[s] \in Cell
          /\ \A k \in 1..n :
                /\ LayerAnswer(layers[u][k], Level(u, k)[s]) = Ok(Level(u, k + 1)[s])
                /\ KeepsCheckDigit(layers[u][k], Level(u, k)[s])
        BY <1>2, RowLevels
    <2>3. QED BY <2>1, <2>2
<1>4. ASSUME NEW k \in 1..n, Equal(k + 1)
      PROVE  Equal(k)
    <2> DEFINE layer == layers[t][k]
               v == Level(t, k)[r]
               w == Level(u, k)[s]
               x == Level(t, k + 1)[r]
    <2>0. n \in Nat /\ k \in 1..(n + 1) /\ k \in DOMAIN layers[t]
        BY <1>3
    <2>1. /\ v \in Cell /\ w \in Cell /\ IsLayer(layer) /\ layer.fn # "mask_redact"
        <3>1. layer.fn # "mask_redact"
            BY <2>0 DEF Redacted
        <3>2. IsLayer(layer)
            BY <1>3
        <3>3. v \in Cell /\ w \in Cell
            BY <1>3, <2>0
        <3>4. QED BY <3>1, <3>2, <3>3
    <2>2. KeepsCheckDigit(layer, v) /\ KeepsCheckDigit(layer, w)
        BY <1>2, <1>3, SameCallAnswers
    <2>3. LayerAnswer(layer, v) = Ok(x) /\ LayerAnswer(layer, w) = Ok(x)
        BY <1>2, <1>3, <1>4, SameCallAnswers
    <2> HIDE DEF layer, v, w, x
    <2>4. v = w
        BY <2>1, <2>2, <2>3, LayerOneToOne
    <2>5. QED BY <2>4 DEF v, w
<1>5. 1 \in S
    <2>1. Equal(n + 1) /\ n + 2 - 1 = n + 1 /\ 1 \in 1..(n + 1)
        BY <1>3
    <2> HIDE DEF Equal
    <2>2. QED BY <2>1
<1> HIDE DEF Equal
<1>6. ASSUME NEW j \in 1..n, j \in S
      PROVE  j + 1 \in S
    <2>1. /\ n + 1 - j \in 1..n /\ n + 2 - (j + 1) = n + 1 - j
          /\ n + 2 - j = (n + 1 - j) + 1 /\ j + 1 \in 1..(n + 1)
        BY <1>3
    <2>2. Equal((n + 1 - j) + 1)
        BY <1>6, <2>1
    <2>3. Equal(n + 1 - j)
        BY <1>4, <2>1, <2>2
    <2>4. QED BY <2>1, <2>3
<1>7. n + 1 \in S
    <2> HIDE DEF S
    <2>1. \A j \in 1..(n + 1) : j \in S
        BY <1>3, <1>5, <1>6, LevelByLevel
    <2>2. QED BY <1>3, <2>1
<1>8. Equal(1)
    <2>1. n + 2 - (n + 1) = 1
        BY <1>3
    <2>2. QED BY <1>7, <2>1
<1>9. QED
    BY <1>3, <1>8 DEF Equal

(* Masked columns join as their originals do.                              *)
THEOREM MaskedColumnsJoin ==
    ASSUME Ff1Contract, HmacContract
    PROVE  ColumnsSpec => []Joinable
<1>1. OnionInv /\ [ColumnsNext]_columnsVars => OnionInv'
    BY StepKeepsOnionInv
<1>2. OnionInv => Joinable
    <2> SUFFICES ASSUME OnionInv, NEW t \in Tables, NEW u \in Tables,
                        ~Redacted(t), Stack(t) = Stack(u),
                        NEW r \in DOMAIN column[t] \ lost[t],
                        NEW s \in DOMAIN column[u] \ lost[u]
                 PROVE  column[t][r] = column[u][s] <=> origin[t][r] = origin[u][s]
        BY DEF Joinable
    <2>1. r \in Traceable(t) /\ s \in Traceable(u)
        BY ColumnType DEF Traceable, OnionInv
    <2>2. PICK n : n = Len(layers[t])
        OBVIOUS
    <2>3. /\ n \in Nat /\ n = Len(layers[u])
          /\ Level(t, 1)[r] = origin[t][r] /\ Level(u, 1)[s] = origin[u][s]
        BY <2>1, <2>2, RowLevels, SameStack DEF OnionInv
    <2>4. ASSUME origin[t][r] = origin[u][s]
          PROVE  column[t][r] = column[u][s]
        <3>1. 1 \in 1..(n + 1)
            BY <2>3
        <3>2. QED BY <2>1, <2>2, <2>3, <2>4, <3>1, EqualUpwards
    <2>5. QED BY <2>1, <2>4, EqualDownwards
<1>3. QED
    BY <1>1, <1>2, InitOnionInv, PTL DEF ColumnsSpec

(* The hint of a value is what the mode keeps of it.                       *)
LEMMA HintIsKept ==
    ASSUME NEW value \in Value, NEW mode \in Modes, NEW i \in DOMAIN value
    PROVE  Hint(value, mode)[i] = IF i \in Kept(value, mode) THEN <<value[i]>> ELSE <<>>
<1>1. Len(value) \in Nat /\ i \in 1..Len(value)
    BY PositionsType
<1>2. LastAt(value) \in 0..Len(value)
    BY LastAtType
<1>3. CASE mode = "All"
    BY <1>3 DEF Hint, Kept
<1>4. CASE mode = "Last4"
    <2>1. Len(value) - i < KEEP <=> i \in (Len(value) - KEEP + 1)..Len(value)
        BY <1>1, NumberAssumption
    <2>2. Kept(value, mode) = (Len(value) - KEEP + 1)..Len(value)
        BY <1>4 DEF Kept
    <2>3. QED BY <1>4, <2>1, <2>2 DEF Hint
<1>5. CASE mode = "First4"
    <2>1. i <= KEEP <=> i \in 1..KEEP
        BY <1>1, NumberAssumption
    <2>2. Kept(value, mode) = 1..KEEP
        BY <1>5 DEF Kept
    <2>3. QED BY <1>5, <2>1, <2>2 DEF Hint
<1>6. CASE mode = "Email"
    <2>1. Kept(value, mode) = IF HasDomain(value) /\ LastAt(value) > 1
                              THEN {1} \cup (LastAt(value)..Len(value)) ELSE {}
        BY <1>6 DEF Kept
    <2>2. i \in LastAt(value)..Len(value) <=> i >= LastAt(value)
        BY <1>1, <1>2
    <2>3. QED BY <1>6, <2>1, <2>2 DEF Hint
<1>7. QED
    BY <1>3, <1>4, <1>5, <1>6 DEF Modes

(* A redaction answers the same for two cells with the same hint.          *)
LEMMA HintDecides ==
    ASSUME NEW mode \in Modes, NEW v \in Cell, NEW w \in Cell, SameHint(v, w, mode),
           NEW a, NEW b, SameCall(a, b), a.fn = "mask_redact", a.how = mode
    PROVE  LayerAnswer(a, v) = LayerAnswer(b, w)
<1>1. CASE v = NULL \/ w = NULL
    BY <1>1 DEF SameHint, LayerAnswer
<1>2. CASE v # NULL /\ w # NULL
    <2>1. v \in Value /\ w \in Value /\ Hint(v, mode) = Hint(w, mode)
        BY <1>2 DEF SameHint, Cell
    <2>2. DOMAIN v = DOMAIN w
        BY <2>1 DEF Hint
    <2>3. ASSUME NEW i \in DOMAIN v
          PROVE  redact(v, mode)[i] = redact(w, mode)[i]
        <3>1. (IF i \in Kept(v, mode) THEN <<v[i]>> ELSE <<>>)
              = (IF i \in Kept(w, mode) THEN <<w[i]>> ELSE <<>>)
            BY <2>1, <2>2, HintIsKept
        <3>2. QED BY <2>2, <3>1 DEF redact
    <2>4. redact(v, mode) = redact(w, mode)
        BY <2>2, <2>3 DEF redact
    <2>5. QED BY <1>2, <2>4 DEF LayerAnswer, SameCall
<1>3. QED
    BY <1>1, <1>2

(* What a redaction hid stays hidden: the column depends on the hint alone,*)
(* whatever was called before and whatever is called afterwards.           *)
THEOREM RedactionAlwaysHides ==
    ASSUME Ff1Contract, HmacContract
    PROVE  ColumnsSpec => []RedactionHides
<1>1. OnionInv /\ [ColumnsNext]_columnsVars => OnionInv'
    BY StepKeepsOnionInv
<1>2. OnionInv => RedactionHides
    <2> SUFFICES ASSUME OnionInv, NEW t \in Tables, NEW u \in Tables,
                        Stack(t) = Stack(u),
                        NEW k \in DOMAIN layers[t], layers[t][k].fn = "mask_redact",
                        NEW r \in DOMAIN column[t] \ lost[t],
                        NEW s \in DOMAIN column[u] \ lost[u],
                        SameHint(Level(t, k)[r], Level(u, k)[s], layers[t][k].how)
                 PROVE  column[t][r] = column[u][s]
        BY DEF RedactionHides
    <2>1. r \in Traceable(t) /\ s \in Traceable(u)
        BY ColumnType DEF Traceable, OnionInv
    <2>2. PICK n : n = Len(layers[t])
        OBVIOUS
    <2>3. n = Len(layers[u]) /\ \A j \in 1..n : SameCall(layers[t][j], layers[u][j])
        BY <2>2, SameStack DEF OnionInv
    <2>4. /\ n \in Nat /\ k \in 1..n /\ IsLayer(layers[t][k])
          /\ Level(t, k)[r] \in Cell /\ Level(u, k)[s] \in Cell
          /\ LayerAnswer(layers[t][k], Level(t, k)[r]) = Ok(Level(t, k + 1)[r])
          /\ LayerAnswer(layers[u][k], Level(u, k)[s]) = Ok(Level(u, k + 1)[s])
        <3>1. /\ n \in Nat /\ DOMAIN layers[t] = 1..n
              /\ \A j \in 1..(n + 1) : Level(t, j)[r] \in Cell
              /\ \A j \in 1..n :
                    /\ IsLayer(layers[t][j])
                    /\ LayerAnswer(layers[t][j], Level(t, j)[r]) = Ok(Level(t, j + 1)[r])
            BY <2>1, <2>2, RowLevels
        <3>2. /\ \A j \in 1..(n + 1) : Level(u, j)[s] \in Cell
              /\ \A j \in 1..n :
                    LayerAnswer(layers[u][j], Level(u, j)[s]) = Ok(Level(u, j + 1)[s])
            BY <2>1, <2>3, RowLevels
        <3>3. k \in 1..n /\ k \in 1..(n + 1)
            BY <3>1
        <3>4. QED BY <3>1, <3>2, <3>3
    <2>5. layers[t][k].how \in Modes
        BY <2>4 DEF IsLayer
    <2>6. Level(t, k + 1)[r] = Level(u, k + 1)[s]
        <3>1. LayerAnswer(layers[t][k], Level(t, k)[r])
              = LayerAnswer(layers[u][k], Level(u, k)[s])
            BY <2>3, <2>4, <2>5, HintDecides
        <3>2. QED BY <2>4, <3>1 DEF Ok
    <2>7. k + 1 \in 1..(n + 1)
        BY <2>4
    <2>8. QED BY <2>1, <2>2, <2>6, <2>7, EqualUpwards
<1>3. QED
    BY <1>1, <1>2, InitOnionInv, PTL DEF ColumnsSpec
=============================================================================
