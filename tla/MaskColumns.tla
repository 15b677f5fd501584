----------------------------- MODULE MaskColumns -----------------------------
(***************************************************************************)
(* What becomes of stored columns as statements mask them, unmask them and *)
(* redact them, one layer over another: the client side of MaskWorker.     *)
(* Each table holds one column and runs one statement at a time; the       *)
(* statements of different tables run concurrently on their own            *)
(* connections.                                                            *)
(***************************************************************************)
EXTENDS MaskWorker, TestOracles

CONSTANTS
    Originals,   \* the columns a table may start with
    Names,       \* the format and mode names statements use
    Keys,        \* the keys statements use
    Calls,       \* the functions statements call
    MaxLayers,   \* bound: layers one upon another
    FollowLost   \* bound: whether statements go on over a lost row, whose
                 \* cells may take as many values as FF1 has numerals

(* A table has the name of its connection.                                 *)
Tables == Connections

ASSUME ColumnsAssumption ==
    /\ Calls \subseteq Functions \ {"mask_token"}
    /\ EmptyKey \notin Keys /\ NULL \notin Keys /\ NULL \notin Names
    /\ MaxLayers \in Nat /\ FollowLost \in BOOLEAN
    /\ \A col \in Originals : col \in Seq(Value \cup {NULL}) /\ col # <<>>

VARIABLES
    column,   \* table -> its cells now
    origin,   \* table -> its cells at first
    layers,   \* table -> the calls not undone, each with the cells before it
    lost      \* table -> the rows whose check digit a call has overwritten

columnsVars == <<request, row, out, reply, column, origin, layers, lost>>

-----------------------------------------------------------------------------
(* What a request does to a column, as a layer.                            *)
LayerOf(req) ==
    LET name == req.args[2].cells[1]
    IN  IF req.fn = "mask_redact"
        THEN [fn |-> req.fn, how |-> ModeParse(name).val, key |-> None]
        ELSE [fn |-> req.fn, how |-> FormatParse(name).val,
              key |-> req.args[3].cells[1]]

Undoes(a, b) ==
    /\ {a.fn, b.fn} = {"mask_fpe", "mask_unfpe"}
    /\ a.how = b.how /\ a.key = b.key

(* The card profile on a number whose check digit is wrong writes the      *)
(* right one, and no later call can tell which it was.                     *)
KeepsCheckDigit(layer, cell) ==
    cell # NULL /\ layer.how = "Card" /\ IsPan(cell) => is_luhn_valid(cell)

Top(t) == layers[t][Len(layers[t])]
UndoesTop(t, layer) == layers[t] # <<>> /\ Undoes(layer, Top(t))

-----------------------------------------------------------------------------

ColumnsInit ==
    /\ Init
    /\ origin \in [Tables -> Originals]
    /\ column = origin
    /\ layers = [t \in Tables |-> <<>>]
    /\ lost = [t \in Tables |-> {}]

Literal(x, n) == [type |-> "Utf8", cells |-> [i \in 1..n |-> x]]
Stored(cells) == [type |-> "Utf8", cells |-> cells]

(* The names the documentation gives, with their aliases; a statement may  *)
(* spell them in any case, with blanks around them.                        *)
FormatWords == FormatNames \cup {"digit", "alphanumeric", "pan", "ccn", "mail"}
ModeWords == ModeNames \cup {"full"}

(* UPDATE t SET c = mask_fpe(c, name, key), or mask_unfpe, or redact.      *)
CryptRequest(cells, fn, name, key) ==
    [fn |-> fn, args |-> <<Stored(cells), Literal(name, Len(cells)),
                           Literal(key, Len(cells))>>]
RedactRequest(cells, name) ==
    [fn |-> "mask_redact", args |-> <<Stored(cells), Literal(name, Len(cells))>>]

Statement(t, req) ==
    /\ Len(layers[t]) < MaxLayers \/ UndoesTop(t, LayerOf(req))
    /\ FollowLost \/ lost[t] = {}
    /\ Submit(t, req)
    /\ UNCHANGED <<column, origin, layers, lost>>

Crypt(t) == \E fn \in Calls \ {"mask_redact"}, name \in Names, key \in Keys :
    /\ name.word \in FormatWords
    /\ Statement(t, CryptRequest(column[t], fn, name, key))

Redact(t) == \E name \in Names :
    /\ "mask_redact" \in Calls /\ name.word \in ModeWords
    /\ Statement(t, RedactRequest(column[t], name))

Work(t) ==
    /\ Process(t)
    /\ UNCHANGED <<column, origin, layers, lost>>

(* The statement ends: the column becomes the one in the reply, and the    *)
(* call is a layer of its own or takes the last layer off.                 *)
Commit(t) ==
    LET layer == LayerOf(request[t])
    IN  /\ Collect(t) /\ IsOk(reply[t])
        /\ column' = [column EXCEPT ![t] = reply[t].val]
        /\ layers' = [layers EXCEPT ![t] =
                IF UndoesTop(t, layer) THEN SubSeq(@, 1, Len(@) - 1)
                ELSE Append(@, [fn |-> layer.fn, how |-> layer.how,
                                key |-> layer.key, before |-> column[t]])]
        /\ lost' = [lost EXCEPT ![t] = @ \cup
                {r \in DOMAIN column[t] : /\ ~UndoesTop(t, layer)
                                          /\ ~KeepsCheckDigit(layer, column[t][r])}]
        /\ UNCHANGED origin

ColumnsNext == \E t \in Tables : Crypt(t) \/ Redact(t) \/ Work(t) \/ Commit(t)

ColumnsSpec == ColumnsInit /\ [][ColumnsNext]_columnsVars

-----------------------------------------------------------------------------

LayerFields == [fn : Calls, how : Formats \cup Modes, key : Keys \cup {None},
                before : Seq(Value \cup {NULL})]

(* The type invariant of the columns and their layers.                     *)
ColumnsTypeOK ==
    /\ TypeOK
    /\ origin \in [Tables -> Originals]
    /\ \A t \in Tables :
          /\ column[t] \in Seq(Value \cup {NULL})
          /\ Len(column[t]) = Len(origin[t])
          /\ layers[t] \in Seq(LayerFields)
          /\ \A k \in DOMAIN layers[t] : Len(layers[t][k].before) = Len(origin[t])
          /\ lost[t] \subseteq DOMAIN origin[t]
    /\ DOMAIN column = Tables /\ DOMAIN layers = Tables /\ DOMAIN lost = Tables

(* No statement with a known name and a non-empty key fails, whatever the  *)
(* column holds by then: fpe_over_alphabet and fpe_card never hand FF1 a   *)
(* run it refuses, and the engine always finds the parts it splits.        *)
NeverRefused == \A t \in Tables : reply[t] # None => IsOk(reply[t])

(* "decryption with the same key recovers the original exactly" (README):  *)
(* when every layer put over a column has been taken off again, in any     *)
(* interleaving of masking and unmasking, each cell is its original.       *)
Unwound == \A t \in Tables :
    layers[t] = <<>> =>
        \A r \in DOMAIN origin[t] \ lost[t] : column[t][r] = origin[t][r]

(* "The same key round-trips: fpe_decrypt(fpe_encrypt(x)) == x" (mask.rs), *)
(* "the original 16-digit number is reproduced exactly" (scalar/fpe.rs):   *)
(* with no exception for a card number whose check digit was wrong.        *)
ExactRecovery == \A t \in Tables :
    layers[t] = <<>> => column[t] = origin[t]

(* The same at every depth: the cells of each level are those below it     *)
(* under the call of the layer between, a redaction or not, and the bottom *)
(* level is the original.  Unwound is its bottom case.                     *)
Level(t, k) == IF k > Len(layers[t]) THEN column[t] ELSE layers[t][k].before
LayerAnswer(layer, cell) ==
    IF cell = NULL THEN Ok(NULL)
    ELSE IF layer.fn = "mask_redact" THEN Ok(redact(cell, layer.how))
    ELSE fpe_dispatch(cell, layer.how, layer.key, layer.fn = "mask_fpe")
Onion == \A t \in Tables : \A r \in DOMAIN origin[t] \ lost[t] :
    /\ Level(t, 1)[r] = origin[t][r]
    /\ \A k \in DOMAIN layers[t] :
          LayerAnswer(layers[t][k], Level(t, k)[r]) = Ok(Level(t, k + 1)[r])

(* A column a redaction has gone over.                                     *)
Redacted(t) == \E k \in DOMAIN layers[t] : layers[t][k].fn = "mask_redact"

(* The output keeps the input's shape ("separators, the email domain"):    *)
(* after any calls a NULL is a NULL, a value has its length, and a         *)
(* character outside the alphabets is where it was, or starred.            *)
ShapeKept == \A t \in Tables : \A r \in DOMAIN origin[t] :
    LET was == origin[t][r]
        now == column[t][r]
    IN  IF was = NULL THEN now = NULL
        ELSE /\ now # NULL
             /\ Len(now) = Len(was)
             /\ \A i \in DOMAIN was :
                   was[i] \notin Symbols(ALNUM) =>
                      \/ now[i] = was[i]
                      \/ now[i] = Star /\ Redacted(t)

(* A character differs from the original only where one of the profiles    *)
(* over it reaches: digits under digits, ssn and card, letters and digits  *)
(* under alnum, only those before the last @ under email, or all of them   *)
(* where there is no domain to keep.                                       *)
Reach(how, value) ==
    CASE how \in {"Digits", "Ssn", "Card"} -> Positions(value, DIGITS)
      [] how = "Alnum"                      -> Positions(value, ALNUM)
      [] how = "Email" -> {i \in Positions(value, ALNUM) :
             \/ \A j \in DOMAIN value : value[j] # At
             \/ value[Len(value)] = At
             \/ \E j \in (i + 1)..Len(value) : value[j] = At}
ChangedOnlyInReach == \A t \in Tables : \A r \in DOMAIN origin[t] \ lost[t] :
    ~Redacted(t) /\ origin[t][r] # NULL =>
        \A i \in DOMAIN origin[t][r] : column[t][r][i] # origin[t][r][i] =>
            \E k \in DOMAIN layers[t] : i \in Reach(layers[t][k].how, origin[t][r])

(* The card profile answers a Luhn-valid number for each 16-digit number,  *)
(* valid or not, in both directions and over any layers below.             *)
CardAnswersLuhn ==
    [][\A t \in Tables : Commit(t) /\ LayerOf(request[t]).how = "Card" =>
          \A r \in DOMAIN column[t] :
             column[t][r] # NULL /\ IsPan(column[t][r]) =>
                IsPan(column'[t][r]) /\ is_luhn_valid(column'[t][r])]_columnsVars

(* The calls over a column, without the cells between them.                *)
Stack(t) == [k \in DOMAIN layers[t] |->
                <<layers[t][k].fn, layers[t][k].how, layers[t][k].key>>]

(* Masked columns join as the originals do: under the same layers, none of *)
(* them a redaction, equal cells mean equal originals, in one table or     *)
(* across two whose statements ran concurrently.                           *)
Joinable == \A t, u \in Tables :
    ~Redacted(t) /\ Stack(t) = Stack(u) =>
       \A r \in DOMAIN column[t] \ lost[t], s \in DOMAIN column[u] \ lost[u] :
          column[t][r] = column[u][s] <=> origin[t][r] = origin[u][s]

(* Redaction is irreversible: whatever is called afterwards, unmasking     *)
(* included, a starred character stays a star.                             *)
StarsStay ==
    [][\A t \in Tables : \A r \in DOMAIN column[t] : column[t][r] # NULL =>
          /\ Len(column'[t][r]) = Len(column[t][r])
          /\ \A i \in DOMAIN column[t][r] :
                column[t][r][i] = Star => column'[t][r][i] = Star]_columnsVars

(* "so nothing leaks": what a column holds after a redaction depends on    *)
(* the hint its mode keeps of the cell it went over and on nothing else:   *)
(* two values with the same hint can never be told apart again, whatever   *)
(* was called before and whatever is called afterwards.                    *)
Hint(value, mode) ==
    [i \in DOMAIN value |->
        IF \/ mode = "Last4" /\ Len(value) - i < KEEP
           \/ mode = "First4" /\ i <= KEEP
           \/ mode = "Email" /\ HasDomain(value) /\ LastAt(value) > 1
                             /\ (i = 1 \/ i >= LastAt(value))
        THEN <<value[i]>> ELSE <<>>]
SameHint(v, w, mode) ==
    IF NULL \in {v, w} THEN v = w ELSE Hint(v, mode) = Hint(w, mode)
RedactionHides == \A t, u \in Tables :
    Stack(t) = Stack(u) =>
       \A k \in DOMAIN layers[t] : layers[t][k].fn = "mask_redact" =>
          \A r \in DOMAIN column[t] \ lost[t], s \in DOMAIN column[u] \ lost[u] :
             SameHint(Level(t, k)[r], Level(u, k)[s], layers[t][k].how) =>
                column[t][r] = column[u][s]
=============================================================================
