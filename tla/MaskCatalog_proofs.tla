-------------------------- MODULE MaskCatalog_proofs --------------------------
(***************************************************************************)
(* Proofs about what the worker publishes, for every set of clients, every *)
(* engine that meets its contracts and all texts that are such literals:   *)
(* no published statement and no call laid out by the published names is   *)
(* refused, names mean what they say, what is published beside a statement *)
(* is what it returns, and a grader agrees with the agent that did its     *)
(* task.                                                                   *)
(***************************************************************************)
EXTENDS MaskCatalog, MaskBatch_proofs

-----------------------------------------------------------------------------
(* One call.                                                               *)

Cell == Value \cup {NULL}

(* The name of a profile, of a mode, and what is passed as a key.          *)
IsFormat(name) ==
    name # NULL /\ \E format \in Formats : FormatParse(name) = Ok(format)
IsMode(name) == name # NULL /\ \E mode \in Modes : ModeParse(name) = Ok(mode)
IsKey(key) == key \notin {NULL, EmptyKey}

(* A call the worker does not refuse, whatever its value: a profile or a   *)
(* mode it knows, and a key.                                               *)
IsCall(call) ==
    /\ call.args = [a \in DOMAIN call.args |-> call.args[a]]
    /\ \/ /\ call.fn \in {"mask_fpe", "mask_unfpe"} /\ DOMAIN call.args = 1..3
          /\ IsFormat(call.args[2]) /\ IsKey(call.args[3])
       \/ /\ call.fn = "mask_token" /\ DOMAIN call.args = 1..2
          /\ IsKey(call.args[2])
       \/ /\ call.fn = "mask_redact" /\ DOMAIN call.args = 1..2
          /\ IsMode(call.args[2])

(* What it answers for a value.                                            *)
CallAnswer(call, value) ==
    IF value = NULL THEN Ok(NULL)
    ELSE Apply(call.fn, [call.args EXCEPT ![1] = value])

(* A call of a profile answers what the engine does, and a redaction too.  *)
LEMMA ProfileCall ==
    ASSUME NEW call, IsCall(call), call.fn \in {"mask_fpe", "mask_unfpe"},
           NEW value \in Value, NEW format, FormatParse(call.args[2]) = Ok(format)
    PROVE  CallAnswer(call, value)
           = fpe_dispatch(value, format, call.args[3], call.fn = "mask_fpe")
<1> DEFINE v == [call.args EXCEPT ![1] = value]
           forward == call.fn = "mask_fpe"
<1>1. CallAnswer(call, value) = Apply(call.fn, v)
    BY NullAssumption DEF CallAnswer
<1>2. DOMAIN call.args = 1..3 /\ call.args[3] # EmptyKey
    BY DEF IsCall, IsKey
<1>3. v[1] = value /\ v[2] = call.args[2] /\ v[3] = call.args[3]
    BY <1>2
<1> HIDE DEF v
<1>4. Apply(call.fn, v) = RunFpe(value, call.args[2], call.args[3], forward)
    <2>1. CASE call.fn = "mask_fpe"
        BY <1>3, <2>1 DEF Apply
    <2>2. CASE call.fn = "mask_unfpe"
        BY <1>3, <2>2 DEF Apply
    <2>3. QED BY <2>1, <2>2
<1> HIDE DEF forward
<1>5. RunFpe(value, call.args[2], call.args[3], forward)
      = fpe_crypt(value, format, call.args[3], forward)
    BY DEF RunFpe, Ok, IsOk
<1>6. fpe_crypt(value, format, call.args[3], forward)
      = fpe_dispatch(value, format, call.args[3], forward)
    BY <1>2 DEF fpe_crypt
<1>7. QED
    BY <1>1, <1>4, <1>5, <1>6 DEF forward

LEMMA RedactCall ==
    ASSUME NEW call, IsCall(call), call.fn = "mask_redact",
           NEW value \in Value, NEW mode, ModeParse(call.args[2]) = Ok(mode)
    PROVE  CallAnswer(call, value) = Ok(redact(value, mode))
<1> DEFINE v == [call.args EXCEPT ![1] = value]
<1>1. CallAnswer(call, value) = Apply("mask_redact", v)
    BY NullAssumption DEF CallAnswer
<1>2. DOMAIN call.args = 1..2
    BY DEF IsCall
<1>3. v[1] = value /\ v[2] = call.args[2]
    BY <1>2
<1> HIDE DEF v
<1>4. Apply("mask_redact", v) = RunRedact(value, call.args[2])
    BY <1>3 DEF Apply
<1>5. RunRedact(value, call.args[2]) = Ok(redact(value, mode))
    BY DEF RunRedact, Ok, IsOk
<1>6. QED
    BY <1>1, <1>4, <1>5

(* Every call answers a value, or NULL for NULL.                           *)
LEMMA CallAnswers ==
    ASSUME Ff1Contract, HmacContract, NEW call, IsCall(call), NEW value \in Cell
    PROVE  \E w \in Cell : CallAnswer(call, value) = Ok(w)
<1>1. CASE value = NULL
    BY <1>1 DEF CallAnswer, Cell
<1>2. CASE value \in Value /\ call.fn \in {"mask_fpe", "mask_unfpe"}
    <2> DEFINE forward == call.fn = "mask_fpe"
    <2>1. PICK format \in Formats : FormatParse(call.args[2]) = Ok(format)
        BY <1>2 DEF IsCall, IsFormat
    <2>2. CallAnswer(call, value) = fpe_dispatch(value, format, call.args[3], forward)
        BY <1>2, <2>1, ProfileCall
    <2>3. forward \in BOOLEAN
        OBVIOUS
    <2> HIDE DEF forward
    <2>4. \E w \in Value : fpe_dispatch(value, format, call.args[3], forward) = Ok(w)
        BY <1>2, <2>3, DispatchType
    <2>5. QED BY <2>2, <2>4 DEF Cell
<1>3. CASE value \in Value /\ call.fn = "mask_token"
    <2> DEFINE v == [call.args EXCEPT ![1] = value]
    <2>1. CallAnswer(call, value) = Apply("mask_token", v)
        BY <1>3, NullAssumption DEF CallAnswer
    <2>2. DOMAIN call.args = 1..2 /\ call.args[2] # EmptyKey
        BY <1>3 DEF IsCall, IsKey
    <2>3. v[1] = value /\ v[2] = call.args[2]
        BY <2>2
    <2> HIDE DEF v
    <2>4. Apply("mask_token", v) = token(value, call.args[2])
        BY <2>3 DEF Apply
    <2>5. token(value, call.args[2]) = Ok(Hmac(call.args[2], value))
        BY <2>2 DEF token
    <2>6. Hmac(call.args[2], value) \in Value
        BY <1>3 DEF HmacContract
    <2>7. QED BY <2>1, <2>4, <2>5, <2>6 DEF Cell
<1>4. CASE value \in Value /\ call.fn = "mask_redact"
    <2>1. PICK mode \in Modes : ModeParse(call.args[2]) = Ok(mode)
        BY <1>4 DEF IsCall, IsMode
    <2>2. CallAnswer(call, value) = Ok(redact(value, mode))
        BY <1>4, <2>1, RedactCall
    <2>3. redact(value, mode) \in Value
        BY <1>4, RedactKeepsLength
    <2>4. QED BY <2>2, <2>3 DEF Cell
<1>5. QED
    BY <1>1, <1>2, <1>3, <1>4 DEF Cell, IsCall

(* As a request on one row it is promised that answer.                     *)
LEMMA CallPromised ==
    ASSUME NEW call, IsCall(call), NEW value \in Cell
    PROVE  LET req == RowRequest(call.fn, [call.args EXCEPT ![1] = value])
           IN  /\ IsRequest(req) /\ NumRows(req) = 1
               /\ RowPromise(req, 1) = CallAnswer(call, value)
<1> DEFINE v == [call.args EXCEPT ![1] = value]
           req == RowRequest(call.fn, v)
<1>1. /\ call.fn \in Functions /\ DOMAIN call.args = 1..Arity[call.fn]
      /\ \A a \in DOMAIN call.args : a # 1 => call.args[a] # NULL
      /\ 1 \in DOMAIN call.args
    <2>1. CASE call.fn \in {"mask_fpe", "mask_unfpe"}
        <3>1. DOMAIN call.args = {1, 2, 3} /\ DOMAIN call.args = 1..3
            BY <2>1 DEF IsCall
        <3>2. QED BY <2>1, <3>1 DEF IsCall, IsFormat, IsMode, IsKey, Functions, Arity
    <2>2. CASE call.fn \in {"mask_token", "mask_redact"}
        <3>1. DOMAIN call.args = {1, 2} /\ DOMAIN call.args = 1..2
            BY <2>2 DEF IsCall
        <3>2. QED BY <2>2, <3>1 DEF IsCall, IsFormat, IsMode, IsKey, Functions, Arity
    <2>3. QED BY <2>1, <2>2 DEF IsCall
<1>2. /\ DOMAIN v = DOMAIN call.args /\ v[1] = value
      /\ \A a \in DOMAIN v : a # 1 => v[a] = call.args[a]
      /\ v = [a \in DOMAIN v |-> v[a]]
    BY <1>1
<1> HIDE DEF v
<1>3. /\ req.fn = call.fn /\ DOMAIN req.args = DOMAIN v
      /\ \A a \in DOMAIN v : /\ req.args[a].type = "Utf8"
                             /\ req.args[a].cells = <<v[a]>>
    BY DEF RowRequest
<1> HIDE DEF req
<1>4. \A x : /\ DOMAIN <<x>> = 1..1 /\ Len(<<x>>) = 1 /\ <<x>>[1] = x
    OBVIOUS
<1>5. NumRows(req) = 1
    BY <1>1, <1>2, <1>3, <1>4 DEF NumRows
<1>6. IsRequest(req)
    BY <1>1, <1>2, <1>3, <1>4, <1>5 DEF IsRequest, Cell
<1>7. ~Misread(req, 1)
    BY <1>3 DEF Misread, TextTypes
<1>8. (\E a \in DOMAIN req.args : req.args[a].cells[1] = NULL) <=> value = NULL
    BY <1>1, <1>2, <1>3, <1>4
<1>9. [a \in DOMAIN req.args |-> req.args[a].cells[1]] = v
    BY <1>2, <1>3, <1>4
<1>10. RowPromise(req, 1) = IF value = NULL THEN Ok(NULL) ELSE Apply(call.fn, v)
    BY <1>3, <1>7, <1>8, <1>9 DEF RowPromise
<1>11. QED
    BY <1>5, <1>6, <1>10 DEF CallAnswer, v, req

-----------------------------------------------------------------------------
(* Statements.                                                             *)

(* One call, or two nested ones that decrypt at last, each of which the    *)
(* worker does not refuse.                                                 *)
IsStatement(s) ==
    \/ \E call : s.calls = <<call>> /\ IsCall(call) /\ call.args[1] \in Cell
    \/ \E inner, outer : /\ s.calls = <<inner, outer>>
                         /\ IsCall(inner) /\ inner.args[1] \in Cell
                         /\ IsCall(outer) /\ outer.fn = "mask_unfpe"

(* What its first j calls answer, each on the result of the one before.    *)
After(s, j) ==
    LET first == CallAnswer(s.calls[1], s.calls[1].args[1])
    IN  IF j = 1 THEN first ELSE CallAnswer(s.calls[2], first.val)

(* A statement a client may run: it is not refused, it answers what is     *)
(* published beside it, the first call of one laid out by names does what  *)
(* the names say, and one for a task answers what the grader's does.       *)
Sound(s) ==
    /\ IsStatement(s)
    /\ s.shows # NULL => After(s, Len(s.calls)) = Ok(s.shows)
    /\ s.meant # None => After(s, 1) = Meant(s.calls[1].fn, s.meant)
    /\ s.task # NULL => \E i \in DOMAIN reference_sql :
          LET reference == reference_sql[i]
          IN  /\ s.task = reference.task /\ Len(s.calls) = Len(reference.calls)
              /\ After(s, Len(s.calls)) = After(reference, Len(reference.calls))

(* The published choices are names of profiles and modes, and the keys of  *)
(* the statements are keys.                                                *)
LEMMA PublishedNames ==
    /\ \A w \in FormatNames : IsFormat(Word(w))
    /\ \A w \in ModeNames : IsMode(Word(w))
    /\ IsKey(k) /\ IsKey(my_secret_key)
<1>1. ASSUME NEW w \in FormatNames
      PROVE  IsFormat(Word(w))
    <2>1. Normalised(Word(w)) \in FormatNames
        BY DEF Normalised, Word
    <2>2. \E format \in Formats : FormatParse(Word(w)) = Ok(format)
        BY <2>1, FormatNamesParse
    <2>3. QED BY <2>2, CatalogAssumption DEF IsFormat
<1>2. ASSUME NEW w \in ModeNames
      PROVE  IsMode(Word(w))
    <2>1. Normalised(Word(w)) \in ModeNames
        BY DEF Normalised, Word
    <2>2. \E mode \in Modes : ModeParse(Word(w)) = Ok(mode)
        BY <2>1, ModeNamesParse
    <2>3. QED BY <2>2, CatalogAssumption DEF IsMode
<1>3. IsKey(k) /\ IsKey(my_secret_key)
    BY CatalogAssumption DEF IsKey
<1>4. QED
    BY <1>1, <1>2, <1>3

(* Calls written out.                                                      *)
LEMMA WrittenCalls ==
    ASSUME NEW value
    PROVE  /\ \A name, key : IsFormat(name) /\ IsKey(key) =>
                 /\ IsCall(Call("mask_fpe", <<value, name, key>>))
                 /\ IsCall(Call("mask_unfpe", <<value, name, key>>))
           /\ \A key : IsKey(key) => IsCall(Call("mask_token", <<value, key>>))
           /\ \A name : IsMode(name) => IsCall(Call("mask_redact", <<value, name>>))
BY DEF IsCall, Call

(* A call laid out by the published names has its operands where process() *)
(* reads them.                                                             *)
LaidOut(fn, meant) ==
    Call(fn, [a \in DOMAIN argument_specs[fn] |-> meant[argument_specs[fn][a].name]])

LEMMA LaidOutCalls ==
    ASSUME NEW meant
    PROVE  /\ \A fn \in {"mask_fpe", "mask_unfpe"} :
                 LaidOut(fn, meant) = Call(fn, <<meant.value, meant.format, meant.key>>)
           /\ LaidOut("mask_token", meant) = Call("mask_token", <<meant.value, meant.key>>)
           /\ LaidOut("mask_redact", meant)
              = Call("mask_redact", <<meant.value, meant.mode>>)
<1>1. ASSUME NEW fn \in {"mask_fpe", "mask_unfpe"}
      PROVE  LaidOut(fn, meant) = Call(fn, <<meant.value, meant.format, meant.key>>)
    <2>1. argument_specs[fn] = fpe_arg_specs
        BY DEF argument_specs
    <2>2. /\ DOMAIN fpe_arg_specs = 1..3 /\ fpe_arg_specs[1].name = "value"
          /\ fpe_arg_specs[2].name = "format" /\ fpe_arg_specs[3].name = "key"
        BY DEF fpe_arg_specs, ArgSpec
    <2>3. [a \in DOMAIN fpe_arg_specs |-> meant[fpe_arg_specs[a].name]]
          = <<meant.value, meant.format, meant.key>>
        BY <2>2
    <2>4. QED BY <2>1, <2>3 DEF LaidOut
<1>2. LaidOut("mask_token", meant) = Call("mask_token", <<meant.value, meant.key>>)
    <2>1. argument_specs["mask_token"] = token_arg_specs
        BY DEF argument_specs
    <2>2. /\ DOMAIN token_arg_specs = 1..2
          /\ token_arg_specs[1].name = "value" /\ token_arg_specs[2].name = "key"
        BY DEF token_arg_specs, ArgSpec
    <2>3. [a \in DOMAIN token_arg_specs |-> meant[token_arg_specs[a].name]]
          = <<meant.value, meant.key>>
        BY <2>2
    <2>4. QED BY <2>1, <2>3 DEF LaidOut
<1>3. LaidOut("mask_redact", meant) = Call("mask_redact", <<meant.value, meant.mode>>)
    <2>1. argument_specs["mask_redact"] = redact_arg_specs
        BY DEF argument_specs
    <2>2. /\ DOMAIN redact_arg_specs = 1..2
          /\ redact_arg_specs[1].name = "value" /\ redact_arg_specs[2].name = "mode"
        BY DEF redact_arg_specs, ArgSpec
    <2>3. [a \in DOMAIN redact_arg_specs |-> meant[redact_arg_specs[a].name]]
          = <<meant.value, meant.mode>>
        BY <2>2
    <2>4. QED BY <2>1, <2>3 DEF LaidOut
<1>4. QED
    BY <1>1, <1>2, <1>3

(* A statement laid out by names is its calls laid out.                    *)
LEMMA LaidOutStatements ==
    ASSUME NEW task, NEW meant
    PROVE  /\ \A fn : ByName(task, <<fn>>, meant).calls = <<LaidOut(fn, meant)>>
           /\ \A fn, gn : ByName(task, <<fn, gn>>, meant).calls
                          = <<LaidOut(fn, meant), LaidOut(gn, meant)>>
           /\ \A fns : /\ ByName(task, fns, meant).task = task
                       /\ ByName(task, fns, meant).meant = meant
                       /\ ByName(task, fns, meant).shows = NULL
<1>1. ASSUME NEW fns
      PROVE  /\ ByName(task, fns, meant).task = task
             /\ ByName(task, fns, meant).meant = meant
             /\ ByName(task, fns, meant).shows = NULL
             /\ ByName(task, fns, meant).calls
                = [n \in DOMAIN fns |-> LaidOut(fns[n], meant)]
    BY DEF ByName, LaidOut
<1>2. ASSUME NEW fn
      PROVE  [n \in DOMAIN <<fn>> |-> LaidOut(<<fn>>[n], meant)] = <<LaidOut(fn, meant)>>
    OBVIOUS
<1>3. ASSUME NEW fn, NEW gn
      PROVE  [n \in DOMAIN <<fn, gn>> |-> LaidOut(<<fn, gn>>[n], meant)]
             = <<LaidOut(fn, meant), LaidOut(gn, meant)>>
    OBVIOUS
<1>4. ASSUME NEW fn
      PROVE  ByName(task, <<fn>>, meant).calls = <<LaidOut(fn, meant)>>
    BY <1>1, <1>2
<1>5. ASSUME NEW fn, NEW gn
      PROVE  ByName(task, <<fn, gn>>, meant).calls
             = <<LaidOut(fn, meant), LaidOut(gn, meant)>>
    BY <1>1, <1>3
<1>6. QED
    BY <1>1, <1>4, <1>5

-----------------------------------------------------------------------------
(* Every statement a client begins is sound.                               *)

(* Those written in SQL.                                                   *)
Written(task, s) ==
    \/ \E key \in {k, my_secret_key} :
          s \in {FpeCard(task, key), RoundTripSsn(task, key), Token(task, key)}
    \/ \E value \in {SomeCard, SomeEmail, SomeSecret}, mode \in ModeNames :
          s = Redact(task, value, mode, redact(value, ModeParse(Word(mode)).val))

(* They are sound, but for a task.                                         *)
LEMMA WrittenStatements ==
    ASSUME Ff1Contract, NEW task, NEW s, Written(task, s)
    PROVE  /\ IsStatement(s) /\ s.task = task /\ s.meant = None
           /\ s.shows # NULL => After(s, Len(s.calls)) = Ok(s.shows)
<1> DEFINE Fine == /\ IsStatement(s) /\ s.task = task /\ s.meant = None
                   /\ s.shows # NULL => After(s, Len(s.calls)) = Ok(s.shows)
<1>1. /\ {SomeCard, SomeSsn, SomeEmail, SomeAccount, SomeSecret} \subseteq Cell
      /\ {SomeCard, SomeSsn, SomeEmail, SomeSecret} \subseteq Value
      /\ NULL \in Cell /\ {"card", "ssn"} \subseteq FormatNames
    BY CatalogAssumption DEF Cell, FormatNames
<1>2. ASSUME NEW key \in {k, my_secret_key}, s = FpeCard(task, key)
      PROVE  Fine
    <2> DEFINE call == Call("mask_fpe", <<SomeCard, Word("card"), key>>)
    <2>1. s.calls = <<call>> /\ s.task = task /\ s.meant = None /\ s.shows = NULL
        BY <1>2 DEF FpeCard, Sql
    <2>2. IsCall(call)
        BY <1>1, PublishedNames, WrittenCalls
    <2>3. call.args[1] = SomeCard
        BY DEF Call
    <2> HIDE DEF call
    <2>4. QED BY <1>1, <2>1, <2>2, <2>3 DEF IsStatement
<1>3. ASSUME NEW key \in {k, my_secret_key}, s = RoundTripSsn(task, key)
      PROVE  Fine
    <2> DEFINE inner == Call("mask_fpe", <<SomeSsn, Word("ssn"), key>>)
               outer == Call("mask_unfpe", <<NULL, Word("ssn"), key>>)
    <2>1. /\ s.calls = <<inner, outer>> /\ s.task = task /\ s.meant = None
          /\ s.shows = SomeSsn
        BY <1>3 DEF RoundTripSsn, Sql
    <2>2. IsCall(inner) /\ IsCall(outer)
        BY <1>1, PublishedNames, WrittenCalls
    <2>3. /\ inner.fn = "mask_fpe" /\ outer.fn = "mask_unfpe"
          /\ inner.args[1] = SomeSsn
          /\ inner.args[2] = Word("ssn") /\ outer.args[2] = Word("ssn")
          /\ inner.args[3] = key /\ outer.args[3] = key
        BY DEF Call
    <2> DEFINE forward == inner.fn = "mask_fpe"
    <2> HIDE DEF inner, outer
    <2>4. FormatParse(Word("ssn")) = Ok("Ssn")
        BY DEF FormatParse, Normalised, Word
    <2>5. "Ssn" \in Formats /\ SomeSsn \in Value /\ forward \in BOOLEAN
        BY <1>1 DEF Formats
    <2>6. CallAnswer(inner, SomeSsn) = fpe_dispatch(SomeSsn, "Ssn", key, forward)
        BY <2>2, <2>3, <2>4, <2>5, ProfileCall
    <2>7. (outer.fn = "mask_fpe") = ~forward
        BY <2>3
    <2>8. ASSUME NEW w \in Value
          PROVE  CallAnswer(outer, w) = fpe_dispatch(w, "Ssn", key, ~forward)
        <3>1. CallAnswer(outer, w) = fpe_dispatch(w, "Ssn", key, outer.fn = "mask_fpe")
            BY <2>2, <2>3, <2>4, ProfileCall
        <3>2. QED BY <2>7, <3>1
    <2> HIDE DEF forward
    <2>9. PICK w \in Value : fpe_dispatch(SomeSsn, "Ssn", key, forward) = Ok(w)
        BY <2>5, DispatchType
    <2>10. \A v : Ok(v).val = v
        BY DEF Ok
    <2>11. CallAnswer(inner, SomeSsn).val = w
        BY <2>6, <2>9, <2>10
    <2>12. CallAnswer(outer, w) = Ok(SomeSsn)
        <3>1. fpe_dispatch(fpe_dispatch(SomeSsn, "Ssn", key, forward).val,
                           "Ssn", key, ~forward) = Ok(SomeSsn)
            BY <2>5, ProfilesRoundTrip
        <3>2. fpe_dispatch(w, "Ssn", key, ~forward) = Ok(SomeSsn)
            BY <2>9, <2>10, <3>1
        <3>3. QED BY <2>8, <3>2
    <2>13. Len(s.calls) = 2 /\ s.calls[1] = inner /\ s.calls[2] = outer
        BY <2>1
    <2>14. After(s, 2) = Ok(SomeSsn)
        <3>1. After(s, 2) = CallAnswer(outer, CallAnswer(inner, SomeSsn).val)
            BY <2>3, <2>13 DEF After
        <3>2. QED BY <2>11, <2>12, <3>1
    <2>15. IsStatement(s)
        BY <1>1, <2>1, <2>2, <2>3 DEF IsStatement
    <2>16. QED BY <2>1, <2>13, <2>14, <2>15
<1>4. ASSUME NEW key \in {k, my_secret_key}, s = Token(task, key)
      PROVE  Fine
    <2> DEFINE call == Call("mask_token", <<SomeAccount, key>>)
    <2>1. s.calls = <<call>> /\ s.task = task /\ s.meant = None /\ s.shows = NULL
        BY <1>4 DEF Token, Sql
    <2>2. IsCall(call)
        BY PublishedNames, WrittenCalls
    <2>3. call.args[1] = SomeAccount
        BY DEF Call
    <2> HIDE DEF call
    <2>4. QED BY <1>1, <2>1, <2>2, <2>3 DEF IsStatement
<1>5. ASSUME NEW value \in {SomeCard, SomeEmail, SomeSecret}, NEW mode \in ModeNames,
             s = Redact(task, value, mode, redact(value, ModeParse(Word(mode)).val))
      PROVE  Fine
    <2> DEFINE call == Call("mask_redact", <<value, Word(mode)>>)
    <2>1. /\ s.calls = <<call>> /\ s.task = task /\ s.meant = None
          /\ s.shows = redact(value, ModeParse(Word(mode)).val)
        BY <1>5 DEF Redact, Sql
    <2>2. IsCall(call)
        BY PublishedNames, WrittenCalls
    <2>3. call.fn = "mask_redact" /\ call.args[1] = value /\ call.args[2] = Word(mode)
        BY DEF Call
    <2> HIDE DEF call
    <2>4. PICK how : ModeParse(Word(mode)) = Ok(how)
        BY PublishedNames DEF IsMode
    <2>5. CallAnswer(call, value) = Ok(s.shows)
        <3>1. CallAnswer(call, value) = Ok(redact(value, how))
            BY <1>1, <2>2, <2>3, <2>4, RedactCall
        <3>2. QED BY <2>1, <2>4, <3>1 DEF Ok
    <2>6. Len(s.calls) = 1 /\ s.calls[1] = call
        BY <2>1
    <2>7. After(s, 1) = Ok(s.shows)
        BY <2>3, <2>5, <2>6 DEF After
    <2>8. IsStatement(s)
        BY <1>1, <2>1, <2>2, <2>3 DEF IsStatement
    <2>9. QED BY <2>1, <2>6, <2>7, <2>8
<1>6. QED
    BY <1>2, <1>3, <1>4, <1>5 DEF Written

(* What is published beside the redactions is what the modes keep and star *)
(* of those literals.                                                      *)
LEMMA PublishedRedactions ==
    /\ Text("************1881") = redact(SomeCard, ModeParse(Word("last4")).val)
    /\ Text("4012************") = redact(SomeCard, ModeParse(Word("first4")).val)
    /\ Text("a****@example.com") = redact(SomeEmail, ModeParse(Word("email")).val)
    /\ Text("******") = redact(SomeSecret, ModeParse(Word("all")).val)
<1>1. /\ ModeParse(Word("last4")).val = "Last4" /\ ModeParse(Word("first4")).val = "First4"
      /\ ModeParse(Word("email")).val = "Email" /\ ModeParse(Word("all")).val = "All"
    BY DEF ModeParse, Normalised, Word, Ok
<1>2. /\ SomeCard \in Value /\ SomeEmail \in Value /\ SomeSecret \in Value
      /\ DOMAIN SomeCard = 1..16 /\ DOMAIN SomeEmail = 1..17 /\ DOMAIN SomeSecret = 1..6
    BY CatalogAssumption, LiteralsAssumption, PositionsType
<1>3. redact(SomeCard, "Last4") = Starred(SomeCard, 1..12)
    <2>1. Kept(SomeCard, "Last4") = 13..16
        BY LiteralsAssumption DEF Kept
    <2>2. \A i \in 1..16 : i \in 13..16 <=> i \notin 1..12
        OBVIOUS
    <2>3. QED BY <1>2, <2>1, <2>2 DEF redact, Starred
<1>4. redact(SomeCard, "First4") = Starred(SomeCard, 5..16)
    <2>1. Kept(SomeCard, "First4") = 1..4
        BY LiteralsAssumption DEF Kept
    <2>2. \A i \in 1..16 : i \in 1..4 <=> i \notin 5..16
        OBVIOUS
    <2>3. QED BY <1>2, <2>1, <2>2 DEF redact, Starred
<1>5. redact(SomeEmail, "Email") = Starred(SomeEmail, 2..5)
    <2>1. LastAt(SomeEmail) = 6
        <3>1. /\ 6 \in 1..Len(SomeEmail) /\ SomeEmail[6] = At
              /\ \A j \in (6 + 1)..Len(SomeEmail) : SomeEmail[j] # At
            BY <1>2, LiteralsAssumption
        <3>2. QED BY <1>2, <3>1, LastAtUnique
    <2>2. Kept(SomeEmail, "Email") = {1} \cup (6..17)
        BY <2>1, LiteralsAssumption DEF Kept, HasDomain
    <2>3. \A i \in 1..17 : i \in {1} \cup (6..17) <=> i \notin 2..5
        OBVIOUS
    <2>4. QED BY <1>2, <2>2, <2>3 DEF redact, Starred
<1>6. redact(SomeSecret, "All") = Starred(SomeSecret, 1..6)
    <2>1. Kept(SomeSecret, "All") = {}
        BY DEF Kept
    <2>2. QED BY <1>2, <2>1 DEF redact, Starred
<1>7. QED
    BY <1>1, <1>3, <1>4, <1>5, <1>6, LiteralsAssumption

(* What is published is written so.                                        *)
LEMMA PublishedStatements ==
    ASSUME NEW examples \in Published, NEW i \in DOMAIN examples
    PROVE  Written(NULL, examples[i])
<1>1. /\ Written(NULL, RedactCard(NULL)) /\ Written(NULL, RedactEmail(NULL))
      /\ Written(NULL, Redact(NULL, SomeCard, "first4", Text("4012************")))
      /\ Written(NULL, Redact(NULL, SomeSecret, "all", Text("******")))
    BY PublishedRedactions DEF Written, RedactCard, RedactEmail, ModeNames
<1>2. /\ Written(NULL, FpeCard(NULL, my_secret_key))
      /\ \A key \in {k, my_secret_key} : Written(NULL, RoundTripSsn(NULL, key))
      /\ Written(NULL, Token(NULL, my_secret_key))
    BY DEF Written
<1>4. CASE examples = ExampleQueries
    BY <1>1, <1>2, <1>4 DEF ExampleQueries
<1>5. CASE examples = EXECUTABLE_EXAMPLES
    BY <1>1, <1>2, <1>5 DEF EXECUTABLE_EXAMPLES
<1>6. CASE examples = FpeExamples
    BY <1>2, <1>6 DEF FpeExamples
<1>7. CASE examples = UnfpeExamples
    BY <1>2, <1>7 DEF UnfpeExamples
<1>8. CASE examples = TokenExamples
    BY <1>2, <1>8 DEF TokenExamples
<1>9. CASE examples = RedactExamples
    BY <1>1, <1>9 DEF RedactExamples
<1>10. QED
    BY <1>4, <1>5, <1>6, <1>7, <1>8, <1>9 DEF Published

(* So it is sound.                                                         *)
LEMMA PublishedSound ==
    ASSUME Ff1Contract, NEW examples \in Published, NEW i \in DOMAIN examples
    PROVE  Sound(examples[i])
BY PublishedStatements, WrittenStatements DEF Sound

(* A grader's statement is one for its own task.                           *)
LEMMA ReferenceSound ==
    ASSUME Ff1Contract, NEW i \in DOMAIN reference_sql
    PROVE  Sound(reference_sql[i])
<1>1. \E task : Written(task, reference_sql[i])
    <2>1. DOMAIN reference_sql = 1..5
        BY DEF reference_sql
    <2>2. /\ Written("redact_card_last4", reference_sql[1])
          /\ Written("redact_email_for_display", reference_sql[2])
        BY PublishedRedactions
           DEF reference_sql, Written, RedactCard, RedactEmail, ModeNames
    <2>3. /\ Written("fpe_roundtrip_ssn", reference_sql[3])
          /\ Written("token_pseudonym", reference_sql[4])
          /\ Written("fpe_card", reference_sql[5])
        BY DEF reference_sql, Written
    <2>4. QED BY <2>1, <2>2, <2>3
<1>2. QED
    BY <1>1, WrittenStatements DEF Sound

(* A call of what is meant does what is meant.                             *)
LEMMA MeantCalls ==
    ASSUME NEW meant
    PROVE  /\ \A fn \in {"mask_fpe", "mask_unfpe"} : IsFormat(meant.format) =>
                 CallAnswer(Call(fn, <<meant.value, meant.format, meant.key>>), meant.value)
                 = Meant(fn, meant)
           /\ CallAnswer(Call("mask_token", <<meant.value, meant.key>>), meant.value)
              = Meant("mask_token", meant)
           /\ IsMode(meant.mode) =>
                 CallAnswer(Call("mask_redact", <<meant.value, meant.mode>>), meant.value)
                 = Meant("mask_redact", meant)
<1> DEFINE value == meant.value
<1>1. \A fn, args : Call(fn, args).fn = fn /\ Call(fn, args).args = args
    BY DEF Call
<1>2. \A x, y, z : [<<x, y, z>> EXCEPT ![1] = x] = <<x, y, z>>
    OBVIOUS
<1>3. \A x, y : [<<x, y>> EXCEPT ![1] = x] = <<x, y>>
    OBVIOUS
<1>4. \A fn, args : [args EXCEPT ![1] = value] = args =>
          CallAnswer(Call(fn, args), value) = IF value = NULL THEN Ok(NULL) ELSE Apply(fn, args)
    BY <1>1 DEF CallAnswer
<1>5. ASSUME NEW fn \in {"mask_fpe", "mask_unfpe"}, IsFormat(meant.format)
      PROVE  CallAnswer(Call(fn, <<value, meant.format, meant.key>>), value) = Meant(fn, meant)
    <2> DEFINE args == <<value, meant.format, meant.key>>
    <2>1. CallAnswer(Call(fn, args), value)
          = IF value = NULL THEN Ok(NULL) ELSE Apply(fn, args)
        BY <1>2, <1>4
    <2>2. Apply(fn, args) = RunFpe(value, meant.format, meant.key, fn = "mask_fpe")
        <3>1. args[1] = value /\ args[2] = meant.format /\ args[3] = meant.key
            OBVIOUS
        <3> HIDE DEF args, value
        <3>2. CASE fn = "mask_fpe"
            BY <3>1, <3>2 DEF Apply
        <3>3. CASE fn = "mask_unfpe"
            BY <3>1, <3>3 DEF Apply
        <3>4. QED BY <1>5, <3>2, <3>3
    <2>3. RunFpe(value, meant.format, meant.key, fn = "mask_fpe")
          = fpe_crypt(value, FormatParse(meant.format).val, meant.key, fn = "mask_fpe")
        BY <1>5 DEF RunFpe, IsFormat, Ok, IsOk
    <2>4. value # NULL => Meant(fn, meant)
          = fpe_crypt(value, FormatParse(meant.format).val, meant.key, fn = "mask_fpe")
        <3>1. CASE fn = "mask_fpe"
            BY <3>1 DEF Meant
        <3>2. CASE fn = "mask_unfpe"
            BY <3>2 DEF Meant
        <3>3. QED BY <1>5, <3>1, <3>2
    <2>5. value = NULL => Meant(fn, meant) = Ok(NULL)
        BY DEF Meant
    <2> HIDE DEF args, value
    <2>6. QED BY <2>1, <2>2, <2>3, <2>4, <2>5 DEF args
<1>6. CallAnswer(Call("mask_token", <<value, meant.key>>), value) = Meant("mask_token", meant)
    <2> DEFINE args == <<value, meant.key>>
    <2>1. CallAnswer(Call("mask_token", args), value)
          = IF value = NULL THEN Ok(NULL) ELSE Apply("mask_token", args)
        BY <1>3, <1>4
    <2>2. args[1] = value /\ args[2] = meant.key
        OBVIOUS
    <2> HIDE DEF args
    <2>3. Apply("mask_token", args) = token(value, meant.key)
        BY <2>2 DEF Apply
    <2>4. Meant("mask_token", meant)
          = IF value = NULL THEN Ok(NULL) ELSE token(value, meant.key)
        BY DEF Meant
    <2> HIDE DEF value
    <2>5. QED BY <2>1, <2>3, <2>4 DEF args
<1>7. ASSUME IsMode(meant.mode)
      PROVE  CallAnswer(Call("mask_redact", <<value, meant.mode>>), value)
             = Meant("mask_redact", meant)
    <2> DEFINE args == <<value, meant.mode>>
    <2>1. CallAnswer(Call("mask_redact", args), value)
          = IF value = NULL THEN Ok(NULL) ELSE Apply("mask_redact", args)
        BY <1>3, <1>4
    <2>2. args[1] = value /\ args[2] = meant.mode
        OBVIOUS
    <2> HIDE DEF args
    <2>3. Apply("mask_redact", args) = RunRedact(value, meant.mode)
        BY <2>2 DEF Apply
    <2>4. RunRedact(value, meant.mode) = Ok(redact(value, ModeParse(meant.mode).val))
        BY <1>7 DEF RunRedact, IsMode, Ok, IsOk
    <2>5. Meant("mask_redact", meant)
          = IF value = NULL THEN Ok(NULL) ELSE Ok(redact(value, ModeParse(meant.mode).val))
        BY DEF Meant
    <2> HIDE DEF value
    <2>6. QED BY <2>1, <2>3, <2>4, <2>5 DEF args
<1> HIDE DEF value
<1>8. QED
    BY <1>5, <1>6, <1>7 DEF value

(* What is meant is what the function takes: a profile or a mode, and a    *)
(* key.                                                                    *)
Takes(fn, meant) ==
    /\ meant.value \in Cell
    /\ \/ /\ fn \in {"mask_fpe", "mask_unfpe"}
          /\ IsFormat(meant.format) /\ IsKey(meant.key)
       \/ fn = "mask_token" /\ IsKey(meant.key)
       \/ fn = "mask_redact" /\ IsMode(meant.mode)

LEMMA NamedCall ==
    ASSUME NEW fn, NEW meant, Takes(fn, meant)
    PROVE  LET call == LaidOut(fn, meant)
           IN  /\ IsCall(call) /\ call.fn = fn
               /\ call.args[1] = meant.value /\ call.args[1] \in Cell
               /\ CallAnswer(call, call.args[1]) = Meant(fn, meant)
<1>1. CASE fn \in {"mask_fpe", "mask_unfpe"}
    <2> DEFINE call == Call(fn, <<meant.value, meant.format, meant.key>>)
    <2>1. LaidOut(fn, meant) = call
        BY <1>1, LaidOutCalls
    <2>2. IsFormat(meant.format) /\ IsKey(meant.key) /\ meant.value \in Cell
        BY <1>1 DEF Takes
    <2>3. IsCall(call)
        BY <1>1, <2>2, WrittenCalls
    <2>4. call.fn = fn /\ call.args[1] = meant.value
        BY DEF Call
    <2>5. CallAnswer(call, meant.value) = Meant(fn, meant)
        BY <1>1, <2>2, MeantCalls
    <2> HIDE DEF call
    <2>6. QED BY <2>1, <2>2, <2>3, <2>4, <2>5
<1>2. CASE fn = "mask_token"
    <2> DEFINE call == Call("mask_token", <<meant.value, meant.key>>)
    <2>1. LaidOut(fn, meant) = call
        BY <1>2, LaidOutCalls
    <2>2. IsKey(meant.key) /\ meant.value \in Cell
        BY <1>2 DEF Takes
    <2>3. IsCall(call)
        BY <2>2, WrittenCalls
    <2>4. call.fn = fn /\ call.args[1] = meant.value
        BY <1>2 DEF Call
    <2>5. CallAnswer(call, meant.value) = Meant(fn, meant)
        BY <1>2, MeantCalls
    <2> HIDE DEF call
    <2>6. QED BY <2>1, <2>2, <2>3, <2>4, <2>5
<1>3. CASE fn = "mask_redact"
    <2> DEFINE call == Call("mask_redact", <<meant.value, meant.mode>>)
    <2>1. LaidOut(fn, meant) = call
        BY <1>3, LaidOutCalls
    <2>2. IsMode(meant.mode) /\ meant.value \in Cell
        BY <1>3 DEF Takes
    <2>3. IsCall(call)
        BY <2>2, WrittenCalls
    <2>4. call.fn = fn /\ call.args[1] = meant.value
        BY <1>3 DEF Call
    <2>5. CallAnswer(call, meant.value) = Meant(fn, meant)
        BY <1>3, <2>2, MeantCalls
    <2> HIDE DEF call
    <2>6. QED BY <2>1, <2>2, <2>3, <2>4, <2>5
<1>4. QED
    BY <1>1, <1>2, <1>3 DEF Takes

(* A statement laid out by names means what the names say.                 *)
LEMMA NamedStatement ==
    ASSUME NEW task, NEW meant, NEW fn, Takes(fn, meant)
    PROVE  /\ LET s == ByName(task, <<fn>>, meant)
              IN  IsStatement(s) /\ After(s, 1) = Meant(s.calls[1].fn, s.meant)
           /\ Takes("mask_unfpe", meant) =>
                 LET s == ByName(task, <<fn, "mask_unfpe">>, meant)
                 IN  IsStatement(s) /\ After(s, 1) = Meant(s.calls[1].fn, s.meant)
<1> DEFINE inner == LaidOut(fn, meant)
<1>1. /\ IsCall(inner) /\ inner.fn = fn /\ inner.args[1] \in Cell
      /\ CallAnswer(inner, inner.args[1]) = Meant(fn, meant)
    BY NamedCall
<1> HIDE DEF inner
<1>2. ASSUME NEW s, s.calls[1] = inner, s.meant = meant
      PROVE  After(s, 1) = Meant(s.calls[1].fn, s.meant)
    BY <1>1, <1>2 DEF After
<1>3. ASSUME NEW s, s = ByName(task, <<fn>>, meant)
      PROVE  IsStatement(s) /\ After(s, 1) = Meant(s.calls[1].fn, s.meant)
    <2>1. s.calls = <<inner>> /\ s.meant = meant
        BY <1>3, LaidOutStatements DEF inner
    <2>2. s.calls[1] = inner
        BY <2>1
    <2>3. QED BY <1>1, <1>2, <2>1, <2>2 DEF IsStatement
<1>4. ASSUME Takes("mask_unfpe", meant),
             NEW s, s = ByName(task, <<fn, "mask_unfpe">>, meant)
      PROVE  IsStatement(s) /\ After(s, 1) = Meant(s.calls[1].fn, s.meant)
    <2> DEFINE outer == LaidOut("mask_unfpe", meant)
    <2>1. s.calls = <<inner, outer>> /\ s.meant = meant
        <3>1. ByName(task, <<fn, "mask_unfpe">>, meant).calls = <<inner, outer>>
            BY LaidOutStatements DEF inner
        <3>2. ByName(task, <<fn, "mask_unfpe">>, meant).meant = meant
            BY LaidOutStatements
        <3>3. QED BY <1>4, <3>1, <3>2
    <2>2. s.calls[1] = inner
        BY <2>1
    <2>3. IsCall(outer) /\ outer.fn = "mask_unfpe"
        BY <1>4, NamedCall
    <2> HIDE DEF outer
    <2>4. QED BY <1>1, <1>2, <2>1, <2>2, <2>3 DEF IsStatement
<1>5. QED
    BY <1>3, <1>4

(* What an agent is offered is sound.                                      *)
LEMMA OfferedChoices ==
    /\ \A fn \in {"mask_fpe", "mask_unfpe"} :
          \A format \in ChoicesOf(fn, "format") : IsFormat(format)
    /\ \A mode \in ChoicesOf("mask_redact", "mode") : IsMode(mode)
<1>1. ASSUME NEW fn \in {"mask_fpe", "mask_unfpe"}, NEW format \in ChoicesOf(fn, "format")
      PROVE  IsFormat(format)
    <2>1. argument_specs[fn] = fpe_arg_specs /\ Arity[fn] = 3
        BY DEF argument_specs, Arity
    <2>2. PICK b \in 1..3 : /\ fpe_arg_specs[b].name = "format"
                            /\ format \in fpe_arg_specs[b].choices
        BY <2>1 DEF ChoicesOf
    <2>3. b = 2
        BY <2>2 DEF fpe_arg_specs, ArgSpec
    <2>4. fpe_arg_specs[2].choices = {Word(w) : w \in FormatNames}
        BY DEF fpe_arg_specs, ArgSpec
    <2>5. QED BY <2>2, <2>3, <2>4, PublishedNames
<1>2. ASSUME NEW mode \in ChoicesOf("mask_redact", "mode")
      PROVE  IsMode(mode)
    <2>1. argument_specs["mask_redact"] = redact_arg_specs /\ Arity["mask_redact"] = 2
        BY DEF argument_specs, Arity
    <2>2. PICK b \in 1..2 : /\ redact_arg_specs[b].name = "mode"
                            /\ mode \in redact_arg_specs[b].choices
        BY <2>1 DEF ChoicesOf
    <2>3. b = 2
        BY <2>2 DEF redact_arg_specs, ArgSpec
    <2>4. redact_arg_specs[2].choices = {Word(w) : w \in ModeNames}
        BY DEF redact_arg_specs, ArgSpec
    <2>5. QED BY <2>2, <2>3, <2>4, PublishedNames
<1>3. QED
    BY <1>1, <1>2

(* What an agent does with an offered function is sound.                   *)
LEMMA OfferedSound ==
    ASSUME NEW value \in Texts
    PROVE  /\ \A fn \in {"mask_fpe", "mask_unfpe"} :
                 \A format \in ChoicesOf(fn, "format") :
                    Sound(ByName(NULL, <<fn>>,
                                 [value |-> value, format |-> format, key |-> k]))
           /\ \A mode \in ChoicesOf("mask_redact", "mode") :
                 Sound(ByName(NULL, <<"mask_redact">>, [value |-> value, mode |-> mode]))
<1>1. value \in Cell
    BY CatalogAssumption DEF Cell
<1>2. ASSUME NEW fn, NEW meant, Takes(fn, meant)
      PROVE  Sound(ByName(NULL, <<fn>>, meant))
    <2>1. PICK s : s = ByName(NULL, <<fn>>, meant)
        OBVIOUS
    <2>2. IsStatement(s) /\ After(s, 1) = Meant(s.calls[1].fn, s.meant)
        BY <1>2, <2>1, NamedStatement
    <2>3. s.task = NULL
        BY <2>1, LaidOutStatements
    <2>4. s.shows = NULL
        BY <2>1, LaidOutStatements
    <2>5. QED BY <2>1, <2>2, <2>3, <2>4 DEF Sound
<1>3. ASSUME NEW fn \in {"mask_fpe", "mask_unfpe"}, NEW format \in ChoicesOf(fn, "format")
      PROVE  Sound(ByName(NULL, <<fn>>, [value |-> value, format |-> format, key |-> k]))
    <2> DEFINE meant == [value |-> value, format |-> format, key |-> k]
    <2>1. Takes(fn, meant)
        BY <1>1, <1>3, OfferedChoices, PublishedNames DEF Takes
    <2> HIDE DEF meant
    <2>2. QED BY <1>2, <2>1 DEF meant
<1>4. ASSUME NEW mode \in ChoicesOf("mask_redact", "mode")
      PROVE  Sound(ByName(NULL, <<"mask_redact">>, [value |-> value, mode |-> mode]))
    <2> DEFINE meant == [value |-> value, mode |-> mode]
    <2>1. Takes("mask_redact", meant)
        BY <1>1, <1>4, OfferedChoices DEF Takes
    <2> HIDE DEF meant
    <2>2. QED BY <1>2, <2>1 DEF meant
<1>5. QED
    BY <1>3, <1>4

(* Statements that agree but for the value of their outer call answer the  *)
(* same.                                                                   *)
Alike(s, t) ==
    \/ s.calls = t.calls
    \/ \E fn, inner, key, name, v, w :
          /\ s.calls = <<inner, Call(fn, <<v, name, key>>)>>
          /\ t.calls = <<inner, Call(fn, <<w, name, key>>)>>

LEMMA AlikeAnswers ==
    ASSUME NEW s, NEW t, Alike(s, t), IsStatement(s)
    PROVE  /\ Len(s.calls) = Len(t.calls)
           /\ After(s, Len(s.calls)) = After(t, Len(t.calls))
<1>1. CASE s.calls = t.calls
    BY <1>1 DEF After
<1>2. ASSUME NEW fn, NEW inner, NEW key, NEW name, NEW v, NEW w,
             s.calls = <<inner, Call(fn, <<v, name, key>>)>>,
             t.calls = <<inner, Call(fn, <<w, name, key>>)>>
      PROVE  /\ Len(s.calls) = Len(t.calls)
             /\ After(s, Len(s.calls)) = After(t, Len(t.calls))
    <2> DEFINE first == CallAnswer(inner, inner.args[1])
    <2>1. /\ Len(s.calls) = 2 /\ Len(t.calls) = 2
          /\ s.calls[1] = inner /\ t.calls[1] = inner
          /\ s.calls[2] = Call(fn, <<v, name, key>>)
          /\ t.calls[2] = Call(fn, <<w, name, key>>)
        BY <1>2
    <2>2. \A x, y : [<<y, name, key>> EXCEPT ![1] = x] = <<x, name, key>>
        OBVIOUS
    <2>3. \A x, y : CallAnswer(Call(fn, <<y, name, key>>), x)
                    = IF x = NULL THEN Ok(NULL) ELSE Apply(fn, <<x, name, key>>)
        BY <2>2 DEF CallAnswer, Call
    <2>4. /\ After(s, 2) = CallAnswer(Call(fn, <<v, name, key>>), first.val)
          /\ After(t, 2) = CallAnswer(Call(fn, <<w, name, key>>), first.val)
        BY <2>1 DEF After
    <2>5. QED BY <2>1, <2>3, <2>4
<1>3. QED
    BY <1>1, <1>2 DEF Alike

(* What an agent makes of its task is sound.                               *)
LEMMA TaskSound ==
    ASSUME NEW i \in DOMAIN AGENT_TEST_TASKS
    PROVE  Sound(AGENT_TEST_TASKS[i])
<1> DEFINE s == AGENT_TEST_TASKS[i]
           reference == reference_sql[i]
           Fine == /\ IsStatement(s) /\ After(s, 1) = Meant(s.calls[1].fn, s.meant)
                   /\ s.task = reference.task /\ s.shows = NULL /\ Alike(s, reference)
<1>1. /\ SomeCard \in Cell /\ SomeSsn \in Cell /\ SomeEmail \in Cell /\ SomeAccount \in Cell
      /\ {"card", "ssn"} \subseteq FormatNames /\ {"last4", "email"} \subseteq ModeNames
    BY CatalogAssumption DEF Cell, FormatNames, ModeNames
<1>2. DOMAIN AGENT_TEST_TASKS = 1..5 /\ DOMAIN reference_sql = 1..5
    BY DEF AGENT_TEST_TASKS, reference_sql
<1>3. ASSUME i = 1
      PROVE  Fine
    <2> DEFINE meant == [value |-> SomeCard, mode |-> Word("last4")]
    <2>1. s = ByName("redact_card_last4", <<"mask_redact">>, meant)
        BY <1>3 DEF AGENT_TEST_TASKS
    <2>2. /\ reference.task = "redact_card_last4"
          /\ reference.calls = <<Call("mask_redact", <<meant.value, meant.mode>>)>>
        BY <1>3 DEF reference_sql, RedactCard, Redact, Sql
    <2>3. Takes("mask_redact", meant)
        BY <1>1, PublishedNames DEF Takes
    <2> HIDE DEF meant, s, reference
    <2>4. s.calls = <<LaidOut("mask_redact", meant)>> /\ s.task = reference.task
          /\ s.shows = NULL
        <3>1. ByName("redact_card_last4", <<"mask_redact">>, meant).calls
              = <<LaidOut("mask_redact", meant)>>
            BY LaidOutStatements
        <3>2. ByName("redact_card_last4", <<"mask_redact">>, meant).task
              = "redact_card_last4"
            BY LaidOutStatements
        <3>3. s.shows = NULL
            BY <2>1, LaidOutStatements
        <3>4. QED BY <2>1, <2>2, <3>1, <3>2, <3>3
    <2>5. LaidOut("mask_redact", meant)
          = Call("mask_redact", <<meant.value, meant.mode>>)
        BY LaidOutCalls
    <2>6. IsStatement(s) /\ After(s, 1) = Meant(s.calls[1].fn, s.meant)
        BY <2>1, <2>3, NamedStatement
    <2>7. QED BY <2>2, <2>4, <2>5, <2>6 DEF Alike
<1>4. ASSUME i = 2
      PROVE  Fine
    <2> DEFINE meant == [value |-> SomeEmail, mode |-> Word("email")]
    <2>1. s = ByName("redact_email_for_display", <<"mask_redact">>, meant)
        BY <1>4 DEF AGENT_TEST_TASKS
    <2>2. /\ reference.task = "redact_email_for_display"
          /\ reference.calls = <<Call("mask_redact", <<meant.value, meant.mode>>)>>
        BY <1>4 DEF reference_sql, RedactEmail, Redact, Sql
    <2>3. Takes("mask_redact", meant)
        BY <1>1, PublishedNames DEF Takes
    <2> HIDE DEF meant, s, reference
    <2>4. s.calls = <<LaidOut("mask_redact", meant)>> /\ s.task = reference.task
          /\ s.shows = NULL
        <3>1. ByName("redact_email_for_display", <<"mask_redact">>, meant).calls
              = <<LaidOut("mask_redact", meant)>>
            BY LaidOutStatements
        <3>2. ByName("redact_email_for_display", <<"mask_redact">>, meant).task
              = "redact_email_for_display"
            BY LaidOutStatements
        <3>3. s.shows = NULL
            BY <2>1, LaidOutStatements
        <3>4. QED BY <2>1, <2>2, <3>1, <3>2, <3>3
    <2>5. LaidOut("mask_redact", meant)
          = Call("mask_redact", <<meant.value, meant.mode>>)
        BY LaidOutCalls
    <2>6. IsStatement(s) /\ After(s, 1) = Meant(s.calls[1].fn, s.meant)
        BY <2>1, <2>3, NamedStatement
    <2>7. QED BY <2>2, <2>4, <2>5, <2>6 DEF Alike
<1>5. ASSUME i = 3
      PROVE  Fine
    <2> DEFINE meant == [value |-> SomeSsn, format |-> Word("ssn"), key |-> k]
    <2>1. s = ByName("fpe_roundtrip_ssn", <<"mask_fpe", "mask_unfpe">>, meant)
        BY <1>5 DEF AGENT_TEST_TASKS
    <2>2. /\ reference.task = "fpe_roundtrip_ssn"
          /\ reference.calls
             = <<Call("mask_fpe", <<meant.value, meant.format, meant.key>>),
                 Call("mask_unfpe", <<NULL, meant.format, meant.key>>)>>
        BY <1>5 DEF reference_sql, RoundTripSsn, Sql
    <2>3. Takes("mask_fpe", meant) /\ Takes("mask_unfpe", meant)
        BY <1>1, PublishedNames DEF Takes
    <2> HIDE DEF meant, s, reference
    <2>4. s.calls = <<Call("mask_fpe", <<meant.value, meant.format, meant.key>>),
                      Call("mask_unfpe", <<meant.value, meant.format, meant.key>>)>>
        <3>1. s.calls = <<LaidOut("mask_fpe", meant), LaidOut("mask_unfpe", meant)>>
            BY <2>1, LaidOutStatements
        <3>2. \A fn \in {"mask_fpe", "mask_unfpe"} :
                  LaidOut(fn, meant) = Call(fn, <<meant.value, meant.format, meant.key>>)
            BY LaidOutCalls
        <3>3. QED BY <3>1, <3>2
    <2>5. Alike(s, reference)
        BY <2>2, <2>4 DEF Alike
    <2>6. s.task = reference.task /\ s.shows = NULL
        BY <2>1, <2>2, LaidOutStatements
    <2>7. IsStatement(s) /\ After(s, 1) = Meant(s.calls[1].fn, s.meant)
        BY <2>1, <2>3, NamedStatement
    <2>8. QED BY <2>5, <2>6, <2>7
<1>6. ASSUME i = 4
      PROVE  Fine
    <2> DEFINE meant == [value |-> SomeAccount, key |-> k]
    <2>1. s = ByName("token_pseudonym", <<"mask_token">>, meant)
        BY <1>6 DEF AGENT_TEST_TASKS
    <2>2. /\ reference.task = "token_pseudonym"
          /\ reference.calls = <<Call("mask_token", <<meant.value, meant.key>>)>>
        BY <1>6 DEF reference_sql, Token, Sql
    <2>3. Takes("mask_token", meant)
        BY <1>1, PublishedNames DEF Takes
    <2> HIDE DEF meant, s, reference
    <2>4. s.calls = <<LaidOut("mask_token", meant)>> /\ s.task = reference.task
          /\ s.shows = NULL
        <3>1. ByName("token_pseudonym", <<"mask_token">>, meant).calls = <<LaidOut("mask_token", meant)>>
            BY LaidOutStatements
        <3>2. ByName("token_pseudonym", <<"mask_token">>, meant).task = "token_pseudonym"
            BY LaidOutStatements
        <3>3. s.shows = NULL
            BY <2>1, LaidOutStatements
        <3>4. QED BY <2>1, <2>2, <3>1, <3>2, <3>3
    <2>5. LaidOut("mask_token", meant)
          = Call("mask_token", <<meant.value, meant.key>>)
        BY LaidOutCalls
    <2>6. IsStatement(s) /\ After(s, 1) = Meant(s.calls[1].fn, s.meant)
        BY <2>1, <2>3, NamedStatement
    <2>7. QED BY <2>2, <2>4, <2>5, <2>6 DEF Alike
<1>7. ASSUME i = 5
      PROVE  Fine
    <2> DEFINE meant == [value |-> SomeCard, format |-> Word("card"), key |-> k]
    <2>1. s = ByName("fpe_card", <<"mask_fpe">>, meant)
        BY <1>7 DEF AGENT_TEST_TASKS
    <2>2. /\ reference.task = "fpe_card"
          /\ reference.calls
             = <<Call("mask_fpe", <<meant.value, meant.format, meant.key>>)>>
        BY <1>7 DEF reference_sql, FpeCard, Sql
    <2>3. Takes("mask_fpe", meant)
        BY <1>1, PublishedNames DEF Takes
    <2> HIDE DEF meant, s, reference
    <2>4. s.calls = <<LaidOut("mask_fpe", meant)>> /\ s.task = reference.task
          /\ s.shows = NULL
        <3>1. ByName("fpe_card", <<"mask_fpe">>, meant).calls = <<LaidOut("mask_fpe", meant)>>
            BY LaidOutStatements
        <3>2. ByName("fpe_card", <<"mask_fpe">>, meant).task = "fpe_card"
            BY LaidOutStatements
        <3>3. s.shows = NULL
            BY <2>1, LaidOutStatements
        <3>4. QED BY <2>1, <2>2, <3>1, <3>2, <3>3
    <2>5. LaidOut("mask_fpe", meant)
          = Call("mask_fpe", <<meant.value, meant.format, meant.key>>)
        BY LaidOutCalls
    <2>6. IsStatement(s) /\ After(s, 1) = Meant(s.calls[1].fn, s.meant)
        BY <2>1, <2>3, NamedStatement
    <2>7. QED BY <2>2, <2>4, <2>5, <2>6 DEF Alike
<1> HIDE DEF s, reference
<1>8. Fine
    BY <1>2, <1>3, <1>4, <1>5, <1>6, <1>7
<1>9. /\ Len(s.calls) = Len(reference.calls)
      /\ After(s, Len(s.calls)) = After(reference, Len(reference.calls))
    BY <1>8, AlikeAnswers
<1>10. QED
    BY <1>2, <1>8, <1>9 DEF Sound, s, reference

(* No two tasks of the graders have the same name.                         *)
LEMMA TasksDiffer ==
    \A i, j \in DOMAIN reference_sql :
        reference_sql[i].task = reference_sql[j].task => i = j
<1>1. DOMAIN reference_sql = 1..5
    BY DEF reference_sql
<1>2. /\ reference_sql[1].task = "redact_card_last4"
      /\ reference_sql[2].task = "redact_email_for_display"
      /\ reference_sql[3].task = "fpe_roundtrip_ssn"
      /\ reference_sql[4].task = "token_pseudonym"
      /\ reference_sql[5].task = "fpe_card"
    BY DEF reference_sql, RedactCard, RedactEmail, RoundTripSsn, Token, FpeCard, Redact, Sql
<1>3. QED
    BY <1>1, <1>2

-----------------------------------------------------------------------------
(* The inductive invariant of clients and worker.                          *)

(* A client runs a sound statement; the request in progress is its next    *)
(* call, over the result of the last one; and the result of the last one   *)
(* is what the calls done so far answer.                                   *)
ClientInv(c) ==
    /\ doing[c] # None => Sound(doing[c])
    /\ request[c] # None => doing[c] # None /\ ~Done(c) /\ request[c] = NextRequest(c)
    /\ step[c] > 0 => Ok(result[c][1]) = After(doing[c], step[c])

CatalogInv == BatchInv /\ CatalogTypeOK /\ \A c \in Clients : ClientInv(c)

(* A statement has a first call, and no more than two.                     *)
LEMMA StatementCalls ==
    ASSUME NEW s, IsStatement(s)
    PROVE  /\ Len(s.calls) \in {1, 2} /\ s.calls[1].args[1] \in Cell
           /\ \A n \in 1..Len(s.calls) : IsCall(s.calls[n])
<1>1. ASSUME NEW call, s.calls = <<call>>
      PROVE  Len(s.calls) = 1 /\ s.calls[1] = call
    BY <1>1
<1>2. ASSUME NEW inner, NEW outer, s.calls = <<inner, outer>>
      PROVE  Len(s.calls) = 2 /\ s.calls[1] = inner /\ s.calls[2] = outer
    BY <1>2
<1>3. CASE \E call : s.calls = <<call>> /\ IsCall(call) /\ call.args[1] \in Cell
    BY <1>1, <1>3
<1>4. CASE \E inner, outer : /\ s.calls = <<inner, outer>>
                            /\ IsCall(inner) /\ inner.args[1] \in Cell
                            /\ IsCall(outer) /\ outer.fn = "mask_unfpe"
    BY <1>2, <1>4
<1>5. QED
    BY <1>3, <1>4 DEF IsStatement

(* The operand of the next call is a cell, and its answer is what the      *)
(* statement answers after one more call.                                  *)
LEMMA NextOperand ==
    ASSUME CatalogInv, NEW c \in Clients, doing[c] # None, ~Done(c)
    PROVE  \E call, value :
              /\ IsCall(call) /\ value \in Cell
              /\ NextRequest(c) = RowRequest(call.fn, [call.args EXCEPT ![1] = value])
              /\ After(doing[c], step[c] + 1) = CallAnswer(call, value)
<1>1. PICK s : s = doing[c]
    OBVIOUS
<1>2. PICK n : n = step[c]
    OBVIOUS
<1>3. /\ Len(s.calls) \in {1, 2} /\ s.calls[1].args[1] \in Cell
      /\ \A m \in 1..Len(s.calls) : IsCall(s.calls[m])
    BY <1>1, StatementCalls DEF CatalogInv, ClientInv, Sound
<1>4. n \in 0..Len(s.calls) /\ n # Len(s.calls)
    BY <1>1, <1>2 DEF CatalogInv, CatalogTypeOK, Done
<1>5. CASE n = 0
    <2>1. PICK call : call = s.calls[1]
        OBVIOUS
    <2>2. IsCall(call) /\ call.args[1] \in Cell
        BY <1>3, <2>1
    <2>3. [call.args EXCEPT ![1] = call.args[1]] = call.args
        BY <2>2 DEF IsCall
    <2>4. NextRequest(c) = RowRequest(call.fn, call.args)
        BY <1>1, <1>2, <1>5, <2>1 DEF NextRequest
    <2>5. After(s, 1) = CallAnswer(call, call.args[1])
        BY <2>1 DEF After
    <2>6. QED BY <1>1, <1>2, <1>5, <2>2, <2>3, <2>4, <2>5
<1>6. CASE n = 1
    <2>0. step[c] > 0 /\ step[c] = 1
        BY <1>2, <1>6
    <2>1. PICK call : call = s.calls[2]
        OBVIOUS
    <2>2. PICK value : value = result[c][1]
        OBVIOUS
    <2>3. Len(s.calls) = 2 /\ IsCall(call)
        BY <1>3, <1>4, <1>6, <2>1
    <2>4. value \in Cell
        <3>1. result[c] \in [{1} -> Value \cup {NULL}]
            BY <2>0 DEF CatalogInv, CatalogTypeOK
        <3>2. QED BY <2>2, <3>1 DEF Cell
    <2>5. After(s, 1) = Ok(value)
        BY <1>1, <2>0, <2>2 DEF CatalogInv, ClientInv
    <2>6. NextRequest(c) = RowRequest(call.fn, [call.args EXCEPT ![1] = value])
        BY <1>1, <1>2, <1>6, <2>1, <2>2 DEF NextRequest
    <2>7. After(s, 2) = CallAnswer(call, value)
        <3>1. After(s, 2) = CallAnswer(call, After(s, 1).val)
            BY <2>1 DEF After
        <3>2. QED BY <2>5, <3>1 DEF Ok
    <2>8. QED BY <1>1, <1>2, <1>6, <2>3, <2>4, <2>6, <2>7
<1>7. n = 0 \/ n = 1
    <2>1. \A m \in {1, 2} : n \in 0..m /\ n # m => n = 0 \/ n = 1
        OBVIOUS
    <2>2. Len(s.calls) \in {1, 2}
        BY <1>3
    <2>3. QED BY <1>4, <2>1, <2>2
<1>8. QED
    BY <1>5, <1>6, <1>7

(* So the worker promises it a column of one cell, which is what the       *)
(* statement answers after one more call.                                  *)
LEMMA NextPromised ==
    ASSUME Ff1Contract, HmacContract,
           CatalogInv, NEW c \in Clients, doing[c] # None, ~Done(c)
    PROVE  /\ IsRequest(NextRequest(c))
           /\ \E cells \in [{1} -> Value \cup {NULL}] :
                 /\ Batch!Answer(NextRequest(c)) = Ok(cells)
                 /\ After(doing[c], step[c] + 1) = Ok(cells[1])
<1>1. PICK call, value :
          /\ IsCall(call) /\ value \in Cell
          /\ NextRequest(c) = RowRequest(call.fn, [call.args EXCEPT ![1] = value])
          /\ After(doing[c], step[c] + 1) = CallAnswer(call, value)
    BY NextOperand
<1>2. PICK req : req = NextRequest(c)
    OBVIOUS
<1>3. IsRequest(req) /\ NumRows(req) = 1 /\ RowPromise(req, 1) = CallAnswer(call, value)
    BY <1>1, <1>2, CallPromised
<1>4. PICK w \in Cell : CallAnswer(call, value) = Ok(w)
    BY <1>1, CallAnswers
<1> DEFINE cells == <<w>>
<1>5. cells \in [{1} -> Cell] /\ cells[1] = w
    BY <1>4
<1>6. cells \in Seq(Cell) /\ Len(cells) = 1
    BY <1>4
<1> HIDE DEF cells
<1>7. /\ NumRows(req) \in Nat /\ Len(cells) = NumRows(req)
      /\ \A i \in 1..NumRows(req) : /\ IsOk(RowPromise(req, i))
                                   /\ cells[i] = RowPromise(req, i).val
    BY <1>3, <1>4, <1>5, <1>6 DEF Ok, IsOk
<1>8. Batch!Answer(req) = Ok(cells)
    BY <1>6, <1>7, WholeColumn
<1>9. QED
    BY <1>1, <1>2, <1>3, <1>4, <1>5, <1>8 DEF Cell

(* A reply that waits is that column.                                      *)
LEMMA ReplyIsNext ==
    ASSUME Ff1Contract, HmacContract, CatalogInv, NEW c \in Clients, reply[c] # None
    PROVE  /\ doing[c] # None /\ ~Done(c)
           /\ \E cells \in [{1} -> Value \cup {NULL}] :
                 reply[c] = Ok(cells) /\ After(doing[c], step[c] + 1) = Ok(cells[1])
<1>1. request[c] # None
    BY DEF CatalogInv, BatchInv, IInv, TypeOK, Clients
<1>2. doing[c] # None /\ ~Done(c) /\ request[c] = NextRequest(c)
    BY <1>1 DEF CatalogInv, ClientInv
<1>3. reply[c] = Batch!Answer(request[c])
    BY DEF CatalogInv, BatchInv, ReplyPromised, Clients
<1>4. QED
    BY <1>2, <1>3, NextPromised

-----------------------------------------------------------------------------
(* Every step keeps the invariant.                                         *)

(* A client whose state does not change keeps what it knows.               *)
LEMMA ClientElsewhere ==
    ASSUME CatalogInv, NEW c \in Clients,
           request'[c] = request[c], doing'[c] = doing[c],
           step'[c] = step[c], result'[c] = result[c]
    PROVE  ClientInv(c)'
<1>1. ClientInv(c)
    BY DEF CatalogInv
<1>2. QED
    BY <1>1 DEF ClientInv, Done, NextRequest

(* A client begins a statement.                                            *)
LEMMA BeginKeepsCatalogInv ==
    ASSUME Ff1Contract, HmacContract, CatalogInv,
           NEW c \in Clients, NEW s, Sound(s), Begin(c, s)
    PROVE  CatalogInv'
<1>1. /\ doing[c] = None /\ doing' = [doing EXCEPT ![c] = s]
      /\ UNCHANGED vars /\ step' = step /\ result' = result /\ request' = request
    BY DEF Begin, vars
<1>2. BatchInv'
    BY <1>1, StepKeepsIInv, StepImplements DEF CatalogInv, BatchInv
<1>3. /\ DOMAIN doing = Clients /\ DOMAIN step = Clients /\ DOMAIN result = Clients
      /\ step[c] = 0 /\ result[c] = <<>> /\ request[c] = None
    BY <1>1 DEF CatalogInv, CatalogTypeOK
<1>4. /\ doing'[c] = s
      /\ \A d \in Clients \ {c} : doing'[d] = doing[d]
    BY <1>1, <1>3
<1>5. ASSUME NEW d \in Clients, d # c
      PROVE  ClientInv(d)'
    BY <1>1, <1>4, <1>5, ClientElsewhere
<1>6. ClientInv(c)'
    BY <1>1, <1>3, <1>4 DEF ClientInv
<1>7. CatalogTypeOK'
    <2>1. TypeOK'
        BY <1>2 DEF BatchInv, IInv
    <2>2. Len(s.calls) \in {1, 2}
        BY StatementCalls DEF Sound
    <2>3. 0 \in 0..Len(s.calls)
        BY <2>2
    <2>4. QED BY <1>1, <1>3, <1>4, <2>1, <2>3 DEF CatalogInv, CatalogTypeOK
<1>8. QED
    BY <1>2, <1>5, <1>6, <1>7 DEF CatalogInv

(* It sends the next call of its statement.                                *)
LEMMA SendKeepsCatalogInv ==
    ASSUME Ff1Contract, HmacContract, CatalogInv, NEW c \in Clients, SendCall(c)
    PROVE  CatalogInv'
<1> DEFINE req == NextRequest(c)
<1>1. /\ doing[c] # None /\ ~Done(c) /\ Submit(c, req) /\ c \in Connections
      /\ doing' = doing /\ step' = step /\ result' = result
    BY DEF SendCall, Clients
<1>2. IsRequest(req)
    BY <1>1, NextPromised
<1>3. request' = [request EXCEPT ![c] = req] /\ DOMAIN request = Clients
    BY <1>1 DEF Submit, CatalogInv, BatchInv, IInv, TypeOK, Clients
<1>4. NextRequest(c)' = req
    BY <1>1 DEF NextRequest
<1> HIDE DEF req
<1>5. IInv'
    BY <1>1, <1>2, SubmitKeepsIInv DEF CatalogInv, BatchInv
<1>6. PrefixPromised' /\ ReplyPromised'
    BY <1>1, SubmitPromised, RepliesStayPromised DEF CatalogInv
<1>7. CatalogTypeOK'
    BY <1>1, <1>3, <1>5 DEF CatalogInv, CatalogTypeOK, IInv
<1>8. ASSUME NEW d \in Clients, d # c
      PROVE  ClientInv(d)'
    BY <1>1, <1>3, <1>8, ClientElsewhere
<1>9. ClientInv(c)'
    <2>1. ClientInv(c)
        BY DEF CatalogInv
    <2>2. request'[c] = req
        BY <1>3
    <2>3. QED BY <1>1, <1>4, <2>1, <2>2 DEF ClientInv, Done
<1>10. QED
    BY <1>5, <1>6, <1>7, <1>8, <1>9 DEF CatalogInv, BatchInv

(* The worker's steps change nothing of a client.                          *)
LEMMA WorkKeepsCatalogInv ==
    ASSUME Ff1Contract, HmacContract, CatalogInv, NEW c \in Clients, Work(c)
    PROVE  CatalogInv'
<1>1. c \in Connections /\ Process(c) /\ UNCHANGED <<doing, step, result>>
    BY DEF Work, Clients
<1>2. IInv'
    BY <1>1, ProcessKeepsIInv DEF CatalogInv, BatchInv
<1>3. PrefixPromised' /\ ReplyPromised'
    BY <1>1, ProcessPromised, RepliesStayPromised DEF CatalogInv
<1>4. request' = request
    BY <1>1 DEF Process, UnreadableRow, NullRow, ValueRow, ErrorRow, Finish,
                Return, AppendCell
<1>5. CatalogTypeOK'
    BY <1>1, <1>2, <1>4 DEF CatalogInv, CatalogTypeOK, IInv
<1>6. \A d \in Clients : ClientInv(d)'
    BY <1>1, <1>4, ClientElsewhere
<1>7. QED
    BY <1>2, <1>3, <1>5, <1>6 DEF CatalogInv, BatchInv

(* A client takes the result of a call.                                    *)
LEMMA TakeKeepsCatalogInv ==
    ASSUME Ff1Contract, HmacContract, CatalogInv, NEW c \in Clients, TakeResult(c)
    PROVE  CatalogInv'
<1>1. /\ c \in Connections /\ Collect(c) /\ reply[c] # None
      /\ request' = [request EXCEPT ![c] = None]
      /\ result' = [result EXCEPT ![c] = reply[c].val]
      /\ step' = [step EXCEPT ![c] = @ + 1] /\ doing' = doing
    BY DEF TakeResult, Collect, Clients
<1>2. IInv'
    BY <1>1, CollectKeepsIInv DEF CatalogInv, BatchInv
<1>3. PrefixPromised' /\ ReplyPromised'
    BY <1>1, CollectPromised, RepliesStayPromised DEF CatalogInv
<1>4. /\ DOMAIN request = Clients /\ DOMAIN doing = Clients
      /\ DOMAIN step = Clients /\ DOMAIN result = Clients
    BY DEF CatalogInv, CatalogTypeOK, TypeOK, Clients
<1>5. doing[c] # None /\ ~Done(c)
    BY <1>1, ReplyIsNext
<1>6. PICK cells \in [{1} -> Value \cup {NULL}] :
          reply[c] = Ok(cells) /\ After(doing[c], step[c] + 1) = Ok(cells[1])
    BY <1>1, ReplyIsNext
<1>7. request'[c] = None /\ result'[c] = cells /\ step'[c] = step[c] + 1
    BY <1>1, <1>4, <1>6 DEF Ok
<1>8. \A d \in Clients \ {c} :
          request'[d] = request[d] /\ result'[d] = result[d] /\ step'[d] = step[d]
    BY <1>1, <1>4
<1>9. /\ step[c] \in 0..Len(doing[c].calls) /\ step[c] # Len(doing[c].calls)
      /\ Len(doing[c].calls) \in {1, 2}
    BY <1>5, StatementCalls DEF CatalogInv, CatalogTypeOK, ClientInv, Sound, Done
<1>10. step'[c] \in 0..Len(doing[c].calls)
    BY <1>7, <1>9
<1>11. DOMAIN doing' = Clients /\ DOMAIN step' = Clients /\ DOMAIN result' = Clients
    BY <1>1, <1>4
<1>12. CatalogTypeOK'
    BY <1>1, <1>2, <1>5, <1>7, <1>8, <1>10, <1>11 DEF CatalogInv, CatalogTypeOK, IInv
<1>13. ASSUME NEW d \in Clients, d # c
       PROVE  ClientInv(d)'
    BY <1>1, <1>8, <1>13, ClientElsewhere
<1>14. ClientInv(c)'
    <2>1. ClientInv(c)
        BY DEF CatalogInv
    <2>2. QED BY <1>1, <1>6, <1>7, <2>1 DEF ClientInv
<1>15. QED
    BY <1>2, <1>3, <1>12, <1>13, <1>14 DEF CatalogInv, BatchInv

(* It leaves its statement.                                                *)
LEMMA LeaveKeepsCatalogInv ==
    ASSUME Ff1Contract, HmacContract, CatalogInv, NEW c \in Clients, Leave(c)
    PROVE  CatalogInv'
<1>1. /\ Done(c) /\ doing' = [doing EXCEPT ![c] = None]
      /\ step' = [step EXCEPT ![c] = 0] /\ result' = [result EXCEPT ![c] = <<>>]
      /\ UNCHANGED vars /\ request' = request
    BY DEF Leave, vars
<1>2. BatchInv'
    BY <1>1, StepKeepsIInv, StepImplements DEF CatalogInv, BatchInv
<1>3. /\ DOMAIN doing = Clients /\ DOMAIN step = Clients /\ DOMAIN result = Clients
      /\ request[c] = None
    BY <1>1 DEF CatalogInv, CatalogTypeOK, ClientInv
<1>4. /\ doing'[c] = None /\ step'[c] = 0 /\ result'[c] = <<>> /\ request'[c] = None
      /\ \A d \in Clients \ {c} :
            doing'[d] = doing[d] /\ step'[d] = step[d] /\ result'[d] = result[d]
    BY <1>1, <1>3
<1>5. ASSUME NEW d \in Clients, d # c
      PROVE  ClientInv(d)'
    BY <1>1, <1>4, <1>5, ClientElsewhere
<1>6. ClientInv(c)'
    BY <1>4 DEF ClientInv
<1>7. CatalogTypeOK'
    <2>1. TypeOK'
        BY <1>2 DEF BatchInv, IInv
    <2>2. DOMAIN doing' = Clients /\ DOMAIN step' = Clients /\ DOMAIN result' = Clients
        BY <1>1, <1>3
    <2>3. QED BY <1>1, <1>4, <2>1, <2>2 DEF CatalogInv, CatalogTypeOK
<1>8. QED
    BY <1>2, <1>5, <1>6, <1>7 DEF CatalogInv

(* Every step of a client or of the worker keeps the invariant.            *)
LEMMA StepKeepsCatalogInv ==
    ASSUME Ff1Contract, HmacContract, CatalogInv, [CatalogNext]_catalogVars
    PROVE  CatalogInv'
<1>1. CASE UNCHANGED catalogVars
    <2>1. /\ UNCHANGED vars /\ request' = request
          /\ doing' = doing /\ step' = step /\ result' = result
        BY <1>1 DEF catalogVars, vars
    <2>2. BatchInv'
        BY <2>1, StepKeepsIInv, StepImplements DEF CatalogInv, BatchInv
    <2>3. CatalogTypeOK'
        BY <2>1, <2>2 DEF CatalogInv, CatalogTypeOK, BatchInv, IInv
    <2>4. \A c \in Clients : ClientInv(c)'
        BY <2>1, ClientElsewhere
    <2>5. QED BY <2>2, <2>3, <2>4 DEF CatalogInv
<1>2. ASSUME NEW c \in Linters, RunExample(c) \/ Grade(c)
      PROVE  CatalogInv'
    <2>1. c \in Clients
        BY CatalogAssumption
    <2>2. \E s : Sound(s) /\ Begin(c, s)
        BY <1>2, PublishedSound, ReferenceSound DEF RunExample, Grade
    <2>3. QED BY <2>1, <2>2, BeginKeepsCatalogInv
<1>3. ASSUME NEW c \in Agents, DoTask(c) \/ CallOffered(c)
      PROVE  CatalogInv'
    <2>1. c \in Clients
        BY DEF Agents
    <2>2. \E s : Sound(s) /\ Begin(c, s)
        BY <1>3, TaskSound, OfferedSound DEF DoTask, CallOffered
    <2>3. QED BY <2>1, <2>2, BeginKeepsCatalogInv
<1>4. ASSUME NEW c \in Clients, Evaluate(c) \/ Leave(c)
      PROVE  CatalogInv'
    BY <1>4, SendKeepsCatalogInv, WorkKeepsCatalogInv, TakeKeepsCatalogInv,
       LeaveKeepsCatalogInv DEF Evaluate
<1>5. QED
    BY <1>1, <1>2, <1>3, <1>4 DEF CatalogNext

(* At first nobody does anything.                                          *)
LEMMA InitCatalogInv == CatalogInit => CatalogInv
<1> SUFFICES ASSUME CatalogInit
             PROVE  CatalogInv
    OBVIOUS
<1>1. /\ Init /\ doing = [c \in Clients |-> None]
      /\ step = [c \in Clients |-> 0] /\ result = [c \in Clients |-> <<>>]
    BY DEF CatalogInit
<1>2. /\ request = [c \in Connections |-> None] /\ reply = [c \in Connections |-> None]
    BY <1>1 DEF Init
<1>3. PrefixPromised /\ ReplyPromised
    BY <1>2 DEF PrefixPromised, ReplyPromised, Running
<1>4. IInv
    BY <1>1, InitIInv
<1>5. CatalogTypeOK
    BY <1>1, <1>2, <1>4 DEF CatalogTypeOK, IInv, Clients
<1>6. \A c \in Clients : ClientInv(c)
    BY <1>1, <1>2 DEF ClientInv, Clients
<1>7. QED
    BY <1>3, <1>4, <1>5, <1>6 DEF CatalogInv, BatchInv

-----------------------------------------------------------------------------
(* What is published can be relied on.                                     *)

(* A client without a statement has no request and no result, and a client *)
(* with one is at one of its calls, with a column of one cell in hand: in  *)
(* every reachable state, whatever else the worker runs.                   *)
THEOREM CatalogTypeCorrect ==
    ASSUME Ff1Contract, HmacContract
    PROVE  CatalogSpec => []CatalogTypeOK
<1>1. CatalogInv /\ [CatalogNext]_catalogVars => CatalogInv'
    BY StepKeepsCatalogInv
<1>2. CatalogInv => CatalogTypeOK
    BY DEF CatalogInv
<1>3. QED
    BY <1>1, <1>2, InitCatalogInv, PTL DEF CatalogSpec

(* No published example, no reference statement, no task as an agent       *)
(* carries it out and no call with an offered choice is ever refused, for  *)
(* any text in the literals and any value an agent passes.                 *)
THEOREM NothingPublishedIsRefused ==
    ASSUME Ff1Contract, HmacContract
    PROVE  CatalogSpec => []NothingRefused
<1>1. CatalogInv /\ [CatalogNext]_catalogVars => CatalogInv'
    BY StepKeepsCatalogInv
<1>2. ASSUME CatalogInv, NEW c \in Clients, reply[c] # None
      PROVE  IsOk(reply[c])
    <2>1. PICK cells : reply[c] = Ok(cells)
        BY <1>2, ReplyIsNext
    <2>2. QED BY <2>1 DEF Ok, IsOk
<1>3. CatalogInv => NothingRefused
    BY <1>2 DEF NothingRefused
<1>4. QED
    BY <1>1, <1>3, InitCatalogInv, PTL DEF CatalogSpec

(* A call laid out by the published names does what the names say: the     *)
(* positions of argument_specs are those process() reads.                  *)
THEOREM NamesAlwaysMeanWhatTheySay ==
    ASSUME Ff1Contract, HmacContract
    PROVE  CatalogSpec => []NamesMeanWhatTheySay
<1>1. CatalogInv /\ [CatalogNext]_catalogVars => CatalogInv'
    BY StepKeepsCatalogInv
<1>2. ASSUME CatalogInv, NEW c \in Clients,
             Done(c), doing[c].meant # None, step[c] = 1
      PROVE  Ok(result[c][1]) = Meant(doing[c].calls[1].fn, doing[c].meant)
    <2>1. ClientInv(c) /\ doing[c] # None /\ step[c] > 0
        BY <1>2 DEF CatalogInv, Done
    <2>2. Ok(result[c][1]) = After(doing[c], 1)
        BY <1>2, <2>1 DEF ClientInv
    <2>3. After(doing[c], 1) = Meant(doing[c].calls[1].fn, doing[c].meant)
        BY <1>2, <2>1 DEF ClientInv, Sound
    <2>4. QED BY <2>2, <2>3
<1>3. CatalogInv => NamesMeanWhatTheySay
    BY <1>2 DEF NamesMeanWhatTheySay
<1>4. QED
    BY <1>1, <1>3, InitCatalogInv, PTL DEF CatalogSpec

(* An agent that did its task has what the grader has, whenever and beside *)
(* whatever else each of them ran.                                         *)
THEOREM GradersAlwaysAgree ==
    ASSUME Ff1Contract, HmacContract
    PROVE  CatalogSpec => []GradersAgree
<1>1. CatalogInv /\ [CatalogNext]_catalogVars => CatalogInv'
    BY StepKeepsCatalogInv
<1>2. ASSUME CatalogInv, NEW c \in Clients, Done(c), doing[c].task # NULL
      PROVE  \E i \in DOMAIN reference_sql :
                LET reference == reference_sql[i]
                IN  /\ doing[c].task = reference.task
                    /\ Ok(result[c][1]) = After(reference, Len(reference.calls))
                    /\ result[c] \in [{1} -> Value \cup {NULL}]
    <2>1. ClientInv(c) /\ Sound(doing[c]) /\ step[c] = Len(doing[c].calls)
        BY <1>2 DEF CatalogInv, ClientInv, Done
    <2>2. step[c] > 0
        <3>1. Len(doing[c].calls) \in {1, 2}
            BY <2>1, StatementCalls DEF Sound
        <3>2. \A n \in {1, 2} : n > 0
            OBVIOUS
        <3>3. QED BY <2>1, <3>1, <3>2
    <2>3. Ok(result[c][1]) = After(doing[c], Len(doing[c].calls))
        BY <2>1, <2>2 DEF ClientInv
    <2>4. result[c] \in [{1} -> Value \cup {NULL}]
        BY <1>2, <2>2 DEF CatalogInv, CatalogTypeOK
    <2>5. QED BY <1>2, <2>1, <2>3, <2>4 DEF Sound
<1>3. ASSUME CatalogInv, NEW c \in Clients, NEW d \in Clients, Done(c), Done(d),
             doing[c].task # NULL, doing[c].task = doing[d].task
      PROVE  result[c] = result[d]
    <2>1. PICK i \in DOMAIN reference_sql :
              /\ doing[c].task = reference_sql[i].task
              /\ Ok(result[c][1]) = After(reference_sql[i], Len(reference_sql[i].calls))
              /\ result[c] \in [{1} -> Value \cup {NULL}]
        BY <1>2, <1>3
    <2>2. PICK j \in DOMAIN reference_sql :
              /\ doing[d].task = reference_sql[j].task
              /\ Ok(result[d][1]) = After(reference_sql[j], Len(reference_sql[j].calls))
              /\ result[d] \in [{1} -> Value \cup {NULL}]
        BY <1>2, <1>3
    <2>3. i = j
        BY <1>3, <2>1, <2>2, TasksDiffer
    <2>4. result[c][1] = result[d][1]
        <3>1. \A v, w : Ok(v) = Ok(w) => v = w
            BY DEF Ok
        <3>2. QED BY <2>1, <2>2, <2>3, <3>1
    <2>5. QED BY <2>1, <2>2, <2>4
<1>4. CatalogInv => GradersAgree
    BY <1>3 DEF GradersAgree
<1>5. QED
    BY <1>1, <1>4, InitCatalogInv, PTL DEF CatalogSpec

(* A card masked under the profile for cards is another card number of 16  *)
(* digits, with the check digit it asks for.                               *)
LEMMA CardCall ==
    ASSUME Ff1Contract, NEW call, IsCall(call), call.fn = "mask_fpe",
           call.args[1] = SomeCard, call.args[2].word = "card"
    PROVE  \E w \in Value : /\ CallAnswer(call, call.args[1]) = Ok(w)
                            /\ IsPan(w) /\ Len(w) = PAN_LEN /\ is_luhn_valid(w)
<1> DEFINE forward == call.fn = "mask_fpe"
<1>1. FormatParse(call.args[2]) = Ok("Card")
    BY DEF FormatParse, Normalised
<1>2. SomeCard \in Value /\ "Card" \in Formats /\ forward \in BOOLEAN
    BY CatalogAssumption DEF Formats
<1>3. CallAnswer(call, SomeCard) = fpe_dispatch(SomeCard, "Card", call.args[3], forward)
    BY <1>1, <1>2, ProfileCall
<1> HIDE DEF forward
<1>4. PICK w \in Value :
          /\ fpe_dispatch(SomeCard, "Card", call.args[3], forward) = Ok(w)
          /\ SameShape(SomeCard, w, ALNUM)
          /\ IsPanValue(SomeCard) => IsPanValue(w) /\ HasCheckDigit(w)
    BY <1>2, ProfilesKeepShape
<1>5. \A v : IsPan(v) <=> IsPanValue(v)
    BY DEF IsPan, PanDigits, IsPanValue
<1>6. Len(w) = PAN_LEN
    BY <1>4, LiteralsAssumption DEF SameShape
<1>7. IsPan(w) /\ is_luhn_valid(w)
    BY <1>4, <1>5, LiteralsAssumption, CheckDigitIsValid
<1>8. QED
    BY <1>3, <1>4, <1>6, <1>7

(* What is published beside a statement is what a client gets for it, the  *)
(* round trips and the stars of the redactions included, and a card is     *)
(* masked into another valid card number: whatever FF1 answers, and beside *)
(* whatever else the worker runs.                                          *)
THEOREM PublishedAnswersHold ==
    ASSUME Ff1Contract, HmacContract
    PROVE  CatalogSpec => []AsPublished
<1>1. CatalogInv /\ [CatalogNext]_catalogVars => CatalogInv'
    BY StepKeepsCatalogInv
<1>2. ASSUME CatalogInv, NEW c \in Clients, Done(c)
      PROVE  LET last == doing[c].calls[step[c]]
             IN  /\ doing[c].shows # NULL => result[c][1] = doing[c].shows
                 /\ last.fn = "mask_fpe" /\ last.args[1] = SomeCard
                    /\ last.args[2].word = "card" =>
                       /\ IsPan(result[c][1]) /\ Len(result[c][1]) = PAN_LEN
                       /\ is_luhn_valid(result[c][1])
    <2>1. PICK s : s = doing[c]
        OBVIOUS
    <2>2. PICK n : n = step[c]
        OBVIOUS
    <2>3. ClientInv(c) /\ Sound(s) /\ n = Len(s.calls)
        BY <1>2, <2>1, <2>2 DEF CatalogInv, ClientInv, Done
    <2>4. n > 0
        <3>1. Len(s.calls) \in {1, 2}
            BY <2>3, StatementCalls DEF Sound
        <3>2. \A m \in {1, 2} : m > 0
            OBVIOUS
        <3>3. QED BY <2>3, <3>1, <3>2
    <2>5. Ok(result[c][1]) = After(s, n)
        BY <2>1, <2>2, <2>3, <2>4 DEF ClientInv
    <2>6. \A v, w : Ok(v) = Ok(w) => v = w
        BY DEF Ok
    <2>7. s.shows # NULL => result[c][1] = s.shows
        BY <2>3, <2>5, <2>6 DEF Sound
    <2>8. ASSUME s.calls[n].fn = "mask_fpe", s.calls[n].args[1] = SomeCard,
                 s.calls[n].args[2].word = "card"
          PROVE  /\ IsPan(result[c][1]) /\ Len(result[c][1]) = PAN_LEN
                 /\ is_luhn_valid(result[c][1])
        <3>1. ASSUME NEW inner, NEW outer, s.calls = <<inner, outer>>,
                     outer.fn = "mask_unfpe"
              PROVE  FALSE
            <4>1. n = 2 /\ s.calls[2] = outer
                BY <2>3, <3>1
            <4>2. QED BY <2>8, <3>1, <4>1
        <3>2. PICK call : s.calls = <<call>> /\ IsCall(call)
            BY <2>3, <3>1 DEF Sound, IsStatement
        <3>3. n = 1 /\ s.calls[1] = call
            BY <2>3, <3>2
        <3>4. After(s, 1) = CallAnswer(call, call.args[1])
            BY <3>3 DEF After
        <3>5. call.fn = "mask_fpe" /\ call.args[1] = SomeCard /\ call.args[2].word = "card"
            BY <2>8, <3>3
        <3>6. PICK w \in Value : /\ CallAnswer(call, call.args[1]) = Ok(w)
                                 /\ IsPan(w) /\ Len(w) = PAN_LEN /\ is_luhn_valid(w)
            BY <3>2, <3>5, CardCall
        <3>7. result[c][1] = w
            BY <2>5, <2>6, <3>3, <3>4, <3>6
        <3>8. QED BY <3>6, <3>7
    <2>9. QED BY <2>1, <2>2, <2>7, <2>8
<1>3. CatalogInv => AsPublished
    BY <1>2 DEF AsPublished
<1>4. QED
    BY <1>1, <1>3, InitCatalogInv, PTL DEF CatalogSpec
=============================================================================
