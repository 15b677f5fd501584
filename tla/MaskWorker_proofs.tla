-------------------------- MODULE MaskWorker_proofs --------------------------
(***************************************************************************)
(* Proofs about the worker, for every set of connections, every requests   *)
(* and every engine: its type invariant, that its answers are aligned with *)
(* the rows of the request, and that no client ever sees the Fpe error.    *)
(***************************************************************************)
EXTENDS MaskWorker, MaskEngine_proofs

(* A token is text: 32 hex digits.                                         *)
HmacContract == \A key : \A value \in Value : Hmac(key, value) \in Value

-----------------------------------------------------------------------------
(* What the functions answer for one row.                                  *)

Answers(r) == \/ r.tag = "ok" /\ r.val \in Value
              \/ r.tag = "err" /\ r.kind \in ErrorKinds \ {"Fpe"}

(* A value is an answer a client may see.                                  *)
LEMMA AnswersOk == \A w \in Value : Answers(Ok(w)) /\ IsOk(Ok(w))
BY DEF Answers, Ok, IsOk

(* An error other than Fpe is an answer a client may see.                  *)
LEMMA AnswersErr ==
    \A kind \in ErrorKinds \ {"Fpe"} : Answers(Err(kind)) /\ ~IsOk(Err(kind))
BY DEF Answers, Err, IsOk

(* Format::parse answers one of the five profiles or UnknownFormat.        *)
LEMMA FormatParseType ==
    ASSUME NEW name
    PROVE  \/ \E format \in Formats : FormatParse(name) = Ok(format)
           \/ FormatParse(name) = Err("UnknownFormat")
BY DEF FormatParse, Formats

(* RedactMode::parse answers one of the four modes or UnknownMode.         *)
LEMMA ModeParseType ==
    ASSUME NEW name
    PROVE  \/ \E mode \in Modes : ModeParse(name) = Ok(mode)
           \/ ModeParse(name) = Err("UnknownMode")
BY DEF ModeParse, Modes

(* The names and aliases of the profiles are all known.                    *)
LEMMA FormatNamesParse ==
    ASSUME NEW name, Normalised(name) \in FormatNames
                         \cup {"digit", "alphanumeric", "pan", "ccn", "mail"}
    PROVE  \E format \in Formats : FormatParse(name) = Ok(format)
<1> DEFINE word == Normalised(name)
<1>1. CASE word \in {"digits", "digit"}
    BY <1>1 DEF FormatParse, Formats
<1>2. CASE word \in {"alnum", "alphanumeric"}
    BY <1>2 DEF FormatParse, Formats
<1>3. CASE word \in {"card", "pan", "ccn"}
    BY <1>3 DEF FormatParse, Formats
<1>4. CASE word = "ssn"
    BY <1>4 DEF FormatParse, Formats
<1>5. CASE word \in {"email", "mail"}
    BY <1>5 DEF FormatParse, Formats
<1>6. QED BY <1>1, <1>2, <1>3, <1>4, <1>5 DEF FormatNames

(* The same for the modes.                                                 *)
LEMMA ModeNamesParse ==
    ASSUME NEW name, Normalised(name) \in ModeNames \cup {"full"}
    PROVE  \E mode \in Modes : ModeParse(name) = Ok(mode)
<1> DEFINE word == Normalised(name)
<1>1. CASE word = "last4"
    BY <1>1 DEF ModeParse, Modes
<1>2. CASE word = "first4"
    BY <1>2 DEF ModeParse, Modes
<1>3. CASE word = "email"
    BY <1>3 DEF ModeParse, Modes
<1>4. CASE word \in {"all", "full"}
    BY <1>4 DEF ModeParse, Modes
<1>5. QED BY <1>1, <1>2, <1>3, <1>4 DEF ModeNames

(* Every profile answers a value: none can fail.                           *)
LEMMA DispatchType ==
    ASSUME Ff1Contract, NEW value \in Value, NEW format \in Formats, NEW key,
           NEW forward \in BOOLEAN
    PROVE  \E w \in Value : fpe_dispatch(value, format, key, forward) = Ok(w)
BY ProfilesKeepShape

(* mask_fpe and mask_unfpe on one row: a value, or an error that is not    *)
(* Fpe.                                                                    *)
LEMMA RunFpeType ==
    ASSUME Ff1Contract, NEW value \in Value, NEW name, NEW key, NEW forward \in BOOLEAN
    PROVE  Answers(RunFpe(value, name, key, forward))
<1>1. CASE FormatParse(name) = Err("UnknownFormat")
    <2>1. "UnknownFormat" \in ErrorKinds \ {"Fpe"}
        BY DEF ErrorKinds
    <2>2. ~IsOk(FormatParse(name)) /\ Answers(FormatParse(name))
        BY <1>1, <2>1, AnswersErr
    <2>3. QED BY <2>2 DEF RunFpe
<1>2. ASSUME NEW format \in Formats, FormatParse(name) = Ok(format)
      PROVE  Answers(RunFpe(value, name, key, forward))
    <2>1. RunFpe(value, name, key, forward) = fpe_crypt(value, format, key, forward)
        BY <1>2 DEF RunFpe, Ok, IsOk
    <2>2. CASE key = EmptyKey
        <3>1. "EmptyKey" \in ErrorKinds \ {"Fpe"}
            BY DEF ErrorKinds
        <3>2. fpe_crypt(value, format, key, forward) = Err("EmptyKey")
            BY <2>2 DEF fpe_crypt
        <3>3. QED BY <2>1, <3>1, <3>2, AnswersErr
    <2>3. CASE key # EmptyKey
        <3>1. fpe_crypt(value, format, key, forward)
              = fpe_dispatch(value, format, key, forward)
            BY <2>3 DEF fpe_crypt
        <3>2. PICK w \in Value : fpe_dispatch(value, format, key, forward) = Ok(w)
            BY DispatchType
        <3>3. QED BY <2>1, <3>1, <3>2, AnswersOk
    <2>4. QED BY <2>2, <2>3
<1>3. QED
    BY <1>1, <1>2, FormatParseType

(* mask_redact on one row: a value, or UnknownMode.                        *)
LEMMA RunRedactType ==
    ASSUME NEW value \in Value, NEW name
    PROVE  Answers(RunRedact(value, name))
<1>1. CASE ModeParse(name) = Err("UnknownMode")
    <2>1. "UnknownMode" \in ErrorKinds \ {"Fpe"}
        BY DEF ErrorKinds
    <2>2. ~IsOk(ModeParse(name)) /\ Answers(ModeParse(name))
        BY <1>1, <2>1, AnswersErr
    <2>3. QED BY <2>2 DEF RunRedact
<1>2. ASSUME NEW mode \in Modes, ModeParse(name) = Ok(mode)
      PROVE  Answers(RunRedact(value, name))
    <2>1. RunRedact(value, name) = Ok(redact(value, mode))
        BY <1>2 DEF RunRedact, Ok, IsOk
    <2>2. QED BY <2>1, AnswersOk, RedactKeepsLength
<1>3. QED
    BY <1>1, <1>2, ModeParseType

(* Every function on one row: a value, or an error that is not Fpe.        *)
LEMMA ApplyType ==
    ASSUME Ff1Contract, HmacContract, NEW fn \in Functions, NEW v, v[1] \in Value
    PROVE  Answers(Apply(fn, v))
<1>1. CASE fn = "mask_fpe"
    <2>1. Apply(fn, v) = RunFpe(v[1], v[2], v[3], TRUE)
        BY <1>1 DEF Apply
    <2>2. QED BY <2>1, RunFpeType
<1>2. CASE fn = "mask_unfpe"
    <2>1. Apply(fn, v) = RunFpe(v[1], v[2], v[3], FALSE)
        BY <1>2 DEF Apply
    <2>2. QED BY <2>1, RunFpeType
<1>3. CASE fn = "mask_token"
    <2>1. Apply(fn, v) = token(v[1], v[2])
        BY <1>3 DEF Apply
    <2>2. "EmptyKey" \in ErrorKinds \ {"Fpe"}
        BY DEF ErrorKinds
    <2>3. Hmac(v[2], v[1]) \in Value
        BY DEF HmacContract
    <2>4. QED BY <2>1, <2>2, <2>3, AnswersOk, AnswersErr DEF token
<1>4. CASE fn = "mask_redact"
    <2>1. Apply(fn, v) = RunRedact(v[1], v[2])
        BY <1>4 DEF Apply
    <2>2. QED BY <2>1, RunRedactType
<1>5. QED
    BY <1>1, <1>2, <1>3, <1>4 DEF Functions, Arity

-----------------------------------------------------------------------------
(* The type invariant and the absence of the Fpe error.                    *)

(* A row that is computed is computed from a value.                        *)
LEMMA ComputedType ==
    ASSUME Ff1Contract, HmacContract, TypeOK,
           NEW c \in Connections, InLoop(c), Readable(c), ~HasNull(c)
    PROVE  Answers(Computed(c))
<1> DEFINE req == request[c]
           i == row[c] + 1
           v == [a \in DOMAIN Operands(c) |-> Operands(c)[a].val]
<1>1. IsRequest(req) /\ row[c] \in Nat /\ row[c] < NumRows(req)
    BY DEF TypeOK, InLoop, Running
<1>2. /\ req.fn \in Functions /\ 1 \in DOMAIN req.args
      /\ req.args[1].cells[i] \in Value \cup {NULL}
    <2>1. Arity[req.fn] \in {2, 3}
        BY <1>1 DEF IsRequest, Functions, Arity
    <2>2. i \in 1..NumRows(req)
        BY <1>1 DEF IsRequest
    <2>3. QED BY <1>1, <2>1, <2>2 DEF IsRequest
<1>3. Operands(c)[1] = text_str(req.args[1], i) /\ 1 \in DOMAIN Operands(c)
    BY <1>2 DEF Operands
<1>4. IsOk(Operands(c)[1]) /\ Operands(c)[1].val # NULL
    BY <1>3 DEF Readable, HasNull
<1>5. Operands(c)[1].val = req.args[1].cells[i]
    BY <1>3, <1>4 DEF text_str, Ok, Err, IsOk
<1>6. v[1] \in Value
    BY <1>2, <1>3, <1>4, <1>5
<1>7. Computed(c) = Apply(req.fn, v)
    BY DEF Computed
<1> HIDE DEF v
<1>8. QED
    BY <1>2, <1>6, <1>7, ApplyType

(* The inductive invariant, and what it says of a reply.                   *)
IInv == TypeOK /\ OneCellPerRow /\ NoFpeError

Reply(req, r) ==
    /\ IsResult(r)
    /\ ~IsOk(r) => r.kind # "Fpe"
    /\ IsOk(r) => Len(r.val) = NumRows(req)

(* process() returning, with a column or with an error, keeps the          *)
(* invariant.                                                              *)
LEMMA ReturnKeepsIInv ==
    ASSUME IInv, NEW c \in Connections, Running(c), NEW r, Reply(request[c], r),
           Return(c, r)
    PROVE  IInv'
<1>1. /\ reply' = [reply EXCEPT ![c] = r]
      /\ row' = [row EXCEPT ![c] = 0]
      /\ out' = [out EXCEPT ![c] = <<>>]
      /\ request' = request
    BY DEF Return
<1>2. <<>> \in Seq(Value \cup {NULL})
    BY EmptySeq
<1>3. TypeOK'
    BY <1>1, <1>2 DEF IInv, TypeOK, Reply, Running
<1>4. NoFpeError'
    BY <1>1 DEF IInv, TypeOK, NoFpeError, Reply
<1>5. OneCellPerRow'
    <2>1. Len(<<>>) = 0
        BY EmptySeq
    <2>2. NumRows(request[c]) \in Nat
        BY DEF IInv, TypeOK, Running, IsRequest
    <2>3. QED BY <1>1, <2>1, <2>2 DEF IInv, TypeOK, OneCellPerRow, Reply, Running
<1>6. QED
    BY <1>3, <1>4, <1>5 DEF IInv

(* One more cell in the builder keeps the invariant.                       *)
LEMMA AppendKeepsIInv ==
    ASSUME IInv, NEW c \in Connections, InLoop(c), NEW cell \in Value \cup {NULL},
           AppendCell(c, cell)
    PROVE  IInv'
<1>1. /\ out' = [out EXCEPT ![c] = Append(@, cell)]
      /\ row' = [row EXCEPT ![c] = @ + 1]
      /\ request' = request /\ reply' = reply
    BY DEF AppendCell
<1>2. out[c] \in Seq(Value \cup {NULL}) /\ row[c] \in Nat
    BY DEF IInv, TypeOK
<1>3. /\ Append(out[c], cell) \in Seq(Value \cup {NULL})
      /\ Len(Append(out[c], cell)) = Len(out[c]) + 1
    BY <1>2, AppendProperties
<1>4. TypeOK'
    BY <1>1, <1>2, <1>3 DEF IInv, TypeOK
<1>5. NoFpeError'
    BY <1>1 DEF IInv, NoFpeError
<1>6. OneCellPerRow'
    <2>1. NumRows(request[c]) \in Nat
        BY DEF IInv, TypeOK, InLoop, Running, IsRequest
    <2>2. row[c] + 1 <= NumRows(request[c])
        BY <1>2, <2>1 DEF InLoop
    <2>3. QED BY <1>1, <1>2, <1>3, <2>2 DEF IInv, TypeOK, OneCellPerRow, InLoop, Running
<1>7. QED
    BY <1>4, <1>5, <1>6 DEF IInv

(* A request on a free connection keeps the invariant.                     *)
LEMMA SubmitKeepsIInv ==
    ASSUME IInv, NEW c \in Connections, NEW req, IsRequest(req), Submit(c, req)
    PROVE  IInv'
<1>1. /\ request' = [request EXCEPT ![c] = req]
      /\ row' = row /\ out' = out /\ reply' = reply
    BY DEF Submit
<1>2. TypeOK'
    BY <1>1 DEF IInv, TypeOK, Submit
<1>3. NoFpeError'
    BY <1>1 DEF IInv, NoFpeError
<1>4. OneCellPerRow'
    <2>1. NumRows(req) \in Nat
        BY DEF IsRequest
    <2>2. request[c] = None /\ reply[c] = None /\ row[c] = 0
        BY DEF IInv, TypeOK, OneCellPerRow, Running, Submit
    <2>3. QED BY <1>1, <2>1, <2>2 DEF IInv, TypeOK, OneCellPerRow, Running
<1>5. QED
    BY <1>2, <1>3, <1>4 DEF IInv

(* A step of process() keeps the invariant.                                *)
LEMMA ProcessKeepsIInv ==
    ASSUME Ff1Contract, HmacContract, IInv, NEW c \in Connections, Process(c)
    PROVE  IInv'
<1>1. Running(c)
    BY DEF Process, UnreadableRow, NullRow, ValueRow, ErrorRow, Finish, InLoop
<1>2. CASE UnreadableRow(c)
    <2>1. Reply(request[c], Err("NotVarchar"))
        BY DEF Reply, IsResult, Err, IsOk, ErrorKinds
    <2>2. QED BY <1>1, <1>2, <2>1, ReturnKeepsIInv DEF UnreadableRow
<1>3. CASE NullRow(c)
    BY <1>3, AppendKeepsIInv DEF NullRow
<1>4. CASE ValueRow(c)
    <2>1. Answers(Computed(c)) /\ IsOk(Computed(c))
        BY <1>4, ComputedType DEF ValueRow, IInv
    <2>2. Computed(c).val \in Value
        BY <2>1 DEF Answers, IsOk
    <2>3. QED BY <1>4, <2>2, AppendKeepsIInv DEF ValueRow
<1>5. CASE ErrorRow(c)
    <2>1. Answers(Computed(c)) /\ ~IsOk(Computed(c))
        BY <1>5, ComputedType DEF ErrorRow, IInv
    <2>2. Reply(request[c], Computed(c))
        BY <2>1 DEF Answers, IsOk, Reply, IsResult
    <2>3. QED BY <1>1, <1>5, <2>2, ReturnKeepsIInv DEF ErrorRow
<1>6. CASE Finish(c)
    <2>1. /\ out[c] \in Seq(Value \cup {NULL}) /\ row[c] \in Nat
          /\ NumRows(request[c]) \in Nat
        BY <1>1 DEF IInv, TypeOK, Running, IsRequest
    <2>2. Len(out[c]) = NumRows(request[c])
        BY <1>1, <1>6, <2>1 DEF IInv, OneCellPerRow, Finish
    <2>3. Reply(request[c], Ok(out[c]))
        BY <2>1, <2>2 DEF Reply, IsResult, Ok, IsOk
    <2>4. try_new(request[c].fn, out[c]) = Ok(out[c])
        BY <1>1 DEF IInv, TypeOK, Running, IsRequest, try_new, on_bind
    <2>5. QED BY <1>1, <1>6, <2>3, <2>4, ReturnKeepsIInv DEF Finish
<1>7. QED BY <1>2, <1>3, <1>4, <1>5, <1>6 DEF Process

(* Taking a reply keeps the invariant.                                     *)
LEMMA CollectKeepsIInv ==
    ASSUME IInv, NEW c \in Connections, Collect(c)
    PROVE  IInv'
<1>1. TypeOK'
    BY DEF IInv, TypeOK, Collect
<1>2. NoFpeError'
    BY DEF IInv, TypeOK, NoFpeError, Collect
<1>3. OneCellPerRow'
    BY DEF IInv, TypeOK, OneCellPerRow, Running, Collect
<1>4. QED
    BY <1>1, <1>2, <1>3 DEF IInv

(* Every step keeps the invariant.                                         *)
LEMMA StepKeepsIInv ==
    ASSUME Ff1Contract, HmacContract, IInv, [Next]_vars
    PROVE  IInv'
<1>1. CASE UNCHANGED vars
    BY <1>1 DEF IInv, TypeOK, OneCellPerRow, Running, NoFpeError, vars
<1>2. ASSUME NEW c \in Connections, NEW req \in Requests, Submit(c, req)
      PROVE  IInv'
    BY <1>2, RequestsAssumption, SubmitKeepsIInv
<1>3. ASSUME NEW c \in Connections, Process(c)
      PROVE  IInv'
    BY <1>3, ProcessKeepsIInv
<1>4. ASSUME NEW c \in Connections, Collect(c)
      PROVE  IInv'
    BY <1>4, CollectKeepsIInv
<1>5. QED
    BY <1>1, <1>2, <1>3, <1>4 DEF Next

(* The worker starts in the invariant.                                     *)
LEMMA InitIInv == Init => IInv
<1> SUFFICES ASSUME Init PROVE IInv
    OBVIOUS
<1>1. <<>> \in Seq(Value \cup {NULL})
    BY EmptySeq
<1>2. TypeOK
    BY <1>1 DEF Init, TypeOK
<1>3. NoFpeError
    BY DEF Init, NoFpeError
<1>4. OneCellPerRow
    <2>1. Len(<<>>) = 0
        BY EmptySeq
    <2>2. QED BY <2>1 DEF Init, OneCellPerRow, Running
<1>5. QED
    BY <1>2, <1>3, <1>4 DEF IInv

(* Requests, builders and replies have their types in every reachable      *)
(* state: a reply is a column of values and NULLs, or an error of the list. *)
THEOREM TypeCorrect ==
    ASSUME Ff1Contract, HmacContract
    PROVE  Spec => []TypeOK
<1>1. IInv /\ [Next]_vars => IInv'
    BY StepKeepsIInv
<1>2. IInv => TypeOK
    BY DEF IInv
<1>3. QED
    BY <1>1, <1>2, InitIInv, PTL DEF Spec

(* The builder has one cell for each row that is done, and a column that   *)
(* is returned has one for each row of the request it answers.             *)
THEOREM AnswersAligned ==
    ASSUME Ff1Contract, HmacContract
    PROVE  Spec => []OneCellPerRow
<1>1. IInv /\ [Next]_vars => IInv'
    BY StepKeepsIInv
<1>2. IInv => OneCellPerRow
    BY DEF IInv
<1>3. QED
    BY <1>1, <1>2, InitIInv, PTL DEF Spec

(* MaskError::Fpe "should not happen for inputs that pass our pre-checks"  *)
(* (mask.rs): no request of any client is ever answered with it.           *)
THEOREM FpeErrorNeverHappens ==
    ASSUME Ff1Contract, HmacContract
    PROVE  Spec => []NoFpeError
<1>1. IInv /\ [Next]_vars => IInv'
    BY StepKeepsIInv
<1>2. IInv => NoFpeError
    BY DEF IInv
<1>3. QED
    BY <1>1, <1>2, InitIInv, PTL DEF Spec
=============================================================================
