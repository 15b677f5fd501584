--------------------------- MODULE MaskBatch_proofs ---------------------------
(***************************************************************************)
(* Proof that the worker implements the promise of MaskBatch, for every    *)
(* set of connections, every requests and every engine: a step of a row    *)
(* loop is a stutter of the promise until it returns, and then answers     *)
(* what the request was promised.                                          *)
(***************************************************************************)
EXTENDS MaskWorker_proofs

(* The cells a running loop has built are the promised ones, and no row    *)
(* before the current one fails.                                           *)
PrefixPromised == \A c \in Connections : Running(c) =>
    \A i \in 1..row[c] : /\ IsOk(RowPromise(request[c], i))
                         /\ out[c][i] = RowPromise(request[c], i).val

(* A reply that waits for its client is the promised one.                  *)
ReplyPromised == \A c \in Connections :
    reply[c] # None => reply[c] = Batch!Answer(request[c])

BatchInv == IInv /\ PrefixPromised /\ ReplyPromised

-----------------------------------------------------------------------------
(* What one row of the loop does is what its row is promised.              *)

(* text_str: NULL whatever the type, else the cell of a text column, else  *)
(* an error.                                                               *)
LEMMA TextStr ==
    ASSUME NEW col, NEW i
    PROVE  /\ IsOk(text_str(col, i)) <=> (col.cells[i] = NULL \/ col.type \in TextTypes)
           /\ IsOk(text_str(col, i)) => text_str(col, i).val = col.cells[i]
<1>1. CASE col.cells[i] = NULL
    <2>1. text_str(col, i) = Ok(NULL)
        BY <1>1 DEF text_str
    <2>2. QED BY <1>1, <2>1 DEF Ok, IsOk
<1>2. CASE col.cells[i] # NULL /\ col.type \in TextTypes
    <2>1. text_str(col, i) = Ok(col.cells[i])
        BY <1>2 DEF text_str
    <2>2. QED BY <1>2, <2>1 DEF Ok, IsOk
<1>3. CASE col.cells[i] # NULL /\ col.type \notin TextTypes
    <2>1. text_str(col, i) = Err("NotVarchar")
        BY <1>3 DEF text_str
    <2>2. QED BY <1>3, <2>1 DEF Err, IsOk
<1>4. QED
    BY <1>1, <1>2, <1>3

(* The three kinds of rows of the loop are the three of the promise.       *)
LEMMA RowIsPromised ==
    ASSUME NEW c \in Connections, NEW i, i = row[c] + 1
    PROVE  /\ ~Readable(c) => RowPromise(request[c], i) = Err("NotVarchar")
           /\ Readable(c) /\ HasNull(c) => RowPromise(request[c], i) = Ok(NULL)
           /\ Readable(c) /\ ~HasNull(c) => RowPromise(request[c], i) = Computed(c)
<1> DEFINE args == request[c].args
<1>1. /\ DOMAIN Operands(c) = DOMAIN args
      /\ \A a \in DOMAIN args : Operands(c)[a] = text_str(args[a], i)
    BY DEF Operands
<1>2. \A a \in DOMAIN args :
          IsOk(Operands(c)[a]) <=> (args[a].cells[i] = NULL \/ args[a].type \in TextTypes)
    BY <1>1, TextStr
<1>3. Readable(c) <=> ~Misread(request[c], i)
    BY <1>1, <1>2 DEF Readable, Misread
<1>4. ASSUME Readable(c)
      PROVE  \A a \in DOMAIN args : Operands(c)[a].val = args[a].cells[i]
    BY <1>1, <1>4, TextStr DEF Readable
<1>5. Readable(c) => (HasNull(c) <=> \E a \in DOMAIN args : args[a].cells[i] = NULL)
    BY <1>1, <1>4 DEF HasNull
<1>6. ASSUME Readable(c)
      PROVE  [a \in DOMAIN Operands(c) |-> Operands(c)[a].val]
             = [a \in DOMAIN args |-> args[a].cells[i]]
    BY <1>1, <1>4, <1>6
<1>7. Readable(c) => Computed(c) = Apply(request[c].fn,
                                         [a \in DOMAIN args |-> args[a].cells[i]])
    BY <1>6 DEF Computed
<1>8. QED
    BY <1>3, <1>5, <1>7 DEF RowPromise

(* A first row that fails decides the answer.                              *)
LEMMA FirstFailure ==
    ASSUME NEW req, NumRows(req) \in Nat, NEW i \in 1..NumRows(req),
           ~IsOk(RowPromise(req, i)),
           \A j \in 1..(i - 1) : IsOk(RowPromise(req, j))
    PROVE  Batch!Answer(req) = RowPromise(req, i)
<1> DEFINE First(m) == \A j \in Batch!Failing(req) : m <= j
<1>1. i \in Batch!Failing(req)
    BY DEF Batch!Failing, Batch!IsOk, IsOk
<1>2. \A j \in Batch!Failing(req) : j \in 1..NumRows(req) /\ ~IsOk(RowPromise(req, j))
    BY DEF Batch!Failing, Batch!IsOk, IsOk
<1>3. First(i)
    <2> SUFFICES ASSUME NEW j \in Batch!Failing(req), j < i
                 PROVE  FALSE
        BY <1>2
    <2>1. j \in 1..(i - 1)
        BY <1>2
    <2>2. QED BY <1>2, <2>1
<1>4. \A m \in Batch!Failing(req) : First(m) => m = i
    <2> SUFFICES ASSUME NEW m \in Batch!Failing(req), First(m)
                 PROVE  m = i
        OBVIOUS
    <2>1. m <= i /\ i <= m
        BY <1>1, <1>3
    <2>2. m \in Int /\ i \in Int
        BY <1>2
    <2>3. QED BY <2>1, <2>2
<1>5. (CHOOSE m \in Batch!Failing(req) : First(m)) = i
    BY <1>1, <1>3, <1>4
<1>6. Batch!Failing(req) # {}
    BY <1>1
<1>7. QED
    BY <1>5, <1>6 DEF Batch!Answer

(* Without a failing row the answer is the column of promised cells.       *)
LEMMA WholeColumn ==
    ASSUME NEW req, NumRows(req) \in Nat, NEW S, NEW cells \in Seq(S),
           Len(cells) = NumRows(req),
           \A i \in 1..NumRows(req) : /\ IsOk(RowPromise(req, i))
                                      /\ cells[i] = RowPromise(req, i).val
    PROVE  Batch!Answer(req) = Ok(cells)
<1>1. Batch!Failing(req) = {}
    BY DEF Batch!Failing, Batch!IsOk, IsOk
<1>2. cells = [i \in 1..NumRows(req) |-> RowPromise(req, i).val]
    BY LenProperties
<1>3. QED
    BY <1>1, <1>2 DEF Batch!Answer, Batch!Ok, Ok

-----------------------------------------------------------------------------
(* The steps of the loop.                                                  *)

(* Returning is the promise's one step, if what is returned is the answer. *)
LEMMA ReturnAnswers ==
    ASSUME BatchInv, NEW c \in Connections, Running(c),
           Return(c, Batch!Answer(request[c]))
    PROVE  PrefixPromised' /\ Batch!Process(c)
<1>1. /\ reply' = [reply EXCEPT ![c] = Batch!Answer(request[c])]
      /\ row' = [row EXCEPT ![c] = 0]
      /\ out' = [out EXCEPT ![c] = <<>>]
      /\ request' = request
    BY DEF Return
<1>2. Batch!Process(c)
    BY <1>1 DEF Running, Batch!Process
<1>3. PrefixPromised'
    BY <1>1 DEF BatchInv, IInv, TypeOK, PrefixPromised, Running
<1>4. QED
    BY <1>2, <1>3

(* Appending the promised cell of the row keeps the prefix promised.       *)
LEMMA AppendPromised ==
    ASSUME BatchInv, NEW c \in Connections, InLoop(c),
           IsOk(RowPromise(request[c], row[c] + 1)),
           AppendCell(c, RowPromise(request[c], row[c] + 1).val)
    PROVE  PrefixPromised' /\ UNCHANGED Batch!vars
<1> DEFINE cell == RowPromise(request[c], row[c] + 1).val
<1>1. /\ out' = [out EXCEPT ![c] = Append(@, cell)]
      /\ row' = [row EXCEPT ![c] = @ + 1]
      /\ request' = request /\ reply' = reply
    BY DEF AppendCell
<1>2. /\ out[c] \in Seq(Value \cup {NULL}) /\ row[c] \in Nat
      /\ Len(out[c]) = row[c] /\ Running(c)
    BY DEF BatchInv, IInv, TypeOK, OneCellPerRow, InLoop
<1>3. /\ \A i \in 1..row[c] : Append(out[c], cell)[i] = out[c][i]
      /\ Append(out[c], cell)[row[c] + 1] = cell
    <2> HIDE DEF cell
    <2>1. out[c] \in Seq(Value \cup {NULL, cell})
        BY <1>2
    <2>2. QED BY <1>2, <2>1, AppendProperties
<1>4. ASSUME NEW d \in Connections, Running(d)', NEW i \in 1..row'[d]
      PROVE  IsOk(RowPromise(request[d], i)) /\ out'[d][i] = RowPromise(request[d], i).val
    <2>1. CASE d # c
        BY <1>1, <1>4, <2>1 DEF BatchInv, IInv, TypeOK, PrefixPromised, Running
    <2>2. CASE d = c
        <3>1. row'[c] = row[c] + 1 /\ out'[c] = Append(out[c], cell)
            BY <1>1 DEF BatchInv, IInv, TypeOK
        <3>2. i \in 1..row[c] \/ i = row[c] + 1
            BY <1>2, <1>4, <2>2, <3>1
        <3>3. \A j \in 1..row[c] : /\ IsOk(RowPromise(request[c], j))
                                   /\ out[c][j] = RowPromise(request[c], j).val
            BY <1>2 DEF BatchInv, PrefixPromised
        <3>4. QED BY <1>3, <2>2, <3>1, <3>2, <3>3
    <2>3. QED BY <2>1, <2>2
<1>5. PrefixPromised'
    BY <1>1, <1>4 DEF PrefixPromised
<1>6. UNCHANGED Batch!vars
    BY <1>1 DEF Batch!vars
<1>7. QED
    BY <1>5, <1>6

(* A row that fails is the first one that does.                            *)
LEMMA FailingRow ==
    ASSUME BatchInv, NEW c \in Connections, InLoop(c),
           ~IsOk(RowPromise(request[c], row[c] + 1))
    PROVE  Batch!Answer(request[c]) = RowPromise(request[c], row[c] + 1)
<1>1. /\ Running(c) /\ row[c] \in Nat /\ NumRows(request[c]) \in Nat
      /\ row[c] < NumRows(request[c])
    BY DEF BatchInv, IInv, TypeOK, InLoop, Running, IsRequest
<1>2. \A j \in 1..row[c] : IsOk(RowPromise(request[c], j))
    BY <1>1 DEF BatchInv, PrefixPromised
<1>3. row[c] + 1 \in 1..NumRows(request[c]) /\ (row[c] + 1) - 1 = row[c]
    BY <1>1
<1>4. QED
    BY <1>1, <1>2, <1>3, FirstFailure

(* A request on a free connection is one of the promise.                   *)
LEMMA SubmitPromised ==
    ASSUME BatchInv, NEW c \in Connections, NEW req, Submit(c, req)
    PROVE  PrefixPromised' /\ Batch!Submit(c, req)
<1>1. /\ request' = [request EXCEPT ![c] = req]
      /\ row' = row /\ out' = out /\ reply' = reply
    BY DEF Submit
<1>2. row[c] = 0
    BY DEF BatchInv, IInv, OneCellPerRow, Running, Submit
<1>3. PrefixPromised'
    BY <1>1, <1>2 DEF BatchInv, IInv, TypeOK, PrefixPromised, Running
<1>4. QED
    BY <1>3 DEF Submit, Batch!Submit

(* A step of process() keeps the prefix promised, and is the promise's     *)
(* step or a stutter.                                                      *)
LEMMA ProcessPromised ==
    ASSUME BatchInv, NEW c \in Connections, Process(c)
    PROVE  PrefixPromised' /\ (Batch!Process(c) \/ UNCHANGED Batch!vars)
<1> DEFINE promise == RowPromise(request[c], row[c] + 1)
<1>1. Running(c)
    BY DEF Process, UnreadableRow, NullRow, ValueRow, ErrorRow, Finish, InLoop
<1>2. CASE UnreadableRow(c)
    <2>1. promise = Err("NotVarchar") /\ ~IsOk(promise)
        BY <1>2, RowIsPromised DEF UnreadableRow, Err, IsOk
    <2>2. Batch!Answer(request[c]) = promise
        BY <1>2, <2>1, FailingRow DEF UnreadableRow
    <2>3. QED BY <1>1, <1>2, <2>1, <2>2, ReturnAnswers DEF UnreadableRow
<1>3. CASE NullRow(c)
    <2>1. promise = Ok(NULL)
        BY <1>3, RowIsPromised DEF NullRow
    <2>2. IsOk(promise) /\ promise.val = NULL
        BY <2>1 DEF Ok, IsOk
    <2>3. QED BY <1>3, <2>2, AppendPromised DEF NullRow
<1>4. CASE ValueRow(c)
    <2>1. promise = Computed(c) /\ IsOk(promise)
        BY <1>4, RowIsPromised DEF ValueRow
    <2>2. QED BY <1>4, <2>1, AppendPromised DEF ValueRow
<1>5. CASE ErrorRow(c)
    <2>1. promise = Computed(c) /\ ~IsOk(promise)
        BY <1>5, RowIsPromised DEF ErrorRow
    <2>2. Batch!Answer(request[c]) = promise
        BY <1>5, <2>1, FailingRow DEF ErrorRow
    <2>3. QED BY <1>1, <1>5, <2>1, <2>2, ReturnAnswers DEF ErrorRow
<1>6. CASE Finish(c)
    <2>1. /\ row[c] \in Nat /\ NumRows(request[c]) \in Nat
          /\ out[c] \in Seq(Value \cup {NULL})
          /\ Len(out[c]) = row[c] /\ row[c] <= NumRows(request[c])
        BY <1>1 DEF BatchInv, IInv, TypeOK, OneCellPerRow, Running, IsRequest
    <2>2. row[c] = NumRows(request[c])
        BY <1>6, <2>1 DEF Finish
    <2>3. \A i \in 1..NumRows(request[c]) : /\ IsOk(RowPromise(request[c], i))
                                            /\ out[c][i] = RowPromise(request[c], i).val
        BY <1>1, <2>2 DEF BatchInv, PrefixPromised
    <2>4. Batch!Answer(request[c]) = Ok(out[c])
        BY <2>1, <2>2, <2>3, WholeColumn
    <2>5. try_new(request[c].fn, out[c]) = Ok(out[c])
        BY <1>1 DEF BatchInv, IInv, TypeOK, Running, IsRequest, try_new, on_bind
    <2>6. QED BY <1>1, <1>6, <2>4, <2>5, ReturnAnswers DEF Finish
<1>7. QED BY <1>2, <1>3, <1>4, <1>5, <1>6 DEF Process

(* Taking a reply is a step of the promise.                                *)
LEMMA CollectPromised ==
    ASSUME BatchInv, NEW c \in Connections, Collect(c)
    PROVE  PrefixPromised' /\ Batch!Collect(c)
<1>1. Batch!Collect(c)
    BY DEF Collect, Batch!Collect
<1>2. PrefixPromised'
    BY DEF BatchInv, IInv, TypeOK, PrefixPromised, Running, Collect
<1>3. QED
    BY <1>1, <1>2

(* A step of the promise leaves promised replies.                          *)
LEMMA RepliesStayPromised ==
    ASSUME BatchInv, NEW c \in Connections,
           \/ \E req : Batch!Submit(c, req)
           \/ Batch!Process(c) \/ Batch!Collect(c) \/ UNCHANGED Batch!vars
    PROVE  ReplyPromised'
<1>1. DOMAIN request = Connections /\ DOMAIN reply = Connections
    BY DEF BatchInv, IInv, TypeOK
<1>2. reply[c] # None => request[c] # None
    BY DEF BatchInv, IInv, TypeOK
<1>3. CASE \E req : Batch!Submit(c, req)
    BY <1>1, <1>2, <1>3 DEF BatchInv, ReplyPromised, Batch!Submit
<1>4. CASE Batch!Process(c)
    BY <1>1, <1>4 DEF BatchInv, ReplyPromised, Batch!Process
<1>5. CASE Batch!Collect(c)
    BY <1>1, <1>5 DEF BatchInv, ReplyPromised, Batch!Collect
<1>6. CASE UNCHANGED Batch!vars
    BY <1>6 DEF BatchInv, ReplyPromised, Batch!vars
<1>7. QED
    BY <1>3, <1>4, <1>5, <1>6

(* Every step of the worker keeps what is promised, and is a step of the   *)
(* promise or a stutter.                                                   *)
LEMMA StepImplements ==
    ASSUME BatchInv, [Next]_vars
    PROVE  PrefixPromised' /\ ReplyPromised' /\ [Batch!Next]_Batch!vars
<1>1. CASE UNCHANGED vars
    BY <1>1 DEF BatchInv, PrefixPromised, ReplyPromised, Running, vars, Batch!vars
<1>2. ASSUME NEW c \in Connections, NEW req \in Requests, Submit(c, req)
      PROVE  PrefixPromised' /\ ReplyPromised' /\ [Batch!Next]_Batch!vars
    BY <1>2, SubmitPromised, RepliesStayPromised DEF Batch!Next
<1>3. ASSUME NEW c \in Connections, Process(c)
      PROVE  PrefixPromised' /\ ReplyPromised' /\ [Batch!Next]_Batch!vars
    BY <1>3, ProcessPromised, RepliesStayPromised DEF Batch!Next
<1>4. ASSUME NEW c \in Connections, Collect(c)
      PROVE  PrefixPromised' /\ ReplyPromised' /\ [Batch!Next]_Batch!vars
    BY <1>4, CollectPromised, RepliesStayPromised DEF Batch!Next
<1>5. QED
    BY <1>1, <1>2, <1>3, <1>4 DEF Next

(* Whatever the interleaving of the loops, every client sees the reply its *)
(* own request is promised: all of its cells in order, or its first error. *)
THEOREM WorkerImplementsBatch ==
    ASSUME Ff1Contract, HmacContract
    PROVE  Spec => ImplementsBatch
<1>1. Init => BatchInv /\ Batch!Init
    <2>1. Init => PrefixPromised /\ ReplyPromised
        BY DEF Init, PrefixPromised, ReplyPromised, Running
    <2>2. QED BY <2>1, InitIInv DEF BatchInv, Init, Batch!Init
<1>2. BatchInv /\ [Next]_vars => BatchInv'
    BY StepKeepsIInv, StepImplements DEF BatchInv
<1>3. BatchInv /\ [Next]_vars => [Batch!Next]_Batch!vars
    BY StepImplements
<1>4. QED
    BY <1>1, <1>2, <1>3, PTL DEF Spec, ImplementsBatch, Batch!Spec
=============================================================================
