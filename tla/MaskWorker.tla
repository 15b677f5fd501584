----------------------------- MODULE MaskWorker -----------------------------
(***************************************************************************)
(* The worker answering requests: process() of the four scalar functions,  *)
(* row by row.  Several requests are in progress at once, one for each     *)
(* connection; a connection carries one request at a time.                 *)
(***************************************************************************)
EXTENDS ScalarFunctions

CONSTANTS
    Connections,   \* the connections of the worker's clients
    Requests,      \* the requests a client may send
    None           \* no request, no reply

ASSUME RequestsAssumption == \A req \in Requests : req # None /\ IsRequest(req)

VARIABLES
    request,   \* connection -> the request it carries, or None
    row,       \* connection -> i, the rows the loop is done with
    out,       \* connection -> the cells the StringBuilder holds
    reply      \* connection -> the reply not collected yet, or None

vars == <<request, row, out, reply>>

Init ==
    /\ request = [c \in Connections |-> None]
    /\ row = [c \in Connections |-> 0]
    /\ out = [c \in Connections |-> <<>>]
    /\ reply = [c \in Connections |-> None]

(* A client sends a request on a free connection.                          *)
Submit(c, req) ==
    /\ request[c] = None
    /\ request' = [request EXCEPT ![c] = req]
    /\ UNCHANGED <<row, out, reply>>

-----------------------------------------------------------------------------
(* process(): row and out are its locals, empty when no call is running.   *)

Running(c) == request[c] # None /\ reply[c] = None
InLoop(c) == Running(c) /\ row[c] < NumRows(request[c])

(* The operands of the row, each read by text_str.                         *)
Operands(c) == [a \in DOMAIN request[c].args |->
                   text_str(request[c].args[a], row[c] + 1)]
Readable(c) == \A a \in DOMAIN Operands(c) : IsOk(Operands(c)[a])
HasNull(c) == \E a \in DOMAIN Operands(c) : Operands(c)[a].val = NULL
Computed(c) == Apply(request[c].fn,
                     [a \in DOMAIN Operands(c) |-> Operands(c)[a].val])

AppendCell(c, cell) ==
    /\ out' = [out EXCEPT ![c] = Append(@, cell)]
    /\ row' = [row EXCEPT ![c] = @ + 1]
    /\ UNCHANGED <<request, reply>>

(* Mutated Return: the next request finds the cells of this one; the       *)
(* connection is free before its reply is taken.                           *)
ReturnKeepsCells(c, result) ==
    /\ reply' = [reply EXCEPT ![c] = result]
    /\ row' = [row EXCEPT ![c] = 0]
    /\ UNCHANGED <<request, out>>

ReturnFrees(c, result) ==
    /\ reply' = [reply EXCEPT ![c] = result]
    /\ row' = [row EXCEPT ![c] = 0]
    /\ out' = [out EXCEPT ![c] = <<>>]
    /\ request' = [request EXCEPT ![c] = None]

Return(c, result) ==
    /\ reply' = [reply EXCEPT ![c] = result]
    /\ row' = [row EXCEPT ![c] = 0]
    /\ out' = [out EXCEPT ![c] = <<>>]
    /\ UNCHANGED request

(* text_str()? on every operand, before any of them is looked at.          *)
UnreadableRow(c) ==
    /\ InLoop(c) /\ ~Readable(c)
    /\ Return(c, Err("NotVarchar"))

(* Mutated NullRow: it appends nothing, appends an empty value, does not   *)
(* go on to the next row.                                                  *)
NullRowSkipped(c) ==
    /\ InLoop(c) /\ Readable(c) /\ HasNull(c)
    /\ row' = [row EXCEPT ![c] = @ + 1]
    /\ UNCHANGED <<request, out, reply>>

NullRowEmpty(c) ==
    /\ InLoop(c) /\ Readable(c) /\ HasNull(c)
    /\ AppendCell(c, <<>>)

NullRowStuck(c) ==
    /\ InLoop(c) /\ Readable(c) /\ HasNull(c)
    /\ UNCHANGED <<request, row, out, reply>>

(* Any NULL operand: append_null, whatever the other operands hold.        *)
NullRow(c) ==
    /\ InLoop(c) /\ Readable(c) /\ HasNull(c)
    /\ AppendCell(c, NULL)

ValueRow(c) ==
    /\ InLoop(c) /\ Readable(c) /\ ~HasNull(c) /\ IsOk(Computed(c))
    /\ AppendCell(c, Computed(c).val)

(* An error of the engine abandons the batch and what was built of it.     *)
ErrorRow(c) ==
    /\ InLoop(c) /\ Readable(c) /\ ~HasNull(c) /\ ~IsOk(Computed(c))
    /\ Return(c, Computed(c))

Finish(c) ==
    /\ Running(c) /\ row[c] >= NumRows(request[c])
    /\ Return(c, try_new(request[c].fn, out[c]))

Process(c) ==
    \/ UnreadableRow(c)
    \/ NullRow(c)
    \/ ValueRow(c)
    \/ ErrorRow(c)
    \/ Finish(c)

-----------------------------------------------------------------------------

(* The client takes the reply and the connection is free again.            *)
Collect(c) ==
    /\ reply[c] # None
    /\ request' = [request EXCEPT ![c] = None]
    /\ reply' = [reply EXCEPT ![c] = None]
    /\ UNCHANGED <<row, out>>

Next == \E c \in Connections :
    \/ \E req \in Requests : Submit(c, req)
    \/ Process(c)
    \/ Collect(c)

Spec == Init /\ [][Next]_vars

(* A loop runs on a thread of its own, waits for nothing and holds no lock *)
(* another loop wants.                                                     *)
FairSpec == Spec /\ \A c \in Connections : WF_vars(Process(c))

-----------------------------------------------------------------------------

IsResult(r) ==
    \/ r.tag = "ok" /\ r.val \in Seq(Value \cup {NULL})
    \/ r.tag = "err" /\ r.kind \in ErrorKinds

(* The type invariant.                                                     *)
TypeOK ==
    /\ \A c \in Connections :
          /\ request[c] # None => IsRequest(request[c])
          /\ row[c] \in Nat
          /\ out[c] \in Seq(Value \cup {NULL})
          /\ reply[c] # None => request[c] # None /\ IsResult(reply[c])
    /\ DOMAIN request = Connections /\ DOMAIN row = Connections
    /\ DOMAIN out = Connections /\ DOMAIN reply = Connections

(* The cells stay aligned with the rows: on every branch of the loop the   *)
(* builder holds one cell for each row that is done, it starts each call   *)
(* empty, and a column that is returned has one cell for each row of its   *)
(* own request, as RecordBatch::try_new and the caller take it to have.    *)
OneCellPerRow == \A c \in Connections :
    /\ Len(out[c]) = row[c]
    /\ Running(c) => row[c] <= NumRows(request[c])
    /\ ~Running(c) => row[c] = 0
    /\ reply[c] # None /\ IsOk(reply[c]) => Len(reply[c].val) = NumRows(request[c])

(* FF1 is never called on a domain it refuses: the length checks of the    *)
(* profiles make the Fpe error impossible, for every value and key.        *)
NoFpeError == \A c \in Connections :
    reply[c] # None /\ ~IsOk(reply[c]) => reply[c].kind # "Fpe"

(* What a row is promised, with no order of looking at its operands: a     *)
(* cell of the wrong type is an error, else NULL in gives NULL out even    *)
(* beside operands the function would refuse, else the function decides.   *)
Misread(req, i) == \E a \in DOMAIN req.args :
    req.args[a].cells[i] # NULL /\ req.args[a].type \notin TextTypes
RowPromise(req, i) ==
    IF Misread(req, i) THEN Err("NotVarchar")
    ELSE IF \E a \in DOMAIN req.args : req.args[a].cells[i] = NULL THEN Ok(NULL)
    ELSE Apply(req.fn, [a \in DOMAIN req.args |-> req.args[a].cells[i]])

(* Whatever the interleaving of loops, a client sees the reply the batch   *)
(* promises: every row of its own request, in order, or the first error.   *)
Batch == INSTANCE MaskBatch
ImplementsBatch == Batch!Spec

(* Every request is answered: the loop ends on every batch.                *)
Answered == \A c \in Connections : request[c] # None ~> reply[c] # None
=============================================================================
