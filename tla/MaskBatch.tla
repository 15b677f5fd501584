------------------------------ MODULE MaskBatch ------------------------------
(***************************************************************************)
(* What the worker promises about one request, with no loop in it: the     *)
(* request is answered at once, either by a column with one cell for each  *)
(* row or by the error of the first row that has one and no column at all. *)
(* MaskWorker implements it.                                               *)
(***************************************************************************)
EXTENDS Naturals, Outcomes

CONSTANTS
    Connections,   \* the connections of the worker's clients
    Requests,      \* the requests a client may send
    None,          \* no request, no reply
    NumRows(_),         \* the rows of a request
    RowPromise(_, _)    \* what a request is promised for one of them

VARIABLES
    request,   \* connection -> the request it carries, or None
    reply      \* connection -> the reply not collected yet, or None

vars == <<request, reply>>

Failing(req) == {i \in 1..NumRows(req) : ~IsOk(RowPromise(req, i))}

Answer(req) ==
    IF Failing(req) = {}
    THEN Ok([i \in 1..NumRows(req) |-> RowPromise(req, i).val])
    ELSE RowPromise(req, CHOOSE i \in Failing(req) : \A j \in Failing(req) : i <= j)

Init ==
    /\ request = [c \in Connections |-> None]
    /\ reply = [c \in Connections |-> None]

Submit(c, req) ==
    /\ request[c] = None
    /\ request' = [request EXCEPT ![c] = req]
    /\ UNCHANGED reply

Process(c) ==
    /\ request[c] # None /\ reply[c] = None
    /\ reply' = [reply EXCEPT ![c] = Answer(request[c])]
    /\ UNCHANGED request

Collect(c) ==
    /\ reply[c] # None
    /\ request' = [request EXCEPT ![c] = None]
    /\ reply' = [reply EXCEPT ![c] = None]

Next == \E c \in Connections :
    \/ \E req \in Requests : Submit(c, req)
    \/ Process(c)
    \/ Collect(c)

Spec == Init /\ [][Next]_vars
FairSpec == Spec /\ \A c \in Connections : WF_vars(Process(c))
=============================================================================
