------------------------------ MODULE CiHarness ------------------------------
(***************************************************************************)
(* ci/run-integration.sh: start a worker, wait until it announces itself,  *)
(* stage the tests, warm the extension cache, run the suite, refuse skips, *)
(* clean up.  Beside the script run the worker it starts, which may die or *)
(* hang, a test runner that skips what it cannot connect to, and a user    *)
(* who may interrupt the script once.                                      *)
(***************************************************************************)
EXTENDS Integers

CONSTANTS
    Tests,        \* the tests TEST_PATTERN selects
    Transports,   \* the values TRANSPORT may take; "url" is http with a
                  \* worker launched before, "other" an unknown one
    ReusedStage,  \* the transports with which STAGE may be used again and
                  \* then holds the log of an earlier run
    POLLS,        \* times the log is read, at most (60 in the script)
    ATTEMPTS      \* times the cache is warmed, at most (3 in the script)

ASSUME HarnessAssumption ==
    /\ Transports \subseteq {"subprocess", "http", "url", "unix", "other"}
    /\ ReusedStage \subseteq {"http", "unix"}
    /\ POLLS \in Nat \ {0} /\ ATTEMPTS \in Nat \ {0}

VARIABLES
    transport, faulty,   \* TRANSPORT; the tests the worker's code fails
    pc,          \* what the script does next
    tries,       \* passes through the loop the script is in
    serverPid,   \* whether SERVER_PID is set
    location,    \* VGI_MASK_WORKER: "none", "spawn", "url", the endpoint the
                 \* worker announced ("ours") or one of an earlier run ("stale")
    installed,   \* the extension cache holds vgi
    results,     \* test -> "none", "pass", "fail" or "skip"
    rc,          \* the exit status: "none", "green" for 0, or "red"
    worker,      \* "none", "forked", "running", "dying" or "dead"
    log,         \* its log: "absent", "stale", "empty", or "ours"
    socket,      \* its socket: "absent", "stale" or "bound"
    trouble      \* something outside the script has gone wrong

script == <<pc, tries, serverPid, location, installed, results, rc>>
process == <<worker, log, socket>>
vars == <<transport, faulty, script, process, trouble>>

Init ==
    /\ transport \in Transports /\ faulty \in SUBSET Tests
    /\ pc = "start" /\ tries = 0
    /\ serverPid = FALSE /\ location = "none"
    /\ installed \in BOOLEAN
    /\ results = [t \in Tests |-> "none"]
    /\ rc = "none"
    /\ worker = IF transport = "url" THEN "running" ELSE "none"
    /\ log \in IF transport \in ReusedStage THEN {"absent", "stale"} ELSE {"absent"}
    /\ socket \in {"absent", "stale"}
    /\ trouble = (faulty # {})

Alive == worker \in {"forked", "running"}
Serving == worker = "running" /\ (transport = "unix" => socket = "bound")

(* exit, whether it is written or set -e: the EXIT trap runs.              *)
Exit(status) == pc' = "cleanup" /\ rc' = status
Outside == <<transport, faulty, process, trouble>>

-----------------------------------------------------------------------------
(* The transport, and the worker of the http and unix transports.          *)

(* An unknown transport ends the script, as does, where the script is to   *)
(* launch it, a worker that is not executable.                             *)
Start ==
    /\ pc = "start"
    /\ \/ /\ transport \in {"subprocess", "url"}
          /\ location' = IF transport = "url" THEN "url" ELSE "spawn"
          /\ pc' = "stage" /\ UNCHANGED <<rc, trouble>>
       \/ /\ transport \in {"http", "unix"}
          /\ pc' = "launch" /\ UNCHANGED <<location, rc, trouble>>
       \/ /\ transport = "other"
          /\ Exit("red") /\ UNCHANGED <<location, trouble>>
       \/ /\ transport \in {"http", "unix"}
          /\ Exit("red") /\ trouble' = TRUE /\ UNCHANGED location
    /\ UNCHANGED <<tries, serverPid, installed, results, transport, faulty, process>>

(* rm -f of the old socket, then "$WORKER_BIN" ... >"$log" 2>&1 &          *)
Launch ==
    /\ pc = "launch"
    /\ socket' = IF transport = "unix" THEN "absent" ELSE socket
    /\ worker' = "forked" /\ pc' = "pid"
    /\ UNCHANGED <<tries, serverPid, location, installed, results, rc,
                   transport, faulty, log, trouble>>

(* SERVER_PID=$!                                                           *)
RecordPid ==
    /\ pc = "pid"
    /\ serverPid' = TRUE /\ pc' = "alive"
    /\ UNCHANGED <<tries, location, installed, results, rc, Outside>>

(* kill -0: the worker must not have exited.                               *)
CheckAlive ==
    /\ pc = "alive"
    /\ IF Alive THEN pc' = "poll" /\ UNCHANGED rc ELSE Exit("red")
    /\ UNCHANGED <<tries, serverPid, location, installed, results, Outside>>

(* Mutated Found: the announcement is enough.                              *)
FoundInLog == log \in {"stale", "ours"}

(* What the poll finds in the log: for http a sed on a log that is not     *)
(* there yet fails, and with it, by pipefail and set -e, the script; for   *)
(* unix the grep is a condition, and the socket has to be there too.       *)
Found ==
    /\ log \in {"stale", "ours"}
    /\ transport = "unix" => socket # "absent"

(* Mutated Poll: the grep is not a condition either.                       *)
PollStrict ==
    /\ pc = "poll"
    /\ \/ /\ Found
          /\ location' = (IF transport = "unix" THEN "ours" ELSE log)
          /\ pc' = "stage" /\ tries' = 0 /\ UNCHANGED rc
       \/ /\ ~Found
          /\ IF log = "absent" THEN Exit("red") ELSE pc' = "sleep" /\ UNCHANGED rc
          /\ UNCHANGED <<location, tries>>
    /\ UNCHANGED <<serverPid, installed, results, Outside>>

Poll ==
    /\ pc = "poll"
    /\ \/ /\ Found
          /\ location' = (IF transport = "unix" THEN "ours" ELSE log)
          /\ pc' = "stage" /\ tries' = 0 /\ UNCHANGED rc
       \/ /\ transport = "http" /\ log = "absent"
          /\ Exit("red") /\ UNCHANGED <<location, tries>>
       \/ /\ ~Found /\ ~(transport = "http" /\ log = "absent")
          /\ pc' = "sleep" /\ UNCHANGED <<location, tries, rc>>
    /\ UNCHANGED <<serverPid, installed, results, Outside>>

(* Mutated Sleep: the end of the loop is not taken for a timeout.          *)
SleepGoesOn ==
    /\ pc = "sleep"
    /\ IF tries + 1 < POLLS
       THEN pc' = "alive" /\ tries' = tries + 1 /\ UNCHANGED location
       ELSE pc' = "stage" /\ tries' = 0 /\ location' = log
    /\ UNCHANGED <<serverPid, installed, results, rc, Outside>>

(* sleep 0.5, and the end of the loop: timed out.                          *)
Sleep ==
    /\ pc = "sleep"
    /\ IF tries + 1 < POLLS
       THEN pc' = "alive" /\ tries' = tries + 1 /\ UNCHANGED <<rc, trouble>>
       ELSE Exit("red") /\ trouble' = TRUE /\ UNCHANGED tries
    /\ UNCHANGED <<serverPid, location, installed, results, transport, faulty, process>>

-----------------------------------------------------------------------------
(* Staging, warming, running.                                              *)

(* awk over every test; a failure ends the script.                         *)
Stage ==
    /\ pc = "stage"
    /\ \/ pc' = "warm" /\ UNCHANGED <<rc, trouble>>
       \/ Exit("red") /\ trouble' = TRUE
    /\ UNCHANGED <<tries, serverPid, location, installed, results, transport,
                   faulty, process>>

(* An attempt installs vgi, or fails, or is skipped with exit status 0; a  *)
(* warning is all that comes of ATTEMPTS failures.                         *)
Warm ==
    /\ pc = "warm"
    /\ \/ installed' = TRUE /\ pc' = "suite" /\ tries' = 0 /\ UNCHANGED trouble
       \/ /\ trouble' = TRUE /\ UNCHANGED installed
          /\ IF tries + 1 < ATTEMPTS THEN tries' = tries + 1 /\ UNCHANGED pc
             ELSE tries' = 0 /\ pc' = "suite"
    /\ UNCHANGED <<serverPid, location, results, rc, transport, faulty, process>>

(* What the runner makes of a test: without vgi its LOAD fails; an error   *)
(* that mentions HTTP or a failed connection is a skip, and a worker that  *)
(* is gone is such an error, as is a download the http leg needs.          *)
Outcomes(t) ==
    IF ~installed THEN {"fail"}
    ELSE CASE location = "stale"                       -> {"pass", "fail", "skip"}
           [] location \in {"ours", "url"} /\ ~Serving -> {"fail", "skip"}
           [] OTHER -> IF t \in faulty THEN {"fail"} ELSE {"pass"}

RunTest(t) ==
    /\ pc = "suite" /\ results[t] = "none"
    /\ \E outcome \in Outcomes(t) : results' = [results EXCEPT ![t] = outcome]
    /\ UNCHANGED <<pc, tries, serverPid, location, installed, rc, Outside>>

(* In the middle of the suite a download fails, or the worker that DuckDB  *)
(* spawns for a test does not start or dies.                               *)
TestCut(t) ==
    /\ pc = "suite" /\ results[t] = "none"
    /\ transport \in {"http", "url", "subprocess"}
    /\ \E outcome \in {"fail", "skip"} : results' = [results EXCEPT ![t] = outcome]
    /\ trouble' = TRUE
    /\ UNCHANGED <<pc, tries, serverPid, location, installed, rc, transport,
                   faulty, process>>

(* Mutated Guard: the runner's exit status decides, which a skip leaves 0. *)
GuardByStatus ==
    /\ pc = "suite" /\ \A t \in Tests : results[t] # "none"
    /\ Exit(IF \E t \in Tests : results[t] = "fail" THEN "red" ELSE "green")
    /\ UNCHANGED <<tries, serverPid, location, installed, results, Outside>>

(* The runner exits with PIPESTATUS[0], and a report that counts a skip    *)
(* fails the job whatever that was.                                        *)
Guard ==
    /\ pc = "suite" /\ \A t \in Tests : results[t] # "none"
    /\ Exit(IF \E t \in Tests : results[t] \in {"skip", "fail"} THEN "red" ELSE "green")
    /\ UNCHANGED <<tries, serverPid, location, installed, results, Outside>>

-----------------------------------------------------------------------------
(* cleanup, the EXIT trap.                                                 *)

(* Mutated Kill: the worker is waited for and not killed.                  *)
KillNothing ==
    /\ pc = "cleanup"
    /\ pc' = IF serverPid THEN "wait" ELSE "done"
    /\ UNCHANGED <<tries, serverPid, location, installed, results, rc, Outside>>

Kill ==
    /\ pc = "cleanup"
    /\ IF serverPid
       THEN /\ worker' = IF Alive THEN "dying" ELSE worker
            /\ pc' = "wait" /\ UNCHANGED socket
       ELSE /\ socket' = IF transport = "unix" /\ worker # "none" THEN "absent" ELSE socket
            /\ pc' = "done" /\ UNCHANGED worker
    /\ UNCHANGED <<tries, serverPid, location, installed, results, rc, transport,
                   faulty, log, trouble>>

(* Mutated Wait: the script does not wait.                                 *)
WaitNot ==
    /\ pc = "wait"
    /\ socket' = IF transport = "unix" THEN "absent" ELSE socket
    /\ pc' = "done"
    /\ UNCHANGED <<tries, serverPid, location, installed, results, rc, transport,
                   faulty, worker, log, trouble>>

(* wait, as long as it takes, then rm -f of the socket.                    *)
Wait ==
    /\ pc = "wait" /\ worker = "dead"
    /\ socket' = IF transport = "unix" THEN "absent" ELSE socket
    /\ pc' = "done"
    /\ UNCHANGED <<tries, serverPid, location, installed, results, rc, transport,
                   faulty, worker, log, trouble>>

Script ==
    \/ Start \/ Launch \/ RecordPid \/ CheckAlive \/ Poll \/ Sleep
    \/ Stage \/ Warm \/ Guard \/ Kill \/ Wait
    \/ \E t \in Tests : RunTest(t) \/ TestCut(t)

-----------------------------------------------------------------------------
(* The worker and the user.                                                *)

(* The child redirects its output, which empties the log, and becomes the  *)
(* worker.                                                                 *)
Exec ==
    /\ worker = "forked"
    /\ worker' = "running" /\ log' = "empty"
    /\ UNCHANGED <<transport, faulty, script, socket, trouble>>

(* PORT:<n> or UNIX:<path> reaches the log as a whole; a port is bound by  *)
(* then, a socket may be later.                                            *)
Announce ==
    /\ worker = "running" /\ log = "empty"
    /\ log' = "ours"
    /\ UNCHANGED <<transport, faulty, script, worker, socket, trouble>>

Bind ==
    /\ worker = "running" /\ transport = "unix" /\ socket = "absent"
    /\ socket' = "bound"
    /\ UNCHANGED <<transport, faulty, script, worker, log, trouble>>

Crash ==
    /\ Alive
    /\ worker' = "dead" /\ trouble' = TRUE
    /\ UNCHANGED <<transport, faulty, script, log, socket>>

(* The end of a worker that was killed.                                    *)
Terminate ==
    /\ worker = "dying"
    /\ worker' = "dead"
    /\ UNCHANGED <<transport, faulty, script, log, socket, trouble>>

(* A signal to the script, at any moment until it cleans up, or a runner   *)
(* that crashes.                                                           *)
Interrupt ==
    /\ pc \notin {"cleanup", "wait", "done"}
    /\ Exit("red") /\ trouble' = TRUE
    /\ UNCHANGED <<tries, serverPid, location, installed, results, transport,
                   faulty, process>>

Ended == pc = "done" /\ UNCHANGED vars

Next ==
    \/ Script \/ Exec \/ Announce \/ Bind \/ Crash \/ Terminate
    \/ Interrupt \/ Ended

Spec == Init /\ [][Next]_vars

(* The script runs, the commands it waits for return (the test runner      *)
(* gives up on a worker that hangs), and a killed worker ends; no worker   *)
(* need ever announce itself.                                              *)
FairSpec == Spec /\ WF_vars(Script) /\ WF_vars(Terminate)

-----------------------------------------------------------------------------

TypeOK ==
    /\ transport \in {"subprocess", "http", "url", "unix", "other"}
    /\ faulty \subseteq Tests
    /\ pc \in {"start", "launch", "pid", "alive", "poll", "sleep", "stage",
               "warm", "suite", "cleanup", "wait", "done"}
    /\ tries \in Nat
    /\ serverPid \in BOOLEAN /\ installed \in BOOLEAN /\ trouble \in BOOLEAN
    /\ location \in {"none", "spawn", "url", "ours", "stale"}
    /\ results \in [Tests -> {"none", "pass", "fail", "skip"}]
    /\ rc \in {"none", "green", "red"}
    /\ worker \in {"none", "forked", "running", "dying", "dead"}
    /\ log \in {"absent", "stale", "empty", "ours"}
    /\ socket \in {"absent", "stale", "bound"}

(* "A skip is never a pass" (ci/README.md): a green job has run every test *)
(* against the worker it means to test, and none of them failed, whenever  *)
(* that worker died and whatever could not be downloaded.                  *)
GreenMeansTested ==
    rc = "green" => /\ location \in {"ours", "url", "spawn"}
                    /\ faulty = {}
                    /\ \A t \in Tests : results[t] = "pass"

(* The readiness gate: past it, the worker of this run has announced the   *)
(* endpoint the tests will use, and bound its socket.                      *)
GateHolds ==
    pc \in {"stage", "warm", "suite"} /\ transport \in {"http", "unix"} =>
        /\ location = "ours" /\ log = "ours"
        /\ transport = "unix" => socket = "bound"

(* When the script has ended, the worker it knows of has ended before it   *)
(* and its socket is gone: on each exit, startup errors included.          *)
NothingLeft ==
    pc = "done" /\ serverPid =>
        worker = "dead" /\ (transport = "unix" => socket = "absent")

(* The suite is not failed by the harness itself: without a crash, a       *)
(* timeout, a failed download, a signal or a failing test, a run is green. *)
HealthyIsGreen ==
    rc = "red" /\ transport \in {"subprocess", "url", "unix"} => trouble

(* The same over http, whose endpoint is "poll[ed] for in the log before   *)
(* running the suite" as that of the unix transport is (run-integration).  *)
HttpHealthyIsGreen == rc = "red" /\ transport = "http" => trouble

(* The script ends, on every path and whatever the worker does until it is *)
(* killed: its loops are bounded, and wait comes after kill.               *)
Ends == <>(pc = "done")
=============================================================================
