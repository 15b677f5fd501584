--------------------------- MODULE CiHarness_proofs ---------------------------
(***************************************************************************)
(* Proofs about the integration harness, for every set of tests, every     *)
(* number of polls and attempts, and every moment at which the worker may  *)
(* die or the script be interrupted.                                       *)
(***************************************************************************)
EXTENDS CiHarness, TLAPS

Local == {"http", "unix"}
Gated == {"stage", "warm", "suite"}
Over == {"cleanup", "wait", "done"}

(* The worker process: the script has one only where it launches one, and  *)
(* until the worker has emptied the log there is no socket.                *)
ProcessInv ==
    /\ worker = "none" => log \in {"absent", "stale"} /\ ~serverPid
    /\ worker = "forked" => log \in {"absent", "stale"}
    /\ worker = "running" /\ transport \in Local => log \in {"empty", "ours"}
    /\ transport \notin Local => log = "absent" /\ worker # "forked"
    /\ log = "stale" => transport \in ReusedStage
    /\ transport = "unix" /\ worker # "none" =>
          /\ socket # "stale"
          /\ log \in {"absent", "stale"} => socket = "absent"

(* Where the script is, it has what that place needs.                      *)
ScriptInv ==
    /\ pc \in {"start", "launch"} /\ transport \in Local => worker = "none"
    /\ pc \in {"launch", "pid", "alive", "poll", "sleep"} => transport \in Local
    /\ pc \in {"pid", "alive", "poll", "sleep"} => worker # "none"
    /\ pc \in Gated /\ transport \notin Local => location \in {"spawn", "url"}
    /\ location = "url" => transport = "url"
    /\ rc # "none" <=> pc \in Over

(* A test that the worker's code fails does not pass, and green is earned. *)
VerdictInv ==
    /\ \A t \in Tests : results[t] = "pass" => t \notin faulty
    /\ GreenMeansTested

(* While nothing has gone wrong, nothing is missing and nothing has failed. *)
HealthyInv == ~trouble =>
    /\ faulty = {}
    /\ pc \notin Over => worker \notin {"dying", "dead"}
    /\ pc \notin Over /\ transport = "url" => worker = "running"
    /\ pc = "suite" => installed = TRUE
    /\ \A t \in Tests : results[t] \in {"none", "pass"}
    /\ rc = "red" => transport \in {"http", "other"}

IInv == /\ TypeOK /\ ProcessInv /\ ScriptInv
        /\ GateHolds /\ VerdictInv /\ HealthyInv

(* A log of an earlier run is there, if at all, for the unix transport.    *)
FreshHttp == "http" \notin ReusedStage

USE DEF Outside, process, script, Exit

(* Each step of the script, the worker and the user keeps the types.       *)
LEMMA StepType ==
    ASSUME HarnessAssumption, TypeOK, [Next]_vars
    PROVE  TypeOK'
<1> USE DEF TypeOK, Found, Alive
<1>1. CASE UNCHANGED vars
    BY <1>1 DEF vars
<1>2. CASE Start
  <2>1. trouble' \in BOOLEAN
    BY <1>2, Zenon DEF Start
  <2>2. QED
    BY <1>2, <2>1 DEF Start
<1>3. CASE Launch
    BY <1>3 DEF Launch
<1>4. CASE RecordPid
    BY <1>4 DEF RecordPid
<1>5. CASE CheckAlive
    BY <1>5 DEF CheckAlive
<1>6. CASE Poll
    BY <1>6 DEF Poll
<1>7. CASE Sleep
  <2>1. trouble' \in BOOLEAN
    BY <1>7, Zenon DEF Sleep
  <2>2. QED
    BY <1>7, <2>1 DEF Sleep
<1>8. CASE Stage
  <2>1. trouble' \in BOOLEAN
    BY <1>8, Zenon DEF Stage
  <2>2. QED
    BY <1>8, <2>1 DEF Stage
<1>9. CASE Warm
  <2>1. trouble' \in BOOLEAN /\ installed' \in BOOLEAN
    BY <1>9, Zenon DEF Warm
  <2>2. tries' \in Nat /\ pc' \in {"warm", "suite"}
    BY <1>9 DEF Warm
  <2>3. QED
    BY <1>9, <2>1, <2>2 DEF Warm
<1>10. CASE Guard
    BY <1>10 DEF Guard
<1>11. CASE Kill
    BY <1>11 DEF Kill
<1>12. CASE Wait
    BY <1>12 DEF Wait
<1>13. ASSUME NEW t \in Tests, RunTest(t) PROVE TypeOK'
    BY <1>13 DEF RunTest, Outcomes, Serving
<1>14. ASSUME NEW t \in Tests, TestCut(t) PROVE TypeOK'
    BY <1>14 DEF TestCut
<1>15. CASE Exec
    BY <1>15 DEF Exec
<1>16. CASE Announce
    BY <1>16 DEF Announce
<1>17. CASE Bind
    BY <1>17 DEF Bind
<1>18. CASE Crash
    BY <1>18 DEF Crash
<1>19. CASE Terminate
    BY <1>19 DEF Terminate
<1>20. CASE Interrupt
    BY <1>20 DEF Interrupt
<1>21. CASE Ended
    BY <1>21 DEF Ended, vars
<1>22. QED
    BY <1>1, <1>2, <1>3, <1>4, <1>5, <1>6, <1>7, <1>8, <1>9, <1>10, <1>11,
       <1>12, <1>13, <1>14, <1>15, <1>16, <1>17, <1>18, <1>19, <1>20, <1>21
       DEF Next, Script

(* What the process, its log and its socket may be together is kept by     *)
(* each step: the script launches one worker, which alone writes them.     *)
LEMMA StepProcess ==
    ASSUME TypeOK, ProcessInv, ScriptInv, [Next]_vars
    PROVE  ProcessInv'
<1> USE DEF TypeOK, ProcessInv, ScriptInv, Local, Alive
<1>1. CASE UNCHANGED vars
    BY <1>1 DEF vars
<1>2. CASE Start
    BY <1>2 DEF Start
<1>3. CASE Launch
    BY <1>3 DEF Launch
<1>4. CASE RecordPid
    BY <1>4 DEF RecordPid
<1>5. CASE CheckAlive
    BY <1>5 DEF CheckAlive
<1>6. CASE Poll
    BY <1>6 DEF Poll
<1>7. CASE Sleep
    BY <1>7 DEF Sleep
<1>8. CASE Stage
    BY <1>8 DEF Stage
<1>9. CASE Warm
    BY <1>9 DEF Warm
<1>10. CASE Guard
    BY <1>10 DEF Guard
<1>11. CASE Kill
    BY <1>11 DEF Kill
<1>12. CASE Wait
    BY <1>12 DEF Wait
<1>13. ASSUME NEW t \in Tests, RunTest(t) PROVE ProcessInv'
    BY <1>13 DEF RunTest, Outcomes, Serving
<1>14. ASSUME NEW t \in Tests, TestCut(t) PROVE ProcessInv'
    BY <1>14 DEF TestCut
<1>15. CASE Exec
    BY <1>15 DEF Exec
<1>16. CASE Announce
    BY <1>16 DEF Announce
<1>17. CASE Bind
    BY <1>17 DEF Bind
<1>18. CASE Crash
    BY <1>18 DEF Crash
<1>19. CASE Terminate
    BY <1>19 DEF Terminate
<1>20. CASE Interrupt
    BY <1>20 DEF Interrupt
<1>21. CASE Ended
    BY <1>21 DEF Ended, vars
<1>22. QED
    BY <1>1, <1>2, <1>3, <1>4, <1>5, <1>6, <1>7, <1>8, <1>9, <1>10, <1>11,
       <1>12, <1>13, <1>14, <1>15, <1>16, <1>17, <1>18, <1>19, <1>20, <1>21
       DEF Next, Script

(* The script reaches no place without what that place needs.              *)
LEMMA StepScript ==
    ASSUME TypeOK, ProcessInv, ScriptInv, [Next]_vars
    PROVE  ScriptInv'
<1> USE DEF TypeOK, ProcessInv, ScriptInv, Local, Gated, Over, Alive, Found
<1>1. CASE UNCHANGED vars
    BY <1>1 DEF vars
<1>2. CASE Start
    BY <1>2 DEF Start
<1>3. CASE Launch
    BY <1>3 DEF Launch
<1>4. CASE RecordPid
    BY <1>4 DEF RecordPid
<1>5. CASE CheckAlive
    BY <1>5 DEF CheckAlive
<1>6. CASE Poll
    BY <1>6 DEF Poll
<1>7. CASE Sleep
    BY <1>7 DEF Sleep
<1>8. CASE Stage
    BY <1>8 DEF Stage
<1>9. CASE Warm
    BY <1>9 DEF Warm
<1>10. CASE Guard
    BY <1>10 DEF Guard
<1>11. CASE Kill
    BY <1>11 DEF Kill
<1>12. CASE Wait
    BY <1>12 DEF Wait
<1>13. ASSUME NEW t \in Tests, RunTest(t) PROVE ScriptInv'
    BY <1>13 DEF RunTest, Outcomes, Serving
<1>14. ASSUME NEW t \in Tests, TestCut(t) PROVE ScriptInv'
    BY <1>14 DEF TestCut
<1>15. CASE Exec
    BY <1>15 DEF Exec
<1>16. CASE Announce
    BY <1>16 DEF Announce
<1>17. CASE Bind
    BY <1>17 DEF Bind
<1>18. CASE Crash
    BY <1>18 DEF Crash
<1>19. CASE Terminate
    BY <1>19 DEF Terminate
<1>20. CASE Interrupt
    BY <1>20 DEF Interrupt
<1>21. CASE Ended
    BY <1>21 DEF Ended, vars
<1>22. QED
    BY <1>1, <1>2, <1>3, <1>4, <1>5, <1>6, <1>7, <1>8, <1>9, <1>10, <1>11,
       <1>12, <1>13, <1>14, <1>15, <1>16, <1>17, <1>18, <1>19, <1>20, <1>21
       DEF Next, Script

(* The gate opens in Poll alone, for the log of this run's worker if there *)
(* was none before, and what it saw stays as it is.                        *)
LEMMA StepGate ==
    ASSUME FreshHttp, TypeOK, ProcessInv, ScriptInv, GateHolds, [Next]_vars
    PROVE  GateHolds'
<1> USE DEF TypeOK, ProcessInv, ScriptInv, GateHolds, FreshHttp, Local,
       Found
<1>1. CASE UNCHANGED vars
    BY <1>1 DEF vars
<1>2. CASE Start
    BY <1>2 DEF Start
<1>3. CASE Launch
    BY <1>3 DEF Launch
<1>4. CASE RecordPid
    BY <1>4 DEF RecordPid
<1>5. CASE CheckAlive
    BY <1>5 DEF CheckAlive
<1>6. CASE Poll
    BY <1>6 DEF Poll
<1>7. CASE Sleep
    BY <1>7 DEF Sleep
<1>8. CASE Stage
    BY <1>8 DEF Stage
<1>9. CASE Warm
    BY <1>9 DEF Warm
<1>10. CASE Guard
    BY <1>10 DEF Guard
<1>11. CASE Kill
    BY <1>11 DEF Kill
<1>12. CASE Wait
    BY <1>12 DEF Wait
<1>13. ASSUME NEW t \in Tests, RunTest(t) PROVE GateHolds'
    BY <1>13 DEF RunTest, Outcomes, Serving
<1>14. ASSUME NEW t \in Tests, TestCut(t) PROVE GateHolds'
    BY <1>14 DEF TestCut
<1>15. CASE Exec
    BY <1>15 DEF Exec
<1>16. CASE Announce
    BY <1>16 DEF Announce
<1>17. CASE Bind
    BY <1>17 DEF Bind
<1>18. CASE Crash
    BY <1>18 DEF Crash
<1>19. CASE Terminate
    BY <1>19 DEF Terminate
<1>20. CASE Interrupt
    BY <1>20 DEF Interrupt
<1>21. CASE Ended
    BY <1>21 DEF Ended, vars
<1>22. QED
    BY <1>1, <1>2, <1>3, <1>4, <1>5, <1>6, <1>7, <1>8, <1>9, <1>10, <1>11,
       <1>12, <1>13, <1>14, <1>15, <1>16, <1>17, <1>18, <1>19, <1>20, <1>21
       DEF Next, Script

(* Guard alone exits with 0, past the gate and on a report of passes.      *)
LEMMA StepVerdict ==
    ASSUME IInv, [Next]_vars
    PROVE  VerdictInv'
<1> USE DEF IInv, TypeOK, ScriptInv, GateHolds, VerdictInv,
       GreenMeansTested, Local, Gated, Over
<1>1. CASE UNCHANGED vars
    BY <1>1 DEF vars
<1>2. CASE Start
    BY <1>2 DEF Start
<1>3. CASE Launch
    BY <1>3 DEF Launch
<1>4. CASE RecordPid
    BY <1>4 DEF RecordPid
<1>5. CASE CheckAlive
    BY <1>5 DEF CheckAlive
<1>6. CASE Poll
    BY <1>6 DEF Poll
<1>7. CASE Sleep
    BY <1>7 DEF Sleep
<1>8. CASE Stage
    BY <1>8 DEF Stage
<1>9. CASE Warm
    BY <1>9 DEF Warm
<1>10. CASE Guard
    BY <1>10 DEF Guard
<1>11. CASE Kill
    BY <1>11 DEF Kill
<1>12. CASE Wait
    BY <1>12 DEF Wait
<1>13. ASSUME NEW t \in Tests, RunTest(t) PROVE VerdictInv'
    BY <1>13 DEF RunTest, Outcomes, Serving
<1>14. ASSUME NEW t \in Tests, TestCut(t) PROVE VerdictInv'
    BY <1>14 DEF TestCut
<1>15. CASE Exec
    BY <1>15 DEF Exec
<1>16. CASE Announce
    BY <1>16 DEF Announce
<1>17. CASE Bind
    BY <1>17 DEF Bind
<1>18. CASE Crash
    BY <1>18 DEF Crash
<1>19. CASE Terminate
    BY <1>19 DEF Terminate
<1>20. CASE Interrupt
    BY <1>20 DEF Interrupt
<1>21. CASE Ended
    BY <1>21 DEF Ended, vars
<1>22. QED
    BY <1>1, <1>2, <1>3, <1>4, <1>5, <1>6, <1>7, <1>8, <1>9, <1>10, <1>11,
       <1>12, <1>13, <1>14, <1>15, <1>16, <1>17, <1>18, <1>19, <1>20, <1>21
       DEF Next, Script

(* Until something goes wrong outside it, the script finds the worker      *)
(* alive, vgi installed and no test failed, and over unix its log is not   *)
(* waited for in vain.                                                     *)
LEMMA StepHealthy ==
    ASSUME IInv, [Next]_vars
    PROVE  HealthyInv'
<1> USE DEF IInv, TypeOK, ProcessInv, ScriptInv, GateHolds, HealthyInv,
       Local, Gated, Over, Alive
<1>1. CASE UNCHANGED vars
    BY <1>1 DEF vars
<1>2. CASE Start
    BY <1>2 DEF Start
<1>3. CASE Launch
    BY <1>3 DEF Launch
<1>4. CASE RecordPid
    BY <1>4 DEF RecordPid
<1>5. CASE CheckAlive
    BY <1>5 DEF CheckAlive
<1>6. CASE Poll
    BY <1>6 DEF Poll
<1>7. CASE Sleep
    BY <1>7 DEF Sleep
<1>8. CASE Stage
    BY <1>8 DEF Stage
<1>9. CASE Warm
    BY <1>9 DEF Warm
<1>10. CASE Guard
    BY <1>10 DEF Guard
<1>11. CASE Kill
    BY <1>11 DEF Kill
<1>12. CASE Wait
    BY <1>12 DEF Wait
<1>13. ASSUME NEW t \in Tests, RunTest(t) PROVE HealthyInv'
    BY <1>13 DEF RunTest, Outcomes, Serving
<1>14. ASSUME NEW t \in Tests, TestCut(t) PROVE HealthyInv'
    BY <1>14 DEF TestCut
<1>15. CASE Exec
    BY <1>15 DEF Exec
<1>16. CASE Announce
    BY <1>16 DEF Announce
<1>17. CASE Bind
    BY <1>17 DEF Bind
<1>18. CASE Crash
    BY <1>18 DEF Crash
<1>19. CASE Terminate
    BY <1>19 DEF Terminate
<1>20. CASE Interrupt
    BY <1>20 DEF Interrupt
<1>21. CASE Ended
    BY <1>21 DEF Ended, vars
<1>22. QED
    BY <1>1, <1>2, <1>3, <1>4, <1>5, <1>6, <1>7, <1>8, <1>9, <1>10, <1>11,
       <1>12, <1>13, <1>14, <1>15, <1>16, <1>17, <1>18, <1>19, <1>20, <1>21
       DEF Next, Script

(* Wait is the only way to the end of a script that knows its worker.      *)
LEMMA StepNothingLeft ==
    ASSUME TypeOK, NothingLeft, [Next]_vars
    PROVE  NothingLeft'
<1> USE DEF TypeOK, NothingLeft, Alive
<1>1. CASE UNCHANGED vars
    BY <1>1 DEF vars
<1>2. CASE Start
    BY <1>2 DEF Start
<1>3. CASE Launch
    BY <1>3 DEF Launch
<1>4. CASE RecordPid
    BY <1>4 DEF RecordPid
<1>5. CASE CheckAlive
    BY <1>5 DEF CheckAlive
<1>6. CASE Poll
    BY <1>6 DEF Poll
<1>7. CASE Sleep
    BY <1>7 DEF Sleep
<1>8. CASE Stage
    BY <1>8 DEF Stage
<1>9. CASE Warm
    BY <1>9 DEF Warm
<1>10. CASE Guard
    BY <1>10 DEF Guard
<1>11. CASE Kill
    BY <1>11 DEF Kill
<1>12. CASE Wait
    BY <1>12 DEF Wait
<1>13. ASSUME NEW t \in Tests, RunTest(t) PROVE NothingLeft'
    BY <1>13 DEF RunTest, Outcomes, Serving
<1>14. ASSUME NEW t \in Tests, TestCut(t) PROVE NothingLeft'
    BY <1>14 DEF TestCut
<1>15. CASE Exec
    BY <1>15 DEF Exec
<1>16. CASE Announce
    BY <1>16 DEF Announce
<1>17. CASE Bind
    BY <1>17 DEF Bind
<1>18. CASE Crash
    BY <1>18 DEF Crash
<1>19. CASE Terminate
    BY <1>19 DEF Terminate
<1>20. CASE Interrupt
    BY <1>20 DEF Interrupt
<1>21. CASE Ended
    BY <1>21 DEF Ended, vars
<1>22. QED
    BY <1>1, <1>2, <1>3, <1>4, <1>5, <1>6, <1>7, <1>8, <1>9, <1>10, <1>11,
       <1>12, <1>13, <1>14, <1>15, <1>16, <1>17, <1>18, <1>19, <1>20, <1>21
       DEF Next, Script

(* The states a job starts in.                                             *)
LEMMA InitIInv == ASSUME HarnessAssumption, Init PROVE IInv /\ NothingLeft
<1> USE DEF Init, Local, Gated, Over
<1>1. TypeOK
  <2>1. trouble \in BOOLEAN /\ serverPid \in BOOLEAN /\ installed \in BOOLEAN
    <3>1. (faulty # {}) \in BOOLEAN
      BY Zenon
    <3>2. QED
      BY <3>1, Zenon
  <2>2. results \in [Tests -> {"none", "pass", "fail", "skip"}]
    OBVIOUS
  <2>3. transport \in {"subprocess", "http", "url", "unix", "other"}
    BY HarnessAssumption DEF HarnessAssumption
  <2>4. QED
    BY <2>1, <2>2, <2>3 DEF TypeOK
<1>2. ProcessInv
    BY DEF ProcessInv, HarnessAssumption
<1>3. ScriptInv
    BY DEF ScriptInv
<1>4. GateHolds
    BY DEF GateHolds
<1>5. VerdictInv
    BY DEF VerdictInv, GreenMeansTested
<1>6. HealthyInv
    BY DEF HealthyInv
<1>7. NothingLeft
    BY DEF NothingLeft
<1>8. QED
    BY <1>1, <1>2, <1>3, <1>4, <1>5, <1>6, <1>7 DEF IInv

(* The whole invariant, for stages that hold no log of an earlier worker   *)
(* of the http transport.                                                  *)
LEMMA Invariance == ASSUME HarnessAssumption, FreshHttp PROVE Spec => []IInv
<1>1. Init => IInv
    BY InitIInv
<1>2. IInv /\ [Next]_vars => IInv'
  <2> SUFFICES ASSUME IInv, [Next]_vars PROVE IInv'
    OBVIOUS
  <2>1. TypeOK /\ ProcessInv /\ ScriptInv /\ GateHolds
    BY DEF IInv
  <2>2. TypeOK'
    BY <2>1, StepType
  <2>3. ProcessInv'
    BY <2>1, StepProcess
  <2>4. ScriptInv'
    BY <2>1, StepScript
  <2>5. GateHolds'
    BY <2>1, StepGate
  <2>6. VerdictInv' /\ HealthyInv'
    BY StepVerdict, StepHealthy
  <2>7. QED
    BY <2>2, <2>3, <2>4, <2>5, <2>6 DEF IInv
<1>3. QED
    BY <1>1, <1>2, PTL DEF Spec

-----------------------------------------------------------------------------

(* Every variable of the harness keeps its type.                           *)
THEOREM HarnessTypes == Spec => []TypeOK
<1>1. Init => TypeOK
    BY InitIInv, HarnessAssumption DEF IInv
<1>2. TypeOK /\ [Next]_vars => TypeOK'
    BY StepType, HarnessAssumption
<1>3. QED
    BY <1>1, <1>2, PTL DEF Spec

(* When the script is past its readiness gate, the worker of this run has  *)
(* announced the endpoint the tests use and bound its socket, whenever it  *)
(* wrote its log and whatever log an earlier unix run left in the stage.   *)
THEOREM GateIsHeld == ASSUME FreshHttp PROVE Spec => []GateHolds
<1>1. IInv => GateHolds
    BY DEF IInv
<1>2. QED
    BY <1>1, Invariance, HarnessAssumption, PTL

(* A green job has run every test against the worker it means to test,     *)
(* and each of them passed: a skip is never a pass.                        *)
THEOREM GreenIsEarned == ASSUME FreshHttp PROVE Spec => []GreenMeansTested
<1>1. IInv => GreenMeansTested
    BY DEF IInv, VerdictInv
<1>2. QED
    BY <1>1, Invariance, HarnessAssumption, PTL

(* A run that nothing outside the script disturbed is not red, unless its  *)
(* transport is http (whose poll may read a log that is not there yet) or  *)
(* unknown.                                                                *)
THEOREM OnlyTroubleIsRed == ASSUME FreshHttp PROVE Spec => []HealthyIsGreen
<1>1. IInv => HealthyIsGreen
    BY DEF IInv, HealthyInv, HealthyIsGreen
<1>2. QED
    BY <1>1, Invariance, HarnessAssumption, PTL

(* A script that has ended leaves no worker it knows of and no socket, on  *)
(* every path to its end.                                                  *)
THEOREM NothingIsLeft == Spec => []NothingLeft
<1>1. Init => TypeOK /\ NothingLeft
    BY InitIInv, HarnessAssumption DEF IInv
<1>2. TypeOK /\ NothingLeft /\ [Next]_vars => (TypeOK /\ NothingLeft)'
    BY StepType, StepNothingLeft, HarnessAssumption
<1>3. QED
    BY <1>1, <1>2, PTL DEF Spec

=============================================================================
