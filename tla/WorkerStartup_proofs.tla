------------------------- MODULE WorkerStartup_proofs -------------------------
(***************************************************************************)
(* Proofs about startup, for every set of slots, every environment and     *)
(* every interleaving of the threads.                                      *)
(***************************************************************************)
EXTENDS WorkerStartup, TLAPS

(* The name the environment was given, and the backend it should select.   *)
GivenName == given.VGI_WORKER_CATALOG_NAME
Name == env.VGI_WORKER_CATALOG_NAME

(* A name that was given is never replaced; a default is set only where    *)
(* none was given, and before any thread reads.                            *)
NameKept ==
    /\ GivenName # Unset => Name = GivenName
    /\ GivenName = Unset => Name \in {Unset, "mask"}
    /\ \A s \in Slots :
          /\ pc[s] = "set" => GivenName = Unset
          /\ pc[s] \in {"read", "serving"} => Name # Unset

(* The backend is selected when wasm_init has run and not before, and no   *)
(* slot is open until then.                                                *)
StorageKept ==
    /\ env.VGI_WORKER_SHARED_STORAGE =
          IF inited
          THEN Default(given, "VGI_WORKER_SHARED_STORAGE", "memory").VGI_WORKER_SHARED_STORAGE
          ELSE given.VGI_WORKER_SHARED_STORAGE
    /\ inited => build = "browser"
    /\ build = "browser" /\ ~inited => \A s \in Slots : pc[s] = "idle"

IInv == TypeOK /\ NameKept /\ StorageKept /\ OneCatalogName

-----------------------------------------------------------------------------

(* What set_var does to one variable leaves the other alone.               *)
LEMMA SetVar ==
    ASSUME NEW e \in Environment
    PROVE  /\ [e EXCEPT !["VGI_WORKER_CATALOG_NAME"] = "mask"] \in Environment
           /\ [e EXCEPT !["VGI_WORKER_CATALOG_NAME"] = "mask"].VGI_WORKER_CATALOG_NAME = "mask"
           /\ [e EXCEPT !["VGI_WORKER_CATALOG_NAME"] = "mask"].VGI_WORKER_SHARED_STORAGE
              = e.VGI_WORKER_SHARED_STORAGE
BY DEF Environment

(* Selecting the default backend leaves the name alone.                    *)
LEMMA SetStorage ==
    ASSUME NEW e \in Environment
    PROVE  LET d == Default(e, "VGI_WORKER_SHARED_STORAGE", "memory")
           IN  /\ d \in Environment
               /\ d.VGI_WORKER_CATALOG_NAME = e.VGI_WORKER_CATALOG_NAME
               /\ d.VGI_WORKER_SHARED_STORAGE =
                     IF e.VGI_WORKER_SHARED_STORAGE = Unset THEN "memory"
                     ELSE e.VGI_WORKER_SHARED_STORAGE
BY DEF Environment, Default

(* A read of the name answers a name.                                      *)
LEMMA NameInType ==
    ASSUME NEW e \in Environment
    PROVE  NameIn(e) \in Overrides \cup {"mask"}
BY DEF Environment, NameIn

(* Every process starts in the invariant.                                  *)
LEMMA InitIInv == Init => IInv
BY DEF Init, IInv, TypeOK, NameKept, StorageKept, OneCatalogName, Idle, Environment,
       GivenName, Name

(* Every step keeps the invariant.                                         *)
LEMMA StepKeepsIInv == IInv /\ [Next]_vars => IInv'
<1> SUFFICES ASSUME IInv, [Next]_vars PROVE IInv'
    OBVIOUS
<1> USE DEF IInv, NameKept, StorageKept, OneCatalogName, GivenName, Name
<1>1. CASE UNCHANGED vars
    BY <1>1 DEF vars, TypeOK, NameIn, Default
<1>2. ASSUME NEW s \in Slots, main(s) PROVE IInv'
    BY <1>2 DEF main, Idle, TypeOK
<1>3. ASSUME NEW s \in Slots, OpenSlot(s) PROVE IInv'
    BY <1>3 DEF OpenSlot, TypeOK
<1>4. ASSUME NEW s \in Slots, CloseSlot(s) PROVE IInv'
    BY <1>4 DEF CloseSlot, TypeOK
<1>5. ASSUME NEW s \in Slots, TakeThread(s) PROVE IInv'
    BY <1>5 DEF TakeThread, TypeOK
<1>6. ASSUME NEW s \in Slots, TestName(s) PROVE IInv'
    BY <1>6 DEF TestName, TypeOK
<1>7. ASSUME NEW s \in Slots, SetName(s) PROVE IInv'
    <2>1. /\ env' \in Environment
          /\ env'.VGI_WORKER_CATALOG_NAME = "mask"
          /\ env'.VGI_WORKER_SHARED_STORAGE = env.VGI_WORKER_SHARED_STORAGE
        BY <1>7, SetVar DEF SetName, TypeOK
    <2>2. "mask" # Unset
        BY StartupAssumption
    <2>3. /\ pc' = [pc EXCEPT ![s] = "read"] /\ pc[s] = "set"
          /\ given' = given /\ build' = build /\ inited' = inited /\ catalog' = catalog
        BY <1>7 DEF SetName
    <2>4. TypeOK'
        BY <2>1, <2>3 DEF TypeOK
    <2>5. NameKept'
        BY <2>1, <2>2, <2>3 DEF TypeOK
    <2>6. StorageKept'
        BY <2>1, <2>3 DEF TypeOK
    <2>7. OneCatalogName'
        BY <2>3 DEF TypeOK
    <2>8. QED
        BY <2>4, <2>5, <2>6, <2>7
<1>8. ASSUME NEW s \in Slots, build_worker(s) PROVE IInv'
    <2>1. NameIn(env) \in Overrides \cup {"mask"}
        BY NameInType DEF TypeOK
    <2>2. NameIn(env) = NameIn(given)
        BY <1>8 DEF build_worker, NameIn
    <2>3. /\ catalog' = [catalog EXCEPT ![s] = NameIn(env)]
          /\ pc' = [pc EXCEPT ![s] = "serving"] /\ pc[s] = "read"
          /\ given' = given /\ build' = build /\ inited' = inited /\ env' = env
        BY <1>8 DEF build_worker
    <2>4. NameIn(given)' = NameIn(given)
        BY <2>3
    <2>5. TypeOK'
        BY <2>1, <2>3 DEF TypeOK
    <2>6. NameKept' /\ StorageKept'
        BY <2>3 DEF TypeOK
    <2>7. OneCatalogName'
        BY <2>2, <2>3, <2>4 DEF TypeOK
    <2>8. QED
        BY <2>5, <2>6, <2>7
<1>9. CASE wasm_init
    <2>1. LET d == Default(env, "VGI_WORKER_SHARED_STORAGE", "memory")
          IN  /\ d \in Environment
              /\ d.VGI_WORKER_CATALOG_NAME = env.VGI_WORKER_CATALOG_NAME
              /\ d.VGI_WORKER_SHARED_STORAGE =
                    IF env.VGI_WORKER_SHARED_STORAGE = Unset THEN "memory"
                    ELSE env.VGI_WORKER_SHARED_STORAGE
        BY SetStorage DEF TypeOK
    <2>2. Default(given, "VGI_WORKER_SHARED_STORAGE", "memory").VGI_WORKER_SHARED_STORAGE
          = IF given.VGI_WORKER_SHARED_STORAGE = Unset THEN "memory"
            ELSE given.VGI_WORKER_SHARED_STORAGE
        BY SetStorage DEF TypeOK
    <2>3. /\ env' = Default(env, "VGI_WORKER_SHARED_STORAGE", "memory")
          /\ ~inited /\ inited' = TRUE /\ build = "browser"
          /\ given' = given /\ build' = build /\ pc' = pc /\ catalog' = catalog
        BY <1>9 DEF wasm_init
    <2>4. /\ env' \in Environment
          /\ env'.VGI_WORKER_CATALOG_NAME = env.VGI_WORKER_CATALOG_NAME
          /\ env'.VGI_WORKER_SHARED_STORAGE =
                IF given.VGI_WORKER_SHARED_STORAGE = Unset THEN "memory"
                ELSE given.VGI_WORKER_SHARED_STORAGE
        BY <2>1, <2>3
    <2>5. TypeOK'
        BY <2>3, <2>4 DEF TypeOK
    <2>6. NameKept' /\ OneCatalogName'
        BY <2>3, <2>4 DEF NameIn
    <2>7. StorageKept'
        BY <2>2, <2>3, <2>4
    <2>8. QED
        BY <2>5, <2>6, <2>7
<1>10. CASE Restart
    BY <1>10 DEF Restart, Idle, TypeOK, Environment
<1>11. QED
    BY <1>1, <1>2, <1>3, <1>4, <1>5, <1>6, <1>7, <1>8, <1>9, <1>10 DEF Next, Thread

-----------------------------------------------------------------------------

(* The environment, the program counters and the names keep their types.   *)
THEOREM StartupTypes == Spec => []TypeOK
<1>1. IInv => TypeOK
    BY DEF IInv
<1>2. QED
    BY <1>1, InitIInv, StepKeepsIInv, PTL DEF Spec

(* Every worker of a process serves the name the user gave, or "mask", in  *)
(* every interleaving of tests, sets and reads by any number of threads.   *)
THEOREM OneNameForAll == Spec => []OneCatalogName
<1>1. IInv => OneCatalogName
    BY DEF IInv
<1>2. QED
    BY <1>1, InitIInv, StepKeepsIInv, PTL DEF Spec

(* A worker that serves finds its own name in the environment.             *)
THEOREM NameIsStable == Spec => []NameStays
<1>1. IInv => NameStays
    BY DEF IInv, TypeOK, NameKept, OneCatalogName, NameStays, NameIn, Environment,
           GivenName, Name
<1>2. QED
    BY <1>1, InitIInv, StepKeepsIInv, PTL DEF Spec

(* The backend is selected before any slot's thread can run a function.    *)
THEOREM StorageIsSelected == Spec => []StorageSelected
<1>1. IInv => StorageSelected
    BY DEF IInv, StorageKept, StorageSelected, TypeOK
<1>2. QED
    BY <1>1, InitIInv, StepKeepsIInv, PTL DEF Spec
=============================================================================
