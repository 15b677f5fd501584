---------------------------- MODULE WorkerStartup ----------------------------
(***************************************************************************)
(* How workers come to be: catalog_name and build_worker (lib.rs) in the   *)
(* native binary, which builds one worker on its main thread, and in the   *)
(* browser build (mask-wasm), where the host opens ring slots and each     *)
(* slot's serve thread builds a worker of its own.  The environment is     *)
(* shared by all threads of a process; Rust makes each access to it        *)
(* atomic, and catalog_name makes up to three.                             *)
(***************************************************************************)
EXTENDS Integers, FiniteSets

CONSTANTS
    Slots,       \* the ring slots of the host; a native process uses one
    Overrides,   \* the catalog names a user may set, besides the default
    Storages,    \* the storage backends a user may set
    Unset,       \* a variable that is not in the environment
    NotUnicode   \* a value that is not UTF-8

ASSUME StartupAssumption ==
    {Unset, NotUnicode} \cap (Overrides \cup Storages \cup {"mask", "memory"}) = {}

(* The threads emscripten spawns before the module is handed out; a thread *)
(* beyond them would need the main thread, which a serving host blocks.    *)
(* Mutated PTHREAD_POOL_SIZE: one less than the host's four slots.         *)
PoolOfThree == 3
PTHREAD_POOL_SIZE == 4

VARIABLES
    build,     \* "native" or "browser"
    given,     \* the environment the process is started with
    env,       \* its environment now
    inited,    \* wasm_init has run
    pc,        \* slot -> what its thread does next
    catalog    \* slot -> the catalog name of its worker, or Unset

vars == <<build, given, env, inited, pc, catalog>>

Environment == [VGI_WORKER_CATALOG_NAME : Overrides \cup {"mask", Unset, NotUnicode},
                VGI_WORKER_SHARED_STORAGE : Storages \cup {"memory", Unset}]

Idle == [s \in Slots |-> "idle"]

Init ==
    /\ build \in {"native", "browser"}
    /\ given \in Environment /\ env = given
    /\ inited = FALSE
    /\ pc = Idle
    /\ catalog = [s \in Slots |-> Unset]

(* var_os(name).is_none() => set_var(name, value), for a default that is   *)
(* tested and set with nothing between.                                    *)
Default(e, name, value) ==
    IF e[name] = Unset THEN [e EXCEPT ![name] = value] ELSE e

-----------------------------------------------------------------------------
(* The process.                                                            *)

(* main(): one worker on the main thread.                                  *)
main(s) ==
    /\ build = "native" /\ pc = Idle
    /\ pc' = [pc EXCEPT ![s] = "test"]
    /\ UNCHANGED <<build, given, env, inited, catalog>>

(* Mutated wasm_init: whatever the user has set is replaced.               *)
InitOverwrites ==
    /\ build = "browser" /\ ~inited
    /\ env' = [env EXCEPT !["VGI_WORKER_SHARED_STORAGE"] = "memory"]
    /\ inited' = TRUE
    /\ UNCHANGED <<build, given, pc, catalog>>

(* On the module's main thread, before the host opens any slot.            *)
wasm_init ==
    /\ build = "browser" /\ ~inited
    /\ env' = Default(env, "VGI_WORKER_SHARED_STORAGE", "memory")
    /\ inited' = TRUE
    /\ UNCHANGED <<build, given, pc, catalog>>

(* The host opens a slot, and its serve thread is one of the pool's.  That *)
(* the init hook has run by then is what vgi::wasm_worker!, a macro of the *)
(* SDK, is taken to see to: its code is not in this repository.            *)
OpenSlot(s) ==
    /\ build = "browser" /\ inited /\ pc[s] = "idle"
    /\ pc' = [pc EXCEPT ![s] = "waiting"]
    /\ UNCHANGED <<build, given, env, inited, catalog>>

Busy == {s \in Slots : pc[s] \notin {"idle", "waiting"}}

TakeThread(s) ==
    /\ pc[s] = "waiting" /\ Cardinality(Busy) < PTHREAD_POOL_SIZE
    /\ pc' = [pc EXCEPT ![s] = "test"]
    /\ UNCHANGED <<build, given, env, inited, catalog>>

(* The host closes a slot: the worker is dropped, its thread pooled again. *)
CloseSlot(s) ==
    /\ build = "browser" /\ pc[s] = "serving"
    /\ pc' = [pc EXCEPT ![s] = "idle"]
    /\ catalog' = [catalog EXCEPT ![s] = Unset]
    /\ UNCHANGED <<build, given, env, inited>>

(* The process dies at any moment, or its client is done with it, and is   *)
(* started again in the environment it was first given.                    *)
Restart ==
    /\ env' = given /\ inited' = FALSE
    /\ pc' = Idle
    /\ catalog' = [s \in Slots |-> Unset]
    /\ UNCHANGED <<build, given>>

-----------------------------------------------------------------------------
(* build_worker() on a thread: catalog_name tests, sets and reads the      *)
(* variable; what follows touches the new worker alone.                    *)

(* Mutated TestName: the default is set without a test.                    *)
TestNothing(s) ==
    /\ pc[s] = "test"
    /\ pc' = [pc EXCEPT ![s] = "set"]
    /\ UNCHANGED <<build, given, env, inited, catalog>>

TestName(s) ==
    /\ pc[s] = "test"
    /\ pc' = [pc EXCEPT ![s] = IF env.VGI_WORKER_CATALOG_NAME = Unset THEN "set"
                               ELSE "read"]
    /\ UNCHANGED <<build, given, env, inited, catalog>>

(* Mutated SetName: the reader's fallback makes setting it look needless.  *)
SetNothing(s) ==
    /\ pc[s] = "set"
    /\ pc' = [pc EXCEPT ![s] = "read"]
    /\ UNCHANGED <<build, given, env, inited, catalog>>

SetName(s) ==
    /\ pc[s] = "set"
    /\ env' = [env EXCEPT !["VGI_WORKER_CATALOG_NAME"] = "mask"]
    /\ pc' = [pc EXCEPT ![s] = "read"]
    /\ UNCHANGED <<build, given, inited, catalog>>

(* Mutated NameIn: the value as it is.                                     *)
NameAsIs(e) == e.VGI_WORKER_CATALOG_NAME

(* var(name).unwrap_or("mask"): an error for a value that is not UTF-8.    *)
NameIn(e) ==
    IF e.VGI_WORKER_CATALOG_NAME \in {Unset, NotUnicode} THEN "mask"
    ELSE e.VGI_WORKER_CATALOG_NAME

build_worker(s) ==
    /\ pc[s] = "read"
    /\ catalog' = [catalog EXCEPT ![s] = NameIn(env)]
    /\ pc' = [pc EXCEPT ![s] = "serving"]
    /\ UNCHANGED <<build, given, env, inited>>

Thread(s) == TakeThread(s) \/ TestName(s) \/ SetName(s) \/ build_worker(s)

Next ==
    \/ \E s \in Slots : main(s) \/ OpenSlot(s) \/ CloseSlot(s) \/ Thread(s)
    \/ wasm_init
    \/ Restart

Spec == Init /\ [][Next]_vars

(* A thread that can go on does; nobody has to open or close a slot.       *)
FairSpec == Spec /\ \A s \in Slots : WF_vars(Thread(s))

-----------------------------------------------------------------------------

TypeOK ==
    /\ build \in {"native", "browser"}
    /\ given \in Environment /\ env \in Environment
    /\ inited \in BOOLEAN
    /\ pc \in [Slots -> {"idle", "waiting", "test", "set", "read", "serving"}]
    /\ catalog \in [Slots -> Overrides \cup {"mask", Unset}]

(* "Defaults to `mask`, but honors an explicit VGI_WORKER_CATALOG_NAME      *)
(* override" (lib.rs): whichever threads test, set and read in between,     *)
(* every worker of a process serves the same name, the one the user gave.  *)
OneCatalogName == \A s \in Slots :
    pc[s] = "serving" => catalog[s] = NameIn(given)

(* Whoever asks the environment for the name after a worker was built gets *)
(* the name that worker serves: set once, the variable keeps its value.    *)
NameStays == \A s \in Slots :
    pc[s] = "serving" => /\ env.VGI_WORKER_CATALOG_NAME # Unset
                         /\ NameIn(env) = catalog[s]

(* A serve thread finds the storage backend selected (mask-wasm), after    *)
(* each restart and as the user chose it if the user did, and the native   *)
(* build leaves the choice alone.  That the hook which selects it runs     *)
(* "before any function" is assumed, in OpenSlot.                          *)
StorageSelected == \A s \in Slots :
    pc[s] # "idle" =>
        env.VGI_WORKER_SHARED_STORAGE =
            IF build = "browser"
            THEN Default(given, "VGI_WORKER_SHARED_STORAGE", "memory").VGI_WORKER_SHARED_STORAGE
            ELSE given.VGI_WORKER_SHARED_STORAGE

(* A slot the host has opened is served, whatever the other slots do, for  *)
(* the pool has a thread for each of the host's slots (wasm/build.sh).     *)
SlotServed == \A s \in Slots :
    pc[s] = "waiting" ~> pc[s] \in {"serving", "idle"}
=============================================================================
