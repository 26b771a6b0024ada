----------------------------- MODULE ServerPlan -----------------------------
(***************************************************************************)
(* What one server of an app will run and on what: the route table as the  *)
(* script and its startup hooks fill it (src/app.rs, src/router.rs), the   *)
(* seal that separates the two, and start() and serve(), which resolve the *)
(* topology from the mode, the environment and the sizes (src/config.rs)   *)
(* and size the executors of each handler kind (src/python/pool.rs,        *)
(* src/app.rs).                                                            *)
(***************************************************************************)
EXTENDS Integers, Sequences

CONSTANTS
    MaxRoutes,    \* bound on the registrations
    Counts,       \* sizes run() may be given
    Physical,     \* Cpus.physical
    Logical,      \* Cpus.logical
    Bridge,       \* BridgeConfig.workers
    Default       \* a size left out

ASSUME PlanAssumption ==
    /\ MaxRoutes \in Nat
    /\ Counts \subseteq Nat
    /\ Physical \in Nat \ {0} /\ Logical \in Nat \ {0} /\ Bridge \in Nat \ {0}
    /\ Default \notin Nat

VARIABLES
    macos,      \* the platform
    table,      \* the routes' Dispatch, in registration order
    fallback,   \* a fallback handler is set
    sealed,     \* RouteTable.sealed: None, or how many routes the script registered
    phase,      \* "open", then "serving", or "refused" with an error raised
    plan,       \* the topology and the workers of each kind
    wanted      \* the `workers` run() was given

vars == <<macos, table, fallback, sealed, phase, plan, wanted>>

Main == "main"
Streamed == "streamed"
Sync == "sync"
Async == "async"
MainKinds == {Main, Streamed}

NoPlan == [topology |-> "none", sync |-> 0, async |-> 0, main |-> 0, loops |-> 0]
Unsealed == -1

Init ==
    /\ macos \in BOOLEAN
    /\ table = <<>> /\ fallback = FALSE /\ sealed = Unsealed
    /\ phase = "open" /\ plan = NoPlan /\ wanted = Default

-----------------------------------------------------------------------------
(* Registration.                                                           *)

(* UnservableRoute: stream=True needs gil=True and a def handler.          *)
Servable(gil, stream, async) == stream => gil /\ ~async

RouteDispatch(gil, stream, async) ==
    IF gil THEN IF stream THEN Streamed ELSE Main
    ELSE IF async THEN Async ELSE Sync

(* Mutant: a route of any kind is taken after the seal.                    *)
TakesLate(gil) == TRUE

(* RegistrationSealed: what only main knows must run on main.              *)
InTime(gil) == sealed = Unsealed \/ gil

AddRoute(gil, stream, async) ==
    /\ phase = "open" /\ Len(table) < MaxRoutes
    /\ Servable(gil, stream, async)
    /\ InTime(gil)
    /\ table' = Append(table, RouteDispatch(gil, stream, async))
    /\ UNCHANGED <<macos, fallback, sealed, phase, plan, wanted>>

SetFallback ==
    /\ phase = "open" /\ sealed = Unsealed
    /\ fallback' = TRUE
    /\ UNCHANGED <<macos, table, sealed, phase, plan, wanted>>

SealIfUnsealed == sealed' = IF sealed = Unsealed THEN Len(table) ELSE sealed

(* Pyronova._prepare, before the startup hooks run.                        *)
SealRegistrations ==
    /\ phase = "open"
    /\ SealIfUnsealed
    /\ UNCHANGED <<macos, table, fallback, phase, plan, wanted>>

-----------------------------------------------------------------------------
(* Sizing.                                                                 *)

Has(kinds) == \E i \in 1 .. Len(table) : table[i] \in kinds

UsesMain == fallback \/ Has(MainKinds)

Sized(given, default) == IF given = Default THEN default ELSE given

(* positive(): 0 workers or IO threads is a ValueError.                    *)
Positive(given) == given = Default \/ given > 0

AtMost(a, b) == IF a <= b THEN a ELSE b

(* Mutant: half the threads, with none left for one.                       *)
HalfTheThreads(threads) == IF Has({Sync}) THEN threads \div 2 ELSE threads

(* tpc_async_workers: half the threads, at least one.                      *)
TpcAsyncWorkers(threads) ==
    IF ~Has({Sync}) THEN threads
    ELSE IF threads \div 2 = 0 THEN 1 ELSE threads \div 2

(* SplitError::OneWorkerForBothKinds.                                      *)
CanSplit(n) == ~(n = 1 /\ Has({Sync}) /\ Has({Async}))

(* split_workers, the async half, rounded down.                            *)
AsyncShare(n) ==
    IF ~Has({Async}) THEN 0
    ELSE IF Has({Sync}) THEN n \div 2 ELSE n

TopologyOf(mode, tpc, fanout) ==
    IF tpc THEN IF mode = "gil" THEN "TpcGil"
                ELSE IF fanout THEN "TpcFanout" ELSE "TpcWorkers"
    ELSE IF mode = "gil" THEN "MultiThreadGil" ELSE "Pool"

(* Topology::supports.                                                     *)
Supports(topology, gc) ==
    /\ topology = "TpcFanout" => gc # "idle"
    /\ topology = "Pool" => gc = "count"

(* serve_tpc_workers: a worker per thread, async engines and a bridge when *)
(* the table has routes for them.                                          *)
TpcPlan(topology, threads) ==
    [topology |-> topology,
     sync |-> threads,
     async |-> IF Has({Async}) THEN TpcAsyncWorkers(threads) ELSE 0,
     main |-> IF UsesMain THEN Bridge ELSE 0,
     loops |-> IF topology = "TpcFanout" THEN 1 ELSE threads]

(* Mutant: both halves rounded down, an odd worker given to neither.       *)
LosesTheOdd(n, loops) ==
    [topology |-> "Pool", async |-> AsyncShare(n), main |-> 1, loops |-> loops,
     sync |-> IF Has({Sync}) /\ Has({Async}) THEN n \div 2 ELSE n - AsyncShare(n)]

(* run_subinterp: the pool split by kind; main's blocking pool for the     *)
(* rest.  run_gil and run_tpc_gil: everything on main.                     *)
PoolPlan(n, loops) ==
    [topology |-> "Pool", sync |-> n - AsyncShare(n), async |-> AsyncShare(n),
     main |-> 1, loops |-> loops]
GilPlan(topology, loops) ==
    [topology |-> topology, sync |-> 0, async |-> 0, main |-> 1, loops |-> loops]

AcceptLoops(io) == IF macos THEN 1 ELSE AtMost(io, Logical)

PlanFor(topology, workers, io) ==
    CASE topology = "TpcGil" -> GilPlan(topology, Sized(workers, Physical))
      [] topology \in {"TpcWorkers", "TpcFanout"} -> TpcPlan(topology, Sized(workers, Physical))
      [] topology = "MultiThreadGil" -> GilPlan(topology, AcceptLoops(Sized(io, Logical)))
      [] topology = "Pool" -> PoolPlan(Sized(workers, Logical), AcceptLoops(Sized(io, Logical)))

(* start() and serve(): a refused configuration raises before anything is  *)
(* built; what is served is sealed and frozen from here on.                *)
Start(mode, tpc, fanout, gc, workers, io) ==
    LET topology == TopologyOf(mode, tpc, fanout) IN
    /\ phase = "open"
    /\ fanout => macos
    /\ wanted' = workers
    /\ IF ~(Positive(workers) /\ Positive(io) /\ Supports(topology, gc))
       THEN phase' = "refused" /\ UNCHANGED <<sealed, plan>>
       ELSE /\ SealIfUnsealed
            /\ IF topology = "Pool" /\ ~CanSplit(Sized(workers, Logical))
               THEN phase' = "refused" /\ UNCHANGED plan
               ELSE phase' = "serving" /\ plan' = PlanFor(topology, workers, io)
    /\ UNCHANGED <<macos, table, fallback>>

Next ==
    \/ \E gil, stream, async \in BOOLEAN : AddRoute(gil, stream, async)
    \/ SetFallback \/ SealRegistrations
    \/ \E mode \in {"gil", "subinterp"}, tpc, fanout \in BOOLEAN,
          gc \in {"count", "idle", "off"}, workers, io \in Counts \cup {Default} :
        Start(mode, tpc, fanout, gc, workers, io)

Spec == Init /\ [][Next]_vars

-----------------------------------------------------------------------------
Kinds == {Main, Streamed, Sync, Async}

(* Table and plan are made of the code's values; no count is negative.     *)
TypeOK ==
    /\ macos \in BOOLEAN /\ fallback \in BOOLEAN
    /\ table \in Seq(Kinds) /\ Len(table) <= MaxRoutes
    /\ sealed \in Nat \cup {Unsealed}
    /\ phase \in {"open", "serving", "refused"}
    /\ wanted \in Counts \cup {Default}
    /\ plan \in [topology : {"none", "TpcGil", "TpcWorkers", "TpcFanout", "MultiThreadGil", "Pool"},
                 sync : Nat, async : Nat, main : Nat, loops : Nat]

GilTopologies == {"TpcGil", "MultiThreadGil"}

(* The workers that run handlers dispatched as d: in GIL mode main runs    *)
(* every handler.                                                          *)
Executors(d) ==
    IF plan.topology \in GilTopologies \/ d \in MainKinds THEN plan.main
    ELSE IF d = Sync THEN plan.sync ELSE plan.async

(* Whatever was registered and whatever sizes were given, a server that    *)
(* serves has a worker for every route and for the fallback, and accepts.  *)
EveryCallServed ==
    phase = "serving" =>
        /\ \A i \in 1 .. Len(table) : Executors(table[i]) > 0
        /\ fallback => plan.main > 0
        /\ plan.loops > 0

(* A worker knows the routes the script registered, by index: every route  *)
(* a worker is asked for is one of them.                                   *)
WorkersKnowRoutes ==
    sealed # Unsealed =>
        \A i \in 1 .. Len(table) : table[i] \notin MainKinds => i <= sealed

(* The sub-interpreters of a pool are as many as run() was asked for, one  *)
(* per logical CPU when it was not told; each kind the table holds gets    *)
(* half, the odd one to the sync kind, and a table with one kind gets them *)
(* all.  A table with neither still gets them, as sync workers.            *)
PoolUsesItsWorkers ==
    phase = "serving" /\ plan.topology = "Pool" =>
        /\ plan.sync + plan.async = Sized(wanted, Logical)
        /\ Has({Sync}) /\ Has({Async}) => plan.sync - plan.async \in {0, 1}
        /\ ~Has({Sync}) /\ Has({Async}) => plan.sync = 0
        /\ ~Has({Async}) => plan.async = 0

(* The plan is well formed, and a pool has the workers it was asked for.   *)
PlanSafe == TypeOK /\ PoolUsesItsWorkers
=============================================================================
