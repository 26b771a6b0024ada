------------------------------ MODULE WorkerGc ------------------------------
(***************************************************************************)
(* Cycle collection in the sub-interpreters: _bootstrap.py disables        *)
(* CPython's own collector, and the engine calls gc.collect() instead, by  *)
(* request count (GcSchedule in src/python/worker.rs) and, on a TPC thread *)
(* in idle mode, at a tick that finds the worker quiet (IdleGc in          *)
(* src/tpc.rs).  GcConfig (src/config.rs) turns the mode into the two      *)
(* triggers.  An AsyncEngine has no GcSchedule and is not a Worker here.   *)
(***************************************************************************)
EXTENDS Naturals

CONSTANTS
    GcWorkers,      \* workers that run def handlers (TPC threads, sync pool workers)
    Threshold,    \* PYRONOVA_GC_THRESHOLD; 0 never collects
    Failsafe,     \* PYRONOVA_GC_OOM_FAILSAFE
    MaxRequests   \* bound: requests per worker

ASSUME GcAssumption ==
    Threshold \in Nat /\ Failsafe \in Nat /\ MaxRequests \in Nat

VARIABLES
    mode,          \* GcMode
    served,        \* GcSchedule.served
    collectedAt,   \* GcSchedule.collected_at
    tickAt,        \* IdleGc.served_at_last_tick
    uncollected,   \* requests whose cycles no gc.collect() has freed yet
    panicked,      \* consecutive panics: requests that ended before the trigger was looked at
    raised         \* the last gc.collect() raised

gcVars == <<mode, served, collectedAt, tickAt, uncollected, panicked, raised>>

GcInit ==
    /\ mode \in {"count", "idle", "off"}
    /\ served = [w \in GcWorkers |-> 0] /\ collectedAt = served /\ tickAt = served
    /\ uncollected = served /\ panicked = served
    /\ raised = [w \in GcWorkers |-> FALSE]

(* GcConfig::count_trigger.                                                *)
CountTrigger == CASE mode = "count" -> Threshold [] mode = "idle" -> Failsafe [] OTHER -> 0

(* Mutant: the trigger fires on the exact count only.                      *)
DueExactly(since) == CountTrigger > 0 /\ since = CountTrigger

(* GcSchedule::due.                                                        *)
Due(since) == CountTrigger > 0 /\ since >= CountTrigger

(* Mutant: the request about to run is taken for collected.                *)
CollectsAhead(w, n) ==
    /\ collectedAt' = [collectedAt EXCEPT ![w] = n + 1]
    /\ uncollected' = [uncollected EXCEPT ![w] = 0]
    /\ UNCHANGED raised

(* GcSchedule::collect: the count restarts whether or not the call raises. *)
Collect(w, n) ==
    /\ collectedAt' = [collectedAt EXCEPT ![w] = n]
    /\ \E ok \in BOOLEAN :
        /\ uncollected' = [uncollected EXCEPT ![w] = IF ok THEN 0 ELSE @ + n - served[w]]
        /\ raised' = [raised EXCEPT ![w] = ~ok]

CanServe(w) == served[w] < MaxRequests

(* Inline::serve, then the trigger.                                        *)
GcServe(w) ==
    /\ CanServe(w)
    /\ served' = [served EXCEPT ![w] = @ + 1]
    /\ panicked' = [panicked EXCEPT ![w] = 0]
    /\ IF Due(served[w] + 1 - collectedAt[w]) THEN Collect(w, served[w] + 1)
       ELSE /\ uncollected' = [uncollected EXCEPT ![w] = @ + 1]
            /\ UNCHANGED <<collectedAt, raised>>
    /\ UNCHANGED <<mode, tickAt>>

(* A Rust panic unwinds past the trigger: the request is counted only.     *)
ServePanics(w) ==
    /\ CanServe(w)
    /\ served' = [served EXCEPT ![w] = @ + 1]
    /\ uncollected' = [uncollected EXCEPT ![w] = @ + 1]
    /\ panicked' = [panicked EXCEPT ![w] = @ + 1]
    /\ UNCHANGED <<mode, collectedAt, tickAt, raised>>

(* Mutant: the tick needs a worker that never served.                      *)
QuietSinceStart(w) == served[w] = 0

(* IdleGc::on_tick: nothing ran since the last tick, something since the   *)
(* last collection.                                                        *)
GcQuiet(w) == served[w] = tickAt[w]

(* idle_gc_tick, in idle mode only (next_tick).                            *)
Tick(w) ==
    /\ mode = "idle"
    /\ tickAt' = [tickAt EXCEPT ![w] = served[w]]
    /\ IF GcQuiet(w) /\ served[w] - collectedAt[w] > 0 THEN Collect(w, served[w])
       ELSE UNCHANGED <<collectedAt, uncollected, raised>>
    /\ UNCHANGED <<mode, served, panicked>>

GcNext == \E w \in GcWorkers : GcServe(w) \/ ServePanics(w) \/ Tick(w)

GcSpec == GcInit /\ [][GcNext]_gcVars

(* The interval ticks for ever.                                            *)
GcFairSpec == GcSpec /\ \A w \in GcWorkers : WF_gcVars(Tick(w))

-----------------------------------------------------------------------------
(* Counters count, and a collection is never in the future.                *)
GcTypeOK ==
    /\ mode \in {"count", "idle", "off"}
    /\ served \in [GcWorkers -> 0 .. MaxRequests]
    /\ collectedAt \in [GcWorkers -> Nat] /\ tickAt \in [GcWorkers -> Nat]
    /\ \A w \in GcWorkers : collectedAt[w] \in 0 .. served[w] /\ tickAt[w] \in 0 .. served[w]
    /\ uncollected \in [GcWorkers -> 0 .. MaxRequests]
    /\ panicked \in [GcWorkers -> 0 .. MaxRequests]
    /\ raised \in [GcWorkers -> BOOLEAN]

(* config.rs: count mode collects "every PYRONOVA_GC_THRESHOLD requests",  *)
(* idle mode's failsafe sees to it that "sustained traffic can't starve    *)
(* the collector".  On a worker that runs def handlers garbage stays under *)
(* the trigger, but for a run of panics, which each skip the trigger, and  *)
(* for a collection that raised.                                           *)
GarbageBounded ==
    \A w \in GcWorkers :
        CountTrigger > 0 /\ ~raised[w] => uncollected[w] < CountTrigger + panicked[w]

(* What makes GarbageBounded inductive: the schedule's count is what the   *)
(* garbage is measured by, and is under the trigger but for the panics.    *)
ScheduleTrue ==
    \A w \in GcWorkers :
        /\ uncollected[w] <= served[w] /\ panicked[w] <= served[w]
        /\ ~raised[w] => uncollected[w] = served[w] - collectedAt[w]
        /\ CountTrigger > 0 => served[w] - collectedAt[w] < CountTrigger + panicked[w]

(* Idle mode: a worker that falls silent is left with no garbage, unless   *)
(* its last collection raised.                                             *)
LullCollects ==
    \A w \in GcWorkers :
        mode = "idle" /\ served[w] = MaxRequests ~> uncollected[w] = 0 \/ raised[w]

(* Counters are sound and garbage stays under the trigger.                 *)
GcSafe == GcTypeOK /\ GarbageBounded
=============================================================================
