---------------------------- MODULE ThreadStates ----------------------------
(***************************************************************************)
(* Which CPython thread state is current on which OS thread, while workers *)
(* are built, bound to their threads, called and ended                     *)
(* (src/python/worker.rs, SubInterpreterWorker), and threads of the        *)
(* runtime attach to the main interpreter (src/run_context.rs).            *)
(*                                                                         *)
(* Interpreter 0 is main's, w that of worker w; thread 0 is the thread in  *)
(* app.run(), w the one that serves worker w, TsRt a runtime, bridge or    *)
(* blocking-pool thread.  A thread state is current on at most one thread, *)
(* and only one of an interpreter's is current anywhere: its GIL.  That    *)
(* and the life of a thread state are CPython's; the order of the calls is *)
(* the code's.  The server is a pool's (threads spawned attached, joined   *)
(* with a bound) or TPC's (spawned detached, joined without one).          *)
(* Py_Finalize comes after all of this (ServerRun).                        *)
(***************************************************************************)
EXTENDS Integers, FiniteSets

CONSTANTS
    TsN,     \* number of workers
    TsSteps  \* steps of a worker's init that may fail (prepare)

ASSUME TsAssumption == TsN \in Nat \ {0} /\ TsSteps \in Nat \ {0}

TsWorkers == 1 .. TsN
TsRt == TsN + 1
TsOsThreads == 0 .. TsRt
TsNobody == -1

VARIABLES
    tsCurrent,  \* the thread state current on each OS thread
    tsLive,     \* the thread states that exist
    tsRuns,     \* the interpreter whose objects its code touches now
    tsInterp,   \* each worker's interpreter: "none", "init", "live", "ended"
    tsTstate,   \* SubInterpreterWorker::tstate
    tsRole,     \* its references: "none", "held", "released"
    tsPc,       \* where the building thread is
    tsW,        \* the worker it is at
    tsStep,     \* the init step it is at
    tsSaved,    \* `previous` in end(): the thread state to restore, if any
    tsFailed,   \* the start failed
    tsDetached, \* it is inside py.detach
    tsAt,       \* each worker's thread: "off", "bind", "idle", "call", "end",
                \* "gone", or "lost": dropped with a spawn that failed
    tsTpc,      \* a TPC server, or a pool
    tsRtAt      \* the runtime thread: "new", "has" a thread state, "in", "out", "gone"

tsState == <<tsCurrent, tsLive, tsRuns>>
tsWorker == <<tsInterp, tsTstate, tsRole>>
tsBuild == <<tsPc, tsW, tsStep, tsSaved, tsFailed, tsDetached>>
tsVars == <<tsState, tsWorker, tsBuild, tsAt, tsTpc, tsRtAt>>

TsMainState == [interp |-> 0, kind |-> "main"]
TsRtState == [interp |-> 0, kind |-> "runtime"]
Creator(w) == [interp |-> w, kind |-> "creator"]
Fresh(w) == [interp |-> w, kind |-> "fresh"]
Null == [interp |-> TsNobody, kind |-> "null"]

TsInit ==
    /\ tsCurrent = [t \in TsOsThreads |-> IF t = 0 THEN TsMainState ELSE Null]
    /\ tsLive = {TsMainState}
    /\ tsRuns = [t \in TsOsThreads |-> TsNobody]
    /\ tsInterp = [w \in TsWorkers |-> "none"]
    /\ tsTstate = [w \in TsWorkers |-> Null]
    /\ tsRole = [w \in TsWorkers |-> "none"]
    /\ tsPc = "build" /\ tsW = 1 /\ tsStep = 1 /\ tsSaved = Null
    /\ tsFailed = FALSE /\ tsDetached = FALSE
    /\ tsAt = [w \in TsWorkers |-> "off"]
    /\ tsTpc \in BOOLEAN
    /\ tsRtAt = "new"

GilFree(i) == \A t \in TsOsThreads : tsCurrent[t].interp # i
Current(t, s) == tsCurrent' = [tsCurrent EXCEPT ![t] = s]
Runs(t, i) == tsRuns' = [tsRuns EXCEPT ![t] = i]
OfOthers(w) == {s \in tsLive : s.interp # w}

-----------------------------------------------------------------------------
(* SubInterpreterWorker::new, on the building thread.                      *)

(* Mutant: main's thread state is not swapped back.                        *)
RefusedReturns ==
    /\ tsPc = "build" /\ tsW <= TsN
    /\ Current(0, Null)
    /\ tsFailed' = TRUE
    /\ tsPc' = "endall" /\ tsW' = 1
    /\ UNCHANGED <<tsLive, tsRuns, tsWorker, tsStep, tsSaved, tsDetached, tsAt, tsRtAt>>

(* Py_NewInterpreterFromConfig refuses: no thread state may be current.    *)
TsRefused ==
    /\ tsPc = "build" /\ tsW <= TsN
    /\ Current(0, Null)
    /\ tsFailed' = TRUE
    /\ tsPc' = "swap"
    /\ UNCHANGED <<tsLive, tsRuns, tsWorker, tsW, tsStep, tsSaved, tsDetached, tsAt, tsRtAt>>

(* The new interpreter's thread state is current, main's is detached.      *)
TsCreated ==
    /\ tsPc = "build" /\ tsW <= TsN
    /\ tsLive' = tsLive \cup {Creator(tsW)}
    /\ tsInterp' = [tsInterp EXCEPT ![tsW] = "init"]
    /\ Current(0, Creator(tsW)) /\ Runs(0, tsW)
    /\ tsStep' = 1
    /\ tsPc' = "init"
    /\ UNCHANGED <<tsTstate, tsRole, tsW, tsSaved, tsFailed, tsDetached, tsAt, tsRtAt>>

(* Mutant: one step more than there are.                                   *)
InitStepTooMany ==
    /\ tsPc = "init" /\ tsStep <= TsSteps
    /\ tsStep' = tsStep + 1
    /\ UNCHANGED <<tsState, tsWorker, tsPc, tsW, tsSaved, tsFailed, tsDetached, tsAt, tsRtAt>>

(* prepare: the shared map, sys.path, the bootstrap module, its two        *)
(* sources, the script, the serializer, the routes, the role.              *)
TsInitStep ==
    /\ tsPc = "init" /\ tsStep < TsSteps
    /\ tsStep' = tsStep + 1
    /\ UNCHANGED <<tsState, tsWorker, tsPc, tsW, tsSaved, tsFailed, tsDetached, tsAt, tsRtAt>>

TsPrepared ==
    /\ tsPc = "init" /\ tsStep = TsSteps
    /\ tsRole' = [tsRole EXCEPT ![tsW] = "held"]
    /\ tsInterp' = [tsInterp EXCEPT ![tsW] = "live"]
    /\ tsTstate' = [tsTstate EXCEPT ![tsW] = tsCurrent[0]]
    /\ Current(0, Null) /\ Runs(0, TsNobody)
    /\ tsPc' = "swap"
    /\ UNCHANGED <<tsLive, tsW, tsStep, tsSaved, tsFailed, tsDetached, tsAt, tsRtAt>>

(* Mutant: a failed init leaves the interpreter as it is.                  *)
InitFailsLeaves ==
    /\ tsPc = "init"
    /\ Current(0, Null) /\ Runs(0, TsNobody)
    /\ tsFailed' = TRUE
    /\ tsPc' = "swap"
    /\ UNCHANGED <<tsLive, tsWorker, tsW, tsStep, tsSaved, tsDetached, tsAt, tsRtAt>>

(* A step fails: what it built is released on the way out, the interpreter *)
(* ended.                                                                  *)
TsInitFails ==
    /\ tsPc = "init"
    /\ tsInterp' = [tsInterp EXCEPT ![tsW] = "ended"]
    /\ tsLive' = OfOthers(tsW)
    /\ Current(0, Null) /\ Runs(0, TsNobody)
    /\ tsFailed' = TRUE
    /\ tsPc' = "swap"
    /\ UNCHANGED <<tsTstate, tsRole, tsW, tsStep, tsSaved, tsDetached, tsAt, tsRtAt>>

(* PyThreadState_Swap(main_tstate) takes main's GIL back.                  *)
TsSwapsBack ==
    /\ tsPc = "swap" /\ GilFree(0)
    /\ Current(0, TsMainState)
    /\ tsPc' = IF tsFailed THEN "endall" ELSE "build"
    /\ tsW' = IF tsFailed THEN 1 ELSE tsW + 1
    /\ UNCHANGED <<tsLive, tsRuns, tsWorker, tsStep, tsSaved, tsFailed, tsDetached, tsAt, tsRtAt>>

-----------------------------------------------------------------------------
(* The threads are spawned, attached (the pool) or detached (TPC), and the *)
(* server runs detached.                                                   *)

TsDetaches ==
    /\ tsPc = "build" /\ tsW > TsN /\ ~tsDetached
    /\ tsTpc \/ \A w \in TsWorkers : tsAt[w] # "off"
    /\ Current(0, Null)
    /\ tsDetached' = TRUE
    /\ UNCHANGED <<tsLive, tsRuns, tsWorker, tsPc, tsW, tsStep, tsSaved, tsFailed, tsAt, tsRtAt>>

NextToSpawn(w) == tsAt[w] = "off" /\ \A v \in 1 .. w - 1 : tsAt[v] # "off"

TsSpawns ==
    /\ tsPc = "build" /\ tsW > TsN /\ tsDetached = tsTpc
    /\ \E w \in TsWorkers : NextToSpawn(w) /\ tsAt' = [tsAt EXCEPT ![w] = "bind"]
    /\ UNCHANGED <<tsState, tsWorker, tsBuild, tsRtAt>>

(* A thread does not start: the workers not handed to one are ended here;  *)
(* the pool's own is lost, dropped with the closure it was moved into.     *)
TsSpawnFails ==
    /\ tsPc = "build" /\ tsW > TsN /\ tsDetached = tsTpc
    /\ \E w \in TsWorkers :
        NextToSpawn(w) /\ tsAt' = [tsAt EXCEPT ![w] = IF tsTpc THEN "off" ELSE "lost"]
    /\ tsFailed' = TRUE
    /\ tsPc' = "endall" /\ tsW' = 1
    /\ UNCHANGED <<tsState, tsWorker, tsStep, tsSaved, tsDetached, tsRtAt>>

(* A thread that runs.                                                     *)
TsRunning(w) == tsAt[w] \in {"bind", "idle", "call", "end"}

(* Every thread that ran is joined; a pool's join gives up on a thread     *)
(* after JOIN_TIMEOUT, and leaves it running.                              *)
TsJoined == tsTpc => \A w \in TsWorkers : ~TsRunning(w)

(* The server ran and its threads are joined; py.detach re-attaches.       *)
TsServed ==
    /\ tsPc = "build" /\ tsW > TsN /\ tsDetached
    /\ \A w \in TsWorkers : tsAt[w] # "off"
    /\ TsJoined
    /\ tsPc' = "back"
    /\ tsSaved' = TsMainState
    /\ tsDetached' = FALSE
    /\ UNCHANGED <<tsState, tsWorker, tsW, tsStep, tsFailed, tsAt, tsRtAt>>

-----------------------------------------------------------------------------
(* end(), on the building thread (end_all) and on the worker's own.        *)

(* The worker's thread state is restored, and its references released.     *)
EntersToEnd(t, w) ==
    /\ GilFree(w)
    /\ Current(t, tsTstate[w]) /\ Runs(t, w)

ReleasesAndEnds(t, w) ==
    /\ tsRole' = [tsRole EXCEPT ![w] = "released"]
    /\ tsInterp' = [tsInterp EXCEPT ![w] = "ended"]
    /\ tsLive' = OfOthers(w)
    /\ Current(t, Null) /\ Runs(t, TsNobody)

ToEnd(w) == tsInterp[w] = "live" /\ tsAt[w] = "off"

TsEndAllNext ==
    /\ tsPc = "endall" /\ tsW <= TsN /\ ~ToEnd(tsW)
    /\ tsW' = tsW + 1
    /\ UNCHANGED <<tsState, tsWorker, tsPc, tsStep, tsSaved, tsFailed, tsDetached, tsAt, tsRtAt>>

TsEndAllEnters ==
    /\ tsPc = "endall" /\ tsW <= TsN /\ ToEnd(tsW)
    /\ EntersToEnd(0, tsW)
    /\ tsSaved' = tsCurrent[0]
    /\ tsPc' = "ending"
    /\ UNCHANGED <<tsLive, tsWorker, tsW, tsStep, tsFailed, tsDetached, tsAt, tsRtAt>>

TsEndAllEnds ==
    /\ tsPc = "ending"
    /\ ReleasesAndEnds(0, tsW)
    /\ tsPc' = "back"
    /\ UNCHANGED <<tsTstate, tsW, tsStep, tsSaved, tsFailed, tsDetached, tsAt, tsRtAt>>

TsEndAllBack ==
    /\ tsPc = "back" /\ (tsSaved # Null => GilFree(0))
    /\ Current(0, tsSaved)
    /\ tsPc' = "endall"
    /\ tsSaved' = Null
    /\ tsW' = IF tsFailed THEN tsW + 1 ELSE TsN + 1
    /\ UNCHANGED <<tsLive, tsRuns, tsWorker, tsStep, tsFailed, tsDetached, tsAt, tsRtAt>>

(* app.run() returns; a failed start has joined the threads that ran.      *)
TsReturns ==
    /\ tsPc = "endall" /\ tsW > TsN
    /\ TsJoined
    /\ tsPc' = "over"
    /\ UNCHANGED <<tsState, tsWorker, tsW, tsStep, tsSaved, tsFailed, tsDetached, tsAt, tsRtAt>>

-----------------------------------------------------------------------------
(* The worker's thread.                                                    *)

(* Mutant: the fresh thread state is not kept.                             *)
BindForgets(w, s) ==
    /\ tsLive' = IF s = Fresh(w) THEN (tsLive \ {Creator(w)}) \cup {s} ELSE tsLive
    /\ UNCHANGED tsTstate

(* rebind_tstate_to_current_thread: s replaces the creator's, which is     *)
(* deleted; when none can be made the creator's stays.                     *)
Rebinds(w, s) ==
    /\ tsLive' = IF s = Fresh(w) THEN (tsLive \ {Creator(w)}) \cup {s} ELSE tsLive
    /\ tsTstate' = [tsTstate EXCEPT ![w] = s]

TsBinds(w) ==
    /\ tsAt[w] = "bind" /\ GilFree(w)
    /\ \E s \in {Fresh(w), Creator(w)} : Rebinds(w, s)
    /\ tsAt' = [tsAt EXCEPT ![w] = "idle"]
    /\ UNCHANGED <<tsCurrent, tsRuns, tsInterp, tsRole, tsBuild, tsRtAt>>

(* with_gil: a request, a collection, the async engine.                    *)
TsCalls(w) ==
    /\ tsAt[w] = "idle" /\ GilFree(w)
    /\ Current(w, tsTstate[w]) /\ Runs(w, w)
    /\ tsAt' = [tsAt EXCEPT ![w] = "call"]
    /\ UNCHANGED <<tsLive, tsWorker, tsBuild, tsRtAt>>

(* It returns or panics: the guard saves the thread state all the same.    *)
TsCallEnds(w) ==
    /\ tsAt[w] = "call"
    /\ tsTstate' = [tsTstate EXCEPT ![w] = tsCurrent[w]]
    /\ Current(w, Null) /\ Runs(w, TsNobody)
    /\ tsAt' = [tsAt EXCEPT ![w] = "idle"]
    /\ UNCHANGED <<tsLive, tsInterp, tsRole, tsBuild, tsRtAt>>

(* end_on_own_thread.                                                      *)
TsEndsOwn(w) ==
    /\ tsAt[w] = "idle"
    /\ EntersToEnd(w, w)
    /\ tsAt' = [tsAt EXCEPT ![w] = "end"]
    /\ UNCHANGED <<tsLive, tsWorker, tsBuild, tsRtAt>>

TsEndedOwn(w) ==
    /\ tsAt[w] = "end"
    /\ ReleasesAndEnds(w, w)
    /\ tsAt' = [tsAt EXCEPT ![w] = "gone"]
    /\ UNCHANGED <<tsTstate, tsBuild, tsRtAt>>

-----------------------------------------------------------------------------
(* A thread of the runtime.                                                *)

(* main_attach: the first one gives the thread a main thread state for its *)
(* life (ThreadMainTstate::ensure).                                        *)
TsRtAttaches ==
    /\ tsRtAt \in {"new", "has"} /\ GilFree(0)
    /\ tsLive' = tsLive \cup {TsRtState}
    /\ Current(TsRt, TsRtState) /\ Runs(TsRt, 0)
    /\ tsRtAt' = "in"
    /\ UNCHANGED <<tsWorker, tsBuild, tsAt>>

TsRtDetaches ==
    /\ tsRtAt = "in"
    /\ Current(TsRt, Null) /\ Runs(TsRt, TsNobody)
    /\ tsRtAt' = "has"
    /\ UNCHANGED <<tsLive, tsWorker, tsBuild, tsAt>>

(* The thread ends: ThreadMainTstate::drop takes the GIL, clears and       *)
(* deletes it.                                                             *)
TsRtEnds ==
    /\ tsRtAt \in {"new", "has"} /\ (tsRtAt = "has" => GilFree(0))
    /\ tsLive' = tsLive \ {TsRtState}
    /\ tsRtAt' = "gone"
    /\ UNCHANGED <<tsCurrent, tsRuns, tsWorker, tsBuild, tsAt>>

-----------------------------------------------------------------------------
TsNext ==
    /\ \/ TsRefused \/ TsCreated \/ TsInitStep \/ TsPrepared \/ TsInitFails \/ TsSwapsBack
       \/ TsDetaches \/ TsSpawns \/ TsSpawnFails \/ TsServed
       \/ TsEndAllNext \/ TsEndAllEnters \/ TsEndAllEnds \/ TsEndAllBack \/ TsReturns
       \/ \E w \in TsWorkers :
            TsBinds(w) \/ TsCalls(w) \/ TsCallEnds(w) \/ TsEndsOwn(w) \/ TsEndedOwn(w)
       \/ TsRtAttaches \/ TsRtDetaches \/ TsRtEnds
    /\ UNCHANGED tsTpc

TsSpec == TsInit /\ [][TsNext]_tsVars

-----------------------------------------------------------------------------
TsStates ==
    {TsMainState, TsRtState, Null} \cup {Creator(w) : w \in TsWorkers}
        \cup {Fresh(w) : w \in TsWorkers}

TsTypes ==
    /\ tsCurrent \in [TsOsThreads -> TsStates]
    /\ tsLive \subseteq TsStates \ {Null}
    /\ tsInterp \in [TsWorkers -> {"none", "init", "live", "ended"}]
    /\ tsTstate \in [TsWorkers -> TsStates]
    /\ tsRole \in [TsWorkers -> {"none", "held", "released"}]
    /\ tsW \in 1 .. TsN + 1 /\ tsStep \in 1 .. TsSteps

TsOneHolder ==
    \A t, u \in TsOsThreads :
        t # u /\ tsCurrent[t] # Null => tsCurrent[t].interp # tsCurrent[u].interp

(* Every variable has its values; an interpreter's GIL has one holder.     *)
TsTypeOK == TsTypes /\ TsOneHolder

(* run_context.rs: no "other interpreter's objects under the wrong GIL".   *)
(* Code that touches an interpreter's objects (init, requests,             *)
(* collections, the release at the end, a main_attach) runs with a live    *)
(* thread state of that interpreter current on its thread.                 *)
TsRightInterpreter ==
    \A t \in TsOsThreads : tsRuns[t] # TsNobody =>
        tsCurrent[t] \in tsLive /\ tsCurrent[t].interp = tsRuns[t]

(* "Switches to the new sub-interpreter and back to main on completion":   *)
(* between two workers, when a step of the start has failed, and after the *)
(* clean-up, the building thread is on the thread state it came with.      *)
TsMainRestored ==
    tsPc \in {"build", "endall", "over"} =>
        tsCurrent[0] = IF tsDetached THEN Null ELSE TsMainState

(* When app.run() returns, whichever step of the start failed: each        *)
(* interpreter that was made is ended, with its references released in it, *)
(* and the only thread states are those of threads that live.  What is     *)
(* left is one worker lost with a pool thread's failed spawn, and the      *)
(* workers whose own thread a pool's join gave up on (pool.rs): each keeps *)
(* its one thread state.  A TPC server leaves nothing.                     *)
TsNoneLeft ==
    LET lost == {w \in TsWorkers : tsAt[w] = "lost"}
        kept == lost \cup {w \in TsWorkers : TsRunning(w)}
    IN tsPc = "over" =>
        /\ Cardinality(lost) <= 1 /\ (tsTpc => kept = {})
        /\ \A w \in TsWorkers \ kept : tsInterp[w] \in {"none", "ended"} /\ tsRole[w] # "held"
        /\ tsLive \subseteq {TsMainState, TsRtState} \cup {tsTstate[w] : w \in kept}
        /\ tsRtAt = "gone" => TsRtState \notin tsLive

(* What each thread is on and touches, by where it is.                     *)
TsHolders ==
    /\ tsPc \in {"build", "endall", "over"} =>
          tsCurrent[0] = (IF tsDetached THEN Null ELSE TsMainState) /\ tsRuns[0] = TsNobody
    /\ tsPc = "init" => tsCurrent[0] = Creator(tsW) /\ tsRuns[0] = tsW
    /\ tsPc = "ending" => tsCurrent[0] = tsTstate[tsW] /\ tsRuns[0] = tsW
    /\ tsPc \in {"swap", "back"} => tsCurrent[0] = Null /\ tsRuns[0] = TsNobody
    /\ \A w \in TsWorkers :
          IF tsAt[w] \in {"call", "end"}
            THEN tsCurrent[w] = tsTstate[w] /\ tsRuns[w] = w
            ELSE tsCurrent[w] = Null /\ tsRuns[w] = TsNobody
    /\ IF tsRtAt = "in" THEN tsCurrent[TsRt] = TsRtState /\ tsRuns[TsRt] = 0
                        ELSE tsCurrent[TsRt] = Null /\ tsRuns[TsRt] = TsNobody
    /\ tsRtAt = "in" => tsCurrent[0] # TsMainState

(* A worker's thread state is the one its interpreter has, and lives as    *)
(* long; the main interpreter's are those of the threads attached to it.   *)
TsOwned ==
    /\ TsMainState \in tsLive
    /\ TsRtState \in tsLive <=> tsRtAt \in {"has", "in"}
    /\ \A w \in TsWorkers :
          /\ tsInterp[w] = "live" <=> tsRole[w] = "held"
          /\ tsInterp[w] = "live" =>
                /\ tsTstate[w] \in {Creator(w), Fresh(w)} /\ tsTstate[w] \in tsLive
                /\ tsAt[w] \in {"off", "bind", "lost"} => tsTstate[w] = Creator(w)
          /\ \A s \in tsLive : s.interp = w =>
                \/ tsInterp[w] = "init" /\ s = Creator(w)
                \/ tsInterp[w] = "live" /\ s = tsTstate[w]
          /\ tsInterp[w] = "init" => tsPc = "init" /\ w = tsW
          /\ tsAt[w] \in {"bind", "idle", "call", "end", "lost"} => tsInterp[w] = "live"
          /\ tsAt[w] = "gone" => tsInterp[w] = "ended"

TsClearing == {"endall", "ending", "back", "over"}

(* How far the building thread is: the workers behind it are built, or,    *)
(* once the start has failed, ended.                                       *)
TsProgress ==
    /\ tsPc \in {"build", "init"} => ~tsFailed
    /\ tsPc \in {"init", "swap"} \/ (tsPc = "build" /\ tsW <= TsN) =>
          ~tsDetached /\ \A w \in TsWorkers : tsAt[w] = "off"
    /\ tsPc \in {"init", "swap", "ending"} => tsW <= TsN
    /\ tsPc = "init" => tsInterp[tsW] = "init" /\ Creator(tsW) \in tsLive
    /\ tsPc \in {"build", "init", "swap"} => \A w \in TsWorkers :
          /\ w < tsW /\ tsAt[w] = "off" => tsInterp[w] = "live"
          /\ w > tsW \/ (w = tsW /\ tsPc = "build") => tsInterp[w] = "none"
    /\ tsPc = "swap" => (tsInterp[tsW] = "live" <=> ~tsFailed)
    /\ tsPc = "ending" => tsFailed /\ tsInterp[tsW] = "live" /\ tsAt[tsW] = "off"
    /\ tsPc \in {"ending", "back"} => tsSaved = IF tsDetached THEN Null ELSE TsMainState
    /\ tsPc \in TsClearing /\ tsFailed => \A w \in TsWorkers :
          (w < tsW \/ (w = tsW /\ tsPc = "back")) /\ tsAt[w] = "off" => tsInterp[w] # "live"
    /\ tsPc = "back" /\ tsFailed => tsW <= TsN
    /\ tsPc \in TsClearing /\ ~tsFailed =>
          tsW = TsN + 1 /\ \A w \in TsWorkers : tsAt[w] # "off" /\ (tsTpc => tsAt[w] = "gone")
    /\ tsPc = "over" =>
          tsW = TsN + 1 /\ (tsTpc => \A w \in TsWorkers : tsAt[w] \in {"off", "gone"})
    /\ \A w \in TsWorkers : tsAt[w] = "lost" =>
          ~tsTpc /\ tsPc \in TsClearing /\ tsFailed /\ \A v \in TsWorkers : tsAt[v] = "lost" => v = w

(* The values of the variables TsTypeOK does not name.                     *)
TsPlaces ==
    /\ tsPc \in {"build", "init", "swap"} \cup TsClearing
    /\ tsRuns \in [TsOsThreads -> TsOsThreads \cup {TsNobody}]
    /\ tsAt \in [TsWorkers -> {"off", "bind", "idle", "call", "end", "gone", "lost"}]
    /\ tsRtAt \in {"new", "has", "in", "gone"}
    /\ tsFailed \in BOOLEAN /\ tsDetached \in BOOLEAN /\ tsTpc \in BOOLEAN
    /\ tsSaved \in {Null, TsMainState}

(* The inductive invariant.                                                *)
TsIInv == TsTypes /\ TsPlaces /\ TsHolders /\ TsOwned /\ TsProgress

(* Thread states through the start and the end of the workers: Python runs *)
(* on the right interpreter, the building thread comes back to main's, and *)
(* nothing is left but what a lost spawn or an abandoned thread keeps.     *)
TsSafe == TsTypeOK /\ TsRightInterpreter /\ TsMainRestored /\ TsNoneLeft
=============================================================================
