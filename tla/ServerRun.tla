------------------------------ MODULE ServerRun ------------------------------
(***************************************************************************)
(* One server run, from Server.serve() to the end of Pyronova.run(): who   *)
(* owns each sub-interpreter, which thread ends it, and what is left       *)
(* running when the run returns.  Two topologies:                          *)
(*                                                                         *)
(*   multi-thread pool (~tpc): run_subinterp builds the pool's workers on  *)
(*   the main thread, hands each to a thread, serves until the stop and    *)
(*   joins the threads with a bound (app.rs, python/pool.rs);              *)
(*                                                                         *)
(*   thread per core (tpc): serve_tpc_workers builds an async pool,        *)
(*   then one worker per TPC thread, then the bridge to the main           *)
(*   interpreter, then spawns and joins the TPC threads (app.rs, tpc.rs,   *)
(*   bridge/main_bridge.rs).                                               *)
(*                                                                         *)
(* Every step of the start can fail.  The starting thread's position is    *)
(* pc; the worker, bridge and watcher threads run beside it.  What the     *)
(* threads serve is in the other modules.                                  *)
(***************************************************************************)
EXTENDS Naturals, FiniteSets

CONSTANTS
    NSync,    \* pool workers that serve `def` handlers
    NAsync,   \* pool workers that run the async engine
    NTpc,     \* TPC threads
    NBridge,  \* bridge threads; 0: no route uses the main interpreter
    Faults    \* the steps that may fail in this instance

ASSUME RunAssumption ==
    /\ NSync \in Nat /\ NAsync \in Nat /\ NTpc \in Nat /\ NBridge \in Nat
    /\ NSync + NAsync > 0 /\ NTpc > 0
    /\ Faults \subseteq {"build", "poolSpawn", "bridge", "watcher", "tpcSpawn", "serve"}

Workers == 0 .. NSync + NAsync + NTpc - 1

VARIABLES
    tpc,        \* thread per core, or the multi-thread pool
    pc,         \* where the starting thread is
    i,          \* the worker or thread its loop is at
    interp,     \* each worker's interpreter: none, built, ended, leaked
    thread,     \* each worker's thread: none, starting, serving, over
    poolOpen,   \* a reference to the pool is alive
    bridge,     \* bridge threads running
    watcher,    \* the stop watcher: none, running, over
    stop,       \* the run's CancellationToken
    blocking,   \* started spawn_blocking work of the multi-thread runtime runs
    abandoned,  \* threads kept for _take_abandoned_workers
    failed      \* the run returns an error

runVars == <<tpc, pc, i, interp, thread, poolOpen, bridge, watcher, stop, blocking,
             abandoned, failed>>

(* The TPC server's pool runs async engines only; its own workers come     *)
(* after the pool's.                                                       *)
NPool       == IF tpc THEN NAsync ELSE NSync + NAsync
PoolWorkers == 0 .. NPool - 1
TpcWorkers  == IF tpc THEN NPool .. NPool + NTpc - 1 ELSE {}

RunInit ==
    /\ tpc \in BOOLEAN
    /\ pc = "serve" /\ i = 0
    /\ interp = [w \in Workers |-> "none"]
    /\ thread = [w \in Workers |-> "none"]
    /\ poolOpen = FALSE /\ bridge = 0 /\ watcher = "none"
    /\ stop = FALSE /\ blocking = FALSE /\ abandoned = {} /\ failed = FALSE

Returned == pc \in {"finalized", "exited"}

(* Goto(p): the loop of step p starts at its first worker.                 *)
Goto(p) == pc' = p /\ i' = IF p \in {"tpcBuild", "tpcSpawn", "joinTpc", "joinUnsent"}
                           THEN NPool ELSE 0

(* Mutant: the clean-up of a failed start also ends workers that were      *)
(* already handed to a thread.                                             *)
EndsHanded(lost) ==
    interp' = [w \in Workers |->
                 IF w \in lost THEN "leaked"
                 ELSE IF interp[w] = "built" THEN "ended" ELSE interp[w]]

(* SubInterpreterWorker::end_all over the workers the starting thread      *)
(* still owns; `lost` are the ones dropped without being ended.            *)
EndAll(lost) ==
    interp' = [w \in Workers |->
                 IF w \in lost THEN "leaked"
                 ELSE IF interp[w] = "built" /\ thread[w] = "none" THEN "ended"
                 ELSE interp[w]]

-----------------------------------------------------------------------------
(* The start.                                                              *)

(* ServerRun::serve: a server stopped before it served returns at once.    *)
Serve ==
    /\ pc = "serve"
    /\ IF stop THEN Goto("returned") ELSE Goto("poolBuild")
    /\ UNCHANGED <<tpc, blocking, interp, thread, poolOpen, bridge, watcher, stop, abandoned, failed>>

(* build_workers of the pool: SubInterpreterWorker::new for each worker,   *)
(* which ends the interpreter it made itself when the script fails in it.  *)
PoolBuild ==
    /\ pc = "poolBuild" /\ i < NPool
    /\ interp' = [interp EXCEPT ![i] = "built"]
    /\ i' = i + 1
    /\ UNCHANGED <<tpc, blocking, pc, thread, poolOpen, bridge, watcher, stop, abandoned, failed>>

PoolBuildFails ==
    /\ pc = "poolBuild" /\ i < NPool /\ "build" \in Faults
    /\ EndAll({})
    /\ failed' = TRUE
    /\ Goto("returned")
    /\ UNCHANGED <<tpc, blocking, thread, poolOpen, bridge, watcher, stop, abandoned>>

PoolBuilt ==
    /\ pc = "poolBuild" /\ i = NPool
    /\ poolOpen' = (NPool > 0)
    /\ Goto("poolSpawn")
    /\ UNCHANGED <<tpc, blocking, interp, thread, bridge, watcher, stop, abandoned, failed>>

(* InterpreterPool::new: each worker moves into its thread's closure.      *)
PoolSpawn ==
    /\ pc = "poolSpawn" /\ i < NPool
    /\ thread' = [thread EXCEPT ![i] = "starting"]
    /\ i' = i + 1
    /\ UNCHANGED <<tpc, blocking, pc, interp, poolOpen, bridge, watcher, stop, abandoned, failed>>

(* The spawn failed: the closure is dropped with worker i in it, the       *)
(* workers after it are ended, the pool closes and stop_started joins the  *)
(* threads that run.                                                       *)
PoolSpawnFails ==
    /\ pc = "poolSpawn" /\ i < NPool /\ "poolSpawn" \in Faults
    /\ EndAll({i})
    /\ poolOpen' = FALSE
    /\ failed' = TRUE
    /\ Goto("stopStarted")
    /\ UNCHANGED <<tpc, blocking, thread, bridge, watcher, stop, abandoned>>

(* stop_started: each thread is joined or, past JOIN_TIMEOUT, only logged. *)
StopStarted ==
    /\ pc = "stopStarted"
    /\ IF i = NPool THEN Goto("returned")
       ELSE i' = i + 1 /\ UNCHANGED pc
    /\ UNCHANGED <<tpc, blocking, interp, thread, poolOpen, bridge, watcher, stop, abandoned, failed>>

PoolSpawned ==
    /\ pc = "poolSpawn" /\ i = NPool
    /\ IF tpc THEN Goto("tpcBuild") ELSE Goto("serving")
    /\ UNCHANGED <<tpc, blocking, interp, thread, poolOpen, bridge, watcher, stop, abandoned, failed>>

(* build_workers of app.rs; when it fails the async pool is closed too.    *)
TpcBuild ==
    /\ pc = "tpcBuild" /\ i < NPool + NTpc
    /\ interp' = [interp EXCEPT ![i] = "built"]
    /\ i' = i + 1
    /\ UNCHANGED <<tpc, blocking, pc, thread, poolOpen, bridge, watcher, stop, abandoned, failed>>

TpcBuildFails ==
    /\ pc = "tpcBuild" /\ i < NPool + NTpc /\ "build" \in Faults
    /\ EndAll({})
    /\ poolOpen' = FALSE
    /\ failed' = TRUE
    /\ Goto("joinPool")
    /\ UNCHANGED <<tpc, blocking, thread, bridge, watcher, stop, abandoned>>

TpcBuilt ==
    /\ pc = "tpcBuild" /\ i = NPool + NTpc
    /\ Goto("bridge")
    /\ UNCHANGED <<tpc, blocking, interp, thread, poolOpen, bridge, watcher, stop, abandoned, failed>>

(* Mutant: the loop starts one thread too many.                            *)
BridgeOneMore ==
    /\ pc = "bridge" /\ bridge <= NBridge
    /\ bridge' = bridge + 1
    /\ UNCHANGED <<tpc, blocking, pc, i, interp, thread, poolOpen, watcher, stop, abandoned, failed>>

(* MainInterpBridge::spawn; a thread that does not start fails it all: the *)
(* ones started are joined (they are idle and the channel is closed), then *)
(* serve_tpc_workers ends the workers and the async pool.                  *)
BridgeSpawn ==
    /\ pc = "bridge" /\ bridge < NBridge
    /\ bridge' = bridge + 1
    /\ UNCHANGED <<tpc, blocking, pc, i, interp, thread, poolOpen, watcher, stop, abandoned, failed>>

BridgeSpawnFails ==
    /\ pc = "bridge" /\ bridge < NBridge /\ "bridge" \in Faults
    /\ bridge' = 0
    /\ EndAll({})
    /\ poolOpen' = FALSE
    /\ failed' = TRUE
    /\ Goto("joinPool")
    /\ UNCHANGED <<tpc, blocking, thread, watcher, stop, abandoned>>

(* run_per_thread_listener: watch_or_end, which ends the workers when the  *)
(* stop watcher's thread does not start.                                   *)
Watch ==
    /\ pc = "bridge" /\ bridge = NBridge
    /\ \/ /\ watcher' = "running"
          /\ Goto("tpcSpawn")
          /\ UNCHANGED <<interp, poolOpen, failed>>
       \/ /\ "watcher" \in Faults
          /\ EndAll({})
          /\ poolOpen' = FALSE
          /\ failed' = TRUE
          /\ Goto("joinPool")
          /\ UNCHANGED watcher
    /\ UNCHANGED <<tpc, blocking, thread, bridge, stop, abandoned>>

(* spawn_worker_threads: the worker goes to its thread only once that      *)
(* thread exists; a spawn that fails stops the threads already running.    *)
TpcSpawn ==
    /\ pc = "tpcSpawn" /\ i < NPool + NTpc
    /\ thread' = [thread EXCEPT ![i] = "starting"]
    /\ i' = i + 1
    /\ UNCHANGED <<tpc, blocking, pc, interp, poolOpen, bridge, watcher, stop, abandoned, failed>>

TpcSpawnFails ==
    /\ pc = "tpcSpawn" /\ i < NPool + NTpc /\ "tpcSpawn" \in Faults
    /\ stop' = TRUE
    /\ failed' = TRUE
    /\ Goto("joinUnsent")
    /\ UNCHANGED <<tpc, blocking, interp, thread, poolOpen, bridge, watcher, abandoned>>

TpcSpawned ==
    /\ pc = "tpcSpawn" /\ i = NPool + NTpc
    /\ Goto("joinTpc")
    /\ UNCHANGED <<tpc, blocking, interp, thread, poolOpen, bridge, watcher, stop, abandoned, failed>>

-----------------------------------------------------------------------------
(* The threads.                                                            *)

(* bind_to_this_thread.                                                    *)
Bind(w) ==
    /\ ~Returned
    /\ thread[w] = "starting"
    /\ thread' = [thread EXCEPT ![w] = "serving"]
    /\ UNCHANGED <<tpc, blocking, pc, i, interp, poolOpen, bridge, watcher, stop, abandoned, failed>>

(* end_on_own_thread.                                                      *)
EndOwn(w) ==
    /\ thread' = [thread EXCEPT ![w] = "over"]
    /\ interp' = [interp EXCEPT ![w] = "ended"]

(* serve_sync and serve_async end once the pool is closed; an async engine *)
(* can also stop by itself.                                                *)
PoolThreadEnds(w) ==
    /\ ~Returned
    /\ thread[w] = "serving"
    /\ ~poolOpen \/ tpc \/ w >= NSync
    /\ EndOwn(w)
    /\ UNCHANGED <<tpc, blocking, pc, i, poolOpen, bridge, watcher, stop, abandoned, failed>>

(* Mutant: a TPC thread that fails does not stop the others.               *)
TpcFailsAlone(w) ==
    /\ thread[w] = "serving"
    /\ \/ stop /\ UNCHANGED failed
       \/ "serve" \in Faults /\ failed' = TRUE
    /\ EndOwn(w)
    /\ UNCHANGED <<tpc, blocking, pc, i, poolOpen, bridge, watcher, stop, abandoned>>

(* A TPC thread drains its connections after the stop and ends its worker; *)
(* one whose runtime or listener fails ends it and stops the server.       *)
TpcThreadEnds(w) ==
    /\ thread[w] = "serving"
    /\ \/ stop /\ UNCHANGED <<stop, failed>>
       \/ "serve" \in Faults /\ stop' = TRUE /\ failed' = TRUE
    /\ EndOwn(w)
    /\ UNCHANGED <<tpc, blocking, pc, i, poolOpen, bridge, watcher, abandoned>>

(* until_stopped on the watcher's thread: SIGINT or a cancelled token.     *)
WatcherEnds ==
    /\ watcher = "running"
    /\ watcher' = "over"
    /\ stop' = TRUE
    /\ UNCHANGED <<tpc, blocking, pc, i, interp, thread, poolOpen, bridge, abandoned, failed>>

(* Server.shutdown(), from any thread.                                     *)
Shutdown ==
    /\ ~Returned /\ ~stop
    /\ stop' = TRUE
    /\ UNCHANGED <<tpc, blocking, pc, i, interp, thread, poolOpen, bridge, watcher, abandoned, failed>>

-----------------------------------------------------------------------------
(* The stop.                                                               *)

(* A gil=True handler, the join of a WebSocket thread or a compression     *)
(* starts on the runtime's blocking pool, and nothing bounds it.           *)
BlockingStarts ==
    /\ pc = "serving" /\ ~blocking
    /\ blocking' = TRUE
    /\ UNCHANGED <<tpc, pc, i, interp, thread, poolOpen, bridge, watcher, stop, abandoned, failed>>

BlockingEnds ==
    /\ blocking
    /\ blocking' = FALSE
    /\ UNCHANGED <<tpc, pc, i, interp, thread, poolOpen, bridge, watcher, stop, abandoned, failed>>

(* The multi-thread server's block_on returns: stopped and drained, or its *)
(* runtime or a listener failed.  Dropping the runtime drops its tasks,    *)
(* and every reference to the pool with them...                            *)
ServeReturns ==
    /\ pc = "serving"
    /\ \/ stop /\ UNCHANGED failed
       \/ "serve" \in Faults /\ failed' = TRUE
    /\ poolOpen' = FALSE
    /\ Goto("dropRuntime")
    /\ UNCHANGED <<tpc, blocking, interp, thread, bridge, watcher, stop, abandoned>>

(* ... and waits, without a bound, for the blocking work that started.     *)
RuntimeDropped ==
    /\ pc = "dropRuntime" /\ ~blocking
    /\ Goto("joinPool")
    /\ UNCHANGED <<tpc, blocking, interp, thread, poolOpen, bridge, watcher, stop, abandoned, failed>>

(* join_all: one TPC thread after the other, without a bound.              *)
JoinTpc ==
    /\ pc \in {"joinTpc", "joinUnsent"} /\ i < NPool + NTpc
    /\ thread[i] \in {"none", "over"}
    /\ i' = i + 1
    /\ UNCHANGED <<tpc, blocking, pc, interp, thread, poolOpen, bridge, watcher, stop, abandoned, failed>>

(* StopWatcher::drop: cancels the token and joins the thread.              *)
DropWatcher == stop' = TRUE /\ watcher' = "over"

(* Every TPC thread joined; after a failed spawn the workers that were     *)
(* never handed over are ended here.  Then the watcher and the async pool. *)
TpcJoined ==
    /\ pc \in {"joinTpc", "joinUnsent"} /\ i = NPool + NTpc
    /\ IF pc = "joinUnsent" THEN EndAll({}) ELSE UNCHANGED interp
    /\ DropWatcher
    /\ poolOpen' = FALSE
    /\ Goto("joinPool")
    /\ UNCHANGED <<tpc, blocking, thread, bridge, abandoned, failed>>

JoinPoolThread ==
    /\ pc = "joinPool" /\ i < NPool
    /\ thread[i] \in {"none", "over"}
    /\ i' = i + 1
    /\ UNCHANGED <<tpc, blocking, pc, interp, thread, poolOpen, bridge, watcher, stop, abandoned, failed>>

(* Mutant: only the workers of a run that failed are kept for the caller.  *)
KeepsOnError(w) == abandoned' = IF failed THEN abandoned \cup {w} ELSE abandoned

(* AppSource::join_pool keeps the thread for _take_abandoned_workers.      *)
Keep(w) == abandoned' = abandoned \cup {w}

(* join_or_abandon after JOIN_TIMEOUT.                                     *)
AbandonPoolThread ==
    /\ pc = "joinPool" /\ i < NPool
    /\ thread[i] \notin {"none", "over"}
    /\ Keep(i)
    /\ i' = i + 1
    /\ UNCHANGED <<tpc, blocking, pc, interp, thread, poolOpen, bridge, watcher, stop, failed>>

(* MainInterpBridge::shutdown_join: the last sender is gone, the threads   *)
(* end after the item each one runs.                                       *)
JoinBridge ==
    /\ pc = "joinPool" /\ i = NPool
    /\ bridge' = 0
    /\ Goto("returned")
    /\ UNCHANGED <<tpc, blocking, interp, thread, poolOpen, watcher, stop, abandoned, failed>>

(* Pyronova.run(): os._exit when a worker was abandoned; otherwise it      *)
(* returns or raises, and the process finalizes Python.                    *)
Return ==
    /\ pc = "returned"
    /\ pc' = IF abandoned = {} THEN "finalized" ELSE "exited"
    /\ UNCHANGED <<tpc, blocking, i, interp, thread, poolOpen, bridge, watcher, stop, abandoned, failed>>

Terminated == Returned /\ UNCHANGED runVars

-----------------------------------------------------------------------------
StartNext ==
    \/ Serve \/ PoolBuild \/ PoolBuildFails \/ PoolBuilt \/ PoolSpawn
    \/ PoolSpawnFails \/ StopStarted \/ PoolSpawned \/ TpcBuild \/ TpcBuildFails
    \/ TpcBuilt \/ BridgeSpawn \/ BridgeSpawnFails \/ Watch \/ TpcSpawn
    \/ TpcSpawnFails \/ TpcSpawned

JoinNext ==
    \/ RuntimeDropped \/ JoinTpc \/ TpcJoined \/ JoinPoolThread
    \/ AbandonPoolThread \/ JoinBridge \/ Return

RunNext ==
    \/ StartNext \/ ServeReturns \/ JoinNext
    \/ BlockingStarts \/ BlockingEnds
    \/ \E w \in Workers : Bind(w)
    \/ \E w \in PoolWorkers : PoolThreadEnds(w)
    \/ \E w \in TpcWorkers : TpcThreadEnds(w)
    \/ WatcherEnds \/ Shutdown
    \/ Terminated

(* The starting thread and the new threads run.  TPC and bridge threads    *)
(* are assumed to come back from their handlers (their joins have no       *)
(* bound); pool threads and the multi-thread runtime's blocking work are   *)
(* not: their handlers may hang.                                           *)
RunFairness ==
    /\ WF_runVars(StartNext) /\ WF_runVars(JoinNext) /\ WF_runVars(stop /\ ServeReturns)
    /\ \A w \in Workers : WF_runVars(Bind(w))
    /\ \A w \in Workers : WF_runVars(stop /\ w \in TpcWorkers /\ TpcThreadEnds(w))

RunSpec == RunInit /\ [][RunNext]_runVars
RunFairSpec == RunSpec /\ RunFairness

-----------------------------------------------------------------------------
(* Every variable has its values; no loop runs past its last worker and    *)
(* no more bridge threads run than were asked for.                         *)
RunTypeOK ==
    /\ tpc \in BOOLEAN
    /\ pc \in {"serve", "poolBuild", "poolSpawn", "stopStarted", "tpcBuild", "bridge",
               "tpcSpawn", "serving", "dropRuntime", "joinTpc", "joinUnsent", "joinPool",
               "returned", "finalized", "exited"}
    /\ i \in 0 .. NPool + NTpc
    /\ interp \in [Workers -> {"none", "built", "ended", "leaked"}]
    /\ thread \in [Workers -> {"none", "starting", "serving", "over"}]
    /\ poolOpen \in BOOLEAN /\ stop \in BOOLEAN /\ failed \in BOOLEAN
    /\ blocking \in BOOLEAN
    /\ bridge \in 0 .. NBridge
    /\ watcher \in {"none", "running", "over"}
    /\ abandoned \in SUBSET PoolWorkers

(* A worker's interpreter is alive for as long as its thread has it: no    *)
(* clean-up of a failed start, and no other thread, ends it under a thread *)
(* that will bind or is running it (worker.rs: the thread state and its    *)
(* references are used by one thread at a time).                           *)
OwnerEnds ==
    \A w \in Workers : thread[w] \in {"starting", "serving"} => interp[w] = "built"

(* What must hold when Python is finalized: every sub-interpreter ended,   *)
(* and no thread of the run left that could touch one.                     *)
Quiet ==
    /\ \A w \in Workers : interp[w] \in {"none", "ended"}
    /\ \A w \in Workers : thread[w] \in {"none", "over"}
    /\ bridge = 0 /\ watcher # "running" /\ ~poolOpen /\ ~blocking

(* Whichever step of the start failed, and whichever thread stopped first, *)
(* Python is finalized only when all is quiet; a pool worker whose thread  *)
(* failed to spawn is the exception (FailedSpawnQuiet).                    *)
FinalizeQuiet ==
    pc = "finalized" /\ (\A w \in Workers : interp[w] # "leaked") => Quiet

(* pool.rs, InterpreterPool::new: "If a spawn fails, the workers not yet   *)
(* handed to a thread are ended here, on the creating thread, and the ones *)
(* already running are stopped (the pool closes) and joined."              *)
FailedSpawnQuiet == pc = "finalized" => Quiet

(* A start that fails or a server that is stopped ends the run, even when  *)
(* pool handlers never return; only a main-interpreter handler or a        *)
(* WebSocket thread that never ends holds the multi-thread server, in the  *)
(* drop of its runtime (app.rs, serve_multi_thread).                       *)
RunEnds == (stop \/ failed) ~> (Returned \/ [](pc = "dropRuntime" /\ blocking))

(* What makes RunSafe inductive: where the starting thread is tells who    *)
(* has each worker.                                                        *)
Untouched(w) == interp[w] = "none" /\ thread[w] = "none"
Owned(w)     == interp[w] = "built" /\ thread[w] = "none"
Handed(w)    == thread[w] # "none"
Down(w)      == thread[w] \in {"none", "over"} /\ interp[w] \in {"none", "ended"}

Leaked == \E w \in Workers : interp[w] = "leaked"

ThreadHas(w) ==
    /\ thread[w] \in {"starting", "serving"} => interp[w] = "built"
    /\ thread[w] = "over" => interp[w] = "ended"

(* Workers below a are with a thread, from a to b with the starting        *)
(* thread, from b on not built.                                            *)
Split(a, b) ==
    \A w \in Workers :
        /\ w < a => Handed(w)
        /\ w >= a /\ w < b => Owned(w)
        /\ w >= b => Untouched(w)

Stage ==
    CASE pc = "serve"       -> Split(0, 0)
      [] pc = "poolBuild"   -> i <= NPool /\ Split(0, i)
      [] pc = "poolSpawn"   -> i <= NPool /\ Split(i, NPool)
      [] pc = "stopStarted" -> i <= NPool /\ Leaked
      [] pc \in {"serving", "dropRuntime"} -> ~tpc /\ Split(NPool, NPool)
      [] pc = "tpcBuild"    -> tpc /\ i >= NPool /\ Split(NPool, i)
      [] pc = "bridge"      -> tpc /\ Split(NPool, NPool + NTpc)
      [] pc = "tpcSpawn"    -> tpc /\ i >= NPool /\ Split(i, NPool + NTpc)
      [] pc = "joinTpc"     ->
            /\ tpc /\ i >= NPool
            /\ Split(NPool + NTpc, NPool + NTpc)
            /\ \A w \in Workers : w >= NPool /\ w < i => Down(w)
      [] pc = "joinUnsent"  ->
            /\ tpc /\ i >= NPool
            /\ \A w \in Workers :
                /\ w < NPool => Handed(w)
                /\ w >= NPool /\ w < NPool + NTpc => Owned(w) \/ Handed(w)
                /\ w >= NPool /\ w < i => Owned(w) \/ Down(w)
                /\ w >= NPool + NTpc => Untouched(w)
      [] pc = "joinPool"    ->
            /\ i <= NPool
            /\ \A w \in Workers :
                /\ w < NPool => Handed(w)
                /\ w < i \/ w >= NPool => Down(w) \/ w \in abandoned
      [] OTHER              -> Leaked \/ \A w \in Workers : Down(w) \/ w \in abandoned

(* ... and which of the other threads of the run there are.                *)
Helpers ==
    /\ pc \in {"serve", "poolBuild", "stopStarted", "dropRuntime", "joinPool", "returned",
               "finalized", "exited"} => ~poolOpen
    /\ pc \notin {"serving", "dropRuntime"} => ~blocking
    /\ pc \notin {"bridge", "tpcSpawn", "joinTpc", "joinUnsent", "joinPool"} => bridge = 0
    /\ pc \notin {"tpcSpawn", "joinTpc", "joinUnsent"} => watcher # "running"
    /\ pc = "finalized" => abandoned = {}

RunIInv == (\A w \in Workers : ThreadHas(w)) /\ Stage /\ Helpers

(* What every state of a run keeps: only the owner of an interpreter ends  *)
(* it, and Python is finalized only when all is quiet.                     *)
RunSafe == RunTypeOK /\ OwnerEnds /\ FinalizeQuiet
=============================================================================
