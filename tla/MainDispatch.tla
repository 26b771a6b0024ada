---------------------------- MODULE MainDispatch ----------------------------
(***************************************************************************)
(* How a request reaches a handler without the sub-interpreter pool.       *)
(*   mode "tpc" (src/handlers/tpc.rs): a def route runs inline, on the TPC *)
(*   thread; a gil=True route goes through the bounded queue of the main-  *)
(*   interpreter bridge (src/bridge/main_bridge.rs) to its threads.        *)
(*   mode "pool" (src/handlers/gil.rs): it runs on a thread of Tokio's     *)
(*   blocking pool, whose queue has no bound.                              *)
(* The caller waits for the reply within REQUEST_BUDGET, which for a       *)
(* streamed body starts when its feeder ends (src/handlers/pipeline.rs).   *)
(* A handler on the main interpreter may run for ever, with the GIL or     *)
(* without it.                                                             *)
(*                                                                         *)
(* Every bridge thread holds a receiver and outlives the TPC thread, so    *)
(* TryDispatchError::Closed and a reply dropped unsent do not occur; that  *)
(* they cannot is MdBridgeSurvives.                                        *)
(***************************************************************************)
EXTENDS Naturals, Sequences, FiniteSets

CONSTANTS
    MdBridged,        \* requests of gil=True routes, in mode "tpc"
    MdInline,         \* requests of def routes, in mode "tpc"
    MdBlocking,       \* requests in mode "pool"
    MdStreamed,       \* those whose route is stream=True
    MdBridgeThreads,  \* BridgeConfig::workers
    MdPoolThreads,    \* threads of the blocking pool
    MdCapacity,       \* BridgeConfig::capacity
    MdRunner,         \* the thread in app.run()
    MdNone            \* nobody

MdRequests == MdBridged \cup MdInline \cup MdBlocking
MdThreads == MdBridgeThreads \cup MdPoolThreads
MdOnTpc == MdBridged \cup MdInline

ASSUME MdAssumption ==
    /\ MdCapacity \in Nat \ {0}
    /\ MdStreamed \subseteq MdBridged \cup MdBlocking
    /\ MdNone \notin MdRequests \cup MdThreads
    /\ MdRunner \notin MdThreads

VARIABLES
    mdMode,     \* "tpc" or "pool"
    mdStatus,   \* the request as its caller sees it (RequestService)
    mdPhase,    \* "none", "body", "wait": for the reply
    mdFeeder,   \* its feeder: "none", "on", "done", "aborted"
    mdBudget,   \* the reply's: "off", "on", "over"
    mdReply,    \* whether the oneshot holds a reply
    mdStarted,  \* how often call_handler_with_hooks or serve was called
    mdQueue,    \* the bridge's channel, or the blocking pool's queue
    mdThread,   \* "idle", "attach", "hold" the GIL, "io" without, "exited"
    mdJob,      \* the request it serves
    mdLoop,     \* the threads that own an asyncio event loop
    mdGil,      \* who holds the main interpreter's GIL
    mdGilQueue, \* GIL_QUEUE_LENGTH
    mdTpc,      \* the request whose inline handler blocks the TPC thread
    mdStop      \* "serving", "stopping", "closing": joining the bridge, "joined"

mdCaller == <<mdStatus, mdPhase, mdFeeder, mdBudget>>
mdWork == <<mdThread, mdJob, mdLoop, mdGil, mdGilQueue>>
mdVars == <<mdMode, mdCaller, mdReply, mdStarted, mdQueue, mdWork, mdTpc, mdStop>>

MdInit ==
    /\ mdMode \in {"tpc", "pool"}
    /\ mdStatus = [r \in MdRequests |-> "new"]
    /\ mdPhase = [r \in MdRequests |-> "none"]
    /\ mdFeeder = [r \in MdRequests |-> "none"]
    /\ mdBudget = [r \in MdRequests |-> "off"]
    /\ mdReply = [r \in MdRequests |-> FALSE]
    /\ mdStarted = [r \in MdRequests |-> 0]
    /\ mdQueue = <<>>
    /\ mdThread = [t \in MdThreads |-> "idle"]
    /\ mdJob = [t \in MdThreads |-> MdNone]
    /\ mdLoop = {}
    /\ mdGil = MdNone
    /\ mdGilQueue = 0
    /\ mdTpc = MdNone
    /\ mdStop = "serving"

-----------------------------------------------------------------------------
(* The caller's side.  A task of the TPC thread runs only between two      *)
(* inline handlers.                                                        *)

MdTaskRuns(r) ==
    /\ mdStop \in {"serving", "stopping"}
    /\ IF r \in MdOnTpc THEN mdMode = "tpc" /\ mdTpc = MdNone ELSE mdMode = "pool"

MdBecomes(r, status, phase) ==
    /\ mdStatus' = [mdStatus EXCEPT ![r] = status]
    /\ mdPhase' = [mdPhase EXCEPT ![r] = phase]

(* Mutant: one request past the capacity is queued.                        *)
RoomForOneMore == mdMode = "pool" \/ Len(mdQueue) <= MdCapacity

(* try_dispatch: a full channel refuses, and the feeder is stopped.        *)
MdQueueHasRoom == mdMode = "pool" \/ Len(mdQueue) < MdCapacity

MdDispatch(r) ==
    IF MdQueueHasRoom
    THEN /\ mdQueue' = Append(mdQueue, r)
         /\ MdBecomes(r, "open", "wait")
         /\ mdFeeder' = [mdFeeder EXCEPT ![r] = IF r \in MdStreamed THEN "on" ELSE "none"]
         /\ mdBudget' = [mdBudget EXCEPT ![r] = IF r \in MdStreamed THEN "off" ELSE "on"]
    ELSE /\ MdBecomes(r, "overloaded", "none")
         /\ mdFeeder' = [mdFeeder EXCEPT ![r] = IF r \in MdStreamed THEN "aborted" ELSE "none"]
         /\ UNCHANGED <<mdQueue, mdBudget>>

(* A streamed request is dispatched as its feeder is spawned; another      *)
(* first collects its body.                                                *)
MdArrives(r) ==
    /\ MdTaskRuns(r) /\ mdStatus[r] = "new" /\ mdStop = "serving"
    /\ IF r \in MdStreamed THEN MdDispatch(r)
       ELSE MdBecomes(r, "open", "body") /\ UNCHANGED <<mdFeeder, mdBudget, mdQueue>>
    /\ UNCHANGED <<mdMode, mdReply, mdStarted, mdWork, mdTpc, mdStop>>

MdBodyIn(r) ==
    /\ MdTaskRuns(r) /\ mdPhase[r] = "body" /\ r \notin MdInline
    /\ MdDispatch(r)
    /\ UNCHANGED <<mdMode, mdReply, mdStarted, mdWork, mdTpc, mdStop>>

(* collect_body: too large, unreadable, or not in within the budget.       *)
MdBodyRejected(r) ==
    /\ MdTaskRuns(r) /\ mdPhase[r] = "body"
    /\ MdBecomes(r, "rejected", "none")
    /\ UNCHANGED <<mdMode, mdFeeder, mdBudget, mdReply, mdStarted, mdQueue, mdWork, mdTpc,
                   mdStop>>

(* call_inline: the handler runs on the TPC thread.                        *)
MdInlineStarts(r) ==
    /\ MdTaskRuns(r) /\ mdPhase[r] = "body" /\ r \in MdInline
    /\ mdPhase' = [mdPhase EXCEPT ![r] = "wait"]
    /\ mdBudget' = [mdBudget EXCEPT ![r] = "on"]
    /\ mdStarted' = [mdStarted EXCEPT ![r] = @ + 1]
    /\ mdTpc' = r
    /\ UNCHANGED <<mdMode, mdStatus, mdFeeder, mdReply, mdQueue, mdWork, mdStop>>

(* It returns: past the budget its result is not sent.                     *)
MdInlineEnds(r) ==
    /\ mdTpc = r
    /\ MdBecomes(r, IF mdBudget[r] = "over" THEN "timeout" ELSE "result", "none")
    /\ mdTpc' = MdNone
    /\ UNCHANGED <<mdMode, mdFeeder, mdBudget, mdReply, mdStarted, mdQueue, mdWork, mdStop>>

(* Mutant: the budget of a streamed reply is never started.                *)
FeederStartsNothing(r) ==
    /\ mdFeeder[r] = "on" /\ MdTaskRuns(r)
    /\ mdFeeder' = [mdFeeder EXCEPT ![r] = "done"]
    /\ UNCHANGED <<mdMode, mdStatus, mdPhase, mdBudget, mdReply, mdStarted, mdQueue, mdWork,
                   mdTpc, mdStop>>

(* The feeder ends, with the body or at its own deadline; the reply's      *)
(* budget starts now.                                                      *)
MdFeederEnds(r) ==
    /\ mdFeeder[r] = "on" /\ MdTaskRuns(r)
    /\ mdFeeder' = [mdFeeder EXCEPT ![r] = "done"]
    /\ mdBudget' = [mdBudget EXCEPT ![r] = IF mdPhase[r] = "wait" THEN "on" ELSE @]
    /\ UNCHANGED <<mdMode, mdStatus, mdPhase, mdReply, mdStarted, mdQueue, mdWork, mdTpc,
                   mdStop>>

(* The budget passes while an inline handler runs.                         *)
MdBudgetPasses(r) ==
    /\ mdBudget[r] = "on" /\ mdTpc = r
    /\ mdBudget' = [mdBudget EXCEPT ![r] = "over"]
    /\ UNCHANGED <<mdMode, mdStatus, mdPhase, mdFeeder, mdReply, mdStarted, mdQueue, mdWork,
                   mdTpc, mdStop>>

MdAwaits(r) == MdTaskRuns(r) /\ mdPhase[r] = "wait" /\ r \notin MdInline

(* await_reply: a reply that is there is taken, even past the budget; else *)
(* the budget may pass, and 504 goes out.                                  *)
MdReceives(r) ==
    /\ MdAwaits(r) /\ mdReply[r]
    /\ MdBecomes(r, "result", "none")
    /\ UNCHANGED <<mdMode, mdFeeder, mdBudget, mdReply, mdStarted, mdQueue, mdWork, mdTpc,
                   mdStop>>

MdGivesUp(r) ==
    /\ MdAwaits(r) /\ ~mdReply[r] /\ mdBudget[r] = "on"
    /\ MdBecomes(r, "timeout", "none")
    /\ UNCHANGED <<mdMode, mdFeeder, mdBudget, mdReply, mdStarted, mdQueue, mdWork, mdTpc,
                   mdStop>>

(* The client disconnects: hyper drops the handler's future.               *)
MdGone(r) ==
    /\ MdTaskRuns(r) /\ mdStatus[r] = "open"
    /\ MdBecomes(r, "gone", "none")
    /\ UNCHANGED <<mdMode, mdFeeder, mdBudget, mdReply, mdStarted, mdQueue, mdWork, mdTpc,
                   mdStop>>

-----------------------------------------------------------------------------
(* The threads that run main-interpreter handlers.                         *)

MdServes(t) == t \in (IF mdMode = "tpc" THEN MdBridgeThreads ELSE MdPoolThreads)

(* Mutant: a request whose caller gave up is run all the same.             *)
RunsForNobody(r) == TRUE

(* dispatch_one: not run when its reply channel is closed.  A blocking     *)
(* task is not asked: it runs though its JoinHandle is gone.               *)
MdWanted(r) == mdMode = "tpc" => mdStatus[r] = "open"

(* call_handler_with_hooks begins: the thread queues for the GIL.          *)
MdTakes(t) ==
    /\ MdServes(t) /\ mdThread[t] = "idle" /\ mdQueue # <<>>
    /\ mdQueue' = Tail(mdQueue)
    /\ LET r == Head(mdQueue)
       IN IF MdWanted(r)
          THEN /\ mdThread' = [mdThread EXCEPT ![t] = "attach"]
               /\ mdJob' = [mdJob EXCEPT ![t] = r]
               /\ mdGilQueue' = mdGilQueue + 1
               /\ mdStarted' = [mdStarted EXCEPT ![r] = @ + 1]
          ELSE UNCHANGED <<mdThread, mdJob, mdGilQueue, mdStarted>>
    /\ UNCHANGED <<mdMode, mdCaller, mdReply, mdLoop, mdGil, mdTpc, mdStop>>

MdAttaches(t) ==
    /\ mdThread[t] = "attach" /\ mdGil = MdNone
    /\ mdThread' = [mdThread EXCEPT ![t] = "hold"]
    /\ mdGil' = t
    /\ mdGilQueue' = mdGilQueue - 1
    /\ UNCHANGED <<mdMode, mdCaller, mdReply, mdStarted, mdQueue, mdJob, mdLoop, mdTpc, mdStop>>

(* ThreadLoop: the first awaitable on the thread makes its loop.           *)
MdMakesLoop(t) ==
    /\ mdThread[t] = "hold" /\ t \notin mdLoop
    /\ mdLoop' = mdLoop \cup {t}
    /\ UNCHANGED <<mdMode, mdCaller, mdReply, mdStarted, mdQueue, mdThread, mdJob, mdGil,
                   mdGilQueue, mdTpc, mdStop>>

(* The handler blocks in a call that lets the GIL go, and takes it back.   *)
MdLetsGo(t) ==
    /\ mdThread[t] = "hold"
    /\ mdThread' = [mdThread EXCEPT ![t] = "io"]
    /\ mdGil' = MdNone
    /\ UNCHANGED <<mdMode, mdCaller, mdReply, mdStarted, mdQueue, mdJob, mdLoop, mdGilQueue,
                   mdTpc, mdStop>>

MdTakesBack(t) ==
    /\ mdThread[t] = "io" /\ mdGil = MdNone
    /\ mdThread' = [mdThread EXCEPT ![t] = "hold"]
    /\ mdGil' = t
    /\ UNCHANGED <<mdMode, mdCaller, mdReply, mdStarted, mdQueue, mdJob, mdLoop, mdGilQueue,
                   mdTpc, mdStop>>

(* The handler returns or raises: the reply is sent, into a closed channel *)
(* when the caller left.                                                   *)
MdHandlerEnds(t) ==
    /\ mdThread[t] = "hold"
    /\ mdThread' = [mdThread EXCEPT ![t] = "idle"]
    /\ mdJob' = [mdJob EXCEPT ![t] = MdNone]
    /\ mdGil' = MdNone
    /\ mdReply' = [mdReply EXCEPT ![mdJob[t]] = mdStatus[mdJob[t]] = "open"]
    /\ UNCHANGED <<mdMode, mdCaller, mdStarted, mdQueue, mdLoop, mdGilQueue, mdTpc, mdStop>>

(* Mutant: a panic in the handler unwinds the thread.                      *)
PanicUnwinds(t) ==
    /\ mdThread[t] = "hold"
    /\ mdThread' = [mdThread EXCEPT ![t] = "exited"]
    /\ mdJob' = [mdJob EXCEPT ![t] = MdNone]
    /\ mdGil' = MdNone
    /\ UNCHANGED <<mdMode, mdCaller, mdReply, mdStarted, mdQueue, mdLoop, mdGilQueue, mdTpc,
                   mdStop>>

(* A panic is caught (catch_panic): the thread answers it and lives on.    *)
MdHandlerPanics(t) == MdHandlerEnds(t)

-----------------------------------------------------------------------------
(* The stop (app.rs, run_tpc): no request is accepted any more; once the   *)
(* TPC thread has ended, with its connections and its reference to the     *)
(* bridge, shutdown_join is called with the GIL released.                  *)

MdStopping ==
    /\ mdMode = "tpc" /\ mdStop = "serving"
    /\ mdStop' = "stopping"
    /\ UNCHANGED <<mdMode, mdCaller, mdReply, mdStarted, mdQueue, mdWork, mdTpc>>

MdTpcEnded ==
    /\ mdStop = "stopping" /\ \A r \in MdOnTpc : mdStatus[r] # "open"
    /\ mdFeeder' = [r \in MdRequests |-> IF mdFeeder[r] = "on" THEN "aborted" ELSE mdFeeder[r]]
    /\ mdStop' = "closing"

(* Mutant: the bridge is joined with the GIL held.                         *)
ClosesAttached ==
    /\ MdTpcEnded /\ mdGil = MdNone
    /\ mdGil' = MdRunner
    /\ UNCHANGED <<mdMode, mdStatus, mdPhase, mdBudget, mdReply, mdStarted, mdQueue, mdThread,
                   mdJob, mdLoop, mdGilQueue, mdTpc>>

MdCloses ==
    /\ MdTpcEnded
    /\ UNCHANGED <<mdMode, mdStatus, mdPhase, mdBudget, mdReply, mdStarted, mdQueue, mdWork,
                   mdTpc>>

(* serve: every sender is gone and the channel is empty: the thread        *)
(* attaches once more, closes its loop and drops the site.                 *)
MdExits(t) ==
    /\ t \in MdBridgeThreads /\ mdThread[t] = "idle"
    /\ mdStop = "closing" /\ mdQueue = <<>> /\ mdGil = MdNone
    /\ mdThread' = [mdThread EXCEPT ![t] = "exited"]
    /\ mdLoop' = mdLoop \ {t}
    /\ UNCHANGED <<mdMode, mdCaller, mdReply, mdStarted, mdQueue, mdJob, mdGil, mdGilQueue,
                   mdTpc, mdStop>>

(* Mutant: only the first thread that exits is waited for.                 *)
JoinsOne ==
    /\ mdStop = "closing" /\ \E t \in MdBridgeThreads : mdThread[t] = "exited"
    /\ mdStop' = "joined"
    /\ UNCHANGED <<mdMode, mdCaller, mdReply, mdStarted, mdQueue, mdWork, mdTpc>>

MdJoined ==
    /\ mdStop = "closing" /\ \A t \in MdBridgeThreads : mdThread[t] = "exited"
    /\ mdStop' = "joined"
    /\ UNCHANGED <<mdMode, mdCaller, mdReply, mdStarted, mdQueue, mdWork, mdTpc>>

-----------------------------------------------------------------------------
MdCallerStep(r) ==
    \/ MdBodyIn(r) \/ MdBodyRejected(r) \/ MdInlineStarts(r)
    \/ MdReceives(r) \/ MdGivesUp(r)

MdThreadStep(t) == MdTakes(t) \/ MdAttaches(t) \/ MdExits(t)

MdNext ==
    \/ \E r \in MdRequests :
        \/ MdArrives(r) \/ MdCallerStep(r) \/ MdInlineEnds(r)
        \/ MdFeederEnds(r) \/ MdBudgetPasses(r) \/ MdGone(r)
    \/ \E t \in MdThreads :
        \/ MdThreadStep(t) \/ MdMakesLoop(t) \/ MdLetsGo(t) \/ MdTakesBack(t)
        \/ MdHandlerEnds(t) \/ MdHandlerPanics(t)
    \/ MdStopping \/ MdCloses \/ MdJoined

(* Tasks are polled, timers fire, a feeder ends by its deadline, and a     *)
(* thread that is not in a handler runs.  An inline handler returns: one   *)
(* that does not stops its TPC thread, its 504s included.  No fairness for *)
(* a handler on the main interpreter.                                      *)
MdFairness ==
    /\ \A r \in MdRequests :
        /\ WF_mdVars(MdCallerStep(r)) /\ WF_mdVars(MdInlineEnds(r))
        /\ WF_mdVars(MdFeederEnds(r))
    /\ \A t \in MdThreads : SF_mdVars(MdThreadStep(t))
    /\ WF_mdVars(MdCloses) /\ WF_mdVars(MdJoined)

MdSpec == MdInit /\ [][MdNext]_mdVars /\ MdFairness

-----------------------------------------------------------------------------
(* Every variable has its values, the GIL one holder, and the waiting      *)
(* threads are the ones GIL_QUEUE_LENGTH counts.                           *)
MdTypeOK ==
    /\ mdStatus \in [MdRequests -> {"new", "open", "overloaded", "rejected", "result",
                                    "timeout", "gone"}]
    /\ mdFeeder \in [MdRequests -> {"none", "on", "done", "aborted"}]
    /\ mdBudget \in [MdRequests -> {"off", "on", "over"}]
    /\ mdThread \in [MdThreads -> {"idle", "attach", "hold", "io", "exited"}]
    /\ mdMode = "tpc" => Len(mdQueue) <= MdCapacity
    /\ {t \in MdThreads : mdThread[t] = "hold"} = {mdGil} \ {MdNone, MdRunner}
    /\ mdGilQueue = Cardinality({t \in MdThreads : mdThread[t] = "attach"})

MdSeen == [r \in MdOnTpc |-> mdStatus[r]]
MdBegun == [r \in MdOnTpc |-> mdStarted[r]]

Service == INSTANCE RequestService WITH
    Requests <- MdOnTpc, status <- MdSeen, started <- MdBegun

(* A TPC thread gives the HTTP layer what the pool does (RequestService):  *)
(* one answer, one start of the handler, and none of a request that was    *)
(* refused or whose caller had left when its turn came.                    *)
MdImplements == Service!Spec

(* A thread of the bridge dies with the server only: a panic in a handler  *)
(* costs its request, not the thread, so a gil=True route keeps the        *)
(* capacity BridgeConfig gave it, and no request is lost.                  *)
MdBridgeSurvives ==
    mdStop \in {"serving", "stopping"} => \A t \in MdBridgeThreads : mdThread[t] # "exited"

(* "a server run returns only after every thread has released its Py<T>s": *)
(* when shutdown_join returned, no bridge thread holds an event loop or    *)
(* runs a handler.                                                         *)
MdReleased ==
    mdStop = "joined" =>
        /\ mdLoop \cap MdBridgeThreads = {}
        /\ \A t \in MdBridgeThreads : mdJob[t] = MdNone

(* What makes MdSafe inductive: a thread without a handler has no request, *)
(* one that exited no loop, and the bridge is joined when all exited.      *)
MdThreadsTidy ==
    /\ mdJob \in [MdThreads -> MdRequests \cup {MdNone}]
    /\ \A t \in MdThreads : mdJob[t] = MdNone <=> mdThread[t] \in {"idle", "exited"}
    /\ \A t \in MdThreads : mdThread[t] = "exited" => t \notin mdLoop
    /\ mdStop = "joined" => \A t \in MdBridgeThreads : mdThread[t] = "exited"
    /\ IsFiniteSet({t \in MdThreads : mdThread[t] = "attach"})

(* What the refinement rests on: a queued request was not started and is   *)
(* queued once; a request is started once, after its body is in and before *)
(* its reply; the one that blocks the TPC thread is open.                  *)
MdQueuedOnce ==
    /\ mdQueue \in Seq(MdRequests)
    /\ \A n \in DOMAIN mdQueue :
          LET r == mdQueue[n] IN
          /\ mdStatus[r] # "new" /\ mdPhase[r] # "body" /\ mdStarted[r] = 0
          /\ r \in MdOnTpc <=> mdMode = "tpc"
          /\ \A m \in DOMAIN mdQueue : mdQueue[m] = r => m = n

MdLedger ==
    /\ mdPhase \in [MdRequests -> {"none", "body", "wait"}]
    /\ mdReply \in [MdRequests -> BOOLEAN]
    /\ mdStarted \in [MdRequests -> {0, 1}]
    /\ \A r \in MdRequests :
          /\ mdPhase[r] # "none" => mdStatus[r] = "open"
          /\ mdStatus[r] = "new" \/ mdPhase[r] = "body" => mdStarted[r] = 0
          /\ mdReply[r] => mdStarted[r] = 1
    /\ \A t \in MdThreads : mdJob[t] # MdNone => mdStarted[mdJob[t]] = 1

MdInlineOpen ==
    mdTpc # MdNone => /\ mdTpc \in MdOnTpc /\ mdMode = "tpc"
                      /\ mdStatus[mdTpc] = "open" /\ mdStarted[mdTpc] = 1

MdIInv == MdThreadsTidy /\ MdQueuedOnce /\ MdLedger /\ MdInlineOpen

(* Every request is answered, though handlers before it hang and hold      *)
(* every thread of the bridge or of the blocking pool, or the GIL.         *)
MdAnswered == \A r \in MdRequests : (mdStatus[r] = "open") ~> (mdStatus[r] # "open")

(* The bridge is joined, unless a handler that had begun never ends.       *)
MdStops ==
    []<>(\A t \in MdBridgeThreads : mdThread[t] \notin {"hold", "io"})
        => ((mdStop = "stopping") ~> (mdStop = "joined"))

(* What every state keeps: the bridge's threads survive their handlers,    *)
(* and a joined bridge holds nothing of Python any more.                   *)
MdSafe == MdTypeOK /\ MdBridgeSurvives /\ MdReleased

(* Nothing waits for ever for the main interpreter: requests are answered, *)
(* and a stop joins the bridge.                                            *)
MdEnds == MdAnswered /\ MdStops
=============================================================================
