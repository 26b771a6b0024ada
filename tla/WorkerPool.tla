----------------------------- MODULE WorkerPool -----------------------------
(***************************************************************************)
(* The sub-interpreter pool of the multi-thread server: the hyper service  *)
(* futures that admit, buffer and submit requests (handlers/subinterp.rs,  *)
(* handlers/pipeline.rs), the bounded work queues and the worker threads   *)
(* (python/pool.rs), the asyncio engine of the async workers               *)
(* (python/worker_api.rs, _async_engine.py), and the server's stop: drain, *)
(* drop of the runtime, bounded join of the threads, and what the process  *)
(* does then (app.rs, app.py).                                             *)
(*                                                                         *)
(* A request is one caller (its service future).  The caller holds the     *)
(* receiving half of the reply channel; the sending half travels with the  *)
(* WorkRequest through a queue to a worker.  Either half can disappear     *)
(* first: that race is what most properties below are about.               *)
(***************************************************************************)
EXTENDS Naturals, Sequences, FiniteSets, Functions

CONSTANTS
    Requests,     \* every request of a behaviour
    Kind,         \* Requests -> {"sync", "async"}: `def` or `async def` route
    NSync,        \* workers that serve `def` handlers: threads 0..NSync-1
    NAsync,       \* workers that run the async engine: the next NAsync threads
    QueueSlots,   \* slots of each work queue (n * QUEUE_SLOTS_PER_WORKER)
    Idle          \* `running` of a worker that runs no handler

ASSUME PoolAssumption ==
    /\ IsFiniteSet(Requests)
    /\ Kind \in [Requests -> {"sync", "async"}]
    /\ NSync \in Nat /\ NAsync \in Nat
    /\ QueueSlots \in Nat \ {0}
    /\ Idle \notin Requests

(* split_workers gives every kind that has a pooled route a worker of its  *)
(* own (module ServerPlan).                                                *)
ASSUME KindServed ==
    \A r \in Requests : IF Kind[r] = "async" THEN NAsync > 0 ELSE NSync > 0

SyncWorkers  == 0 .. NSync - 1
AsyncWorkers == NSync .. NSync + NAsync - 1
Workers      == SyncWorkers \cup AsyncWorkers
Queues       == {"sync", "async"}

(* How a caller's wait can end: the handler's answer; "lost", an error in  *)
(* its place (the answer channel dropped, an AsyncJob dropped unanswered,  *)
(* a Request that could not be built); a 503 (overloaded, closed), a 4xx   *)
(* for its body, a 504, or the caller itself gone (its connection closed   *)
(* or its task dropped with the runtime).                                  *)
Outcomes == {"result", "lost", "overloaded", "closed", "rejected",
             "timeout", "gone"}

VARIABLES
    server,     \* the server's run: serving, draining, dropping, joining, ...
    caller,     \* each request's service future
    large,      \* the body buffered so far is past ADMISSION_SKIP_BYTES
    permit,     \* the caller holds an admission permit
    free,       \* permits left in submit_semaphore
    queue,      \* the two work queues
    cur,        \* the request each sync worker runs, or Idle
    phase,      \* each worker thread's life
    fetcher,    \* each async engine's fetcher thread
    tasks,      \* the jobs each async engine holds
    reply,      \* each request's answer channel
    runs,       \* history: how often a request was handed to its handler
    completed,  \* inc_completed calls per request
    next,       \* index of the thread the stop joins next
    abandoned   \* threads the stop gave up on

callerVars == <<caller, large, permit, free>>
workVars   == <<queue, cur, tasks, reply, runs, completed>>
threadVars == <<phase, fetcher>>
serverVars == <<server, next, abandoned>>
vars == <<callerVars, workVars, threadVars, serverVars>>

-----------------------------------------------------------------------------
(* InterpreterPool::new: twice the permits once there are async workers.   *)
TotalPermits == QueueSlots * (IF NAsync > 0 THEN 2 ELSE 1)

Init ==
    /\ server = "serving"
    /\ caller = [r \in Requests |-> "new"]
    /\ large = [r \in Requests |-> FALSE]
    /\ permit = [r \in Requests |-> FALSE]
    /\ free = TotalPermits
    /\ queue = [k \in Queues |-> <<>>]
    /\ cur = [w \in SyncWorkers |-> Idle]
    /\ phase = [w \in Workers |-> "serving"]
    /\ fetcher = [a \in AsyncWorkers |-> "running"]
    /\ tasks = [a \in AsyncWorkers |-> {}]
    /\ reply = [r \in Requests |-> "none"]
    /\ runs = [r \in Requests |-> 0]
    /\ completed = [r \in Requests |-> 0]
    /\ next = 0
    /\ abandoned = {}

(* The process still runs: neither finalizing nor gone through os._exit.   *)
Alive == server \notin {"finalized", "exited"}

(* The Tokio runtime still polls the callers.                              *)
Polled == server \in {"serving", "draining"}

(* Mutant: a worker that never looks whether the caller still waits.       *)
NeverClosed(r) == FALSE

(* response_tx.is_closed(): the caller no longer waits for the answer.     *)
IsClosed(r) == caller[r] # "waiting"

(* The workers that hold a receiver of a queue.  A sync worker's receiver  *)
(* and an async worker's inbox both live until its interpreter has ended.  *)
Receivers(k) ==
    {w \in IF k = "async" THEN AsyncWorkers ELSE SyncWorkers : phase[w] # "ended"}

-----------------------------------------------------------------------------
(* Callers: run_on_pool.                                                   *)

(* Mutant: a way out of run_on_pool that leaks the permit.                 *)
KeepsPermit(r, o) ==
    /\ caller' = [caller EXCEPT ![r] = o]
    /\ UNCHANGED <<permit, free>>

(* The caller's future ends with outcome o; its permit, if any, is dropped *)
(* with it.                                                                *)
EndCaller(r, o) ==
    /\ caller' = [caller EXCEPT ![r] = o]
    /\ permit' = [permit EXCEPT ![r] = FALSE]
    /\ free' = IF permit[r] THEN free + 1 ELSE free

(* A request reaches the pool: with no large Content-Length, or with one:  *)
(* then it takes its permit before a byte is read or is refused at once.   *)
(* A connection reading a request's head when the stop came still serves   *)
(* it.                                                                     *)
Arrive(r) ==
    /\ Polled
    /\ caller[r] = "new"
    /\ \/ /\ caller' = [caller EXCEPT ![r] = "collecting"]
          /\ UNCHANGED <<permit, free>>
       \/ /\ free = 0
          /\ EndCaller(r, "overloaded")
       \/ /\ free > 0
          /\ caller' = [caller EXCEPT ![r] = "collecting"]
          /\ permit' = [permit EXCEPT ![r] = TRUE]
          /\ free' = free - 1
    /\ UNCHANGED <<large, workVars, threadVars, serverVars>>

(* Mutant: only Content-Length is looked at, the collector never re-checks *)
GateSkipped(r) ==
    /\ large' = [large EXCEPT ![r] = TRUE]
    /\ UNCHANGED <<caller, permit, free>>

(* Mutant: the collector takes a permit without looking for a free one.    *)
GateUnchecked(r) ==
    /\ large' = [large EXCEPT ![r] = TRUE]
    /\ permit' = [permit EXCEPT ![r] = TRUE]
    /\ free' = IF permit[r] THEN free ELSE free - 1
    /\ UNCHANGED caller

(* The gate Admission::admit runs after each frame: past the skip size     *)
(* with no permit, one is taken now or the request is refused.             *)
Admit(r) ==
    IF permit[r]
    THEN large' = [large EXCEPT ![r] = TRUE] /\ UNCHANGED <<caller, permit, free>>
    ELSE IF free = 0
    THEN EndCaller(r, "overloaded") /\ UNCHANGED large
    ELSE /\ large' = [large EXCEPT ![r] = TRUE]
         /\ permit' = [permit EXCEPT ![r] = TRUE]
         /\ free' = free - 1
         /\ UNCHANGED caller

(* The frame that takes the buffered body past ADMISSION_SKIP_BYTES.       *)
BodyGrows(r) ==
    /\ Polled
    /\ caller[r] = "collecting"
    /\ ~large[r]
    /\ Admit(r)
    /\ UNCHANGED <<workVars, threadVars, serverVars>>

(* The body is too large (413), failed to arrive (400), or did not arrive  *)
(* within REQUEST_BUDGET (408).                                            *)
BodyRejected(r) ==
    /\ Polled
    /\ caller[r] = "collecting"
    /\ EndCaller(r, "rejected")
    /\ UNCHANGED <<large, workVars, threadVars, serverVars>>

QueueOf(r) == IF Kind[r] = "async" /\ NAsync > 0 THEN "async" ELSE "sync"

(* The body is in: InterpreterPool::submit, which never waits.             *)
Submit(r) ==
    LET k == QueueOf(r) IN
    /\ Polled
    /\ caller[r] = "collecting"
    /\ \/ /\ Receivers(k) = {}
          /\ EndCaller(r, "closed")
          /\ UNCHANGED <<queue, reply>>
       \/ /\ Receivers(k) # {}
          /\ Len(queue[k]) = QueueSlots
          /\ EndCaller(r, "overloaded")
          /\ UNCHANGED <<queue, reply>>
       \/ /\ Receivers(k) # {}
          /\ Len(queue[k]) < QueueSlots
          /\ caller' = [caller EXCEPT ![r] = "waiting"]
          /\ queue' = [queue EXCEPT ![k] = Append(@, r)]
          /\ reply' = [reply EXCEPT ![r] = "pending"]
          /\ UNCHANGED <<permit, free>>
    /\ UNCHANGED <<large, cur, tasks, runs, completed, threadVars, serverVars>>

(* await_reply: the answer, or the channel's end without one.              *)
TakeReply(r) ==
    /\ Polled
    /\ caller[r] = "waiting"
    /\ reply[r] \in {"result", "lost"}
    /\ EndCaller(r, reply[r])
    /\ UNCHANGED <<large, workVars, threadVars, serverVars>>

(* Mutant: the reply is awaited with no budget.                            *)
NoTimeout(r) == FALSE /\ UNCHANGED vars

(* await_reply: REQUEST_BUDGET passed with no answer.  tokio's timeout     *)
(* polls the reply first, so an answer that is there wins.                 *)
Timeout(r) ==
    /\ Polled
    /\ caller[r] = "waiting"
    /\ reply[r] = "pending"
    /\ EndCaller(r, "timeout")
    /\ UNCHANGED <<large, workVars, threadVars, serverVars>>

(* The client closed its connection: hyper drops the service future.       *)
Disconnect(r) ==
    /\ Polled
    /\ caller[r] \in {"collecting", "waiting"}
    /\ EndCaller(r, "gone")
    /\ UNCHANGED <<large, workVars, threadVars, serverVars>>

-----------------------------------------------------------------------------
(* Worker side of the answer channel and the queues.                       *)

(* Mutant: a path that forgets to answer.                                  *)
SendsNothing(r, v) == UNCHANGED reply

(* reply.send: lost if the caller gave up meanwhile.                       *)
Send(r, v) == reply' = [reply EXCEPT ![r] = IF IsClosed(r) THEN @ ELSE v]

(* Mutant: a job counted by its answer and again by its drop.              *)
CountsTwice(r) == completed' = [completed EXCEPT ![r] = @ + 2]

CountCompleted(r) == completed' = [completed EXCEPT ![r] = @ + 1]

(* Mutant: the queue outlives its last receiver.                           *)
ForgetsQueue(k) == UNCHANGED <<queue, reply>>

(* The last receiver of queue k is dropped: crossbeam discards what is     *)
(* queued, which drops the senders of those requests' answers.             *)
DiscardQueue(k) ==
    /\ queue' = [queue EXCEPT ![k] = <<>>]
    /\ reply' = [r \in Requests |->
                    IF r \in Range(queue[k]) /\ ~IsClosed(r) THEN "lost" ELSE reply[r]]

-----------------------------------------------------------------------------
(* Sync workers: serve_sync.                                               *)

(* The next request off the queue: skipped when its caller gave up,        *)
(* otherwise handed to the handler.                                        *)
SyncTake(w) ==
    LET r == Head(queue["sync"]) IN
    /\ Alive
    /\ phase[w] = "serving"
    /\ cur[w] = Idle
    /\ queue["sync"] # <<>>
    /\ queue' = [queue EXCEPT !["sync"] = Tail(@)]
    /\ IF IsClosed(r)
       THEN CountCompleted(r) /\ UNCHANGED <<cur, runs>>
       ELSE /\ cur' = [cur EXCEPT ![w] = r]
            /\ runs' = [runs EXCEPT ![r] = @ + 1]
            /\ UNCHANGED completed
    /\ UNCHANGED <<tasks, reply, callerVars, threadVars, serverVars>>

(* The handler returned, raised or panicked (caught): answered, counted.   *)
SyncFinish(w) ==
    /\ Alive
    /\ phase[w] = "serving"
    /\ cur[w] # Idle
    /\ Send(cur[w], "result")
    /\ CountCompleted(cur[w])
    /\ cur' = [cur EXCEPT ![w] = Idle]
    /\ UNCHANGED <<queue, tasks, runs, callerVars, threadVars, serverVars>>

(* The pool's senders are gone: every reference to it was dropped.         *)
PoolClosed == server \notin {"serving", "draining", "dropping"}

(* The channel is empty and closed: the worker ends its interpreter.       *)
SyncEnd(w) ==
    /\ Alive
    /\ phase[w] = "serving"
    /\ cur[w] = Idle
    /\ queue["sync"] = <<>>
    /\ PoolClosed
    /\ phase' = [phase EXCEPT ![w] = "ending"]
    /\ UNCHANGED <<fetcher, callerVars, workVars, serverVars>>

-----------------------------------------------------------------------------
(* Async workers: the fetcher thread and the engine's event loop.          *)

(* next_live: a request whose caller still waits becomes a job of the      *)
(* engine, its coroutine scheduled on the loop.  The select between the    *)
(* queue and the stop signal is random, so a closed inbox may still yield  *)
(* a queued request.                                                       *)
Fetch(a) ==
    LET r == Head(queue["async"]) IN
    /\ Alive
    /\ fetcher[a] = "running"
    /\ queue["async"] # <<>>
    /\ queue' = [queue EXCEPT !["async"] = Tail(@)]
    /\ \/ /\ IsClosed(r)
          /\ CountCompleted(r)
          /\ UNCHANGED <<tasks, runs>>
       \/ /\ ~IsClosed(r)
          /\ phase[a] \in {"serving", "stopping"}
          /\ tasks' = [tasks EXCEPT ![a] = @ \cup {r}]
          /\ runs' = [runs EXCEPT ![r] = @ + 1]
          /\ UNCHANGED completed
    /\ UNCHANGED <<cur, reply, callerVars, threadVars, serverVars>>

(* A live request fetched while asyncio.run closes its loop: its task runs *)
(* to its end in what is left of the loop, or is destroyed unfinished, and *)
(* the job answers itself.  On a closed loop scheduling it raises, which   *)
(* ends the fetcher.                                                       *)
FetchLate(a) ==
    LET r == Head(queue["async"]) IN
    /\ Alive
    /\ fetcher[a] = "running"
    /\ queue["async"] # <<>>
    /\ ~IsClosed(r)
    /\ queue' = [queue EXCEPT !["async"] = Tail(@)]
    /\ \/ /\ phase[a] = "closing"
          /\ Send(r, "result")
          /\ runs' = [runs EXCEPT ![r] = @ + 1]
          /\ UNCHANGED fetcher
       \/ /\ phase[a] \in {"closing", "ending"}
          /\ Send(r, "lost")
          /\ fetcher' = IF phase[a] = "ending" THEN [fetcher EXCEPT ![a] = "done"]
                                               ELSE fetcher
          /\ UNCHANGED runs
    /\ CountCompleted(r)
    /\ UNCHANGED <<cur, tasks, phase, callerVars, serverVars>>

InboxClosed(a) == phase[a] # "serving"

(* _worker_recv returns None.                                              *)
FetcherStops(a) ==
    /\ Alive
    /\ fetcher[a] = "running"
    /\ InboxClosed(a) \/ (PoolClosed /\ queue["async"] = <<>>)
    /\ fetcher' = [fetcher EXCEPT ![a] = "done"]
    /\ UNCHANGED <<phase, callerVars, workVars, serverVars>>

(* Mutant: the request a failing fetcher had taken is dropped unanswered.  *)
FailsSilently(a) ==
    /\ Alive
    /\ fetcher[a] = "running"
    /\ queue["async"] # <<>>
    /\ ~IsClosed(Head(queue["async"]))
    /\ queue' = [queue EXCEPT !["async"] = Tail(@)]
    /\ CountCompleted(Head(queue["async"]))
    /\ fetcher' = [fetcher EXCEPT ![a] = "done"]
    /\ UNCHANGED <<reply, cur, tasks, runs, phase, callerVars, serverVars>>

(* _worker_recv raises: the request it had taken is answered, the fetcher  *)
(* ends.                                                                   *)
FetcherFails(a) ==
    LET r == Head(queue["async"]) IN
    /\ Alive
    /\ fetcher[a] = "running"
    /\ queue["async"] # <<>>
    /\ ~IsClosed(r)
    /\ queue' = [queue EXCEPT !["async"] = Tail(@)]
    /\ Send(r, "lost")
    /\ CountCompleted(r)
    /\ fetcher' = [fetcher EXCEPT ![a] = "done"]
    /\ UNCHANGED <<cur, tasks, runs, phase, callerVars, serverVars>>

(* _process_request ends: a result, an exception, or the task's own        *)
(* timeout.                                                                *)
TaskDone(a, r) ==
    /\ Alive
    /\ phase[a] \in {"serving", "stopping", "closing"}
    /\ r \in tasks[a]
    /\ tasks' = [tasks EXCEPT ![a] = @ \ {r}]
    /\ Send(r, "result")
    /\ CountCompleted(r)
    /\ UNCHANGED <<queue, cur, runs, callerVars, threadVars, serverVars>>

(* The engine's coroutine leaves `await to_thread(t.join)`: the fetcher    *)
(* ended, or the coroutine was cancelled from the loop.  Its finally block *)
(* closes the inbox and cancels the pending tasks.                         *)
EngineStops(a) ==
    /\ Alive
    /\ phase[a] = "serving"
    /\ phase' = [phase EXCEPT ![a] = "stopping"]
    /\ UNCHANGED <<fetcher, callerVars, workVars, serverVars>>

(* A cancelled task ends: its job is dropped and answers itself.           *)
TaskCancelled(a, r) ==
    /\ Alive
    /\ phase[a] \in {"stopping", "closing"}
    /\ r \in tasks[a]
    /\ tasks' = [tasks EXCEPT ![a] = @ \ {r}]
    /\ Send(r, "lost")
    /\ CountCompleted(r)
    /\ UNCHANGED <<queue, cur, runs, callerVars, threadVars, serverVars>>

(* asyncio.wait returned, every task done or TASK_TIMEOUT passed; the main *)
(* coroutine ends and asyncio.run closes its runner.                       *)
EngineWaited(a) ==
    /\ Alive
    /\ phase[a] = "stopping"
    /\ phase' = [phase EXCEPT ![a] = "closing"]
    /\ UNCHANGED <<fetcher, callerVars, workVars, serverVars>>

(* The runner of asyncio.run cancels what is left and gathers it with no   *)
(* timeout before it closes the loop.                                      *)
EngineCloses(a) ==
    /\ Alive
    /\ phase[a] = "closing"
    /\ tasks[a] = {}
    /\ phase' = [phase EXCEPT ![a] = "ending"]
    /\ UNCHANGED <<fetcher, callerVars, workVars, serverVars>>

(* end_on_own_thread: Py_EndInterpreter, which waits for the interpreter's *)
(* threads (the fetcher), and then the worker's receiver is dropped.       *)
WorkerEnded(w) ==
    LET k == IF w \in AsyncWorkers THEN "async" ELSE "sync" IN
    /\ Alive
    /\ phase[w] = "ending"
    /\ w \in AsyncWorkers => fetcher[w] = "done"
    /\ phase' = [phase EXCEPT ![w] = "ended"]
    /\ IF Receivers(k) = {w} THEN DiscardQueue(k) ELSE UNCHANGED <<queue, reply>>
    /\ UNCHANGED <<fetcher, cur, tasks, runs, completed, callerVars, serverVars>>

-----------------------------------------------------------------------------
(* The server's stop: run_subinterp, serve_multi_thread, PoolThreads::join *)
(* and Pyronova.run.                                                       *)

(* SIGINT or Server.shutdown().                                            *)
Stop ==
    /\ server = "serving"
    /\ server' = "draining"
    /\ UNCHANGED <<next, abandoned, callerVars, workVars, threadVars>>

(* Every connection drained, or MULTI_THREAD_DRAIN_TIMEOUT passed: the     *)
(* runtime is dropped with whatever is still in flight.                    *)
EndDrain ==
    /\ server = "draining"
    /\ server' = "dropping"
    /\ UNCHANGED <<next, abandoned, callerVars, workVars, threadVars>>

(* Dropping the runtime drops each task left, and the pool reference in it *)
DropCaller(r) ==
    /\ server = "dropping"
    /\ caller[r] \in {"collecting", "waiting"}
    /\ EndCaller(r, "gone")
    /\ UNCHANGED <<large, workVars, threadVars, serverVars>>

(* The last reference to the pool is gone: the join starts.                *)
ClosePool ==
    /\ server = "dropping"
    /\ \A r \in Requests : caller[r] \notin {"collecting", "waiting"}
    /\ server' = "joining"
    /\ UNCHANGED <<next, abandoned, callerVars, workVars, threadVars>>

(* join_or_abandon, one thread after the other: joined once finished...    *)
JoinThread ==
    /\ server = "joining"
    /\ next < NSync + NAsync
    /\ phase[next] = "ended"
    /\ next' = next + 1
    /\ UNCHANGED <<server, abandoned, callerVars, workVars, threadVars>>

(* Mutant: a thread given up on is not reported.                           *)
ForgetsThread(w) == UNCHANGED abandoned

Abandon(w) == abandoned' = abandoned \cup {w}

(* Mutant: a join with no timeout.                                         *)
WaitsForever == FALSE /\ UNCHANGED vars

(* ... or abandoned when still running after JOIN_TIMEOUT.                 *)
AbandonThread ==
    /\ server = "joining"
    /\ next < NSync + NAsync
    /\ phase[next] # "ended"
    /\ Abandon(next)
    /\ next' = next + 1
    /\ UNCHANGED <<server, callerVars, workVars, threadVars>>

(* run(): os._exit when a worker was abandoned, else return; the process   *)
(* then finalizes Python.                                                  *)
Exit ==
    /\ server = "joining"
    /\ next = NSync + NAsync
    /\ server' = IF abandoned = {} THEN "finalized" ELSE "exited"
    /\ UNCHANGED <<next, abandoned, callerVars, workVars, threadVars>>

Terminated == ~Alive /\ UNCHANGED vars

-----------------------------------------------------------------------------
CallerNext(r) ==
    \/ Arrive(r) \/ BodyGrows(r) \/ BodyRejected(r) \/ Submit(r)
    \/ TakeReply(r) \/ Timeout(r) \/ Disconnect(r) \/ DropCaller(r)

SyncNext(w) == SyncTake(w) \/ SyncFinish(w) \/ SyncEnd(w)

AsyncNext(a) ==
    \/ Fetch(a) \/ FetchLate(a) \/ FetcherStops(a) \/ FetcherFails(a)
    \/ EngineStops(a) \/ EngineWaited(a) \/ EngineCloses(a)
    \/ \E r \in Requests : TaskDone(a, r) \/ TaskCancelled(a, r)

ServerNext ==
    Stop \/ EndDrain \/ ClosePool \/ JoinThread \/ AbandonThread \/ Exit

Next ==
    \/ \E r \in Requests : CallerNext(r)
    \/ \E w \in SyncWorkers : SyncNext(w)
    \/ \E a \in AsyncWorkers : AsyncNext(a)
    \/ \E w \in Workers : WorkerEnded(w)
    \/ ServerNext
    \/ Terminated

(* Timers fire, the runtime polls ready futures, the stopping thread and   *)
(* the engine's own coroutine run.  Nothing is assumed of handlers: a      *)
(* handler may hang and a task may ignore its cancellation.                *)
Fairness ==
    /\ \A r \in Requests :
        /\ WF_vars(BodyRejected(r) \/ Submit(r))
        /\ WF_vars(TakeReply(r) \/ Timeout(r))
        /\ WF_vars(DropCaller(r))
    /\ \A w \in SyncWorkers : WF_vars(SyncTake(w)) /\ WF_vars(SyncEnd(w))
    /\ \A a \in AsyncWorkers :
        /\ WF_vars(Fetch(a) \/ FetchLate(a))
        /\ WF_vars(FetcherStops(a))
        /\ WF_vars(fetcher[a] = "done" /\ EngineStops(a))
        /\ WF_vars(EngineWaited(a))
        /\ WF_vars(EngineCloses(a))
    /\ WF_vars(EndDrain \/ ClosePool \/ JoinThread \/ AbandonThread \/ Exit)

Spec == Init /\ [][Next]_vars
FairSpec == Spec /\ Fairness

-----------------------------------------------------------------------------
(* Correctness.                                                            *)

(* Every variable has its values; the semaphore never goes below zero and  *)
(* the join never runs past the last thread.                               *)
TypeOK ==
    /\ server \in {"serving", "draining", "dropping", "joining", "finalized", "exited"}
    /\ caller \in [Requests -> {"new", "collecting", "waiting"} \cup Outcomes]
    /\ large \in [Requests -> BOOLEAN]
    /\ permit \in [Requests -> BOOLEAN]
    /\ free \in Nat
    /\ queue \in [Queues -> Seq(Requests)]
    /\ cur \in [SyncWorkers -> Requests \cup {Idle}]
    /\ phase \in [Workers -> {"serving", "stopping", "closing", "ending", "ended"}]
    /\ fetcher \in [AsyncWorkers -> {"running", "done"}]
    /\ tasks \in [AsyncWorkers -> SUBSET Requests]
    /\ reply \in [Requests -> {"none", "pending", "result", "lost"}]
    /\ runs \in [Requests -> Nat]
    /\ completed \in [Requests -> Nat]
    /\ next \in 0 .. NSync + NAsync
    /\ abandoned \in SUBSET Workers

Live(r) == caller[r] \in {"collecting", "waiting"}

Queued(r, k) == r \in Range(queue[k])

(* Where a WorkRequest can be.                                             *)
Held(r) ==
    \/ \E k \in Queues : Queued(r, k)
    \/ \E w \in SyncWorkers : cur[w] = r
    \/ \E a \in AsyncWorkers : r \in tasks[a]

(* Admission permits are neither leaked nor minted: what the semaphore     *)
(* lacks is held by callers still being served, whichever of the ten ways  *)
(* their future ends (run_on_pool's returns, a dropped future, the         *)
(* runtime's drop).                                                        *)
PermitsBalance ==
    /\ \A r \in Requests : permit[r] => Live(r)
    /\ free + Cardinality({r \in Requests : permit[r]}) = TotalPermits

(* What the gate guarantees: every large body of a caller still being      *)
(* served was admitted, declared or not.                                   *)
LargeBodyAdmitted ==
    \A r \in Requests : large[r] /\ Live(r) => permit[r]

(* No caller waits on a request nobody has: as long as its answer is       *)
(* pending, the WorkRequest is with a worker that will answer it or in a   *)
(* queue some worker still receives from, through engine failures, late    *)
(* fetches and the last receiver's discard.                                *)
NoOrphan ==
    \A r \in Requests :
        caller[r] = "waiting" /\ reply[r] = "pending" =>
            \/ \E k \in Queues : Queued(r, k) /\ Receivers(k) # {}
            \/ \E w \in SyncWorkers : cur[w] = r /\ phase[w] = "serving"
            \/ \E a \in AsyncWorkers :
                    r \in tasks[a] /\ phase[a] \in {"serving", "stopping", "closing"}

(* inc_completed runs at most once for a request, and only once its        *)
(* WorkRequest is no longer anywhere.                                      *)
CompletedOnce ==
    \A r \in Requests : completed[r] <= (IF Held(r) THEN 0 ELSE 1)

(* Python is finalized only when no worker's interpreter is alive          *)
(* (finalizing with one aborts the process).                               *)
FinalizeSafe == server = "finalized" => \A w \in Workers : phase[w] = "ended"

(* The parts that make NoOrphan, FinalizeSafe and LargeBodyAdmitted        *)
(* inductive (WorkerPoolProofs).                                           *)
PendingHeld ==
    \A r \in Requests : caller[r] = "waiting" /\ reply[r] = "pending" => Held(r)

QueueServed == \A k \in Queues : queue[k] # <<>> => Receivers(k) # {}

HandsServing ==
    /\ \A w \in SyncWorkers : cur[w] # Idle => phase[w] = "serving"
    /\ \A a \in AsyncWorkers :
        tasks[a] # {} => phase[a] \in {"serving", "stopping", "closing"}

JoinedOrAbandoned ==
    /\ \A w \in Workers : w < next => phase[w] = "ended" \/ w \in abandoned
    /\ server = "finalized" => next = NSync + NAsync /\ abandoned = {}

NewUntouched == \A r \in Requests : caller[r] = "new" => ~large[r] /\ ~permit[r]

(* The parts that make CompletedOnce and ServicePromise inductive: a       *)
(* WorkRequest is in one place.  A queue holds it once, untouched, and     *)
(* only the queue of its kind; one worker of that kind has it once it has  *)
(* started.                                                                *)
QueuedOnce ==
    \A k \in Queues : \A i \in DOMAIN queue[k] :
        LET r == queue[k][i] IN
        /\ QueueOf(r) = k /\ reply[r] = "pending" /\ runs[r] = 0 /\ completed[r] = 0
        /\ \A j \in DOMAIN queue[k] : queue[k][j] = r => j = i

InHand(r, k) ==
    QueueOf(r) = k /\ reply[r] = "pending" /\ runs[r] = 1 /\ completed[r] = 0

HeldOnce ==
    /\ \A w \in SyncWorkers : cur[w] # Idle =>
            InHand(cur[w], "sync") /\ \A v \in SyncWorkers : cur[v] = cur[w] => v = w
    /\ \A a \in AsyncWorkers : \A r \in tasks[a] :
            InHand(r, "async") /\ \A b \in AsyncWorkers : r \in tasks[b] => b = a

(* What a request's answer channel says of its history.                    *)
Ledger ==
    \A r \in Requests :
        /\ completed[r] \in {0, 1}
        /\ caller[r] \in {"new", "collecting"} => reply[r] = "none"
        /\ reply[r] = "none" => runs[r] = 0 /\ completed[r] = 0
        /\ reply[r] = "result" => runs[r] = 1

IInv ==
    /\ PendingHeld /\ QueueServed /\ HandsServing
    /\ JoinedOrAbandoned /\ NewUntouched /\ LargeBodyAdmitted
    /\ QueuedOnce /\ HeldOnce /\ Ledger

(* The service promise: see module RequestService.                         *)
Status == [r \in Requests |-> IF Live(r) THEN "open" ELSE caller[r]]

Service == INSTANCE RequestService WITH status <- Status, started <- runs
ServicePromise == Service!Spec

(* Every caller is answered (or gone) even if its handler hangs, its       *)
(* engine dies or the server stops.                                        *)
CallersAnswered == \A r \in Requests : Live(r) ~> ~Live(r)

(* A stop ends: the process finalizes or exits, whatever handlers do.      *)
StopEnds == server = "draining" ~> ~Alive

(* pool.rs: "At most as many large bodies buffered as the channels in use  *)
(* have slots."  Bodies are buffered by callers that still read or wait    *)
(* and in WorkRequests nobody waits for any more.                          *)
LargeBodiesBounded ==
    Cardinality({r \in Requests : large[r] /\ (Live(r) \/ Held(r))}) <= TotalPermits

(* What the pool keeps in every state, besides what has a theorem of its   *)
(* own: each large body of a live caller was admitted (Admission::admit),  *)
(* and inc_completed counts a request at most once and only when it is     *)
(* nowhere any more.                                                       *)
PoolSafe == TypeOK /\ LargeBodyAdmitted /\ CompletedOnce

(* Nothing waits for ever: callers are answered, and a stop ends.          *)
PoolLive == CallersAnswered /\ StopEnds
=============================================================================
