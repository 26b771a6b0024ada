-------------------------- MODULE WorkerPoolProofs --------------------------
(***************************************************************************)
(* Proofs about WorkerPool for every set of requests, every split of       *)
(* workers and every queue size.                                           *)
(***************************************************************************)
EXTENDS WorkerPool, FiniteSetTheorems, TLAPS

(* The effects of the helpers an action is built from, on the types.       *)
LEMMA EndCallerType ==
    ASSUME TypeOK, NEW r \in Requests, NEW o \in Outcomes, EndCaller(r, o)
    PROVE  /\ caller' \in [Requests -> {"new", "collecting", "waiting"} \cup Outcomes]
           /\ permit' \in [Requests -> BOOLEAN]
           /\ free' \in Nat
BY DEF TypeOK, EndCaller

(* Sending an answer, or losing it, keeps the answer channels' type.       *)
LEMMA SendType ==
    ASSUME TypeOK, NEW r \in Requests, NEW v \in {"result", "lost"}, Send(r, v)
    PROVE  reply' \in [Requests -> {"none", "pending", "result", "lost"}]
BY DEF TypeOK, Send

(* inc_completed keeps the counters' type.                                 *)
LEMMA CountType ==
    ASSUME TypeOK, NEW r \in Requests, CountCompleted(r)
    PROVE  completed' \in [Requests -> Nat]
BY DEF TypeOK, CountCompleted

(* Handing a request to its handler keeps the history's type.              *)
LEMMA RunType ==
    ASSUME TypeOK, NEW r \in Requests, runs' = [runs EXCEPT ![r] = @ + 1]
    PROVE  runs' \in [Requests -> Nat]
BY DEF TypeOK

(* Taking a queue's head keeps the queues' type, and the head is a request.*)
LEMMA PopType ==
    ASSUME TypeOK, NEW k \in Queues, queue[k] # <<>>
    PROVE  /\ Head(queue[k]) \in Requests
           /\ [queue EXCEPT ![k] = Tail(@)] \in [Queues -> Seq(Requests)]
BY DEF TypeOK

(* The semaphore starts with at least one permit.                          *)
LEMMA PermitsType == TotalPermits \in Nat \ {0}
BY PoolAssumption DEF TotalPermits

(* The pool as InterpreterPool::new leaves it is well typed.               *)
LEMMA InitType == Init => TypeOK
BY PoolAssumption, PermitsType DEF Init, TypeOK, Outcomes, Queues, Workers

(* A caller's step keeps the types.                                        *)
LEMMA CallerType ==
    ASSUME TypeOK, NEW r \in Requests, CallerNext(r)
    PROVE  TypeOK'
<1> USE DEF callerVars, workVars, threadVars, serverVars
<1>1. CASE Arrive(r)
  <2>1. /\ caller' \in [Requests -> {"new", "collecting", "waiting"} \cup Outcomes]
        /\ permit' \in [Requests -> BOOLEAN]
        /\ free' \in Nat
    <3>1. CASE EndCaller(r, "overloaded")
      BY <3>1, EndCallerType DEF Outcomes
    <3>2. CASE caller' = [caller EXCEPT ![r] = "collecting"] /\ UNCHANGED <<permit, free>>
      BY <3>2 DEF TypeOK
    <3>3. CASE /\ caller' = [caller EXCEPT ![r] = "collecting"]
               /\ permit' = [permit EXCEPT ![r] = TRUE]
               /\ free > 0 /\ free' = free - 1
      BY <3>3 DEF TypeOK
    <3> QED BY <1>1, <3>1, <3>2, <3>3 DEF Arrive
  <2> QED BY <1>1, <2>1 DEF TypeOK, Arrive
<1>2. CASE BodyGrows(r)
  <2>1. CASE permit[r]
    BY <1>2, <2>1 DEF TypeOK, BodyGrows, Admit
  <2>2. CASE ~permit[r] /\ free = 0
    BY <1>2, <2>2, EndCallerType DEF TypeOK, BodyGrows, Admit, Outcomes
  <2>3. CASE ~permit[r] /\ free # 0
    <3>1. /\ large' = [large EXCEPT ![r] = TRUE]
          /\ permit' = [permit EXCEPT ![r] = TRUE]
          /\ free' = free - 1
          /\ UNCHANGED <<caller, workVars, threadVars, serverVars>>
      BY <1>2, <2>3 DEF BodyGrows, Admit
    <3>2. free' \in Nat
      BY <2>3, <3>1 DEF TypeOK
    <3> QED BY <3>1, <3>2 DEF TypeOK
  <2> QED BY <2>1, <2>2, <2>3
<1>3. CASE BodyRejected(r)
  BY <1>3, EndCallerType DEF TypeOK, BodyRejected, Outcomes
<1>4. CASE Submit(r)
  <2> DEFINE k == QueueOf(r)
  <2>0. k \in Queues BY DEF QueueOf, Queues
  <2>1. CASE EndCaller(r, "closed") /\ UNCHANGED <<queue, reply>>
    BY <1>4, <2>1, EndCallerType DEF TypeOK, Submit, Outcomes
  <2>2. CASE EndCaller(r, "overloaded") /\ UNCHANGED <<queue, reply>>
    BY <1>4, <2>2, EndCallerType DEF TypeOK, Submit, Outcomes
  <2>3. CASE /\ caller' = [caller EXCEPT ![r] = "waiting"]
             /\ queue' = [queue EXCEPT ![k] = Append(@, r)]
             /\ reply' = [reply EXCEPT ![r] = "pending"]
             /\ UNCHANGED <<permit, free>>
    BY <1>4, <2>0, <2>3 DEF TypeOK, Submit
  <2> QED BY <1>4, <2>1, <2>2, <2>3 DEF Submit
<1>5. CASE TakeReply(r)
  BY <1>5, EndCallerType DEF TypeOK, TakeReply, Outcomes
<1>6. CASE Timeout(r)
  BY <1>6, EndCallerType DEF TypeOK, Timeout, Outcomes
<1>7. CASE Disconnect(r)
  BY <1>7, EndCallerType DEF TypeOK, Disconnect, Outcomes
<1>8. CASE DropCaller(r)
  BY <1>8, EndCallerType DEF TypeOK, DropCaller, Outcomes
<1> QED BY <1>1, <1>2, <1>3, <1>4, <1>5, <1>6, <1>7, <1>8 DEF CallerNext

(* A sync worker's step keeps the types.                                   *)
LEMMA SyncType ==
    ASSUME TypeOK, NEW w \in SyncWorkers, SyncNext(w)
    PROVE  TypeOK'
<1> USE DEF callerVars, workVars, threadVars, serverVars
<1>1. CASE SyncTake(w)
  <2> DEFINE r == Head(queue["sync"])
  <2>1. /\ r \in Requests
        /\ queue' \in [Queues -> Seq(Requests)]
    BY <1>1, PopType DEF SyncTake, Queues
  <2>2. \/ CountCompleted(r) /\ UNCHANGED <<cur, runs>>
        \/ /\ cur' = [cur EXCEPT ![w] = r]
           /\ runs' = [runs EXCEPT ![r] = @ + 1]
           /\ UNCHANGED completed
    BY <1>1 DEF SyncTake
  <2> HIDE DEF r
  <2>3. CASE CountCompleted(r) /\ UNCHANGED <<cur, runs>>
    BY <1>1, <2>1, <2>3, CountType DEF SyncTake, TypeOK
  <2>4. CASE /\ cur' = [cur EXCEPT ![w] = r]
             /\ runs' = [runs EXCEPT ![r] = @ + 1]
             /\ UNCHANGED completed
    <3>1. cur' \in [SyncWorkers -> Requests \cup {Idle}]
      BY <2>1, <2>4 DEF TypeOK
    <3> QED BY <1>1, <2>1, <2>4, <3>1, RunType DEF SyncTake, TypeOK
  <2> QED BY <2>2, <2>3, <2>4
<1>2. CASE SyncFinish(w)
  <2>1. cur[w] \in Requests
    BY <1>2 DEF SyncFinish, TypeOK
  <2>2. cur' \in [SyncWorkers -> Requests \cup {Idle}]
    BY <1>2 DEF SyncFinish, TypeOK
  <2> QED BY <1>2, <2>1, <2>2, SendType, CountType DEF SyncFinish, TypeOK
<1>3. CASE SyncEnd(w)
  BY <1>3 DEF SyncEnd, TypeOK, Workers
<1> QED BY <1>1, <1>2, <1>3 DEF SyncNext

(* An async worker's step keeps the types.                                 *)
LEMMA AsyncType ==
    ASSUME TypeOK, NEW a \in AsyncWorkers, AsyncNext(a)
    PROVE  TypeOK'
<1> USE DEF callerVars, workVars, threadVars, serverVars
<1> DEFINE r == Head(queue["async"])
<1>0. ASSUME queue["async"] # <<>>
      PROVE  /\ r \in Requests
             /\ [queue EXCEPT !["async"] = Tail(@)] \in [Queues -> Seq(Requests)]
  BY <1>0, PopType DEF Queues
<1> HIDE DEF r
<1>1. CASE Fetch(a)
  <2>1. r \in Requests /\ queue' \in [Queues -> Seq(Requests)]
    BY <1>0, <1>1 DEF Fetch
  <2>2. \/ CountCompleted(r) /\ UNCHANGED <<tasks, runs>>
        \/ /\ tasks' = [tasks EXCEPT ![a] = @ \cup {r}]
           /\ runs' = [runs EXCEPT ![r] = @ + 1]
           /\ UNCHANGED completed
    BY <1>1 DEF r, Fetch
  <2>3. CASE CountCompleted(r) /\ UNCHANGED <<tasks, runs>>
    BY <1>1, <2>1, <2>3, CountType DEF Fetch, TypeOK
  <2>4. CASE /\ tasks' = [tasks EXCEPT ![a] = @ \cup {r}]
             /\ runs' = [runs EXCEPT ![r] = @ + 1]
             /\ UNCHANGED completed
    <3>1. tasks' \in [AsyncWorkers -> SUBSET Requests]
      BY <2>1, <2>4 DEF TypeOK
    <3> QED BY <1>1, <2>1, <2>4, <3>1, RunType DEF Fetch, TypeOK
  <2> QED BY <2>2, <2>3, <2>4
<1>2. CASE FetchLate(a)
  <2>1. r \in Requests /\ queue' \in [Queues -> Seq(Requests)]
    BY <1>0, <1>2 DEF FetchLate
  <2>2. /\ reply' \in [Requests -> {"none", "pending", "result", "lost"}]
        /\ completed' \in [Requests -> Nat]
    BY <1>2, <2>1, SendType, CountType DEF r, FetchLate
  <2>3. runs' = runs \/ runs' = [runs EXCEPT ![r] = @ + 1]
    BY <1>2 DEF r, FetchLate
  <2>4. runs' \in [Requests -> Nat]
    <3>1. CASE UNCHANGED runs
      BY <3>1 DEF TypeOK
    <3> QED BY <2>1, <2>3, <3>1, RunType
  <2>5. fetcher' \in [AsyncWorkers -> {"running", "done"}]
    BY <1>2 DEF FetchLate, TypeOK
  <2> QED BY <1>2, <2>1, <2>2, <2>4, <2>5 DEF FetchLate, TypeOK
<1>3. CASE FetcherStops(a)
  BY <1>3 DEF FetcherStops, TypeOK
<1>4. CASE FetcherFails(a)
  <2>1. r \in Requests /\ queue' \in [Queues -> Seq(Requests)]
    BY <1>0, <1>4 DEF FetcherFails
  <2>2. /\ reply' \in [Requests -> {"none", "pending", "result", "lost"}]
        /\ completed' \in [Requests -> Nat]
    BY <1>4, <2>1, SendType, CountType DEF r, FetcherFails
  <2> QED BY <1>4, <2>1, <2>2 DEF FetcherFails, TypeOK
<1>5. CASE EngineStops(a) \/ EngineWaited(a) \/ EngineCloses(a)
  BY <1>5 DEF EngineStops, EngineWaited, EngineCloses, TypeOK, Workers
<1>6. ASSUME NEW q \in Requests, TaskDone(a, q) \/ TaskCancelled(a, q)
      PROVE  TypeOK'
  <2>1. tasks' \in [AsyncWorkers -> SUBSET Requests]
    BY <1>6 DEF TaskDone, TaskCancelled, TypeOK
  <2>2. /\ reply' \in [Requests -> {"none", "pending", "result", "lost"}]
        /\ completed' \in [Requests -> Nat]
    BY <1>6, SendType, CountType DEF TaskDone, TaskCancelled
  <2> QED BY <1>6, <2>1, <2>2 DEF TaskDone, TaskCancelled, TypeOK
<1> QED BY <1>1, <1>2, <1>3, <1>4, <1>5, <1>6 DEF AsyncNext

(* A thread's end keeps the types.                                         *)
LEMMA EndedType ==
    ASSUME TypeOK, NEW w \in Workers, WorkerEnded(w)
    PROVE  TypeOK'
<1> DEFINE k == IF w \in AsyncWorkers THEN "async" ELSE "sync"
<1>1. k \in Queues
  BY DEF Queues
<1>2. /\ queue' \in [Queues -> Seq(Requests)]
      /\ reply' \in [Requests -> {"none", "pending", "result", "lost"}]
  <2>1. CASE UNCHANGED <<queue, reply>>
    BY <2>1 DEF TypeOK
  <2>2. CASE DiscardQueue(k)
    BY <1>1, <2>2 DEF DiscardQueue, TypeOK
  <2> QED BY <2>1, <2>2 DEF WorkerEnded
<1> QED BY <1>2 DEF WorkerEnded, TypeOK, callerVars, serverVars

(* A step of the stop keeps the types.                                     *)
LEMMA ServerType ==
    ASSUME TypeOK, ServerNext
    PROVE  TypeOK'
<1> USE DEF callerVars, workVars, threadVars, serverVars
<1>1. CASE Stop \/ EndDrain \/ ClosePool \/ Exit
  BY <1>1 DEF Stop, EndDrain, ClosePool, Exit, TypeOK
<1>2. CASE JoinThread
  BY <1>2, PoolAssumption DEF JoinThread, TypeOK
<1>3. CASE AbandonThread
  <2>1. next \in Workers /\ next' \in 0 .. NSync + NAsync
    BY <1>3, PoolAssumption DEF AbandonThread, TypeOK, Workers, SyncWorkers, AsyncWorkers
  <2> QED BY <1>3, <2>1 DEF AbandonThread, Abandon, TypeOK
<1> QED BY <1>1, <1>2, <1>3 DEF ServerNext

(* Every variable keeps its type: queues hold requests, no counter goes    *)
(* below zero (a permit is never taken from an empty semaphore), the join  *)
(* never runs past the last thread.                                        *)
THEOREM TypeCorrect == Spec => []TypeOK
<1>1. TypeOK /\ [Next]_vars => TypeOK'
  <2> SUFFICES ASSUME TypeOK, [Next]_vars PROVE TypeOK'
    OBVIOUS
  <2>1. CASE UNCHANGED vars
    BY <2>1 DEF vars, callerVars, workVars, threadVars, serverVars, TypeOK
  <2> QED BY <2>1, CallerType, SyncType, AsyncType, EndedType, ServerType
          DEF Next, Terminated
<1> QED BY <1>1, InitType, PTL DEF Spec

-----------------------------------------------------------------------------
(* Python is finalized only with every interpreter ended.                  *)

(* Nothing revives an ended thread or withdraws an abandoned one.          *)
LEMMA JoinStep ==
    ASSUME TypeOK, JoinedOrAbandoned, [Next]_vars
    PROVE  JoinedOrAbandoned'
<1> USE DEF callerVars, workVars, threadVars, serverVars
<1>1. ASSUME NEW r \in Requests, CallerNext(r)
      PROVE  UNCHANGED <<phase, serverVars>>
  BY <1>1 DEF CallerNext, Arrive, BodyGrows, BodyRejected, Submit, TakeReply,
              Timeout, Disconnect, DropCaller
<1>2. ASSUME NEW w \in SyncWorkers, SyncNext(w)
      PROVE  /\ UNCHANGED serverVars
             /\ \A v \in Workers : phase[v] = "ended" => phase'[v] = "ended"
  BY <1>2 DEF SyncNext, SyncTake, SyncFinish, SyncEnd, TypeOK
<1>3. ASSUME NEW a \in AsyncWorkers, AsyncNext(a)
      PROVE  /\ UNCHANGED serverVars
             /\ \A v \in Workers : phase[v] = "ended" => phase'[v] = "ended"
  <2>1. CASE Fetch(a) \/ FetchLate(a) \/ FetcherStops(a) \/ FetcherFails(a)
    BY <2>1 DEF Fetch, FetchLate, FetcherStops, FetcherFails
  <2>2. CASE EngineStops(a) \/ EngineWaited(a) \/ EngineCloses(a)
    BY <2>2 DEF EngineStops, EngineWaited, EngineCloses, TypeOK
  <2>3. CASE \E q \in Requests : TaskDone(a, q) \/ TaskCancelled(a, q)
    BY <2>3 DEF TaskDone, TaskCancelled
  <2> QED BY <1>3, <2>1, <2>2, <2>3 DEF AsyncNext
<1>4. ASSUME NEW w \in Workers, WorkerEnded(w)
      PROVE  /\ UNCHANGED serverVars
             /\ \A v \in Workers : phase[v] = "ended" => phase'[v] = "ended"
  BY <1>4 DEF WorkerEnded, TypeOK
<1>5. CASE ServerNext
  <2>1. CASE Stop \/ EndDrain \/ ClosePool
    BY <2>1 DEF Stop, EndDrain, ClosePool, JoinedOrAbandoned
  <2>2. CASE Exit
    BY <2>2 DEF Exit, JoinedOrAbandoned
  <2>3. CASE JoinThread
    BY <2>3 DEF JoinThread, JoinedOrAbandoned, TypeOK, Workers, SyncWorkers, AsyncWorkers
  <2>4. CASE AbandonThread
    BY <2>4 DEF AbandonThread, Abandon, JoinedOrAbandoned, TypeOK, Workers,
                SyncWorkers, AsyncWorkers
  <2> QED BY <1>5, <2>1, <2>2, <2>3, <2>4 DEF ServerNext
<1>6. CASE UNCHANGED vars
  BY <1>6 DEF vars, JoinedOrAbandoned
<1>7. ASSUME UNCHANGED serverVars,
             \A v \in Workers : phase[v] = "ended" => phase'[v] = "ended"
      PROVE  JoinedOrAbandoned'
  BY <1>7 DEF JoinedOrAbandoned
<1> QED BY <1>1, <1>2, <1>3, <1>4, <1>5, <1>6, <1>7 DEF Next, Terminated

(* The process finalizes Python only once every worker's interpreter has   *)
(* ended: the stop joins each thread or records it as abandoned, and an    *)
(* abandoned one makes run() exit without finalizing.                      *)
THEOREM FinalizeCorrect == Spec => []FinalizeSafe
<1>1. Init => JoinedOrAbandoned
  BY PoolAssumption DEF Init, JoinedOrAbandoned, Workers, SyncWorkers, AsyncWorkers
<1>2. TypeOK /\ JoinedOrAbandoned => FinalizeSafe
  BY PoolAssumption DEF JoinedOrAbandoned, FinalizeSafe, Workers, SyncWorkers, AsyncWorkers
<1> QED BY <1>1, <1>2, JoinStep, TypeCorrect, PTL DEF Spec

-----------------------------------------------------------------------------
(* No caller waits on a request nobody has.                                *)

(* What joins and leaves a queue.                                          *)
LEMMA RangeAppend ==
    ASSUME NEW S, NEW q \in Seq(S), NEW x \in S, NEW y \in Range(q) \cup {x}
    PROVE  y \in Range(Append(q, x))
<1>1. CASE y = x
  <2>1. Len(q) + 1 \in DOMAIN Append(q, x) /\ Append(q, x)[Len(q) + 1] = x
    OBVIOUS
  <2> QED BY <1>1, <2>1 DEF Range
<1>2. CASE y \in Range(q)
  <2>1. PICK i \in DOMAIN q : q[i] = y
    BY <1>2 DEF Range
  <2>2. i \in DOMAIN Append(q, x) /\ Append(q, x)[i] = y
    BY <2>1
  <2> QED BY <2>2 DEF Range
<1> QED BY <1>1, <1>2

(* Taking the head leaves every other request of the queue in it.          *)
LEMMA RangeTail ==
    ASSUME NEW S, NEW q \in Seq(S), q # <<>>, NEW y \in Range(q), y # Head(q)
    PROVE  y \in Range(Tail(q))
<1>1. PICK i \in DOMAIN q : q[i] = y
  BY DEF Range
<1>2. i \in 1 .. Len(q) /\ i # 1
  BY <1>1
<1>3. i - 1 \in DOMAIN Tail(q) /\ Tail(q)[i - 1] = y
  BY <1>1, <1>2
<1> QED BY <1>3 DEF Range

(* A worker that holds work is one that serves.                            *)
LEMMA HandsStep ==
    ASSUME TypeOK, HandsServing, [Next]_vars
    PROVE  HandsServing'
<1> USE DEF callerVars, workVars, threadVars, serverVars
<1>0. SyncWorkers \cap AsyncWorkers = {}
  BY PoolAssumption DEF SyncWorkers, AsyncWorkers
<1>1. ASSUME NEW r \in Requests, CallerNext(r)
      PROVE  UNCHANGED <<cur, tasks, phase>>
  BY <1>1 DEF CallerNext, Arrive, BodyGrows, BodyRejected, Submit, TakeReply,
              Timeout, Disconnect, DropCaller
<1>2. ASSUME NEW w \in SyncWorkers, SyncNext(w)
      PROVE  HandsServing'
  <2>1. CASE SyncTake(w)
    BY <1>0, <2>1 DEF SyncTake, HandsServing, TypeOK
  <2>2. CASE SyncFinish(w)
    BY <1>0, <2>2 DEF SyncFinish, HandsServing, TypeOK
  <2>3. CASE SyncEnd(w)
    BY <1>0, <2>3 DEF SyncEnd, HandsServing, TypeOK, Workers
  <2> QED BY <1>2, <2>1, <2>2, <2>3 DEF SyncNext
<1>3. ASSUME NEW a \in AsyncWorkers, AsyncNext(a)
      PROVE  HandsServing'
  <2>1. CASE Fetch(a)
    BY <1>0, <2>1 DEF Fetch, HandsServing, TypeOK
  <2>2. CASE FetchLate(a) \/ FetcherStops(a) \/ FetcherFails(a)
    BY <2>2 DEF FetchLate, FetcherStops, FetcherFails, HandsServing
  <2>3. CASE EngineStops(a) \/ EngineWaited(a) \/ EngineCloses(a)
    BY <1>0, <2>3 DEF EngineStops, EngineWaited, EngineCloses, HandsServing, TypeOK, Workers
  <2>4. ASSUME NEW q \in Requests, TaskDone(a, q) \/ TaskCancelled(a, q)
        PROVE  HandsServing'
    BY <1>0, <2>4 DEF TaskDone, TaskCancelled, HandsServing, TypeOK
  <2> QED BY <1>3, <2>1, <2>2, <2>3, <2>4 DEF AsyncNext
<1>4. ASSUME NEW w \in Workers, WorkerEnded(w)
      PROVE  HandsServing'
  BY <1>0, <1>4 DEF WorkerEnded, HandsServing, TypeOK, Workers
<1>5. CASE ServerNext
  BY <1>5 DEF ServerNext, Stop, EndDrain, ClosePool, JoinThread, AbandonThread,
              Exit, HandsServing
<1>6. CASE UNCHANGED vars
  BY <1>6 DEF vars, HandsServing
<1>7. ASSUME UNCHANGED <<cur, tasks, phase>>
      PROVE  HandsServing'
  BY <1>7 DEF HandsServing
<1> QED BY <1>1, <1>2, <1>3, <1>4, <1>5, <1>6, <1>7 DEF Next, Terminated

(* A queue that holds work has a receiver: the last one to go discards it. *)
LEMMA QueueStep ==
    ASSUME TypeOK, QueueServed, [Next]_vars
    PROVE  QueueServed'
<1> USE DEF callerVars, workVars, threadVars, serverVars
<1>0. ASSUME \A v \in Workers : phase[v] # "ended" => phase'[v] # "ended",
             \A k \in Queues : queue'[k] # <<>> => queue[k] # <<>>
      PROVE  QueueServed'
  BY <1>0 DEF QueueServed, Receivers, Workers
<1>1. ASSUME NEW r \in Requests, CallerNext(r)
      PROVE  QueueServed'
  <2>1. CASE Submit(r)
    <3> DEFINE k == QueueOf(r)
    <3>1. k \in Queues
      BY DEF QueueOf, Queues
    <3>2. CASE UNCHANGED <<queue, reply>>
      BY <1>0, <2>1, <3>2 DEF Submit
    <3>3. CASE Receivers(k) # {} /\ queue' = [queue EXCEPT ![k] = Append(@, r)]
      <4>1. Receivers(k)' = Receivers(k) /\ \A j \in Queues : Receivers(j)' = Receivers(j)
        BY <2>1 DEF Submit, Receivers
      <4>2. \A j \in Queues : j # k => queue'[j] = queue[j]
        BY <3>3 DEF TypeOK
      <4> QED BY <3>1, <3>3, <4>1, <4>2 DEF QueueServed
    <3> QED BY <2>1, <3>2, <3>3 DEF Submit
  <2>2. CASE ~Submit(r)
    BY <1>0, <1>1, <2>2 DEF CallerNext, Arrive, BodyGrows, BodyRejected, TakeReply,
              Timeout, Disconnect, DropCaller
  <2> QED BY <2>1, <2>2
<1>2. ASSUME NEW w \in SyncWorkers, SyncNext(w)
      PROVE  QueueServed'
  <2>1. \A v \in Workers : phase[v] # "ended" => phase'[v] # "ended"
    BY <1>2 DEF SyncNext, SyncTake, SyncFinish, SyncEnd, TypeOK, Workers
  <2>2. \A k \in Queues : queue'[k] # <<>> => queue[k] # <<>>
    BY <1>2 DEF SyncNext, SyncTake, SyncFinish, SyncEnd, TypeOK
  <2> QED BY <1>0, <2>1, <2>2
<1>3. ASSUME NEW a \in AsyncWorkers, AsyncNext(a)
      PROVE  QueueServed'
  <2>1. CASE Fetch(a) \/ FetchLate(a) \/ FetcherFails(a)
    <3>1. /\ UNCHANGED phase
          /\ queue["async"] # <<>>
          /\ queue' = [queue EXCEPT !["async"] = Tail(@)]
      BY <2>1 DEF Fetch, FetchLate, FetcherFails
    <3>2. \A k \in Queues : queue'[k] # <<>> => queue[k] # <<>>
      BY <3>1 DEF TypeOK
    <3> QED BY <1>0, <3>1, <3>2
  <2>2. CASE FetcherStops(a)
    BY <1>0, <2>2 DEF FetcherStops
  <2>3. CASE EngineStops(a) \/ EngineWaited(a) \/ EngineCloses(a)
    <3>1. \A v \in Workers : phase[v] # "ended" => phase'[v] # "ended"
      BY <2>3 DEF EngineStops, EngineWaited, EngineCloses, TypeOK, Workers
    <3> QED BY <1>0, <2>3, <3>1 DEF EngineStops, EngineWaited, EngineCloses
  <2>4. ASSUME NEW q \in Requests, TaskDone(a, q) \/ TaskCancelled(a, q)
        PROVE  QueueServed'
    BY <1>0, <2>4 DEF TaskDone, TaskCancelled
  <2> QED BY <1>3, <2>1, <2>2, <2>3, <2>4 DEF AsyncNext
<1>4. ASSUME NEW w \in Workers, WorkerEnded(w)
      PROVE  QueueServed'
  <2> DEFINE k == IF w \in AsyncWorkers THEN "async" ELSE "sync"
  <2>0. k \in Queues
    BY DEF Queues
  <2>1. \A j \in Queues : j # k => Receivers(j)' = Receivers(j)
    BY <1>4, PoolAssumption
       DEF WorkerEnded, Receivers, TypeOK, Workers, SyncWorkers, AsyncWorkers, Queues
  <2>2. \A j \in Queues : j # k => queue'[j] = queue[j]
    BY <1>4 DEF WorkerEnded, DiscardQueue, TypeOK
  <2>3. CASE Receivers(k) = {w}
    <3>1. queue'[k] = <<>>
      BY <1>4, <2>0, <2>3 DEF WorkerEnded, DiscardQueue, TypeOK
    <3> QED BY <2>1, <2>2, <3>1 DEF QueueServed
  <2>4. CASE Receivers(k) # {w}
    <3>1. queue' = queue
      BY <1>4, <2>4 DEF WorkerEnded
    <3>2. w \in Receivers(k)
      BY <1>4 DEF WorkerEnded, Receivers, Workers
    <3>3. PICK v \in Receivers(k) : v # w
      BY <2>4, <3>2
    <3>4. v \in Receivers(k)'
      BY <1>4, <3>3 DEF WorkerEnded, Receivers, TypeOK, Workers
    <3> QED BY <2>1, <3>1, <3>4 DEF QueueServed
  <2> QED BY <2>3, <2>4
<1>5. CASE ServerNext
  BY <1>0, <1>5 DEF ServerNext, Stop, EndDrain, ClosePool, JoinThread, AbandonThread, Exit
<1>6. CASE UNCHANGED vars
  BY <1>0, <1>6 DEF vars
<1> QED BY <1>1, <1>2, <1>3, <1>4, <1>5, <1>6 DEF Next, Terminated

(* Taking the head of queue k leaves every other request where it was.     *)
LEMMA PopHeld ==
    ASSUME TypeOK, NEW k \in Queues, queue[k] # <<>>,
           queue' = [queue EXCEPT ![k] = Tail(@)],
           NEW q \in Requests, q # Head(queue[k]), NEW j \in Queues, Queued(q, j)
    PROVE  Queued(q, j)'
<1>1. queue[k] \in Seq(Requests)
  BY DEF TypeOK
<1>2. CASE j = k
  <2>1. q \in Range(Tail(queue[k]))
    BY <1>1, <1>2, RangeTail DEF Queued
  <2> QED BY <1>2, <2>1 DEF Queued, TypeOK
<1>3. CASE j # k
  BY <1>3 DEF Queued, TypeOK
<1> QED BY <1>2, <1>3

(* A step leaves no pending answer without its WorkRequest somewhere.      *)
LEMMA PendingStep ==
    ASSUME TypeOK, PendingHeld, [Next]_vars
    PROVE  PendingHeld'
<1> USE DEF callerVars, workVars, threadVars, serverVars
<1> DEFINE Waits(q) == caller[q] = "waiting" /\ reply[q] = "pending"
<1>0. ASSUME UNCHANGED <<queue, cur, tasks>>,
             \A q \in Requests : Waits(q)' => Waits(q)
      PROVE  PendingHeld'
  BY <1>0 DEF PendingHeld, Held, Queued
<1>1. ASSUME NEW r \in Requests, CallerNext(r)
      PROVE  PendingHeld'
  <2>1. CASE Submit(r)
    <3> DEFINE k == QueueOf(r)
    <3>1. k \in Queues
      BY DEF QueueOf, Queues
    <3>2. CASE UNCHANGED <<queue, reply>>
      <4>1. EndCaller(r, "closed") \/ EndCaller(r, "overloaded")
        BY <2>1, <3>2, <3>1 DEF Submit, TypeOK
      <4>2. \A q \in Requests : Waits(q)' => Waits(q)
        BY <3>2, <4>1 DEF EndCaller, TypeOK
      <4> QED BY <1>0, <2>1, <3>2, <4>2 DEF Submit
    <3>3. CASE /\ caller' = [caller EXCEPT ![r] = "waiting"]
               /\ queue' = [queue EXCEPT ![k] = Append(@, r)]
               /\ reply' = [reply EXCEPT ![r] = "pending"]
      <4>1. UNCHANGED <<cur, tasks>>
        BY <2>1 DEF Submit
      <4>2. queue[k] \in Seq(Requests) /\ queue'[k] = Append(queue[k], r)
        BY <3>1, <3>3 DEF TypeOK
      <4>3. \A q \in Requests : Queued(q, k) \/ q = r => Queued(q, k)'
        BY <4>2, RangeAppend DEF Queued
      <4>4. \A q \in Requests, j \in Queues : Queued(q, j) => Queued(q, j)'
        BY <3>1, <3>3, <4>3 DEF Queued, TypeOK
      <4>5. \A q \in Requests : q # r /\ Waits(q)' => Waits(q)
        BY <3>3 DEF TypeOK
      <4>6. ASSUME NEW q \in Requests, Waits(q)'
            PROVE  Held(q)'
        <5>1. CASE q = r
          BY <3>1, <4>3, <5>1 DEF Held
        <5>2. CASE q # r
          BY <4>1, <4>4, <4>5, <4>6, <5>2 DEF PendingHeld, Held
        <5> QED BY <5>1, <5>2
      <4> QED BY <4>6 DEF PendingHeld
    <3> QED BY <2>1, <3>2, <3>3 DEF Submit
  <2>2. CASE ~Submit(r)
    <3>1. UNCHANGED <<queue, cur, tasks, reply>>
      BY <1>1, <2>2 DEF CallerNext, Arrive, BodyGrows, BodyRejected, TakeReply,
              Timeout, Disconnect, DropCaller
    <3>2. \/ UNCHANGED caller
          \/ \E o \in Outcomes \cup {"collecting"} : caller' = [caller EXCEPT ![r] = o]
      BY <1>1, <2>2 DEF CallerNext, Arrive, BodyGrows, Admit, BodyRejected, TakeReply,
              Timeout, Disconnect, DropCaller, EndCaller, Outcomes
    <3>3. \A q \in Requests : caller'[q] = "waiting" => caller[q] = "waiting"
      BY <3>2 DEF TypeOK, Outcomes
    <3> QED BY <1>0, <3>1, <3>3
  <2> QED BY <2>1, <2>2
<1>2. ASSUME NEW w \in SyncWorkers, SyncNext(w)
      PROVE  PendingHeld'
  <2>1. CASE SyncTake(w)
    <3> DEFINE r == Head(queue["sync"])
    <3>1. /\ "sync" \in Queues
          /\ queue["sync"] # <<>>
          /\ queue' = [queue EXCEPT !["sync"] = Tail(@)]
          /\ UNCHANGED <<caller, reply, tasks>>
          /\ cur[w] = Idle
          /\ \/ caller[r] # "waiting" /\ UNCHANGED cur
             \/ cur' = [cur EXCEPT ![w] = r]
      BY <2>1 DEF SyncTake, Queues, IsClosed
    <3>2. ASSUME NEW q \in Requests, Waits(q)
          PROVE  Held(q)'
      <4>1. Held(q)
        BY <3>2 DEF PendingHeld
      <4>2. CASE q = r
        BY <3>1, <3>2, <4>2 DEF Held, TypeOK
      <4>3. CASE q # r
        <5>1. \A j \in Queues : Queued(q, j) => Queued(q, j)'
          BY <3>1, <4>3, PopHeld
        <5>2. \A v \in SyncWorkers : cur[v] = q => cur'[v] = q
          BY <3>1, PoolAssumption DEF TypeOK
        <5> QED BY <3>1, <4>1, <5>1, <5>2 DEF Held
      <4> QED BY <4>2, <4>3
    <3> QED BY <3>1, <3>2 DEF PendingHeld
  <2>2. CASE SyncFinish(w)
    <3>1. /\ UNCHANGED <<caller, queue, tasks>>
          /\ cur' = [cur EXCEPT ![w] = Idle]
          /\ cur[w] \in Requests
          /\ Send(cur[w], "result")
      BY <2>2 DEF SyncFinish, TypeOK
    <3>2. \A q \in Requests : Waits(q)' => Waits(q) /\ q # cur[w]
      BY <3>1 DEF Send, IsClosed, TypeOK
    <3>3. \A q \in Requests, v \in SyncWorkers : q # cur[w] /\ cur[v] = q => cur'[v] = q
      BY <3>1 DEF TypeOK
    <3> QED BY <3>1, <3>2, <3>3 DEF PendingHeld, Held, Queued
  <2>3. CASE SyncEnd(w)
    BY <1>0, <2>3 DEF SyncEnd
  <2> QED BY <1>2, <2>1, <2>2, <2>3 DEF SyncNext
<1>3. ASSUME NEW a \in AsyncWorkers, AsyncNext(a)
      PROVE  PendingHeld'
  <2>0. ASSUME NEW r \in Requests, r = Head(queue["async"]),
               queue["async"] # <<>>,
               queue' = [queue EXCEPT !["async"] = Tail(@)],
               UNCHANGED <<caller, cur>>,
               \A q \in Requests : Waits(q)' => Waits(q),
               \A v \in AsyncWorkers : tasks[v] \subseteq tasks'[v],
               Waits(r)' => \E v \in AsyncWorkers : r \in tasks'[v]
        PROVE  PendingHeld'
    <3>1. ASSUME NEW q \in Requests, Waits(q)'
          PROVE  Held(q)'
      <4>1. CASE q = r
        BY <2>0, <3>1, <4>1 DEF Held
      <4>2. CASE q # r
        <5>1. \A j \in Queues : Queued(q, j) => Queued(q, j)'
          BY <2>0, <4>2, PopHeld DEF Queues
        <5> QED BY <2>0, <3>1, <5>1 DEF PendingHeld, Held
      <4> QED BY <4>1, <4>2
    <3> QED BY <3>1 DEF PendingHeld
  <2>00. ASSUME queue["async"] # <<>>
         PROVE  \E r \in Requests : r = Head(queue["async"])
    BY <2>00, PopType DEF Queues
  <2>1. CASE Fetch(a)
    <3>0. PICK r \in Requests : r = Head(queue["async"])
      BY <2>00, <2>1 DEF Fetch
    <3>1. \/ caller[r] # "waiting" /\ UNCHANGED tasks
          \/ tasks' = [tasks EXCEPT ![a] = @ \cup {r}]
      BY <2>1, <3>0 DEF Fetch, IsClosed
    <3>2. \A v \in AsyncWorkers : tasks[v] \subseteq tasks'[v]
      <4>1. CASE UNCHANGED tasks
        BY <4>1
      <4>2. CASE tasks' = [tasks EXCEPT ![a] = @ \cup {r}]
        BY <4>2 DEF TypeOK
      <4> QED BY <3>1, <4>1, <4>2
    <3>3. caller[r] # "waiting" \/ r \in tasks'[a]
      BY <3>1 DEF TypeOK
    <3>4. /\ queue["async"] # <<>>
          /\ queue' = [queue EXCEPT !["async"] = Tail(@)]
          /\ UNCHANGED <<caller, cur, reply>>
      BY <2>1 DEF Fetch
    <3> QED BY <2>0, <3>0, <3>2, <3>3, <3>4
  <2>2. CASE FetchLate(a) \/ FetcherFails(a)
    <3>0. PICK r \in Requests : r = Head(queue["async"])
      BY <2>00, <2>2 DEF FetchLate, FetcherFails
    <3>1. /\ queue["async"] # <<>>
          /\ queue' = [queue EXCEPT !["async"] = Tail(@)]
          /\ UNCHANGED <<caller, cur, tasks>>
          /\ Send(r, "result") \/ Send(r, "lost")
      BY <2>2, <3>0 DEF FetchLate, FetcherFails
    <3>2. \A q \in Requests : Waits(q)' => Waits(q) /\ q # r
      BY <3>1 DEF Send, IsClosed, TypeOK
    <3> QED BY <2>0, <3>0, <3>1, <3>2
  <2>3. CASE FetcherStops(a) \/ EngineStops(a) \/ EngineWaited(a) \/ EngineCloses(a)
    BY <1>0, <2>3 DEF FetcherStops, EngineStops, EngineWaited, EngineCloses
  <2>4. ASSUME NEW t \in Requests, TaskDone(a, t) \/ TaskCancelled(a, t)
        PROVE  PendingHeld'
    <3>1. /\ UNCHANGED <<caller, queue, cur>>
          /\ tasks' = [tasks EXCEPT ![a] = @ \ {t}]
          /\ Send(t, "result") \/ Send(t, "lost")
      BY <2>4 DEF TaskDone, TaskCancelled
    <3>2. \A q \in Requests : Waits(q)' => Waits(q) /\ q # t
      BY <3>1 DEF Send, IsClosed, TypeOK
    <3>3. \A q \in Requests, v \in AsyncWorkers : q # t /\ q \in tasks[v] => q \in tasks'[v]
      BY <3>1 DEF TypeOK
    <3> QED BY <3>1, <3>2, <3>3 DEF PendingHeld, Held, Queued
  <2> QED BY <1>3, <2>1, <2>2, <2>3, <2>4 DEF AsyncNext
<1>4. ASSUME NEW w \in Workers, WorkerEnded(w)
      PROVE  PendingHeld'
  <2> DEFINE k == IF w \in AsyncWorkers THEN "async" ELSE "sync"
  <2>1. UNCHANGED <<caller, cur, tasks>>
    BY <1>4 DEF WorkerEnded
  <2>2. CASE UNCHANGED <<queue, reply>>
    BY <1>0, <2>1, <2>2
  <2>3. CASE DiscardQueue(k)
    <3>1. \A q \in Requests : Waits(q)' => Waits(q) /\ ~Queued(q, k)
      BY <2>1, <2>3 DEF DiscardQueue, IsClosed, Queued, TypeOK
    <3>2. \A q \in Requests, j \in Queues : j # k /\ Queued(q, j) => Queued(q, j)'
      BY <2>3 DEF DiscardQueue, Queued, TypeOK
    <3> QED BY <2>1, <3>1, <3>2 DEF PendingHeld, Held
  <2> QED BY <1>4, <2>2, <2>3 DEF WorkerEnded
<1>5. CASE ServerNext
  BY <1>0, <1>5 DEF ServerNext, Stop, EndDrain, ClosePool, JoinThread, AbandonThread, Exit
<1>6. CASE UNCHANGED vars
  BY <1>0, <1>6 DEF vars
<1> QED BY <1>1, <1>2, <1>3, <1>4, <1>5, <1>6 DEF Next, Terminated

(* A caller whose answer is pending has its request in a queue that a      *)
(* worker still receives from, or with a worker that still serves.         *)
THEOREM NoOrphanCorrect == Spec => []NoOrphan
<1>1. Init => PendingHeld /\ QueueServed /\ HandsServing
  BY DEF Init, PendingHeld, QueueServed, HandsServing
<1>2. PendingHeld /\ QueueServed /\ HandsServing /\ TypeOK => NoOrphan
  <2> SUFFICES ASSUME PendingHeld, QueueServed, HandsServing, TypeOK, NEW r \in Requests,
                      caller[r] = "waiting", reply[r] = "pending"
               PROVE  \/ \E k \in Queues : Queued(r, k) /\ Receivers(k) # {}
                      \/ \E w \in SyncWorkers : cur[w] = r /\ phase[w] = "serving"
                      \/ \E a \in AsyncWorkers :
                            r \in tasks[a] /\ phase[a] \in {"serving", "stopping", "closing"}
    BY DEF NoOrphan
  <2>1. Held(r)
    BY DEF PendingHeld
  <2>2. ASSUME NEW k \in Queues, Queued(r, k) PROVE Receivers(k) # {}
    BY <2>2 DEF Queued, Range, QueueServed
  <2> QED BY <2>1, <2>2, PoolAssumption DEF Held, HandsServing
<1> QED BY <1>1, <1>2, PendingStep, QueueStep, HandsStep, TypeCorrect, PTL DEF Spec

-----------------------------------------------------------------------------
(* Admission permits.                                                      *)

(* A permit given back.                                                    *)
LEMMA Released ==
    ASSUME TypeOK, PermitsBalance, NEW r \in Requests, NEW o \in Outcomes, EndCaller(r, o)
    PROVE  PermitsBalance'
<1> DEFINE Holders == {q \in Requests : permit[q]}
<1>1. \A q \in Requests : permit'[q] => Live(q)'
  BY DEF PermitsBalance, EndCaller, Live, Outcomes, TypeOK
<1>2. Holders' = Holders \ {r}
  BY DEF EndCaller, TypeOK
<1>3. IsFiniteSet(Holders)
  BY PoolAssumption, FS_Subset
<1>4. /\ Cardinality(Holders) \in Nat
      /\ Cardinality(Holders') =
           IF permit[r] THEN Cardinality(Holders) - 1 ELSE Cardinality(Holders)
  BY <1>2, <1>3, FS_RemoveElement, FS_CardinalityType
<1>5. free + Cardinality(Holders) = TotalPermits /\ free \in Nat
  BY DEF PermitsBalance, TypeOK
<1>6. free' = IF permit[r] THEN free + 1 ELSE free
  BY DEF EndCaller
<1>7. free' + Cardinality(Holders') = TotalPermits
  BY <1>4, <1>5, <1>6
<1> QED BY <1>1, <1>7 DEF PermitsBalance, TotalPermits

(* A permit taken.                                                         *)
LEMMA Acquired ==
    ASSUME TypeOK, PermitsBalance, NEW r \in Requests, ~permit[r],
           permit' = [permit EXCEPT ![r] = TRUE], free' = free - 1,
           caller' = [caller EXCEPT ![r] = "collecting"]
    PROVE  PermitsBalance'
<1> DEFINE Holders == {q \in Requests : permit[q]}
<1>1. \A q \in Requests : permit'[q] => Live(q)'
  BY DEF PermitsBalance, Live, TypeOK
<1>2. Holders' = Holders \cup {r}
  BY DEF TypeOK
<1>3. IsFiniteSet(Holders)
  BY PoolAssumption, FS_Subset
<1>4. /\ Cardinality(Holders) \in Nat
      /\ Cardinality(Holders') = Cardinality(Holders) + 1
  BY <1>2, <1>3, FS_AddElement, FS_CardinalityType
<1>5. free + Cardinality(Holders) = TotalPermits /\ free \in Nat
  BY DEF PermitsBalance, TypeOK
<1>6. free' + Cardinality(Holders') = TotalPermits
  BY <1>4, <1>5
<1> QED BY <1>1, <1>6 DEF PermitsBalance, TotalPermits

(* Only callers touch permits, bodies and themselves.                      *)
LEMMA CallersOnly ==
    ASSUME [Next]_vars
    PROVE  (\E r \in Requests : CallerNext(r)) \/ UNCHANGED callerVars
<1> USE DEF callerVars
<1>1. ASSUME NEW w \in SyncWorkers, SyncNext(w)
      PROVE  UNCHANGED callerVars
  BY <1>1 DEF SyncNext, SyncTake, SyncFinish, SyncEnd
<1>2. ASSUME NEW a \in AsyncWorkers, AsyncNext(a)
      PROVE  UNCHANGED callerVars
  BY <1>2 DEF AsyncNext, Fetch, FetchLate, FetcherStops, FetcherFails, EngineStops,
              EngineWaited, EngineCloses, TaskDone, TaskCancelled
<1>3. ASSUME NEW w \in Workers, WorkerEnded(w)
      PROVE  UNCHANGED callerVars
  BY <1>3 DEF WorkerEnded
<1>4. CASE ServerNext
  BY <1>4 DEF ServerNext, Stop, EndDrain, ClosePool, JoinThread, AbandonThread, Exit
<1>5. CASE UNCHANGED vars
  BY <1>5 DEF vars
<1> QED BY <1>1, <1>2, <1>3, <1>4, <1>5 DEF Next, Terminated

(* A step neither leaks nor mints a permit, and admits every large body.   *)
LEMMA PermitsStep ==
    ASSUME TypeOK, PermitsBalance, NewUntouched, LargeBodyAdmitted, [Next]_vars
    PROVE  PermitsBalance' /\ NewUntouched' /\ LargeBodyAdmitted'
<1> USE DEF callerVars
<1>1. CASE UNCHANGED callerVars
  BY <1>1 DEF PermitsBalance, NewUntouched, LargeBodyAdmitted, Live, TotalPermits
<1>2. ASSUME NEW r \in Requests, CallerNext(r)
      PROVE  PermitsBalance' /\ NewUntouched' /\ LargeBodyAdmitted'
  <2>0. ASSUME NEW o \in Outcomes, EndCaller(r, o), UNCHANGED large
        PROVE  PermitsBalance' /\ NewUntouched' /\ LargeBodyAdmitted'
    <3>1. PermitsBalance'
      BY <2>0, Released
    <3>2. NewUntouched' /\ LargeBodyAdmitted'
      BY <2>0 DEF EndCaller, NewUntouched, LargeBodyAdmitted, Live, Outcomes, TypeOK
    <3> QED BY <3>1, <3>2
  <2>1. CASE Arrive(r)
    <3>0. caller[r] = "new" /\ ~permit[r] /\ ~large[r] /\ UNCHANGED large
      BY <2>1 DEF Arrive, NewUntouched
    <3>1. CASE EndCaller(r, "overloaded")
      BY <2>0, <3>0, <3>1 DEF Outcomes
    <3>2. CASE caller' = [caller EXCEPT ![r] = "collecting"] /\ UNCHANGED <<permit, free>>
      <4>1. NewUntouched' /\ LargeBodyAdmitted'
        BY <3>0, <3>2 DEF NewUntouched, LargeBodyAdmitted, Live, TypeOK
      <4>2. \A q \in Requests : permit'[q] => Live(q)'
        BY <3>2 DEF PermitsBalance, Live, TypeOK
      <4> QED BY <3>2, <4>1, <4>2 DEF PermitsBalance, TotalPermits
    <3>3. CASE /\ caller' = [caller EXCEPT ![r] = "collecting"]
               /\ permit' = [permit EXCEPT ![r] = TRUE]
               /\ free' = free - 1
      <4>1. NewUntouched' /\ LargeBodyAdmitted'
        BY <3>0, <3>3 DEF NewUntouched, LargeBodyAdmitted, Live, TypeOK
      <4> QED BY <3>0, <3>3, <4>1, Acquired
    <3> QED BY <2>1, <3>1, <3>2, <3>3 DEF Arrive
  <2>2. CASE BodyGrows(r)
    <3>0. caller[r] = "collecting"
      BY <2>2 DEF BodyGrows
    <3>1. CASE permit[r]
      <4>1. large' = [large EXCEPT ![r] = TRUE] /\ UNCHANGED <<caller, permit, free>>
        BY <2>2, <3>1 DEF BodyGrows, Admit
      <4>2. NewUntouched' /\ LargeBodyAdmitted'
        BY <3>0, <3>1, <4>1 DEF NewUntouched, LargeBodyAdmitted, Live, TypeOK
      <4> QED BY <4>1, <4>2 DEF PermitsBalance, Live, TotalPermits
    <3>2. CASE ~permit[r] /\ free = 0
      BY <2>0, <2>2, <3>2 DEF BodyGrows, Admit, Outcomes
    <3>3. CASE ~permit[r] /\ free # 0
      <4>1. /\ large' = [large EXCEPT ![r] = TRUE]
            /\ permit' = [permit EXCEPT ![r] = TRUE]
            /\ free' = free - 1
            /\ UNCHANGED caller
        BY <2>2, <3>3 DEF BodyGrows, Admit
      <4>2. caller' = [caller EXCEPT ![r] = "collecting"]
        BY <3>0, <4>1 DEF TypeOK
      <4>3. NewUntouched' /\ LargeBodyAdmitted'
        BY <3>0, <4>1 DEF NewUntouched, LargeBodyAdmitted, Live, TypeOK
      <4> QED BY <3>3, <4>1, <4>2, <4>3, Acquired
    <3> QED BY <3>1, <3>2, <3>3
  <2>3. CASE Submit(r)
    <3>1. CASE EndCaller(r, "closed") \/ EndCaller(r, "overloaded")
      BY <2>0, <2>3, <3>1 DEF Submit, Outcomes
    <3>2. CASE caller' = [caller EXCEPT ![r] = "waiting"] /\ UNCHANGED <<permit, free>>
      <4>0. caller[r] = "collecting" /\ UNCHANGED large
        BY <2>3 DEF Submit
      <4>1. NewUntouched' /\ LargeBodyAdmitted'
        BY <3>2, <4>0 DEF NewUntouched, LargeBodyAdmitted, Live, TypeOK
      <4>2. \A q \in Requests : permit'[q] => Live(q)'
        BY <3>2 DEF PermitsBalance, Live, TypeOK
      <4> QED BY <3>2, <4>1, <4>2 DEF PermitsBalance, TotalPermits
    <3> QED BY <2>3, <3>1, <3>2 DEF Submit
  <2>4. CASE \/ BodyRejected(r) \/ TakeReply(r) \/ Timeout(r)
             \/ Disconnect(r) \/ DropCaller(r)
    BY <2>0, <2>4 DEF BodyRejected, TakeReply, Timeout, Disconnect, DropCaller, Outcomes
  <2> QED BY <1>2, <2>1, <2>2, <2>3, <2>4 DEF CallerNext
<1> QED BY <1>1, <1>2, CallersOnly

(* The semaphore and the callers still being served account for every      *)
(* permit, and every large body of such a caller holds one.                *)
THEOREM PermitsCorrect == Spec => [](PermitsBalance /\ LargeBodyAdmitted)
<1>1. Init => PermitsBalance /\ NewUntouched /\ LargeBodyAdmitted
  <2> SUFFICES ASSUME Init PROVE PermitsBalance /\ NewUntouched /\ LargeBodyAdmitted
    OBVIOUS
  <2>1. {r \in Requests : permit[r]} = {}
    BY DEF Init
  <2>2. free + Cardinality({r \in Requests : permit[r]}) = TotalPermits
    <3>1. Cardinality({r \in Requests : permit[r]}) = 0
      BY <2>1, FS_EmptySet
    <3>2. free = TotalPermits
      BY DEF Init
    <3> QED BY <3>1, <3>2, PermitsType
  <2> QED BY <2>2 DEF Init, PermitsBalance, NewUntouched, LargeBodyAdmitted
<1> QED BY <1>1, PermitsStep, TypeCorrect, PTL DEF Spec

-----------------------------------------------------------------------------
(* A WorkRequest is in one place, and is counted once it has left it.      *)

Accounted == QueuedOnce /\ HeldOnce /\ Ledger

(* A step that touches no WorkRequest keeps the accounts, as long as no    *)
(* submitted caller becomes one that is not.                               *)
LEMMA AccountsKept ==
    ASSUME TypeOK, Accounted, UNCHANGED workVars,
           \A q \in Requests : caller'[q] \in {"new", "collecting"} =>
                caller[q] \in {"new", "collecting"}
    PROVE  Accounted'
BY DEF Accounted, QueuedOnce, HeldOnce, InHand, Ledger, QueueOf, workVars

(* The tail of a sequence is the sequence one place on.                    *)
LEMMA TailAt ==
    ASSUME NEW S, NEW q \in Seq(S), q # <<>>, NEW h \in DOMAIN Tail(q)
    PROVE  h \in Nat /\ h + 1 \in DOMAIN q /\ h + 1 # 1 /\ Tail(q)[h] = q[h + 1]
OBVIOUS

(* What is left in the queues once a head was taken: not that request, and *)
(* everything else as it was.                                              *)
LEMMA PopOnce ==
    ASSUME TypeOK, QueuedOnce, NEW k \in Queues, queue[k] # <<>>,
           queue' = [queue EXCEPT ![k] = Tail(@)]
    PROVE  LET r == Head(queue[k]) IN
           /\ QueueOf(r) = k /\ reply[r] = "pending" /\ runs[r] = 0 /\ completed[r] = 0
           /\ \A j \in Queues : \A i \in DOMAIN queue'[j] :
                LET q == queue'[j][i] IN
                /\ q \in Requests /\ q # r
                /\ QueueOf(q) = j /\ reply[q] = "pending" /\ runs[q] = 0 /\ completed[q] = 0
                /\ \A h \in DOMAIN queue'[j] : queue'[j][h] = q => h = i
<1> DEFINE r == Head(queue[k])
<1>0. queue \in [Queues -> Seq(Requests)]
  BY DEF TypeOK
<1>1. /\ queue[k] \in Seq(Requests) /\ Len(queue[k]) > 0
      /\ r = queue[k][1] /\ 1 \in DOMAIN queue[k]
      /\ queue'[k] = Tail(queue[k])
  BY <1>0
<1>2. /\ QueueOf(r) = k /\ reply[r] = "pending" /\ runs[r] = 0 /\ completed[r] = 0
  BY <1>1 DEF QueuedOnce
<1>3. ASSUME NEW j \in Queues, NEW i \in DOMAIN queue'[j]
      PROVE  LET q == queue'[j][i] IN
             /\ q \in Requests /\ q # r
             /\ QueueOf(q) = j /\ reply[q] = "pending" /\ runs[q] = 0 /\ completed[q] = 0
             /\ \A h \in DOMAIN queue'[j] : queue'[j][h] = q => h = i
  <2>1. CASE j = k
    <3>1. \A h \in DOMAIN queue'[k] :
            /\ h \in Nat /\ h + 1 \in DOMAIN queue[k] /\ h + 1 # 1
            /\ queue'[k][h] = queue[k][h + 1]
      BY <1>1, TailAt
    <3>2. queue[k][i + 1] \in Requests /\ i + 1 \in DOMAIN queue[k]
      BY <1>1, <1>3, <2>1, <3>1
    <3> QED BY <1>1, <1>3, <2>1, <3>1, <3>2 DEF QueuedOnce
  <2>2. CASE j # k
    <3>1. queue'[j] = queue[j] /\ queue[j] \in Seq(Requests)
      BY <1>0, <1>3, <2>2
    <3>2. queue[j][i] \in Requests
      BY <1>3, <3>1
    <3> QED BY <1>2, <1>3, <2>2, <3>1, <3>2 DEF QueuedOnce
  <2> QED BY <2>1, <2>2
<1> QED BY <1>2, <1>3

(* A request taken off its queue: what the queues keep, whatever the       *)
(* worker does with it.                                                    *)
LEMMA QueueTaken ==
    ASSUME TypeOK, QueuedOnce, NEW k \in Queues, queue[k] # <<>>,
           queue' = [queue EXCEPT ![k] = Tail(@)],
           \A q \in Requests : q # Head(queue[k]) =>
                /\ reply'[q] = reply[q]
                /\ runs'[q] = runs[q]
                /\ completed'[q] = completed[q]
    PROVE  QueuedOnce'
<1> SUFFICES ASSUME NEW j \in Queues, NEW i \in DOMAIN queue'[j]
             PROVE  LET q == queue'[j][i] IN
                    /\ QueueOf(q) = j
                    /\ reply'[q] = "pending" /\ runs'[q] = 0 /\ completed'[q] = 0
                    /\ \A h \in DOMAIN queue'[j] : queue'[j][h] = q => h = i
  BY DEF QueuedOnce, QueueOf
<1> DEFINE q == queue'[j][i]
<1>1. /\ q \in Requests /\ q # Head(queue[k])
      /\ QueueOf(q) = j /\ reply[q] = "pending" /\ runs[q] = 0 /\ completed[q] = 0
      /\ \A h \in DOMAIN queue'[j] : queue'[j][h] = q => h = i
  BY PopOnce
<1>2. reply'[q] = reply[q] /\ runs'[q] = runs[q] /\ completed'[q] = completed[q]
  BY <1>1
<1> QED BY <1>1, <1>2

(* What a queue holds after a submission.                                  *)
LEMMA AppendAt ==
    ASSUME NEW S, NEW q \in Seq(S), NEW x \in S, NEW h \in DOMAIN Append(q, x)
    PROVE  \/ h \in DOMAIN q /\ Append(q, x)[h] = q[h]
           \/ h = Len(q) + 1 /\ h \notin DOMAIN q /\ Append(q, x)[h] = x
OBVIOUS

(* A submission puts a request that was nowhere at the end of its queue.   *)
LEMMA SubmitAccounts ==
    ASSUME TypeOK, Accounted, NEW r \in Requests, caller[r] = "collecting",
           caller' = [caller EXCEPT ![r] = "waiting"],
           queue' = [queue EXCEPT ![QueueOf(r)] = Append(@, r)],
           reply' = [reply EXCEPT ![r] = "pending"],
           UNCHANGED <<cur, tasks, runs, completed>>
    PROVE  Accounted'
<1> DEFINE k == QueueOf(r)
<1>0. k \in Queues /\ queue \in [Queues -> Seq(Requests)]
  BY DEF QueueOf, Queues, TypeOK
<1>1. reply[r] = "none" /\ runs[r] = 0 /\ completed[r] = 0
  BY DEF Accounted, Ledger
<1>2. /\ reply'[r] = "pending"
      /\ \A q \in Requests : q # r => reply'[q] = reply[q] /\ caller'[q] = caller[q]
      /\ caller'[r] = "waiting"
  BY DEF TypeOK
<1>3. QueuedOnce'
  <2>1. ASSUME NEW j \in Queues, NEW i \in DOMAIN queue'[j]
        PROVE  LET q == queue'[j][i] IN
               /\ QueueOf(q) = j
               /\ reply'[q] = "pending" /\ runs[q] = 0 /\ completed[q] = 0
               /\ \A h \in DOMAIN queue'[j] : queue'[j][h] = q => h = i
    <3>1. \A h \in DOMAIN queue[j] : queue[j][h] \in Requests /\ queue[j][h] # r
      BY <1>0, <1>1, <2>1 DEF Accounted, QueuedOnce
    <3>2. CASE j # k
      <4>1. queue'[j] = queue[j]
        BY <1>0, <2>1, <3>2
      <4>2. LET q == queue[j][i] IN
            /\ QueueOf(q) = j /\ reply[q] = "pending" /\ runs[q] = 0 /\ completed[q] = 0
            /\ \A h \in DOMAIN queue[j] : queue[j][h] = q => h = i
        BY <2>1, <4>1 DEF Accounted, QueuedOnce
      <4>3. reply'[queue[j][i]] = reply[queue[j][i]]
        BY <1>2, <2>1, <3>1, <4>1
      <4> QED BY <4>1, <4>2, <4>3
    <3>3. CASE j = k
      <4>1. queue[k] \in Seq(Requests) /\ queue'[k] = Append(queue[k], r)
        BY <1>0
      <4>2. \A h \in DOMAIN queue'[k] :
              \/ h \in DOMAIN queue[k] /\ queue'[k][h] = queue[k][h]
              \/ h = Len(queue[k]) + 1 /\ h \notin DOMAIN queue[k] /\ queue'[k][h] = r
        BY <4>1, AppendAt
      <4>3. CASE i \in DOMAIN queue[k] /\ queue'[k][i] = queue[k][i]
        BY <1>2, <2>1, <3>1, <3>3, <4>2, <4>3 DEF Accounted, QueuedOnce
      <4>4. CASE i = Len(queue[k]) + 1 /\ queue'[k][i] = r
        BY <1>1, <1>2, <2>1, <3>1, <3>3, <4>2, <4>4
      <4> QED BY <2>1, <3>3, <4>2, <4>3, <4>4
    <3> QED BY <3>2, <3>3
  <2> QED BY <2>1 DEF QueuedOnce, QueueOf
<1>4. HeldOnce'
  <2>1. \A w \in SyncWorkers : cur[w] # Idle => cur[w] \in Requests /\ cur[w] # r
    BY <1>1 DEF Accounted, HeldOnce, InHand, TypeOK
  <2>2. \A a \in AsyncWorkers : \A q \in tasks[a] : q \in Requests /\ q # r
    BY <1>1 DEF Accounted, HeldOnce, InHand, TypeOK
  <2> QED BY <1>2, <2>1, <2>2 DEF Accounted, HeldOnce, InHand, QueueOf
<1>5. Ledger'
  BY <1>1, <1>2 DEF Accounted, Ledger
<1> QED BY <1>3, <1>4, <1>5 DEF Accounted

(* What the workers hold is untouched by what happens to a request that    *)
(* none of them has started.                                               *)
LEMMA HandsKept ==
    ASSUME TypeOK, HeldOnce, UNCHANGED <<cur, tasks>>,
           \A q \in Requests : runs[q] = 1 =>
                reply'[q] = reply[q] /\ runs'[q] = 1 /\ completed'[q] = completed[q]
    PROVE  HeldOnce'
<1>1. \A w \in SyncWorkers : cur[w] # Idle => cur[w] \in Requests /\ runs[cur[w]] = 1
  BY DEF HeldOnce, InHand, TypeOK
<1>2. \A a \in AsyncWorkers : \A q \in tasks[a] : q \in Requests /\ runs[q] = 1
  BY DEF HeldOnce, InHand, TypeOK
<1> QED BY <1>1, <1>2 DEF HeldOnce, InHand, QueueOf

(* A request taken off its queue and done with at once: skipped because    *)
(* its caller gave up, run in a closing loop, or answered with an error.   *)
LEMMA PopAccounts ==
    ASSUME TypeOK, Accounted, NEW k \in Queues, NEW r \in Requests,
           queue[k] # <<>>, r = Head(queue[k]),
           queue' = [queue EXCEPT ![k] = Tail(@)],
           UNCHANGED <<caller, cur, tasks>>,
           CountCompleted(r),
           \/ UNCHANGED <<reply, runs>>
           \/ Send(r, "lost") /\ UNCHANGED runs
           \/ Send(r, "result") /\ runs' = [runs EXCEPT ![r] = @ + 1]
    PROVE  Accounted'
<1>1. reply[r] = "pending" /\ runs[r] = 0 /\ completed[r] = 0
  BY PopOnce DEF Accounted
<1>2. /\ completed'[r] = 1
      /\ reply'[r] \in {"pending", "lost"} \/ (reply'[r] = "result" /\ runs'[r] = 1)
      /\ reply'[r] # "pending" => caller[r] = "waiting"
      /\ \A q \in Requests : q # r =>
            reply'[q] = reply[q] /\ runs'[q] = runs[q] /\ completed'[q] = completed[q]
  <2>1. /\ completed'[r] = 1
        /\ \A q \in Requests : q # r => completed'[q] = completed[q]
    BY <1>1 DEF CountCompleted, TypeOK
  <2>2. CASE UNCHANGED <<reply, runs>>
    BY <1>1, <2>1, <2>2
  <2>3. CASE Send(r, "lost") /\ UNCHANGED runs
    BY <1>1, <2>1, <2>3 DEF Send, IsClosed, TypeOK
  <2>4. CASE Send(r, "result") /\ runs' = [runs EXCEPT ![r] = @ + 1]
    BY <1>1, <2>1, <2>4 DEF Send, IsClosed, TypeOK
  <2> QED BY <2>2, <2>3, <2>4
<1>3. QueuedOnce'
  BY <1>2, QueueTaken DEF Accounted
<1>4. HeldOnce'
  BY <1>1, <1>2, HandsKept DEF Accounted
<1>5. Ledger'
  BY <1>1, <1>2 DEF Accounted, Ledger
<1> QED BY <1>3, <1>4, <1>5 DEF Accounted

(* A request taken off its queue by the worker that runs it.               *)
LEMMA StartAccounts ==
    ASSUME TypeOK, Accounted, NEW k \in Queues, NEW r \in Requests,
           queue[k] # <<>>, r = Head(queue[k]),
           queue' = [queue EXCEPT ![k] = Tail(@)],
           UNCHANGED <<caller, reply, completed>>,
           runs' = [runs EXCEPT ![r] = @ + 1],
           \/ /\ k = "sync" /\ UNCHANGED tasks
              /\ \E w \in SyncWorkers : cur[w] = Idle /\ cur' = [cur EXCEPT ![w] = r]
           \/ /\ k = "async" /\ UNCHANGED cur
              /\ \E a \in AsyncWorkers : tasks' = [tasks EXCEPT ![a] = @ \cup {r}]
    PROVE  Accounted'
<1>1. QueueOf(r) = k /\ reply[r] = "pending" /\ runs[r] = 0 /\ completed[r] = 0
  BY PopOnce DEF Accounted
<1>2. runs'[r] = 1 /\ \A q \in Requests : q # r => runs'[q] = runs[q]
  BY <1>1 DEF TypeOK
<1>3. QueuedOnce'
  BY <1>2, QueueTaken DEF Accounted
<1>4. HeldOnce'
  <2>1. \A w \in SyncWorkers : cur[w] # Idle => cur[w] \in Requests /\ cur[w] # r
    BY <1>1 DEF Accounted, HeldOnce, InHand, TypeOK
  <2>2. \A a \in AsyncWorkers : \A q \in tasks[a] : q \in Requests /\ q # r
    BY <1>1 DEF Accounted, HeldOnce, InHand, TypeOK
  <2>3. ASSUME NEW w \in SyncWorkers, k = "sync", UNCHANGED tasks,
               cur' = [cur EXCEPT ![w] = r]
        PROVE  HeldOnce'
    <3>1. \A v \in SyncWorkers : cur'[v] = IF v = w THEN r ELSE cur[v]
      BY <2>3 DEF TypeOK
    <3>2. \A v \in SyncWorkers : cur'[v] # Idle =>
            InHand(cur[v], "sync")' /\ \A u \in SyncWorkers : cur'[u] = cur'[v] => u = v
      BY <1>1, <1>2, <2>1, <2>3, <3>1, PoolAssumption DEF Accounted, HeldOnce, InHand, QueueOf
    <3> QED BY <1>1, <1>2, <2>2, <2>3, <3>2 DEF Accounted, HeldOnce, InHand, QueueOf
  <2>4. ASSUME NEW a \in AsyncWorkers, k = "async", UNCHANGED cur,
               tasks' = [tasks EXCEPT ![a] = @ \cup {r}]
        PROVE  HeldOnce'
    <3>1. \A b \in AsyncWorkers : tasks'[b] = IF b = a THEN tasks[b] \cup {r} ELSE tasks[b]
      BY <2>4 DEF TypeOK
    <3>2. \A b \in AsyncWorkers : \A q \in tasks'[b] :
            InHand(q, "async")' /\ \A c \in AsyncWorkers : q \in tasks'[c] => c = b
      BY <1>1, <1>2, <2>2, <2>4, <3>1 DEF Accounted, HeldOnce, InHand, QueueOf
    <3> QED BY <1>1, <1>2, <2>1, <2>4, <3>2 DEF Accounted, HeldOnce, InHand, QueueOf
  <2> QED BY <2>3, <2>4
<1>5. Ledger'
  BY <1>1, <1>2 DEF Accounted, Ledger
<1> QED BY <1>3, <1>4, <1>5 DEF Accounted

(* A started request answered, or its answer lost, by the worker that has  *)
(* it and then has it no more.                                             *)
LEMMA FinishAccounts ==
    ASSUME TypeOK, Accounted, NEW r \in Requests, NEW v \in {"result", "lost"},
           Send(r, v), CountCompleted(r), UNCHANGED <<caller, queue, runs>>,
           \/ /\ UNCHANGED tasks
              /\ \E w \in SyncWorkers : cur[w] = r /\ cur' = [cur EXCEPT ![w] = Idle]
           \/ /\ UNCHANGED cur
              /\ \E a \in AsyncWorkers : r \in tasks[a] /\ tasks' = [tasks EXCEPT ![a] = @ \ {r}]
    PROVE  Accounted'
<1>1. runs[r] = 1 /\ completed[r] = 0 /\ reply[r] = "pending"
  BY PoolAssumption DEF Accounted, HeldOnce, InHand
<1>2. /\ completed'[r] = 1
      /\ reply'[r] \in {"pending", v}
      /\ reply'[r] # "pending" => caller[r] = "waiting"
      /\ \A q \in Requests : q # r => reply'[q] = reply[q] /\ completed'[q] = completed[q]
  BY <1>1 DEF Send, CountCompleted, IsClosed, TypeOK
<1>3. QueuedOnce'
  <2>1. \A k \in Queues : \A i \in DOMAIN queue[k] :
            queue[k][i] \in Requests /\ queue[k][i] # r
    BY <1>1 DEF Accounted, QueuedOnce, TypeOK
  <2> QED BY <1>2, <2>1 DEF Accounted, QueuedOnce, QueueOf
<1>4. HeldOnce'
  <2>1. ASSUME NEW w \in SyncWorkers, cur[w] = r, UNCHANGED tasks,
               cur' = [cur EXCEPT ![w] = Idle]
        PROVE  HeldOnce'
    <3>1. \A u \in SyncWorkers : cur'[u] = IF u = w THEN Idle ELSE cur[u]
      BY <2>1 DEF TypeOK
    <3>2. \A u \in SyncWorkers : cur'[u] # Idle => cur[u] \in Requests \ {r} /\ cur'[u] = cur[u]
      BY <2>1, <3>1 DEF Accounted, HeldOnce, TypeOK
    <3>3. \A a \in AsyncWorkers : \A q \in tasks[a] : q \in Requests /\ q # r
      <4>1. QueueOf(r) = "sync"
        BY <2>1, PoolAssumption DEF Accounted, HeldOnce, InHand
      <4> QED BY <4>1 DEF Accounted, HeldOnce, InHand, TypeOK
    <3>4. \A u \in SyncWorkers : cur'[u] # Idle =>
            InHand(cur[u], "sync")' /\ \A t \in SyncWorkers : cur'[t] = cur'[u] => t = u
      BY <1>2, <3>1, <3>2 DEF Accounted, HeldOnce, InHand, QueueOf
    <3>5. \A a \in AsyncWorkers : \A q \in tasks[a] : InHand(q, "async")'
      BY <1>2, <3>3 DEF Accounted, HeldOnce, InHand, QueueOf
    <3> QED BY <2>1, <3>4, <3>5 DEF Accounted, HeldOnce
  <2>2. ASSUME NEW a \in AsyncWorkers, r \in tasks[a], UNCHANGED cur,
               tasks' = [tasks EXCEPT ![a] = @ \ {r}]
        PROVE  HeldOnce'
    <3>1. \A b \in AsyncWorkers : tasks'[b] = IF b = a THEN tasks[b] \ {r} ELSE tasks[b]
      BY <2>2 DEF TypeOK
    <3>2. \A b \in AsyncWorkers : \A q \in tasks'[b] : q \in Requests \ {r} /\ q \in tasks[b]
      BY <2>2, <3>1 DEF Accounted, HeldOnce, TypeOK
    <3>3. \A w \in SyncWorkers : cur[w] # Idle => cur[w] \in Requests \ {r}
      <4>1. QueueOf(r) = "async"
        BY <2>2 DEF Accounted, HeldOnce, InHand
      <4> QED BY <4>1 DEF Accounted, HeldOnce, InHand, TypeOK
    <3>4. \A b \in AsyncWorkers : \A q \in tasks'[b] :
            InHand(q, "async")' /\ \A c \in AsyncWorkers : q \in tasks'[c] => c = b
      BY <1>2, <3>2 DEF Accounted, HeldOnce, InHand, QueueOf
    <3>5. \A w \in SyncWorkers : cur[w] # Idle => InHand(cur[w], "sync")'
      BY <1>2, <2>2, <3>3 DEF Accounted, HeldOnce, InHand, QueueOf
    <3> QED BY <2>2, <3>4, <3>5 DEF Accounted, HeldOnce
  <2> QED BY <2>1, <2>2
<1>5. Ledger'
  BY <1>1, <1>2 DEF Accounted, Ledger
<1> QED BY <1>3, <1>4, <1>5 DEF Accounted

(* The last receiver's discard answers the queued requests and touches     *)
(* nothing that a worker has.                                              *)
LEMMA DiscardAccounts ==
    ASSUME TypeOK, Accounted, NEW k \in Queues, DiscardQueue(k),
           UNCHANGED <<caller, cur, tasks, runs, completed>>
    PROVE  Accounted'
<1>1. \A q \in Range(queue[k]) : q \in Requests /\ runs[q] = 0 /\ QueueOf(q) = k
  BY DEF Accounted, QueuedOnce, Range, TypeOK
<1>2. \A q \in Requests :
        \/ reply'[q] = reply[q]
        \/ q \in Range(queue[k]) /\ caller[q] = "waiting" /\ reply'[q] = "lost"
  BY DEF DiscardQueue, IsClosed
<1>3. QueuedOnce'
  <2>1. queue'[k] = <<>> /\ \A j \in Queues : j # k => queue'[j] = queue[j]
    BY DEF DiscardQueue, TypeOK
  <2>2. \A j \in Queues : j # k => \A i \in DOMAIN queue[j] :
            /\ queue[j][i] \in Requests
            /\ reply'[queue[j][i]] = reply[queue[j][i]]
    BY <1>1, <1>2 DEF Accounted, QueuedOnce, TypeOK
  <2> QED BY <2>1, <2>2 DEF Accounted, QueuedOnce, QueueOf
<1>4. HeldOnce'
  BY <1>1, <1>2, HandsKept DEF Accounted
<1>5. Ledger'
  BY <1>1, <1>2 DEF Accounted, Ledger
<1> QED BY <1>3, <1>4, <1>5 DEF Accounted

(* Every step of the system keeps the accounts.                            *)
LEMMA AccountsStep ==
    ASSUME TypeOK, Accounted, [Next]_vars
    PROVE  Accounted'
<1> USE DEF callerVars, threadVars, serverVars
<1>1. ASSUME NEW r \in Requests, CallerNext(r)
      PROVE  Accounted'
  <2>1. CASE Submit(r)
    <3>1. CASE EndCaller(r, "closed") \/ EndCaller(r, "overloaded")
      <4>1. UNCHANGED workVars
        <5>1. QueueOf(r) \in Queues
          BY DEF QueueOf, Queues
        <5>2. caller' # [caller EXCEPT ![r] = "waiting"]
          BY <3>1 DEF EndCaller, TypeOK
        <5> QED BY <2>1, <5>2 DEF Submit, workVars
      <4> QED BY <3>1, <4>1, AccountsKept DEF EndCaller, TypeOK
    <3>2. CASE /\ caller' = [caller EXCEPT ![r] = "waiting"]
               /\ queue' = [queue EXCEPT ![QueueOf(r)] = Append(@, r)]
               /\ reply' = [reply EXCEPT ![r] = "pending"]
      BY <2>1, <3>2, SubmitAccounts DEF Submit
    <3> QED BY <2>1, <3>1, <3>2 DEF Submit
  <2>2. CASE ~Submit(r)
    <3>1. UNCHANGED workVars
      BY <1>1, <2>2 DEF CallerNext, Arrive, BodyGrows, BodyRejected, TakeReply,
              Timeout, Disconnect, DropCaller
    <3>2. \/ UNCHANGED caller
          \/ \E o \in Outcomes : caller' = [caller EXCEPT ![r] = o]
          \/ caller[r] = "new" /\ caller' = [caller EXCEPT ![r] = "collecting"]
      BY <1>1, <2>2 DEF CallerNext, Arrive, BodyGrows, Admit, BodyRejected, TakeReply,
              Timeout, Disconnect, DropCaller, EndCaller, Outcomes
    <3>3. \A q \in Requests : caller'[q] \in {"new", "collecting"} =>
                caller[q] \in {"new", "collecting"}
      BY <3>2 DEF TypeOK, Outcomes
    <3> QED BY <3>1, <3>3, AccountsKept
  <2> QED BY <2>1, <2>2
<1>2. ASSUME NEW w \in SyncWorkers, SyncNext(w)
      PROVE  Accounted'
  <2>1. CASE SyncTake(w)
    <3>0. PICK r \in Requests : r = Head(queue["sync"])
      BY <2>1, PopType DEF SyncTake, Queues
    <3>1. /\ "sync" \in Queues /\ queue["sync"] # <<>> /\ cur[w] = Idle
          /\ queue' = [queue EXCEPT !["sync"] = Tail(@)]
          /\ UNCHANGED <<caller, reply, tasks>>
      BY <2>1 DEF SyncTake, Queues
    <3>2. CASE CountCompleted(r) /\ UNCHANGED <<cur, runs>>
      BY <3>0, <3>1, <3>2, PopAccounts
    <3>3. CASE /\ cur' = [cur EXCEPT ![w] = r]
               /\ runs' = [runs EXCEPT ![r] = @ + 1]
               /\ UNCHANGED completed
      BY <3>0, <3>1, <3>3, StartAccounts
    <3> QED BY <2>1, <3>0, <3>2, <3>3 DEF SyncTake
  <2>2. CASE SyncFinish(w)
    <3>1. cur[w] \in Requests
      BY <2>2 DEF SyncFinish, TypeOK
    <3> QED BY <2>2, <3>1, FinishAccounts DEF SyncFinish
  <2>3. CASE SyncEnd(w)
    BY <2>3, AccountsKept DEF SyncEnd
  <2> QED BY <1>2, <2>1, <2>2, <2>3 DEF SyncNext
<1>3. ASSUME NEW a \in AsyncWorkers, AsyncNext(a)
      PROVE  Accounted'
  <2>0. ASSUME queue["async"] # <<>>
        PROVE  \E r \in Requests : r = Head(queue["async"])
    BY <2>0, PopType DEF Queues
  <2>1. CASE Fetch(a)
    <3>0. PICK r \in Requests : r = Head(queue["async"])
      BY <2>0, <2>1 DEF Fetch
    <3>1. /\ "async" \in Queues /\ queue["async"] # <<>>
          /\ queue' = [queue EXCEPT !["async"] = Tail(@)]
          /\ UNCHANGED <<caller, reply, cur>>
      BY <2>1 DEF Fetch, Queues
    <3>2. CASE CountCompleted(r) /\ UNCHANGED <<tasks, runs>>
      BY <3>0, <3>1, <3>2, PopAccounts
    <3>3. CASE /\ tasks' = [tasks EXCEPT ![a] = @ \cup {r}]
               /\ runs' = [runs EXCEPT ![r] = @ + 1]
               /\ UNCHANGED completed
      BY <3>0, <3>1, <3>3, StartAccounts
    <3> QED BY <2>1, <3>0, <3>2, <3>3 DEF Fetch
  <2>2. CASE FetchLate(a) \/ FetcherFails(a)
    <3>0. PICK r \in Requests : r = Head(queue["async"])
      BY <2>0, <2>2 DEF FetchLate, FetcherFails
    <3>1. /\ "async" \in Queues /\ queue["async"] # <<>>
          /\ queue' = [queue EXCEPT !["async"] = Tail(@)]
          /\ UNCHANGED <<caller, cur, tasks>>
          /\ CountCompleted(r)
      BY <2>2, <3>0 DEF FetchLate, FetcherFails, Queues
    <3>2. \/ Send(r, "result") /\ runs' = [runs EXCEPT ![r] = @ + 1]
          \/ Send(r, "lost") /\ UNCHANGED runs
      BY <2>2, <3>0 DEF FetchLate, FetcherFails
    <3> QED BY <3>0, <3>1, <3>2, PopAccounts
  <2>3. CASE FetcherStops(a) \/ EngineStops(a) \/ EngineWaited(a) \/ EngineCloses(a)
    BY <2>3, AccountsKept DEF FetcherStops, EngineStops, EngineWaited, EngineCloses
  <2>4. ASSUME NEW q \in Requests, TaskDone(a, q) \/ TaskCancelled(a, q)
        PROVE  Accounted'
    BY <2>4, FinishAccounts DEF TaskDone, TaskCancelled
  <2> QED BY <1>3, <2>1, <2>2, <2>3, <2>4 DEF AsyncNext
<1>4. ASSUME NEW w \in Workers, WorkerEnded(w)
      PROVE  Accounted'
  <2>1. CASE UNCHANGED <<queue, reply>>
    BY <1>4, <2>1, AccountsKept DEF WorkerEnded, workVars
  <2>2. ASSUME NEW k \in Queues, DiscardQueue(k)
        PROVE  Accounted'
    BY <1>4, <2>2, DiscardAccounts DEF WorkerEnded
  <2> QED BY <1>4, <2>1, <2>2 DEF WorkerEnded, Queues
<1>5. CASE ServerNext
  BY <1>5, AccountsKept DEF ServerNext, Stop, EndDrain, ClosePool, JoinThread, AbandonThread, Exit
<1>6. CASE UNCHANGED vars
  BY <1>6, AccountsKept DEF vars
<1> QED BY <1>1, <1>2, <1>3, <1>4, <1>5, <1>6 DEF Next, Terminated

(* No WorkRequest is anywhere as the pool starts.                          *)
LEMMA AccountsInit == Init => Accounted
BY DEF Init, Accounted, QueuedOnce, HeldOnce, Ledger, TypeOK

(* A request is counted once at most, and only once its WorkRequest has    *)
(* left the queues, the sync workers and the engines for good.             *)
THEOREM PoolCorrect == Spec => []PoolSafe
<1>1. TypeOK /\ Accounted => CompletedOnce
  <2> SUFFICES ASSUME TypeOK, Accounted, NEW r \in Requests
               PROVE  completed[r] <= (IF Held(r) THEN 0 ELSE 1)
    BY DEF CompletedOnce
  <2>1. Held(r) => completed[r] = 0
    BY PoolAssumption DEF Held, Queued, Range, Accounted, QueuedOnce, HeldOnce, InHand
  <2>2. completed[r] \in {0, 1}
    BY DEF Accounted, Ledger
  <2> QED BY <2>1, <2>2
<1> QED BY <1>1, AccountsInit, AccountsStep, TypeCorrect, PermitsCorrect, PTL
        DEF Spec, PoolSafe

-----------------------------------------------------------------------------
(* The pool implements RequestService.                                     *)

(* A caller's own change is a change of its status alone.                  *)
LEMMA StatusOf ==
    ASSUME TypeOK, NEW r \in Requests,
           NEW o \in Outcomes \cup {"collecting", "waiting"},
           caller' = [caller EXCEPT ![r] = o]
    PROVE  Status' = [Status EXCEPT ![r] = IF o \in Outcomes THEN o ELSE "open"]
BY DEF Status, Live, Outcomes, TypeOK

(* A future that ends while its request is open finishes it.               *)
LEMMA EndsService ==
    ASSUME TypeOK, NEW r \in Requests, Live(r), UNCHANGED runs,
           NEW o \in {"result", "lost", "timeout", "gone"}, EndCaller(r, o),
           o = "result" => runs[r] = 1
    PROVE  Service!Finish(r)
<1>1. Status[r] = "open"
  BY DEF Status
<1>2. Status' = [Status EXCEPT ![r] = o]
  BY StatusOf DEF EndCaller, Outcomes
<1> QED BY <1>1, <1>2 DEF Service!Finish, Service!Endings

(* A future that is refused before its handler started.                    *)
LEMMA RefusesService ==
    ASSUME TypeOK, Accounted, NEW r \in Requests, UNCHANGED runs,
           caller[r] \in {"new", "collecting"},
           NEW o \in {"overloaded", "closed", "rejected"}, EndCaller(r, o)
    PROVE  Service!Refuse(r)
<1>1. Status[r] \in {"new", "open"}
  BY DEF Status, Live
<1>2. Status' = [Status EXCEPT ![r] = o]
  BY StatusOf DEF EndCaller, Outcomes
<1>3. runs[r] = 0
  BY DEF Accounted, Ledger
<1> QED BY <1>1, <1>2, <1>3 DEF Service!Refuse, Service!Refusals

(* A handler is started once, for a caller that waits.                     *)
LEMMA StartsService ==
    ASSUME TypeOK, Accounted, NEW k \in Queues, NEW r \in Requests,
           queue[k] # <<>>, r = Head(queue[k]),
           queue' = [queue EXCEPT ![k] = Tail(@)],
           ~IsClosed(r), UNCHANGED caller, runs' = [runs EXCEPT ![r] = @ + 1]
    PROVE  Service!Start(r)
<1>1. runs[r] = 0
  BY PopOnce DEF Accounted
<1>2. Status[r] = "open" /\ UNCHANGED Status
  BY DEF Status, Live, IsClosed
<1>3. runs' = [runs EXCEPT ![r] = 1]
  BY <1>1 DEF TypeOK
<1> QED BY <1>1, <1>2, <1>3 DEF Service!Start

(* Every step of the pool is a step of the service or leaves it as it is.  *)
LEMMA ServiceStep ==
    ASSUME TypeOK, Accounted, [Next]_vars
    PROVE  Service!Next \/ UNCHANGED <<Status, runs>>
<1> USE DEF callerVars, threadVars, serverVars
<1>0. ASSUME UNCHANGED <<caller, runs>>
      PROVE  UNCHANGED <<Status, runs>>
  BY <1>0 DEF Status, Live
<1>1. ASSUME NEW r \in Requests, CallerNext(r)
      PROVE  Service!Next \/ UNCHANGED <<Status, runs>>
  <2>0. UNCHANGED runs
    BY <1>1 DEF CallerNext, Arrive, BodyGrows, BodyRejected, Submit, TakeReply,
              Timeout, Disconnect, DropCaller, workVars
  <2>1. CASE Arrive(r)
    <3>1. CASE EndCaller(r, "overloaded")
      BY <2>0, <2>1, <3>1, RefusesService DEF Arrive, Service!Next
    <3>2. CASE caller' = [caller EXCEPT ![r] = "collecting"]
      <4>1. Status[r] = "new"
        BY <2>1 DEF Arrive, Status, Live
      <4>2. Status' = [Status EXCEPT ![r] = "open"]
        BY <3>2, StatusOf DEF Outcomes
      <4> QED BY <2>0, <4>1, <4>2 DEF Service!Next, Service!Open
    <3> QED BY <2>1, <3>1, <3>2 DEF Arrive
  <2>2. CASE BodyGrows(r)
    <3>1. CASE EndCaller(r, "overloaded")
      BY <2>0, <2>2, <3>1, RefusesService DEF BodyGrows, Service!Next
    <3>2. CASE UNCHANGED caller
      BY <1>0, <2>0, <3>2
    <3> QED BY <2>2, <3>1, <3>2 DEF BodyGrows, Admit
  <2>3. CASE BodyRejected(r)
    BY <2>0, <2>3, RefusesService DEF BodyRejected, Service!Next
  <2>4. CASE Submit(r)
    <3>1. CASE EndCaller(r, "closed") \/ EndCaller(r, "overloaded")
      BY <2>0, <2>4, <3>1, RefusesService DEF Submit, Service!Next
    <3>2. CASE caller' = [caller EXCEPT ![r] = "waiting"]
      <4>1. Status[r] = "open"
        BY <2>4 DEF Submit, Status, Live
      <4>2. Status' = [Status EXCEPT ![r] = "open"]
        BY <3>2, StatusOf DEF Outcomes
      <4> QED BY <2>0, <4>1, <4>2 DEF Status
    <3> QED BY <2>4, <3>1, <3>2 DEF Submit
  <2>5. CASE TakeReply(r)
    <3>1. reply[r] = "result" => runs[r] = 1
      BY DEF Accounted, Ledger
    <3> QED BY <2>0, <2>5, <3>1, EndsService DEF TakeReply, Live, Service!Next
  <2>6. CASE Timeout(r) \/ Disconnect(r) \/ DropCaller(r)
    BY <2>0, <2>6, EndsService DEF Timeout, Disconnect, DropCaller, Live, Service!Next
  <2> QED BY <1>1, <2>1, <2>2, <2>3, <2>4, <2>5, <2>6 DEF CallerNext
<1>2. ASSUME NEW w \in SyncWorkers, SyncNext(w)
      PROVE  Service!Next \/ UNCHANGED <<Status, runs>>
  <2>1. CASE SyncTake(w)
    <3>0. PICK r \in Requests : r = Head(queue["sync"])
      BY <2>1, PopType DEF SyncTake, Queues
    <3>1. CASE UNCHANGED runs
      BY <1>0, <2>1, <3>1 DEF SyncTake
    <3>2. CASE ~IsClosed(r) /\ runs' = [runs EXCEPT ![r] = @ + 1]
      BY <2>1, <3>0, <3>2, StartsService DEF SyncTake, Queues, Service!Next
    <3> QED BY <2>1, <3>0, <3>1, <3>2 DEF SyncTake
  <2>2. CASE SyncFinish(w) \/ SyncEnd(w)
    BY <1>0, <2>2 DEF SyncFinish, SyncEnd, workVars
  <2> QED BY <1>2, <2>1, <2>2 DEF SyncNext
<1>3. ASSUME NEW a \in AsyncWorkers, AsyncNext(a)
      PROVE  Service!Next \/ UNCHANGED <<Status, runs>>
  <2>1. CASE Fetch(a) \/ FetchLate(a)
    <3>0. PICK r \in Requests : r = Head(queue["async"])
      BY <2>1, PopType DEF Fetch, FetchLate, Queues
    <3>1. CASE UNCHANGED runs
      BY <1>0, <2>1, <3>1 DEF Fetch, FetchLate
    <3>2. CASE ~IsClosed(r) /\ runs' = [runs EXCEPT ![r] = @ + 1]
      BY <2>1, <3>0, <3>2, StartsService DEF Fetch, FetchLate, Queues, Service!Next
    <3> QED BY <2>1, <3>0, <3>1, <3>2 DEF Fetch, FetchLate
  <2>2. CASE ~Fetch(a) /\ ~FetchLate(a)
    <3>1. UNCHANGED <<caller, runs>>
      BY <1>3, <2>2 DEF AsyncNext, FetcherStops, FetcherFails, EngineStops, EngineWaited,
                        EngineCloses, TaskDone, TaskCancelled, workVars
    <3> QED BY <1>0, <3>1
  <2> QED BY <2>1, <2>2
<1>4. ASSUME NEW w \in Workers, WorkerEnded(w)
      PROVE  UNCHANGED <<Status, runs>>
  BY <1>0, <1>4 DEF WorkerEnded
<1>5. CASE ServerNext
  BY <1>0, <1>5 DEF ServerNext, Stop, EndDrain, ClosePool, JoinThread, AbandonThread, Exit,
                    workVars
<1>6. CASE UNCHANGED vars
  BY <1>0, <1>6 DEF vars, workVars
<1> QED BY <1>1, <1>2, <1>3, <1>4, <1>5, <1>6 DEF Next, Terminated

(* The pool implements the service the HTTP layer relies on: whatever      *)
(* happens to queues, workers, engines, timers and the stop, a request is  *)
(* answered at most once, its handler is started at most once and only     *)
(* while its caller waits, and a refusal means that it never started.      *)
THEOREM ServiceCorrect == Spec => ServicePromise
<1>1. Init => Service!Init
  BY DEF Init, Service!Init, Status, Live
<1>2. TypeOK /\ Accounted /\ [Next]_vars => [Service!Next]_<<Status, runs>>
  BY ServiceStep
<1>3. Spec => []Accounted
  BY AccountsInit, AccountsStep, TypeCorrect, PTL DEF Spec
<1> QED BY <1>1, <1>2, <1>3, TypeCorrect, PTL DEF Spec, ServicePromise, Service!Spec
=============================================================================
