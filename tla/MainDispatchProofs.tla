------------------------- MODULE MainDispatchProofs -------------------------
(***************************************************************************)
(* Proofs about MainDispatch for every set of requests, every number of    *)
(* bridge and blocking threads and every queue capacity: what its threads  *)
(* hold, what its callers see, and that a TPC thread implements            *)
(* RequestService as the sub-interpreter pool does.                        *)
(***************************************************************************)
EXTENDS MainDispatch, FiniteSetTheorems, TLAPS

MdStates == {"idle", "attach", "hold", "io", "exited"}
MdStatuses == {"new", "open", "overloaded", "rejected", "result", "timeout", "gone"}

(* The invariant in two halves: the threads and the GIL, and the requests. *)
MdHands ==
    /\ mdThread \in [MdThreads -> MdStates]
    /\ {t \in MdThreads : mdThread[t] = "hold"} = {mdGil} \ {MdNone, MdRunner}
    /\ mdGilQueue = Cardinality({t \in MdThreads : mdThread[t] = "attach"})
    /\ MdBridgeSurvives
    /\ MdThreadsTidy

MdCalls ==
    /\ mdStatus \in [MdRequests -> MdStatuses]
    /\ mdFeeder \in [MdRequests -> {"none", "on", "done", "aborted"}]
    /\ mdBudget \in [MdRequests -> {"off", "on", "over"}]
    /\ mdMode = "tpc" => Len(mdQueue) <= MdCapacity
    /\ MdQueuedOnce /\ MdLedger /\ MdInlineOpen

-----------------------------------------------------------------------------
(* The threads.                                                            *)

(* A thread that goes from one state to another, its request with it: who  *)
(* holds the GIL and who waits for it follow.                              *)
LEMMA ThreadMoves ==
    ASSUME MdHands, NEW t \in MdThreads, NEW s \in MdStates,
           mdThread' = [mdThread EXCEPT ![t] = s],
           mdThread[t] # s, mdThread[t] # "exited",
           NEW j \in MdRequests \cup {MdNone}, mdJob' = [mdJob EXCEPT ![t] = j],
           j = MdNone <=> s \in {"idle", "exited"},
           mdGil' = (IF s = "hold" THEN t ELSE IF mdThread[t] = "hold" THEN MdNone ELSE mdGil),
           s = "hold" => mdGil = MdNone,
           mdGilQueue' = (IF s = "attach" THEN mdGilQueue + 1
                          ELSE IF mdThread[t] = "attach" THEN mdGilQueue - 1 ELSE mdGilQueue),
           mdLoop' = (IF s = "exited" THEN mdLoop \ {t} ELSE mdLoop),
           s = "exited" => mdStop = "closing",
           UNCHANGED mdStop
    PROVE  MdHands'
<1> DEFINE Waiting == {u \in MdThreads : mdThread[u] = "attach"}
           Holding == {u \in MdThreads : mdThread[u] = "hold"}
<1>0. /\ mdThread \in [MdThreads -> MdStates]
      /\ mdJob \in [MdThreads -> MdRequests \cup {MdNone}]
      /\ Holding = {mdGil} \ {MdNone, MdRunner}
      /\ IsFiniteSet(Waiting) /\ mdGilQueue = Cardinality(Waiting)
  BY DEF MdHands, MdThreadsTidy
<1>1. /\ mdThread' \in [MdThreads -> MdStates]
      /\ \A u \in MdThreads : mdThread'[u] = IF u = t THEN s ELSE mdThread[u]
  BY <1>0
<1>2. /\ mdJob' \in [MdThreads -> MdRequests \cup {MdNone}]
      /\ \A u \in MdThreads : mdJob'[u] = IF u = t THEN j ELSE mdJob[u]
  BY <1>0
<1>3. {u \in MdThreads : mdThread'[u] = "hold"} = {mdGil'} \ {MdNone, MdRunner}
  <2>0. t # MdNone /\ t # MdRunner
    BY MdAssumption
  <2>1. CASE s = "hold"
    BY <1>0, <1>1, <2>0, <2>1
  <2>2. CASE s # "hold" /\ mdThread[t] = "hold"
    BY <1>0, <1>1, <2>0, <2>2
  <2>3. CASE s # "hold" /\ mdThread[t] # "hold"
    BY <1>0, <1>1, <2>3
  <2> QED BY <2>1, <2>2, <2>3
<1>4. /\ IsFiniteSet(Waiting')
      /\ mdGilQueue' = Cardinality(Waiting')
  <2>1. CASE s = "attach"
    <3>1. Waiting' = Waiting \cup {t} /\ t \notin Waiting
      BY <1>1, <2>1
    <3> HIDE DEF Waiting
    <3>2. /\ IsFiniteSet(Waiting \cup {t})
          /\ Cardinality(Waiting \cup {t}) = Cardinality(Waiting) + 1
      BY <1>0, <3>1, FS_AddElement
    <3> QED BY <1>0, <2>1, <3>1, <3>2
  <2>2. CASE s # "attach" /\ mdThread[t] = "attach"
    <3>1. Waiting' = Waiting \ {t} /\ t \in Waiting
      BY <1>1, <2>2
    <3> QED BY <1>0, <2>2, <3>1, FS_RemoveElement
  <2>3. CASE s # "attach" /\ mdThread[t] # "attach"
    <3>1. Waiting' = Waiting
      BY <1>1, <2>3
    <3> QED BY <1>0, <2>3, <3>1
  <2> QED BY <2>1, <2>2, <2>3
<1>5. MdBridgeSurvives'
  BY <1>1 DEF MdHands, MdBridgeSurvives, MdThreads
<1>6. mdStop # "joined" \/ t \notin MdBridgeThreads
  BY DEF MdHands, MdThreadsTidy
<1>7. MdThreadsTidy'
  <2>1. \A u \in MdThreads : mdJob'[u] = MdNone <=> mdThread'[u] \in {"idle", "exited"}
    BY <1>1, <1>2 DEF MdHands, MdThreadsTidy
  <2>2. \A u \in MdThreads : mdThread'[u] = "exited" => u \notin mdLoop'
    BY <1>1 DEF MdHands, MdThreadsTidy
  <2>3. mdStop' = "joined" => \A u \in MdBridgeThreads : mdThread'[u] = "exited"
    BY <1>1, <1>6 DEF MdHands, MdThreadsTidy, MdThreads
  <2> QED BY <1>2, <1>4, <2>1, <2>2, <2>3 DEF MdThreadsTidy
<1> QED BY <1>1, <1>3, <1>4, <1>5, <1>7 DEF MdHands

(* Whatever a thread does keeps what the threads hold.                     *)
LEMMA ThreadHands ==
    ASSUME MdHands, MdCalls, NEW t \in MdThreads,
           \/ MdThreadStep(t) \/ MdMakesLoop(t) \/ MdLetsGo(t) \/ MdTakesBack(t)
           \/ MdHandlerEnds(t) \/ MdHandlerPanics(t)
    PROVE  MdHands'
<1>0. /\ mdThread \in [MdThreads -> MdStates]
      /\ mdJob \in [MdThreads -> MdRequests \cup {MdNone}]
      /\ mdJob[t] = MdNone <=> mdThread[t] \in {"idle", "exited"}
      /\ mdJob = [mdJob EXCEPT ![t] = mdJob[t]]
      /\ mdJob[t] \in MdRequests \cup {MdNone}
  BY DEF MdHands, MdThreadsTidy
<1>1. CASE MdTakes(t)
  <2>0. mdQueue # <<>> /\ mdQueue \in Seq(MdRequests) /\ mdThread[t] = "idle"
    BY <1>1 DEF MdTakes, MdCalls, MdQueuedOnce
  <2>1. Head(mdQueue) \in MdRequests /\ Head(mdQueue) # MdNone
    BY <2>0, MdAssumption
  <2>2. CASE MdWanted(Head(mdQueue))
    <3>1. /\ mdThread' = [mdThread EXCEPT ![t] = "attach"]
          /\ mdJob' = [mdJob EXCEPT ![t] = Head(mdQueue)]
          /\ mdGilQueue' = mdGilQueue + 1
          /\ UNCHANGED <<mdLoop, mdGil, mdStop>>
      BY <1>1, <2>2 DEF MdTakes
    <3> QED BY <2>0, <2>1, <3>1, ThreadMoves DEF MdStates
  <2>3. CASE ~MdWanted(Head(mdQueue))
    <3>1. UNCHANGED <<mdThread, mdJob, mdGilQueue, mdLoop, mdGil, mdStop>>
      BY <1>1, <2>3 DEF MdTakes
    <3> QED BY <3>1 DEF MdHands, MdBridgeSurvives, MdThreadsTidy
  <2> QED BY <2>2, <2>3
<1>2. CASE MdAttaches(t)
  BY <1>0, <1>2, ThreadMoves DEF MdAttaches, MdStates
<1>3. CASE MdExits(t)
  BY <1>0, <1>3, ThreadMoves DEF MdExits, MdStates
<1>4. CASE MdMakesLoop(t)
  <2>1. /\ mdThread[t] = "hold" /\ mdLoop' = mdLoop \cup {t}
        /\ UNCHANGED <<mdThread, mdJob, mdGilQueue, mdGil, mdStop>>
    BY <1>4 DEF MdMakesLoop
  <2> QED BY <2>1 DEF MdHands, MdBridgeSurvives, MdThreadsTidy
<1>5. CASE MdLetsGo(t)
  BY <1>0, <1>5, ThreadMoves DEF MdLetsGo, MdStates
<1>6. CASE MdTakesBack(t)
  BY <1>0, <1>6, ThreadMoves DEF MdTakesBack, MdStates
<1>7. CASE MdHandlerEnds(t) \/ MdHandlerPanics(t)
  BY <1>0, <1>7, ThreadMoves DEF MdHandlerEnds, MdHandlerPanics, MdStates
<1> QED BY <1>1, <1>2, <1>3, <1>4, <1>5, <1>6, <1>7 DEF MdThreadStep

(* The threads stay as they are when nothing of theirs changes, or the     *)
(* stop goes on: only a stop that found every bridge thread gone is over.  *)
LEMMA HandsKept ==
    ASSUME MdHands, UNCHANGED mdWork,
           \/ UNCHANGED mdStop
           \/ mdStop' \in {"stopping", "closing"} /\ mdStop \in {"serving", "stopping"}
           \/ mdStop' = "joined" /\ \A t \in MdBridgeThreads : mdThread[t] = "exited"
    PROVE  MdHands'
BY DEF MdHands, mdWork, MdBridgeSurvives, MdThreadsTidy

-----------------------------------------------------------------------------
(* The requests.                                                           *)

(* A task that runs is not the one in an inline handler.                   *)
LEMMA TaskElsewhere ==
    ASSUME MdCalls, NEW r \in MdRequests, MdTaskRuns(r)
    PROVE  mdTpc # r
BY MdAssumption DEF MdCalls, MdInlineOpen, MdTaskRuns

(* What a caller sees changes, and the queue, the handlers and the replies *)
(* stay: it may only wait while it is open, and collect a body once.       *)
LEMMA CallerMoves ==
    ASSUME MdCalls, NEW r \in MdRequests, NEW s \in MdStatuses \ {"new"},
           NEW p \in {"none", "body", "wait"}, MdBecomes(r, s, p),
           p # "none" => s = "open",
           p = "body" => mdStatus[r] = "new",
           mdStatus[r] # "new" \/ p # "wait",
           mdTpc' \in {mdTpc, MdNone}, mdTpc' # r,
           mdFeeder' \in [MdRequests -> {"none", "on", "done", "aborted"}],
           mdBudget' \in [MdRequests -> {"off", "on", "over"}],
           UNCHANGED <<mdMode, mdReply, mdStarted, mdQueue, mdJob>>
    PROVE  MdCalls'
<1>0. /\ mdStatus \in [MdRequests -> MdStatuses]
      /\ mdPhase \in [MdRequests -> {"none", "body", "wait"}]
      /\ mdQueue \in Seq(MdRequests)
  BY DEF MdCalls, MdLedger, MdQueuedOnce
<1>1. /\ mdStatus' \in [MdRequests -> MdStatuses]
      /\ mdPhase' \in [MdRequests -> {"none", "body", "wait"}]
      /\ mdStatus'[r] = s /\ mdPhase'[r] = p
      /\ \A q \in MdRequests : q # r => mdStatus'[q] = mdStatus[q] /\ mdPhase'[q] = mdPhase[q]
  BY <1>0 DEF MdBecomes
<1>2. MdQueuedOnce'
  <2>1. \A n \in DOMAIN mdQueue : mdQueue[n] \in MdRequests
    BY <1>0
  <2>2. \A n \in DOMAIN mdQueue : mdStatus'[mdQueue[n]] # "new" /\ mdPhase'[mdQueue[n]] # "body"
    BY <1>1, <2>1 DEF MdCalls, MdQueuedOnce
  <2> QED BY <2>2 DEF MdCalls, MdQueuedOnce
<1>3. MdLedger'
  <2>1. \A q \in MdRequests :
          /\ mdPhase'[q] # "none" => mdStatus'[q] = "open"
          /\ mdStatus'[q] = "new" \/ mdPhase'[q] = "body" => mdStarted[q] = 0
    BY <1>1 DEF MdCalls, MdLedger
  <2> QED BY <1>1, <2>1 DEF MdCalls, MdLedger
<1>4. MdInlineOpen'
  BY <1>1 DEF MdCalls, MdInlineOpen, MdOnTpc, MdRequests
<1> QED BY <1>1, <1>2, <1>3, <1>4 DEF MdCalls

(* What a queue holds after a dispatch.                                    *)
LEMMA AppendAt ==
    ASSUME NEW S, NEW q \in Seq(S), NEW x \in S, NEW h \in DOMAIN Append(q, x)
    PROVE  \/ h \in DOMAIN q /\ Append(q, x)[h] = q[h]
           \/ h = Len(q) + 1 /\ h \notin DOMAIN q /\ Append(q, x)[h] = x
OBVIOUS

(* What is left of it once its head is taken.                              *)
LEMMA TailAt ==
    ASSUME NEW S, NEW q \in Seq(S), q # <<>>, NEW h \in DOMAIN Tail(q)
    PROVE  h \in Nat /\ h + 1 \in DOMAIN q /\ h + 1 # 1 /\ Tail(q)[h] = q[h + 1]
OBVIOUS

(* A dispatch puts a request that was never queued at the end of the queue *)
(* while there is room, or refuses it.                                     *)
LEMMA Dispatches ==
    ASSUME MdCalls, NEW r \in MdRequests, MdTaskRuns(r), MdDispatch(r),
           mdStatus[r] = "new" \/ mdPhase[r] = "body",
           UNCHANGED <<mdMode, mdReply, mdStarted, mdJob, mdTpc>>
    PROVE  MdCalls'
<1>0. /\ mdStatus \in [MdRequests -> MdStatuses]
      /\ mdPhase \in [MdRequests -> {"none", "body", "wait"}]
      /\ mdFeeder \in [MdRequests -> {"none", "on", "done", "aborted"}]
      /\ mdBudget \in [MdRequests -> {"off", "on", "over"}]
      /\ mdQueue \in Seq(MdRequests) /\ mdTpc # r
      /\ mdMode = "tpc" => Len(mdQueue) <= MdCapacity
  BY TaskElsewhere DEF MdCalls, MdLedger, MdQueuedOnce
<1>1. CASE ~MdQueueHasRoom
  <2>1. /\ MdBecomes(r, "overloaded", "none")
        /\ mdFeeder' \in [MdRequests -> {"none", "on", "done", "aborted"}]
        /\ UNCHANGED <<mdQueue, mdBudget>>
    BY <1>0, <1>1 DEF MdDispatch
  <2> QED BY <1>0, <2>1, CallerMoves DEF MdStatuses
<1>2. CASE MdQueueHasRoom
  <2>1. /\ mdQueue' = Append(mdQueue, r) /\ MdBecomes(r, "open", "wait")
        /\ mdFeeder' \in [MdRequests -> {"none", "on", "done", "aborted"}]
        /\ mdBudget' \in [MdRequests -> {"off", "on", "over"}]
    BY <1>0, <1>2 DEF MdDispatch
  <2>2. /\ mdStatus' \in [MdRequests -> MdStatuses]
        /\ mdPhase' \in [MdRequests -> {"none", "body", "wait"}]
        /\ mdStatus'[r] = "open" /\ mdPhase'[r] = "wait"
        /\ \A q \in MdRequests : q # r => mdStatus'[q] = mdStatus[q] /\ mdPhase'[q] = mdPhase[q]
    BY <1>0, <2>1 DEF MdBecomes, MdStatuses
  <2>3. mdStarted[r] = 0
    BY DEF MdCalls, MdLedger
  <2>4. mdQueue' \in Seq(MdRequests) /\ (mdMode = "tpc" => Len(mdQueue') <= MdCapacity)
    BY <1>0, <1>2, <2>1, MdAssumption DEF MdQueueHasRoom
  <2>5. \A n \in DOMAIN mdQueue :
          LET q == mdQueue[n] IN
          /\ q \in MdRequests /\ q # r
          /\ mdStatus[q] # "new" /\ mdPhase[q] # "body" /\ mdStarted[q] = 0
          /\ q \in MdOnTpc <=> mdMode = "tpc"
          /\ \A m \in DOMAIN mdQueue : mdQueue[m] = q => m = n
    BY <1>0 DEF MdCalls, MdQueuedOnce
  <2>6. \A n \in DOMAIN mdQueue' :
          \/ n \in DOMAIN mdQueue /\ mdQueue'[n] = mdQueue[n]
          \/ n = Len(mdQueue) + 1 /\ n \notin DOMAIN mdQueue /\ mdQueue'[n] = r
    BY <1>0, <2>1, AppendAt
  <2>7. r \in MdOnTpc <=> mdMode = "tpc"
    BY DEF MdTaskRuns
  <2>8. MdQueuedOnce'
    <3> SUFFICES ASSUME NEW n \in DOMAIN mdQueue'
                 PROVE  LET q == mdQueue'[n] IN
                        /\ mdStatus'[q] # "new" /\ mdPhase'[q] # "body" /\ mdStarted[q] = 0
                        /\ q \in MdOnTpc <=> mdMode = "tpc"
                        /\ \A m \in DOMAIN mdQueue' : mdQueue'[m] = q => m = n
      BY <2>4 DEF MdQueuedOnce
    <3>1. CASE n \in DOMAIN mdQueue /\ mdQueue'[n] = mdQueue[n]
      BY <2>2, <2>5, <2>6, <3>1
    <3>2. CASE n = Len(mdQueue) + 1 /\ mdQueue'[n] = r
      BY <2>2, <2>3, <2>5, <2>6, <2>7, <3>2
    <3> QED BY <2>6, <3>1, <3>2
  <2>9. MdLedger'
    <3>1. \A q \in MdRequests :
            /\ mdPhase'[q] # "none" => mdStatus'[q] = "open"
            /\ mdStatus'[q] = "new" \/ mdPhase'[q] = "body" => mdStarted[q] = 0
      BY <2>2 DEF MdCalls, MdLedger
    <3> QED BY <2>2, <3>1 DEF MdCalls, MdLedger
  <2>10. MdInlineOpen'
    BY <1>0, <2>2 DEF MdCalls, MdInlineOpen, MdOnTpc, MdRequests
  <2> QED BY <2>1, <2>2, <2>4, <2>8, <2>9, <2>10 DEF MdCalls
<1> QED BY <1>1, <1>2

(* A handler is started: for a request that is not queued (any more) and   *)
(* was not started before.                                                 *)
LEMMA Begins ==
    ASSUME MdCalls, NEW r \in MdRequests, mdStarted[r] = 0,
           mdStatus[r] # "new", mdPhase'[r] # "body",
           mdStarted' = [mdStarted EXCEPT ![r] = @ + 1],
           mdPhase' \in [MdRequests -> {"none", "body", "wait"}],
           \A q \in MdRequests : mdPhase'[q] # mdPhase[q] => mdPhase'[q] = "wait" /\ mdStatus[q] = "open",
           mdQueue' \in Seq(MdRequests),
           \A n \in DOMAIN mdQueue' : mdQueue'[n] # r,
           mdQueue' = mdQueue \/ (mdQueue # <<>> /\ mdQueue' = Tail(mdQueue)),
           mdTpc' = mdTpc \/ (mdTpc' = r /\ r \in MdOnTpc /\ mdMode = "tpc" /\ mdStatus[r] = "open"),
           \A t \in MdThreads : mdJob'[t] = mdJob[t] \/ mdJob'[t] = r,
           mdJob \in [MdThreads -> MdRequests \cup {MdNone}],
           mdBudget' \in [MdRequests -> {"off", "on", "over"}],
           UNCHANGED <<mdMode, mdStatus, mdFeeder, mdReply>>
    PROVE  MdCalls'
<1>0. mdStarted \in [MdRequests -> {0, 1}] /\ mdQueue \in Seq(MdRequests)
  BY DEF MdCalls, MdLedger, MdQueuedOnce
<1>1. /\ mdStarted' \in [MdRequests -> {0, 1}] /\ mdStarted'[r] = 1
      /\ \A q \in MdRequests : q # r => mdStarted'[q] = mdStarted[q]
  BY <1>0
<1>2. \A n \in DOMAIN mdQueue : LET q == mdQueue[n] IN
         /\ mdStatus[q] # "new" /\ mdPhase[q] # "body" /\ mdStarted[q] = 0
         /\ q \in MdOnTpc <=> mdMode = "tpc"
         /\ \A m \in DOMAIN mdQueue : mdQueue[m] = q => m = n
  BY DEF MdCalls, MdQueuedOnce
<1>3. \A n \in DOMAIN mdQueue' : LET q == mdQueue'[n] IN
         /\ q \in MdRequests /\ q # r
         /\ mdStatus[q] # "new" /\ mdPhase[q] # "body" /\ mdStarted[q] = 0
         /\ q \in MdOnTpc <=> mdMode = "tpc"
         /\ \A m \in DOMAIN mdQueue' : mdQueue'[m] = q => m = n
  <2>0. \A n \in DOMAIN mdQueue' : mdQueue'[n] \in MdRequests /\ mdQueue'[n] # r
    OBVIOUS
  <2>1. CASE mdQueue' = mdQueue
    BY <1>2, <2>0, <2>1
  <2>2. CASE mdQueue # <<>> /\ mdQueue' = Tail(mdQueue)
    <3>1. ASSUME NEW n \in DOMAIN mdQueue'
          PROVE  /\ n \in Nat /\ n + 1 \in DOMAIN mdQueue
                 /\ mdQueue'[n] = mdQueue[n + 1]
      BY <1>0, <2>2, <3>1, TailAt
    <3>2. ASSUME NEW n \in DOMAIN mdQueue', NEW m \in DOMAIN mdQueue',
                 mdQueue'[m] = mdQueue'[n]
          PROVE  m = n
      <4>1. n \in Nat /\ m \in Nat /\ mdQueue[m + 1] = mdQueue[n + 1]
        BY <3>1, <3>2
      <4>2. m + 1 = n + 1
        BY <1>2, <3>1, <4>1
      <4> QED BY <4>1, <4>2
    <3> QED BY <1>2, <2>0, <3>1, <3>2
  <2> QED BY <2>1, <2>2
<1>4. MdQueuedOnce'
  BY <1>1, <1>3 DEF MdQueuedOnce
<1>5. MdLedger'
  <2>1. \A q \in MdRequests :
          /\ mdPhase'[q] # "none" => mdStatus[q] = "open"
          /\ mdStatus[q] = "new" \/ mdPhase'[q] = "body" => mdStarted'[q] = 0
    BY <1>1 DEF MdCalls, MdLedger
  <2>2. \A q \in MdRequests : mdReply[q] => mdStarted'[q] = 1
    BY <1>1 DEF MdCalls, MdLedger
  <2>3. \A t \in MdThreads : mdJob'[t] # MdNone => mdStarted'[mdJob'[t]] = 1
    BY <1>1 DEF MdCalls, MdLedger
  <2> QED BY <1>1, <2>1, <2>2, <2>3 DEF MdCalls, MdLedger
<1>6. MdInlineOpen'
  BY <1>1 DEF MdCalls, MdInlineOpen, MdOnTpc, MdRequests
<1>7. mdMode' = "tpc" => Len(mdQueue') <= MdCapacity
  BY <1>0, MdAssumption DEF MdCalls
<1> QED BY <1>4, <1>5, <1>6, <1>7 DEF MdCalls

(* The requests stay as they are: a feeder or a budget moves on, a thread  *)
(* is done with its request, or a reply arrives from one that was started. *)
LEMMA CallsKept ==
    ASSUME MdCalls,
           UNCHANGED <<mdMode, mdStatus, mdPhase, mdStarted, mdQueue, mdTpc>>,
           mdFeeder' \in [MdRequests -> {"none", "on", "done", "aborted"}],
           mdBudget' \in [MdRequests -> {"off", "on", "over"}],
           mdReply' \in [MdRequests -> BOOLEAN],
           \A q \in MdRequests : mdReply'[q] => mdReply[q] \/ mdStarted[q] = 1,
           \A t \in MdThreads : mdJob'[t] \in {mdJob[t], MdNone}
    PROVE  MdCalls'
<1>1. MdLedger'
  <2>1. \A q \in MdRequests : mdReply'[q] => mdStarted[q] = 1
    BY DEF MdCalls, MdLedger
  <2>2. \A t \in MdThreads : mdJob'[t] # MdNone => mdStarted[mdJob'[t]] = 1
    BY DEF MdCalls, MdLedger
  <2> QED BY <2>1, <2>2 DEF MdCalls, MdLedger
<1> QED BY <1>1 DEF MdCalls, MdQueuedOnce, MdInlineOpen

(* A request whose caller left is taken off the queue and not started.     *)
LEMMA Skips ==
    ASSUME MdCalls, mdQueue # <<>>, mdQueue' = Tail(mdQueue),
           UNCHANGED <<mdMode, mdCaller, mdReply, mdStarted, mdJob, mdTpc>>
    PROVE  MdCalls'
<1>0. mdQueue \in Seq(MdRequests) /\ mdQueue' \in Seq(MdRequests)
  BY DEF MdCalls, MdQueuedOnce
<1>1. ASSUME NEW n \in DOMAIN mdQueue'
      PROVE  n \in Nat /\ n + 1 \in DOMAIN mdQueue /\ mdQueue'[n] = mdQueue[n + 1]
  BY <1>0, <1>1, TailAt
<1>2. ASSUME NEW n \in DOMAIN mdQueue', NEW m \in DOMAIN mdQueue', mdQueue'[m] = mdQueue'[n]
      PROVE  m = n
  <2>1. n \in Nat /\ m \in Nat /\ mdQueue[m + 1] = mdQueue[n + 1]
    BY <1>1, <1>2
  <2>2. m + 1 = n + 1
    BY <1>1, <2>1 DEF MdCalls, MdQueuedOnce
  <2> QED BY <2>1, <2>2
<1>3. MdQueuedOnce'
  <2> SUFFICES ASSUME NEW n \in DOMAIN mdQueue'
               PROVE  LET q == mdQueue'[n] IN
                      /\ mdStatus[q] # "new" /\ mdPhase[q] # "body" /\ mdStarted[q] = 0
                      /\ q \in MdOnTpc <=> mdMode = "tpc"
                      /\ \A m \in DOMAIN mdQueue' : mdQueue'[m] = q => m = n
    BY <1>0 DEF MdQueuedOnce, mdCaller
  <2> QED BY <1>1, <1>2 DEF MdCalls, MdQueuedOnce
<1>4. mdMode' = "tpc" => Len(mdQueue') <= MdCapacity
  BY <1>0, MdAssumption DEF MdCalls
<1> QED BY <1>3, <1>4 DEF MdCalls, MdLedger, MdInlineOpen, mdCaller

(* Whatever the callers do keeps what is known of the requests.            *)
LEMMA CallerCalls ==
    ASSUME MdHands, MdCalls, NEW r \in MdRequests,
           \/ MdArrives(r) \/ MdCallerStep(r) \/ MdInlineEnds(r)
           \/ MdFeederEnds(r) \/ MdBudgetPasses(r) \/ MdGone(r)
    PROVE  MdCalls'
<1> USE DEF mdWork
<1>0. /\ mdStatus \in [MdRequests -> MdStatuses]
      /\ mdPhase \in [MdRequests -> {"none", "body", "wait"}]
      /\ mdFeeder \in [MdRequests -> {"none", "on", "done", "aborted"}]
      /\ mdBudget \in [MdRequests -> {"off", "on", "over"}]
      /\ mdReply \in [MdRequests -> BOOLEAN]
      /\ mdQueue \in Seq(MdRequests)
      /\ mdJob \in [MdThreads -> MdRequests \cup {MdNone}]
      /\ mdPhase[r] # "none" => mdStatus[r] = "open"
      /\ mdStatus[r] = "new" \/ mdPhase[r] = "body" => mdStarted[r] = 0
  BY DEF MdCalls, MdLedger, MdQueuedOnce, MdHands, MdThreadsTidy
<1>1. CASE MdArrives(r)
  <2>1. CASE r \in MdStreamed
    BY <1>1, <2>1, Dispatches DEF MdArrives
  <2>2. CASE r \notin MdStreamed
    BY <1>0, <1>1, <2>2, CallerMoves, TaskElsewhere DEF MdArrives, MdStatuses
  <2> QED BY <2>1, <2>2
<1>2. CASE MdBodyIn(r)
  BY <1>2, Dispatches DEF MdBodyIn
<1>3. CASE MdBodyRejected(r)
  BY <1>0, <1>3, CallerMoves, TaskElsewhere DEF MdBodyRejected, MdStatuses
<1>4. CASE MdInlineStarts(r)
  <2>1. /\ MdTaskRuns(r) /\ mdPhase[r] = "body" /\ r \in MdInline
        /\ mdPhase' = [mdPhase EXCEPT ![r] = "wait"]
        /\ mdBudget' = [mdBudget EXCEPT ![r] = "on"]
        /\ mdStarted' = [mdStarted EXCEPT ![r] = @ + 1]
        /\ mdTpc' = r
        /\ UNCHANGED <<mdMode, mdStatus, mdFeeder, mdReply, mdQueue, mdJob>>
    BY <1>4 DEF MdInlineStarts
  <2>2. /\ mdStatus[r] = "open" /\ mdStarted[r] = 0 /\ r \in MdOnTpc /\ mdMode = "tpc"
    BY <1>0, <2>1 DEF MdTaskRuns, MdOnTpc
  <2>3. /\ mdPhase' \in [MdRequests -> {"none", "body", "wait"}]
        /\ mdPhase'[r] = "wait"
        /\ \A q \in MdRequests : mdPhase'[q] # mdPhase[q] => mdPhase'[q] = "wait" /\ mdStatus[q] = "open"
        /\ mdBudget' \in [MdRequests -> {"off", "on", "over"}]
    BY <1>0, <2>1, <2>2
  <2>4. \A n \in DOMAIN mdQueue' : mdQueue'[n] # r
    BY <2>1 DEF MdCalls, MdQueuedOnce
  <2> QED BY <1>0, <2>1, <2>2, <2>3, <2>4, Begins
<1>5. CASE MdInlineEnds(r)
  <2>1. r # MdNone
    BY MdAssumption
  <2> QED BY <1>0, <1>5, <2>1, CallerMoves DEF MdInlineEnds, MdStatuses, MdCalls, MdInlineOpen
<1>6. CASE MdReceives(r)
  BY <1>0, <1>6, CallerMoves, TaskElsewhere DEF MdReceives, MdAwaits, MdStatuses
<1>7. CASE MdGivesUp(r)
  BY <1>0, <1>7, CallerMoves, TaskElsewhere DEF MdGivesUp, MdAwaits, MdStatuses
<1>8. CASE MdGone(r)
  BY <1>0, <1>8, CallerMoves, TaskElsewhere DEF MdGone, MdStatuses
<1>9. CASE MdFeederEnds(r)
  <2>1. /\ mdFeeder' \in [MdRequests -> {"none", "on", "done", "aborted"}]
        /\ mdBudget' \in [MdRequests -> {"off", "on", "over"}]
        /\ UNCHANGED <<mdMode, mdStatus, mdPhase, mdReply, mdStarted, mdQueue, mdJob, mdTpc>>
    BY <1>0, <1>9 DEF MdFeederEnds
  <2> QED BY <1>0, <2>1, CallsKept
<1>10. CASE MdBudgetPasses(r)
  <2>1. /\ mdBudget' \in [MdRequests -> {"off", "on", "over"}]
        /\ UNCHANGED <<mdMode, mdStatus, mdPhase, mdFeeder, mdReply, mdStarted, mdQueue, mdJob, mdTpc>>
    BY <1>0, <1>10 DEF MdBudgetPasses
  <2> QED BY <1>0, <2>1, CallsKept
<1> QED BY <1>1, <1>2, <1>3, <1>4, <1>5, <1>6, <1>7, <1>8, <1>9, <1>10 DEF MdCallerStep

(* Whatever the threads do keeps what is known of the requests.            *)
LEMMA ThreadCalls ==
    ASSUME MdHands, MdCalls, NEW t \in MdThreads,
           \/ MdThreadStep(t) \/ MdMakesLoop(t) \/ MdLetsGo(t) \/ MdTakesBack(t)
           \/ MdHandlerEnds(t) \/ MdHandlerPanics(t)
    PROVE  MdCalls'
<1> USE DEF mdCaller
<1>0. /\ mdFeeder \in [MdRequests -> {"none", "on", "done", "aborted"}]
      /\ mdBudget \in [MdRequests -> {"off", "on", "over"}]
      /\ mdReply \in [MdRequests -> BOOLEAN]
      /\ mdPhase \in [MdRequests -> {"none", "body", "wait"}]
      /\ mdQueue \in Seq(MdRequests)
      /\ mdJob \in [MdThreads -> MdRequests \cup {MdNone}]
  BY DEF MdCalls, MdLedger, MdQueuedOnce, MdHands, MdThreadsTidy
<1>1. CASE MdTakes(t)
  <2>0. mdQueue # <<>> /\ mdQueue' = Tail(mdQueue)
        /\ UNCHANGED <<mdMode, mdCaller, mdReply, mdTpc>>
    BY <1>1 DEF MdTakes
  <2> DEFINE r == Head(mdQueue)
  <2>1. r \in MdRequests /\ 1 \in DOMAIN mdQueue /\ mdQueue[1] = r
    BY <1>0, <2>0
  <2>2. CASE MdWanted(r)
    <3>1. /\ mdJob' = [mdJob EXCEPT ![t] = r]
          /\ mdStarted' = [mdStarted EXCEPT ![r] = @ + 1]
      BY <1>1, <2>2 DEF MdTakes
    <3>2. mdStatus[r] # "new" /\ mdPhase[r] # "body" /\ mdStarted[r] = 0
      BY <2>1 DEF MdCalls, MdQueuedOnce
    <3>3. ASSUME NEW n \in DOMAIN mdQueue'
          PROVE  mdQueue'[n] # r
      <4>1. n + 1 \in DOMAIN mdQueue /\ n + 1 # 1 /\ mdQueue'[n] = mdQueue[n + 1]
        BY <1>0, <2>0, <3>3, TailAt
      <4>2. \A m \in DOMAIN mdQueue : mdQueue[m] = mdQueue[1] => m = 1
        BY <2>1 DEF MdCalls, MdQueuedOnce
      <4> QED BY <2>1, <4>1, <4>2
    <3>4. mdQueue' \in Seq(MdRequests)
      BY <1>0, <2>0
    <3>5. \A u \in MdThreads : mdJob'[u] = mdJob[u] \/ mdJob'[u] = r
      BY <1>0, <3>1
    <3> HIDE DEF r
    <3> QED BY <1>0, <2>0, <2>1, <3>1, <3>2, <3>3, <3>4, <3>5, Begins
  <2>3. CASE ~MdWanted(r)
    <3>1. UNCHANGED <<mdJob, mdStarted>>
      BY <1>1, <2>3 DEF MdTakes
    <3> QED BY <2>0, <3>1, Skips
  <2> QED BY <2>2, <2>3
<1>2. CASE MdAttaches(t) \/ MdExits(t) \/ MdMakesLoop(t) \/ MdLetsGo(t) \/ MdTakesBack(t)
  <2>1. UNCHANGED <<mdMode, mdCaller, mdReply, mdStarted, mdQueue, mdJob, mdTpc>>
    BY <1>2 DEF MdAttaches, MdExits, MdMakesLoop, MdLetsGo, MdTakesBack
  <2> QED BY <1>0, <2>1, CallsKept
<1>3. CASE MdHandlerEnds(t) \/ MdHandlerPanics(t)
  <2> DEFINE r == mdJob[t]
  <2>1. /\ mdThread[t] = "hold"
        /\ mdJob' = [mdJob EXCEPT ![t] = MdNone]
        /\ mdReply' = [mdReply EXCEPT ![r] = mdStatus[r] = "open"]
        /\ UNCHANGED <<mdMode, mdCaller, mdStarted, mdQueue, mdTpc>>
    BY <1>3 DEF MdHandlerEnds, MdHandlerPanics
  <2>2. r # MdNone
    BY <2>1 DEF MdHands, MdThreadsTidy
  <2>3. r \in MdRequests /\ mdStarted[r] = 1
    BY <1>0, <2>2 DEF MdCalls, MdLedger
  <2>4. \A q \in MdRequests : q # r => mdReply'[q] = mdReply[q]
    BY <1>0, <2>1
  <2>5. mdReply' \in [MdRequests -> BOOLEAN]
    BY <1>0, <2>1
  <2>6. \A u \in MdThreads : mdJob'[u] \in {mdJob[u], MdNone}
    BY <1>0, <2>1
  <2> QED BY <1>0, <2>1, <2>3, <2>4, <2>5, <2>6, CallsKept
<1> QED BY <1>1, <1>2, <1>3 DEF MdThreadStep

(* Both halves hold at the start.                                          *)
LEMMA MdStart == MdInit => MdHands /\ MdCalls
<1> SUFFICES ASSUME MdInit PROVE MdHands /\ MdCalls
  OBVIOUS
<1>1. {t \in MdThreads : mdThread[t] = "attach"} = {}
  BY DEF MdInit
<1>2. MdHands
  BY <1>1, FS_EmptySet, MdAssumption
     DEF MdInit, MdHands, MdStates, MdBridgeSurvives, MdThreadsTidy, MdThreads
<1>3. MdCalls
  BY MdAssumption DEF MdInit, MdCalls, MdStatuses, MdQueuedOnce, MdLedger, MdInlineOpen
<1> QED BY <1>2, <1>3

(* Every step keeps both.                                                  *)
LEMMA MdStep == MdHands /\ MdCalls /\ [MdNext]_mdVars => MdHands' /\ MdCalls'
<1> SUFFICES ASSUME MdHands, MdCalls, [MdNext]_mdVars PROVE MdHands' /\ MdCalls'
  OBVIOUS
<1>0. /\ mdFeeder \in [MdRequests -> {"none", "on", "done", "aborted"}]
      /\ mdBudget \in [MdRequests -> {"off", "on", "over"}]
      /\ mdReply \in [MdRequests -> BOOLEAN]
  BY DEF MdCalls, MdLedger
<1>1. ASSUME NEW r \in MdRequests,
             \/ MdArrives(r) \/ MdCallerStep(r) \/ MdInlineEnds(r)
             \/ MdFeederEnds(r) \/ MdBudgetPasses(r) \/ MdGone(r)
      PROVE  MdHands' /\ MdCalls'
  <2>1. UNCHANGED <<mdWork, mdStop>>
    BY <1>1 DEF MdArrives, MdCallerStep, MdInlineEnds, MdFeederEnds, MdBudgetPasses, MdGone,
                MdBodyIn, MdBodyRejected, MdInlineStarts, MdReceives, MdGivesUp
  <2> QED BY <1>1, <2>1, HandsKept, CallerCalls
<1>2. ASSUME NEW t \in MdThreads,
             \/ MdThreadStep(t) \/ MdMakesLoop(t) \/ MdLetsGo(t) \/ MdTakesBack(t)
             \/ MdHandlerEnds(t) \/ MdHandlerPanics(t)
      PROVE  MdHands' /\ MdCalls'
  BY <1>2, ThreadHands, ThreadCalls
<1>3. CASE MdStopping \/ MdJoined
  <2>1. /\ UNCHANGED <<mdMode, mdCaller, mdReply, mdStarted, mdQueue, mdWork, mdTpc>>
        /\ \/ mdStop' = "stopping" /\ mdStop = "serving"
           \/ mdStop' = "joined" /\ \A t \in MdBridgeThreads : mdThread[t] = "exited"
    BY <1>3 DEF MdStopping, MdJoined
  <2> QED BY <1>0, <2>1, HandsKept, CallsKept DEF mdCaller, mdWork
<1>4. CASE MdCloses
  <2>1. /\ mdFeeder' = [r \in MdRequests |-> IF mdFeeder[r] = "on" THEN "aborted" ELSE mdFeeder[r]]
        /\ mdStop = "stopping" /\ mdStop' = "closing"
        /\ UNCHANGED <<mdMode, mdStatus, mdPhase, mdBudget, mdReply, mdStarted, mdQueue, mdWork,
                       mdTpc>>
    BY <1>4 DEF MdCloses, MdTpcEnded
  <2>2. mdFeeder' \in [MdRequests -> {"none", "on", "done", "aborted"}]
    BY <1>0, <2>1
  <2>3. MdHands'
    BY <2>1, HandsKept
  <2>4. MdCalls'
    BY <1>0, <2>1, <2>2, CallsKept DEF mdWork
  <2> QED BY <2>3, <2>4
<1>5. CASE UNCHANGED mdVars
  BY <1>0, <1>5, HandsKept, CallsKept DEF mdVars, mdCaller, mdWork
<1> QED BY <1>1, <1>2, <1>3, <1>4, <1>5 DEF MdNext

(* For every number of threads and requests, every queue capacity and      *)
(* whatever handlers do: the GIL has one holder, GIL_QUEUE_LENGTH counts   *)
(* the threads that wait for it, a thread of the bridge dies with the      *)
(* server only, and a joined bridge holds nothing of Python any more       *)
(* (main_bridge.rs, serve and shutdown_join; handlers/gil.rs).             *)
THEOREM MdCorrect == MdSpec => []MdSafe
<1>1. MdHands /\ MdCalls => MdSafe
  <2> SUFFICES ASSUME MdHands, MdCalls PROVE MdSafe
    OBVIOUS
  <2>1. MdTypeOK
    BY DEF MdHands, MdCalls, MdTypeOK, MdStates, MdStatuses
  <2>2. MdReleased
    BY DEF MdHands, MdThreadsTidy, MdReleased, MdThreads
  <2> QED BY <2>1, <2>2 DEF MdHands, MdSafe
<1> QED BY <1>1, MdStart, MdStep, PTL DEF MdSpec

-----------------------------------------------------------------------------
(* A TPC thread implements RequestService.                                 *)

(* A change of one request's status, as the HTTP layer sees it.            *)
LEMMA SeenOf ==
    ASSUME MdCalls, NEW r \in MdRequests, NEW s, NEW p, MdBecomes(r, s, p)
    PROVE  MdSeen' = IF r \in MdOnTpc THEN [MdSeen EXCEPT ![r] = s] ELSE MdSeen
BY DEF MdSeen, MdBecomes, MdCalls, MdOnTpc, MdRequests

(* A request that ends while it is open.                                   *)
LEMMA EndsService ==
    ASSUME MdCalls, NEW r \in MdRequests, mdStatus[r] = "open", UNCHANGED mdStarted,
           NEW s \in {"result", "timeout", "gone"}, MdBecomes(r, s, "none"),
           s = "result" => mdStarted[r] = 1
    PROVE  Service!Next \/ UNCHANGED <<MdSeen, MdBegun>>
<1>0. UNCHANGED MdBegun
  BY DEF MdBegun
<1>1. CASE r \in MdOnTpc
  <2>1. MdSeen' = [MdSeen EXCEPT ![r] = s]
    BY <1>1, SeenOf
  <2>2. MdSeen[r] = "open" /\ MdBegun[r] = mdStarted[r]
    BY <1>1 DEF MdSeen, MdBegun
  <2>3. Service!Finish(r)
    BY <1>0, <2>1, <2>2 DEF Service!Finish, Service!Endings
  <2> QED BY <1>1, <2>3 DEF Service!Next
<1>2. CASE r \notin MdOnTpc
  BY <1>0, <1>2, SeenOf
<1> QED BY <1>1, <1>2

(* A request refused before its handler was started.                       *)
LEMMA RefusesService ==
    ASSUME MdCalls, NEW r \in MdRequests, mdStatus[r] = "new" \/ mdPhase[r] = "body",
           UNCHANGED mdStarted, NEW s \in {"overloaded", "rejected"}, MdBecomes(r, s, "none")
    PROVE  Service!Next \/ UNCHANGED <<MdSeen, MdBegun>>
<1>0. UNCHANGED MdBegun
  BY DEF MdBegun
<1>1. mdStatus[r] \in {"new", "open"} /\ mdStarted[r] = 0
  BY DEF MdCalls, MdLedger
<1>2. CASE r \in MdOnTpc
  <2>1. MdSeen' = [MdSeen EXCEPT ![r] = s]
    BY <1>2, SeenOf
  <2>2. MdSeen[r] \in {"new", "open"} /\ MdBegun[r] = 0
    BY <1>1, <1>2 DEF MdSeen, MdBegun
  <2>3. Service!Refuse(r)
    BY <1>0, <2>1, <2>2 DEF Service!Refuse, Service!Refusals
  <2> QED BY <1>2, <2>3 DEF Service!Next
<1>3. CASE r \notin MdOnTpc
  BY <1>0, <1>3, SeenOf
<1> QED BY <1>2, <1>3

(* A request that is open from now on, or is open still.                   *)
LEMMA OpensService ==
    ASSUME MdCalls, NEW r \in MdRequests, mdStatus[r] = "new" \/ mdStatus[r] = "open",
           UNCHANGED mdStarted, NEW p, MdBecomes(r, "open", p)
    PROVE  Service!Next \/ UNCHANGED <<MdSeen, MdBegun>>
<1>0. UNCHANGED MdBegun
  BY DEF MdBegun
<1>1. CASE r \in MdOnTpc
  <2>1. MdSeen' = [MdSeen EXCEPT ![r] = "open"] /\ MdSeen[r] = mdStatus[r]
    BY <1>1, SeenOf DEF MdSeen
  <2>2. CASE mdStatus[r] = "new"
    <3>1. Service!Open(r)
      BY <1>0, <2>1, <2>2 DEF Service!Open
    <3> QED BY <1>1, <3>1 DEF Service!Next
  <2>3. CASE mdStatus[r] = "open"
    <3>1. MdSeen' = MdSeen
      BY <1>1, <2>1, <2>3 DEF MdSeen
    <3> QED BY <1>0, <3>1
  <2> QED BY <2>2, <2>3
<1>2. CASE r \notin MdOnTpc
  BY <1>0, <1>2, SeenOf
<1> QED BY <1>1, <1>2

(* A handler is started once, for a caller that waits.                     *)
LEMMA StartsService ==
    ASSUME MdCalls, NEW r \in MdRequests, r \in MdOnTpc => mdStatus[r] = "open",
           mdStarted[r] = 0, mdStarted' = [mdStarted EXCEPT ![r] = @ + 1], UNCHANGED mdStatus
    PROVE  Service!Next \/ UNCHANGED <<MdSeen, MdBegun>>
<1>0. UNCHANGED MdSeen
  BY DEF MdSeen
<1>1. mdStarted \in [MdRequests -> {0, 1}]
  BY DEF MdCalls, MdLedger
<1>2. CASE r \in MdOnTpc
  <2>0. \A q \in MdOnTpc : mdStarted'[q] = IF q = r THEN 1 ELSE mdStarted[q]
    BY <1>1 DEF MdOnTpc, MdRequests
  <2>1. MdBegun' = [MdBegun EXCEPT ![r] = 1] /\ MdBegun[r] = 0 /\ MdSeen[r] = "open"
    BY <1>2, <2>0 DEF MdBegun, MdSeen
  <2>2. Service!Start(r)
    BY <1>0, <2>1 DEF Service!Start
  <2> QED BY <1>2, <2>2 DEF Service!Next
<1>3. CASE r \notin MdOnTpc
  BY <1>0, <1>1, <1>3 DEF MdBegun, MdOnTpc, MdRequests
<1> QED BY <1>2, <1>3

(* A dispatch opens the request or refuses it.                             *)
LEMMA DispatchService ==
    ASSUME MdCalls, NEW r \in MdRequests, mdStatus[r] = "new" \/ mdPhase[r] = "body",
           MdDispatch(r), UNCHANGED mdStarted
    PROVE  Service!Next \/ UNCHANGED <<MdSeen, MdBegun>>
<1>1. mdStatus[r] \in {"new", "open"}
  BY DEF MdCalls, MdLedger
<1>2. MdBecomes(r, "open", "wait") \/ MdBecomes(r, "overloaded", "none")
  BY DEF MdDispatch
<1> QED BY <1>1, <1>2, OpensService, RefusesService

(* Every step is a step of the service or leaves it as it is.              *)
LEMMA ServiceStep ==
    ASSUME MdHands, MdCalls, [MdNext]_mdVars
    PROVE  Service!Next \/ UNCHANGED <<MdSeen, MdBegun>>
<1>0. ASSUME UNCHANGED <<mdStatus, mdStarted>>
      PROVE  UNCHANGED <<MdSeen, MdBegun>>
  BY <1>0 DEF MdSeen, MdBegun
<1>1. ASSUME NEW r \in MdRequests,
             \/ MdArrives(r) \/ MdCallerStep(r) \/ MdInlineEnds(r)
             \/ MdFeederEnds(r) \/ MdBudgetPasses(r) \/ MdGone(r)
      PROVE  Service!Next \/ UNCHANGED <<MdSeen, MdBegun>>
  <2>0. /\ mdPhase[r] # "none" => mdStatus[r] = "open"
        /\ mdPhase[r] = "body" => mdStarted[r] = 0
        /\ mdReply[r] => mdStarted[r] = 1
    BY DEF MdCalls, MdLedger
  <2>1. CASE MdArrives(r)
    <3>1. CASE r \in MdStreamed
      BY <2>1, <3>1, DispatchService DEF MdArrives
    <3>2. CASE r \notin MdStreamed
      BY <2>1, <3>2, OpensService DEF MdArrives
    <3> QED BY <3>1, <3>2
  <2>2. CASE MdBodyIn(r)
    BY <2>2, DispatchService DEF MdBodyIn
  <2>3. CASE MdBodyRejected(r)
    BY <2>3, RefusesService DEF MdBodyRejected
  <2>4. CASE MdInlineStarts(r)
    BY <2>0, <2>4, StartsService DEF MdInlineStarts
  <2>5. CASE MdInlineEnds(r)
    <3>1. mdStatus[r] = "open" /\ mdStarted[r] = 1
      BY <2>5, MdAssumption DEF MdInlineEnds, MdCalls, MdInlineOpen
    <3> QED BY <2>5, <3>1, EndsService DEF MdInlineEnds
  <2>6. CASE MdReceives(r)
    BY <2>0, <2>6, EndsService DEF MdReceives, MdAwaits
  <2>7. CASE MdGivesUp(r)
    BY <2>0, <2>7, EndsService DEF MdGivesUp, MdAwaits
  <2>8. CASE MdGone(r)
    BY <2>8, EndsService DEF MdGone
  <2>9. CASE MdFeederEnds(r) \/ MdBudgetPasses(r)
    BY <1>0, <2>9 DEF MdFeederEnds, MdBudgetPasses
  <2> QED BY <1>1, <2>1, <2>2, <2>3, <2>4, <2>5, <2>6, <2>7, <2>8, <2>9 DEF MdCallerStep
<1>2. ASSUME NEW t \in MdThreads, MdTakes(t)
      PROVE  Service!Next \/ UNCHANGED <<MdSeen, MdBegun>>
  <2>0. /\ mdQueue \in Seq(MdRequests) /\ mdQueue # <<>>
        /\ UNCHANGED mdStatus
    BY <1>2 DEF MdTakes, MdCalls, MdQueuedOnce, mdCaller
  <2> DEFINE r == Head(mdQueue)
  <2>1. r \in MdRequests /\ 1 \in DOMAIN mdQueue /\ mdQueue[1] = r
    BY <2>0
  <2>2. mdStarted[r] = 0 /\ (r \in MdOnTpc <=> mdMode = "tpc")
    BY <2>1 DEF MdCalls, MdQueuedOnce
  <2>3. CASE MdWanted(r)
    <3>1. mdStarted' = [mdStarted EXCEPT ![r] = @ + 1]
      BY <1>2, <2>3 DEF MdTakes
    <3>2. r \in MdOnTpc => mdStatus[r] = "open"
      BY <2>2, <2>3 DEF MdWanted
    <3> QED BY <2>0, <2>1, <2>2, <3>1, <3>2, StartsService
  <2>4. CASE ~MdWanted(r)
    BY <1>0, <1>2, <2>0, <2>4 DEF MdTakes
  <2> QED BY <2>3, <2>4
<1>3. ASSUME NEW t \in MdThreads,
             \/ MdAttaches(t) \/ MdExits(t) \/ MdMakesLoop(t) \/ MdLetsGo(t) \/ MdTakesBack(t)
             \/ MdHandlerEnds(t) \/ MdHandlerPanics(t)
      PROVE  UNCHANGED <<MdSeen, MdBegun>>
  BY <1>0, <1>3 DEF MdAttaches, MdExits, MdMakesLoop, MdLetsGo, MdTakesBack, MdHandlerEnds,
                    MdHandlerPanics, mdCaller
<1>4. CASE MdStopping \/ MdCloses \/ MdJoined
  BY <1>0, <1>4 DEF MdStopping, MdCloses, MdJoined, mdCaller
<1>5. CASE UNCHANGED mdVars
  BY <1>0, <1>5 DEF mdVars, mdCaller
<1> QED BY <1>1, <1>2, <1>3, <1>4, <1>5 DEF MdNext, MdThreadStep

(* A TPC thread gives the HTTP layer what the pool gives it: whatever      *)
(* happens to the bridge, its queue, the budget, the GIL and the stop, a   *)
(* request is answered at most once, its handler is started at most once   *)
(* and only while its caller waits, and a refusal means it never started   *)
(* (handlers/tpc.rs, main_bridge.rs, pipeline.rs).  It is about bridged    *)
(* and inline requests; the blocking pool of the multi-thread server may   *)
(* still start a handler whose caller was given a 504, and is outside it.  *)
THEOREM TpcService == MdSpec => MdImplements
<1>1. MdInit => Service!Init
  BY DEF MdInit, Service!Init, MdSeen, MdBegun, MdOnTpc, MdRequests
<1>2. MdHands /\ MdCalls /\ [MdNext]_mdVars => [Service!Next]_<<MdSeen, MdBegun>>
  BY ServiceStep
<1> QED BY <1>1, <1>2, MdStart, MdStep, PTL DEF MdSpec, MdImplements, Service!Spec
=============================================================================
