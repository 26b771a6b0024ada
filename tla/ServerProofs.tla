---------------------------- MODULE ServerProofs ----------------------------
(***************************************************************************)
(* Proofs about a server beside its requests: the server run (ServerRun),  *)
(* for every number of pool workers, TPC threads and bridge threads and    *)
(* every set of steps that may fail; the garbage collection of a worker    *)
(* (WorkerGc); the accept loops (AcceptLoop); the plan of registration and *)
(* topology (ServerPlan), for any number of routes, sizes and cores; the   *)
(* ports (PortBinding), for any servers, listeners and loops; the sampler  *)
(* of memory (RssSampler), for any servers; and the streamed responses     *)
(* (ResponseStream), for any producers and requests of a Stream.           *)
(***************************************************************************)
EXTENDS ServerRun, WorkerGc, AcceptLoop, ServerPlan, PortBinding,
        RssSampler, ResponseStream,
        FiniteSetTheorems, SequenceTheorems, TLAPS

-----------------------------------------------------------------------------
(* The server run.                                                         *)

RunInv == RunTypeOK /\ RunIInv

(* The pool's and the TPC threads' indices are workers.                    *)
LEMMA Sizes ==
    ASSUME tpc \in BOOLEAN
    PROVE  /\ NPool \in Nat /\ NTpc \in Nat /\ NTpc > 0
           /\ NPool + NTpc \in Nat
           /\ \A w : w \in Workers => w \in Nat
           /\ \A w \in Nat : w < NPool => w \in Workers
           /\ tpc => \A w \in Nat : w < NPool + NTpc => w \in Workers
           /\ \A w \in PoolWorkers : w \in Workers /\ w < NPool
           /\ \A w \in TpcWorkers : w \in Workers /\ w >= NPool
BY RunAssumption DEF NPool, Workers, PoolWorkers, TpcWorkers

(* A run starts with nothing built.                                        *)
LEMMA RunStarts == RunInit => RunInv
<1> SUFFICES ASSUME RunInit PROVE RunInv
  OBVIOUS
<1>0. i \in 0 .. NPool + NTpc /\ bridge \in 0 .. NBridge
  BY Sizes, RunAssumption DEF RunInit
<1>1. RunTypeOK
  BY <1>0 DEF RunInit, RunTypeOK
<1>2. Stage
  BY Sizes DEF RunInit, Stage, Split, Untouched
<1>3. Helpers /\ \A w \in Workers : ThreadHas(w)
  BY DEF RunInit, Helpers, ThreadHas, Returned
<1> QED BY <1>1, <1>2, <1>3 DEF RunInv, RunIInv

(* What a thread of the run does to its own worker disturbs no stage.      *)
LEMMA ThreadStep ==
    ASSUME RunInv, NEW w \in Workers, thread[w] \in {"starting", "serving"},
           \/ thread' = [thread EXCEPT ![w] = "serving"] /\ UNCHANGED interp
           \/ EndOwn(w),
           UNCHANGED <<tpc, pc, i, poolOpen, bridge, watcher, blocking, abandoned>>,
           stop' \in BOOLEAN, failed' \in BOOLEAN
    PROVE  RunInv'
<1>1. /\ interp \in [Workers -> {"none", "built", "ended", "leaked"}]
      /\ thread \in [Workers -> {"none", "starting", "serving", "over"}]
      /\ interp[w] = "built"
  BY DEF RunInv, RunTypeOK, RunIInv, ThreadHas
<1>2. /\ interp' \in [Workers -> {"none", "built", "ended", "leaked"}]
      /\ thread' \in [Workers -> {"none", "starting", "serving", "over"}]
      /\ \A v \in Workers : v # w => interp'[v] = interp[v] /\ thread'[v] = thread[v]
      /\ \/ thread'[w] = "serving" /\ interp'[w] = "built"
         \/ thread'[w] = "over" /\ interp'[w] = "ended"
  BY <1>1 DEF EndOwn
<1>3. RunTypeOK'
  BY <1>2 DEF RunInv, RunTypeOK, NPool, PoolWorkers
<1>4. \A v \in Workers : ThreadHas(v)'
  BY <1>2 DEF RunInv, RunIInv, ThreadHas
<1>5. /\ \A v \in Workers : Untouched(v) => Untouched(v)'
      /\ \A v \in Workers : Owned(v) => Owned(v)'
      /\ \A v \in Workers : Handed(v) => Handed(v)'
      /\ \A v \in Workers : Down(v) => Down(v)'
      /\ Leaked => Leaked'
  BY <1>1, <1>2 DEF Untouched, Owned, Handed, Down, Leaked
<1>6. NPool' = NPool
  BY DEF NPool
<1>7. Stage'
  BY <1>5, <1>6 DEF RunInv, RunIInv, Stage, Split
<1>8. Helpers'
  BY DEF RunInv, RunIInv, Helpers
<1> QED BY <1>3, <1>4, <1>7, <1>8 DEF RunInv, RunIInv

(* What the invariant says of the sizes, the types and the workers.        *)
LEMMA RunFacts ==
    ASSUME RunInv
    PROVE  /\ interp \in [Workers -> {"none", "built", "ended", "leaked"}]
           /\ thread \in [Workers -> {"none", "starting", "serving", "over"}]
           /\ tpc \in BOOLEAN /\ i \in Nat /\ i <= NPool + NTpc
           /\ \A w \in Workers : ThreadHas(w)
           /\ Stage /\ Helpers
           /\ NPool \in Nat /\ NTpc \in Nat /\ NTpc > 0
           /\ Workers \subseteq Nat
           /\ \A w \in Nat : w < NPool => w \in Workers
           /\ tpc => \A w \in Nat : w < NPool + NTpc => w \in Workers
BY Sizes DEF RunInv, RunTypeOK, RunIInv

(* The start of the pool: serve, build, spawn, and what a failure of a     *)
(* step cleans up.                                                         *)
LEMMA PoolStarts ==
    ASSUME RunInv,
           \/ Serve \/ PoolBuild \/ PoolBuildFails \/ PoolBuilt \/ PoolSpawn
           \/ PoolSpawnFails \/ StopStarted \/ PoolSpawned
    PROVE  RunInv'
<1> USE DEF Goto
<1>0. UNCHANGED tpc /\ NPool' = NPool
  BY DEF Serve, PoolBuild, PoolBuildFails, PoolBuilt, PoolSpawn, PoolSpawnFails,
         StopStarted, PoolSpawned, NPool
<1>1. i' \in 0 .. NPool + NTpc
  <2>1. CASE i' = i + 1 /\ i < NPool
    BY <2>1, RunFacts
  <2>2. CASE i' \in {0, NPool}
    BY <2>2, RunFacts
  <2>3. CASE StopStarted
    BY <2>2, <2>3, RunFacts DEF StopStarted, Stage
  <2> QED BY <2>1, <2>2, <2>3 DEF Serve, PoolBuild, PoolBuildFails, PoolBuilt, PoolSpawn,
                                  PoolSpawnFails, PoolSpawned
<1>2. /\ interp' \in [Workers -> {"none", "built", "ended", "leaked"}]
      /\ thread' \in [Workers -> {"none", "starting", "serving", "over"}]
  BY RunFacts DEF Serve, PoolBuild, PoolBuildFails, PoolBuilt, PoolSpawn, PoolSpawnFails,
         StopStarted, PoolSpawned, EndAll
<1>3. /\ poolOpen' \in BOOLEAN /\ stop' \in BOOLEAN /\ failed' \in BOOLEAN
      /\ UNCHANGED <<bridge, watcher, blocking, abandoned>>
  <2>1. CASE PoolBuilt
    BY <2>1 DEF PoolBuilt, RunInv, RunTypeOK
  <2>2. CASE ~PoolBuilt
    BY <2>2 DEF Serve, PoolBuild, PoolBuildFails, PoolSpawn, PoolSpawnFails,
           StopStarted, PoolSpawned, RunInv, RunTypeOK
  <2> QED BY <2>1, <2>2
<1>4. RunTypeOK'
  <2>1. pc' \in {"serve", "poolBuild", "poolSpawn", "stopStarted", "tpcBuild", "bridge",
                 "tpcSpawn", "serving", "dropRuntime", "joinTpc", "joinUnsent", "joinPool",
                 "returned", "finalized", "exited"}
    BY DEF Serve, PoolBuild, PoolBuildFails, PoolBuilt, PoolSpawn, PoolSpawnFails,
           StopStarted, PoolSpawned, RunInv, RunTypeOK
  <2> QED BY <1>0, <1>1, <1>2, <1>3, <2>1 DEF RunInv, RunTypeOK, PoolWorkers
<1>5. Helpers'
  BY RunFacts DEF Serve, PoolBuild, PoolBuildFails, PoolBuilt, PoolSpawn, PoolSpawnFails,
         StopStarted, PoolSpawned, Helpers
<1> SUFFICES Stage' /\ \A w \in Workers : ThreadHas(w)'
  BY <1>4, <1>5 DEF RunInv, RunIInv
<1> USE DEF Stage, Split, ThreadHas, Untouched, Owned, Handed
<1>6. CASE Serve
  BY <1>0, <1>6, RunFacts DEF Serve, Down
<1>7. CASE PoolBuild
  <2>1. \A w \in Workers : interp'[w] = IF w = i THEN "built" ELSE interp[w]
    BY <1>7, RunFacts DEF PoolBuild
  <2> QED BY <1>0, <1>7, <2>1, RunFacts DEF PoolBuild
<1>8. CASE PoolBuildFails
  BY <1>0, <1>8, RunFacts DEF PoolBuildFails, EndAll, Down
<1>9. CASE PoolBuilt
  BY <1>0, <1>9, RunFacts DEF PoolBuilt
<1>10. CASE PoolSpawn
  <2>1. \A w \in Workers : thread'[w] = IF w = i THEN "starting" ELSE thread[w]
    BY <1>10, RunFacts DEF PoolSpawn
  <2> QED BY <1>0, <1>10, <2>1, RunFacts DEF PoolSpawn
<1>11. CASE PoolSpawnFails
  <2>1. i \in Workers /\ interp'[i] = "leaked" /\ thread[i] = "none"
    BY <1>11, RunFacts DEF PoolSpawnFails, EndAll
  <2> QED BY <1>0, <1>11, <2>1, RunFacts DEF PoolSpawnFails, EndAll, Leaked
<1>12. CASE StopStarted
  BY <1>0, <1>12, RunFacts DEF StopStarted, Leaked
<1>13. CASE PoolSpawned
  BY <1>0, <1>13, RunFacts DEF PoolSpawned
<1> QED BY <1>6, <1>7, <1>8, <1>9, <1>10, <1>11, <1>12, <1>13

(* The start of a TPC server once its async pool runs: build, bridge,      *)
(* watcher, spawn.                                                         *)
LEMMA TpcStarts ==
    ASSUME RunInv,
           \/ TpcBuild \/ TpcBuildFails \/ TpcBuilt \/ BridgeSpawn \/ BridgeSpawnFails
           \/ Watch \/ TpcSpawn \/ TpcSpawnFails \/ TpcSpawned
    PROVE  RunInv'
<1> USE DEF Goto
<1>0. UNCHANGED tpc /\ NPool' = NPool
  BY DEF TpcBuild, TpcBuildFails, TpcBuilt, BridgeSpawn, BridgeSpawnFails, Watch, TpcSpawn,
         TpcSpawnFails, TpcSpawned, NPool
<1>1. i' \in 0 .. NPool + NTpc
  <2>1. CASE (i' = i + 1 /\ i < NPool + NTpc) \/ i' \in {0, i, NPool}
    BY <2>1, RunFacts
  <2> QED BY <2>1 DEF TpcBuild, TpcBuildFails, TpcBuilt, BridgeSpawn, BridgeSpawnFails, Watch,
                      TpcSpawn, TpcSpawnFails, TpcSpawned
<1>2. /\ interp' \in [Workers -> {"none", "built", "ended", "leaked"}]
      /\ thread' \in [Workers -> {"none", "starting", "serving", "over"}]
  BY RunFacts DEF TpcBuild, TpcBuildFails, TpcBuilt, BridgeSpawn, BridgeSpawnFails, Watch,
                  TpcSpawn, TpcSpawnFails, TpcSpawned, EndAll
<1>3. /\ poolOpen' \in BOOLEAN /\ stop' \in BOOLEAN /\ failed' \in BOOLEAN
      /\ UNCHANGED <<blocking, abandoned>>
      /\ watcher' \in {"none", "running", "over"}
  BY DEF TpcBuild, TpcBuildFails, TpcBuilt, BridgeSpawn, BridgeSpawnFails, Watch,
         TpcSpawn, TpcSpawnFails, TpcSpawned, RunInv, RunTypeOK
<1>4. bridge' \in 0 .. NBridge
  BY RunAssumption DEF TpcBuild, TpcBuildFails, TpcBuilt, BridgeSpawn, BridgeSpawnFails, Watch,
         TpcSpawn, TpcSpawnFails, TpcSpawned, RunInv, RunTypeOK
<1>5. RunTypeOK'
  <2>1. pc' \in {"serve", "poolBuild", "poolSpawn", "stopStarted", "tpcBuild", "bridge",
                 "tpcSpawn", "serving", "dropRuntime", "joinTpc", "joinUnsent", "joinPool",
                 "returned", "finalized", "exited"}
    BY DEF TpcBuild, TpcBuildFails, TpcBuilt, BridgeSpawn, BridgeSpawnFails, Watch,
         TpcSpawn, TpcSpawnFails, TpcSpawned, RunInv, RunTypeOK
  <2> QED BY <1>0, <1>1, <1>2, <1>3, <1>4, <2>1 DEF RunInv, RunTypeOK, PoolWorkers
<1>6. Helpers'
  BY RunFacts DEF TpcBuild, TpcBuildFails, TpcBuilt, BridgeSpawn, BridgeSpawnFails, Watch,
                  TpcSpawn, TpcSpawnFails, TpcSpawned, Helpers
<1> SUFFICES Stage' /\ \A w \in Workers : ThreadHas(w)'
  BY <1>5, <1>6 DEF RunInv, RunIInv
<1> USE DEF Stage, Split, ThreadHas, Untouched, Owned, Handed
<1>7. CASE TpcBuild
  <2>1. \A w \in Workers : interp'[w] = IF w = i THEN "built" ELSE interp[w]
    BY <1>7, RunFacts DEF TpcBuild
  <2> QED BY <1>0, <1>7, <2>1, RunFacts DEF TpcBuild
<1>8. CASE TpcBuildFails
  BY <1>0, <1>8, RunFacts DEF TpcBuildFails, EndAll, Down
<1>9. CASE TpcBuilt
  BY <1>0, <1>9, RunFacts DEF TpcBuilt
<1>10. CASE BridgeSpawn
  BY <1>0, <1>10, RunFacts DEF BridgeSpawn
<1>11. CASE BridgeSpawnFails
  BY <1>0, <1>11, RunFacts DEF BridgeSpawnFails, EndAll, Down
<1>12. CASE Watch
  <2>1. CASE pc' = "tpcSpawn" /\ i' = NPool /\ UNCHANGED interp
    BY <1>0, <1>12, <2>1, RunFacts DEF Watch
  <2>2. CASE pc' = "joinPool" /\ i' = 0 /\ EndAll({})
    BY <1>0, <1>12, <2>2, RunFacts DEF Watch, EndAll, Down
  <2> QED BY <1>12, <2>1, <2>2 DEF Watch
<1>13. CASE TpcSpawn
  <2>1. \A w \in Workers : thread'[w] = IF w = i THEN "starting" ELSE thread[w]
    BY <1>13, RunFacts DEF TpcSpawn
  <2> QED BY <1>0, <1>13, <2>1, RunFacts DEF TpcSpawn
<1>14. CASE TpcSpawnFails
  BY <1>0, <1>14, RunFacts DEF TpcSpawnFails, Down
<1>15. CASE TpcSpawned
  BY <1>0, <1>15, RunFacts DEF TpcSpawned, Down
<1> QED BY <1>7, <1>8, <1>9, <1>10, <1>11, <1>12, <1>13, <1>14, <1>15

(* The stop: the server returns, its threads are joined or abandoned, the  *)
(* bridge goes and run() returns.                                          *)
LEMMA Joins ==
    ASSUME RunInv, ServeReturns \/ JoinNext
    PROVE  RunInv'
<1> USE DEF Goto, JoinNext
<1>0. UNCHANGED tpc /\ NPool' = NPool
  BY DEF ServeReturns, RuntimeDropped, JoinTpc, TpcJoined, JoinPoolThread, AbandonPoolThread, JoinBridge,
         Return, NPool
<1>1. i' \in 0 .. NPool + NTpc
  <2>1. CASE (i' = i + 1 /\ i < NPool + NTpc) \/ i' \in {0, i, NPool}
    BY <2>1, RunFacts
  <2>2. CASE i' = i + 1 /\ i < NPool
    BY <2>2, RunFacts
  <2> QED BY <2>1, <2>2 DEF ServeReturns, RuntimeDropped, JoinTpc, TpcJoined, JoinPoolThread, AbandonPoolThread,
                            JoinBridge, Return
<1>2. /\ interp' \in [Workers -> {"none", "built", "ended", "leaked"}]
      /\ UNCHANGED thread
  BY RunFacts DEF ServeReturns, RuntimeDropped, JoinTpc, TpcJoined, JoinPoolThread, AbandonPoolThread, JoinBridge,
                  Return, EndAll
<1>3. /\ poolOpen' \in BOOLEAN /\ stop' \in BOOLEAN /\ failed' \in BOOLEAN
      /\ UNCHANGED blocking
      /\ watcher' \in {"none", "running", "over"}
  BY DEF ServeReturns, RuntimeDropped, JoinTpc, TpcJoined, JoinPoolThread, AbandonPoolThread, JoinBridge,
         Return, DropWatcher, RunInv, RunTypeOK
<1>4. bridge' \in 0 .. NBridge
  BY RunAssumption DEF ServeReturns, RuntimeDropped, JoinTpc, TpcJoined, JoinPoolThread, AbandonPoolThread,
         JoinBridge, Return, RunInv, RunTypeOK
<1>5. abandoned' \in SUBSET PoolWorkers
  <2>1. CASE AbandonPoolThread
    BY <2>1, RunFacts DEF AbandonPoolThread, Keep, RunInv, RunTypeOK, PoolWorkers
  <2>2. CASE UNCHANGED abandoned
    BY <2>2 DEF RunInv, RunTypeOK
  <2> QED BY <2>1, <2>2 DEF ServeReturns, RuntimeDropped, JoinTpc, TpcJoined, JoinPoolThread, JoinBridge, Return
<1>6. RunTypeOK'
  <2>1. pc' \in {"serve", "poolBuild", "poolSpawn", "stopStarted", "tpcBuild", "bridge",
                 "tpcSpawn", "serving", "dropRuntime", "joinTpc", "joinUnsent", "joinPool",
                 "returned", "finalized", "exited"}
    BY DEF ServeReturns, RuntimeDropped, JoinTpc, TpcJoined, JoinPoolThread, AbandonPoolThread, JoinBridge,
           Return, RunInv, RunTypeOK
  <2> QED BY <1>0, <1>1, <1>2, <1>3, <1>4, <1>5, <2>1 DEF RunInv, RunTypeOK, PoolWorkers
<1>7. Helpers'
  BY RunFacts DEF ServeReturns, RuntimeDropped, JoinTpc, TpcJoined, JoinPoolThread, AbandonPoolThread,
                  JoinBridge, Return, DropWatcher, Helpers
<1> SUFFICES Stage' /\ \A w \in Workers : ThreadHas(w)'
  BY <1>6, <1>7 DEF RunInv, RunIInv
<1> USE DEF Stage, Split, ThreadHas, Untouched, Owned, Handed, Down
<1>8. CASE ServeReturns \/ RuntimeDropped
  BY <1>0, <1>8, RunFacts DEF ServeReturns, RuntimeDropped
<1>9. CASE JoinTpc
  <2>1. i \in Workers
    BY <1>9, RunFacts DEF JoinTpc
  <2> QED BY <1>0, <1>9, <2>1, RunFacts DEF JoinTpc
<1>10. CASE TpcJoined
  BY <1>0, <1>10, RunFacts DEF TpcJoined, EndAll
<1>11. CASE JoinPoolThread
  BY <1>0, <1>11, RunFacts DEF JoinPoolThread
<1>12. CASE AbandonPoolThread
  BY <1>0, <1>12, RunFacts DEF AbandonPoolThread, Keep
<1>13. CASE JoinBridge
  BY <1>0, <1>13, RunFacts DEF JoinBridge
<1>14. CASE Return
  <2>1. Leaked' = Leaked
    BY <1>14 DEF Return, Leaked
  <2> QED BY <1>0, <1>14, <2>1, RunFacts DEF Return
<1> QED BY <1>8, <1>9, <1>10, <1>11, <1>12, <1>13, <1>14

(* Every step of a run keeps the invariant.                                *)
LEMMA RunStep == RunInv /\ [RunNext]_runVars => RunInv'
<1> SUFFICES ASSUME RunInv, [RunNext]_runVars PROVE RunInv'
  OBVIOUS
<1>1. CASE StartNext
  BY <1>1, PoolStarts, TpcStarts DEF StartNext
<1>2. CASE ServeReturns \/ JoinNext
  BY <1>2, Joins
<1>3. ASSUME NEW w \in Workers, Bind(w)
      PROVE  RunInv'
  BY <1>3, ThreadStep DEF Bind, RunInv, RunTypeOK
<1>4. ASSUME NEW w \in PoolWorkers, PoolThreadEnds(w)
      PROVE  RunInv'
  <2>1. w \in Workers
    BY Sizes DEF RunInv, RunTypeOK
  <2> QED BY <1>4, <2>1, ThreadStep DEF PoolThreadEnds, RunInv, RunTypeOK
<1>5. ASSUME NEW w \in TpcWorkers, TpcThreadEnds(w)
      PROVE  RunInv'
  <2>1. w \in Workers
    BY Sizes DEF RunInv, RunTypeOK
  <2> QED BY <1>5, <2>1, ThreadStep DEF TpcThreadEnds, RunInv, RunTypeOK
<1>6. CASE BlockingStarts \/ BlockingEnds \/ WatcherEnds \/ Shutdown \/ UNCHANGED runVars
  <2>1. /\ UNCHANGED <<tpc, pc, i, interp, thread, poolOpen, bridge, abandoned, failed>>
        /\ NPool' = NPool /\ stop' \in BOOLEAN
        /\ watcher' = watcher \/ watcher' = "over"
        /\ blocking' \in BOOLEAN /\ (blocking' => blocking \/ pc = "serving")
    <3>1. CASE WatcherEnds
      BY <3>1 DEF WatcherEnds, NPool, RunInv, RunTypeOK
    <3>2. CASE Shutdown
      BY <3>2 DEF Shutdown, NPool, RunInv, RunTypeOK
    <3>3. CASE UNCHANGED runVars
      BY <3>3 DEF runVars, NPool, RunInv, RunTypeOK
    <3>4. CASE BlockingStarts
      BY <3>4, Zenon DEF BlockingStarts, NPool, RunInv, RunTypeOK
    <3>5. CASE BlockingEnds
      BY <3>5, Zenon DEF BlockingEnds, NPool, RunInv, RunTypeOK
    <3> QED BY <1>6, <3>1, <3>2, <3>3, <3>4, <3>5
  <2>2. RunTypeOK'
    BY <2>1 DEF RunInv, RunTypeOK, PoolWorkers
  <2>3. Stage' /\ \A w \in Workers : ThreadHas(w)'
    BY <2>1 DEF RunInv, RunIInv, Stage, Split, Leaked, ThreadHas, Untouched, Owned, Handed, Down
  <2>4. Helpers'
    BY <2>1 DEF RunInv, RunIInv, Helpers
  <2> QED BY <2>2, <2>3, <2>4 DEF RunInv, RunIInv
<1> QED BY <1>1, <1>2, <1>3, <1>4, <1>5, <1>6 DEF RunNext, Terminated

(* Whichever step of the start fails and whichever thread stops first, an  *)
(* interpreter is ended by the thread that has it, and Python is finalized *)
(* only when every interpreter has ended, no thread of the run is left,    *)
(* the bridge, the watcher and the blocking work are gone and the pool is  *)
(* closed; a worker lost to a failed spawn is the exception.               *)
THEOREM RunCorrect == RunSpec => []RunSafe
<1>1. RunInv => RunSafe
  <2> SUFFICES ASSUME RunInv PROVE RunSafe
    OBVIOUS
  <2>1. OwnerEnds
    BY DEF RunInv, RunIInv, ThreadHas, OwnerEnds
  <2>2. FinalizeQuiet
    BY DEF RunInv, RunIInv, FinalizeQuiet, Quiet, Stage, Helpers, Leaked, Down
  <2> QED BY <2>1, <2>2 DEF RunInv, RunSafe
<1> QED BY <1>1, RunStarts, RunStep, PTL DEF RunSpec

-----------------------------------------------------------------------------
(* Cycle collection.                                                       *)

GcInv == GcTypeOK /\ ScheduleTrue

(* The trigger is a number of requests, or 0 for none.                     *)
LEMMA TriggerType == mode \in {"count", "idle", "off"} => CountTrigger \in Nat
BY GcAssumption DEF CountTrigger

(* A collection at n requests, n the count as it is or one more.           *)
LEMMA Collected ==
    ASSUME GcInv, NEW w \in GcWorkers, NEW n \in {served[w], served[w] + 1}, n <= MaxRequests,
           Collect(w, n),
           served' = [served EXCEPT ![w] = n],
           panicked'[w] \in 0 .. panicked[w],
           panicked' = [panicked EXCEPT ![w] = panicked'[w]],
           tickAt' \in {tickAt, [tickAt EXCEPT ![w] = served[w]]},
           UNCHANGED mode
    PROVE  GcInv'
<1> DEFINE left == uncollected[w] + n - served[w]
<1>0. /\ mode \in {"count", "idle", "off"} /\ CountTrigger' = CountTrigger /\ CountTrigger \in Nat
      /\ served \in [GcWorkers -> 0 .. MaxRequests] /\ MaxRequests \in Nat
      /\ collectedAt \in [GcWorkers -> Nat] /\ tickAt \in [GcWorkers -> Nat]
      /\ uncollected \in [GcWorkers -> 0 .. MaxRequests]
      /\ panicked \in [GcWorkers -> 0 .. MaxRequests]
      /\ raised \in [GcWorkers -> BOOLEAN]
      /\ \A v \in GcWorkers : collectedAt[v] \in 0 .. served[v] /\ tickAt[v] \in 0 .. served[v]
  BY TriggerType, GcAssumption DEF GcInv, GcTypeOK, CountTrigger
<1>1. PICK ok \in BOOLEAN :
        /\ uncollected' = [uncollected EXCEPT ![w] = IF ok THEN 0 ELSE left]
        /\ raised' = [raised EXCEPT ![w] = ~ok]
  BY DEF Collect
<1>2. left \in 0 .. n /\ n \in 0 .. MaxRequests
  BY <1>0 DEF GcInv, ScheduleTrue
<1>3. /\ served'[w] = n /\ collectedAt'[w] = n /\ tickAt'[w] \in 0 .. n
      /\ uncollected'[w] \in 0 .. n /\ (~raised'[w] => uncollected'[w] = 0)
      /\ panicked'[w] \in 0 .. n
  <2>1. CASE ok = TRUE
    BY <1>0, <1>1, <1>2, <2>1 DEF Collect, GcInv, ScheduleTrue
  <2>2. CASE ok = FALSE
    <3>1. raised'[w] = TRUE
      BY <1>0, <1>1, <2>2
    <3> QED BY <1>0, <1>1, <1>2, <2>2, <3>1 DEF Collect, GcInv, ScheduleTrue
  <2> QED BY <2>1, <2>2
<1>4. \A v \in GcWorkers : v # w =>
        /\ served'[v] = served[v] /\ collectedAt'[v] = collectedAt[v] /\ tickAt'[v] = tickAt[v]
        /\ raised'[v] = raised[v] /\ uncollected'[v] = uncollected[v]
        /\ panicked'[v] = panicked[v]
  BY <1>0, <1>1 DEF Collect
<1>5. GcTypeOK'
  BY <1>0, <1>1, <1>2, <1>3, <1>4 DEF Collect, GcTypeOK
<1>6. ScheduleTrue'
  <2> SUFFICES ASSUME NEW v \in GcWorkers
               PROVE  /\ uncollected'[v] <= served'[v] /\ panicked'[v] <= served'[v]
                      /\ ~raised'[v] => uncollected'[v] = served'[v] - collectedAt'[v]
                      /\ CountTrigger > 0 =>
                            served'[v] - collectedAt'[v] < CountTrigger + panicked'[v]
    BY <1>0 DEF ScheduleTrue
  <2>1. CASE v = w
    BY <1>0, <1>2, <1>3, <2>1
  <2>2. CASE v # w
    BY <1>4, <2>2 DEF GcInv, ScheduleTrue
  <2> QED BY <2>1, <2>2
<1> QED BY <1>5, <1>6 DEF GcInv

(* A request that ends with no collection: the trigger was not due, or a   *)
(* panic went past it.                                                     *)
LEMMA NotCollected ==
    ASSUME GcInv, NEW w \in GcWorkers, CanServe(w),
           served' = [served EXCEPT ![w] = @ + 1],
           uncollected' = [uncollected EXCEPT ![w] = @ + 1],
           \/ ~Due(served[w] + 1 - collectedAt[w]) /\ panicked' = [panicked EXCEPT ![w] = 0]
           \/ panicked' = [panicked EXCEPT ![w] = @ + 1],
           UNCHANGED <<mode, collectedAt, tickAt, raised>>
    PROVE  GcInv'
<1>0. /\ mode \in {"count", "idle", "off"} /\ CountTrigger' = CountTrigger /\ CountTrigger \in Nat
      /\ served \in [GcWorkers -> 0 .. MaxRequests] /\ MaxRequests \in Nat
      /\ collectedAt \in [GcWorkers -> Nat] /\ tickAt \in [GcWorkers -> Nat]
      /\ uncollected \in [GcWorkers -> 0 .. MaxRequests]
      /\ panicked \in [GcWorkers -> 0 .. MaxRequests]
      /\ \A v \in GcWorkers : collectedAt[v] \in 0 .. served[v] /\ tickAt[v] \in 0 .. served[v]
      /\ \A v \in GcWorkers : uncollected[v] <= served[v] /\ panicked[v] <= served[v]
  BY TriggerType, GcAssumption DEF GcInv, GcTypeOK, ScheduleTrue, CountTrigger
<1>1. /\ served'[w] = served[w] + 1 /\ served'[w] <= MaxRequests
      /\ uncollected'[w] = uncollected[w] + 1
      /\ panicked'[w] = 0 \/ panicked'[w] = panicked[w] + 1
      /\ CountTrigger > 0 => served'[w] - collectedAt[w] < CountTrigger + panicked'[w]
  <2>1. served[w] < MaxRequests
    BY DEF CanServe
  <2>2. CASE ~Due(served[w] + 1 - collectedAt[w]) /\ panicked' = [panicked EXCEPT ![w] = 0]
    BY <1>0, <2>1, <2>2 DEF Due
  <2>3. CASE panicked' = [panicked EXCEPT ![w] = @ + 1]
    BY <1>0, <2>1, <2>3 DEF GcInv, ScheduleTrue
  <2> QED BY <2>2, <2>3
<1>2. \A v \in GcWorkers : v # w =>
        served'[v] = served[v] /\ uncollected'[v] = uncollected[v] /\ panicked'[v] = panicked[v]
  BY <1>0
<1>3. GcTypeOK'
  BY <1>0, <1>1, <1>2 DEF GcInv, GcTypeOK
<1>4. ScheduleTrue'
  <2> SUFFICES ASSUME NEW v \in GcWorkers
               PROVE  /\ uncollected'[v] <= served'[v] /\ panicked'[v] <= served'[v]
                      /\ ~raised[v] => uncollected'[v] = served'[v] - collectedAt[v]
                      /\ CountTrigger > 0 =>
                            served'[v] - collectedAt[v] < CountTrigger + panicked'[v]
    BY <1>0 DEF ScheduleTrue
  <2>1. CASE v = w
    BY <1>0, <1>1, <2>1 DEF GcInv, ScheduleTrue
  <2>2. CASE v # w
    BY <1>2, <2>2 DEF GcInv, ScheduleTrue
  <2> QED BY <2>1, <2>2
<1> QED BY <1>3, <1>4 DEF GcInv

(* On every worker, in every mode and for every threshold, the garbage no  *)
(* collection has freed stays under the trigger, but for the panics that   *)
(* went past it and for a collection that raised.                          *)
THEOREM GcCorrect == GcSpec => []GcSafe
<1>1. GcInit => GcInv
  <2> SUFFICES ASSUME GcInit PROVE GcInv
    OBVIOUS
  <2>1. CountTrigger \in Nat /\ MaxRequests \in Nat
    BY TriggerType, GcAssumption DEF GcInit
  <2> QED BY <2>1 DEF GcInit, GcInv, GcTypeOK, ScheduleTrue
<1>2. GcInv /\ [GcNext]_gcVars => GcInv'
  <2> SUFFICES ASSUME GcInv, [GcNext]_gcVars PROVE GcInv'
    OBVIOUS
  <2>0. /\ served \in [GcWorkers -> 0 .. MaxRequests] /\ MaxRequests \in Nat
        /\ panicked \in [GcWorkers -> 0 .. MaxRequests]
    BY GcAssumption DEF GcInv, GcTypeOK
  <2>1. ASSUME NEW w \in GcWorkers, GcServe(w)
        PROVE  GcInv'
    <3>1. CASE Due(served[w] + 1 - collectedAt[w])
      <4>1. Collect(w, served[w] + 1)
        BY <2>1, <3>1 DEF GcServe
      <4>2. /\ served[w] + 1 <= MaxRequests
            /\ served' = [served EXCEPT ![w] = served[w] + 1]
            /\ panicked' = [panicked EXCEPT ![w] = 0]
            /\ UNCHANGED <<mode, tickAt>>
        BY <2>0, <2>1 DEF GcServe, CanServe
      <4>3. panicked'[w] = 0 /\ panicked'[w] \in 0 .. panicked[w]
        BY <2>0, <4>2
      <4> QED BY <2>0, <4>1, <4>2, <4>3, Collected
    <3>2. CASE ~Due(served[w] + 1 - collectedAt[w])
      BY <2>1, <3>2, NotCollected DEF GcServe
    <3> QED BY <3>1, <3>2
  <2>2. ASSUME NEW w \in GcWorkers, ServePanics(w)
        PROVE  GcInv'
    BY <2>2, NotCollected DEF ServePanics
  <2>3. ASSUME NEW w \in GcWorkers, Tick(w)
        PROVE  GcInv'
    <3>1. CASE Collect(w, served[w])
      <4>1. /\ served[w] <= MaxRequests
            /\ served' = [served EXCEPT ![w] = served[w]]
            /\ panicked'[w] \in 0 .. panicked[w]
            /\ panicked' = [panicked EXCEPT ![w] = panicked'[w]]
            /\ tickAt' = [tickAt EXCEPT ![w] = served[w]]
            /\ UNCHANGED mode
        BY <2>0, <2>3 DEF Tick
      <4> QED BY <2>0, <3>1, <4>1, Collected
    <3>2. CASE UNCHANGED <<collectedAt, uncollected, raised>>
      <4>1. UNCHANGED <<mode, served, panicked>> /\ tickAt' = [tickAt EXCEPT ![w] = served[w]]
        BY <2>3 DEF Tick
      <4>2. GcTypeOK'
        BY <2>0, <3>2, <4>1 DEF GcInv, GcTypeOK
      <4> QED BY <3>2, <4>1, <4>2 DEF GcInv, ScheduleTrue, CountTrigger
    <3> QED BY <2>3, <3>1, <3>2 DEF Tick
  <2>4. CASE UNCHANGED gcVars
    BY <2>4 DEF gcVars, GcInv, GcTypeOK, ScheduleTrue, CountTrigger
  <2> QED BY <2>1, <2>2, <2>3, <2>4 DEF GcNext
<1>3. GcInv => GcSafe
  BY TriggerType DEF GcInv, GcSafe, GarbageBounded, ScheduleTrue, GcTypeOK
<1> QED BY <1>1, <1>2, <1>3, PTL DEF GcSpec

-----------------------------------------------------------------------------
(* Accept loops.                                                           *)

AlInv == AlSpecs # <<>> /\ AlSafe /\ AlIInv

(* The listeners are a sequence of TLS flags, the next one asked is one of *)
(* them, and a connection that is nowhere has a shape.                     *)
LEMMA SpecsType ==
    /\ AlSpecs \in Seq(BOOLEAN)
    /\ AlSpecs # <<>> => /\ Len(AlSpecs) \in Nat \ {0}
                         /\ DOMAIN AlSpecs = 1 .. Len(AlSpecs)
                         /\ 1 \in DOMAIN AlSpecs
                         /\ \A n \in DOMAIN AlSpecs :
                                AfterPoll(n) \in DOMAIN AlSpecs /\ AlSpecs[n] \in BOOLEAN
                         /\ NoConn \in [at : {"none"}, loop : AlLoops, on : DOMAIN AlSpecs,
                                        secure : {FALSE}]
<1>1. AlSpecs \in Seq(BOOLEAN)
  <2>1. CASE AlPorts = <<>>
    BY <2>1, AlAssumption DEF AlSpecs, SpecSet
  <2>2. CASE AlPorts # <<>> /\ AlTls
    <3>0. Len(AlPorts) \in Nat /\ DOMAIN AlPorts = 1 .. Len(AlPorts)
      BY AlAssumption
    <3>1. [p \in DOMAIN AlPorts |-> TRUE] \in Seq(BOOLEAN)
      BY <3>0, SeqDef
    <3>2. <<FALSE>> \o [p \in DOMAIN AlPorts |-> TRUE] \in Seq(BOOLEAN)
      BY <3>1
    <3> QED BY <2>2, <3>2 DEF AlSpecs, SpecSet
  <2>3. CASE AlPorts # <<>> /\ ~AlTls
    BY <2>3 DEF AlSpecs, SpecSet
  <2> QED BY <2>1, <2>2, <2>3
<1>2. ASSUME AlSpecs # <<>>
      PROVE  /\ Len(AlSpecs) \in Nat \ {0}
             /\ DOMAIN AlSpecs = 1 .. Len(AlSpecs)
             /\ 1 \in DOMAIN AlSpecs
  BY <1>1, <1>2
<1>3. ASSUME NEW n \in Nat, NEW k \in Nat \ {0}
      PROVE  (n % k) + 1 \in 1 .. k
  OBVIOUS
<1>4. ASSUME AlSpecs # <<>>, NEW n \in DOMAIN AlSpecs
      PROVE  AfterPoll(n) \in DOMAIN AlSpecs /\ AlSpecs[n] \in BOOLEAN
  BY <1>1, <1>2, <1>3, <1>4 DEF AfterPoll
<1>5. (CHOOSE l \in AlLoops : TRUE) \in AlLoops
  BY AlAssumption
<1>6. ASSUME AlSpecs # <<>>
      PROVE  NoConn \in [at : {"none"}, loop : AlLoops, on : DOMAIN AlSpecs, secure : {FALSE}]
  BY <1>2, <1>5, <1>6 DEF NoConn
<1> QED BY <1>1, <1>2, <1>4, <1>6

(* The bound on descriptors stays when no connection takes one.            *)
LEMMA HeldBounded ==
    ASSUME AlInv, Held' \subseteq Held
    PROVE  IsFiniteSet(Held') /\ Cardinality(Held') <= AlFds
<1>1. IsFiniteSet(Held) /\ Cardinality(Held) <= AlFds
  BY DEF AlInv, AlIInv, AlShapes, AlSafe, AlTypeOK
<1>2. IsFiniteSet(Held') /\ Cardinality(Held') <= Cardinality(Held)
  BY <1>1, FS_Subset
<1>3. Cardinality(Held) \in Nat /\ Cardinality(Held') \in Nat /\ AlFds \in Nat
  BY <1>1, <1>2, FS_CardinalityType, AlAssumption
<1> QED BY <1>1, <1>2, <1>3

(* One connection moves on, or is over, and the queues stay as they are.   *)
LEMMA ConnStep ==
    ASSUME AlInv, NEW c \in AlConns, NEW v \in AlConnShape,
           alConn' = [alConn EXCEPT ![c] = v],
           UNCHANGED <<alLoop, alQueue, alNext, alStop>>,
           alConn[c].at \in {"queued", "aborted"} =>
                /\ v.at \in {"queued", "aborted"}
                /\ v.loop = alConn[c].loop /\ v.on = alConn[c].on
                /\ v.secure = alConn[c].secure,
           v.at # "none" => alLoop[v.loop] # "ended",
           v.at = "handshake" => AlSpecs[v.on],
           v.at \in {"open", "graceful"} => (v.secure <=> AlSpecs[v.on]),
           v.at \in {"handshake", "open", "graceful"} => c \in Held
    PROVE  AlInv'
<1>1. alConn \in [AlConns -> AlConnShape] /\ alQueue \in [AlLoops -> [DOMAIN AlSpecs -> Seq(AlConns)]]
  BY DEF AlInv, AlIInv, AlShapes
<1>2. /\ alConn' \in [AlConns -> AlConnShape]
      /\ alConn'[c] = v
      /\ \A d \in AlConns : d # c => alConn'[d] = alConn[d]
  BY <1>1
<1>3. Held' \subseteq Held
  BY <1>2 DEF Held
<1>4. AlTypeOK'
  <2>1. \A d \in AlConns :
          /\ alConn'[d].at \in {"none", "queued", "aborted", "handshake", "open", "graceful"}
          /\ alConn'[d].at # "none" => alLoop[alConn'[d].loop] # "ended"
    BY <1>2 DEF AlInv, AlSafe, AlTypeOK, AlConnShape
  <2>2. Cardinality(Held)' <= AlFds
    BY <1>3, HeldBounded
  <2> QED BY <2>1, <2>2 DEF AlInv, AlSafe, AlTypeOK
<1>5. AlTlsHonoured' /\ AlHandshaking'
  BY <1>2 DEF AlInv, AlSafe, AlTlsHonoured, AlIInv, AlHandshaking
<1>6. AlQueued'
  <2>1. \A l \in AlLoops : \A k \in DOMAIN AlSpecs : \A n \in DOMAIN alQueue[l][k] :
          alQueue[l][k][n] \in AlConns
    BY <1>1
  <2> QED BY <1>2, <2>1 DEF AlInv, AlIInv, AlQueued
<1>7. AlShapes'
  <2>1. IsFiniteSet(Held)'
    BY <1>3, HeldBounded
  <2> QED BY <1>1, <1>2, <2>1 DEF AlShapes
<1> QED BY <1>4, <1>5, <1>6, <1>7 DEF AlInv, AlSafe, AlIInv

(* What a connection can do by itself: arrive, leave, shake hands, end.    *)
LEMMA ConnSteps ==
    ASSUME AlInv, NEW c \in AlConns,
           AlClientLeaves(c) \/ AlHandshake(c) \/ AlConnEnds(c) \/ AlGraceful(c)
    PROVE  AlInv'
<1>0. alConn[c] \in AlConnShape
  BY DEF AlInv, AlIInv, AlShapes
<1>1. NoConn \in AlConnShape /\ NoConn.at = "none"
  BY SpecsType DEF AlInv, AlConnShape
<1>2. /\ alConn[c].at # "none" => alLoop[alConn[c].loop] # "ended"
      /\ alConn[c].at = "handshake" => AlSpecs[alConn[c].on]
      /\ alConn[c].at \in {"open", "graceful"} => (alConn[c].secure <=> AlSpecs[alConn[c].on])
      /\ c \in Held <=> alConn[c].at \in {"handshake", "open", "graceful"}
  BY DEF AlInv, AlSafe, AlTypeOK, AlTlsHonoured, AlIInv, AlHandshaking, Held
<1>3. ASSUME alConn' = [alConn EXCEPT ![c] = NoConn],
             alConn[c].at \in {"handshake", "open", "graceful"},
             UNCHANGED <<alLoop, alQueue, alNext, alStop>>
      PROVE  AlInv'
  BY <1>1, <1>3, ConnStep
<1>4. CASE AlClientLeaves(c)
  <2>1. CASE alConn[c].at = "queued"
    <3> DEFINE v == [alConn[c] EXCEPT !.at = "aborted"]
    <3>1. v \in AlConnShape /\ v.at = "aborted" /\ v.loop = alConn[c].loop /\ v.on = alConn[c].on
          /\ v.secure = alConn[c].secure
      BY <1>0 DEF AlConnShape
    <3>2. /\ alConn' = [alConn EXCEPT ![c] = v]
          /\ UNCHANGED <<alLoop, alQueue, alNext, alStop>>
      BY <1>4, <2>1 DEF AlClientLeaves
    <3> HIDE DEF v
    <3> QED BY <1>2, <2>1, <3>1, <3>2, ConnStep
  <2>2. CASE alConn[c].at # "queued"
    BY <1>3, <1>4, <2>2 DEF AlClientLeaves
  <2> QED BY <2>1, <2>2
<1>5. CASE AlHandshake(c)
  <2> DEFINE v == [alConn[c] EXCEPT !.at = "open", !.secure = TRUE]
  <2>1. /\ v \in AlConnShape /\ v.at = "open" /\ v.secure = TRUE
        /\ v.loop = alConn[c].loop /\ v.on = alConn[c].on
    BY <1>0 DEF AlConnShape
  <2>2. /\ \/ alConn' = [alConn EXCEPT ![c] = v]
           \/ alConn' = [alConn EXCEPT ![c] = NoConn]
        /\ alConn[c].at = "handshake"
        /\ UNCHANGED <<alLoop, alQueue, alNext, alStop>>
    BY <1>5 DEF AlHandshake
  <2> HIDE DEF v
  <2>3. CASE alConn' = [alConn EXCEPT ![c] = v]
    BY <1>2, <2>1, <2>2, <2>3, ConnStep
  <2> QED BY <1>3, <2>2, <2>3
<1>6. CASE AlConnEnds(c)
  BY <1>3, <1>6 DEF AlConnEnds
<1>7. CASE AlGraceful(c)
  <2> DEFINE v == [alConn[c] EXCEPT !.at = "graceful"]
  <2>1. /\ v \in AlConnShape /\ v.at = "graceful" /\ v.secure = alConn[c].secure
        /\ v.loop = alConn[c].loop /\ v.on = alConn[c].on
    BY <1>0 DEF AlConnShape
  <2>2. /\ alConn' = [alConn EXCEPT ![c] = v]
        /\ alConn[c].at = "open"
        /\ UNCHANGED <<alLoop, alQueue, alNext, alStop>>
    BY <1>7 DEF AlGraceful
  <2> HIDE DEF v
  <2> QED BY <1>2, <2>1, <2>2, ConnStep
<1> QED BY <1>4, <1>5, <1>6, <1>7

(* A new connection is in no queue yet, and joins one.                     *)
LEMMA Arrives ==
    ASSUME AlInv, NEW c \in AlConns, AlArrives(c)
    PROVE  AlInv'
<1>1. PICK l \in AlLoops, k \in DOMAIN AlSpecs :
        /\ alLoop[l] # "ended"
        /\ alConn' = [alConn EXCEPT ![c] = [NoConn EXCEPT !.at = "queued", !.loop = l, !.on = k]]
        /\ alQueue' = [alQueue EXCEPT ![l][k] = Append(@, c)]
  BY DEF AlArrives
<1> DEFINE v == [NoConn EXCEPT !.at = "queued", !.loop = l, !.on = k]
<1>2. v \in AlConnShape /\ v.at = "queued" /\ v.loop = l /\ v.on = k /\ v.secure = FALSE
  BY SpecsType DEF AlInv, AlConnShape
<1>3. /\ alConn[c].at = "none" /\ alConn' = [alConn EXCEPT ![c] = v]
      /\ UNCHANGED <<alLoop, alNext, alStop>>
  BY <1>1 DEF AlArrives
<1> HIDE DEF v
<1>4. alConn \in [AlConns -> AlConnShape] /\ alQueue \in [AlLoops -> [DOMAIN AlSpecs -> Seq(AlConns)]]
  BY DEF AlInv, AlIInv, AlShapes
<1>5. /\ alConn' \in [AlConns -> AlConnShape] /\ alConn'[c] = v
      /\ \A d \in AlConns : d # c => alConn'[d] = alConn[d]
  BY <1>2, <1>3, <1>4
<1>6. /\ alQueue[l][k] \in Seq(AlConns)
      /\ alQueue'[l][k] = Append(alQueue[l][k], c)
      /\ alQueue' \in [AlLoops -> [DOMAIN AlSpecs -> Seq(AlConns)]]
      /\ \A m \in AlLoops, j \in DOMAIN AlSpecs :
            <<m, j>> # <<l, k>> => alQueue'[m][j] = alQueue[m][j]
  BY <1>1, <1>4
<1>7. Held' \subseteq Held
  BY <1>2, <1>5 DEF Held
<1>8. AlTypeOK'
  <2>1. \A d \in AlConns :
          /\ alConn'[d].at \in {"none", "queued", "aborted", "handshake", "open", "graceful"}
          /\ alConn'[d].at # "none" => alLoop[alConn'[d].loop] # "ended"
    BY <1>1, <1>2, <1>5 DEF AlInv, AlSafe, AlTypeOK, AlConnShape
  <2>2. Cardinality(Held)' <= AlFds
    BY <1>7, HeldBounded
  <2> QED BY <1>3, <2>1, <2>2 DEF AlInv, AlSafe, AlTypeOK
<1>9. AlTlsHonoured' /\ AlHandshaking'
  BY <1>2, <1>5 DEF AlInv, AlSafe, AlTlsHonoured, AlIInv, AlHandshaking
<1>10. AlQueued'
  <2> SUFFICES ASSUME NEW m \in AlLoops, NEW j \in DOMAIN AlSpecs, NEW n \in DOMAIN alQueue'[m][j]
               PROVE  LET d == alQueue'[m][j][n] IN
                      /\ alConn'[d].at \in {"queued", "aborted"}
                      /\ alConn'[d].loop = m /\ alConn'[d].on = j /\ ~alConn'[d].secure
                      /\ \A h \in DOMAIN alQueue'[m][j] : alQueue'[m][j][h] = d => h = n
    BY DEF AlQueued
  <2>1. \A h \in DOMAIN alQueue[m][j] :
          LET d == alQueue[m][j][h] IN
          /\ d \in AlConns /\ d # c /\ alConn'[d] = alConn[d]
          /\ alConn[d].at \in {"queued", "aborted"}
          /\ alConn[d].loop = m /\ alConn[d].on = j /\ ~alConn[d].secure
          /\ \A g \in DOMAIN alQueue[m][j] : alQueue[m][j][g] = d => g = h
    BY <1>3, <1>4, <1>5 DEF AlInv, AlIInv, AlQueued
  <2>2. CASE <<m, j>> # <<l, k>>
    <3>1. alQueue'[m][j] = alQueue[m][j]
      BY <1>6, <2>2
    <3> QED BY <2>1, <3>1
  <2>3. CASE m = l /\ j = k
    <3>1. \A h \in DOMAIN alQueue'[l][k] :
            \/ h \in DOMAIN alQueue[l][k] /\ alQueue'[l][k][h] = alQueue[l][k][h]
            \/ h = Len(alQueue[l][k]) + 1 /\ h \notin DOMAIN alQueue[l][k] /\ alQueue'[l][k][h] = c
      BY <1>6
    <3>2. CASE n \in DOMAIN alQueue[l][k] /\ alQueue'[l][k][n] = alQueue[l][k][n]
      BY <2>1, <2>3, <3>1, <3>2
    <3>3. CASE n = Len(alQueue[l][k]) + 1 /\ alQueue'[l][k][n] = c
      BY <1>2, <1>5, <2>1, <2>3, <3>1, <3>3
    <3> QED BY <2>3, <3>1, <3>2, <3>3
  <2> QED BY <2>2, <2>3
<1>11. AlShapes'
  <2>1. IsFiniteSet(Held)'
    BY <1>7, HeldBounded
  <2> QED BY <1>5, <1>6, <2>1 DEF AlShapes
<1> QED BY <1>8, <1>9, <1>10, <1>11 DEF AlInv, AlSafe, AlIInv

(* The loops' own changes, with the connections and queues as they are.    *)
LEMMA LoopStep ==
    ASSUME AlInv, UNCHANGED <<alQueue, alConn>>,
           alLoop' \in [AlLoops -> {"polling", "backoff", "draining", "ended"}],
           \A l \in AlLoops : alLoop'[l] = "ended" => alLoop[l] = "ended",
           alNext' \in [AlLoops -> DOMAIN AlSpecs],
           alStop' \in BOOLEAN
    PROVE  AlInv'
<1>1. Held' = Held
  BY DEF Held
<1>2. alConn \in [AlConns -> AlConnShape]
  BY DEF AlInv, AlIInv, AlShapes
<1>3. AlTypeOK'
  BY <1>1, <1>2 DEF AlInv, AlSafe, AlTypeOK, AlConnShape
<1> QED BY <1>1, <1>3 DEF AlInv, AlSafe, AlTlsHonoured, AlIInv, AlShapes, AlQueued, AlHandshaking

(* What is left of a queue once its head is taken.                         *)
LEMMA QueueTail ==
    ASSUME NEW S, NEW q \in Seq(S), q # <<>>, NEW h \in DOMAIN Tail(q)
    PROVE  h \in Nat /\ h + 1 \in DOMAIN q /\ h + 1 # 1 /\ Tail(q)[h] = q[h + 1]
  OBVIOUS

(* A loop takes the connection at the head of a queue: its client is gone  *)
(* already, or it is driven from here on and holds a descriptor.           *)
LEMMA Accepts ==
    ASSUME AlInv, NEW l \in AlLoops, NEW k \in DOMAIN AlSpecs, alQueue[l][k] # <<>>,
           alLoop[l] = "polling",
           alLoop' \in {alLoop, [alLoop EXCEPT ![l] = "backoff"]},
           alNext' = [alNext EXCEPT ![l] = AfterPoll(k)],
           alQueue' = [alQueue EXCEPT ![l][k] = Tail(@)],
           UNCHANGED alStop,
           \/ alConn' = [alConn EXCEPT ![Head(alQueue[l][k])] = NoConn]
           \/ /\ ~Exhausted
              /\ alConn' = [alConn EXCEPT ![Head(alQueue[l][k])].at =
                                IF AcceptorOf(k) THEN "handshake" ELSE "open"]
    PROVE  AlInv'
<1> DEFINE c == Head(alQueue[l][k])
<1>0. /\ alConn \in [AlConns -> AlConnShape]
      /\ alQueue \in [AlLoops -> [DOMAIN AlSpecs -> Seq(AlConns)]]
      /\ alLoop \in [AlLoops -> {"polling", "backoff", "draining", "ended"}]
      /\ alNext \in [AlLoops -> DOMAIN AlSpecs]
  BY DEF AlInv, AlIInv, AlShapes, AlSafe, AlTypeOK
<1>1. /\ alQueue[l][k] \in Seq(AlConns) /\ 1 \in DOMAIN alQueue[l][k]
      /\ c = alQueue[l][k][1] /\ c \in AlConns
  BY <1>0
<1>2. /\ alConn[c].at \in {"queued", "aborted"}
      /\ alConn[c].loop = l /\ alConn[c].on = k /\ ~alConn[c].secure
  BY <1>1 DEF AlInv, AlIInv, AlQueued
<1> DEFINE v == alConn'[c]
<1>3. /\ alConn' \in [AlConns -> AlConnShape]
      /\ \A d \in AlConns : d # c => alConn'[d] = alConn[d]
      /\ \/ v.at = "none"
         \/ /\ ~Exhausted
            /\ v.at = (IF AlSpecs[k] THEN "handshake" ELSE "open")
            /\ v.loop = l /\ v.on = k /\ v.secure = alConn[c].secure
  <2>1. CASE alConn' = [alConn EXCEPT ![c] = NoConn]
    <3>1. NoConn \in AlConnShape /\ NoConn.at = "none"
      BY SpecsType DEF AlInv, AlConnShape
    <3> QED BY <1>0, <1>1, <2>1, <3>1
  <2>2. CASE /\ ~Exhausted
             /\ alConn' = [alConn EXCEPT ![c].at = IF AcceptorOf(k) THEN "handshake" ELSE "open"]
    <3> DEFINE st == IF AlSpecs[k] THEN "handshake" ELSE "open"
    <3>1. alConn' = [alConn EXCEPT ![c] = [@ EXCEPT !.at = st]]
      BY <2>2 DEF AcceptorOf
    <3>2. st \in {"none", "queued", "aborted", "handshake", "open", "graceful"}
      OBVIOUS
    <3> HIDE DEF st
    <3> DEFINE w == [alConn[c] EXCEPT !.at = st]
    <3>3. alConn[c] \in AlConnShape
      BY <1>0, <1>1
    <3>4. /\ w \in AlConnShape /\ w.at = st /\ w.loop = alConn[c].loop
          /\ w.on = alConn[c].on /\ w.secure = alConn[c].secure
      BY <3>2, <3>3 DEF AlConnShape
    <3>5. alConn' = [alConn EXCEPT ![c] = w]
      BY <3>1
    <3> HIDE DEF w
    <3>6. /\ alConn' \in [AlConns -> AlConnShape] /\ v = w
          /\ \A d \in AlConns : d # c => alConn'[d] = alConn[d]
      BY <1>0, <1>1, <3>4, <3>5
    <3>7. v.at = st /\ v.loop = l /\ v.on = k /\ v.secure = alConn[c].secure
      BY <1>2, <3>4, <3>6
    <3> HIDE DEF v
    <3> QED BY <2>2, <3>6, <3>7 DEF st
  <2> QED BY <2>1, <2>2
<1> HIDE DEF c, v
<1>4. /\ IsFiniteSet(Held') /\ Cardinality(Held') <= AlFds
  <2>1. CASE v.at = "none"
    <3>1. Held' \subseteq Held
      BY <1>3, <2>1 DEF Held, v
    <3> QED BY <3>1, HeldBounded
  <2>2. CASE ~Exhausted
    <3>1. IsFiniteSet(Held) /\ Cardinality(Held) \in Nat /\ AlFds \in Nat
      BY FS_CardinalityType, AlAssumption DEF AlInv, AlIInv, AlShapes
    <3>2. Cardinality(Held) < AlFds
      BY <2>2, <3>1 DEF Exhausted
    <3>3. Held' \subseteq Held \cup {c}
      BY <1>3 DEF Held
    <3>4. /\ IsFiniteSet(Held \cup {c})
          /\ Cardinality(Held \cup {c}) \in {Cardinality(Held), Cardinality(Held) + 1}
      BY <3>1, FS_AddElement
    <3>5. IsFiniteSet(Held') /\ Cardinality(Held') <= Cardinality(Held \cup {c})
      BY <3>3, <3>4, FS_Subset
    <3>6. Cardinality(Held') \in Nat
      BY <3>5, FS_CardinalityType
    <3> QED BY <3>1, <3>2, <3>4, <3>5, <3>6
  <2> QED BY <1>3, <2>1, <2>2
<1>5. /\ alLoop' \in [AlLoops -> {"polling", "backoff", "draining", "ended"}]
      /\ \A m \in AlLoops : alLoop'[m] = "ended" => alLoop[m] = "ended"
      /\ alNext' \in [AlLoops -> DOMAIN AlSpecs]
  BY <1>0, SpecsType DEF AlInv
<1>6. AlTypeOK'
  <2>1. \A d \in AlConns :
          /\ alConn'[d].at \in {"none", "queued", "aborted", "handshake", "open", "graceful"}
          /\ alConn'[d].loop \in AlLoops
          /\ alConn'[d].at # "none" => alLoop[alConn'[d].loop] # "ended"
    BY <1>3 DEF AlInv, AlSafe, AlTypeOK, AlConnShape, v
  <2> QED BY <1>4, <1>5, <2>1 DEF AlInv, AlSafe, AlTypeOK
<1>7. AlTlsHonoured' /\ AlHandshaking'
  <2>1. /\ v.at = "handshake" => AlSpecs[v.on]
        /\ v.at \in {"open", "graceful"} => (v.secure <=> AlSpecs[v.on])
    BY <1>2, <1>3
  <2> QED BY <1>3, <2>1 DEF AlInv, AlSafe, AlTlsHonoured, AlIInv, AlHandshaking, v
<1>8. AlQueued'
  <2> SUFFICES ASSUME NEW m \in AlLoops, NEW j \in DOMAIN AlSpecs, NEW n \in DOMAIN alQueue'[m][j]
               PROVE  LET d == alQueue'[m][j][n] IN
                      /\ alConn'[d].at \in {"queued", "aborted"}
                      /\ alConn'[d].loop = m /\ alConn'[d].on = j /\ ~alConn'[d].secure
                      /\ \A h \in DOMAIN alQueue'[m][j] : alQueue'[m][j][h] = d => h = n
    BY DEF AlQueued
  <2>1. \A h \in DOMAIN alQueue[m][j] :
          LET d == alQueue[m][j][h] IN
          /\ d \in AlConns /\ (d # c => alConn'[d] = alConn[d])
          /\ alConn[d].at \in {"queued", "aborted"}
          /\ alConn[d].loop = m /\ alConn[d].on = j /\ ~alConn[d].secure
          /\ \A g \in DOMAIN alQueue[m][j] : alQueue[m][j][g] = d => g = h
    BY <1>0, <1>3 DEF AlInv, AlIInv, AlQueued
  <2>2. CASE <<m, j>> # <<l, k>>
    <3>1. alQueue'[m][j] = alQueue[m][j]
      BY <1>0, <2>2
    <3>2. \A h \in DOMAIN alQueue[m][j] : alQueue[m][j][h] # c
      BY <1>2, <2>1, <2>2
    <3> QED BY <2>1, <3>1, <3>2
  <2>3. CASE m = l /\ j = k
    <3>1. alQueue'[l][k] = Tail(alQueue[l][k])
      BY <1>0
    <3>2. ASSUME NEW h \in DOMAIN alQueue'[l][k]
          PROVE  /\ h \in Nat /\ h + 1 \in DOMAIN alQueue[l][k] /\ h + 1 # 1
                 /\ alQueue'[l][k][h] = alQueue[l][k][h + 1]
      <4> DEFINE q == alQueue[l][k]
      <4>1. q \in Seq(AlConns) /\ q # <<>> /\ alQueue'[l][k] = Tail(q)
        BY <1>1, <3>1
      <4> HIDE DEF q
      <4>2. h \in Nat /\ h + 1 \in DOMAIN q /\ h + 1 # 1 /\ Tail(q)[h] = q[h + 1]
        BY <4>1, QueueTail
      <4> QED BY <4>1, <4>2 DEF q
    <3>3. ASSUME NEW h \in DOMAIN alQueue'[l][k]
          PROVE  alQueue'[l][k][h] # c
      <4>1. /\ h + 1 \in DOMAIN alQueue[l][k] /\ h + 1 # 1
            /\ alQueue'[l][k][h] = alQueue[l][k][h + 1]
        BY <3>2
      <4>2. \A g \in DOMAIN alQueue[l][k] : alQueue[l][k][g] = alQueue[l][k][1] => g = 1
        BY <1>1, <2>1, <2>3
      <4> QED BY <1>1, <4>1, <4>2
    <3> QED BY <2>1, <2>3, <3>2, <3>3
  <2> QED BY <2>2, <2>3
<1>9. AlShapes'
  <2>1. alQueue' \in [AlLoops -> [DOMAIN AlSpecs -> Seq(AlConns)]]
    BY <1>0, <1>1
  <2> QED BY <1>3, <1>4, <2>1 DEF AlShapes
<1> QED BY <1>6, <1>7, <1>8, <1>9 DEF AlInv, AlSafe, AlIInv

(* A drained loop closes what it still drives and what its sockets queue.  *)
LEMMA Ends ==
    ASSUME AlInv, NEW l \in AlLoops, AlEnds(l)
    PROVE  AlInv'
<1>0. /\ alConn \in [AlConns -> AlConnShape]
      /\ alQueue \in [AlLoops -> [DOMAIN AlSpecs -> Seq(AlConns)]]
      /\ alLoop \in [AlLoops -> {"polling", "backoff", "draining", "ended"}]
  BY DEF AlInv, AlIInv, AlShapes, AlSafe, AlTypeOK
<1>1. NoConn \in AlConnShape /\ NoConn.at = "none"
  BY SpecsType DEF AlInv, AlConnShape
<1>2. /\ alConn' \in [AlConns -> AlConnShape]
      /\ \A c \in AlConns :
            \/ alConn'[c].at = "none" /\ (alConn[c].at = "none" \/ alConn[c].loop = l)
            \/ alConn'[c] = alConn[c] /\ alConn[c].loop # l
  <2>1. alConn' = [c \in AlConns |-> IF c \in Of(l) THEN NoConn ELSE alConn[c]]
    BY DEF AlEnds
  <2>2. \A c \in AlConns : alConn'[c] = IF c \in Of(l) THEN NoConn ELSE alConn[c]
    BY <2>1
  <2>3. alConn' \in [AlConns -> AlConnShape]
    BY <1>0, <1>1, <2>1
  <2> QED BY <1>1, <2>2, <2>3 DEF Of
<1>3. Held' \subseteq Held
  BY <1>2 DEF Held
<1>4. IsFiniteSet(Held)' /\ Cardinality(Held)' <= AlFds
  BY <1>3, HeldBounded
<1>5. /\ alLoop' \in [AlLoops -> {"polling", "backoff", "draining", "ended"}]
      /\ \A m \in AlLoops : m # l => alLoop'[m] = alLoop[m]
      /\ UNCHANGED <<alNext, alStop>>
  BY <1>0 DEF AlEnds
<1>6. AlTypeOK'
  <2>1. \A d \in AlConns :
          /\ alConn'[d].at \in {"none", "queued", "aborted", "handshake", "open", "graceful"}
          /\ alConn'[d].at # "none" => alLoop'[alConn'[d].loop] # "ended"
    BY <1>0, <1>2, <1>5 DEF AlInv, AlSafe, AlTypeOK, AlConnShape
  <2> QED BY <1>4, <1>5, <2>1 DEF AlInv, AlSafe, AlTypeOK
<1>7. AlTlsHonoured' /\ AlHandshaking'
  BY <1>2 DEF AlInv, AlSafe, AlTlsHonoured, AlIInv, AlHandshaking
<1>8. /\ alQueue' \in [AlLoops -> [DOMAIN AlSpecs -> Seq(AlConns)]]
      /\ \A j \in DOMAIN AlSpecs : alQueue'[l][j] = <<>>
      /\ \A m \in AlLoops : m # l => alQueue'[m] = alQueue[m]
  BY <1>0 DEF AlEnds
<1>9. AlQueued'
  <2> SUFFICES ASSUME NEW m \in AlLoops, NEW j \in DOMAIN AlSpecs, NEW n \in DOMAIN alQueue'[m][j]
               PROVE  LET d == alQueue'[m][j][n] IN
                      /\ alConn'[d].at \in {"queued", "aborted"}
                      /\ alConn'[d].loop = m /\ alConn'[d].on = j /\ ~alConn'[d].secure
                      /\ \A h \in DOMAIN alQueue'[m][j] : alQueue'[m][j][h] = d => h = n
    BY DEF AlQueued
  <2>1. m # l /\ alQueue'[m] = alQueue[m]
    BY <1>8
  <2>2. alQueue[m][j] \in Seq(AlConns) /\ alQueue[m][j][n] \in AlConns
    BY <1>0, <2>1
  <2>3. LET d == alQueue[m][j][n] IN
        /\ alConn[d].at \in {"queued", "aborted"}
        /\ alConn[d].loop = m /\ alConn[d].on = j /\ ~alConn[d].secure
        /\ \A h \in DOMAIN alQueue[m][j] : alQueue[m][j][h] = d => h = n
    BY <2>1 DEF AlInv, AlIInv, AlQueued
  <2>4. alConn'[alQueue[m][j][n]] = alConn[alQueue[m][j][n]]
    BY <1>2, <2>1, <2>2, <2>3
  <2> QED BY <2>1, <2>3, <2>4
<1> QED BY <1>2, <1>4, <1>6, <1>7, <1>8, <1>9 DEF AlInv, AlSafe, AlIInv, AlShapes

(* What one accept loop does keeps the invariant.                          *)
LEMMA LoopSteps ==
    ASSUME AlInv, NEW l \in AlLoops,
           AlAccept(l) \/ AlResumes(l) \/ AlDrains(l) \/ AlEnds(l)
    PROVE  AlInv'
<1>0. /\ alLoop \in [AlLoops -> {"polling", "backoff", "draining", "ended"}]
      /\ alNext \in [AlLoops -> DOMAIN AlSpecs] /\ alStop \in BOOLEAN
  BY DEF AlInv, AlSafe, AlTypeOK
<1>1. CASE AlAccept(l)
  <2>1. PICK k \in DOMAIN AlSpecs :
          /\ Polled(l, k)
          /\ alNext' = [alNext EXCEPT ![l] = AfterPoll(k)]
          /\ LET c == Head(alQueue[l][k]) IN
             \/ /\ Exhausted
                /\ HandleAcceptError(l)
                /\ UNCHANGED <<alConn, alQueue>>
             \/ /\ ~Exhausted
                /\ alQueue' = [alQueue EXCEPT ![l][k] = Tail(@)]
                /\ \/ /\ alConn[c].at = "aborted"
                      /\ HandleAcceptError(l)
                      /\ alConn' = [alConn EXCEPT ![c] = NoConn]
                   \/ /\ alConn[c].at = "queued"
                      /\ alConn' = [alConn EXCEPT ![c].at =
                                       IF AcceptorOf(k) THEN "handshake" ELSE "open"]
                      /\ UNCHANGED alLoop
    BY <1>1 DEF AlAccept
  <2>2. alLoop[l] = "polling" /\ UNCHANGED alStop
    BY <1>1 DEF AlAccept
  <2>3. alQueue[l][k] # <<>>
    BY <2>1 DEF Polled
  <2>4. AfterPoll(k) \in DOMAIN AlSpecs
    BY SpecsType DEF AlInv
  <2>5. CASE Exhausted
    <3>1. /\ UNCHANGED <<alConn, alQueue>>
          /\ alLoop' = [alLoop EXCEPT ![l] = "backoff"]
      BY <2>1, <2>5 DEF HandleAcceptError
    <3>2. /\ alLoop' \in [AlLoops -> {"polling", "backoff", "draining", "ended"}]
          /\ \A m \in AlLoops : alLoop'[m] = "ended" => alLoop[m] = "ended"
          /\ alNext' \in [AlLoops -> DOMAIN AlSpecs]
          /\ alStop' \in BOOLEAN
      BY <1>0, <2>1, <2>2, <2>4, <3>1
    <3> QED BY <3>1, <3>2, LoopStep
  <2>6. CASE ~Exhausted
    <3>1. /\ alQueue' = [alQueue EXCEPT ![l][k] = Tail(@)]
          /\ alLoop' \in {alLoop, [alLoop EXCEPT ![l] = "backoff"]}
          /\ \/ alConn' = [alConn EXCEPT ![Head(alQueue[l][k])] = NoConn]
             \/ /\ ~Exhausted
                /\ alConn' = [alConn EXCEPT ![Head(alQueue[l][k])].at =
                                  IF AcceptorOf(k) THEN "handshake" ELSE "open"]
      BY <2>1, <2>6 DEF HandleAcceptError
    <3> QED BY <2>1, <2>2, <2>3, <3>1, Accepts
  <2> QED BY <2>5, <2>6
<1>2. CASE AlResumes(l)
  BY <1>0, <1>2, LoopStep DEF AlResumes
<1>3. CASE AlDrains(l)
  BY <1>0, <1>3, LoopStep DEF AlDrains
<1>4. CASE AlEnds(l)
  BY <1>4, Ends
<1> QED BY <1>1, <1>2, <1>3, <1>4

(* However connections arrive, leave, fail or are drained, the accept      *)
(* loops hold no more descriptors than there are, drive nothing once they  *)
(* have ended, and a connection is served over TLS exactly when the        *)
(* listener it arrived on has TLS (listener.rs, accept; tls.rs, wrap).     *)
THEOREM AcceptCorrect == AlSpec => []AlSafe
<1>1. AlInit => AlInv
  <2> SUFFICES ASSUME AlInit PROVE AlInv
    OBVIOUS
  <2>1. AlSpecs # <<>>
    BY DEF AlInit
  <2>2. NoConn \in AlConnShape /\ NoConn.at = "none"
    BY <2>1, SpecsType DEF AlConnShape
  <2>3. /\ alConn \in [AlConns -> AlConnShape]
        /\ \A c \in AlConns : alConn[c].at = "none"
    BY <2>2 DEF AlInit
  <2>4. Held = {}
    BY <2>3 DEF Held
  <2>5. IsFiniteSet(Held) /\ Cardinality(Held) <= AlFds
    BY <2>4, FS_EmptySet, AlAssumption
  <2>6. /\ alQueue \in [AlLoops -> [DOMAIN AlSpecs -> Seq(AlConns)]]
        /\ \A l \in AlLoops : \A k \in DOMAIN AlSpecs : alQueue[l][k] = <<>>
    BY DEF AlInit
  <2>7. AlQueued
    BY <2>6 DEF AlQueued
  <2>8. AlTypeOK
    BY <2>1, <2>3, <2>5, SpecsType DEF AlInit, AlTypeOK
  <2> QED BY <2>1, <2>3, <2>5, <2>6, <2>7, <2>8
        DEF AlInv, AlSafe, AlTlsHonoured, AlIInv, AlShapes, AlHandshaking
<1>2. AlInv /\ [AlNext]_alVars => AlInv'
  <2> SUFFICES ASSUME AlInv, [AlNext]_alVars PROVE AlInv'
    OBVIOUS
  <2>1. CASE UNCHANGED alVars
    BY <2>1 DEF alVars, AlInv, AlSafe, AlTypeOK, AlTlsHonoured, AlIInv, AlShapes, AlQueued,
                AlHandshaking, Held
  <2>2. CASE \E c \in AlConns : AlArrives(c)
    BY <2>2, Arrives
  <2>3. CASE \E c \in AlConns : AlClientLeaves(c) \/ AlHandshake(c) \/ AlConnEnds(c) \/ AlGraceful(c)
    BY <2>3, ConnSteps
  <2>4. CASE \E l \in AlLoops : AlAccept(l) \/ AlResumes(l) \/ AlDrains(l) \/ AlEnds(l)
    BY <2>4, LoopSteps
  <2>5. CASE AlStops
    <3>1. /\ alLoop \in [AlLoops -> {"polling", "backoff", "draining", "ended"}]
          /\ alNext \in [AlLoops -> DOMAIN AlSpecs]
      BY DEF AlInv, AlSafe, AlTypeOK
    <3> QED BY <2>5, <3>1, LoopStep DEF AlStops
  <2> QED BY <2>1, <2>2, <2>3, <2>4, <2>5 DEF AlNext
<1>3. AlInv => AlSafe
  BY DEF AlInv
<1> QED BY <1>1, <1>2, <1>3, PTL DEF AlSpec

-----------------------------------------------------------------------------
(* Registration, topology and the worker plan: TypeOK, EveryCallServed and *)
(* WorkersKnowRoutes are inductive together.                               *)

(* The sizes the executors get are at least one wherever there is a route  *)
(* for them: the integer halves of tpc_async_workers and split_workers.    *)
LEMMA SharesPositive ==
    ASSUME NEW n \in Nat \ {0}
    PROVE  /\ TpcAsyncWorkers(n) \in Nat \ {0}
           /\ AsyncShare(n) \in 0 .. n
           /\ Has({Async}) /\ CanSplit(n) => AsyncShare(n) > 0
           /\ Has({Sync}) => n - AsyncShare(n) > 0
<1>1. n \div 2 \in Nat /\ n \div 2 < n /\ (n # 1 => n \div 2 > 0)
  OBVIOUS
<1> QED
  BY <1>1 DEF TpcAsyncWorkers, AsyncShare, CanSplit

(* A size run() was given, or its default, is positive once positive()     *)
(* accepted it.                                                            *)
LEMMA SizedPositive ==
    ASSUME NEW given \in Counts \cup {Default}, NEW default \in Nat \ {0}, Positive(given)
    PROVE  Sized(given, default) \in Nat \ {0}
  BY PlanAssumption DEF Sized, Positive

(* A plan for accepted sizes is well-typed.                                *)
LEMMA PlanTyped ==
    ASSUME NEW runMode \in {"gil", "subinterp"}, NEW runTpc \in BOOLEAN, NEW fanout \in BOOLEAN,
           NEW workers \in Counts \cup {Default}, NEW io \in Counts \cup {Default},
           Positive(workers), Positive(io),
           macos \in BOOLEAN
    PROVE  LET p == PlanFor(TopologyOf(runMode, runTpc, fanout), workers, io) IN
           /\ p \in [topology : {"TpcGil", "TpcWorkers", "TpcFanout", "MultiThreadGil", "Pool"},
                     sync : Nat, async : Nat, main : Nat, loops : Nat]
           /\ p.topology = TopologyOf(runMode, runTpc, fanout)
           /\ p.loops > 0
<1> DEFINE t == TopologyOf(runMode, runTpc, fanout)
<1>1. /\ Sized(workers, Physical) \in Nat \ {0}
      /\ Sized(workers, Logical) \in Nat \ {0}
      /\ Sized(io, Logical) \in Nat \ {0}
  BY SizedPositive, PlanAssumption
<1>2. AcceptLoops(Sized(io, Logical)) \in Nat \ {0}
  BY <1>1, PlanAssumption DEF AcceptLoops, AtMost
<1>3. CASE t = "TpcGil"
  BY <1>1, <1>3 DEF PlanFor, GilPlan
<1>4. CASE t \in {"TpcWorkers", "TpcFanout"}
  <2> DEFINE n == Sized(workers, Physical)
  <2>1. TpcAsyncWorkers(n) \in Nat \ {0}
    BY <1>1, SharesPositive
  <2>2. PlanFor(t, workers, io) = TpcPlan(t, n)
    BY <1>4 DEF PlanFor
  <2> QED
    BY <1>1, <1>4, <2>1, <2>2, PlanAssumption DEF TpcPlan
<1>5. CASE t = "MultiThreadGil"
  BY <1>1, <1>2, <1>5 DEF PlanFor, GilPlan
<1>6. CASE t = "Pool"
  <2> DEFINE n == Sized(workers, Logical)
  <2>1. AsyncShare(n) \in 0 .. n
    BY <1>1, SharesPositive
  <2>2. PlanFor(t, workers, io) = PoolPlan(n, AcceptLoops(Sized(io, Logical)))
    BY <1>6 DEF PlanFor
  <2> QED
    BY <1>1, <1>2, <1>6, <2>1, <2>2 DEF PoolPlan
<1> QED
  BY <1>3, <1>4, <1>5, <1>6 DEF TopologyOf

-----------------------------------------------------------------------------
PlanInv == TypeOK /\ EveryCallServed /\ WorkersKnowRoutes

(* An empty table, unsealed, with no plan.                                 *)
LEMMA PlanInit == Init => PlanInv
<1> SUFFICES ASSUME Init PROVE PlanInv
  OBVIOUS
<1>1. table \in Seq(Kinds) /\ Len(table) = 0
  BY DEF Init
<1>2. TypeOK
  <2>1. macos \in BOOLEAN /\ fallback \in BOOLEAN
    BY DEF Init
  <2>2. plan = NoPlan /\ sealed = Unsealed /\ phase = "open" /\ wanted = Default
    BY DEF Init
  <2>3. plan \in [topology : {"none", "TpcGil", "TpcWorkers", "TpcFanout", "MultiThreadGil", "Pool"},
                  sync : Nat, async : Nat, main : Nat, loops : Nat]
    BY <2>2 DEF NoPlan
  <2> QED
    BY <1>1, <2>1, <2>2, <2>3, PlanAssumption DEF TypeOK
<1>3. EveryCallServed /\ WorkersKnowRoutes
  BY DEF Init, EveryCallServed, WorkersKnowRoutes
<1> QED
  BY <1>2, <1>3 DEF PlanInv

(* Registration: only main's kinds come after the seal.                    *)
LEMMA AddRouteKeeps ==
    ASSUME PlanInv, NEW gil \in BOOLEAN, NEW stream \in BOOLEAN, NEW async \in BOOLEAN,
           AddRoute(gil, stream, async)
    PROVE  PlanInv'
<1> DEFINE d == RouteDispatch(gil, stream, async)
<1>1. d \in Kinds /\ (gil => d \in MainKinds)
  BY DEF RouteDispatch, Kinds, MainKinds, Main, Streamed, Sync, Async
<1>2. /\ table \in Seq(Kinds) /\ table' = Append(table, d) /\ Len(table) < MaxRoutes
      /\ phase = "open"
      /\ UNCHANGED <<macos, fallback, sealed, phase, plan, wanted>>
  BY DEF PlanInv, TypeOK, AddRoute
<1>3. /\ table' \in Seq(Kinds) /\ Len(table') = Len(table) + 1
      /\ \A h \in 1 .. Len(table) : table'[h] = table[h]
      /\ table'[Len(table) + 1] = d
  BY <1>1, <1>2
<1>4. TypeOK'
  BY <1>2, <1>3, PlanAssumption DEF PlanInv, TypeOK
<1>5. EveryCallServed'
  BY <1>2 DEF EveryCallServed
<1>6. WorkersKnowRoutes'
  <2>1. gil \/ sealed = Unsealed
    BY DEF AddRoute, InTime
  <2>2. CASE sealed = Unsealed
    BY <1>2, <2>2 DEF WorkersKnowRoutes
  <2>3. CASE sealed # Unsealed
    <3>1. d \in MainKinds
      BY <1>1, <2>1, <2>3
    <3>2. \A h \in 1 .. Len(table) : table'[h] \notin MainKinds => h <= sealed'
      BY <1>2, <1>3, <2>3 DEF PlanInv, WorkersKnowRoutes
    <3> QED
      BY <1>2, <1>3, <3>1, <3>2 DEF WorkersKnowRoutes
  <2> QED
    BY <2>2, <2>3
<1> QED
  BY <1>4, <1>5, <1>6 DEF PlanInv

(* Sealing counts every route there is.                                    *)
LEMMA SealKeeps ==
    ASSUME PlanInv, SealIfUnsealed, UNCHANGED <<macos, table, fallback>>
    PROVE  sealed' \in Nat \cup {Unsealed} /\ WorkersKnowRoutes'
<1>1. Len(table) \in Nat
  BY DEF PlanInv, TypeOK
<1> QED
  BY <1>1 DEF PlanInv, TypeOK, WorkersKnowRoutes, SealIfUnsealed

(* Starting: whatever the topology, each kind of route the table holds has *)
(* a worker.                                                               *)
LEMMA StartServes ==
    ASSUME PlanInv, NEW runMode \in {"gil", "subinterp"}, NEW runTpc \in BOOLEAN,
           NEW fanout \in BOOLEAN, NEW gc \in {"count", "idle", "off"},
           NEW workers \in Counts \cup {Default}, NEW io \in Counts \cup {Default},
           Start(runMode, runTpc, fanout, gc, workers, io)
    PROVE  PlanInv'
<1> DEFINE t == TopologyOf(runMode, runTpc, fanout)
           servedBy == Positive(workers) /\ Positive(io) /\ Supports(t, gc)
           unsplit == t = "Pool" /\ ~CanSplit(Sized(workers, Logical))
<1>0. phase = "open" /\ UNCHANGED <<macos, table, fallback>> /\ wanted' = workers
  BY DEF Start
<1>1. CASE ~servedBy
  <2>1. phase' = "refused" /\ UNCHANGED <<sealed, plan>>
    BY <1>1 DEF Start
  <2> QED
    BY <1>0, <2>1 DEF PlanInv, TypeOK, EveryCallServed, WorkersKnowRoutes
<1>2. CASE servedBy /\ unsplit
  <2>1. phase' = "refused" /\ UNCHANGED plan /\ SealIfUnsealed
    BY <1>2 DEF Start
  <2>2. sealed' \in Nat \cup {Unsealed} /\ WorkersKnowRoutes'
    BY <1>0, <2>1, SealKeeps
  <2> QED
    BY <1>0, <2>1, <2>2 DEF PlanInv, TypeOK, EveryCallServed
<1>3. CASE servedBy /\ ~unsplit
  <2> DEFINE p == PlanFor(t, workers, io)
  <2>1. phase' = "serving" /\ plan' = p /\ SealIfUnsealed
    BY <1>3 DEF Start
  <2>2. sealed' \in Nat \cup {Unsealed} /\ WorkersKnowRoutes'
    BY <1>0, <2>1, SealKeeps
  <2>3. /\ p \in [topology : {"TpcGil", "TpcWorkers", "TpcFanout", "MultiThreadGil", "Pool"},
                  sync : Nat, async : Nat, main : Nat, loops : Nat]
        /\ p.topology = t /\ p.loops > 0
    <3>1. macos \in BOOLEAN
      BY DEF PlanInv, TypeOK
    <3>2. Positive(workers) /\ Positive(io)
      BY <1>3
    <3> HIDE DEF t, p, servedBy, unsplit
    <3> QED
      BY <3>1, <3>2, PlanTyped DEF t, p
  <2>4. TypeOK'
    BY <1>0, <2>1, <2>2, <2>3 DEF PlanInv, TypeOK
  <2>5. t \in {"TpcGil", "TpcWorkers", "TpcFanout", "MultiThreadGil", "Pool"}
    BY DEF TopologyOf
  <2>6. /\ t \in GilTopologies \cup {"Pool"} \/ UsesMain => p.main > 0
        /\ t \notin GilTopologies /\ Has({Sync}) => p.sync > 0
        /\ t \notin GilTopologies /\ Has({Async}) => p.async > 0
    <3>1. CASE t \in GilTopologies
      BY <3>1 DEF GilTopologies, PlanFor, GilPlan
    <3>2. CASE t \in {"TpcWorkers", "TpcFanout"}
      <4> DEFINE n == Sized(workers, Physical)
      <4>1. n \in Nat \ {0}
        BY <1>3, SizedPositive, PlanAssumption
      <4>2. TpcAsyncWorkers(n) \in Nat \ {0}
        BY <4>1, SharesPositive
      <4>3. p = TpcPlan(t, n)
        BY <3>2 DEF PlanFor
      <4> QED
        BY <3>2, <4>1, <4>2, <4>3, PlanAssumption DEF TpcPlan, GilTopologies
    <3>3. CASE t = "Pool"
      <4> DEFINE n == Sized(workers, Logical)
      <4>1. n \in Nat \ {0} /\ CanSplit(n)
        BY <1>3, <3>3, SizedPositive, PlanAssumption
      <4>2. /\ Has({Async}) => AsyncShare(n) > 0
            /\ Has({Sync}) => n - AsyncShare(n) > 0
        BY <4>1, SharesPositive
      <4>3. p = PoolPlan(n, AcceptLoops(Sized(io, Logical)))
        BY <3>3 DEF PlanFor
      <4> QED
        BY <4>2, <4>3 DEF PoolPlan
    <3> QED
      BY <2>5, <3>1, <3>2, <3>3 DEF GilTopologies
  <2>7. ASSUME NEW h \in 1 .. Len(table)
        PROVE  Executors(table[h])' > 0
    <3>1. table[h] \in Kinds
      BY DEF PlanInv, TypeOK
    <3>2. /\ table[h] = Sync => Has({Sync})
          /\ table[h] = Async => Has({Async})
          /\ table[h] \in MainKinds => UsesMain
      BY DEF Has, UsesMain
    <3> QED
      BY <1>0, <2>1, <2>3, <2>5, <2>6, <3>1, <3>2
      DEF Executors, Kinds, MainKinds, Main, Streamed, Sync, Async, GilTopologies
  <2>8. fallback => p.main > 0
    BY <2>6 DEF UsesMain
  <2>9. EveryCallServed'
    BY <1>0, <2>1, <2>3, <2>7, <2>8 DEF EveryCallServed
  <2> QED
    BY <2>2, <2>4, <2>9 DEF PlanInv
<1> QED
  BY <1>1, <1>2, <1>3

(* Every step keeps the inductive invariant.                               *)
LEMMA PlanStep == PlanInv /\ [Next]_vars => PlanInv'
<1> SUFFICES ASSUME PlanInv, [Next]_vars PROVE PlanInv'
  OBVIOUS
<1>1. CASE \E gil, stream, async \in BOOLEAN : AddRoute(gil, stream, async)
  BY <1>1, AddRouteKeeps
<1>2. CASE SetFallback
  BY <1>2 DEF SetFallback, PlanInv, TypeOK, EveryCallServed, WorkersKnowRoutes
<1>3. CASE SealRegistrations
  <2>1. sealed' \in Nat \cup {Unsealed} /\ WorkersKnowRoutes'
    BY <1>3, SealKeeps DEF SealRegistrations
  <2> QED
    BY <1>3, <2>1 DEF SealRegistrations, PlanInv, TypeOK, EveryCallServed
<1>4. CASE \E runMode \in {"gil", "subinterp"}, runTpc, fanout \in BOOLEAN,
              gc \in {"count", "idle", "off"}, workers, io \in Counts \cup {Default} :
            Start(runMode, runTpc, fanout, gc, workers, io)
  BY <1>4, StartServes
<1>5. CASE UNCHANGED vars
  <2>1. Has(MainKinds)' = Has(MainKinds)
    BY <1>5 DEF vars, Has
  <2> QED
    BY <1>5 DEF vars, PlanInv, TypeOK, EveryCallServed, WorkersKnowRoutes, Executors
<1> QED
  BY <1>1, <1>2, <1>3, <1>4, <1>5 DEF Next

(* Every server that serves has a worker for every route of its table, for *)
(* any table, sizes and core counts.                                       *)
THEOREM CallsServed == Spec => []EveryCallServed
<1>1. PlanInv => EveryCallServed
  BY DEF PlanInv
<1> QED
  BY PlanInit, PlanStep, <1>1, PTL DEF Spec

(* The routes workers are asked for are all among the script's own.        *)
THEOREM RoutesKnown == Spec => []WorkersKnowRoutes
<1>1. PlanInv => WorkersKnowRoutes
  BY DEF PlanInv
<1> QED
  BY PlanInit, PlanStep, <1>1, PTL DEF Spec

(* Type correctness.                                                       *)
THEOREM PlanTypeCorrect == Spec => []TypeOK
<1>1. PlanInv => TypeOK
  BY DEF PlanInv
<1> QED
  BY PlanInit, PlanStep, <1>1, PTL DEF Spec

-----------------------------------------------------------------------------
(* split_workers hands out every worker of the pool, one more at most to   *)
(* the sync half.                                                          *)
LEMMA SplitExact ==
    ASSUME NEW n \in Nat, NEW loops
    PROVE  LET p == PoolPlan(n, loops) IN
           /\ p.sync + p.async = n
           /\ Has({Sync}) /\ Has({Async}) => p.sync - p.async \in {0, 1}
           /\ ~Has({Sync}) /\ Has({Async}) => p.sync = 0
           /\ ~Has({Async}) => p.async = 0
<1>1. n \div 2 \in Nat /\ (n = 2 * (n \div 2) \/ n = 2 * (n \div 2) + 1)
  OBVIOUS
<1>2. /\ AsyncShare(n) \in Nat
      /\ Has({Sync}) /\ Has({Async}) => AsyncShare(n) = n \div 2
      /\ ~Has({Sync}) /\ Has({Async}) => AsyncShare(n) = n
      /\ ~Has({Async}) => AsyncShare(n) = 0
  BY <1>1 DEF AsyncShare
<1> QED BY <1>1, <1>2 DEF PoolPlan

(* A start that serves a pool has split the workers it was asked for; a    *)
(* server that serves takes no further registration.                       *)
LEMMA PoolStep ==
    ASSUME PlanInv, PoolUsesItsWorkers, [Next]_vars
    PROVE  PoolUsesItsWorkers'
<1>1. CASE UNCHANGED vars
  BY <1>1 DEF vars, PoolUsesItsWorkers, Has
<1>2. CASE \/ \E gil, stream, async \in BOOLEAN : AddRoute(gil, stream, async)
           \/ SetFallback \/ SealRegistrations
  BY <1>2 DEF AddRoute, SetFallback, SealRegistrations, PoolUsesItsWorkers
<1>3. ASSUME NEW runMode \in {"gil", "subinterp"}, NEW runTpc \in BOOLEAN,
             NEW fanout \in BOOLEAN, NEW gc \in {"count", "idle", "off"},
             NEW workers \in Counts \cup {Default}, NEW io \in Counts \cup {Default},
             Start(runMode, runTpc, fanout, gc, workers, io), phase' = "serving"
      PROVE  PoolUsesItsWorkers'
  <2> DEFINE t == TopologyOf(runMode, runTpc, fanout)
             n == Sized(workers, Logical)
             loops == AcceptLoops(Sized(io, Logical))
  <2>1. /\ Positive(workers) /\ Positive(io)
        /\ plan' = PlanFor(t, workers, io)
        /\ wanted' = workers
        /\ UNCHANGED <<macos, table, fallback>>
    BY <1>3 DEF Start
  <2>2. CASE t = "Pool"
    <3>1. plan' = PoolPlan(n, loops)
      BY <2>1, <2>2 DEF PlanFor
    <3>2. n \in Nat /\ n = Sized(wanted', Logical)
      BY <2>1, SizedPositive, PlanAssumption
    <3>3. /\ plan'.sync + plan'.async = n
          /\ Has({Sync}) /\ Has({Async}) => plan'.sync - plan'.async \in {0, 1}
          /\ ~Has({Sync}) /\ Has({Async}) => plan'.sync = 0
          /\ ~Has({Async}) => plan'.async = 0
      BY <3>1, <3>2, SplitExact
    <3>4. Has({Sync})' = Has({Sync}) /\ Has({Async})' = Has({Async})
      BY <2>1 DEF Has
    <3> QED BY <3>2, <3>3, <3>4 DEF PoolUsesItsWorkers
  <2>3. CASE t # "Pool"
    <3>1. macos \in BOOLEAN
      BY DEF PlanInv, TypeOK
    <3>2. plan'.topology = t
      <4> HIDE DEF t
      <4> QED BY <2>1, <3>1, PlanTyped DEF t
    <3> QED BY <2>3, <3>2 DEF PoolUsesItsWorkers
  <2> QED BY <2>2, <2>3
<1>4. CASE phase' # "serving"
  BY <1>4 DEF PoolUsesItsWorkers
<1>5. CASE /\ phase' = "serving"
           /\ \E runMode \in {"gil", "subinterp"}, runTpc, fanout \in BOOLEAN,
                gc \in {"count", "idle", "off"}, workers, io \in Counts \cup {Default} :
                  Start(runMode, runTpc, fanout, gc, workers, io)
  <2>1. PICK runMode \in {"gil", "subinterp"}, runTpc \in BOOLEAN, fanout \in BOOLEAN,
             gc \in {"count", "idle", "off"}, workers \in Counts \cup {Default},
             io \in Counts \cup {Default} : Start(runMode, runTpc, fanout, gc, workers, io)
    BY <1>5
  <2> QED BY <1>3, <1>5, <2>1
<1> QED BY <1>1, <1>2, <1>4, <1>5 DEF Next

(* A pool has exactly the workers run() was asked for, whatever the table, *)
(* the size and the CPUs, split so that neither kind is two ahead of the   *)
(* other, and none of a kind the table lacks beside one it has.            *)
THEOREM PlanCorrect == Spec => []PlanSafe
<1>1. Init => PoolUsesItsWorkers
  BY DEF Init, PoolUsesItsWorkers
<1>2. PlanInv /\ PoolUsesItsWorkers => PlanSafe
  BY DEF PlanInv, PlanSafe
<1> QED BY <1>1, <1>2, PlanInit, PlanStep, PoolStep, PTL DEF Spec

-----------------------------------------------------------------------------
(* Port binding.                                                           *)

(* The multiples of the number of accept loops.                            *)
LEMMA PbTimes ==
    /\ PbCopies \in Nat /\ PbCopies >= 1
    /\ \A a \in Int : a * PbCopies \in Int /\ (a - 1) * PbCopies + PbCopies = a * PbCopies
    /\ \A a, b \in Int : a <= b => a * PbCopies <= b * PbCopies
<1>1. PbCopies \in Nat /\ PbCopies >= 1
  BY PbAssumption
<1>2. \A a \in Int : a * PbCopies \in Int /\ (a - 1) * PbCopies + PbCopies = a * PbCopies
  BY <1>1
<1>3. ASSUME NEW a \in Int, NEW b \in Int, a <= b PROVE a * PbCopies <= b * PbCopies
  <2>1. \A d \in Nat : d * PbCopies >= 0
    BY <1>1
  <2>2. PICK d \in Nat : b = a + d
    <3>1. b - a \in Nat /\ b = a + (b - a)
      BY <1>3
    <3> QED BY <3>1
  <2>3. b * PbCopies = a * PbCopies + d * PbCopies
    BY <1>1, <2>2
  <2>4. a * PbCopies \in Int /\ d * PbCopies \in Int
    BY <1>1
  <2> QED BY <2>1, <2>3, <2>4
<1> QED BY <1>1, <1>2, <1>3

(* Where the sockets of a specification are.                               *)
LEMMA PbWhere ==
    ASSUME NEW step, NEW spec, NEW socks \in Seq(PbSock), NEW asked \in Seq(PbPorts \cup {0}),
           PbPlaced(step, spec, socks, asked), NEW k \in 1 .. spec
    PROVE  \A h \in 1 .. Len(socks) :
              socks[h].spec = k <=> (k - 1) * PbCopies < h /\ h <= k * PbCopies
<1> SUFFICES ASSUME NEW h \in 1 .. Len(socks)
             PROVE  socks[h].spec = k <=> (k - 1) * PbCopies < h /\ h <= k * PbCopies
  OBVIOUS
<1>1. spec \in Int /\ k \in Int /\ Len(socks) \in Nat
  BY DEF PbPlaced
<1> DEFINE a == socks[h].spec
<1>2. a \in 1 .. spec /\ (a - 1) * PbCopies < h /\ h <= a * PbCopies
  BY DEF PbPlaced
<1> HIDE DEF a
<1>3. a \in Int /\ h \in Int /\ (a - 1) \in Int /\ (k - 1) \in Int
  BY <1>1, <1>2
<1>4. ASSUME a < k PROVE ~((k - 1) * PbCopies < h)
  <2>1. a <= k - 1
    BY <1>1, <1>3, <1>4
  <2>2. a * PbCopies <= (k - 1) * PbCopies /\ a * PbCopies \in Int /\ (k - 1) * PbCopies \in Int
    BY <1>3, <2>1, PbTimes
  <2> QED BY <1>2, <1>3, <2>2
<1>5. ASSUME k < a PROVE ~(h <= k * PbCopies)
  <2>1. k <= a - 1
    BY <1>1, <1>3, <1>5
  <2>2. k * PbCopies <= (a - 1) * PbCopies /\ k * PbCopies \in Int /\ (a - 1) * PbCopies \in Int
    BY <1>1, <1>3, <2>1, PbTimes
  <2> QED BY <1>2, <1>3, <2>2
<1>6. a < k \/ k < a \/ a = k
  BY <1>1, <1>3
<1> QED BY <1>2, <1>4, <1>5, <1>6 DEF a

PbOf(socks, k) == {h \in DOMAIN socks : socks[h].spec = k}

(* Those of specification k are complete, or the last.                     *)
PbFilled(socks, k, n) ==
    /\ (k - 1) * PbCopies <= n /\ n <= k * PbCopies /\ n <= Len(socks)
    /\ n = k * PbCopies \/ n = Len(socks)

(* How many there are.                                                     *)
LEMMA PbCounted ==
    ASSUME NEW step, NEW spec, NEW socks \in Seq(PbSock), NEW asked \in Seq(PbPorts \cup {0}),
           PbPlaced(step, spec, socks, asked), NEW k \in 1 .. spec,
           NEW n \in Nat, PbFilled(socks, k, n)
    PROVE  Cardinality(PbOf(socks, k)) = n - (k - 1) * PbCopies
<1> DEFINE m == (k - 1) * PbCopies
           top == k * PbCopies
           cs == PbOf(socks, k)
<1>1. spec \in Int /\ k \in Int /\ k >= 1 /\ Len(socks) \in Nat /\ DOMAIN socks = 1 .. Len(socks)
  BY DEF PbPlaced
<1>2. m \in Int /\ top \in Int
  <2>1. k - 1 \in Int
    BY <1>1
  <2> QED BY <1>1, <2>1, PbTimes
<1>3. m >= 0
  <2>1. 0 * PbCopies = 0 /\ 0 <= k - 1 /\ k - 1 \in Int
    BY <1>1, PbAssumption
  <2>2. 0 * PbCopies <= (k - 1) * PbCopies
    BY <2>1, PbTimes
  <2> QED BY <2>1, <2>2
<1>4. \A h \in 1 .. Len(socks) : socks[h].spec = k <=> m < h /\ h <= top
  BY PbWhere
<1>5. m <= n /\ n <= top /\ (n = top \/ n = Len(socks)) /\ n <= Len(socks)
  BY DEF PbFilled
<1> HIDE DEF m, top
<1>6. cs = (m + 1) .. n
  <2>1. ASSUME NEW h \in cs PROVE h \in (m + 1) .. n
    <3>1. h \in 1 .. Len(socks) /\ m < h /\ h <= top
      BY <1>1, <1>4 DEF PbOf
    <3>2. h \in Int /\ h <= Len(socks)
      BY <1>1, <3>1
    <3>3. h <= n
      BY <1>5, <3>1, <3>2
    <3>4. m + 1 <= h
      BY <1>2, <3>1, <3>2
    <3> QED BY <3>2, <3>3, <3>4, <1>2
  <2>2. ASSUME NEW h \in (m + 1) .. n PROVE h \in cs
    <3>1. h \in 1 .. Len(socks) /\ m < h /\ h <= top
      <4>1. h \in Int /\ m + 1 <= h /\ h <= n
        BY <1>2
      <4>2. m < h /\ 1 <= h
        BY <1>2, <1>3, <4>1
      <4>3. h <= top
        BY <1>2, <1>5, <4>1
      <4>4. h <= Len(socks)
        <5>1. n <= Len(socks) /\ n \in Nat /\ Len(socks) \in Nat /\ h \in Int /\ h <= n
          BY <1>1, <1>5, <4>1
        <5> HIDE DEF cs
        <5> QED BY <5>1
      <4> QED BY <1>1, <4>1, <4>2, <4>3, <4>4
    <3> QED BY <1>1, <1>4, <3>1 DEF PbOf
  <2> QED BY <2>1, <2>2
<1>7. Cardinality((m + 1) .. n) = IF m + 1 > n THEN 0 ELSE n - (m + 1) + 1
  BY <1>2, FS_Interval
<1> HIDE DEF cs
<1>8. Cardinality(cs) = n - m
  BY <1>2, <1>5, <1>6, <1>7
<1> QED BY <1>8 DEF cs, m

(* A server that starts, and one that failed or ended, has no sockets.     *)
LEMMA PbNone ==
    ASSUME NEW step \in {"failed", "over"}, NEW spec \in Nat, NEW found, NEW asked \in Seq(PbPorts \cup {0}),
           spec \in 1 .. Len(asked)
    PROVE  /\ PbPlaced(step, spec, <<>>, asked) /\ PbPorted(step, spec, found, <<>>, asked)
           /\ PbPlaced("probe", 1, <<>>, asked) /\ PbPorted("probe", 1, found, <<>>, asked)
<1>1. Len(<<>>) = 0 /\ 1 .. 0 = {}
  OBVIOUS
<1>2. (1 - 1) * PbCopies = 0
  BY PbTimes
<1> QED BY <1>1, <1>2 DEF PbPlaced, PbPorted

(* The probe found a port none of the server's sockets has.                *)
LEMMA PbProbed ==
    ASSUME NEW spec, NEW found, NEW socks \in Seq(PbSock), NEW asked \in Seq(PbPorts \cup {0}),
           PbPlaced("probe", spec, socks, asked), PbPorted("probe", spec, found, socks, asked),
           NEW p \in PbPorts, asked[spec] \in {0, p}, \A h \in 1 .. Len(socks) : socks[h].port # p
    PROVE  PbPlaced("bind", spec, socks, asked) /\ PbPorted("bind", spec, p, socks, asked)
<1>1. spec \in Int /\ Len(socks) \in Nat
  BY DEF PbPlaced
<1>2. Len(socks) = (spec - 1) * PbCopies /\ (spec - 1) * PbCopies \in Int
      /\ (spec - 1) * PbCopies + PbCopies = spec * PbCopies
  BY <1>1, PbTimes DEF PbPlaced
<1>3. (spec - 1) * PbCopies <= Len(socks) /\ Len(socks) < spec * PbCopies
  <2> DEFINE low == (spec - 1) * PbCopies
             high == spec * PbCopies
  <2>1. low \in Int /\ low + PbCopies = high /\ Len(socks) = low
    BY <1>2
  <2>2. PbCopies \in Nat /\ PbCopies >= 1
    BY PbTimes
  <2> HIDE DEF low, high
  <2>3. low <= Len(socks) /\ Len(socks) < high
    BY <1>1, <2>1, <2>2
  <2> QED BY <2>3 DEF low, high
<1>4. PbPlaced("bind", spec, socks, asked)
  BY <1>3 DEF PbPlaced
<1>5. ASSUME NEW h \in 1 .. Len(socks) PROVE socks[h].spec # spec
  <2>1. spec \in 1 .. spec
    BY <1>1 DEF PbPlaced
  <2>2. socks[h].spec = spec => (spec - 1) * PbCopies < h
    BY <2>1, PbWhere
  <2> QED BY <1>1, <1>2, <2>2
<1> QED BY <1>4, <1>5 DEF PbPorted

(* A copy is bound to the port that was found.                             *)
LEMMA PbBound ==
    ASSUME NEW spec \in Nat, NEW found, NEW socks \in Seq(PbSock), NEW asked \in Seq(PbPorts \cup {0}),
           PbPlaced("bind", spec, socks, asked), PbPorted("bind", spec, found, socks, asked),
           NEW x \in PbSock, x.spec = spec, x.port = found
    PROVE  /\ PbPlaced("listen", spec, Append(socks, x), asked)
           /\ PbPorted("listen", spec, found, Append(socks, x), asked)
<1> DEFINE n == Len(socks)
           after == Append(socks, x)
<1>1. n \in Nat /\ Len(after) = n + 1 /\ after[n + 1] = x /\ \A h \in 1 .. n : after[h] = socks[h]
  OBVIOUS
<1>2. (spec - 1) * PbCopies <= n /\ n < spec * PbCopies /\ spec \in 1 .. Len(asked)
      /\ (spec - 1) * PbCopies \in Int /\ spec * PbCopies \in Int
  BY PbTimes DEF PbPlaced
<1>3. \A h \in 1 .. n + 1 : h \in 1 .. n \/ h = n + 1
  BY <1>1
<1> HIDE DEF n, after
<1>4. PbPlaced("listen", spec, after, asked)
  <2>1. ASSUME NEW h \in 1 .. Len(after)
        PROVE  /\ after[h].spec \in 1 .. spec
               /\ (after[h].spec - 1) * PbCopies < h /\ h <= after[h].spec * PbCopies
    <3>1. CASE h \in 1 .. n
      BY <1>1, <3>1 DEF PbPlaced, n
    <3>2. CASE h = n + 1
      BY <1>1, <1>2, <3>2
    <3> QED BY <1>1, <1>3, <3>1, <3>2
  <2>2. (spec - 1) * PbCopies < Len(after) /\ Len(after) <= spec * PbCopies
    BY <1>1, <1>2
  <2> QED BY <1>2, <2>1, <2>2 DEF PbPlaced
<1>5. PbPorted("listen", spec, found, after, asked)
  <2>1. /\ found \in PbPorts /\ asked[spec] \in {0, found}
        /\ \A h \in 1 .. n : socks[h].spec = spec <=> socks[h].port = found
        /\ \A h \in 1 .. n : asked[socks[h].spec] \in {0, socks[h].port} /\ socks[h].listens
        /\ \A h, j \in 1 .. n : socks[h].spec = socks[j].spec <=> socks[h].port = socks[j].port
    BY DEF PbPorted, n
  <2>2. \A h \in 1 .. Len(after) : h = n + 1 \/ (h \in 1 .. n /\ h < Len(after))
    BY <1>1, <1>3
  <2>3. \A h \in 1 .. Len(after) :
           /\ asked[after[h].spec] \in {0, after[h].port}
           /\ h < Len(after) => after[h].listens
           /\ after[h].spec = spec <=> after[h].port = found
    BY <1>1, <2>1, <2>2
  <2>4. \A h, j \in 1 .. Len(after) : after[h].spec = after[j].spec <=> after[h].port = after[j].port
    BY <1>1, <2>1, <2>2
  <2> QED BY <2>1, <2>3, <2>4 DEF PbPorted
<1> QED BY <1>4, <1>5 DEF after

(* The socket listens: another copy, another specification, or all are up. *)
LEMMA PbListened ==
    ASSUME NEW spec \in Nat, NEW found, NEW socks \in Seq(PbSock), NEW asked \in Seq(PbPorts \cup {0}),
           PbPlaced("listen", spec, socks, asked), PbPorted("listen", spec, found, socks, asked),
           NEW after \in Seq(PbSock), Len(after) = Len(socks),
           \A h \in 1 .. Len(socks) : /\ after[h].spec = socks[h].spec /\ after[h].port = socks[h].port
                                      /\ after[h].listens = IF h = Len(socks) THEN TRUE ELSE socks[h].listens,
           NEW copies, copies = Cardinality(PbOf(socks, spec))
    PROVE  /\ copies \in Nat
           /\ copies < PbCopies =>
                PbPlaced("bind", spec, after, asked) /\ PbPorted("bind", spec, found, after, asked)
           /\ ~(copies < PbCopies) /\ spec < Len(asked) =>
                /\ PbPlaced("probe", spec + 1, after, asked)
                /\ PbPorted("probe", spec + 1, found, after, asked)
           /\ ~(copies < PbCopies) /\ ~(spec < Len(asked)) =>
                PbPlaced("up", spec, after, asked) /\ PbPorted("up", spec, found, after, asked)
<1> DEFINE n == Len(socks)
<1>1. n \in Nat /\ Len(asked) \in Nat /\ spec \in 1 .. Len(asked) /\ spec \in 1 .. spec
  BY DEF PbPlaced
<1>2. /\ (spec - 1) * PbCopies < n /\ n <= spec * PbCopies
      /\ (spec - 1) * PbCopies \in Int /\ spec * PbCopies \in Int
      /\ (spec - 1) * PbCopies + PbCopies = spec * PbCopies
  BY PbTimes DEF PbPlaced
<1>3. copies = n - (spec - 1) * PbCopies
  <2>1. PbFilled(socks, spec, n)
    BY <1>1, <1>2 DEF PbFilled
  <2> QED BY <1>1, <2>1, PbCounted
<1>4. /\ copies \in Nat
      /\ copies < PbCopies => n < spec * PbCopies
      /\ ~(copies < PbCopies) => n = spec * PbCopies
  BY <1>1, <1>2, <1>3, PbTimes
<1>5. (spec + 1) - 1 = spec
  OBVIOUS
<1>a. \A h \in 1 .. n : /\ socks[h].spec \in 1 .. spec
                        /\ (socks[h].spec - 1) * PbCopies < h /\ h <= socks[h].spec * PbCopies
                        /\ asked[socks[h].spec] \in {0, socks[h].port}
                        /\ h = n \/ socks[h].listens
  BY <1>1 DEF PbPlaced, PbPorted
<1>b. \A h \in 1 .. n : /\ after[h].spec = socks[h].spec /\ after[h].port = socks[h].port
                        /\ h = n \/ socks[h].listens => after[h].listens
  OBVIOUS
<1>c. /\ \A h, j \in 1 .. n : socks[h].spec = socks[j].spec <=> socks[h].port = socks[j].port
      /\ found \in PbPorts /\ asked[spec] \in {0, found}
      /\ \A h \in 1 .. n : socks[h].spec = spec <=> socks[h].port = found
  BY DEF PbPorted
<1>d. 1 .. spec \subseteq 1 .. spec + 1
  BY <1>1
<1>6. \A h \in 1 .. n : /\ after[h].spec \in 1 .. spec /\ after[h].spec \in 1 .. spec + 1
                        /\ (after[h].spec - 1) * PbCopies < h /\ h <= after[h].spec * PbCopies
  <2> SUFFICES ASSUME NEW h \in 1 .. n
               PROVE  /\ after[h].spec \in 1 .. spec /\ after[h].spec \in 1 .. spec + 1
                      /\ (after[h].spec - 1) * PbCopies < h /\ h <= after[h].spec * PbCopies
    OBVIOUS
  <2> DEFINE a == socks[h].spec
  <2>1. after[h].spec = a
    BY <1>b
  <2>2. a \in 1 .. spec /\ (a - 1) * PbCopies < h /\ h <= a * PbCopies
    BY <1>a
  <2> HIDE DEF a
  <2>3. a \in 1 .. spec + 1
    BY <1>d, <2>2
  <2> QED BY <2>1, <2>2, <2>3
<1>7. \A h \in 1 .. n : after[h].listens /\ asked[after[h].spec] \in {0, after[h].port}
  <2> SUFFICES ASSUME NEW h \in 1 .. n
               PROVE  after[h].listens /\ asked[after[h].spec] \in {0, after[h].port}
    OBVIOUS
  <2>1. after[h].spec = socks[h].spec /\ after[h].port = socks[h].port
    BY <1>b
  <2>2. asked[socks[h].spec] \in {0, socks[h].port} /\ (h = n \/ socks[h].listens)
    BY <1>a
  <2>3. h = n \/ socks[h].listens => after[h].listens
    BY <1>b
  <2> QED BY <2>1, <2>2, <2>3
<1>8. /\ \A h, j \in 1 .. n : after[h].spec = after[j].spec <=> after[h].port = after[j].port
      /\ found \in PbPorts /\ asked[spec] \in {0, found}
      /\ \A h \in 1 .. n : after[h].spec = spec <=> after[h].port = found
  <2>1. \A h \in 1 .. n : after[h].spec = socks[h].spec /\ after[h].port = socks[h].port
    BY <1>b
  <2> QED BY <2>1, <1>c
<1> HIDE DEF n
<1>9. Len(after) = n
  BY DEF n
<1>10. PbPorted("bind", spec, found, after, asked) /\ PbPorted("up", spec, found, after, asked)
       /\ PbPorted("probe", spec + 1, found, after, asked)
  BY <1>7, <1>8, <1>9 DEF PbPorted
<1>11. copies < PbCopies => PbPlaced("bind", spec, after, asked)
  BY <1>1, <1>2, <1>4, <1>6, <1>9 DEF PbPlaced
<1>12. ~(copies < PbCopies) /\ spec < Len(asked) => PbPlaced("probe", spec + 1, after, asked)
  BY <1>1, <1>4, <1>5, <1>6, <1>9 DEF PbPlaced
<1>13. ~(copies < PbCopies) /\ ~(spec < Len(asked)) => PbPlaced("up", spec, after, asked)
  BY <1>1, <1>4, <1>6, <1>9 DEF PbPlaced
<1> QED BY <1>4, <1>10, <1>11, <1>12, <1>13

(* No server has probed yet.                                               *)
LEMMA PbStart == PbInit => PbIInv
<1> SUFFICES ASSUME PbInit PROVE PbIInv
  OBVIOUS
<1>1. PbTypes
  BY DEF PbInit, PbTypes, PbSteps
<1>2. ASSUME NEW s \in PbServers
      PROVE  /\ PbPlaced(pbAt[s].step, pbAt[s].spec, pbSocks[s], PbAsked[s])
             /\ PbPorted(pbAt[s].step, pbAt[s].spec, pbFound[s], pbSocks[s], PbAsked[s])
  <2>1. pbAt[s].step = "probe" /\ pbAt[s].spec = 1 /\ pbSocks[s] = <<>>
    BY DEF PbInit
  <2>2. PbAsked[s] \in Seq(PbPorts \cup {0}) /\ PbAsked[s] # <<>>
    BY PbAssumption
  <2>3. 1 \in 1 .. Len(PbAsked[s])
    BY <2>2
  <2> QED BY <2>1, <2>2, <2>3, PbNone
<1> QED BY <1>1, <1>2 DEF PbIInv

(* The invariant of every server but s is kept when s alone changes.       *)
LEMMA PbOthers ==
    ASSUME PbIInv, NEW s \in PbServers, NEW at \in [step : PbSteps, spec : Nat],
           NEW found \in PbPorts \cup {0}, NEW socks \in Seq(PbSock),
           pbAt' = [pbAt EXCEPT ![s] = at], pbFound' = [pbFound EXCEPT ![s] = found],
           pbSocks' = [pbSocks EXCEPT ![s] = socks],
           PbPlaced(at.step, at.spec, socks, PbAsked[s]), PbPorted(at.step, at.spec, found, socks, PbAsked[s])
    PROVE  PbIInv'
<1>1. PbTypes'
  BY DEF PbIInv, PbTypes
<1>2. ASSUME NEW r \in PbServers
      PROVE  /\ PbPlaced(pbAt'[r].step, pbAt'[r].spec, pbSocks'[r], PbAsked[r])
             /\ PbPorted(pbAt'[r].step, pbAt'[r].spec, pbFound'[r], pbSocks'[r], PbAsked[r])
  <2>1. CASE r = s
    <3>1. pbAt'[r] = at /\ pbFound'[r] = found /\ pbSocks'[r] = socks
      BY <2>1 DEF PbIInv, PbTypes
    <3> QED BY <2>1, <3>1
  <2>2. CASE r # s
    <3>1. pbAt'[r] = pbAt[r] /\ pbFound'[r] = pbFound[r] /\ pbSocks'[r] = pbSocks[r]
      BY <2>2 DEF PbIInv, PbTypes
    <3> QED BY <3>1 DEF PbIInv
  <2> QED BY <2>1, <2>2
<1>3. ASSUME NEW r \in PbServers
      PROVE  /\ PbPlaced(pbAt[r].step, pbAt[r].spec, pbSocks[r], PbAsked[r])'
             /\ PbPorted(pbAt[r].step, pbAt[r].spec, pbFound[r], pbSocks[r], PbAsked[r])'
  BY <1>2 DEF PbPlaced, PbPorted
<1> QED BY <1>1, <1>3 DEF PbIInv

(* Every step of every server keeps the invariant.                         *)
LEMMA PbStep == PbIInv /\ [PbNext]_pbVars => PbIInv'
<1> SUFFICES ASSUME PbIInv, [PbNext]_pbVars PROVE PbIInv'
  OBVIOUS
<1>1. CASE UNCHANGED pbVars
  BY <1>1 DEF PbIInv, PbTypes, pbVars
<1>2. ASSUME NEW s \in PbServers, PbProbe(s) \/ PbBind(s) \/ PbListen(s) \/ PbError(s) \/ PbReleased(s)
      PROVE  PbIInv'
  <2> DEFINE step == pbAt[s].step
             spec == pbAt[s].spec
             found == pbFound[s]
             socks == pbSocks[s]
             asked == PbAsked[s]
  <2>1. /\ pbAt \in [PbServers -> [step : PbSteps, spec : Nat]]
        /\ pbFound \in [PbServers -> PbPorts \cup {0}]
        /\ pbSocks \in [PbServers -> Seq(PbSock)]
    BY DEF PbIInv, PbTypes
  <2>2. /\ step \in PbSteps /\ spec \in Nat /\ pbAt[s] = [step |-> step, spec |-> spec]
        /\ found \in PbPorts \cup {0} /\ socks \in Seq(PbSock) /\ Len(socks) \in Nat
    BY <2>1
  <2>3. asked \in Seq(PbPorts \cup {0})
    BY PbAssumption
  <2>4. PbPlaced(step, spec, socks, asked) /\ PbPorted(step, spec, found, socks, asked)
    BY DEF PbIInv
  <2>5. spec \in 1 .. Len(asked)
    BY <2>4 DEF PbPlaced
  <2>6. \A x \in PbSteps : \A k \in Nat : /\ [step |-> x, spec |-> k] \in [step : PbSteps, spec : Nat]
                                          /\ [step |-> x, spec |-> k].step = x
                                          /\ [step |-> x, spec |-> k].spec = k
    OBVIOUS
  <2>7. \A x : [pbAt EXCEPT ![s].step = x] = [pbAt EXCEPT ![s] = [step |-> x, spec |-> spec]]
    <3> SUFFICES ASSUME NEW x
                 PROVE  [pbAt EXCEPT ![s].step = x] = [pbAt EXCEPT ![s] = [step |-> x, spec |-> spec]]
      OBVIOUS
    <3>1. [pbAt[s] EXCEPT !.step = x] = [step |-> x, spec |-> spec]
      BY <2>1
    <3> QED BY <3>1
  <2>8. pbFound = [pbFound EXCEPT ![s] = found] /\ pbSocks = [pbSocks EXCEPT ![s] = socks]
    BY <2>1
  <2>9. <<>> \in Seq(PbSock)
    OBVIOUS
  <2>10. ASSUME NEW x \in {"failed", "over"}, pbAt' = [pbAt EXCEPT ![s].step = x],
                pbSocks' = [pbSocks EXCEPT ![s] = <<>>], UNCHANGED pbFound
         PROVE  PbIInv'
    <3> DEFINE at == [step |-> x, spec |-> spec]
    <3>1. /\ at \in [step : PbSteps, spec : Nat] /\ at.step = x /\ at.spec = spec
          /\ pbAt' = [pbAt EXCEPT ![s] = at] /\ pbFound' = [pbFound EXCEPT ![s] = found]
      <4>1. x \in PbSteps
        BY <2>10 DEF PbSteps
      <4>2. at \in [step : PbSteps, spec : Nat] /\ at.step = x /\ at.spec = spec
        BY <2>2, <2>6, <4>1
      <4> QED BY <2>7, <2>8, <2>10, <4>2
    <3>2. PbPlaced(x, spec, <<>>, asked) /\ PbPorted(x, spec, found, <<>>, asked)
      BY <2>2, <2>3, <2>5, PbNone
    <3> HIDE DEF at, found, spec, asked
    <3> QED BY <2>2, <2>9, <2>10, <3>1, <3>2, PbOthers DEF asked
  <2>11. CASE PbError(s)
    BY <2>10, <2>11 DEF PbError, PbFails
  <2>12. CASE PbReleased(s)
    BY <2>10, <2>12 DEF PbReleased
  <2>13. CASE PbProbe(s)
    <3>1. CASE PbFails(s)
      BY <2>10, <3>1 DEF PbFails
    <3>2. CASE \E p \in PbPorts :
                 /\ asked[spec] \in {0, p} /\ ~Listening(p)
                 /\ pbFound' = [pbFound EXCEPT ![s] = p]
                 /\ pbAt' = [pbAt EXCEPT ![s].step = "bind"]
                 /\ UNCHANGED pbSocks
      <4>1. PICK p \in PbPorts :
                 /\ asked[spec] \in {0, p} /\ ~Listening(p)
                 /\ pbFound' = [pbFound EXCEPT ![s] = p]
                 /\ pbAt' = [pbAt EXCEPT ![s].step = "bind"]
                 /\ UNCHANGED pbSocks
        BY <3>2
      <4> DEFINE at == [step |-> "bind", spec |-> spec]
      <4>2. /\ at \in [step : PbSteps, spec : Nat] /\ at.step = "bind" /\ at.spec = spec
            /\ pbAt' = [pbAt EXCEPT ![s] = at] /\ pbSocks' = [pbSocks EXCEPT ![s] = socks]
        <5>1. "bind" \in PbSteps
          BY DEF PbSteps
        <5>2. at \in [step : PbSteps, spec : Nat] /\ at.step = "bind" /\ at.spec = spec
          BY <2>2, <2>6, <5>1
        <5> QED BY <2>7, <2>8, <4>1, <5>2
      <4>3. step = "probe"
        BY <2>13 DEF PbProbe
      <4>4. \A h \in 1 .. Len(socks) : socks[h].port # p
        <5>1. \A h \in 1 .. Len(socks) : socks[h].listens /\ h \in DOMAIN socks
          BY <2>2, <2>4, <4>3 DEF PbPorted
        <5> QED BY <4>1, <5>1 DEF Listening
      <4>5. PbPlaced("bind", spec, socks, asked) /\ PbPorted("bind", spec, p, socks, asked)
        BY <2>2, <2>3, <2>4, <4>1, <4>3, <4>4, PbProbed
      <4> HIDE DEF at, spec, socks, asked
      <4>6. PbPlaced(at.step, at.spec, socks, PbAsked[s]) /\ PbPorted(at.step, at.spec, p, socks, PbAsked[s])
        BY <4>2, <4>5 DEF asked
      <4>7. p \in PbPorts \cup {0} /\ socks \in Seq(PbSock)
        BY <2>2
      <4> QED BY <4>1, <4>2, <4>6, <4>7, PbOthers
    <3> QED BY <2>13, <3>1, <3>2 DEF PbProbe, InUse
  <2>14. CASE PbBind(s)
    <3> DEFINE x == [spec |-> spec, port |-> found, listens |-> FALSE]
               at == [step |-> "listen", spec |-> spec]
    <3>1. /\ step = "bind" /\ pbAt' = [pbAt EXCEPT ![s].step = "listen"] /\ UNCHANGED pbFound
          /\ pbSocks' = [pbSocks EXCEPT ![s] = Append(socks, x)]
      BY <2>14 DEF PbBind, Joined
    <3>2. found \in PbPorts
      BY <2>4, <3>1 DEF PbPorted
    <3>3. x \in PbSock /\ x.spec = spec /\ x.port = found
      BY <2>2, <3>2 DEF PbSock
    <3>4. /\ at \in [step : PbSteps, spec : Nat] /\ at.step = "listen" /\ at.spec = spec
          /\ pbAt' = [pbAt EXCEPT ![s] = at] /\ pbFound' = [pbFound EXCEPT ![s] = found]
      <4>1. "listen" \in PbSteps
        BY DEF PbSteps
      <4>2. at \in [step : PbSteps, spec : Nat] /\ at.step = "listen" /\ at.spec = spec
        BY <2>2, <2>6, <4>1
      <4> QED BY <2>7, <2>8, <3>1, <4>2
    <3> HIDE DEF x, at, spec, socks, asked, found, step
    <3>5. /\ PbPlaced("listen", spec, Append(socks, x), asked)
          /\ PbPorted("listen", spec, found, Append(socks, x), asked)
      BY <2>2, <2>3, <2>4, <3>1, <3>3, PbBound
    <3>6. Append(socks, x) \in Seq(PbSock)
      BY <2>2, <3>3
    <3>7. /\ PbPlaced(at.step, at.spec, Append(socks, x), PbAsked[s])
          /\ PbPorted(at.step, at.spec, found, Append(socks, x), PbAsked[s])
      BY <3>4, <3>5 DEF asked
    <3> QED BY <2>2, <3>1, <3>4, <3>6, <3>7, PbOthers
  <2>15. CASE PbListen(s)
    <3> DEFINE n == Len(socks)
               after == [socks EXCEPT ![n].listens = TRUE]
               copies == Cardinality(PbOf(socks, spec))
    <3>1. /\ step = "listen" /\ UNCHANGED pbFound
          /\ pbSocks' = [pbSocks EXCEPT ![s] = after]
          /\ pbAt' = [pbAt EXCEPT ![s] =
                        IF copies < PbCopies THEN [pbAt[s] EXCEPT !.step = "bind"]
                        ELSE IF spec < Len(asked) THEN [step |-> "probe", spec |-> spec + 1]
                        ELSE [pbAt[s] EXCEPT !.step = "up"]]
      BY <2>15 DEF PbListen, MoreCopies, Copies, PbOf
    <3>2. n \in 1 .. Len(socks) /\ n \in Nat
      <4>1. (spec - 1) * PbCopies < n
        BY <2>4, <3>1 DEF PbPlaced
      <4>2. spec - 1 \in Int /\ 0 <= spec - 1 /\ 0 * PbCopies = 0
        BY <2>2, <2>5, PbAssumption
      <4>3. 0 * PbCopies <= (spec - 1) * PbCopies /\ (spec - 1) * PbCopies \in Int
        <5> DEFINE z == spec - 1
        <5>1. z \in Int /\ 0 <= z /\ 0 \in Int
          BY <4>2
        <5> HIDE DEF z
        <5>2. 0 * PbCopies <= z * PbCopies /\ z * PbCopies \in Int
          BY <5>1, PbTimes
        <5> QED BY <5>2 DEF z
      <4>4. n > 0
        BY <2>2, <4>1, <4>2, <4>3
      <4> QED BY <2>2, <4>4
    <3>3. /\ after \in Seq(PbSock) /\ Len(after) = n
          /\ \A h \in 1 .. n : /\ after[h].spec = socks[h].spec /\ after[h].port = socks[h].port
                               /\ after[h].listens = IF h = n THEN TRUE ELSE socks[h].listens
      <4> DEFINE y == [socks[n] EXCEPT !.listens = TRUE]
      <4>1. socks[n] \in PbSock /\ DOMAIN socks = 1 .. n
        BY <2>2, <3>2
      <4>2. y \in PbSock /\ y.spec = socks[n].spec /\ y.port = socks[n].port /\ y.listens = TRUE
        BY <4>1 DEF PbSock
      <4>3. after = [socks EXCEPT ![n] = y]
        OBVIOUS
      <4> HIDE DEF y, after
      <4>4. after \in Seq(PbSock) /\ Len(after) = n
        BY <2>2, <3>2, <4>2, <4>3
      <4>5. after[n] = y /\ \A h \in 1 .. n : h # n => after[h] = socks[h]
        BY <2>2, <3>2, <4>1, <4>3
      <4> QED BY <4>2, <4>4, <4>5
    <3> HIDE DEF after, copies, n, spec, socks, asked, found, step
    <3>4. /\ copies < PbCopies =>
                PbPlaced("bind", spec, after, asked) /\ PbPorted("bind", spec, found, after, asked)
          /\ ~(copies < PbCopies) /\ spec < Len(asked) =>
                /\ PbPlaced("probe", spec + 1, after, asked)
                /\ PbPorted("probe", spec + 1, found, after, asked)
          /\ ~(copies < PbCopies) /\ ~(spec < Len(asked)) =>
                PbPlaced("up", spec, after, asked) /\ PbPorted("up", spec, found, after, asked)
      BY <2>2, <2>3, <2>4, <3>1, <3>3, PbListened DEF copies, n
    <3>5. pbFound' = [pbFound EXCEPT ![s] = found]
      BY <2>8, <3>1
    <3>6. ASSUME NEW x \in PbSteps, NEW k \in Nat, pbAt' = [pbAt EXCEPT ![s] = [step |-> x, spec |-> k]],
                 PbPlaced(x, k, after, asked), PbPorted(x, k, found, after, asked)
          PROVE  PbIInv'
      <4> DEFINE at == [step |-> x, spec |-> k]
      <4>1. at \in [step : PbSteps, spec : Nat] /\ at.step = x /\ at.spec = k
        BY <2>6
      <4>2. pbAt' = [pbAt EXCEPT ![s] = at]
        BY <3>6
      <4> HIDE DEF at
      <4> QED BY <2>2, <3>1, <3>3, <3>5, <3>6, <4>1, <4>2, PbOthers DEF asked
    <3>7. /\ [pbAt[s] EXCEPT !.step = "bind"] = [step |-> "bind", spec |-> spec]
          /\ [pbAt[s] EXCEPT !.step = "up"] = [step |-> "up", spec |-> spec]
      BY <2>1 DEF spec
    <3>8. spec \in Nat /\ spec + 1 \in Nat /\ {"bind", "probe", "up"} \subseteq PbSteps
      BY <2>2 DEF PbSteps
    <3>9. CASE copies < PbCopies
      BY <3>1, <3>4, <3>6, <3>7, <3>8, <3>9
    <3>10. CASE ~(copies < PbCopies) /\ spec < Len(asked)
      BY <3>1, <3>4, <3>6, <3>8, <3>10
    <3>11. CASE ~(copies < PbCopies) /\ ~(spec < Len(asked))
      BY <3>1, <3>4, <3>6, <3>7, <3>8, <3>11
    <3> QED BY <3>9, <3>10, <3>11
  <2> QED BY <1>2, <2>11, <2>12, <2>13, <2>14, <2>15
<1> QED BY <1>1, <1>2 DEF PbNext

(* What the invariant gives.                                               *)
LEMMA PbGives == PbIInv => PbSafe
<1> SUFFICES ASSUME PbIInv, NEW s \in PbServers
             PROVE  /\ pbAt[s].step \in PbSteps /\ pbAt[s].spec \in DOMAIN PbAsked[s]
                    /\ pbFound[s] \in PbPorts \cup {0} /\ Len(pbSocks[s]) <= PbCopies * Len(PbAsked[s])
                    /\ pbAt[s].step = "up" =>
                         \A k \in DOMAIN PbAsked[s] :
                            \E p \in PbPorts :
                               /\ PbAsked[s][k] \in {0, p}
                               /\ Cardinality(Copies(s, k)) = PbCopies
                               /\ \A h \in DOMAIN pbSocks[s] : h \in Copies(s, k) <=> pbSocks[s][h].port = p
                    /\ pbAt[s].step \in {"failed", "over"} => pbSocks[s] = <<>>
  BY DEF PbSafe, PbTypeOK, PbWhole, PbSteps
<1> DEFINE step == pbAt[s].step
           spec == pbAt[s].spec
           found == pbFound[s]
           socks == pbSocks[s]
           asked == PbAsked[s]
<1>1. /\ step \in PbSteps /\ spec \in Nat /\ found \in PbPorts \cup {0}
      /\ socks \in Seq(PbSock) /\ Len(socks) \in Nat /\ DOMAIN socks = 1 .. Len(socks)
  BY DEF PbIInv, PbTypes
<1>2. asked \in Seq(PbPorts \cup {0}) /\ Len(asked) \in Nat /\ DOMAIN asked = 1 .. Len(asked)
  BY PbAssumption
<1>3. PbPlaced(step, spec, socks, asked) /\ PbPorted(step, spec, found, socks, asked)
  BY DEF PbIInv
<1>4. \A k : Copies(s, k) = PbOf(socks, k)
  BY DEF Copies, PbOf
<1> HIDE DEF step, spec, found, socks, asked
<1>5. spec \in 1 .. Len(asked)
  BY <1>3 DEF PbPlaced
<1>6. Len(socks) <= PbCopies * Len(asked)
  <2>1. Len(socks) <= spec * PbCopies
    <3>1. CASE step = "probe"
      <4>1. (spec - 1) * PbCopies <= spec * PbCopies
        BY <1>1, PbTimes
      <4> QED BY <1>3, <3>1, <4>1 DEF PbPlaced
    <3>2. CASE step \in {"failed", "over"}
      <4>1. 0 * PbCopies <= spec * PbCopies /\ 0 * PbCopies = 0
        BY <1>1, PbTimes
      <4> QED BY <1>3, <3>2, <4>1 DEF PbPlaced
    <3>3. CASE step \in {"bind", "listen", "up"}
      <4>1. spec * PbCopies \in Int
        BY <1>1, PbTimes
      <4> QED BY <1>1, <1>3, <3>3, <4>1 DEF PbPlaced
    <3> QED BY <1>1, <3>1, <3>2, <3>3 DEF PbSteps
  <2>2. spec * PbCopies <= Len(asked) * PbCopies /\ spec * PbCopies \in Int /\ Len(asked) * PbCopies \in Int
    BY <1>1, <1>2, <1>5, PbTimes
  <2>3. PbCopies * Len(asked) = Len(asked) * PbCopies
    BY <1>2, PbTimes
  <2> QED BY <1>1, <2>1, <2>2, <2>3
<1>7. ASSUME step = "up", NEW k \in DOMAIN asked
      PROVE  \E p \in PbPorts :
                /\ asked[k] \in {0, p}
                /\ Cardinality(PbOf(socks, k)) = PbCopies
                /\ \A h \in DOMAIN socks : h \in PbOf(socks, k) <=> socks[h].port = p
  <2>1. spec = Len(asked) /\ Len(socks) = spec * PbCopies
    BY <1>3, <1>7 DEF PbPlaced
  <2>2. k \in 1 .. spec /\ k \in Int /\ k >= 1 /\ k - 1 \in Int /\ spec \in Int
    BY <1>2, <1>7, <2>1
  <2> DEFINE n == k * PbCopies
  <2>3. n \in Int /\ (k - 1) * PbCopies \in Int /\ (k - 1) * PbCopies + PbCopies = n /\ n <= spec * PbCopies
    BY <2>2, PbTimes
  <2>4. 0 * PbCopies <= (k - 1) * PbCopies /\ 0 * PbCopies = 0
    BY <2>2, PbTimes
  <2>5. n \in Nat /\ n >= 1 /\ (k - 1) * PbCopies <= n /\ n <= Len(socks) /\ (k - 1) * PbCopies < n
    BY <2>1, <2>3, <2>4, PbTimes
  <2>6. PbFilled(socks, k, n)
    BY <2>3, <2>5 DEF PbFilled
  <2>7. Cardinality(PbOf(socks, k)) = n - (k - 1) * PbCopies
    BY <1>1, <1>2, <1>3, <2>2, <2>5, <2>6, PbCounted
  <2>8. Cardinality(PbOf(socks, k)) = PbCopies
    BY <2>3, <2>7, PbTimes
  <2>9. n \in 1 .. Len(socks) /\ socks[n].spec = k
    <3>1. n \in 1 .. Len(socks)
      BY <1>1, <2>5
    <3>2. socks[n].spec = k <=> (k - 1) * PbCopies < n /\ n <= k * PbCopies
      BY <1>1, <1>2, <1>3, <2>2, <3>1, PbWhere
    <3> QED BY <2>3, <2>5, <3>1, <3>2
  <2> HIDE DEF n
  <2>10. socks[n].port \in PbPorts
    <3>1. socks[n] \in PbSock
      BY <1>1, <2>9
    <3> QED BY <3>1 DEF PbSock
  <2>11. asked[k] \in {0, socks[n].port}
    BY <1>3, <2>9 DEF PbPorted
  <2>12. \A h \in DOMAIN socks : h \in PbOf(socks, k) <=> socks[h].port = socks[n].port
    BY <1>1, <1>3, <2>9 DEF PbPorted, PbOf
  <2> QED BY <2>8, <2>10, <2>11, <2>12
<1>8. step \in {"failed", "over"} => socks = <<>>
  BY <1>1, <1>3 DEF PbPlaced
<1> QED BY <1>1, <1>2, <1>4, <1>5, <1>6, <1>7, <1>8 DEF step, spec, found, socks, asked

(* For every set of servers, of ports and of specifications, and any       *)
(* number of accept loops, with every other server starting and ending     *)
(* meanwhile: listener.rs's bind ends with all of a server's sockets, on   *)
(* one port per specification, or with none.  That no other server has the *)
(* port is not claimed: two that probe before either listens share it.     *)
THEOREM BindCorrect == PbSpec => []PbSafe
<1>1. PbInit => PbIInv
  BY PbStart
<1>2. PbIInv /\ [PbNext]_pbVars => PbIInv'
  BY PbStep
<1>3. PbIInv => PbSafe
  BY PbGives
<1> QED BY <1>1, <1>2, <1>3, PTL DEF PbSpec

-----------------------------------------------------------------------------
(* The RSS sampler.                                                        *)

(* The servers that sample, counted by Sampler::users.                     *)
RmOn == {s \in RmServers : rmServer[s] = "on"}

LEMMA RmCounted ==
    ASSUME RmTypeOK
    PROVE  /\ IsFiniteSet(RmOn) /\ rmUsers = Cardinality(RmOn) /\ rmUsers \in Nat
           /\ rmUsers = 0 <=> RmOn = {}
<1>1. IsFiniteSet(RmOn)
  BY RmAssumption, FS_Subset DEF RmOn
<1>2. rmUsers = Cardinality(RmOn)
  BY DEF RmTypeOK, RmOn
<1> QED BY <1>1, <1>2, FS_CardinalityType, FS_EmptySet

(* One server more or less that samples.                                   *)
LEMMA RmMore ==
    ASSUME RmTypeOK, NEW s \in RmServers, rmServer[s] # "on",
           rmServer' = [rmServer EXCEPT ![s] = "on"]
    PROVE  rmUsers + 1 = Cardinality(RmOn') /\ rmUsers + 1 # 0
<1>1. RmOn' = RmOn \cup {s} /\ s \notin RmOn
  BY DEF RmOn, RmTypeOK
<1>2. IsFiniteSet(RmOn) /\ rmUsers = Cardinality(RmOn) /\ rmUsers \in Nat
  BY RmCounted
<1> QED BY <1>1, <1>2, FS_AddElement

LEMMA RmFewer ==
    ASSUME RmTypeOK, NEW s \in RmServers, rmServer[s] = "on", NEW v, v # "on",
           rmServer' = [rmServer EXCEPT ![s] = v]
    PROVE  rmUsers - 1 = Cardinality(RmOn') /\ rmUsers \in Nat \ {0}
<1>1. RmOn' = RmOn \ {s} /\ s \in RmOn
  BY DEF RmOn, RmTypeOK
<1>2. IsFiniteSet(RmOn) /\ rmUsers = Cardinality(RmOn) /\ rmUsers \in Nat /\ rmUsers # 0
  BY <1>1, RmCounted
<1>3. Cardinality(RmOn \ {s}) = Cardinality(RmOn) - 1
  BY <1>1, <1>2, FS_RemoveElement
<1> QED BY <1>1, <1>2, <1>3

LEMMA RmSame ==
    ASSUME RmTypeOK, \A s \in RmServers : rmServer'[s] = "on" <=> rmServer[s] = "on"
    PROVE  rmUsers = Cardinality(RmOn')
<1>1. RmOn' = RmOn
  BY DEF RmOn
<1> QED BY <1>1, RmCounted

LEMMA RmStartOK ==
    ASSUME RmIInv, NEW s \in RmServers, RmStart(s)
    PROVE  RmIInv'
<1>1. /\ rmServer[s] = "off" /\ ~rmLock /\ rmServer' = [rmServer EXCEPT ![s] = "on"]
      /\ rmUsers' = rmUsers + 1 /\ rmLock' = rmLock /\ rmRss' = rmRss /\ RmTypeOK
  BY DEF RmStart, RmIInv
<1>2. rmUsers' = Cardinality(RmOn') /\ rmUsers' # 0
  BY <1>1, RmMore
<1>3. \A t \in RmServers : rmServer'[t] = IF t = s THEN "on" ELSE rmServer[t]
  BY <1>1 DEF RmTypeOK
<1>4. rmServer' \in [RmServers -> {"off", "on", "joining"}]
  BY <1>1 DEF RmTypeOK
<1>5. \A t \in RmServers : rmServer'[t] # "joining"
  BY <1>1, <1>3 DEF RmIInv
<1>6. CASE /\ rmUsers = 0
           /\ \E g \in RmUnborn : /\ rmThread' = [rmThread EXCEPT ![g] = "sampling"]
                                  /\ rmHandle' = g
  <2>1. PICK g \in RmIds : rmThread' = [rmThread EXCEPT ![g] = "sampling"] /\ rmHandle' = g
    BY <1>6 DEF RmUnborn
  <2>2. RmLive = {}
    BY <1>1, <1>6 DEF RmIInv
  <2>3. RmLive' = {g}
    BY <1>1, <2>1, <2>2 DEF RmLive, RmTypeOK
  <2>4. RmTypeOK'
    BY <1>1, <1>2, <1>4, <2>1 DEF RmTypeOK, RmOn
  <2> QED BY <1>1, <1>2, <1>5, <2>1, <2>3, <2>4 DEF RmIInv
<1>7. CASE rmThread' = rmThread /\ rmHandle' = rmHandle
  <2>1. RmLive' = RmLive
    BY <1>7 DEF RmLive
  <2>2. RmTypeOK'
    BY <1>1, <1>2, <1>4, <1>7 DEF RmTypeOK, RmOn
  <2>3. \A g \in RmLive : g = rmHandle
    BY <1>1 DEF RmIInv
  <2> QED BY <1>1, <1>2, <1>5, <1>7, <2>1, <2>2, <2>3 DEF RmIInv
<1> QED BY <1>6, <1>7 DEF RmStart

LEMMA RmDropOK ==
    ASSUME RmIInv, NEW s \in RmServers, RmDrop(s)
    PROVE  RmIInv'
<1>1. /\ rmServer[s] = "on" /\ ~rmLock /\ rmUsers' = rmUsers - 1
      /\ rmThread' = rmThread /\ rmRss' = rmRss /\ RmTypeOK
  BY DEF RmDrop, RmIInv
<1>2. RmLive' = RmLive
  BY <1>1 DEF RmLive
<1>3. CASE rmUsers > 1
  <2>1. rmServer' = [rmServer EXCEPT ![s] = "off"] /\ rmHandle' = rmHandle /\ rmLock' = rmLock
    BY <1>3 DEF RmDrop
  <2>2. rmUsers' = Cardinality(RmOn') /\ rmUsers \in Nat /\ rmUsers' # 0
    <3>1. rmUsers - 1 = Cardinality(RmOn') /\ rmUsers \in Nat \ {0}
      BY <1>1, <2>1, RmFewer, Zenon
    <3> QED BY <1>1, <1>3, <3>1
  <2>3. RmTypeOK'
    BY <1>1, <2>1, <2>2 DEF RmTypeOK, RmOn
  <2>4. \A t \in RmServers : rmServer'[t] # "joining"
    BY <1>1, <2>1 DEF RmIInv, RmTypeOK
  <2> QED BY <1>1, <1>2, <1>3, <2>1, <2>2, <2>3, <2>4 DEF RmIInv
<1>4. CASE ~(rmUsers > 1)
  <2>1. rmServer' = [rmServer EXCEPT ![s] = "joining"] /\ rmHandle' = 0 /\ rmLock' = TRUE
    BY <1>4 DEF RmDrop
  <2>2. rmUsers' = Cardinality(RmOn') /\ rmUsers' = 0
    <3>1. rmUsers - 1 = Cardinality(RmOn') /\ rmUsers \in Nat \ {0}
      BY <1>1, <2>1, RmFewer, Zenon
    <3> QED BY <1>1, <1>4, <3>1
  <2>3. RmTypeOK'
    BY <1>1, <2>1, <2>2 DEF RmTypeOK, RmOn
  <2>4. \A t \in RmServers : rmServer'[t] = "joining" <=> t = s
    BY <1>1, <2>1 DEF RmIInv, RmTypeOK
  <2> QED BY <1>1, <1>2, <2>1, <2>2, <2>3, <2>4 DEF RmIInv
<1> QED BY <1>3, <1>4

LEMMA RmJoinedOK ==
    ASSUME RmIInv, NEW s \in RmServers, RmJoined(s)
    PROVE  RmIInv'
<1>1. /\ rmServer[s] = "joining" /\ rmServer' = [rmServer EXCEPT ![s] = "off"]
      /\ rmLock' = FALSE /\ rmRss' = FALSE /\ rmUsers' = rmUsers /\ rmHandle' = rmHandle
      /\ rmThread' = rmThread /\ RmTypeOK
      /\ \A g \in RmIds : g # rmHandle => rmThread[g] \in {"unborn", "ended"}
  BY DEF RmJoined, RmIInv
<1>2. rmLock /\ rmUsers = 0 /\ rmHandle = 0
  BY <1>1 DEF RmIInv
<1>3. RmLive' = {}
  BY <1>1, <1>2, RmAssumption DEF RmLive, RmIds
<1>4. \A t \in RmServers : rmServer'[t] # "joining" /\ (rmServer'[t] = "on" <=> rmServer[t] = "on")
  BY <1>1 DEF RmIInv, RmTypeOK
<1>5. rmUsers' = Cardinality(RmOn')
  BY <1>1, <1>4, RmSame
<1>6. RmTypeOK'
  BY <1>1, <1>5 DEF RmTypeOK, RmOn
<1> QED BY <1>1, <1>2, <1>3, <1>4, <1>6 DEF RmIInv

LEMMA RmThreadOK ==
    ASSUME RmIInv, NEW g \in RmIds, RmSample(g) \/ RmWakes(g)
    PROVE  RmIInv'
<1>1. /\ rmServer' = rmServer /\ rmUsers' = rmUsers /\ rmHandle' = rmHandle /\ rmLock' = rmLock
      /\ rmRss' \in BOOLEAN /\ RmTypeOK /\ g \in RmLive
      /\ \E v \in {"sampling", "waiting", "ended"} : rmThread' = [rmThread EXCEPT ![g] = v]
  BY DEF RmSample, RmWakes, RmIInv, RmLive, RmTypeOK
<1>2. RmLive' \subseteq RmLive
  BY <1>1 DEF RmLive, RmTypeOK
<1>3. ~(rmUsers = 0 /\ ~rmLock)
  BY <1>1 DEF RmIInv
<1>4. rmUsers' = Cardinality(RmOn')
  BY <1>1, RmSame
<1>5. RmTypeOK'
  BY <1>1, <1>4 DEF RmTypeOK, RmOn
<1> QED BY <1>1, <1>2, <1>3, <1>5 DEF RmIInv

LEMMA RmInitOK == RmInit => RmIInv
<1> SUFFICES ASSUME RmInit PROVE RmIInv
  OBVIOUS
<1>1. RmOn = {} /\ RmLive = {}
  BY DEF RmInit, RmOn, RmLive
<1>2. RmTypeOK
  BY <1>1, FS_EmptySet DEF RmInit, RmTypeOK, RmOn
<1> QED BY <1>1, <1>2 DEF RmInit, RmIInv

LEMMA RmNextOK == RmIInv /\ [RmNext]_rmVars => RmIInv'
<1> SUFFICES ASSUME RmIInv, [RmNext]_rmVars PROVE RmIInv'
  OBVIOUS
<1>1. CASE UNCHANGED rmVars
  <2>1. RmTypeOK' /\ RmLive' = RmLive
    BY <1>1 DEF rmVars, RmIInv, RmTypeOK, RmLive
  <2> QED BY <1>1, <2>1 DEF rmVars, RmIInv
<1> QED BY <1>1, RmStartOK, RmDropOK, RmJoinedOK, RmThreadOK DEF RmNext

LEMMA RmGives == RmIInv => RmSafe
<1> SUFFICES ASSUME RmIInv PROVE RmSafe
  OBVIOUS
<1>1. ASSUME \A s \in RmServers : rmServer[s] = "off" PROVE RmLive = {} /\ ~rmRss
  <2>1. RmOn = {} /\ ~rmLock
    BY <1>1 DEF RmOn, RmIInv
  <2> QED BY <2>1, RmCounted DEF RmIInv
<1>2. \A g \in RmIds : g \notin RmLive => rmThread[g] \in {"unborn", "ended"}
  BY DEF RmIInv, RmTypeOK, RmLive
<1>3. \A g, h \in RmIds :
         {rmThread[g], rmThread[h]} \subseteq {"sampling", "waiting"} => g = h
  BY DEF RmIInv, RmLive
<1> QED BY <1>1, <1>2, <1>3 DEF RmSafe, RmNothingLeft, RmIInv

(* Sampler::users is the number of servers that sample; at most one        *)
(* sampler thread runs, and once the last RssSampling is dropped none is   *)
(* left and rss_bytes is None, however starts and drops of any number of   *)
(* servers interleave.                                                     *)
THEOREM RmSafety == RmSpec => []RmSafe
<1>1. RmSpec => []RmIInv
  BY RmInitOK, RmNextOK, PTL DEF RmSpec
<1> QED BY <1>1, RmGives, PTL

-----------------------------------------------------------------------------
(* Response streams.                                                       *)

(* A chunk more at the end, and one moved from the channel to the client.  *)
LEMMA SentMore ==
    \A s, t \in Seq(Nat) : \A x \in Nat : s \o Append(t, x) = Append(s \o t, x)
OBVIOUS

LEMMA GotOne ==
    ASSUME NEW S, NEW s \in Seq(S), NEW t \in Seq(S), t # <<>>
    PROVE  /\ Append(s, Head(t)) \o Tail(t) = s \o t
           /\ Append(s, Head(t)) \in Seq(S) /\ Tail(t) \in Seq(S) /\ Len(Tail(t)) <= Len(t)
<1>1. Len(t) \in Nat \ {0} /\ Head(t) \in S
  BY EmptySeq
<1> QED BY <1>1

LEMMA StartsIt ==
    ASSUME NEW S, NEW s \in Seq(S), NEW t \in Seq(S)
    PROVE  IsPrefix(s, s \o t)
BY DEF IsPrefix

(* What the client got is the start of what was sent while the receiver    *)
(* is there.                                                               *)
LEMMA RsPrefix ==
    ASSUME NEW g \in Seq(Nat), NEW c \in Seq(Nat), NEW s, g \o c = s
    PROVE  IsPrefix(g, s)
BY StartsIt

(* A step that neither sends nor delivers keeps what was promised of the   *)
(* chunks, when the receiver is kept or dropped.                           *)
LEMMA RsKept ==
    ASSUME RsIInv, rsSent' = rsSent, rsGot' = rsGot, rsTries' = rsTries, rsLast' = rsLast,
           \/ rsRx' = "dropped" /\ rsChan' \in {rsChan, <<>>}
           \/ rsRx # "dropped" /\ rsRx' \in {"held", "body"} /\ rsChan' = rsChan,
           rsTx' \in BOOLEAN, rsOwner' \in RsRequests \cup {RsNobody},
           rsReply' \in [RsRequests -> {"none", "stream", "failed", "complete", "gone"}],
           \A r \in RsRequests :
              /\ rsReply'[r] = "stream" => rsOwner' = r /\ rsRx' = "body"
              /\ rsReply'[r] = "complete" => rsRx' = "dropped" /\ rsGot = rsSent
    PROVE  RsIInv'
<1>1. /\ rsChan \in Seq(Nat) /\ rsSent \in Seq(Nat) /\ rsGot \in Seq(Nat) /\ rsTries \in Nat
      /\ RsTypeOK /\ RsAllInOrder
  BY DEF RsIInv, RsSafe
<1>2. rsChan' \in Seq(Nat) /\ Len(rsChan') <= RsCap
  <2>1. CASE rsChan' = rsChan
    BY <1>1, <2>1 DEF RsTypeOK
  <2>2. CASE rsChan' = <<>>
    BY <2>2, RsAssumption
  <2> QED BY <2>1, <2>2
<1>3. RsTypeOK'
  BY <1>1, <1>2 DEF RsTypeOK
<1>4. RsAllInOrder'
  BY <1>1 DEF RsAllInOrder
<1> QED BY <1>1, <1>2, <1>3, <1>4 DEF RsIInv, RsSafe

LEMMA RsSendOK ==
    ASSUME RsIInv, NEW p \in RsProducers, RsSend(p)
    PROVE  RsIInv'
<1>1. /\ rsChan \in Seq(Nat) /\ rsSent \in Seq(Nat) /\ rsGot \in Seq(Nat) /\ rsTries \in Nat
      /\ RsTypeOK /\ RsAllInOrder
      /\ \A r \in RsRequests :
            /\ rsReply[r] = "stream" => rsOwner = r /\ rsRx = "body"
            /\ rsReply[r] = "complete" => rsRx = "dropped"
  BY DEF RsIInv, RsSafe
<1>2. /\ rsTries' = rsTries + 1 /\ rsTx' = rsTx /\ rsRx' = rsRx /\ rsOwner' = rsOwner
      /\ rsReply' = rsReply /\ rsGot' = rsGot
      /\ \E v \in {"none", "BlockingIOError", "ConnectionError"} :
            rsLast' = [rsLast EXCEPT ![p] = v]
  BY DEF RsSend, RsPushes
<1>3. rsLast' \in [RsProducers -> {"none", "BlockingIOError", "ConnectionError"}]
  BY <1>1, <1>2 DEF RsTypeOK
<1>4. CASE rsChan' = rsChan /\ rsSent' = rsSent
  <2>1. RsTypeOK'
    BY <1>1, <1>2, <1>3, <1>4 DEF RsTypeOK
  <2>2. RsAllInOrder'
    BY <1>1, <1>2, <1>4 DEF RsAllInOrder
  <2> QED BY <1>1, <1>2, <1>4, <2>1, <2>2 DEF RsIInv, RsSafe
<1>5. CASE /\ rsRx # "dropped" /\ Len(rsChan) # RsCap
           /\ rsChan' = Append(rsChan, rsTries + 1) /\ rsSent' = Append(rsSent, rsTries + 1)
  <2>1. rsChan' \in Seq(Nat) /\ rsSent' \in Seq(Nat) /\ Len(rsChan') <= RsCap
    BY <1>1, <1>5, RsAssumption DEF RsTypeOK
  <2>2. RsTypeOK'
    BY <1>1, <1>2, <1>3, <2>1 DEF RsTypeOK
  <2>3. rsGot \o rsChan' = rsSent'
    <3>1. rsGot \o rsChan = rsSent /\ rsTries + 1 \in Nat
      BY <1>1, <1>5 DEF RsAllInOrder
    <3>2. \A x \in Nat : rsGot \o Append(rsChan, x) = Append(rsGot \o rsChan, x)
      BY <1>1, SentMore, Zenon
    <3> QED BY <1>5, <3>1, <3>2, Zenon
  <2>4. IsPrefix(rsGot, rsSent')
    BY <1>1, <2>1, <2>3, RsPrefix
  <2>5. RsAllInOrder'
    BY <1>1, <1>2, <1>5, <2>3, <2>4 DEF RsAllInOrder
  <2> QED BY <1>1, <1>2, <2>1, <2>2, <2>5 DEF RsIInv, RsSafe
<1> QED BY <1>4, <1>5 DEF RsSend, RsPushes

LEMMA RsDrainsOK ==
    ASSUME RsIInv, NEW q \in RsRequests, RsDrains(q)
    PROVE  RsIInv'
<1>1. /\ rsChan \in Seq(Nat) /\ rsSent \in Seq(Nat) /\ rsGot \in Seq(Nat) /\ rsTries \in Nat
      /\ RsTypeOK /\ RsAllInOrder
      /\ \A r \in RsRequests :
            /\ rsReply[r] = "stream" => rsOwner = r /\ rsRx = "body"
            /\ rsReply[r] = "complete" => rsRx = "dropped"
  BY DEF RsIInv, RsSafe
<1>2. /\ rsReply[q] = "stream" /\ rsChan # <<>> /\ rsGot' = Append(rsGot, Head(rsChan))
      /\ rsChan' = Tail(rsChan) /\ rsTx' = rsTx /\ rsRx' = rsRx /\ rsOwner' = rsOwner
      /\ rsReply' = rsReply /\ rsSent' = rsSent /\ rsTries' = rsTries /\ rsLast' = rsLast
  BY DEF RsDrains
<1>3. /\ rsGot' \o rsChan' = rsGot \o rsChan
      /\ rsGot' \in Seq(Nat) /\ rsChan' \in Seq(Nat) /\ Len(rsChan') <= Len(rsChan)
  <2>1. /\ Append(rsGot, Head(rsChan)) \o Tail(rsChan) = rsGot \o rsChan
        /\ Append(rsGot, Head(rsChan)) \in Seq(Nat) /\ Tail(rsChan) \in Seq(Nat)
        /\ Len(Tail(rsChan)) <= Len(rsChan)
    BY <1>1, <1>2, GotOne, Zenon
  <2> QED BY <1>2, <2>1, Zenon
<1>4. rsRx = "body" /\ rsGot \o rsChan = rsSent
  BY <1>1, <1>2 DEF RsAllInOrder
<1>5. IsPrefix(rsGot', rsSent)
  BY <1>3, <1>4, RsPrefix
<1>6. RsAllInOrder'
  BY <1>1, <1>2, <1>3, <1>4, <1>5 DEF RsAllInOrder
<1>7. Len(rsChan') <= RsCap
  <2>1. Len(rsChan) <= RsCap /\ Len(rsChan) \in Nat /\ Len(rsChan') \in Nat
    BY <1>1, <1>3 DEF RsTypeOK
  <2> QED BY <1>3, <2>1, RsAssumption
<1>8. RsTypeOK'
  BY <1>1, <1>2, <1>7 DEF RsTypeOK
<1> QED BY <1>1, <1>2, <1>3, <1>6, <1>8 DEF RsIInv, RsSafe

LEMMA RsOtherOK ==
    ASSUME RsIInv,
           \/ \E p \in RsProducers : RsClose(p) \/ RsForgets(p)
           \/ \E r \in RsRequests : RsReturned(r) \/ RsCompletes(r) \/ RsClientGone(r)
    PROVE  RsIInv'
<1>1. /\ rsChan \in Seq(Nat) /\ rsSent \in Seq(Nat) /\ rsGot \in Seq(Nat)
      /\ RsTypeOK /\ RsAllInOrder
      /\ \A r \in RsRequests :
            /\ rsReply[r] = "stream" => rsOwner = r /\ rsRx = "body"
            /\ rsReply[r] = "complete" => rsRx = "dropped" /\ rsGot = rsSent
  BY DEF RsIInv, RsSafe, RsAllInOrder
<1>2. rsSent' = rsSent /\ rsGot' = rsGot /\ rsTries' = rsTries /\ rsLast' = rsLast
  BY DEF RsClose, RsForgets, RsReturned, RsCompletes, RsClientGone
<1>3. ASSUME NEW p \in RsProducers, RsClose(p) PROVE RsIInv'
  <2>1. rsTx' = FALSE /\ rsRx' = rsRx /\ rsOwner' = rsOwner /\ rsChan' = rsChan
        /\ rsReply' = rsReply
    BY <1>3 DEF RsClose
  <2> QED BY <1>1, <1>2, <2>1, RsKept DEF RsTypeOK
<1>4. ASSUME NEW p \in RsProducers, RsForgets(p) PROVE RsIInv'
  <2>1. /\ rsTx' \in BOOLEAN /\ rsOwner' = rsOwner /\ rsChan' = rsChan /\ rsReply' = rsReply
        /\ rsRx' = rsRx \/ (rsRx = "held" /\ rsRx' = "dropped")
    BY <1>4 DEF RsForgets
  <2> QED BY <1>1, <1>2, <2>1, RsKept DEF RsTypeOK
<1>5. ASSUME NEW q \in RsRequests, RsReturned(q) PROVE RsIInv'
  <2>1. rsTx' = rsTx /\ rsChan' = rsChan /\ rsReply[q] = "none"
    BY <1>5 DEF RsReturned
  <2>2. CASE /\ rsRx = "held" /\ rsRx' = "body" /\ rsOwner' = q
             /\ rsReply' = [rsReply EXCEPT ![q] = "stream"]
    <3>1. \A r \in RsRequests : rsReply'[r] = IF r = q THEN "stream" ELSE rsReply[r]
      BY <1>1, <2>2 DEF RsTypeOK
    <3>2. rsReply' \in [RsRequests -> {"none", "stream", "failed", "complete", "gone"}]
      BY <1>1, <2>2 DEF RsTypeOK
    <3>3. \A r \in RsRequests :
             /\ rsReply'[r] = "stream" => rsOwner' = r /\ rsRx' = "body"
             /\ rsReply'[r] = "complete" => rsRx' = "dropped" /\ rsGot = rsSent
      BY <1>1, <2>2, <3>1
    <3> QED BY <1>1, <1>2, <2>1, <2>2, <3>2, <3>3, RsKept DEF RsTypeOK
  <2>3. CASE rsReply' = [rsReply EXCEPT ![q] = "failed"] /\ rsRx' = rsRx /\ rsOwner' = rsOwner
    <3>1. \A r \in RsRequests : rsReply'[r] = IF r = q THEN "failed" ELSE rsReply[r]
      BY <1>1, <2>3 DEF RsTypeOK
    <3>2. rsReply' \in [RsRequests -> {"none", "stream", "failed", "complete", "gone"}]
      BY <1>1, <2>3 DEF RsTypeOK
    <3>3. \A r \in RsRequests :
             /\ rsReply'[r] = "stream" => rsOwner' = r /\ rsRx' = "body"
             /\ rsReply'[r] = "complete" => rsRx' = "dropped" /\ rsGot = rsSent
      BY <1>1, <2>3, <3>1
    <3> QED BY <1>1, <1>2, <2>1, <2>3, <3>2, <3>3, RsKept DEF RsTypeOK
  <2> QED BY <1>5, <2>2, <2>3 DEF RsReturned
<1>6. ASSUME NEW q \in RsRequests, RsCompletes(q) \/ RsClientGone(q) PROVE RsIInv'
  <2>1. /\ rsTx' = rsTx /\ rsOwner' = rsOwner /\ rsReply[q] = "stream" /\ rsRx' = "dropped"
        /\ rsChan' \in {rsChan, <<>>}
        /\ \E v \in {"complete", "gone"} : /\ rsReply' = [rsReply EXCEPT ![q] = v]
                                           /\ v = "complete" => rsChan = <<>>
    BY <1>6 DEF RsCompletes, RsClientGone, RsChannelOver
  <2>2. rsReply' \in [RsRequests -> {"none", "stream", "failed", "complete", "gone"}]
    BY <1>1, <2>1 DEF RsTypeOK
  <2>3. rsRx = "body" /\ rsGot \o rsChan = rsSent
    BY <1>1, <2>1 DEF RsAllInOrder
  <2>4. rsChan = <<>> => rsGot = rsSent
    <3>1. rsGot \o <<>> = rsGot
      BY <1>1
    <3> QED BY <2>3, <3>1
  <2>5. \A r \in RsRequests :
           /\ rsReply'[r] = "stream" => r # q /\ rsReply[r] = "stream"
           /\ rsReply'[r] = "complete" => rsReply[r] = "complete" \/ rsChan = <<>>
    BY <1>1, <2>1 DEF RsTypeOK
  <2>6. \A r \in RsRequests :
           /\ rsReply'[r] = "stream" => rsOwner' = r /\ rsRx' = "body"
           /\ rsReply'[r] = "complete" => rsRx' = "dropped" /\ rsGot = rsSent
    BY <1>1, <2>1, <2>4, <2>5
  <2> QED BY <1>1, <1>2, <2>1, <2>2, <2>6, RsKept DEF RsTypeOK
<1> QED BY <1>3, <1>4, <1>5, <1>6

LEMMA RsInitOK == RsInit => RsIInv
<1> SUFFICES ASSUME RsInit PROVE RsIInv
  OBVIOUS
<1>1. rsGot \o rsChan = rsSent /\ IsPrefix(rsGot, rsSent) /\ Len(rsChan) <= RsCap
  BY RsAssumption DEF RsInit, IsPrefix
<1> QED BY <1>1 DEF RsInit, RsIInv, RsSafe, RsTypeOK, RsAllInOrder

LEMMA RsNextOK == RsIInv /\ [RsNext]_rsVars => RsIInv'
<1> SUFFICES ASSUME RsIInv, [RsNext]_rsVars PROVE RsIInv'
  OBVIOUS
<1>1. CASE UNCHANGED rsVars
  <2>1. RsTypeOK' /\ RsAllInOrder'
    BY <1>1 DEF rsVars, RsIInv, RsSafe, RsTypeOK, RsAllInOrder
  <2> QED BY <1>1, <2>1 DEF rsVars, RsIInv, RsSafe
<1> QED BY <1>1, RsSendOK, RsDrainsOK, RsOtherOK DEF RsNext

(* A chunk whose send returned is in the channel or with the client, once  *)
(* and in order, the channel is within its bound, and a response that      *)
(* completed had every chunk, for any number of producers and requests of  *)
(* a Stream.                                                               *)
THEOREM RsSafety == RsSpec => []RsSafe
<1>1. RsSpec => []RsIInv
  BY RsInitOK, RsNextOK, PTL DEF RsSpec
<1>2. RsIInv => RsSafe
  BY DEF RsIInv
<1> QED BY <1>1, <1>2, PTL
=============================================================================
