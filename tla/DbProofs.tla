------------------------------ MODULE DbProofs ------------------------------
(***************************************************************************)
(* Proofs about the Postgres layer for every number of callers, settings,  *)
(* rows and reading threads: the pool and its statements (PgPool), and a   *)
(* streaming cursor (PgCursor).                                            *)
(***************************************************************************)
EXTENDS PgPool, PgCursor, FiniteSetTheorems, TLAPS

PgFields == {"dsn", "max", "timeout"}
PgInv == PgSafe /\ PgOrder

-----------------------------------------------------------------------------
(* The pool.                                                               *)

(* The settings a call installs have everything it named.                  *)
LEMMA SettingsNamed ==
    ASSUME NEW q \in PgRequests
    PROVE  /\ Settings(q).max \in Nat
           /\ \A f \in PgFields : q[f] # PgUnset => q[f] = Settings(q)[f]
BY PgAssumption DEF Settings, PgFields

(* A pool that is there was installed by a call, with its settings.        *)
LEMMA PoolShape ==
    ASSUME PgOrder, pgPool # PgUnset
    PROVE  pgPool.by \in PgCallers /\ pgPool.settings.max \in Nat
<1>1. PICK c \in PgCallers, q \in PgRequests : pgPool = [by |-> c, settings |-> Settings(q)]
  BY DEF PgOrder
<1>2. pgPool.by = c /\ pgPool.settings = Settings(q)
  BY <1>1
<1> QED BY <1>2, SettingsNamed

(* A connect call goes on without a pool, reuses the one that is there if  *)
(* it has what it names, or installs its own; no statement moves.          *)
LEMMA ConnectKeeps ==
    ASSUME PgInv, NEW c \in PgCallers, pgQuery[c] = "none", pgFut[c] = "none",
           NEW s \in {"opening", "install", "ready", "refused", "failed"},
           pgAt' = [pgAt EXCEPT ![c] = s],
           pgOpen' \subseteq PgCallers,
           UNCHANGED <<pgReq, pgAsyncVars, pgQueryVars, pgLoop>>,
           \/ UNCHANGED pgPool
           \/ pgPool = PgUnset /\ pgPool' = [by |-> c, settings |-> Settings(pgReq[c])],
           s \in {"ready", "refused"} => pgPool' # PgUnset,
           s = "ready" => \A f \in PgFields :
                pgReq[c][f] # PgUnset => pgReq[c][f] = pgPool'.settings[f]
    PROVE  PgInv'
<1> USE DEF pgAsyncVars, pgQueryVars, pgConnectVars
<1>0. /\ pgReq \in [PgCallers -> PgRequests]
      /\ pgAt \in [PgCallers -> {"start", "opening", "install", "ready", "refused", "failed",
                                 "waiting", "returned"}]
      /\ pgReq[c] \in PgRequests
  BY DEF PgInv, PgSafe, PgTypeOK
<1>1. /\ pgAt'[c] = s
      /\ \A d \in PgCallers : d # c => pgAt'[d] = pgAt[d]
      /\ pgAt' \in [PgCallers -> {"start", "opening", "install", "ready", "refused", "failed",
                                  "waiting", "returned"}]
  BY <1>0
<1>2. pgPool # PgUnset => pgPool' = pgPool
  OBVIOUS
<1>3. PgOrder'
  <2>1. pgPool' # PgUnset =>
          \E d \in PgCallers, q \in PgRequests : pgPool' = [by |-> d, settings |-> Settings(q)]
    BY <1>0 DEF PgInv, PgOrder
  <2>2. \A d \in PgCallers :
          /\ pgAt'[d] \in {"ready", "refused", "waiting", "returned"} => pgPool' # PgUnset
          /\ pgQuery[d] # "none" => pgAt'[d] \in {"waiting", "returned"}
          /\ pgFut[d] # "none" => pgAt'[d] = "returned"
    BY <1>1, <1>2 DEF PgInv, PgOrder
  <2> QED BY <2>1, <2>2 DEF PgInv, PgOrder
<1>4. PgTypeOK'
  <2>1. CASE UNCHANGED pgPool
    BY <1>0, <1>1, <2>1 DEF PgInv, PgSafe, PgTypeOK
  <2>2. CASE pgPool = PgUnset /\ pgPool' = [by |-> c, settings |-> Settings(pgReq[c])]
    <3>1. /\ pgConns = 0 /\ pgPool'.by = c /\ pgPool'.settings.max \in Nat
          /\ pgPool' # PgUnset
      BY <1>0, <2>2, SettingsNamed, PgSetAssumption DEF PgInv, PgSafe, PgTypeOK
    <3> QED BY <1>0, <1>1, <3>1 DEF PgInv, PgSafe, PgTypeOK
  <2> QED BY <2>1, <2>2
<1>5. PgHonoured'
  <2> SUFFICES ASSUME NEW d \in PgCallers, pgAt'[d] \in {"ready", "waiting", "returned"},
                      NEW f \in PgFields, pgReq[d][f] # PgUnset
               PROVE  pgReq[d][f] = pgPool'.settings[f]
    BY DEF PgHonoured, PgFields
  <2>1. CASE d = c
    BY <1>1, <2>1
  <2>2. CASE d # c
    <3>1. pgAt[d] \in {"ready", "waiting", "returned"}
      BY <1>1, <2>2
    <3>2. pgPool # PgUnset /\ pgReq[d][f] = pgPool.settings[f]
      BY <3>1 DEF PgInv, PgSafe, PgHonoured, PgOrder, PgFields
    <3> QED BY <1>2, <3>2
  <2> QED BY <2>1, <2>2
<1>6. PgCancelFrees'
  BY DEF PgInv, PgSafe, PgCancelFrees
<1> QED BY <1>3, <1>4, <1>5, <1>6 DEF PgInv, PgSafe

(* The connect calls.                                                      *)
LEMMA ConnectStep ==
    ASSUME PgInv, NEW c \in PgCallers,
           ConnectLooks(c) \/ ConnectOpens(c) \/ ConnectSets(c) \/ LostPoolCloses(c)
    PROVE  PgInv'
<1> USE DEF pgConnectVars
<1>0. /\ pgOpen \subseteq PgCallers /\ pgReq[c] \in PgRequests
      /\ pgAt[c] \in {"start", "opening", "install"} => pgQuery[c] = "none" /\ pgFut[c] = "none"
  BY DEF PgInv, PgSafe, PgTypeOK, PgOrder
<1>1. ASSUME pgPool # PgUnset, Reuse(c, pgPool.settings), UNCHANGED pgPool
      PROVE  \E s \in {"ready", "refused"} :
                /\ pgAt' = [pgAt EXCEPT ![c] = s]
                /\ s = "ready" => \A f \in PgFields :
                        pgReq[c][f] # PgUnset => pgReq[c][f] = pgPool'.settings[f]
  BY <1>1 DEF Reuse, Differences, PgFields
<1>2. CASE ConnectLooks(c)
  <2>1. CASE pgPool = PgUnset
    BY <1>0, <1>2, <2>1, ConnectKeeps DEF ConnectLooks
  <2>2. CASE pgPool # PgUnset
    <3>1. PICK s \in {"ready", "refused"} :
                /\ pgAt' = [pgAt EXCEPT ![c] = s]
                /\ s = "ready" => \A f \in PgFields :
                        pgReq[c][f] # PgUnset => pgReq[c][f] = pgPool'.settings[f]
      BY <1>1, <1>2, <2>2 DEF ConnectLooks
    <3> QED BY <1>0, <1>2, <2>2, <3>1, ConnectKeeps DEF ConnectLooks
  <2> QED BY <2>1, <2>2
<1>3. CASE ConnectOpens(c)
  BY <1>0, <1>3, ConnectKeeps DEF ConnectOpens
<1>4. CASE ConnectSets(c)
  <2>1. CASE Installs(c)
    <3>1. /\ pgPool' = [by |-> c, settings |-> Settings(pgReq[c])]
          /\ pgPool' # PgUnset /\ pgPool'.settings = Settings(pgReq[c])
      BY <1>0, <2>1, PgSetAssumption DEF Installs
    <3>2. \A f \in PgFields : pgReq[c][f] # PgUnset => pgReq[c][f] = pgPool'.settings[f]
      BY <1>0, <3>1, SettingsNamed
    <3> QED BY <1>0, <1>4, <2>1, <3>1, <3>2, ConnectKeeps DEF ConnectSets, Installs
  <2>2. CASE pgPool # PgUnset /\ Reuse(c, pgPool.settings) /\ UNCHANGED pgPool
    <3>1. PICK s \in {"ready", "refused"} :
                /\ pgAt' = [pgAt EXCEPT ![c] = s]
                /\ s = "ready" => \A f \in PgFields :
                        pgReq[c][f] # PgUnset => pgReq[c][f] = pgPool'.settings[f]
      BY <1>1, <2>2
    <3> QED BY <1>0, <1>4, <2>2, <3>1, ConnectKeeps DEF ConnectSets
  <2> QED BY <1>4, <2>1, <2>2 DEF ConnectSets
<1>5. CASE LostPoolCloses(c)
  <2>1. /\ pgOpen' \subseteq PgCallers
        /\ UNCHANGED <<pgPool, pgReq, pgAt, pgAsyncVars, pgQueryVars, pgLoop>>
    BY <1>0, <1>5 DEF LostPoolCloses
  <2> QED BY <2>1 DEF PgInv, PgSafe, PgTypeOK, PgHonoured, PgCancelFrees, PgOrder, pgAsyncVars,
                     pgQueryVars
<1> QED BY <1>2, <1>3, <1>4, <1>5

(* A statement moves: the connections out are the statements that run.     *)
LEMMA RunCount ==
    ASSUME PgInv, NEW c \in PgCallers, NEW s \in {"acquire", "run", "ended"},
           pgQuery' = [pgQuery EXCEPT ![c] = s],
           s = "run" => pgQuery[c] # "run" /\ pgPool # PgUnset /\ pgConns < pgPool.settings.max,
           pgConns' = (IF s = "run" THEN pgConns + 1
                       ELSE IF pgQuery[c] = "run" THEN pgConns - 1 ELSE pgConns),
           UNCHANGED pgPool
    PROVE  /\ pgConns' = Cardinality({d \in PgCallers : pgQuery'[d] = "run"})
           /\ IsFiniteSet({d \in PgCallers : pgQuery'[d] = "run"})
           /\ IF pgPool = PgUnset THEN pgConns' = 0
              ELSE pgPool.by \in PgCallers /\ pgConns' <= pgPool.settings.max
           /\ pgQuery' \in [PgCallers -> {"none", "acquire", "run", "ended"}]
<1> DEFINE Running == {d \in PgCallers : pgQuery[d] = "run"}
<1>0. /\ pgQuery \in [PgCallers -> {"none", "acquire", "run", "ended"}]
      /\ IsFiniteSet(Running) /\ pgConns = Cardinality(Running)
      /\ IF pgPool = PgUnset THEN pgConns = 0
         ELSE pgPool.by \in PgCallers /\ pgConns <= pgPool.settings.max
  BY DEF PgInv, PgSafe, PgTypeOK, PgOrder
<1>1. \A d \in PgCallers : pgQuery'[d] = IF d = c THEN s ELSE pgQuery[d]
  BY <1>0
<1>2. pgQuery' \in [PgCallers -> {"none", "acquire", "run", "ended"}]
  BY <1>0
<1>3. pgPool # PgUnset => pgPool.settings.max \in Nat
  BY PoolShape DEF PgInv
<1>4. Cardinality(Running) \in Nat
  BY <1>0, FS_CardinalityType
<1>5. CASE s = "run"
  <2>1. Running' = Running \cup {c} /\ c \notin Running
    BY <1>1, <1>5
  <2> HIDE DEF Running
  <2>2. IsFiniteSet(Running') /\ Cardinality(Running') = Cardinality(Running) + 1
    BY <1>0, <2>1, FS_AddElement
  <2>3. pgConns' = Cardinality(Running')
    BY <1>0, <1>5, <2>2
  <2>4. pgPool # PgUnset /\ pgConns' <= pgPool.settings.max /\ pgPool.by \in PgCallers
    BY <1>0, <1>3, <1>4, <1>5
  <2> QED BY <1>2, <2>2, <2>3, <2>4 DEF Running
<1>6. CASE s # "run" /\ pgQuery[c] = "run"
  <2>1. Running' = Running \ {c} /\ c \in Running
    BY <1>1, <1>6
  <2> HIDE DEF Running
  <2>2. IsFiniteSet(Running') /\ Cardinality(Running') = Cardinality(Running) - 1
    BY <1>0, <2>1, FS_RemoveElement
  <2>3. pgConns' = Cardinality(Running') /\ pgConns' = pgConns - 1
    BY <1>0, <1>6, <2>2
  <2>4. Cardinality(Running') \in Nat
    BY <2>2, FS_CardinalityType
  <2>5. IF pgPool = PgUnset THEN pgConns' = 0
        ELSE pgPool.by \in PgCallers /\ pgConns' <= pgPool.settings.max
    BY <1>0, <1>3, <1>4, <2>3, <2>4
  <2> QED BY <1>2, <2>2, <2>3, <2>5 DEF Running
<1>7. CASE s # "run" /\ pgQuery[c] # "run"
  <2>1. Running' = Running
    BY <1>1, <1>7
  <2> HIDE DEF Running
  <2>2. IsFiniteSet(Running') /\ pgConns' = Cardinality(Running') /\ pgConns' = pgConns
    BY <1>0, <1>7, <2>1
  <2> QED BY <1>0, <1>2, <2>2 DEF Running
<1> QED BY <1>5, <1>6, <1>7

(* A caller with a pool goes on: its statement starts, runs or ends, its   *)
(* future waits or is cancelled, and its result is delivered.              *)
LEMMA StatementKeeps ==
    ASSUME PgInv, NEW c \in PgCallers,
           pgAt[c] \in {"ready", "waiting", "returned"},
           NEW s \in {"none", "acquire", "run", "ended"},
           pgQuery' = [pgQuery EXCEPT ![c] = s],
           s = "none" => pgQuery[c] = "none",
           pgQuery[c] = "ended" => s = "ended",
           s = "run" /\ pgQuery[c] # "run" => pgPool # PgUnset /\ pgConns < pgPool.settings.max,
           pgConns' = (IF s = pgQuery[c] THEN pgConns
                       ELSE IF s = "run" THEN pgConns + 1
                       ELSE IF pgQuery[c] = "run" THEN pgConns - 1 ELSE pgConns),
           NEW a \in {"ready", "waiting", "returned"}, pgAt' = [pgAt EXCEPT ![c] = a],
           s # "none" => a # "ready",
           NEW f \in {"none", "pending", "cancelled", "value", "error"},
           pgFut' = [pgFut EXCEPT ![c] = f],
           f # "none" => a = "returned" /\ s # "none" /\ c \in PgMain,
           pgDelivery' \in [PgCallers -> {"none", "ready", "attach", "posted", "over"}],
           pgCallback' \subseteq PgMain,
           \A d \in PgCallers : d # c /\ d \in pgCallback => d \in pgCallback',
           f = "cancelled" => s = "ended" \/ c \in pgCallback' \/ pgLoop # "running",
           pgKind' \in [PgCallers -> {"sync", "async", "iter"}],
           pgFailed' \subseteq PgCallers,
           UNCHANGED <<pgConnectVars, pgLoop>>
    PROVE  PgInv'
<1> USE DEF pgConnectVars
<1>0. /\ pgAt \in [PgCallers -> {"start", "opening", "install", "ready", "refused", "failed",
                                 "waiting", "returned"}]
      /\ pgFut \in [PgCallers -> {"none", "pending", "value", "error", "cancelled"}]
      /\ pgQuery \in [PgCallers -> {"none", "acquire", "run", "ended"}]
      /\ pgPool # PgUnset
  BY DEF PgInv, PgSafe, PgTypeOK, PgOrder
<1>1. /\ pgAt' \in [PgCallers -> {"start", "opening", "install", "ready", "refused", "failed",
                                  "waiting", "returned"}]
      /\ pgFut' \in [PgCallers -> {"none", "pending", "value", "error", "cancelled"}]
      /\ pgAt'[c] = a /\ pgFut'[c] = f /\ pgQuery'[c] = s
      /\ \A d \in PgCallers : d # c =>
            pgAt'[d] = pgAt[d] /\ pgFut'[d] = pgFut[d] /\ pgQuery'[d] = pgQuery[d]
  BY <1>0
<1>2. /\ pgConns' = Cardinality({d \in PgCallers : pgQuery'[d] = "run"})
      /\ IsFiniteSet({d \in PgCallers : pgQuery'[d] = "run"})
      /\ IF pgPool = PgUnset THEN pgConns' = 0
         ELSE pgPool.by \in PgCallers /\ pgConns' <= pgPool.settings.max
      /\ pgQuery' \in [PgCallers -> {"none", "acquire", "run", "ended"}]
  <2>1. CASE s = pgQuery[c]
    <3>1. pgQuery' = pgQuery /\ pgConns' = pgConns
      BY <1>0, <2>1
    <3>2. {d \in PgCallers : pgQuery'[d] = "run"} = {d \in PgCallers : pgQuery[d] = "run"}
      BY <3>1
    <3>3. /\ pgConns = Cardinality({d \in PgCallers : pgQuery[d] = "run"})
          /\ IsFiniteSet({d \in PgCallers : pgQuery[d] = "run"})
          /\ pgPool.by \in PgCallers /\ pgConns <= pgPool.settings.max
      BY <1>0 DEF PgInv, PgSafe, PgTypeOK, PgOrder
    <3> QED BY <1>0, <3>1, <3>2, <3>3
  <2>2. CASE s # pgQuery[c]
    BY <2>2, RunCount
  <2> QED BY <2>1, <2>2
<1>3. PgTypeOK'
  BY <1>1, <1>2 DEF PgInv, PgSafe, PgTypeOK
<1>4. PgHonoured'
  BY <1>1 DEF PgInv, PgSafe, PgHonoured
<1>5. PgCancelFrees'
  BY <1>1 DEF PgInv, PgSafe, PgCancelFrees
<1>6. PgOrder'
  <2>1. \A d \in PgCallers :
          /\ pgQuery'[d] # "none" => pgAt'[d] \in {"waiting", "returned"}
          /\ pgFut'[d] # "none" => pgAt'[d] = "returned" /\ pgQuery'[d] # "none" /\ d \in PgMain
    BY <1>1 DEF PgInv, PgOrder
  <2> QED BY <1>0, <1>2, <2>1 DEF PgInv, PgOrder
<1> QED BY <1>3, <1>4, <1>5, <1>6 DEF PgInv, PgSafe

(* Only a result on its way to its loop moves.                             *)
LEMMA DeliveryKeeps ==
    ASSUME PgInv, UNCHANGED <<pgConnectVars, pgQueryVars, pgFut, pgCallback, pgAt, pgLoop>>,
           pgDelivery' \in [PgCallers -> {"none", "ready", "attach", "posted", "over"}]
    PROVE  PgInv'
BY DEF PgInv, PgSafe, PgTypeOK, PgHonoured, PgCancelFrees, PgOrder, pgConnectVars, pgQueryVars

(* The statements of a caller that has a pool.                             *)
LEMMA StatementStep ==
    ASSUME PgInv, NEW c \in PgCallers,
           \/ CallSync(c) \/ CallIter(c) \/ CallAsync(c)
           \/ Acquire(c) \/ AcquireTimeout(c) \/ QueryEnds(c) \/ QueryPanics(c)
           \/ DeliveryChecks(c) \/ DeliveryPosts(c) \/ Resolve(c) \/ CancelFuture(c)
           \/ DoneCallback(c)
    PROVE  PgInv'
<1> USE DEF pgAsyncVars, pgQueryVars
<1>0. /\ pgAt \in [PgCallers -> {"start", "opening", "install", "ready", "refused", "failed",
                                 "waiting", "returned"}]
      /\ pgKind \in [PgCallers -> {"sync", "async", "iter"}]
      /\ pgQuery \in [PgCallers -> {"none", "acquire", "run", "ended"}]
      /\ pgFut \in [PgCallers -> {"none", "pending", "value", "error", "cancelled"}]
      /\ pgDelivery \in [PgCallers -> {"none", "ready", "attach", "posted", "over"}]
      /\ pgCallback \subseteq PgMain /\ pgFailed \subseteq PgCallers
  BY DEF PgInv, PgSafe, PgTypeOK
<1>1. /\ pgAt[c] = "ready" => pgQuery[c] = "none" /\ pgFut[c] = "none"
      /\ pgQuery[c] # "none" => pgAt[c] \in {"waiting", "returned"} /\ pgPool # PgUnset
      /\ pgFut[c] # "none" => pgAt[c] = "returned" /\ pgQuery[c] # "none" /\ c \in PgMain
      /\ pgFut[c] = "cancelled" => pgQuery[c] = "ended" \/ c \in pgCallback \/ pgLoop # "running"
  BY DEF PgInv, PgSafe, PgCancelFrees, PgOrder
<1>2. /\ pgAt = [pgAt EXCEPT ![c] = pgAt[c]]
      /\ pgQuery = [pgQuery EXCEPT ![c] = pgQuery[c]]
      /\ pgFut = [pgFut EXCEPT ![c] = pgFut[c]]
      /\ pgFut[c] \in {"none", "pending", "cancelled", "value", "error"}
      /\ pgQuery[c] \in {"none", "acquire", "run", "ended"}
  BY <1>0
<1>3. CASE CallSync(c)
  <2>1. pgKind' \in [PgCallers -> {"sync", "async", "iter"}]
    BY <1>0, <1>3 DEF CallSync, StartQuery
  <2> QED BY <1>0, <1>1, <1>2, <1>3, <2>1, StatementKeeps DEF CallSync, StartQuery
<1>4. CASE CallIter(c)
  <2>1. pgKind' \in [PgCallers -> {"sync", "async", "iter"}]
    BY <1>0, <1>4 DEF CallIter, StartQuery
  <2> QED BY <1>0, <1>1, <1>2, <1>4, <2>1, StatementKeeps DEF CallIter, StartQuery
<1>5. CASE CallAsync(c)
  <2>1. pgKind' \in [PgCallers -> {"sync", "async", "iter"}]
    BY <1>0, <1>5 DEF CallAsync, StartQuery
  <2>2. CASE c \in PgMain
    BY <1>0, <1>1, <1>2, <1>5, <2>1, <2>2, StatementKeeps DEF CallAsync, StartQuery
  <2>3. CASE c \notin PgMain
    BY <1>0, <1>1, <1>2, <1>5, <2>1, <2>3, StatementKeeps DEF CallAsync
  <2> QED BY <2>2, <2>3
<1>6. CASE Acquire(c)
  BY <1>0, <1>1, <1>2, <1>6, StatementKeeps DEF Acquire
<1>7. ASSUME NEW ok \in BOOLEAN, QueryOver(c, ok), pgQuery[c] # "none",
             UNCHANGED <<pgKind, pgConnectVars, pgFut, pgLoop>>,
             pgCallback' \in {pgCallback, pgCallback \ {c}}
      PROVE  PgInv'
  <2>1. pgDelivery' \in [PgCallers -> {"none", "ready", "attach", "posted", "over"}]
    BY <1>0, <1>7 DEF QueryOver
  <2>2. pgFailed' \subseteq PgCallers
    BY <1>0, <1>7 DEF QueryOver
  <2>3. pgQuery' = [pgQuery EXCEPT ![c] = "ended"]
        /\ pgConns' = IF pgQuery[c] = "run" THEN pgConns - 1 ELSE pgConns
    BY <1>7 DEF QueryOver
  <2>4. pgCallback' \subseteq PgMain /\ \A d \in PgCallers : d # c /\ d \in pgCallback => d \in pgCallback'
    BY <1>0, <1>7
  <2>5. CASE pgKind[c] = "sync"
    <3>1. pgAt' = [pgAt EXCEPT ![c] = "returned"]
      BY <1>7, <2>5 DEF QueryOver
    <3> QED BY <1>0, <1>1, <1>2, <1>7, <2>1, <2>2, <2>3, <2>4, <3>1, StatementKeeps
  <2>6. CASE pgKind[c] # "sync"
    <3>1. pgAt' = pgAt
      BY <1>7, <2>6 DEF QueryOver
    <3> QED BY <1>0, <1>1, <1>2, <1>7, <2>1, <2>2, <2>3, <2>4, <3>1, StatementKeeps
  <2> QED BY <2>5, <2>6
<1>8. CASE AcquireTimeout(c) \/ QueryEnds(c) \/ QueryPanics(c)
  BY <1>7, <1>8 DEF AcquireTimeout, QueryEnds, QueryPanics
<1>9. CASE DeliveryChecks(c) \/ DeliveryPosts(c)
  <2>1. pgDelivery' \in [PgCallers -> {"none", "ready", "attach", "posted", "over"}]
    BY <1>0, <1>9 DEF DeliveryChecks, DeliveryPosts
  <2> QED BY <1>9, <2>1, DeliveryKeeps DEF DeliveryChecks, DeliveryPosts
<1>10. CASE Resolve(c)
  <2>1. pgDelivery' \in [PgCallers -> {"none", "ready", "attach", "posted", "over"}]
    BY <1>0, <1>10 DEF Resolve
  <2>2. CASE pgFut[c] = "pending"
    <3>1. PICK f \in {"value", "error"} : pgFut' = [pgFut EXCEPT ![c] = f]
      BY <1>10, <2>2 DEF Resolve, Outcome
    <3>2. pgCallback' = pgCallback \cup {c}
          /\ UNCHANGED <<pgConnectVars, pgQueryVars, pgAt, pgLoop>>
      BY <1>10, <2>2 DEF Resolve
    <3>3. /\ pgAt[c] = "returned" /\ pgQuery[c] # "none" /\ c \in PgMain
          /\ pgCallback' \subseteq PgMain
          /\ \A d \in PgCallers : d # c /\ d \in pgCallback => d \in pgCallback'
      BY <1>0, <1>1, <2>2, <3>2
    <3>4. /\ pgQuery' = [pgQuery EXCEPT ![c] = pgQuery[c]] /\ pgConns' = pgConns
          /\ pgAt' = [pgAt EXCEPT ![c] = "returned"]
          /\ pgKind' = pgKind /\ pgFailed' = pgFailed
          /\ UNCHANGED <<pgConnectVars, pgLoop>>
      BY <1>2, <3>2, <3>3
    <3> QED BY <1>0, <1>2, <2>1, <3>1, <3>3, <3>4, StatementKeeps
  <2>3. CASE pgFut[c] # "pending"
    BY <1>10, <2>1, <2>3, DeliveryKeeps DEF Resolve
  <2> QED BY <2>2, <2>3
<1>11. CASE CancelFuture(c)
  <2>1. /\ pgFut' = [pgFut EXCEPT ![c] = "cancelled"]
        /\ pgCallback' = pgCallback \cup {c} /\ pgFut[c] = "pending"
        /\ UNCHANGED <<pgConnectVars, pgQueryVars, pgDelivery, pgAt, pgLoop>>
    BY <1>11 DEF CancelFuture
  <2>2. /\ pgAt[c] = "returned" /\ pgQuery[c] # "none" /\ c \in PgMain
        /\ pgCallback' \subseteq PgMain /\ c \in pgCallback'
        /\ \A d \in PgCallers : d # c /\ d \in pgCallback => d \in pgCallback'
    BY <1>0, <1>1, <2>1
  <2>3. /\ pgQuery' = [pgQuery EXCEPT ![c] = pgQuery[c]] /\ pgConns' = pgConns
        /\ pgAt' = [pgAt EXCEPT ![c] = "returned"]
        /\ pgKind' = pgKind /\ pgFailed' = pgFailed /\ pgDelivery' = pgDelivery
        /\ UNCHANGED <<pgConnectVars, pgLoop>>
    BY <1>2, <2>1, <2>2
  <2>4. PICK f \in {"none", "pending", "cancelled", "value", "error"} : f = "cancelled"
    OBVIOUS
  <2>5. pgFut' = [pgFut EXCEPT ![c] = f]
    BY <2>1, <2>4
  <2> QED BY <1>0, <1>2, <2>2, <2>3, <2>4, <2>5, StatementKeeps
<1>12. CASE DoneCallback(c)
  <2>1. pgCallback' = pgCallback \ {c} /\ UNCHANGED <<pgKind, pgConnectVars, pgFut, pgLoop>>
    BY <1>12 DEF DoneCallback
  <2>2. CASE pgFut[c] = "cancelled" /\ pgQuery[c] # "ended"
    BY <1>1, <1>7, <1>12, <2>1, <2>2 DEF DoneCallback
  <2>3. CASE ~(pgFut[c] = "cancelled" /\ pgQuery[c] # "ended")
    <3>1. UNCHANGED <<pgQuery, pgConns, pgFailed, pgAt, pgDelivery>>
      BY <1>12, <2>3 DEF DoneCallback
    <3>2. PgCancelFrees'
      BY <2>1, <2>3, <3>1 DEF PgInv, PgSafe, PgCancelFrees
    <3> QED BY <1>0, <2>1, <3>1, <3>2
            DEF PgInv, PgSafe, PgTypeOK, PgHonoured, PgOrder, pgConnectVars
  <2> QED BY <2>2, <2>3
<1> QED BY <1>3, <1>4, <1>5, <1>6, <1>8, <1>9, <1>10, <1>11, <1>12

(* The invariant holds at the start.                                       *)
LEMMA PgStart == PgInit => PgInv
<1> SUFFICES ASSUME PgInit PROVE PgInv
  OBVIOUS
<1>1. {c \in PgCallers : pgQuery[c] = "run"} = {}
  BY DEF PgInit
<1>2. PgTypeOK
  BY <1>1, FS_EmptySet DEF PgInit, PgTypeOK
<1> QED BY <1>1, <1>2, FS_EmptySet DEF PgInit, PgInv, PgSafe, PgHonoured, PgCancelFrees, PgOrder

(* Every step keeps the invariant.                                         *)
LEMMA PgStep == PgInv /\ [PgNext]_pgVars => PgInv'
<1> SUFFICES ASSUME PgInv, [PgNext]_pgVars PROVE PgInv'
  OBVIOUS
<1>1. CASE LoopCloses \/ Finalizes
  <2>1. /\ UNCHANGED <<pgConnectVars, pgAsyncVars, pgQueryVars, pgAt>>
        /\ pgLoop' \in {"closed", "finalized"}
    BY <1>1 DEF LoopCloses, Finalizes
  <2> QED BY <2>1 DEF PgInv, PgSafe, PgTypeOK, PgHonoured, PgCancelFrees, PgOrder,
                     pgConnectVars, pgAsyncVars, pgQueryVars
<1>2. CASE UNCHANGED pgVars
  BY <1>2 DEF pgVars, PgInv, PgSafe, PgTypeOK, PgHonoured, PgCancelFrees, PgOrder,
              pgConnectVars, pgAsyncVars, pgQueryVars
<1> QED BY <1>1, <1>2, ConnectStep, StatementStep DEF PgNext

(* For every set of racing connect calls and whatever their statements do: *)
(* no more connections are out than the pool's max_connections, a call     *)
(* that succeeded works with every setting it named, and a cancelled query *)
(* has ended or is about to (db.rs, connect, run and AbortOnCancel).       *)
THEOREM PgCorrect == PgSpec => []PgSafe
<1>1. PgInv => PgSafe
  BY DEF PgInv
<1> QED BY <1>1, PgStart, PgStep, PTL DEF PgSpec

(* A future that is done stays as it is, in whatever order the result, the *)
(* cancellation and the close of its loop come (db.rs, resolve: "a         *)
(* cancelled caller is left alone").                                       *)
THEOREM FutureSettles == PgSpec => PgFutureSettled
<1> DEFINE Settles == \A c \in PgCallers :
                pgFut[c] \in {"value", "error", "cancelled"} => pgFut'[c] = pgFut[c]
<1>1. PgInv /\ [PgNext]_pgVars => [Settles]_pgVars
  <2> SUFFICES ASSUME PgInv, [PgNext]_pgVars,
                      NEW c \in PgCallers, pgFut[c] \in {"value", "error", "cancelled"}
               PROVE  pgFut'[c] = pgFut[c]
    BY DEF pgVars, pgAsyncVars
  <2>0. /\ pgFut \in [PgCallers -> {"none", "pending", "value", "error", "cancelled"}]
        /\ pgAt[c] = "returned"
    BY DEF PgInv, PgSafe, PgTypeOK, PgOrder
  <2>1. CASE UNCHANGED pgFut
    BY <2>1
  <2>2. ASSUME NEW d \in PgCallers, CallAsync(d) \/ Resolve(d) \/ CancelFuture(d)
        PROVE  pgFut'[c] = pgFut[c]
    <3>1. CASE d = c
      BY <2>0, <2>2, <3>1 DEF CallAsync, Resolve, CancelFuture
    <3>2. CASE d # c
      BY <2>0, <2>2, <3>2 DEF CallAsync, Resolve, CancelFuture
    <3> QED BY <3>1, <3>2
  <2>3. \/ UNCHANGED pgFut
        \/ \E d \in PgCallers : CallAsync(d) \/ Resolve(d) \/ CancelFuture(d)
    BY DEF PgNext, pgVars, pgAsyncVars, LoopCloses, Finalizes, ConnectLooks, ConnectOpens,
           ConnectSets, LostPoolCloses, CallSync, CallIter, Acquire, AcquireTimeout, QueryEnds,
           QueryPanics, DeliveryChecks, DeliveryPosts, DoneCallback
  <2> QED BY <2>1, <2>2, <2>3
<1> QED BY <1>1, PgStart, PgStep, PTL DEF PgSpec, PgFutureSettled

-----------------------------------------------------------------------------
(* The cursor.                                                             *)

CurInv == CurTypeOK /\ CurIInv

CurPlaces == {"idle", "lock", "claim", "turn", "reclaim", "waiting", "detach", "recv",
              "attachReturn", "attachDetach", "attachGiveback", "giveback", "store", "notify",
              "return"}

(* The messages are rows and the error; the end of the stream is none.     *)
LEMMA MsgKinds ==
    /\ CurErr \in CurMsgs
    /\ \A n \in 1 .. CurRows : Row(n) \in CurMsgs
    /\ CurEof \notin CurMsgs /\ CurErr # CurEof /\ CurEof.kind = "eof"
    /\ \A m \in CurMsgs : m.kind # "eof"
<1>1. CurErr \in CurMsgs /\ \A n \in 1 .. CurRows : Row(n) \in CurMsgs
  BY DEF CurMsgs
<1>2. CurEof.kind = "eof" /\ CurErr.kind # "eof"
  BY DEF CurEof, CurErr
<1>3. \A n \in 1 .. CurRows : Row(n).kind # "eof"
  BY DEF Row
<1>4. \A m \in CurMsgs : m.kind # "eof"
  BY <1>2, <1>3 DEF CurMsgs
<1> QED BY <1>1, <1>2, <1>4

(* How far the driver came is a number.                                    *)
LEMMA SentType ==
    ASSUME CurTypeOK
    PROVE  curNext \in Nat /\ CurSent \in Int /\ CurSent <= curNext
           /\ CurRows \in Nat /\ CurCapacity \in Nat
BY CurAssumption DEF CurTypeOK, CurSent

(* The head of one part of the stream becomes the last of the part before. *)
LEMMA HeadMoves ==
    ASSUME NEW a \in Seq(CurMsgs), NEW b \in Seq(CurMsgs), b # <<>>, NEW before \in Nat,
           CurPlaced(a, before), CurPlaced(b, before + Len(a))
    PROVE  /\ Append(a, Head(b)) \in Seq(CurMsgs) /\ Tail(b) \in Seq(CurMsgs)
           /\ Len(Append(a, Head(b))) = Len(a) + 1 /\ Len(Tail(b)) = Len(b) - 1
           /\ CurPlaced(Append(a, Head(b)), before)
           /\ CurPlaced(Tail(b), before + Len(a) + 1)
<1>0. Len(a) \in Nat /\ Len(b) \in Nat \ {0}
  OBVIOUS
<1>1. /\ Append(a, Head(b)) \in Seq(CurMsgs) /\ Tail(b) \in Seq(CurMsgs)
      /\ Len(Append(a, Head(b))) = Len(a) + 1 /\ Len(Tail(b)) = Len(b) - 1
  OBVIOUS
<1>2. CurPlaced(Append(a, Head(b)), before)
  <2> SUFFICES ASSUME NEW n \in 1 .. (Len(a) + 1)
               PROVE  LET m == Append(a, Head(b))[n] IN
                      \/ m = Row(before + n) /\ before + n <= CurSent
                      \/ m = CurErr /\ curDriver = "done" /\ before + n = curNext + 1
    BY <1>1 DEF CurPlaced
  <2>1. CASE n <= Len(a)
    <3>1. Append(a, Head(b))[n] = a[n] /\ n \in 1 .. Len(a)
      BY <1>0, <2>1
    <3> QED BY <3>1 DEF CurPlaced
  <2>2. CASE n = Len(a) + 1
    <3>1. Append(a, Head(b))[n] = b[1] /\ 1 \in 1 .. Len(b) /\ before + Len(a) + 1 = before + n
      BY <1>0, <2>2
    <3> QED BY <3>1 DEF CurPlaced
  <2> QED BY <1>0, <2>1, <2>2
<1>3. CurPlaced(Tail(b), before + Len(a) + 1)
  <2> SUFFICES ASSUME NEW n \in 1 .. (Len(b) - 1)
               PROVE  LET m == Tail(b)[n] IN
                      \/ m = Row(before + Len(a) + 1 + n) /\ before + Len(a) + 1 + n <= CurSent
                      \/ /\ m = CurErr /\ curDriver = "done"
                         /\ before + Len(a) + 1 + n = curNext + 1
    BY <1>1 DEF CurPlaced
  <2>1. /\ Tail(b)[n] = b[n + 1] /\ n + 1 \in 1 .. Len(b)
        /\ before + Len(a) + 1 + n = before + Len(a) + (n + 1)
    BY <1>0
  <2> QED BY <2>1 DEF CurPlaced
<1> QED BY <1>1, <1>2, <1>3

(* A batch takes the next message out of the channel.                      *)
LEMMA Receives ==
    ASSUME NEW g \in Seq(CurMsgs), NEW f \in Seq(CurMsgs), NEW c \in Seq(CurMsgs), c # <<>>,
           CurNumbered(g, f, c), CurNoneMissing(g, f, c)
    PROVE  /\ CurNumbered(g, Append(f, Head(c)), Tail(c))
           /\ CurNoneMissing(g, Append(f, Head(c)), Tail(c))
<1>0. Len(g) \in Nat /\ Len(f) \in Nat /\ Len(c) \in Nat \ {0}
  OBVIOUS
<1>1. /\ Len(Append(f, Head(c))) = Len(f) + 1 /\ Len(Tail(c)) = Len(c) - 1
      /\ CurPlaced(Append(f, Head(c)), Len(g))
      /\ CurPlaced(Tail(c), Len(g) + Len(f) + 1)
  BY <1>0, HeadMoves DEF CurNumbered
<1>2. Len(g) + Len(Append(f, Head(c))) = Len(g) + Len(f) + 1
  BY <1>0, <1>1
<1>3. CurNumbered(g, Append(f, Head(c)), Tail(c))
  BY <1>1, <1>2 DEF CurNumbered
<1>4. Len(g) + Len(Append(f, Head(c))) + Len(Tail(c)) = Len(g) + Len(f) + Len(c)
  BY <1>0, <1>1
<1>5. CurNoneMissing(g, Append(f, Head(c)), Tail(c))
  BY <1>4 DEF CurNoneMissing
<1> QED BY <1>3, <1>5

(* A message that was received is delivered.                               *)
LEMMA Delivers ==
    ASSUME NEW g \in Seq(CurMsgs), NEW f \in Seq(CurMsgs), NEW c \in Seq(CurMsgs), f # <<>>,
           CurNumbered(g, f, c), CurNoneMissing(g, f, c)
    PROVE  /\ CurNumbered(Append(g, Head(f)), Tail(f), c)
           /\ CurNoneMissing(Append(g, Head(f)), Tail(f), c)
<1>0. Len(g) \in Nat /\ Len(f) \in Nat \ {0} /\ Len(c) \in Nat /\ 0 + Len(g) = Len(g)
  OBVIOUS
<1>1. /\ Len(Append(g, Head(f))) = Len(g) + 1 /\ Len(Tail(f)) = Len(f) - 1
      /\ CurPlaced(Append(g, Head(f)), 0)
      /\ CurPlaced(Tail(f), Len(g) + 1)
  <2>1. CurPlaced(g, 0) /\ CurPlaced(f, 0 + Len(g)) /\ 0 + Len(g) + 1 = Len(g) + 1
    BY <1>0 DEF CurNumbered
  <2>2. CurPlaced(Tail(f), 0 + Len(g) + 1)
    BY <2>1, HeadMoves
  <2> QED BY <2>1, <2>2, HeadMoves
<1>2. Len(Append(g, Head(f))) + Len(Tail(f)) = Len(g) + Len(f)
  BY <1>0, <1>1
<1>3. CurNumbered(Append(g, Head(f)), Tail(f), c)
  BY <1>1, <1>2 DEF CurNumbered
<1>4. Len(Append(g, Head(f))) + Len(Tail(f)) + Len(c) = Len(g) + Len(f) + Len(c)
  BY <1>2
<1>5. CurNoneMissing(Append(g, Head(f)), Tail(f), c)
  BY <1>4 DEF CurNoneMissing
<1> QED BY <1>3, <1>5

(* The places do not depend on the threads.                                *)
LEMMA SamePlaces ==
    ASSUME UNCHANGED <<curDriver, curNext>>, NEW q, NEW before
    PROVE  CurPlaced(q, before)' <=> CurPlaced(q, before)
BY DEF CurPlaced, CurSent

(* A driver that goes on only adds places.                                 *)
LEMMA MorePlaces ==
    ASSUME curDriver # "done", CurSent <= CurSent', CurTypeOK, CurSent' \in Int,
           NEW q \in Seq(CurMsgs), NEW before \in Nat, CurPlaced(q, before)
    PROVE  \A n \in 1 .. Len(q) : q[n] = Row(before + n) /\ before + n <= CurSent'
<1> SUFFICES ASSUME NEW n \in 1 .. Len(q)
             PROVE  q[n] = Row(before + n) /\ before + n <= CurSent'
  OBVIOUS
<1>1. q[n] = Row(before + n) /\ before + n <= CurSent
  BY DEF CurPlaced
<1>2. before + n \in Nat
  OBVIOUS
<1> QED BY <1>1, <1>2, SentType

(* The streams stay numbered when the threads change and the stream does   *)
(* not: for every part that was on the way before.                         *)
LEMMA SameStream ==
    ASSUME UNCHANGED <<curDriver, curNext, curAlive, curLost, curGot, curChan>>, NEW f
    PROVE  CurStreamed(f)' <=> CurStreamed(f)
BY DEF CurStreamed, CurNumbered, CurNoneMissing, CurPlaced, CurSent

(* A thread goes on and touches neither the stream nor the receiver.       *)
LEMMA QuietStep ==
    ASSUME CurInv, curAlive, UNCHANGED <<curBatch, curMsg, curStream>>,
           curGil' \in CurReaders \cup {CurNobody}, curMutex' \in CurReaders \cup {CurNobody},
           curAt' \in [CurReaders -> CurPlaces],
           \A w \in CurReaders : CurHolds(w)' <=> CurHolds(w),
           \A w \in CurReaders :
                curAt[w] \in {"recv", "attachGiveback", "giveback", "store"}
                    => curAt'[w] \in {"recv", "attachGiveback", "giveback", "store"},
           \A w \in CurReaders :
                curAt'[w] \in {"attachGiveback", "giveback", "store"}
                    => \/ curAt[w] \in {"attachGiveback", "giveback", "store"}
                       \/ curBatch[w] = <<>> => curDriver = "done" /\ curChan = <<>>
    PROVE  CurInv'
<1> USE DEF curStream, curDriverVars
<1>1. CurTypeOK'
  BY DEF CurInv, CurTypeOK, CurPlaces
<1>2. CurOneHolder'
  <2>1. \A w \in CurReaders : curBatch[w] # <<>> =>
            curAt'[w] \in {"recv", "attachGiveback", "giveback", "store"}
    BY DEF CurInv, CurIInv, CurOneHolder
  <2> QED BY <2>1 DEF CurInv, CurIInv, CurOneHolder
<1>3. CurAllStreamed'
  BY SameStream DEF CurInv, CurIInv, CurAllStreamed
<1>4. CurCloses'
  BY DEF CurInv, CurIInv, CurCloses
<1> QED BY <1>1, <1>2, <1>3, <1>4 DEF CurInv, CurIInv

(* One thread's such step.                                                 *)
LEMMA QuietMove ==
    ASSUME CurInv, NEW r \in CurReaders, NEW p \in CurPlaces, Goto(r, p),
           curAlive \/ curAt[r] # "idle",
           UNCHANGED <<curBatch, curMsg, curStream>>,
           curGil' \in CurReaders \cup {CurNobody}, curMutex' \in CurReaders \cup {CurNobody},
           \/ /\ curAt[r] \notin {"detach", "attachDetach", "recv", "attachGiveback", "giveback", "store"}
              /\ p \notin {"detach", "attachDetach", "recv", "attachGiveback", "giveback", "store"}
           \/ curAt[r] \in {"detach", "attachDetach"} /\ p \in {"detach", "recv"}
           \/ curAt[r] \in {"attachGiveback", "giveback"} /\ p \in {"giveback", "store"}
           \/ /\ curAt[r] = "recv" /\ p = "attachGiveback"
              /\ curBatch[r] = <<>> => curDriver = "done" /\ curChan = <<>>
    PROVE  CurInv'
<1>0. curAt \in [CurReaders -> CurPlaces]
  BY DEF CurInv, CurTypeOK, CurPlaces
<1>1. /\ curAt' \in [CurReaders -> CurPlaces]
      /\ \A w \in CurReaders : curAt'[w] = IF w = r THEN p ELSE curAt[w]
  BY <1>0 DEF Goto
<1>2. curAlive
  BY DEF CurInv, CurIInv, CurCloses
<1>3. \A w \in CurReaders : CurHolds(w)' <=> CurHolds(w)
  BY <1>1 DEF CurHolds
<1>4. \A w \in CurReaders :
        curAt[w] \in {"recv", "attachGiveback", "giveback", "store"}
            => curAt'[w] \in {"recv", "attachGiveback", "giveback", "store"}
  BY <1>1
<1>5. \A w \in CurReaders :
        curAt'[w] \in {"attachGiveback", "giveback", "store"}
            => \/ curAt[w] \in {"attachGiveback", "giveback", "store"}
               \/ curBatch[w] = <<>> => curDriver = "done" /\ curChan = <<>>
  BY <1>1
<1> QED BY <1>1, <1>2, <1>3, <1>4, <1>5, QuietStep

(* The steps of a thread that only wait, lock, wake and return.            *)
LEMMA QuietSteps ==
    ASSUME CurInv, NEW r \in CurReaders,
           \/ CurCall(r) \/ CurLock(r) \/ CurDetach(r) \/ CurRecvDone(r) \/ CurAttach(r)
           \/ CurNotify(r) \/ CurReturn(r)
    PROVE  CurInv'
<1>0. /\ curAt \in [CurReaders -> CurPlaces]
      /\ curGil \in CurReaders \cup {CurNobody} /\ curMutex \in CurReaders \cup {CurNobody}
  BY DEF CurInv, CurTypeOK, CurPlaces
<1>1. CASE CurCall(r)
  BY <1>0, <1>1, QuietMove DEF CurCall, CurPlaces
<1>2. CASE CurLock(r)
  BY <1>0, <1>2, QuietMove DEF CurLock, CurPlaces
<1>3. CASE CurDetach(r)
  BY <1>0, <1>3, QuietMove DEF CurDetach, CurPlaces
<1>4. CASE CurRecvDone(r)
  BY <1>0, <1>4, QuietMove DEF CurRecvDone, CurPlaces
<1>5. CASE CurAttach(r)
  BY <1>0, <1>5, QuietMove DEF CurAttach, CurPlaces
<1>6. CASE CurNotify(r)
  <2>1. curAlive
    BY <1>6 DEF CurNotify, CurInv, CurIInv, CurCloses
  <2>2. /\ curAt[r] = "notify"
        /\ curAt' = [w \in CurReaders |->
              IF w = r THEN "return" ELSE IF curAt[w] = "waiting" THEN "turn" ELSE curAt[w]]
        /\ UNCHANGED <<curGil, curMutex, curBatch, curMsg, curStream>>
    BY <1>6 DEF CurNotify
  <2>3. /\ curAt' \in [CurReaders -> CurPlaces]
        /\ \A w \in CurReaders :
              \/ curAt'[w] = curAt[w]
              \/ curAt[w] \in {"notify", "waiting"} /\ curAt'[w] \in {"return", "turn"}
    BY <1>0, <2>2 DEF CurPlaces
  <2>4. \A w \in CurReaders : CurHolds(w)' <=> CurHolds(w)
    BY <2>3 DEF CurHolds
  <2>5. \A w \in CurReaders :
          /\ curAt[w] \in {"recv", "attachGiveback", "giveback", "store"}
                => curAt'[w] \in {"recv", "attachGiveback", "giveback", "store"}
          /\ curAt'[w] \in {"attachGiveback", "giveback", "store"}
                => curAt[w] \in {"attachGiveback", "giveback", "store"}
    BY <2>3
  <2> QED BY <1>0, <2>1, <2>2, <2>3, <2>4, <2>5, QuietStep
<1>7. CASE CurReturn(r)
  BY <1>0, <1>7, QuietMove DEF CurReturn, CurPlaces
<1> QED BY <1>1, <1>2, <1>3, <1>4, <1>5, <1>6, <1>7

(* The driver goes on and sends nothing: what was sent keeps its place.    *)
LEMMA DriverMoves ==
    ASSUME CurInv, UNCHANGED <<curReadVars, curChan, curRx, curBuf, curGot, curLost, curAlive>>,
           curDriver # "done",
           curDriver' \in {"rows", "send", "fail", "done"},
           curNext' \in 0 .. CurRows, curConn' \in BOOLEAN,
           CurSent' \in Int, CurSent <= CurSent',
           curDriver' = "send" => curNext' > 0,
           curAlive /\ ~curLost =>
                /\ CurSent' = CurSent
                /\ (curDriver' = "done" => curNext' = CurSent /\ curNext' = CurRows)
    PROVE  CurInv'
<1> USE DEF curReadVars
<1>0. /\ curGot \in Seq(CurMsgs) /\ curBuf \in Seq(CurMsgs) /\ curChan \in Seq(CurMsgs)
      /\ curBatch \in [CurReaders -> Seq(CurMsgs)] /\ CurTypeOK
  BY DEF CurInv, CurTypeOK
<1>1. CurTypeOK'
  BY DEF CurInv, CurTypeOK
<1>2. CurOneHolder'
  BY DEF CurInv, CurIInv, CurOneHolder, CurHolds
<1>3. ASSUME NEW f \in Seq(CurMsgs), CurStreamed(f)
      PROVE  CurStreamed(f)'
  <2>0. Len(curGot) \in Nat /\ Len(f) \in Nat /\ Len(curChan) \in Nat
    BY <1>0, <1>3
  <2>1. CurPlaced(curGot, 0)'
    <3>1. CurPlaced(curGot, 0)
      BY <1>3 DEF CurStreamed, CurNumbered
    <3> QED BY <1>0, <3>1, MorePlaces DEF CurPlaced
  <2>2. CurPlaced(f, Len(curGot))'
    <3>1. CurPlaced(f, Len(curGot))
      BY <1>3 DEF CurStreamed, CurNumbered
    <3>2. \A n \in 1 .. Len(f) :
            f[n] = Row(Len(curGot) + n) /\ Len(curGot) + n <= CurSent'
      BY <1>0, <1>3, <2>0, <3>1, MorePlaces
    <3> QED BY <3>2 DEF CurPlaced
  <2>3. CurPlaced(curChan, Len(curGot) + Len(f))'
    <3>1. CurPlaced(curChan, Len(curGot) + Len(f))
      BY <1>3 DEF CurStreamed, CurNumbered
    <3>2. Len(curGot) + Len(f) \in Nat
      BY <2>0
    <3>3. \A n \in 1 .. Len(curChan) :
            /\ curChan[n] = Row(Len(curGot) + Len(f) + n)
            /\ Len(curGot) + Len(f) + n <= CurSent'
      BY <1>0, <3>1, <3>2, MorePlaces
    <3> QED BY <3>3 DEF CurPlaced
  <2>4. CurNoneMissing(curGot, f, curChan)'
    <3>1. CASE curAlive /\ ~curLost
      <4>1. Len(curGot) + Len(f) + Len(curChan) = CurSent
        BY <1>3, <3>1 DEF CurStreamed, CurNoneMissing
      <4> QED BY <3>1, <4>1 DEF CurNoneMissing
    <3>2. CASE ~(curAlive /\ ~curLost)
      BY <3>2 DEF CurNoneMissing
    <3> QED BY <3>1, <3>2
  <2> QED BY <2>1, <2>2, <2>3, <2>4 DEF CurStreamed, CurNumbered
<1>4. CurAllStreamed'
  BY <1>0, <1>3 DEF CurInv, CurIInv, CurAllStreamed, CurHolds
<1>5. CurCloses'
  BY DEF CurInv, CurIInv, CurCloses
<1> QED BY <1>1, <1>2, <1>4, <1>5 DEF CurInv, CurIInv

(* The driver sends a row or the error: it is the next in the numbering.   *)
LEMMA DriverSent ==
    ASSUME CurInv, DriverSends
    PROVE  CurInv'
<1> DEFINE m == IF curDriver = "send" THEN Row(curNext) ELSE CurErr
<1>0. /\ curGot \in Seq(CurMsgs) /\ curBuf \in Seq(CurMsgs) /\ curChan \in Seq(CurMsgs)
      /\ curBatch \in [CurReaders -> Seq(CurMsgs)] /\ CurTypeOK
      /\ curNext \in 0 .. CurRows
      /\ curDriver = "send" => curNext > 0
  BY DEF CurInv, CurTypeOK, CurIInv, CurAllStreamed
<1>1. /\ curDriver \in {"send", "fail"} /\ curAlive /\ ~curLost /\ curRx # "closed"
      /\ Len(curChan) < CurCapacity
      /\ curChan' = Append(curChan, m)
      /\ curDriver' = (IF curDriver = "send" THEN "rows" ELSE "done")
      /\ UNCHANGED <<curNext, curConn, curReadVars, curRx, curBuf, curGot, curLost, curAlive>>
  BY DEF DriverSends, RxAlive
<1>2. m \in CurMsgs
  BY <1>0, <1>1, MsgKinds, CurAssumption
<1>3. /\ CurSent' = curNext /\ curNext \in Nat /\ CurSent \in Int /\ CurSent <= curNext
      /\ CurSent = (IF curDriver = "send" THEN curNext - 1 ELSE curNext)
  BY <1>0, <1>1, SentType DEF CurSent
<1> HIDE DEF m
<1>4. /\ curChan' \in Seq(CurMsgs) /\ Len(curChan') = Len(curChan) + 1
      /\ Len(curChan') <= CurCapacity
      /\ \A n \in 1 .. Len(curChan) : curChan'[n] = curChan[n]
      /\ curChan'[Len(curChan) + 1] = m
  BY <1>0, <1>1, <1>2, CurAssumption
<1>5. CurTypeOK'
  BY <1>0, <1>1, <1>4 DEF CurTypeOK, curReadVars
<1>6. CurOneHolder'
  BY <1>1 DEF CurInv, CurIInv, CurOneHolder, CurHolds, curReadVars
<1>7. ASSUME NEW f \in Seq(CurMsgs), CurStreamed(f)
      PROVE  CurStreamed(f)'
  <2>0. Len(curGot) \in Nat /\ Len(f) \in Nat /\ Len(curChan) \in Nat
    BY <1>0, <1>7
  <2>1. CurPlaced(curGot, 0)'
    <3>1. CurPlaced(curGot, 0)
      BY <1>7 DEF CurStreamed, CurNumbered
    <3> QED BY <1>0, <1>1, <1>3, <3>1, MorePlaces DEF CurPlaced
  <2>2. CurPlaced(f, Len(curGot))'
    <3>1. CurPlaced(f, Len(curGot))
      BY <1>7 DEF CurStreamed, CurNumbered
    <3>2. \A n \in 1 .. Len(f) :
            f[n] = Row(Len(curGot) + n) /\ Len(curGot) + n <= CurSent'
      BY <1>0, <1>1, <1>3, <1>7, <2>0, <3>1, MorePlaces
    <3> QED BY <1>1, <3>2 DEF CurPlaced
  <2> DEFINE off == Len(curGot) + Len(f)
  <2>3. off \in Nat /\ off + Len(curChan) = CurSent
    BY <1>1, <1>7, <2>0 DEF CurStreamed, CurNoneMissing
  <2>4. \A n \in 1 .. Len(curChan) : curChan[n] = Row(off + n) /\ off + n <= CurSent
    BY <1>1, <1>7 DEF CurStreamed, CurNumbered, CurPlaced
  <2> HIDE DEF off
  <2>5. \A n \in 1 .. Len(curChan) : curChan'[n] = Row(off + n) /\ off + n <= CurSent'
    BY <1>3, <1>4, <2>0, <2>3, <2>4
  <2>6. LET n == Len(curChan) + 1 IN
        \/ curChan'[n] = Row(off + n) /\ off + n <= CurSent'
        \/ curChan'[n] = CurErr /\ curDriver' = "done" /\ off + n = curNext' + 1
    <3>1. CASE curDriver = "send"
      <4>1. off + (Len(curChan) + 1) = curNext
        BY <1>3, <2>0, <2>3, <3>1
      <4> QED BY <1>3, <1>4, <3>1, <4>1 DEF m
    <3>2. CASE curDriver = "fail"
      <4>1. off + (Len(curChan) + 1) = curNext + 1
        BY <1>3, <2>0, <2>3, <3>2
      <4> QED BY <1>1, <1>4, <3>2, <4>1 DEF m
    <3> QED BY <1>1, <3>1, <3>2
  <2>7. CurPlaced(curChan, Len(curGot) + Len(f))'
    <3>1. \A n \in 1 .. Len(curChan') : n \in 1 .. Len(curChan) \/ n = Len(curChan) + 1
      BY <1>4, <2>0
    <3>2. \A n \in 1 .. Len(curChan') :
            \/ curChan'[n] = Row(off + n) /\ off + n <= CurSent'
            \/ curChan'[n] = CurErr /\ curDriver' = "done" /\ off + n = curNext' + 1
      BY <2>5, <2>6, <3>1
    <3> QED BY <1>1, <3>2 DEF CurPlaced, off
  <2>8. CurNoneMissing(curGot, f, curChan)'
    <3>1. Len(curGot) + Len(f) + Len(curChan') = CurSent + 1
      BY <1>4, <2>0, <2>3 DEF off
    <3>2. CASE curDriver = "send"
      BY <1>1, <1>3, <3>1, <3>2 DEF CurNoneMissing
    <3>3. CASE curDriver = "fail"
      BY <1>1, <1>3, <3>1, <3>3 DEF CurNoneMissing
    <3> QED BY <1>1, <3>2, <3>3
  <2> QED BY <2>1, <2>2, <2>7, <2>8 DEF CurStreamed, CurNumbered
<1>8. CurAllStreamed'
  BY <1>0, <1>1, <1>7 DEF CurInv, CurIInv, CurAllStreamed, CurHolds, curReadVars
<1>9. CurCloses'
  <2>1. \A r \in CurReaders :
          ~(curAt[r] \in {"attachGiveback", "giveback", "store"} /\ curBatch[r] = <<>>)
    BY <1>1 DEF CurInv, CurIInv, CurCloses
  <2> QED BY <1>1, <2>1 DEF CurInv, CurIInv, CurCloses, curReadVars
<1> QED BY <1>5, <1>6, <1>8, <1>9 DEF CurInv, CurIInv

(* The driver's steps.                                                     *)
LEMMA DriverSteps ==
    ASSUME CurInv, DriverStarts \/ DriverRow \/ DriverSends \/ DriverStops
    PROVE  CurInv'
<1>0. /\ curNext \in 0 .. CurRows /\ curConn \in BOOLEAN /\ CurRows \in Nat
      /\ curDriver = "send" => curNext > 0
      /\ curAlive \in BOOLEAN /\ curLost \in BOOLEAN
  BY CurAssumption DEF CurInv, CurTypeOK, CurIInv, CurAllStreamed
<1>1. CASE DriverStarts
  <2>1. /\ curDriver = "acquire" /\ curDriver' \in {"rows", "fail"} /\ curConn' \in BOOLEAN
        /\ UNCHANGED <<curNext, curReadVars, curChan, curRx, curBuf, curGot, curLost, curAlive>>
    BY <1>0, <1>1 DEF DriverStarts
  <2>2. CurSent' = curNext /\ CurSent = curNext
    BY <2>1 DEF CurSent
  <2> QED BY <1>0, <2>1, <2>2, DriverMoves
<1>2. CASE DriverRow
  <2>1. /\ curDriver = "rows" /\ curConn' \in BOOLEAN
        /\ UNCHANGED <<curReadVars, curChan, curRx, curBuf, curGot, curLost, curAlive>>
        /\ \/ curNext < CurRows /\ curNext' = curNext + 1 /\ curDriver' = "send"
           \/ curNext' = curNext /\ curDriver' = "fail"
           \/ curNext' = curNext /\ curNext = CurRows /\ curDriver' = "done"
    BY <1>0, <1>2 DEF DriverRow
  <2>2. CurSent' = curNext /\ CurSent = curNext /\ curNext' \in 0 .. CurRows
    BY <1>0, <2>1 DEF CurSent
  <2> QED BY <1>0, <2>1, <2>2, DriverMoves
<1>3. CASE DriverSends
  BY <1>3, DriverSent
<1>4. CASE DriverStops
  <2>1. /\ curDriver \in {"send", "fail"} /\ curDriver' = "done" /\ curConn' = FALSE
        /\ UNCHANGED <<curNext, curReadVars, curChan, curRx, curBuf, curGot, curLost, curAlive>>
    BY <1>4 DEF DriverStops
  <2>2. ~(curAlive /\ ~curLost)
    BY <1>4, <2>1 DEF DriverStops, RxAlive, CurInv, CurIInv, CurCloses
  <2>3. CurSent' \in Int /\ CurSent <= CurSent'
    BY <1>0, <2>1 DEF CurSent
  <2> QED BY <1>0, <2>1, <2>2, <2>3, DriverMoves
<1> QED BY <1>1, <1>2, <1>3, <1>4

(* What a step leaves numbered: the buffer, or a thread's batch.           *)
LEMMA BufferStreamed ==
    ASSUME UNCHANGED <<curDriver, curNext, curAlive, curLost>>,
           CurNumbered(curGot', curBuf', curChan'), CurNoneMissing(curGot', curBuf', curChan')
    PROVE  CurStreamed(curBuf)'
BY DEF CurStreamed, CurNumbered, CurNoneMissing, CurPlaced, CurSent

LEMMA BatchStreamed ==
    ASSUME UNCHANGED <<curDriver, curNext, curAlive, curLost>>, NEW r \in CurReaders,
           CurNumbered(curGot', curBatch'[r], curChan'),
           CurNoneMissing(curGot', curBatch'[r], curChan')
    PROVE  CurStreamed(curBatch[r])'
BY DEF CurStreamed, CurNumbered, CurNoneMissing, CurPlaced, CurSent

(* A thread that looks at the cursor: it leaves with a message, takes the  *)
(* receiver, is told the end, or waits for its turn.                       *)
LEMMA ClaimStep ==
    ASSUME CurInv, NEW r \in CurReaders, curAt[r] \in {"claim", "reclaim"},
           NEW deliver \in {"return", "attachReturn"}, NEW receive \in {"detach", "attachDetach"},
           NEW wait \in {"turn", "waiting"},
           Claim(r, deliver, receive, wait),
           curGil' \in CurReaders \cup {CurNobody}, curMutex' = CurNobody,
           UNCHANGED <<curBatch, curDriverVars, curChan, curLost, curAlive>>
    PROVE  CurInv'
<1> USE DEF curDriverVars
<1>0. /\ curGot \in Seq(CurMsgs) /\ curBuf \in Seq(CurMsgs) /\ curChan \in Seq(CurMsgs)
      /\ curAt \in [CurReaders -> CurPlaces]
      /\ curMsg \in [CurReaders -> CurMsgs \cup {CurEof, CurNone}]
      /\ curLost \in BOOLEAN /\ CurCapacity \in Nat /\ Len(curBuf) < CurCapacity
      /\ CurOneHolder /\ CurAllStreamed /\ CurCloses
  BY CurAssumption DEF CurInv, CurIInv, CurTypeOK, CurPlaces
<1>1. curAlive /\ ~CurHolds(r) /\ curBatch[r] = <<>>
  BY <1>0 DEF CurCloses, CurHolds, CurOneHolder
<1>2. ASSUME NEW p \in CurPlaces, Goto(r, p)
      PROVE  /\ curAt' \in [CurReaders -> CurPlaces] /\ curAt'[r] = p
             /\ \A w \in CurReaders \ {r} : curAt'[w] = curAt[w]
  BY <1>0, <1>2 DEF Goto
<1>3. CASE /\ curBuf # <<>>
           /\ Deliver(r, Head(curBuf)) /\ curBuf' = Tail(curBuf) /\ Goto(r, deliver)
  <2>1. /\ Head(curBuf) \in CurMsgs /\ Tail(curBuf) \in Seq(CurMsgs)
        /\ Len(Tail(curBuf)) < CurCapacity
        /\ Append(curGot, Head(curBuf)) \in Seq(CurMsgs)
    BY <1>0, <1>3
  <2>2. /\ curGot' = Append(curGot, Head(curBuf)) /\ curRx' = curRx
        /\ curMsg' = [curMsg EXCEPT ![r] = Head(curBuf)] /\ Head(curBuf) # CurEof
    BY <1>3, <2>1, MsgKinds DEF Deliver, LeavesWith
  <2>3. curRx = "here" /\ ~curLost
    BY <1>0, <1>3 DEF CurOneHolder, CurCloses, CurInv, CurTypeOK
  <2>4. /\ curAt' \in [CurReaders -> CurPlaces] /\ curAt'[r] = deliver
        /\ \A w \in CurReaders \ {r} : curAt'[w] = curAt[w]
    BY <1>2, <1>3 DEF CurPlaces
  <2>5. \A w \in CurReaders : ~CurHolds(w) /\ ~CurHolds(w)'
    BY <1>0, <1>1, <2>3, <2>4 DEF CurOneHolder, CurHolds
  <2>6. /\ curMsg' \in [CurReaders -> CurMsgs \cup {CurEof, CurNone}]
        /\ \A w \in CurReaders : curMsg'[w] = CurEof => curMsg[w] = CurEof
    BY <1>0, <2>1, <2>2
  <2>7. CurTypeOK'
    BY <1>0, <1>3, <2>1, <2>2, <2>4, <2>6 DEF CurInv, CurTypeOK, CurPlaces
  <2>8. CurOneHolder'
    BY <1>0, <1>1, <2>2, <2>3, <2>4, <2>5 DEF CurOneHolder
  <2>9. CurAllStreamed'
    <3>1. CurNumbered(curGot, curBuf, curChan) /\ CurNoneMissing(curGot, curBuf, curChan)
      BY <1>0, <2>3 DEF CurAllStreamed, CurStreamed
    <3>2. /\ CurNumbered(curGot', curBuf', curChan')
          /\ CurNoneMissing(curGot', curBuf', curChan')
      BY <1>0, <1>3, <2>2, <3>1, Delivers
    <3>3. CurStreamed(curBuf)'
      BY <3>2, BufferStreamed
    <3> QED BY <1>0, <2>5, <3>3 DEF CurAllStreamed
  <2>10. CurCloses'
    BY <1>0, <1>1, <2>2, <2>3, <2>4, <2>5, <2>6 DEF CurCloses, CurHolds
  <2> QED BY <2>7, <2>8, <2>9, <2>10 DEF CurInv, CurIInv
<1>4. CASE /\ curBuf = <<>> /\ curRx = "here"
           /\ curRx' = "out" /\ Goto(r, receive) /\ UNCHANGED <<curBuf, curMsg, curGot>>
  <2>1. /\ curAt' \in [CurReaders -> CurPlaces] /\ curAt'[r] = receive
        /\ \A w \in CurReaders \ {r} : curAt'[w] = curAt[w]
    BY <1>2, <1>4 DEF CurPlaces
  <2>2. \A w \in CurReaders : ~CurHolds(w) /\ (CurHolds(w)' <=> w = r)
    BY <1>0, <1>4, <2>1 DEF CurOneHolder, CurHolds
  <2>3. CurTypeOK'
    BY <1>4, <2>1 DEF CurInv, CurTypeOK, CurPlaces
  <2>4. CurOneHolder'
    BY <1>0, <1>1, <1>4, <2>1, <2>2 DEF CurOneHolder
  <2>5. CurAllStreamed'
    <3>1. CurStreamed(<<>>)
      BY <1>0, <1>4 DEF CurAllStreamed
    <3>2. CurNumbered(curGot', curBatch'[r], curChan')
          /\ CurNoneMissing(curGot', curBatch'[r], curChan')
      BY <1>1, <1>4, <3>1 DEF CurStreamed
    <3>3. CurStreamed(curBatch[r])'
      BY <3>2, BatchStreamed
    <3> QED BY <1>0, <1>4, <2>2, <3>3 DEF CurAllStreamed
  <2>6. CurCloses'
    BY <1>0, <1>1, <1>4, <2>1 DEF CurCloses
  <2> QED BY <2>3, <2>4, <2>5, <2>6 DEF CurInv, CurIInv
<1>5. CASE /\ curBuf = <<>> /\ curRx = "closed"
           /\ Deliver(r, CurEof) /\ Goto(r, deliver) /\ UNCHANGED curBuf
  <2>1. /\ curAt' \in [CurReaders -> CurPlaces] /\ curAt'[r] = deliver
        /\ \A w \in CurReaders \ {r} : curAt'[w] = curAt[w]
    BY <1>2, <1>5 DEF CurPlaces
  <2>2. /\ curGot' = curGot /\ curRx' = curRx
        /\ curMsg' \in [CurReaders -> CurMsgs \cup {CurEof, CurNone}]
    BY <1>0, <1>5, MsgKinds DEF Deliver, LeavesWith
  <2>3. \A w \in CurReaders : ~CurHolds(w) /\ ~CurHolds(w)'
    BY <1>0, <1>1, <1>5, <2>1 DEF CurOneHolder, CurHolds
  <2>4. CurTypeOK'
    BY <1>5, <2>1, <2>2 DEF CurInv, CurTypeOK, CurPlaces
  <2>5. CurOneHolder'
    BY <1>0, <1>1, <1>5, <2>1, <2>2, <2>3 DEF CurOneHolder
  <2>6. CurAllStreamed'
    <3>1. CurStreamed(curBuf)
      BY <1>0, <1>5 DEF CurAllStreamed
    <3>2. CurStreamed(curBuf)'
      BY <1>5, <2>2, <3>1, BufferStreamed DEF CurStreamed
    <3> QED BY <1>0, <2>3, <3>2 DEF CurAllStreamed
  <2>7. CurCloses'
    BY <1>0, <1>1, <1>5, <2>1, <2>2 DEF CurCloses
  <2> QED BY <2>4, <2>5, <2>6, <2>7 DEF CurInv, CurIInv
<1>6. CASE /\ curBuf = <<>> /\ curRx = "out"
           /\ Goto(r, wait) /\ UNCHANGED <<curRx, curBuf, curMsg, curGot>>
  <2>1. wait \in CurPlaces /\ UNCHANGED <<curBatch, curMsg, curStream>>
    BY <1>6 DEF CurPlaces, curStream
  <2> QED BY <1>1, <1>6, <2>1, QuietMove
<1> QED BY <1>3, <1>4, <1>5, <1>6 DEF Claim

(* A message, or the loss of the task, reaches the thread that has the     *)
(* receiver.                                                               *)
LEMMA RecvStep ==
    ASSUME CurInv, NEW r \in CurReaders, CurRecv(r)
    PROVE  CurInv'
<1> USE DEF curDriverVars
<1>0. /\ curGot \in Seq(CurMsgs) /\ curBuf \in Seq(CurMsgs) /\ curChan \in Seq(CurMsgs)
      /\ curBatch \in [CurReaders -> Seq(CurMsgs)] /\ curBatch[r] \in Seq(CurMsgs)
      /\ curLost \in BOOLEAN /\ CurCapacity \in Nat /\ Len(curChan) <= CurCapacity
      /\ CurOneHolder /\ CurAllStreamed /\ CurCloses
  BY CurAssumption DEF CurInv, CurIInv, CurTypeOK
<1>1. /\ curAt[r] = "recv" /\ curChan # <<>> /\ Len(curBatch[r]) < CurCapacity
      /\ curBatch' = [curBatch EXCEPT ![r] = Append(curBatch[r], Head(curChan))]
      /\ curChan' = Tail(curChan)
      /\ UNCHANGED <<curGil, curMutex, curAt, curMsg, curDriver, curNext, curConn, curRx, curBuf,
                     curGot, curLost, curAlive>>
  BY DEF CurRecv
<1>2. /\ Append(curBatch[r], Head(curChan)) \in Seq(CurMsgs)
      /\ Len(Append(curBatch[r], Head(curChan))) <= CurCapacity
      /\ Append(curBatch[r], Head(curChan)) # <<>>
      /\ Tail(curChan) \in Seq(CurMsgs) /\ Len(Tail(curChan)) <= CurCapacity
  <2>1. /\ Append(curBatch[r], Head(curChan)) \in Seq(CurMsgs)
        /\ Len(Append(curBatch[r], Head(curChan))) = Len(curBatch[r]) + 1
    BY <1>0, <1>1
  <2>2. Tail(curChan) \in Seq(CurMsgs) /\ Len(Tail(curChan)) = Len(curChan) - 1
    BY <1>0, <1>1
  <2>3. Len(curBatch[r]) \in Nat /\ Len(curChan) \in Nat
    BY <1>0
  <2>4. Len(<<>>) = 0
    OBVIOUS
  <2>5. Append(curBatch[r], Head(curChan)) # <<>>
    BY <2>1, <2>3, <2>4
  <2> QED BY <1>0, <1>1, <2>1, <2>2, <2>3, <2>5
<1>3. /\ curBatch' \in [CurReaders -> Seq(CurMsgs)]
      /\ curBatch'[r] = Append(curBatch[r], Head(curChan))
      /\ \A w \in CurReaders \ {r} : curBatch'[w] = curBatch[w]
  BY <1>0, <1>1, <1>2
<1>4. CurHolds(r) /\ curRx = "out" /\ ~curLost /\ curAlive
  BY <1>0, <1>1 DEF CurOneHolder, CurHolds, CurCloses
<1>5. \A w \in CurReaders : (CurHolds(w)' <=> w = r) /\ (CurHolds(w) <=> w = r)
  BY <1>0, <1>1, <1>4 DEF CurOneHolder, CurHolds
<1>6. CurTypeOK'
  BY <1>1, <1>2, <1>3 DEF CurInv, CurTypeOK
<1>7. CurOneHolder'
  BY <1>0, <1>1, <1>2, <1>3, <1>4, <1>5 DEF CurOneHolder
<1>8. CurAllStreamed'
  <2>1. CurNumbered(curGot, curBatch[r], curChan) /\ CurNoneMissing(curGot, curBatch[r], curChan)
    BY <1>0, <1>4 DEF CurAllStreamed, CurStreamed
  <2>2. /\ CurNumbered(curGot', curBatch'[r], curChan')
        /\ CurNoneMissing(curGot', curBatch'[r], curChan')
    BY <1>0, <1>1, <1>3, <2>1, Receives
  <2>3. CurStreamed(curBatch[r])'
    BY <1>1, <2>2, BatchStreamed
  <2> QED BY <1>0, <1>1, <1>4, <1>5, <2>3 DEF CurAllStreamed
<1>9. CurCloses'
  <2>1. \A w \in CurReaders :
            ~(curAt'[w] \in {"attachGiveback", "giveback", "store"})
    BY <1>1, <1>5 DEF CurHolds
  <2> QED BY <1>0, <1>1, <1>4, <2>1 DEF CurCloses
<1> QED BY <1>6, <1>7, <1>8, <1>9 DEF CurInv, CurIInv

LEMMA LostStep ==
    ASSUME CurInv, NEW r \in CurReaders, CurRecvLost(r)
    PROVE  CurInv'
<1> USE DEF curDriverVars
<1>0. /\ curAt \in [CurReaders -> CurPlaces] /\ curBatch \in [CurReaders -> Seq(CurMsgs)]
      /\ CurCapacity \in Nat
      /\ CurOneHolder /\ CurAllStreamed /\ CurCloses
  BY CurAssumption DEF CurInv, CurIInv, CurTypeOK, CurPlaces
<1>1. /\ curAt[r] = "recv" /\ curLost' = TRUE /\ curChan' = <<>>
      /\ curBatch' = [curBatch EXCEPT ![r] = <<>>]
      /\ Goto(r, "attachGiveback")
      /\ UNCHANGED <<curGil, curMutex, curMsg, curDriver, curNext, curConn, curRx, curBuf,
                     curGot, curAlive>>
  BY DEF CurRecvLost
<1>2. /\ curAt' \in [CurReaders -> CurPlaces] /\ curAt'[r] = "attachGiveback"
      /\ \A w \in CurReaders \ {r} : curAt'[w] = curAt[w]
  BY <1>0, <1>1 DEF Goto, CurPlaces
<1>3. CurHolds(r) /\ curRx = "out" /\ curAlive /\ curBuf = <<>>
  BY <1>0, <1>1 DEF CurOneHolder, CurHolds, CurCloses
<1>4. \A w \in CurReaders : (CurHolds(w)' <=> w = r) /\ (CurHolds(w) <=> w = r)
  BY <1>0, <1>2, <1>3 DEF CurOneHolder, CurHolds
<1>5. curBatch' \in [CurReaders -> Seq(CurMsgs)] /\ \A w \in CurReaders : curBatch'[w] = <<>>
  BY <1>0, <1>1, <1>4 DEF CurOneHolder, CurHolds
<1>6. CurTypeOK'
  BY <1>0, <1>1, <1>2, <1>5 DEF CurInv, CurTypeOK, CurPlaces
<1>7. CurOneHolder'
  BY <1>0, <1>1, <1>3, <1>4, <1>5 DEF CurOneHolder
<1>8. CurAllStreamed'
  <2>1. CurPlaced(curGot, 0)
    BY <1>0, <1>3 DEF CurAllStreamed, CurStreamed, CurNumbered
  <2>2. CurPlaced(curGot, 0)'
    BY <1>1, <2>1 DEF CurPlaced, CurSent
  <2>3. CurStreamed(curBatch[r])'
    BY <1>1, <1>5, <2>2 DEF CurStreamed, CurNumbered, CurNoneMissing, CurPlaced
  <2> QED BY <1>0, <1>1, <1>3, <1>4, <2>3 DEF CurAllStreamed
<1>9. CurCloses'
  BY <1>0, <1>1, <1>3, <1>5 DEF CurCloses
<1> QED BY <1>6, <1>7, <1>8, <1>9 DEF CurInv, CurIInv

(* The receiver goes back: with a batch, whose first message is delivered, *)
(* with nothing, which ends the stream, or lost.                           *)
LEMMA StoreStep ==
    ASSUME CurInv, NEW r \in CurReaders, CurStore(r)
    PROVE  CurInv'
<1> USE DEF curDriverVars
<1>0. /\ curGot \in Seq(CurMsgs) /\ curBuf \in Seq(CurMsgs) /\ curChan \in Seq(CurMsgs)
      /\ curBatch \in [CurReaders -> Seq(CurMsgs)] /\ curBatch[r] \in Seq(CurMsgs)
      /\ curAt \in [CurReaders -> CurPlaces] /\ curAt[r] = "store"
      /\ curMsg \in [CurReaders -> CurMsgs \cup {CurEof, CurNone}]
      /\ curLost \in BOOLEAN /\ CurCapacity \in Nat \ {0} /\ Len(curBatch[r]) <= CurCapacity
      /\ CurOneHolder /\ CurAllStreamed /\ CurCloses
  BY CurAssumption DEF CurInv, CurIInv, CurTypeOK, CurPlaces, CurStore, CurOneHolder
<1>1. CurHolds(r) /\ curRx = "out" /\ curBuf = <<>> /\ curAlive /\ CurStreamed(curBatch[r])
  BY <1>0 DEF CurHolds, CurOneHolder, CurAllStreamed, CurCloses
<1>2. curBuf \o curBatch[r] = curBatch[r]
  BY <1>0, <1>1
<1>3. /\ curMutex' = CurNobody /\ curBatch' = [curBatch EXCEPT ![r] = <<>>] /\ Goto(r, "notify")
      /\ UNCHANGED <<curGil, curDriver, curNext, curConn, curChan, curLost, curAlive>>
  BY DEF CurStore
<1>4. /\ curAt' \in [CurReaders -> CurPlaces] /\ curAt'[r] = "notify"
      /\ \A w \in CurReaders \ {r} : curAt'[w] = curAt[w]
  BY <1>0, <1>3 DEF Goto, CurPlaces
<1>5. \A w \in CurReaders : (CurHolds(w) <=> w = r) /\ ~CurHolds(w)'
  BY <1>0, <1>1, <1>4 DEF CurOneHolder, CurHolds
<1>6. curBatch' \in [CurReaders -> Seq(CurMsgs)] /\ \A w \in CurReaders : curBatch'[w] = <<>>
  BY <1>0, <1>3, <1>5 DEF CurOneHolder, CurHolds
<1>7. \A w \in CurReaders : curMsg[w] # CurEof
  BY <1>0, <1>1 DEF CurCloses
<1>8. ASSUME NEW m \in CurMsgs \cup {CurEof}, LeavesWith(r, m)
      PROVE  /\ curMsg' \in [CurReaders -> CurMsgs \cup {CurEof, CurNone}]
             /\ \A w \in CurReaders : curMsg'[w] = CurEof => m = CurEof
  BY <1>0, <1>7, <1>8 DEF LeavesWith
<1>9. ASSUME curRx' \in {"here", "closed"}, curBuf' \in Seq(CurMsgs), curGot' \in Seq(CurMsgs),
             Len(curBuf') < CurCapacity,
             curMsg' \in [CurReaders -> CurMsgs \cup {CurEof, CurNone}],
             CurStreamed(curBuf)', curLost => curBuf' = <<>>,
             \A w \in CurReaders : curMsg'[w] = CurEof => curRx' = "closed",
             curRx' = "closed" /\ ~curLost => curDriver = "done" /\ curChan = <<>> /\ curBuf' = <<>>
      PROVE  CurInv'
  <2>1. CurTypeOK'
    BY <1>0, <1>3, <1>4, <1>6, <1>9 DEF CurInv, CurTypeOK, CurPlaces
  <2>2. CurOneHolder'
    BY <1>0, <1>5, <1>6, <1>9 DEF CurOneHolder
  <2>3. CurAllStreamed'
    BY <1>0, <1>3, <1>5, <1>9 DEF CurAllStreamed
  <2>4. CurCloses'
    <3>1. \A w \in CurReaders : curAt'[w] \notin {"attachGiveback", "giveback", "store"}
      BY <1>5 DEF CurHolds
    <3> QED BY <1>0, <1>1, <1>3, <1>6, <1>9, <3>1 DEF CurCloses
  <2> QED BY <2>1, <2>2, <2>3, <2>4 DEF CurInv, CurIInv
<1>10. CASE ~curLost /\ curBatch[r] = <<>>
  <2>1. /\ curRx' = "closed" /\ curBuf' = <<>> /\ LeavesWith(r, CurEof) /\ curGot' = curGot
    BY <1>2, <1>10 DEF CurStore
  <2>2. curDriver = "done" /\ curChan = <<>>
    BY <1>0, <1>10 DEF CurCloses
  <2>3. CurStreamed(curBuf)'
    <3>1. CurNumbered(curGot', curBuf', curChan') /\ CurNoneMissing(curGot', curBuf', curChan')
      BY <1>1, <1>3, <1>10, <2>1 DEF CurStreamed
    <3> QED BY <1>3, <3>1, BufferStreamed
  <2>4. curMsg' \in [CurReaders -> CurMsgs \cup {CurEof, CurNone}]
    BY <1>8, <2>1
  <2>5. Len(curBuf') < CurCapacity /\ curBuf' \in Seq(CurMsgs)
    BY <1>0, <2>1
  <2> QED BY <1>0, <1>9, <2>1, <2>2, <2>3, <2>4, <2>5
<1>11. CASE ~curLost /\ curBatch[r] # <<>>
  <2>1. /\ curRx' = "here" /\ curBuf' = Tail(curBatch[r]) /\ LeavesWith(r, Head(curBatch[r]))
        /\ curGot' = Append(curGot, Head(curBatch[r]))
    BY <1>2, <1>11 DEF CurStore
  <2>2. /\ Head(curBatch[r]) \in CurMsgs /\ Tail(curBatch[r]) \in Seq(CurMsgs)
        /\ Append(curGot, Head(curBatch[r])) \in Seq(CurMsgs)
        /\ Len(Tail(curBatch[r])) < CurCapacity
    BY <1>0, <1>11
  <2>3. CurStreamed(curBuf)'
    <3>1. CurNumbered(curGot, curBatch[r], curChan) /\ CurNoneMissing(curGot, curBatch[r], curChan)
      BY <1>1 DEF CurStreamed
    <3>2. CurNumbered(curGot', curBuf', curChan') /\ CurNoneMissing(curGot', curBuf', curChan')
      BY <1>0, <1>3, <1>11, <2>1, <3>1, Delivers
    <3> QED BY <1>3, <3>2, BufferStreamed
  <2>4. /\ curMsg' \in [CurReaders -> CurMsgs \cup {CurEof, CurNone}]
        /\ \A w \in CurReaders : curMsg'[w] # CurEof
    BY <1>8, <2>1, <2>2, MsgKinds
  <2> QED BY <1>9, <1>11, <2>1, <2>2, <2>3, <2>4
<1>12. CASE curLost
  <2>1. curRx' = "closed" /\ LeavesWith(r, CurErr) /\ curBuf' = <<>> /\ curGot' = curGot
    BY <1>1, <1>12 DEF CurStore
  <2>2. curBatch[r] = <<>>
    BY <1>0, <1>12 DEF CurCloses
  <2>3. CurStreamed(curBuf)'
    <3>1. CurNumbered(curGot', curBuf', curChan') /\ CurNoneMissing(curGot', curBuf', curChan')
      BY <1>1, <1>3, <2>1, <2>2 DEF CurStreamed
    <3> QED BY <1>3, <3>1, BufferStreamed
  <2>4. /\ curMsg' \in [CurReaders -> CurMsgs \cup {CurEof, CurNone}]
        /\ \A w \in CurReaders : curMsg'[w] # CurEof
    BY <1>8, <2>1, MsgKinds
  <2>5. Len(curBuf') < CurCapacity /\ curBuf' \in Seq(CurMsgs)
    BY <1>0, <2>1
  <2> QED BY <1>0, <1>9, <1>12, <2>1, <2>3, <2>4, <2>5
<1> QED BY <1>0, <1>10, <1>11, <1>12

(* The last reference goes, when no thread reads.                          *)
LEMMA DropStep ==
    ASSUME CurInv, CursorDropped
    PROVE  CurInv'
<1> USE DEF curDriverVars, curReadVars
<1>0. CurOneHolder /\ CurAllStreamed /\ CurCloses /\ CurCapacity \in Nat \ {0}
  BY CurAssumption DEF CurInv, CurIInv
<1>1. /\ curAlive' = FALSE /\ curChan' = <<>> /\ curBuf' = <<>>
      /\ \A r \in CurReaders : curAt[r] = "idle" /\ curAt'[r] = "idle"
      /\ UNCHANGED <<curDriver, curNext, curConn, curGil, curMutex, curAt, curBatch, curMsg, curRx,
                     curGot, curLost>>
  BY DEF CursorDropped
<1>2. /\ \A r \in CurReaders : ~CurHolds(r) /\ ~CurHolds(r)'
      /\ curRx # "out" /\ \A r \in CurReaders : curBatch[r] = <<>>
  BY <1>0, <1>1 DEF CurOneHolder, CurHolds
<1>3. CurTypeOK'
  <2>1. <<>> \in Seq(CurMsgs) /\ Len(<<>>) = 0 /\ 0 < CurCapacity
    BY <1>0
  <2>2. curChan' \in Seq(CurMsgs) /\ Len(curChan') <= CurCapacity
        /\ curBuf' \in Seq(CurMsgs) /\ Len(curBuf') < CurCapacity
    BY <1>0, <1>1, <2>1
  <2>3. curAlive' \in BOOLEAN
    BY <1>1
  <2>4. CurTypeOK
    BY DEF CurInv
  <2> QED BY <1>1, <2>2, <2>3, <2>4 DEF CurTypeOK
<1>4. CurOneHolder'
  BY <1>0, <1>1, <1>2 DEF CurOneHolder
<1>5. CurAllStreamed'
  <2>1. CurPlaced(curGot, 0)
    BY <1>0, <1>2 DEF CurAllStreamed, CurStreamed, CurNumbered
  <2>2. CurPlaced(curGot, 0)'
    BY <1>1, <2>1 DEF CurPlaced, CurSent
  <2>3. CurStreamed(curBuf)'
    BY <1>1, <2>2 DEF CurStreamed, CurNumbered, CurNoneMissing, CurPlaced
  <2> QED BY <1>0, <1>1, <1>2, <2>3 DEF CurAllStreamed
<1>6. CurCloses'
  BY <1>0, <1>1, <1>2 DEF CurCloses
<1> QED BY <1>3, <1>4, <1>5, <1>6 DEF CurInv, CurIInv

(* The invariant holds at the start and is kept by every step.             *)
LEMMA CurStart == CurInit => CurInv
<1> SUFFICES ASSUME CurInit PROVE CurInv
  OBVIOUS
<1>1. CurTypeOK
  <2>1. /\ <<>> \in Seq(CurMsgs) /\ Len(<<>>) = 0 /\ 0 < CurCapacity /\ 0 <= CurCapacity
        /\ 0 \in 0 .. CurRows
    BY CurAssumption
  <2> QED BY <2>1 DEF CurInit, CurTypeOK
<1>2. \A r \in CurReaders : ~CurHolds(r)
  BY DEF CurInit, CurHolds
<1>3. CurOneHolder
  BY <1>2, CurAssumption DEF CurInit, CurOneHolder
<1>4. CurAllStreamed
  BY <1>2 DEF CurInit, CurAllStreamed, CurStreamed, CurNumbered, CurNoneMissing, CurPlaced, CurSent
<1>5. CurCloses
  BY DEF CurInit, CurCloses, CurEof, CurNone
<1> QED BY <1>1, <1>3, <1>4, <1>5 DEF CurInv, CurIInv

LEMMA CurStepKeeps == CurInv /\ [CurNext]_curVars => CurInv'
<1> SUFFICES ASSUME CurInv, [CurNext]_curVars PROVE CurInv'
  OBVIOUS
<1>1. CASE UNCHANGED curVars
  BY <1>1 DEF CurInv, CurTypeOK, CurIInv, CurOneHolder, CurHolds, CurAllStreamed, CurStreamed,
              CurNumbered, CurNoneMissing, CurPlaced, CurSent, CurCloses, curVars, curReadVars,
              curStream, curDriverVars
<1>2. ASSUME NEW r \in CurReaders, CurClaim(r) \/ CurReclaim(r)
      PROVE  CurInv'
  <2>0. curGil \in CurReaders \cup {CurNobody}
    BY DEF CurInv, CurTypeOK
  <2>1. CASE CurClaim(r)
    <3>1. curGil' \in CurReaders \cup {CurNobody}
      BY <2>0, <2>1 DEF CurClaim
    <3>2. /\ curAt[r] \in {"claim", "reclaim"} /\ Claim(r, "return", "detach", "turn")
          /\ curMutex' = CurNobody
          /\ UNCHANGED <<curBatch, curDriverVars, curChan, curLost, curAlive>>
      BY <2>1 DEF CurClaim
    <3> QED BY <3>1, <3>2, ClaimStep
  <2>2. CASE CurReclaim(r)
    <3>1. curGil' \in CurReaders \cup {CurNobody}
      BY <2>0, <2>2 DEF CurReclaim
    <3>2. /\ curAt[r] \in {"claim", "reclaim"}
          /\ Claim(r, "attachReturn", "attachDetach", "waiting")
          /\ curMutex' = CurNobody
          /\ UNCHANGED <<curBatch, curDriverVars, curChan, curLost, curAlive>>
      BY <2>2 DEF CurReclaim
    <3> QED BY <3>1, <3>2, ClaimStep
  <2> QED BY <1>2, <2>1, <2>2
<1> QED BY <1>1, <1>2, QuietSteps, DriverSteps, RecvStep, LostStep, StoreStep, DropStep
        DEF CurNext

(* For every number of rows, every capacity and every number of threads:   *)
(* the memory contract holds, the rows come out in the server's order,     *)
(* none twice and none skipped, the error last, and StopIteration means    *)
(* the whole result was delivered (db.rs, fetch_iter and PgCursor).        *)
THEOREM CursorCorrect == CurSpec => []CurSafe
<1>1. CurInv => CurSafe
  <2> SUFFICES ASSUME CurInv PROVE CurSafe
    OBVIOUS
  <2>0. /\ CurTypeOK /\ CurOneHolder /\ CurAllStreamed /\ CurCloses
        /\ curGot \in Seq(CurMsgs) /\ curNext \in Nat /\ Len(curGot) \in Nat
    BY SentType DEF CurInv, CurIInv, CurTypeOK
  <2>1. CurPlaced(curGot, 0)
    <3>1. CASE curRx = "out"
      BY <2>0, <3>1 DEF CurOneHolder, CurAllStreamed, CurStreamed, CurNumbered
    <3>2. CASE curRx # "out"
      BY <2>0, <3>2 DEF CurAllStreamed, CurStreamed, CurNumbered
    <3> QED BY <3>1, <3>2
  <2>2. \A n \in 1 .. Len(curGot) :
            \/ curGot[n] = Row(n) /\ n <= CurSent
            \/ curGot[n] = CurErr /\ n = curNext + 1
    BY <2>0, <2>1 DEF CurPlaced
  <2>3. CurInOrder
    <3> SUFFICES ASSUME NEW n \in 1 .. Len(curGot), curGot[n] = CurErr, n = curNext + 1
                 PROVE  n = Len(curGot)
      BY <2>2 DEF CurInOrder
    <3>1. CASE n < Len(curGot)
      <4>1. Len(curGot) \in 1 .. Len(curGot)
        BY <2>0, <3>1
      <4>2. Len(curGot) <= CurSent \/ Len(curGot) = curNext + 1
        BY <2>2, <4>1
      <4> QED BY <2>0, <3>1, <4>2, SentType
    <3> QED BY <2>0, <3>1
  <2>4. CurStopTruthful
    <3> SUFFICES ASSUME NEW r \in CurReaders, curMsg[r] = CurEof, ~curLost,
                        curAt[r] \in {"return", "attachReturn", "notify"}
                 PROVE  /\ curDriver = "done"
                        /\ \/ Len(curGot) = CurRows
                           \/ curGot # <<>> /\ curGot[Len(curGot)] = CurErr
      BY DEF CurStopTruthful
    <3>1. /\ curRx = "closed" /\ curDriver = "done" /\ curChan = <<>> /\ curBuf = <<>> /\ curAlive
      BY <2>0 DEF CurCloses
    <3>2. Len(curGot) = curNext + 1 \/ Len(curGot) = CurRows
      <4>1. CurNoneMissing(curGot, <<>>, <<>>)
        BY <2>0, <3>1 DEF CurAllStreamed, CurStreamed
      <4>2. Len(curGot) + Len(<<>>) + Len(<<>>) = Len(curGot)
        BY <2>0
      <4> QED BY <3>1, <4>1, <4>2 DEF CurNoneMissing
    <3>3. CASE Len(curGot) = curNext + 1
      <4>1. Len(curGot) \in 1 .. Len(curGot) /\ CurSent = curNext
        BY <2>0, <3>1, <3>3 DEF CurSent
      <4>2. curGot[Len(curGot)] = CurErr
        BY <2>0, <2>2, <3>3, <4>1
      <4>3. curGot # <<>>
        BY <2>0, <3>3
      <4> QED BY <3>1, <4>2, <4>3
    <3> QED BY <3>1, <3>2, <3>3
  <2> QED BY <2>0, <2>3, <2>4 DEF CurSafe
<1> QED BY <1>1, CurStart, CurStepKeeps, PTL DEF CurSpec
=============================================================================
