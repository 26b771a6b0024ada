------------------------------- MODULE PgPool -------------------------------
(***************************************************************************)
(* The process's Postgres pool (src/db.rs): connect calls that race to     *)
(* install it, and statements that share its connections: blocking ones,   *)
(* cursors (PgCursor has their detail) and awaitables, whose result        *)
(* travels from the pyronova-db runtime through a blocking thread to the   *)
(* asyncio loop that waits for it, which may have cancelled it or closed.  *)
(***************************************************************************)
EXTENDS Naturals, FiniteSets

CONSTANTS
    PgCallers,   \* calls of the program: each connects, then runs a statement
    PgRequests,  \* what connect() calls ask for: [dsn, max, timeout]
    PgUnset,     \* a setting left out; also: no pool yet
    PgDefaultMax, PgDefaultTimeout,
    PgMain       \* the callers on the main interpreter

ASSUME PgAssumption ==
    /\ PgMain \subseteq PgCallers
    /\ PgUnset \notin PgCallers
    /\ PgDefaultMax \in Nat
    /\ \A q \in PgRequests : q.max = PgUnset \/ q.max \in Nat

VARIABLES
    pgPool,      \* PG_POOL: PgUnset, or [by, settings]
    pgOpen,      \* the callers whose sqlx pool is open
    pgAt,        \* where each caller is
    pgReq,       \* what it asked connect() for
    pgKind,      \* its statement: "sync", "async", "iter"
    pgQuery,     \* the statement's task: "none", "acquire", "run", "ended"
    pgConns,     \* connections checked out
    pgFut,       \* the asyncio future: "none", "pending", "value", "error", "cancelled"
    pgDelivery,  \* the result's way to it: "none", "ready", "attach", "posted", "over"
    pgCallback,  \* AbortOnCancel is scheduled on the loop
    pgLoop,      \* the asyncio loop: "running", "closed", or "finalized" with Python
    pgFailed     \* the statements that failed

pgConnectVars == <<pgPool, pgOpen, pgReq>>
pgAsyncVars == <<pgFut, pgDelivery, pgCallback>>
pgQueryVars == <<pgKind, pgQuery, pgConns, pgFailed>>
pgVars == <<pgConnectVars, pgAsyncVars, pgQueryVars, pgAt, pgLoop>>

PgInit ==
    /\ pgPool = PgUnset /\ pgOpen = {}
    /\ pgAt = [c \in PgCallers |-> "start"]
    /\ pgReq \in [PgCallers -> PgRequests]
    /\ pgKind = [c \in PgCallers |-> "sync"]
    /\ pgQuery = [c \in PgCallers |-> "none"]
    /\ pgConns = 0 /\ pgFailed = {}
    /\ pgFut = [c \in PgCallers |-> "none"]
    /\ pgDelivery = [c \in PgCallers |-> "none"]
    /\ pgCallback = {}
    /\ pgLoop = "running"

-----------------------------------------------------------------------------
(* PgPool.connect.                                                         *)

Settings(q) ==
    [dsn |-> q.dsn,
     max |-> IF q.max = PgUnset THEN PgDefaultMax ELSE q.max,
     timeout |-> IF q.timeout = PgUnset THEN PgDefaultTimeout ELSE q.timeout]

ASSUME PgSetAssumption ==
    \A c \in PgCallers, q \in PgRequests : [by |-> c, settings |-> Settings(q)] # PgUnset

(* PoolRequest::differences: the settings named that the pool lacks.       *)
Differences(q, existing) ==
    {f \in {"dsn", "max", "timeout"} : q[f] # PgUnset /\ q[f] # existing[f]}

(* reuse: only if nothing it names differs.                                *)
Reuse(c, existing) ==
    pgAt' = [pgAt EXCEPT ![c] = IF Differences(pgReq[c], existing) = {} THEN "ready" ELSE "refused"]

(* PG_POOL.get.                                                            *)
ConnectLooks(c) ==
    /\ pgAt[c] = "start"
    /\ IF pgPool = PgUnset THEN pgAt' = [pgAt EXCEPT ![c] = "opening"]
                           ELSE Reuse(c, pgPool.settings)
    /\ UNCHANGED <<pgConnectVars, pgAsyncVars, pgQueryVars, pgLoop>>

(* options.connect on the DB runtime, the GIL released: other calls run.   *)
ConnectOpens(c) ==
    /\ pgAt[c] = "opening"
    /\ \/ /\ pgAt' = [pgAt EXCEPT ![c] = "install"]
          /\ pgOpen' = pgOpen \cup {c}
       \/ /\ pgAt' = [pgAt EXCEPT ![c] = "failed"]
          /\ UNCHANGED pgOpen
    /\ UNCHANGED <<pgPool, pgReq, pgAsyncVars, pgQueryVars, pgLoop>>

Installs(c) ==
    /\ pgPool = PgUnset
    /\ pgPool' = [by |-> c, settings |-> Settings(pgReq[c])]
    /\ pgAt' = [pgAt EXCEPT ![c] = "ready"]

(* Mutant: the loser of the race takes the winner's pool unchecked.        *)
LoserUnchecked(c) ==
    /\ pgAt[c] = "install"
    /\ \/ Installs(c)
       \/ pgPool # PgUnset /\ pgAt' = [pgAt EXCEPT ![c] = "ready"] /\ UNCHANGED pgPool
    /\ UNCHANGED <<pgOpen, pgReq, pgAsyncVars, pgQueryVars, pgLoop>>

(* PG_POOL.set: the loser is checked against the winner.                   *)
ConnectSets(c) ==
    /\ pgAt[c] = "install"
    /\ \/ Installs(c)
       \/ pgPool # PgUnset /\ Reuse(c, pgPool.settings) /\ UNCHANGED pgPool
    /\ UNCHANGED <<pgOpen, pgReq, pgAsyncVars, pgQueryVars, pgLoop>>

(* Mutant: the loser's pool is kept.                                       *)
KeepsLostPool(c) == FALSE /\ UNCHANGED pgVars

(* lost.pool.close, on the runtime.                                        *)
LostPoolCloses(c) ==
    /\ c \in pgOpen /\ pgPool # PgUnset /\ pgPool.by # c /\ pgAt[c] # "install"
    /\ pgOpen' = pgOpen \ {c}
    /\ UNCHANGED <<pgPool, pgReq, pgAt, pgAsyncVars, pgQueryVars, pgLoop>>

-----------------------------------------------------------------------------
(* A statement.                                                            *)

StartQuery(c, kind) ==
    /\ pgKind' = [pgKind EXCEPT ![c] = kind]
    /\ pgQuery' = [pgQuery EXCEPT ![c] = "acquire"]
    /\ UNCHANGED <<pgConns, pgFailed>>

(* run_blocking: the caller waits, the GIL released.                       *)
CallSync(c) ==
    /\ pgAt[c] = "ready"
    /\ StartQuery(c, "sync")
    /\ pgAt' = [pgAt EXCEPT ![c] = "waiting"]
    /\ UNCHANGED <<pgConnectVars, pgAsyncVars, pgLoop>>

(* fetch_iter: the driver runs, the caller has its cursor.                 *)
CallIter(c) ==
    /\ pgAt[c] = "ready"
    /\ StartQuery(c, "iter")
    /\ pgAt' = [pgAt EXCEPT ![c] = "returned"]
    /\ UNCHANGED <<pgConnectVars, pgAsyncVars, pgLoop>>

(* run_awaitable: refused in a worker (NotImplementedError), else a future *)
(* on the running loop, and the query.                                     *)
CallAsync(c) ==
    /\ pgAt[c] = "ready" /\ pgLoop = "running"
    /\ pgAt' = [pgAt EXCEPT ![c] = "returned"]
    /\ IF c \in PgMain
       THEN StartQuery(c, "async") /\ pgFut' = [pgFut EXCEPT ![c] = "pending"]
       ELSE UNCHANGED <<pgQueryVars, pgFut>>
    /\ UNCHANGED <<pgConnectVars, pgDelivery, pgCallback, pgLoop>>

(* Mutant: one connection too many.                                        *)
AcquireOneTooMany(c) ==
    /\ pgQuery[c] = "acquire" /\ pgConns <= pgPool.settings.max
    /\ pgConns' = pgConns + 1
    /\ pgQuery' = [pgQuery EXCEPT ![c] = "run"]
    /\ UNCHANGED <<pgKind, pgFailed, pgConnectVars, pgAsyncVars, pgAt, pgLoop>>

(* run: a connection, or an error when acquire_timeout passes first.       *)
Acquire(c) ==
    /\ pgQuery[c] = "acquire" /\ pgConns < pgPool.settings.max
    /\ pgConns' = pgConns + 1
    /\ pgQuery' = [pgQuery EXCEPT ![c] = "run"]
    /\ UNCHANGED <<pgKind, pgFailed, pgConnectVars, pgAsyncVars, pgAt, pgLoop>>

(* The task is over: what waits for it goes on.  A sync caller gets the    *)
(* result through its channel, an awaited one is delivered to its loop, an *)
(* aborted or panicked one too, as an error.                               *)
QueryOver(c, ok) ==
    /\ pgQuery' = [pgQuery EXCEPT ![c] = "ended"]
    /\ pgConns' = IF pgQuery[c] = "run" THEN pgConns - 1 ELSE pgConns
    /\ pgFailed' = IF ok THEN pgFailed ELSE pgFailed \cup {c}
    /\ pgAt' = IF pgKind[c] = "sync" THEN [pgAt EXCEPT ![c] = "returned"] ELSE pgAt
    /\ pgDelivery' = IF pgKind[c] = "async" THEN [pgDelivery EXCEPT ![c] = "ready"] ELSE pgDelivery

(* Mutant: a connection is waited for without a limit.                     *)
AcquireUnlimited(c) == FALSE /\ UNCHANGED pgVars

AcquireTimeout(c) ==
    /\ pgQuery[c] = "acquire"
    /\ QueryOver(c, FALSE)
    /\ UNCHANGED <<pgKind, pgConnectVars, pgFut, pgCallback, pgLoop>>

(* The server answered: a result, an error (bind's refusals too).          *)
QueryEnds(c) ==
    /\ pgQuery[c] = "run"
    /\ \E ok \in BOOLEAN : QueryOver(c, ok)
    /\ UNCHANGED <<pgKind, pgConnectVars, pgFut, pgCallback, pgLoop>>

(* Mutant: a task that panicked is not delivered.                          *)
PanicUndelivered(c) ==
    /\ pgQuery[c] = "run"
    /\ pgQuery' = [pgQuery EXCEPT ![c] = "ended"]
    /\ pgConns' = pgConns - 1
    /\ pgFailed' = pgFailed \cup {c}
    /\ pgAt' = IF pgKind[c] = "sync" THEN [pgAt EXCEPT ![c] = "returned"] ELSE pgAt
    /\ UNCHANGED <<pgKind, pgConnectVars, pgAsyncVars, pgLoop>>

(* TaskError::Panicked.                                                    *)
QueryPanics(c) ==
    /\ pgQuery[c] = "run"
    /\ QueryOver(c, FALSE)
    /\ UNCHANGED <<pgKind, pgConnectVars, pgFut, pgCallback, pgLoop>>

-----------------------------------------------------------------------------
(* await_on_loop and Delivery.                                             *)

(* complete_with, on a blocking thread: a finalizing Python is left alone. *)
DeliveryChecks(c) ==
    /\ pgDelivery[c] = "ready"
    /\ pgDelivery' = [pgDelivery EXCEPT ![c] = IF pgLoop = "finalized" THEN "over" ELSE "attach"]
    /\ UNCHANGED <<pgConnectVars, pgQueryVars, pgFut, pgCallback, pgAt, pgLoop>>

(* Attached: call_soon_threadsafe, which a closed loop refuses.            *)
DeliveryPosts(c) ==
    /\ pgDelivery[c] = "attach" /\ pgLoop # "finalized"
    /\ pgDelivery' = [pgDelivery EXCEPT ![c] = IF pgLoop = "running" THEN "posted" ELSE "over"]
    /\ UNCHANGED <<pgConnectVars, pgQueryVars, pgFut, pgCallback, pgAt, pgLoop>>

Outcome(c) == IF c \in pgFailed THEN "error" ELSE "value"

(* Mutant: the future is set without asking whether it is done.            *)
ResolveUnchecked(c) ==
    /\ pgDelivery[c] = "posted" /\ pgLoop = "running"
    /\ pgDelivery' = [pgDelivery EXCEPT ![c] = "over"]
    /\ pgFut' = [pgFut EXCEPT ![c] = Outcome(c)]
    /\ pgCallback' = pgCallback \cup {c}
    /\ UNCHANGED <<pgConnectVars, pgQueryVars, pgAt, pgLoop>>

(* resolve, on the loop: a future that is done is left alone; setting one  *)
(* schedules its done callbacks.                                           *)
Resolve(c) ==
    /\ pgDelivery[c] = "posted" /\ pgLoop = "running"
    /\ pgDelivery' = [pgDelivery EXCEPT ![c] = "over"]
    /\ IF pgFut[c] = "pending"
       THEN pgFut' = [pgFut EXCEPT ![c] = Outcome(c)] /\ pgCallback' = pgCallback \cup {c}
       ELSE UNCHANGED <<pgFut, pgCallback>>
    /\ UNCHANGED <<pgConnectVars, pgQueryVars, pgAt, pgLoop>>

(* The task that awaits the future is cancelled.                           *)
CancelFuture(c) ==
    /\ pgFut[c] = "pending" /\ pgLoop = "running"
    /\ pgFut' = [pgFut EXCEPT ![c] = "cancelled"]
    /\ pgCallback' = pgCallback \cup {c}
    /\ UNCHANGED <<pgConnectVars, pgQueryVars, pgDelivery, pgAt, pgLoop>>

(* Mutant: the done callback never aborts.                                 *)
NeverAborts(c) ==
    /\ c \in pgCallback /\ pgLoop = "running"
    /\ pgCallback' = pgCallback \ {c}
    /\ UNCHANGED <<pgConnectVars, pgQueryVars, pgFut, pgDelivery, pgAt, pgLoop>>

(* AbortOnCancel, on the loop: the query of a cancelled future is aborted, *)
(* if it has not ended; its connection goes back.                          *)
DoneCallback(c) ==
    /\ c \in pgCallback /\ pgLoop = "running"
    /\ pgCallback' = pgCallback \ {c}
    /\ IF pgFut[c] = "cancelled" /\ pgQuery[c] # "ended" THEN QueryOver(c, FALSE)
       ELSE UNCHANGED <<pgQuery, pgConns, pgFailed, pgAt, pgDelivery>>
    /\ UNCHANGED <<pgKind, pgConnectVars, pgFut, pgLoop>>

(* The loop closes with what is scheduled on it; later Python finalizes.   *)
LoopCloses ==
    /\ pgLoop = "running"
    /\ pgLoop' = "closed"
    /\ UNCHANGED <<pgConnectVars, pgAsyncVars, pgQueryVars, pgAt>>

Finalizes ==
    /\ pgLoop = "closed"
    /\ pgLoop' = "finalized"
    /\ UNCHANGED <<pgConnectVars, pgAsyncVars, pgQueryVars, pgAt>>

-----------------------------------------------------------------------------
PgNext ==
    \/ LoopCloses \/ Finalizes
    \/ \E c \in PgCallers :
        \/ ConnectLooks(c) \/ ConnectOpens(c) \/ ConnectSets(c) \/ LostPoolCloses(c)
        \/ CallSync(c) \/ CallIter(c) \/ CallAsync(c)
        \/ Acquire(c) \/ AcquireTimeout(c) \/ QueryEnds(c) \/ QueryPanics(c)
        \/ DeliveryChecks(c) \/ DeliveryPosts(c) \/ Resolve(c) \/ CancelFuture(c) \/ DoneCallback(c)

(* A thread goes on, the runtime polls its tasks and timers, the server    *)
(* answers statements (a cursor's goes on for as long as its consumer      *)
(* likes), a running loop runs its callbacks.                              *)
PgFairness ==
    \A c \in PgCallers :
        /\ WF_pgVars(ConnectSets(c) \/ LostPoolCloses(c))
        /\ WF_pgVars(AcquireTimeout(c))
        /\ WF_pgVars(pgKind[c] # "iter" /\ (QueryEnds(c) \/ QueryPanics(c)))
        /\ WF_pgVars(DeliveryChecks(c) \/ DeliveryPosts(c) \/ Resolve(c))
        /\ WF_pgVars(DoneCallback(c))

PgSpec == PgInit /\ [][PgNext]_pgVars
PgFairSpec == PgSpec /\ PgFairness

-----------------------------------------------------------------------------
(* Every variable has its values, and no more connections are out than     *)
(* max_connections.                                                        *)
PgTypeOK ==
    /\ pgOpen \subseteq PgCallers
    /\ pgAt \in [PgCallers -> {"start", "opening", "install", "ready", "refused", "failed",
                               "waiting", "returned"}]
    /\ pgReq \in [PgCallers -> PgRequests]
    /\ pgKind \in [PgCallers -> {"sync", "async", "iter"}]
    /\ pgQuery \in [PgCallers -> {"none", "acquire", "run", "ended"}]
    /\ pgConns = Cardinality({c \in PgCallers : pgQuery[c] = "run"})
    /\ IF pgPool = PgUnset THEN pgConns = 0
       ELSE pgPool.by \in PgCallers /\ pgConns <= pgPool.settings.max
    /\ pgFut \in [PgCallers -> {"none", "pending", "value", "error", "cancelled"}]
    /\ pgDelivery \in [PgCallers -> {"none", "ready", "attach", "posted", "over"}]
    /\ pgCallback \subseteq PgMain /\ pgFailed \subseteq PgCallers
    /\ pgLoop \in {"running", "closed", "finalized"}

(* "A later connect() reuses it when every setting it names matches":      *)
(* whatever the order of racing first calls, a call that succeeded works   *)
(* with a pool that has every setting it named.                            *)
PgHonoured ==
    \A c \in PgCallers : pgAt[c] \in {"ready", "waiting", "returned"} =>
        \A f \in {"dsn", "max", "timeout"} :
            pgReq[c][f] # PgUnset => pgReq[c][f] = pgPool.settings[f]

(* "One process, one pool": the pools that lost the race are closed.       *)
PgOnePool ==
    \A c \in PgCallers :
        pgPool # PgUnset /\ pgPool.by # c /\ c \in pgOpen ~> c \notin pgOpen

(* "a cancelled caller is left alone": a future that is done stays as it   *)
(* is, in whatever order the result, the cancellation and the close come.  *)
PgFutureSettled ==
    [][\A c \in PgCallers :
        pgFut[c] \in {"value", "error", "cancelled"} => pgFut'[c] = pgFut[c]]_pgVars

(* "Every path completes the future or finds it done": unless its loop     *)
(* closes first.                                                           *)
PgAwaitReturns ==
    \A c \in PgCallers : pgFut[c] = "pending" ~> (pgFut[c] # "pending" \/ pgLoop # "running")

(* A blocking call returns even when cursors nobody reads hold every       *)
(* connection: acquire_timeout ends its wait.                              *)
PgSyncReturns == \A c \in PgCallers : pgAt[c] = "waiting" ~> pgAt[c] = "returned"

(* "Cancelling the asyncio future aborts the query task": a cancelled      *)
(* query keeps its task and its connection only until the loop runs the    *)
(* callback; only a loop that closes first leaves it to the server.        *)
PgCancelFrees ==
    \A c \in PgCallers :
        pgFut[c] = "cancelled" => pgQuery[c] = "ended" \/ c \in pgCallback \/ pgLoop # "running"

(* What makes PgSafe inductive: the pool has the settings of the call that *)
(* installed it, and a caller has a pool before it has a statement, and a  *)
(* statement before it has a future.                                       *)
PgOrder ==
    /\ pgPool # PgUnset =>
          \E c \in PgCallers, q \in PgRequests : pgPool = [by |-> c, settings |-> Settings(q)]
    /\ \A c \in PgCallers :
          /\ pgAt[c] \in {"ready", "refused", "waiting", "returned"} => pgPool # PgUnset
          /\ pgQuery[c] # "none" => pgAt[c] \in {"waiting", "returned"}
          /\ pgFut[c] # "none" => pgAt[c] = "returned" /\ pgQuery[c] # "none" /\ c \in PgMain
    /\ IsFiniteSet({c \in PgCallers : pgQuery[c] = "run"})

(* A pool call gets the settings it named, and a cancelled query frees its *)
(* connection (src/db.rs, connect and the done callback).                  *)
PgSafe == PgTypeOK /\ PgHonoured /\ PgCancelFrees

(* How calls end: one answer each, never replaced, for blocking and        *)
(* awaited calls, and only one pool stays open.                            *)
PgDelivers == PgFutureSettled /\ PgOnePool /\ PgAwaitReturns /\ PgSyncReturns
=============================================================================
