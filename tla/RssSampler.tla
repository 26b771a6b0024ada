----------------------------- MODULE RssSampler -----------------------------
(***************************************************************************)
(* The RSS sampler thread (src/monitor.rs), shared by every server that    *)
(* serves with PYRONOVA_METRICS=1: the first RssSampling::start spawns it, *)
(* the drop of the last one stops and joins it under SAMPLER's lock.       *)
(***************************************************************************)
EXTENDS Naturals, FiniteSets

CONSTANTS RmServers,  \* server runs of the process that hold an RssSampling
          RmSpawns    \* bound: sampler threads spawned in one behaviour

ASSUME RmAssumption == RmSpawns \in Nat \ {0} /\ IsFiniteSet(RmServers)

VARIABLES rmServer,  \* each server run: not serving, serving, dropping
          rmUsers,   \* Sampler::users
          rmHandle,  \* the thread whose sender Sampler::thread holds; 0: None
          rmLock,    \* SAMPLER is held through a join
          rmThread,  \* what each spawned thread is at
          rmRss      \* MEMORY_RSS_BYTES holds a sample
rmVars == <<rmServer, rmUsers, rmHandle, rmLock, rmThread, rmRss>>

RmIds == 1..RmSpawns

RmInit ==
    /\ rmServer = [s \in RmServers |-> "off"]
    /\ rmUsers = 0
    /\ rmHandle = 0
    /\ rmLock = FALSE
    /\ rmThread = [g \in RmIds |-> "unborn"]
    /\ rmRss = FALSE

RmUnborn == {g \in RmIds : rmThread[g] = "unborn"}

(* RssSampling::start: the first user spawns the thread; a spawn that      *)
(* fails is logged and the server serves without it.                       *)
RmStart(s) ==
    /\ rmServer[s] = "off"
    /\ ~rmLock
    /\ rmServer' = [rmServer EXCEPT ![s] = "on"]
    /\ rmUsers' = rmUsers + 1
    /\ \/ /\ rmUsers = 0
          /\ \E g \in RmUnborn :
                /\ \A h \in RmUnborn : g <= h
                /\ rmThread' = [rmThread EXCEPT ![g] = "sampling"]
                /\ rmHandle' = g
       \/ UNCHANGED <<rmThread, rmHandle>>
    /\ UNCHANGED <<rmLock, rmRss>>

(* Mutant: the last drop takes the thread out and joins it unlocked.       *)
DropUnlocked(s) ==
    /\ rmServer[s] = "on"
    /\ ~rmLock
    /\ rmUsers' = rmUsers - 1
    /\ rmServer' = [rmServer EXCEPT ![s] = IF rmUsers > 1 THEN "off" ELSE "joining"]
    /\ rmHandle' = IF rmUsers > 1 THEN rmHandle ELSE 0
    /\ UNCHANGED <<rmLock, rmThread, rmRss>>

(* Mutant: a drop with users left returns before it counts.                *)
DropUncounted(s) ==
    /\ rmServer[s] = "on"
    /\ ~rmLock
    /\ rmServer' = [rmServer EXCEPT ![s] = IF rmUsers > 1 THEN "off" ELSE "joining"]
    /\ rmUsers' = IF rmUsers > 1 THEN rmUsers ELSE 0
    /\ rmHandle' = IF rmUsers > 1 THEN rmHandle ELSE 0
    /\ rmLock' = (rmUsers <= 1)
    /\ UNCHANGED <<rmThread, rmRss>>

(* Drop of RssSampling: with users left it returns; the last one takes the *)
(* handle and drops the sender, and keeps the lock until the join is over. *)
RmDrop(s) ==
    /\ rmServer[s] = "on"
    /\ ~rmLock
    /\ rmUsers' = rmUsers - 1
    /\ IF rmUsers > 1
       THEN /\ rmServer' = [rmServer EXCEPT ![s] = "off"]
            /\ UNCHANGED <<rmHandle, rmLock>>
       ELSE /\ rmServer' = [rmServer EXCEPT ![s] = "joining"]
            /\ rmHandle' = 0
            /\ rmLock' = TRUE
    /\ UNCHANGED <<rmThread, rmRss>>

(* The thread is joined (if one was spawned), then rss_bytes is None.      *)
RmJoined(s) ==
    /\ rmServer[s] = "joining"
    /\ \A g \in RmIds : g # rmHandle => rmThread[g] \in {"unborn", "ended"}
    /\ rmServer' = [rmServer EXCEPT ![s] = "off"]
    /\ rmLock' = FALSE
    /\ rmRss' = FALSE
    /\ UNCHANGED <<rmUsers, rmHandle, rmThread>>

(* sample_rss_until_stopped: one read, good or failed, is published.       *)
RmSample(g) ==
    /\ rmThread[g] = "sampling"
    /\ rmThread' = [rmThread EXCEPT ![g] = "waiting"]
    /\ rmRss' \in BOOLEAN
    /\ UNCHANGED <<rmServer, rmUsers, rmHandle, rmLock>>

(* Mutant: the thread does not see its sender dropped.                     *)
WakesDeaf(g) ==
    /\ rmThread[g] = "waiting"
    /\ rmThread' = [rmThread EXCEPT ![g] = "sampling"]
    /\ UNCHANGED <<rmServer, rmUsers, rmHandle, rmLock, rmRss>>

(* recv_timeout: the interval passed, or the sender is gone.               *)
RmWakes(g) ==
    /\ rmThread[g] = "waiting"
    /\ rmThread' = [rmThread EXCEPT ![g] = IF g = rmHandle THEN "sampling" ELSE "ended"]
    /\ UNCHANGED <<rmServer, rmUsers, rmHandle, rmLock, rmRss>>

RmNext ==
    \/ \E s \in RmServers : RmStart(s) \/ RmDrop(s) \/ RmJoined(s)
    \/ \E g \in RmIds : RmSample(g) \/ RmWakes(g)

RmFairness ==
    /\ \A s \in RmServers : WF_rmVars(RmJoined(s))
    /\ \A g \in RmIds : WF_rmVars(RmSample(g)) /\ WF_rmVars(RmWakes(g))

RmSpec == RmInit /\ [][RmNext]_rmVars /\ RmFairness

-----------------------------------------------------------------------------
RmTypeOK ==
    /\ rmServer \in [RmServers -> {"off", "on", "joining"}]
    /\ rmUsers = Cardinality({s \in RmServers : rmServer[s] = "on"})
    /\ rmHandle \in RmIds \cup {0}
    /\ rmLock \in BOOLEAN
    /\ rmThread \in [RmIds -> {"unborn", "sampling", "waiting", "ended"}]
    /\ rmRss \in BOOLEAN

(* Once the last server that samples has dropped its RssSampling, no       *)
(* sampler thread is left in the process and rss_bytes is None, not a      *)
(* stale value; while some serve, at most one thread writes it             *)
(* (monitor.rs, RssSampling and its Drop).                                 *)
RmNothingLeft ==
    /\ (\A s \in RmServers : rmServer[s] = "off") =>
          /\ ~rmRss
          /\ \A g \in RmIds : rmThread[g] \in {"unborn", "ended"}
    /\ \A g, h \in RmIds :
          {rmThread[g], rmThread[h]} \subseteq {"sampling", "waiting"} => g = h

(* The safety part: the count is exact, and no thread or value is stale.   *)
RmSafe == RmTypeOK /\ RmNothingLeft

(* The inductive invariant: the lock is held exactly through the one join, *)
(* which only the last user comes to; the thread that runs is the one the  *)
(* handle stands for, but for the join, and with no user and no join there *)
(* is none and no sample.                                                  *)
RmLive == {g \in RmIds : rmThread[g] \in {"sampling", "waiting"}}

RmIInv ==
    /\ RmTypeOK
    /\ rmLock <=> \E s \in RmServers : rmServer[s] = "joining"
    /\ \A s, t \in RmServers : rmServer[s] = "joining" /\ rmServer[t] = "joining" => s = t
    /\ rmLock => rmUsers = 0
    /\ rmUsers = 0 => rmHandle = 0
    /\ rmUsers = 0 /\ ~rmLock => RmLive = {} /\ ~rmRss
    /\ rmUsers # 0 => \A g \in RmLive : g = rmHandle
    /\ \A g, h \in RmLive : g = h

(* The drop of the last RssSampling returns: its join cannot wait for a    *)
(* thread that waits for the lock or for the next interval for ever.       *)
RmDropReturns ==
    \A s \in RmServers : rmServer[s] = "joining" ~> rmServer[s] # "joining"

(* The sampler's thread lives exactly as long as some server samples, and  *)
(* stopping it ends.                                                       *)
RmCorrect == [](RmTypeOK /\ RmNothingLeft) /\ RmDropReturns
=============================================================================
