---------------------------- MODULE MCWorkerPool ----------------------------
(* Instances of WorkerPool for TLC.  Requests of one kind are              *)
(* interchangeable, so the safety run uses symmetry.                       *)
EXTENDS WorkerPool, TLC

CONSTANTS s1, s2, s3, a1, a2, idle

SyncReqs  == {s1, s2, s3}
MixedReqs == {s1, a1, a2}
OneEach   == {s1, a1}

AllSync  == [r \in SyncReqs |-> "sync"]
Mixed    == [r \in MixedReqs |-> IF r = s1 THEN "sync" ELSE "async"]
EachKind == [r \in OneEach |-> IF r = s1 THEN "sync" ELSE "async"]

SymAsync == Permutations({a1, a2})
=============================================================================
