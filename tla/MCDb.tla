-------------------------------- MODULE MCDb --------------------------------
(* The two halves of src/db.rs, one at a time: which one moves is chosen   *)
(* at the start.  Two connect calls of every pair of requests (defaults,   *)
(* the same DSN with another size, another DSN), one of them in a worker;  *)
(* and a cursor of two rows with a channel of two that three threads       *)
(* iterate.                                                                *)
EXTENDS PgPool, PgCursor

VARIABLE half

MCRequests == {[dsn |-> "a", max |-> PgUnset, timeout |-> PgUnset],
               [dsn |-> "a", max |-> 2, timeout |-> PgUnset],
               [dsn |-> "b", max |-> 1, timeout |-> 5]}

Init ==
    /\ PgInit /\ CurInit
    /\ half \in {"pool", "cursor"}
    /\ half = "cursor" => \A c, d \in PgCallers : pgReq[c] = pgReq[d] /\ pgReq[c].dsn = "b"

Next ==
    \/ half = "pool" /\ PgNext /\ UNCHANGED <<half, curVars>>
    \/ half = "cursor" /\ CurNext /\ UNCHANGED <<half, pgVars>>

vars == <<half, pgVars, curVars>>
(* Nothing of the other half is enabled in its initial state, but the      *)
(* cursor's driver.                                                        *)
Spec ==
    /\ Init /\ [][Next]_vars
    /\ PgFairness
    /\ WF_curVars(half = "cursor" /\ CurDrive)
    /\ \A r \in CurReaders : WF_curVars(CurStep(r))
=============================================================================
