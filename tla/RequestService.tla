--------------------------- MODULE RequestService ---------------------------
(***************************************************************************)
(* What the pool promises the HTTP layer about one request, whatever       *)
(* happens to queues, workers, engines, timers and the stop:               *)
(*   - a request is answered at most once, and its outcome never changes;  *)
(*   - its handler is started at most once, and only while the caller      *)
(*     still waits (no work is started for a caller that got its 504);     *)
(*   - a caller given a result had its handler started;                    *)
(*   - a caller refused with a 503 or a 4xx never had it started, so the   *)
(*     refusal is safe to retry.                                           *)
(***************************************************************************)
EXTENDS Naturals

CONSTANT Requests

VARIABLES
    status,    \* "new", "open", or how the request ended
    started    \* how often its handler was started

Refusals == {"overloaded", "closed", "rejected"}
Endings  == {"result", "lost", "timeout", "gone"}

Init ==
    /\ status = [r \in Requests |-> "new"]
    /\ started = [r \in Requests |-> 0]

Open(r) ==
    /\ status[r] = "new"
    /\ status' = [status EXCEPT ![r] = "open"]
    /\ UNCHANGED started

Start(r) ==
    /\ status[r] = "open"
    /\ started[r] = 0
    /\ started' = [started EXCEPT ![r] = 1]
    /\ UNCHANGED status

Refuse(r) ==
    /\ status[r] \in {"new", "open"}
    /\ started[r] = 0
    /\ \E o \in Refusals : status' = [status EXCEPT ![r] = o]
    /\ UNCHANGED started

Finish(r) ==
    /\ status[r] = "open"
    /\ \E o \in Endings :
        /\ o = "result" => started[r] = 1
        /\ status' = [status EXCEPT ![r] = o]
    /\ UNCHANGED started

Next == \E r \in Requests : Open(r) \/ Start(r) \/ Refuse(r) \/ Finish(r)

Spec == Init /\ [][Next]_<<status, started>>
=============================================================================
