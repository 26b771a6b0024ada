--------------------------- MODULE MCMainDispatch ---------------------------
(* Two requests on the bridge (one streams its body), one inline, two on   *)
(* the blocking pool (one streams), for two bridge threads behind a queue  *)
(* of one slot and one pool thread: a refusal for a full queue, two        *)
(* handlers at once, and a request that waits for a thread all happen.     *)
EXTENDS MainDispatch
CONSTANTS b1, b2, i1, g1, g2, t1, t2, p1
=============================================================================
