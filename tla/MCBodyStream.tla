---------------------------- MODULE MCBodyStream ----------------------------
(* Instances of BodyStream for TLC: four frames, one of them empty and the *)
(* last one byte too many for max_body_size = 2; and a single frame.       *)
EXTENDS BodyStream

(* Frames of 1, 0, 1 and 1 bytes.                                          *)
FourFrames == [n \in 0 .. 4 |-> <<0, 1, 1, 2, 3>>[n + 1]]
OneFrame == [n \in 0 .. 1 |-> n]
=============================================================================
