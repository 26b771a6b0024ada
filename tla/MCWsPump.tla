------------------------------ MODULE MCWsPump ------------------------------
(* Instances of WsPump for TLC.                                            *)
EXTENDS WsPump
=============================================================================
