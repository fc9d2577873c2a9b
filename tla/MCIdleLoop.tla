---------------------------- MODULE MCIdleLoop ----------------------------
(* Instances of IdleLoop for TLC.                                           *)
EXTENDS IdleLoop
=============================================================================
