---------------------------- MODULE MCRequestGate ----------------------------
(* RequestGate for TLC.                                                       *)
EXTENDS RequestGate
=============================================================================
