---------------------------- MODULE MCServerStart ----------------------------
(* ServerStart for TLC.                                                       *)
EXTENDS ServerStart
=============================================================================
