---------------------------- MODULE MCPotTransfer ----------------------------
(* PotTransfer for TLC.                                                       *)
EXTENDS PotTransfer
=============================================================================
