--------------------------- MODULE MCAuthCommands ---------------------------
(* AuthCommands on small instances.                                           *)
EXTENDS AuthCommands, TLC
=============================================================================
