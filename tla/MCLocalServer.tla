---------------------------- MODULE MCLocalServer ----------------------------
(* LocalServer for TLC; the configurations give the constants.                *)
EXTENDS LocalServer
=============================================================================
