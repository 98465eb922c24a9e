---------------------------- MODULE MCBrokerAccess ----------------------------
(* BrokerAccess for TLC.                                                      *)
EXTENDS BrokerAccess
=============================================================================
