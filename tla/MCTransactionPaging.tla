------------------------- MODULE MCTransactionPaging -------------------------
(* TransactionPaging for TLC.                                                 *)
EXTENDS TransactionPaging
=============================================================================
