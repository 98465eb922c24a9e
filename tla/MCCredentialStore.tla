-------------------------- MODULE MCCredentialStore --------------------------
(* CredentialStore on small instances.                                        *)
EXTENDS CredentialStore, TLC

\* Processes and write-thread slots are interchangeable, tokens too.
Interchangeable == Permutations(Procs) \cup Permutations(Jobs) \cup Permutations(Tokens)
=============================================================================
