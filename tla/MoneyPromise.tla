----------------------------- MODULE MoneyPromise -----------------------------
(* What the pot tools promise of each intended transfer, however its calls,   *)
(* posts and answers get lost or repeated: PotTransfer implements it.         *)
EXTENDS Naturals

CONSTANTS
    Transfers  \* intended transfers

VARIABLES
    approved,  \* approved[t]: the human has approved t
    moved,     \* moved[t]: how often the money of t was moved
    confirmed  \* the transfers reported as done

vars == <<approved, moved, confirmed>>

-----------------------------------------------------------------------------
Init ==
    /\ approved = [t \in Transfers |-> FALSE]
    /\ moved = [t \in Transfers |-> 0]
    /\ confirmed = {}

Approve(t) ==
    /\ approved' = [approved EXCEPT ![t] = TRUE]
    /\ UNCHANGED <<moved, confirmed>>

Move(t) ==
    /\ approved[t] /\ moved[t] = 0
    /\ moved' = [moved EXCEPT ![t] = 1]
    /\ UNCHANGED <<approved, confirmed>>

Confirm(t) ==
    /\ moved[t] = 1
    /\ confirmed' = confirmed \cup {t}
    /\ UNCHANGED <<approved, moved>>

Next == \E t \in Transfers : Approve(t) \/ Move(t) \/ Confirm(t)

Spec == Init /\ [][Next]_vars
=============================================================================
