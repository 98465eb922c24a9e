----------------------------- MODULE LateRegister -----------------------------
(* What the credential directory promises whatever happens, cancelled saves   *)
(* and failing directory syncs included: less than DurableRegister, because a *)
(* change may take effect long after its caller has gone away, on top of      *)
(* newer ones.  Still, whoever opens the directory finds one whole bundle;    *)
(* that bundle was asked for by somebody who had the directory open, and      *)
(* differs in one field from what they had read; and success is reported of   *)
(* a change only after it was in the directory and could not be lost.         *)
(*                                                                            *)
(* Changes are known by their bundles: of two changes to the same bundle that *)
(* are under way it does not matter which one is meant.                       *)

CONSTANTS Clients, Tokens, None

VARIABLES
    value,      \* the bundle a reader finds now
    survivors,  \* the bundles a power loss may leave
    views,      \* what the one who has the directory open has read or saved
    pending,    \* changes that were asked for and may still take effect
    landed,     \* changes that took effect and may still be lost
    settled     \* changes that took effect and were made durable

changes == <<pending, landed, settled>>

EmptyValue == [oauth |-> None, token |-> None]

Init ==
    /\ value = EmptyValue
    /\ survivors = {EmptyValue}
    /\ views = {}
    /\ pending = {}
    /\ landed = {}
    /\ settled = {}

\* One at a time opens the directory, and reads it.
Open ==
    /\ views = {}
    /\ views' = {value}
    /\ UNCHANGED <<value, survivors, changes>>

\* Changes may be given up, fail or die with their process, at any time.
Forget ==
    /\ pending' \subseteq pending
    /\ landed' \subseteq landed
    /\ settled' \subseteq settled

Close ==
    /\ views' \in {views, {}}
    /\ Forget
    /\ UNCHANGED <<value, survivors>>

Begin ==
    /\ \E v \in views :
        \/ \E t \in Tokens \cup {None} : pending' = pending \cup {[v EXCEPT !.token = t]}
        \/ \E c \in Clients : pending' = pending \cup {[v EXCEPT !.oauth = c]}
    /\ UNCHANGED <<value, survivors, views, landed, settled>>

Land(b) ==
    /\ b \in pending
    /\ value' = b
    /\ survivors' = survivors \cup {b}
    /\ pending' \in {pending, pending \ {b}}
    /\ landed' = landed \cup {b}
    /\ UNCHANGED <<views, settled>>

\* The directory is synced, on behalf of one change.
Settle(b) ==
    /\ b \in landed
    /\ survivors' = {value}
    /\ landed' \in {landed, landed \ {b}}
    /\ settled' = settled \cup {b}
    /\ UNCHANGED <<value, views, pending>>

\* The caller learns of success, and goes on from the new bundle.
Acknowledge(b) ==
    /\ b \in settled
    /\ views # {}
    /\ views' = {b}
    /\ settled' \in {settled, settled \ {b}}
    /\ UNCHANGED <<value, survivors, pending, landed>>

\* The host stops: nobody has the directory open, no change is under way.
Crash ==
    /\ value' \in survivors
    /\ survivors' = {value'}
    /\ views' = {}
    /\ pending' = {}
    /\ landed' = {}
    /\ settled' = {}

Next ==
    \/ Open
    \/ Close
    \/ Begin
    \/ \E b \in pending : Land(b)
    \/ \E b \in landed : Settle(b)
    \/ \E b \in settled : Acknowledge(b)
    \/ Crash

Spec == Init /\ [][Next]_<<value, survivors, views, changes>>
=============================================================================
