--------------------------- MODULE DurableRegister ---------------------------
(* What the credential directory promises to the auth commands and to the     *)
(* server: one register of two fields.  A change replaces one field of the    *)
(* current value; until it is acknowledged a power loss may undo it, from     *)
(* then on nothing does.                                                      *)

CONSTANTS Clients, Tokens, None

VARIABLES
    value,      \* the bundle a reader finds now
    survivors,  \* the bundles a power loss may leave
    acked       \* the last acknowledged bundle, None once a change is begun

EmptyValue == [oauth |-> None, token |-> None]

Init ==
    /\ value = EmptyValue
    /\ survivors = {EmptyValue}
    /\ acked = None

\* A caller asks for a change.
Begin ==
    /\ acked' = None
    /\ UNCHANGED <<value, survivors>>

\* The change takes effect.
Change ==
    /\ acked = None
    /\ \/ \E t \in Tokens \cup {None} : value' = [value EXCEPT !.token = t]
       \/ \E c \in Clients : value' = [value EXCEPT !.oauth = c]
    /\ survivors' = survivors \cup {value'}
    /\ UNCHANGED acked

Settle ==
    /\ survivors' = {value}
    /\ UNCHANGED <<value, acked>>

\* The caller learns of success only when the change can no longer be lost.
Acknowledge ==
    /\ survivors = {value}
    /\ acked' = value
    /\ UNCHANGED <<value, survivors>>

Crash ==
    /\ value' \in survivors
    /\ survivors' = {value'}
    /\ UNCHANGED acked

Next == Begin \/ Change \/ Settle \/ Acknowledge \/ Crash

Spec == Init /\ [][Next]_<<value, survivors, acked>>
=============================================================================
