-------------------------- MODULE AuthCommandsProofs --------------------------
(* What login and logout guarantee for every number of OAuth clients and of   *)
(* connections to the listener.  MCAuthCommands checks the same formulas on   *)
(* two clients and three connections.                                         *)
EXTENDS AuthCommands, FiniteSetTheorems, TLAPS

BeginsLogin == \E supplied \in Clients \cup {None} : BeginLogin(supplied)
Receives(c) == \/ \E callback \in Callbacks : ReceiveCallback(c, callback)
               \/ ReceiveDenial(c)
Returns == SecretTyped \/ BrowserReturns
Rejects(c) == ReceiveGarbage(c) \/ ReadTimesOut(c)

LEMMA NextCases ==
    ASSUME [Next]_vars
    PROVE  \/ BeginsLogin \/ Returns \/ SecretRefused
           \/ BeginLogout \/ Interrupt \/ Login \/ Logout
           \/ (\E c \in Conns : Connect(c) \/ Receives(c) \/ Rejects(c))
           \/ UNCHANGED vars
BY DEF Next, User, Browser, BeginsLogin, Returns, Receives, Rejects

-----------------------------------------------------------------------------
(* Type correctness.  A token carries this login's OAuth client, so the types *)
(* are inductive only together with CommandInOrder.                           *)

LEMMA TypeInit == Init => TypeOK
<1> SUFFICES ASSUME Init PROVE TypeOK
  OBVIOUS
<1>1. bundle \in Fields /\ before \in Fields
  BY DEF Init, Fields
<1>2. conn \in [Conns -> {"none", "reading"} \cup Statuses]
  BY DEF Init
<1>3. issued \in 0..MaxTokens
  BY MaxTokensAssumption DEF Init
<1> QED BY <1>1, <1>2, <1>3 DEF Init, TypeOK

LEMMA EndTypes ==
    ASSUME TypeOK, NEW r \in {"saved", "failed", "interrupted", "cleared", "unconfirmed"},
           End(r), bundle' \in Fields, before' \in Fields, UNCHANGED issued
    PROVE  TypeOK'
BY DEF End, TypeOK

LEMMA FieldTypes ==
    ASSUME TypeOK, CommandInOrder
    PROVE  /\ [bundle EXCEPT !.oauth = want] \in Fields
           /\ pc = "issued" => [bundle EXCEPT !.token = NewToken] \in Fields
           /\ ClearedBundle \in Fields
<1>1. pc = "issued" => NewToken \in Tokens
  BY MaxTokensAssumption DEF TypeOK, CommandInOrder, LoginSteps, NewToken, Tokens
<1> QED BY <1>1 DEF TypeOK, Fields, ClearedBundle

LEMMA CutShortTypes ==
    ASSUME TypeOK, CommandInOrder, SaveCutShort
    PROVE  bundle' \in Fields
BY FieldTypes DEF SaveCutShort, TypeOK

LEMMA TypeLogin == ASSUME TypeOK, CommandInOrder, Login PROVE TypeOK'
<1> USE DEF listenerVars
<1>1. CASE SaveOAuth
  BY <1>1, FieldTypes DEF SaveOAuth, TypeOK, LoginSteps
<1>2. CASE StartListener
  BY <1>2 DEF StartListener, TypeOK, LoginSteps, Unbounded
<1>3. CASE CodeExchanged
  <2>1. issued' \in 0..MaxTokens
    BY <1>3, MaxTokensAssumption DEF CodeExchanged, TypeOK
  <2> QED BY <1>3, <2>1 DEF CodeExchanged, TypeOK, LoginSteps
<1>4. CASE CallbackSeen \/ WaitTimesOut
  BY <1>4 DEF CallbackSeen, WaitTimesOut, LeaveListener, TypeOK, LoginSteps
<1>5. CASE ListenerClosed
  <2>1. CASE outcome \in Callbacks
    BY <1>5, <2>1 DEF ListenerClosed, TypeOK, LoginSteps
  <2>2. CASE outcome \notin Callbacks
    <3>1. End("failed") /\ bundle' \in Fields /\ before' \in Fields /\ UNCHANGED issued
      BY <1>5, <2>2 DEF ListenerClosed, TypeOK
    <3> QED BY <3>1, EndTypes
  <2> QED BY <2>1, <2>2
<1>6. CASE TokenSaved
  <2>1. End("saved") /\ bundle' \in Fields /\ before' \in Fields /\ UNCHANGED issued
    BY <1>6, FieldTypes DEF TokenSaved, TypeOK
  <2> QED BY <2>1, EndTypes
<1>7. CASE LoginFails
  <2>1. End("failed") /\ bundle' \in Fields /\ before' \in Fields /\ UNCHANGED issued
    BY <1>7, CutShortTypes DEF LoginFails, TypeOK
  <2> QED BY <2>1, EndTypes
<1> QED BY <1>1, <1>2, <1>3, <1>4, <1>5, <1>6, <1>7 DEF Login

LEMMA TypeLogout == ASSUME TypeOK, CommandInOrder, Logout PROVE TypeOK'
<1> USE DEF listenerVars
<1>1. CASE RemoteRefuses \/ RemoteUnknown
  BY <1>1 DEF RemoteRefuses, RemoteUnknown, TypeOK, LogoutSteps
<1>2. CASE RemoteLogout \/ ClearLocally \/ ClearFails
  <2>1. /\ \E r \in {"failed", "cleared", "unconfirmed"} : End(r)
        /\ bundle' \in Fields /\ before' \in Fields /\ UNCHANGED issued
    BY <1>2, FieldTypes, CutShortTypes DEF RemoteLogout, ClearLocally, ClearFails, TypeOK
  <2> QED BY <2>1, EndTypes
<1> QED BY <1>1, <1>2 DEF Logout

LEMMA TypeNext == ASSUME TypeOK, CommandInOrder, [Next]_vars PROVE TypeOK'
<1>1. CASE BeginsLogin
  BY <1>1 DEF BeginsLogin, BeginLogin, listenerVars, TypeOK, Fields, LoginSteps, Unbounded
<1>2. CASE BeginLogout
  BY <1>2 DEF BeginLogout, listenerVars, TypeOK, LogoutSteps
<1>3. CASE Interrupt
  <2>1. End("interrupted") /\ bundle' \in Fields /\ before' \in Fields /\ UNCHANGED issued
    BY <1>3, CutShortTypes DEF Interrupt, TypeOK
  <2> QED BY <2>1, EndTypes
<1>4. ASSUME NEW c \in Conns, Connect(c) \/ Receives(c) \/ Rejects(c) PROVE TypeOK'
  <2>1. /\ \E v \in {"reading"} \cup Statuses : conn' = [conn EXCEPT ![c] = v]
        /\ result' \in {result, "denied"} \cup Callbacks
        /\ UNCHANGED <<bundle, issued, pc, want, before, accepting, outcome, report>>
    BY <1>4 DEF Connect, Receives, Rejects, ReceiveCallback, ReceiveDenial, ReceiveGarbage,
                ReadTimesOut, Answer, Statuses
  <2> QED BY <2>1 DEF TypeOK
<1>5. CASE UNCHANGED vars
  BY <1>5 DEF vars, listenerVars, TypeOK
<1>6. CASE Returns
  BY <1>6 DEF Returns, SecretTyped, BrowserReturns, listenerVars, TypeOK, LoginSteps
<1>7. CASE SecretRefused
  <2>1. End("failed") /\ bundle' \in Fields /\ before' \in Fields /\ UNCHANGED issued
    BY <1>7 DEF SecretRefused, TypeOK
  <2> QED BY <2>1, EndTypes
<1> QED BY <1>1, <1>2, <1>3, <1>4, <1>5, <1>6, <1>7, NextCases, TypeLogin, TypeLogout

-----------------------------------------------------------------------------
(* What a command has changed.                                                *)

LEMMA CommandInit == Init => CommandInOrder
BY DEF Init, CommandInOrder, LoginSteps, LogoutSteps, Unbounded

LEMMA CommandEnded ==
    ASSUME pc' = "idle"
    PROVE  CommandInOrder'
BY DEF CommandInOrder, LoginSteps, LogoutSteps, Unbounded

LEMMA CommandNext ==
    ASSUME TypeOK, CommandInOrder, [Next]_vars
    PROVE  CommandInOrder'
<1> USE DEF CommandInOrder, LoginSteps, LogoutSteps, Unbounded, listenerVars
<1>1. CASE BeginsLogin
  BY <1>1 DEF BeginsLogin, BeginLogin
<1>2. CASE BeginLogout
  BY <1>2 DEF BeginLogout
<1>3. CASE Interrupt
  BY <1>3, CommandEnded DEF Interrupt, End
<1>4. CASE Login
  <2>1. CASE SaveOAuth
    BY <2>1 DEF SaveOAuth, TypeOK, Fields
  <2>2. CASE StartListener
    BY <2>2 DEF StartListener
  <2>3. CASE CallbackSeen \/ WaitTimesOut
    BY <2>3 DEF CallbackSeen, WaitTimesOut, LeaveListener
  <2>4. CASE ListenerClosed
    BY <2>4, CommandEnded DEF ListenerClosed, End
  <2>5. CASE CodeExchanged
    BY <2>5 DEF CodeExchanged, StateAccepted, TypeOK
  <2>6. CASE TokenSaved \/ LoginFails
    BY <2>6, CommandEnded DEF TokenSaved, LoginFails, End
  <2> QED BY <1>4, <2>1, <2>2, <2>3, <2>4, <2>5, <2>6 DEF Login
<1>5. CASE Logout
  <2>1. CASE RemoteRefuses \/ RemoteUnknown
    BY <2>1 DEF RemoteRefuses, RemoteUnknown
  <2>2. CASE RemoteLogout \/ ClearLocally \/ ClearFails
    BY <2>2, CommandEnded DEF RemoteLogout, ClearLocally, ClearFails, End
  <2> QED BY <1>5, <2>1, <2>2 DEF Logout
<1>6. CASE UNCHANGED <<bundle, issued, pc, want, before, outcome>>
  BY <1>6
<1>7. CASE Returns
  BY <1>7 DEF Returns, SecretTyped, BrowserReturns
<1>8. CASE SecretRefused
  BY <1>8, CommandEnded DEF SecretRefused, End
<1> QED BY <1>1, <1>2, <1>3, <1>4, <1>5, <1>6, <1>7, <1>8, NextCases
        DEF Connect, Receives, Rejects, ReceiveCallback, ReceiveDenial, ReceiveGarbage,
            ReadTimesOut, Answer, vars

-----------------------------------------------------------------------------
(* The listener.                                                              *)

LEMMA ListenerInit == Init => ListenerInOrder
BY DEF Init, ListenerInOrder, Accepted, Callbacks

LEMMA ListenerEnded ==
    ASSUME NEW r, End(r)
    PROVE  ListenerInOrder'
BY DEF End, ListenerInOrder, Accepted, Callbacks

\* The command's own steps do not touch the connections.
LEMMA ListenerCommand ==
    ASSUME TypeOK, ListenerInOrder,
           BeginsLogin \/ Returns \/ SecretRefused \/ BeginLogout \/ Login \/ Logout
    PROVE  ListenerInOrder'
<1> USE DEF ListenerInOrder, Accepted, Callbacks, listenerVars
<1>1. CASE BeginsLogin \/ BeginLogout
  BY <1>1 DEF BeginsLogin, BeginLogin, BeginLogout
<1>2. CASE SaveOAuth
  BY <1>2 DEF SaveOAuth
<1>3. CASE StartListener
  BY <1>3 DEF StartListener
<1>4. CASE CallbackSeen
  BY <1>4 DEF CallbackSeen, LeaveListener
<1>5. CASE WaitTimesOut
  BY <1>5 DEF WaitTimesOut, LeaveListener
<1>6. CASE ListenerClosed
  <2>1. CASE outcome \in Callbacks
    BY <1>6, <2>1 DEF ListenerClosed
  <2>2. CASE outcome \notin Callbacks
    BY <1>6, <2>2, ListenerEnded DEF ListenerClosed
  <2> QED BY <2>1, <2>2
<1>7. CASE CodeExchanged
  BY <1>7 DEF CodeExchanged
<1>8. CASE TokenSaved \/ LoginFails
  BY <1>8, ListenerEnded DEF TokenSaved, LoginFails
<1>9. CASE RemoteRefuses \/ RemoteUnknown
  BY <1>9 DEF RemoteRefuses, RemoteUnknown
<1>10. CASE RemoteLogout \/ ClearLocally \/ ClearFails
  BY <1>10, ListenerEnded DEF RemoteLogout, ClearLocally, ClearFails
<1>11. CASE Returns
  BY <1>11 DEF Returns, SecretTyped, BrowserReturns
<1>12. CASE SecretRefused
  BY <1>12, ListenerEnded DEF SecretRefused
<1> QED BY <1>1, <1>2, <1>3, <1>4, <1>5, <1>6, <1>7, <1>8, <1>9, <1>10,
           <1>11, <1>12 DEF Login, Logout

\* A connection that is answered anything but 200 leaves the accepted ones.
LEMMA ListenerRejects ==
    ASSUME TypeOK, ListenerInOrder, NEW c \in Conns, NEW v \in {"reading", "400", "409"},
           conn[c] # "200", conn' = [conn EXCEPT ![c] = v],
           result' = result \/ (result = "pending" /\ result' = "denied"),
           pc = "idle" => result' = result,
           UNCHANGED <<pc, outcome>>
    PROVE  ListenerInOrder'
<1>1. Accepted' = Accepted
  BY DEF Accepted, TypeOK
<1> QED BY <1>1 DEF ListenerInOrder, Callbacks

\* The first callback: no connection has been accepted before.
LEMMA ListenerAccepts ==
    ASSUME TypeOK, ListenerInOrder, NEW c \in Conns, NEW callback \in Callbacks,
           First, Answer(c, "200"), result' = callback
    PROVE  ListenerInOrder'
<1>1. Accepted = {} /\ result = "pending" /\ outcome \notin Callbacks
  BY DEF First, ListenerInOrder, Callbacks
<1>2. Accepted' = {c}
  BY <1>1 DEF Accepted, Answer, TypeOK
<1>3. UNCHANGED <<pc, outcome>>
  BY DEF Answer
<1> QED BY <1>1, <1>2, <1>3 DEF ListenerInOrder, Callbacks

LEMMA ListenerConnections ==
    ASSUME TypeOK, ListenerInOrder, NEW c \in Conns, Connect(c) \/ Receives(c) \/ Rejects(c)
    PROVE  ListenerInOrder'
<1>1. CASE Connect(c)
  BY <1>1, ListenerRejects DEF Connect
<1>2. CASE Rejects(c)
  BY <1>2, ListenerRejects DEF Rejects, ReceiveGarbage, ReadTimesOut, Answer
<1>3. CASE ReceiveDenial(c)
  <2>1. result = "pending" => pc # "idle"
    BY DEF ListenerInOrder
  <2> QED BY <1>3, <2>1, ListenerRejects DEF ReceiveDenial, First, Answer
<1>4. ASSUME NEW callback \in Callbacks, ReceiveCallback(c, callback)
      PROVE  ListenerInOrder'
  <2>1. CASE First
    BY <1>4, <2>1, ListenerAccepts DEF ReceiveCallback
  <2>2. CASE ~First
    BY <1>4, <2>2, ListenerRejects DEF ReceiveCallback, Answer
  <2> QED BY <2>1, <2>2
<1> QED BY <1>1, <1>2, <1>3, <1>4 DEF Receives

LEMMA ListenerNext ==
    ASSUME TypeOK, ListenerInOrder, [Next]_vars
    PROVE  ListenerInOrder'
<1>1. CASE Interrupt
  BY <1>1, ListenerEnded DEF Interrupt
<1>2. CASE UNCHANGED vars
  BY <1>2 DEF vars, listenerVars, ListenerInOrder, Accepted
<1> QED BY <1>1, <1>2, NextCases, ListenerCommand, ListenerConnections

-----------------------------------------------------------------------------
AuthInv == TypeOK /\ CommandInOrder /\ ListenerInOrder

LEMMA AuthInvariant == Spec => []AuthInv
<1>1. Init => AuthInv
  BY TypeInit, CommandInit, ListenerInit DEF AuthInv
<1>2. AuthInv /\ [Next]_vars => AuthInv'
  BY TypeNext, CommandNext, ListenerNext DEF AuthInv
<1> QED BY <1>1, <1>2, PTL DEF Spec

\* The variables of the commands and of their listener keep their types.
THEOREM TypeCorrect == Spec => []TypeOK
BY AuthInvariant, PTL DEF AuthInv

\* For any number of connections: one callback is told that it was received, and
\* the command goes on with that one.
THEOREM OneIsAccepted == Spec => []OneCallbackAccepted
<1>1. AuthInv => OneCallbackAccepted
  <2> SUFFICES ASSUME AuthInv PROVE OneCallbackAccepted
    OBVIOUS
  <2>1. Cardinality(Accepted) <= 1
    <3>1. CASE Accepted = {}
      BY <3>1, FS_EmptySet
    <3>2. CASE Accepted # {}
      <4>1. PICK c \in Accepted : Accepted = {c}
        BY <3>2 DEF AuthInv, ListenerInOrder
      <4> QED BY <4>1, FS_Singleton
    <3> QED BY <3>1, <3>2
  <2>2. outcome \in Callbacks => \E c \in Conns : conn[c] = "200"
    BY DEF AuthInv, ListenerInOrder, Accepted
  <2>3. result \in Callbacks /\ outcome \in Callbacks => outcome = result
    BY DEF AuthInv, ListenerInOrder, Callbacks
  <2> QED BY <2>1, <2>2, <2>3 DEF OneCallbackAccepted, Accepted
<1> QED BY <1>1, AuthInvariant, PTL

\* A failed login leaves the token from before, at whichever step it failed; or, if
\* what failed is the saving of the token issued to it, possibly that token.
THEOREM FailureKeepsToken == Spec => FailedLoginKeepsToken
<1> DEFINE Kept == \/ bundle'.token = before.token
                   \/ pc = "issued" /\ bundle'.token = NewToken
<1>1. AuthInv /\ [Next]_vars => (report' = "failed" /\ pc \in LoginSteps => Kept)
  <2> SUFFICES ASSUME AuthInv, [Next]_vars, report' = "failed", pc \in LoginSteps
               PROVE  Kept
    OBVIOUS
  <2>1. bundle.token = before.token /\ bundle \in Fields
    BY DEF AuthInv, CommandInOrder, TypeOK
  <2>2. CASE bundle' = [bundle EXCEPT !.oauth = want]
    BY <2>1, <2>2 DEF Fields
  <2>3. CASE bundle' = bundle
    BY <2>1, <2>3
  <2>4. CASE LoginFails
    <3>1. CASE pc = "issued" /\ bundle' = [bundle EXCEPT !.token = NewToken]
      BY <2>1, <3>1 DEF Fields
    <3> QED BY <2>2, <2>3, <2>4, <3>1
            DEF LoginFails, SaveCutShort, LogoutSteps, LoginSteps, Unbounded
  <2>5. CASE TokenSaved \/ Interrupt \/ Logout
    BY <2>5 DEF TokenSaved, Interrupt, Logout, RemoteLogout, RemoteRefuses, RemoteUnknown,
                ClearLocally, ClearFails, End, LoginSteps, LogoutSteps, Unbounded
  <2> QED BY <2>2, <2>3, <2>4, <2>5, NextCases
          DEF Login, BeginsLogin, BeginLogin, Returns, SecretTyped, SecretRefused,
              BrowserReturns, BeginLogout, SaveOAuth, StartListener, CallbackSeen,
              WaitTimesOut, LeaveListener, ListenerClosed, CodeExchanged, Connect, Receives,
              Rejects, ReceiveCallback, ReceiveDenial, ReceiveGarbage, ReadTimesOut, Answer,
              vars
<1> QED BY <1>1, AuthInvariant, PTL DEF FailedLoginKeepsToken, Spec

\* No token without the callback that carried this login's own state.
THEOREM TokenIsApproved == Spec => OnlyApprovedToken
<1>1. AuthInv /\ [Next]_vars
        => (bundle'.token \notin {None, bundle.token} => outcome = "approved")
  <2> SUFFICES ASSUME AuthInv, [Next]_vars, bundle'.token \notin {None, bundle.token}
               PROVE  outcome = "approved"
    OBVIOUS
  <2>1. bundle \in Fields
    BY DEF AuthInv, TypeOK
  <2>2. CASE bundle' = [bundle EXCEPT !.oauth = want]
    BY <2>1, <2>2 DEF Fields
  <2>3. CASE bundle' = bundle
    BY <2>3
  <2>4. CASE bundle' = ClearedBundle
    BY <2>1, <2>4 DEF ClearedBundle, Fields
  <2>5. CASE pc = "issued"
    BY <2>5 DEF AuthInv, CommandInOrder
  <2>6. CASE SaveCutShort
    BY <2>2, <2>3, <2>4, <2>5, <2>6 DEF SaveCutShort
  <2>7. CASE TokenSaved
    BY <2>5, <2>7 DEF TokenSaved
  <2> QED BY <2>2, <2>3, <2>4, <2>6, <2>7, NextCases
          DEF Login, Logout, Interrupt, BeginsLogin, BeginLogin, Returns, SecretTyped,
              SecretRefused, BrowserReturns, BeginLogout, SaveOAuth, StartListener,
              CallbackSeen, WaitTimesOut, LeaveListener, ListenerClosed, CodeExchanged,
              LoginFails, RemoteLogout, RemoteRefuses, RemoteUnknown, ClearLocally,
              ClearFails, Connect, Receives, Rejects, ReceiveCallback, ReceiveDenial,
              ReceiveGarbage, ReadTimesOut, Answer, vars
<1> QED BY <1>1, AuthInvariant, PTL DEF OnlyApprovedToken, Spec

\* A login that says "saved" has saved its own client and a token for it; a logout
\* that says "cleared" has removed the token and nothing else.
THEOREM ReportsAreTrue == Spec => ReportedIsDone
<1> DEFINE Told == report' # report =>
               /\ report' = "saved" => bundle' = [oauth |-> want, token |-> NewToken]
               /\ report' \in {"cleared", "unconfirmed"}
                      => bundle' = [before EXCEPT !.token = None]
<1>1. AuthInv /\ [Next]_vars => Told
  <2> SUFFICES ASSUME AuthInv, [Next]_vars PROVE Told
    OBVIOUS
  <2>1. CASE report' \in {report, "none", "failed", "interrupted"}
    BY <2>1
  <2>2. CASE TokenSaved
    <3>1. bundle' = [bundle EXCEPT !.token = NewToken] /\ report' = "saved"
          /\ bundle.oauth = want
      BY <2>2 DEF TokenSaved, End, AuthInv, CommandInOrder, LoginSteps
    <3>2. bundle \in Fields
      BY DEF AuthInv, TypeOK
    <3> QED BY <3>1, <3>2 DEF Fields
  <2>3. CASE RemoteLogout \/ ClearLocally
    <3>1. bundle' = ClearedBundle /\ bundle = before /\ report' \in {"cleared", "unconfirmed"}
      BY <2>3 DEF RemoteLogout, ClearLocally, End, AuthInv, CommandInOrder, LogoutSteps
    <3> QED BY <3>1 DEF ClearedBundle
  <2> QED BY <2>1, <2>2, <2>3, NextCases
          DEF Login, Logout, BeginsLogin, BeginLogin, Returns, SecretTyped, SecretRefused,
              BrowserReturns, BeginLogout, SaveOAuth, StartListener, CallbackSeen,
              WaitTimesOut, LeaveListener, ListenerClosed, CodeExchanged, LoginFails,
              RemoteRefuses, RemoteUnknown, ClearFails, Interrupt, End, Connect,
              Receives, Rejects, ReceiveCallback, ReceiveDenial, ReceiveGarbage, ReadTimesOut,
              Answer, vars
<1> QED BY <1>1, AuthInvariant, PTL DEF ReportedIsDone, Spec
=============================================================================
