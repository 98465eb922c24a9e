-------------------------- MODULE BrokerAccessProofs --------------------------
(* What BrokerAccess guarantees for every number of users, of concurrent tool *)
(* calls and of tokens.  MCBrokerAccess checks the same formulas on two users *)
(* and two calls.                                                             *)
EXTENDS BrokerAccess, TLAPS

Provider(c) ==
    \/ \E headers \in HeaderLists : BeginCall(c, headers)
    \/ NoAnswer(c)
    \/ CallRejected(c)
    \/ CallEnds(c)

User(u) == Connects(u) \/ TokenEnds(u) \/ Withdraws(u)

LEMMA NextCases ==
    ASSUME [Next]_vars
    PROVE  \/ \E c \in Calls : Provider(c) \/ Broker(c)
           \/ \E u \in Users : User(u)
           \/ UNCHANGED vars
BY DEF Next, Provider, User

-----------------------------------------------------------------------------
(* Type correctness.                                                          *)

LEMMA TypeInit == Init => TypeOK
BY DEF Init, TypeOK, Healths

\* What the provider and the broker write into the two records of a call.
LEMMA RecordTypes ==
    ASSUME TypeOK, NEW c \in Calls
    PROVE  /\ call[c].token \in Tokens \cup {NoToken}
           /\ call[c].rejected \in Tokens \cup {NoToken}
           /\ call[c].stage # "idle" => call[c] \in Running
           /\ call[c].stage = "idle" => call[c] = Idle
           /\ asked[c].stage # "none" => asked[c] \in Questions
           /\ asked[c].stage = "none" => asked[c] = NotAsked
           /\ asked[c].fingerprint \in Tokens \cup {NoToken}
BY DEF TypeOK, Running, Questions, Idle, NotAsked

LEMMA AskTypes ==
    ASSUME TypeOK, NEW c \in Calls, NEW u \in Users,
           NEW f \in Tokens \cup {NoToken}, Ask(c, u, f)
    PROVE  asked' \in [Calls -> {NotAsked} \cup Questions]
<1>1. [stage |-> "sent", user |-> u, fingerprint |-> f] \in Questions
  BY DEF Questions
<1> QED BY <1>1 DEF TypeOK, Ask

LEMMA AnswerTypes ==
    ASSUME TypeOK, NEW c \in Calls,
           \/ AnswerError(c)
           \/ /\ asked[c].stage # "none"
              /\ \E t \in Tokens \cup {NoToken} : AnswerToken(c, t)
    PROVE  /\ call' \in [Calls -> {Idle} \cup Running]
           /\ asked' \in [Calls -> {NotAsked} \cup Questions]
<1>1. asked' \in [Calls -> {NotAsked} \cup Questions]
  BY DEF TypeOK, AnswerError, AnswerToken
<1>2. CASE AnswerError(c)
  BY <1>1, <1>2 DEF TypeOK, AnswerError, End
<1>3. ASSUME asked[c].stage # "none", NEW t \in Tokens \cup {NoToken}, AnswerToken(c, t)
      PROVE  call' \in [Calls -> {Idle} \cup Running]
  <2>1. CASE call[c].stage = "asking"
    <3>1. call[c] \in Running /\ asked[c] \in Questions
      BY <1>3, <2>1, RecordTypes
    <3>2. [call[c] EXCEPT !.stage = "calling", !.owner = asked[c].user, !.token = t] \in Running
      BY <1>3, <3>1 DEF Running, Questions
    <3> QED BY <1>3, <2>1, <3>2 DEF TypeOK, AnswerToken
  <2>2. CASE call[c].stage # "asking"
    BY <1>3, <2>2 DEF TypeOK, AnswerToken
  <2> QED BY <2>1, <2>2
<1> QED BY <1>1, <1>2, <1>3

LEMMA TypeProvider == ASSUME TypeOK, NEW c \in Calls, Provider(c) PROVE TypeOK'
<1> USE DEF brokerVars
<1>1. ASSUME NEW headers \in HeaderLists, BeginCall(c, headers) PROVE TypeOK'
  <2>1. headers[1] \in Users
    BY <1>1 DEF BeginCall, Usable
  <2>2. [Idle EXCEPT !.stage = "asking", !.headers = headers, !.delegation = headers[1]]
            \in Running
    BY <1>1, <2>1 DEF Idle, Running
  <2> QED BY <1>1, <2>1, <2>2, AskTypes DEF TypeOK, BeginCall
<1>2. CASE NoAnswer(c)
  BY <1>2 DEF TypeOK, NoAnswer, End
<1>3. CASE CallRejected(c)
  <2>1. call[c] \in Running
    BY <1>3, RecordTypes DEF CallRejected
  <2>2. [call[c] EXCEPT !.stage = "asking", !.owner = Nobody, !.token = NoToken,
                        !.rejected = call[c].token] \in Running
    BY <2>1 DEF Running
  <2>3. call[c].delegation \in Users /\ Fingerprint(c) \in Tokens \cup {NoToken}
    BY <2>1 DEF Running, Fingerprint
  <2>4. call' \in [Calls -> {Idle} \cup Running]
    BY <1>3, <2>2 DEF TypeOK, CallRejected
  <2>5. asked' \in [Calls -> {NotAsked} \cup Questions]
    BY <1>3, <2>3, AskTypes DEF CallRejected
  <2> QED BY <1>3, <2>4, <2>5 DEF TypeOK, CallRejected
<1>4. CASE CallEnds(c)
  BY <1>4 DEF TypeOK, CallEnds, End
<1> QED BY <1>1, <1>2, <1>3, <1>4 DEF Provider

LEMMA TypeNewToken ==
    ASSUME TypeOK, NEW u \in Users, NewToken(u)
    PROVE  /\ stored[u] + 1 \in Tokens
           /\ stored' \in [Users -> Tokens \cup {NoToken}]
           /\ health' \in [Users -> Healths]
<1>1. stored[u] + 1 \in Tokens
  BY MaxTokenAssumption DEF TypeOK, Tokens, NoToken, NewToken
<1> QED BY <1>1 DEF TypeOK, NewToken, Healths

LEMMA TypeBroker == ASSUME TypeOK, NEW c \in Calls, Broker(c) PROVE TypeOK'
<1> USE DEF brokerVars
<1>0. asked[c].stage # "none" /\ asked[c].user \in Users
  <2>1. asked[c].stage # "none"
    BY DEF Broker, GivesStoredToken, BeginsRefresh, Refreshes, RefreshFails,
           RefusesDelegation, Looks
  <2> QED BY <2>1, RecordTypes DEF Questions
<1>1. CASE GivesStoredToken(c)
  <2>1. stored[asked[c].user] \in Tokens \cup {NoToken}
    BY <1>0 DEF TypeOK
  <2> QED BY <1>0, <1>1, <2>1, AnswerTypes DEF TypeOK, GivesStoredToken
<1>2. CASE BeginsRefresh(c)
  <2>1. asked[c] \in Questions
    BY <1>0, RecordTypes
  <2>2. [asked[c] EXCEPT !.stage = "refreshing"] \in Questions
    BY <2>1 DEF Questions
  <2> QED BY <1>2, <2>2 DEF TypeOK, BeginsRefresh
<1>3. CASE Refreshes(c)
  BY <1>0, <1>3, TypeNewToken, AnswerTypes DEF TypeOK, Refreshes
<1>4. CASE RefreshFails(c)
  BY <1>4, AnswerTypes DEF TypeOK, RefreshFails
<1>5. CASE RefusesDelegation(c)
  BY <1>5, AnswerTypes DEF TypeOK, RefusesDelegation
<1> QED BY <1>1, <1>2, <1>3, <1>4, <1>5 DEF Broker

LEMMA TypeUser == ASSUME TypeOK, NEW u \in Users, User(u) PROVE TypeOK'
<1>1. CASE Connects(u)
  BY <1>1, TypeNewToken DEF TypeOK, Connects
<1>2. CASE TokenEnds(u)
  BY <1>2 DEF TypeOK, TokenEnds, Healths
<1>3. CASE Withdraws(u)
  BY <1>3 DEF TypeOK, Withdraws, Healths
<1> QED BY <1>1, <1>2, <1>3 DEF User

LEMMA TypeStep == TypeOK /\ [Next]_vars => TypeOK'
<1> SUFFICES ASSUME TypeOK, [Next]_vars PROVE TypeOK'
  OBVIOUS
<1>1. CASE UNCHANGED vars
  BY <1>1 DEF TypeOK, vars, brokerVars
<1> QED BY <1>1, NextCases, TypeProvider, TypeBroker, TypeUser

\* The variables keep their types; of a call that has ended nothing is left.
THEOREM TypeCorrect == Spec => []TypeOK
BY TypeInit, TypeStep, PTL DEF Spec

-----------------------------------------------------------------------------
(* Each call with its own delegation.                                         *)

Fits == QuestionFits /\ OwnDelegation

LEMMA FitsInit == Init => Fits
BY DEF Init, Fits, QuestionFits, OwnDelegation, Idle

LEMMA FitsProvider ==
    ASSUME TypeOK, Fits, NEW c \in Calls, Provider(c)
    PROVE  Fits'
<1> USE DEF Fits, QuestionFits, OwnDelegation, TypeOK, Idle
<1>1. ASSUME NEW headers \in HeaderLists, BeginCall(c, headers) PROVE Fits'
  <2>1. headers = <<headers[1]>>
    <3>1. Len(headers) = 1
      BY <1>1 DEF BeginCall, Usable
    <3>2. CASE headers = <<>>
      BY <3>1, <3>2
    <3>3. CASE \E h \in Users \cup {Nobody} : headers = <<h>>
      BY <3>3
    <3>4. CASE \E g, h \in Users : headers = <<g, h>>
      BY <3>1, <3>4
    <3> QED BY <1>1, <3>2, <3>3, <3>4 DEF HeaderLists
  <2> QED BY <1>1, <2>1 DEF BeginCall, Ask
<1>2. CASE NoAnswer(c)
  <2>1. call' = [call EXCEPT ![c] = Idle] /\ \A d \in Calls \ {c} : asked'[d] = asked[d]
    BY <1>2 DEF NoAnswer, End
  <2> QED BY <2>1
<1>3. CASE CallRejected(c)
  BY <1>3 DEF CallRejected, Ask, Fingerprint
<1>4. CASE CallEnds(c)
  BY <1>4 DEF CallEnds, End
<1> QED BY <1>1, <1>2, <1>3, <1>4 DEF Provider

LEMMA FitsAnswer ==
    ASSUME TypeOK, Fits, NEW c \in Calls,
           AnswerError(c) \/ \E t \in Tokens \cup {NoToken} : AnswerToken(c, t)
    PROVE  Fits'
<1> USE DEF Fits, QuestionFits, OwnDelegation
<1>0. \A d \in Calls \ {c} : asked'[d] = asked[d] /\ call'[d] = call[d]
  BY DEF TypeOK, AnswerError, AnswerToken, End
<1>1. CASE AnswerError(c)
  <2>1. call'[c] = Idle \/ (call[c].stage # "asking" /\ call' = call)
    BY <1>1 DEF TypeOK, AnswerError, End
  <2>2. QuestionFits'
    BY <1>0, <2>1 DEF Idle
  <2>3. OwnDelegation'
    BY <1>0, <2>1 DEF Idle
  <2> QED BY <2>2, <2>3
<1>2. ASSUME NEW t \in Tokens \cup {NoToken}, AnswerToken(c, t) PROVE Fits'
  <2>1. CASE call[c].stage # "asking"
    BY <1>0, <1>2, <2>1 DEF AnswerToken
  <2>2. CASE call[c].stage = "asking"
    <3>1. call[c] \in Running
      BY <2>2, RecordTypes
    <3>2. call'[c] = [call[c] EXCEPT !.stage = "calling", !.owner = asked[c].user,
                                     !.token = t]
      BY <1>2, <2>2 DEF AnswerToken, TypeOK
    <3>3. /\ call'[c].stage = "calling"
          /\ call'[c].headers = call[c].headers
          /\ call'[c].delegation = call[c].delegation
          /\ call'[c].owner = call[c].delegation
      BY <2>2, <3>1, <3>2 DEF Running
    <3> QED BY <1>0, <2>2, <3>3
  <2> QED BY <2>1, <2>2
<1> QED BY <1>1, <1>2

LEMMA FitsBroker ==
    ASSUME TypeOK, Fits, NEW c \in Calls, Broker(c)
    PROVE  Fits'
<1>1. CASE GivesStoredToken(c)
  <2>1. asked[c].user \in Users
    BY <1>1, RecordTypes DEF GivesStoredToken, Looks, Questions
  <2> QED BY <1>1, <2>1, FitsAnswer DEF GivesStoredToken, TypeOK
<1>2. CASE BeginsRefresh(c)
  BY <1>2 DEF Fits, QuestionFits, OwnDelegation, TypeOK, BeginsRefresh
<1>3. CASE Refreshes(c)
  <2>1. asked[c].user \in Users
    BY <1>3, RecordTypes DEF Refreshes, Questions
  <2> QED BY <1>3, <2>1, TypeNewToken, FitsAnswer DEF Refreshes
<1>4. CASE RefreshFails(c)
  BY <1>4, FitsAnswer DEF RefreshFails
<1>5. CASE RefusesDelegation(c)
  BY <1>5, FitsAnswer DEF RefusesDelegation
<1> QED BY <1>1, <1>2, <1>3, <1>4, <1>5 DEF Broker

LEMMA FitsStep == TypeOK /\ Fits /\ [Next]_vars => Fits'
<1> SUFFICES ASSUME TypeOK, Fits, [Next]_vars PROVE Fits'
  OBVIOUS
<1>1. CASE UNCHANGED <<call, asked>>
  BY <1>1 DEF Fits, QuestionFits, OwnDelegation
<1>2. ASSUME NEW u \in Users, User(u) PROVE UNCHANGED <<call, asked>>
  BY <1>2 DEF User, Connects, TokenEnds, Withdraws
<1> QED BY <1>1, <1>2, NextCases, FitsProvider, FitsBroker DEF vars

\* A call uses only tokens of the user of its one delegation header.
THEOREM OwnTokens == Spec => []OwnTokenOnly
<1>1. TypeOK /\ Fits => OwnTokenOnly
  <2> SUFFICES ASSUME TypeOK, Fits, NEW c \in Calls, call[c].token # NoToken
               PROVE  call[c].headers = <<call[c].owner>>
    BY DEF OwnTokenOnly
  <2>1. call[c].stage # "idle"
    BY RecordTypes DEF Idle
  <2> QED BY <2>1 DEF Fits, OwnDelegation
<1> QED BY <1>1, TypeInit, TypeStep, FitsInit, FitsStep, PTL DEF Spec

-----------------------------------------------------------------------------
(* Fingerprints, however late the broker gets to them.                        *)

Reports == ReportsTrue /\ RefreshJustified

LEMMA ReportsInit == Init => Reports
BY DEF Init, Reports, ReportsTrue, RefreshJustified, Idle, NotAsked

\* A call's token is one of a user, and a question in progress is about one.
LEMMA UserTypes ==
    ASSUME TypeOK, Fits, NEW c \in Calls
    PROVE  /\ call[c].token # NoToken => call[c].owner \in Users
           /\ asked[c].stage # "none" => asked[c].user \in Users
BY DEF TypeOK, Fits, OwnDelegation, Running, Questions, Idle, NotAsked

LEMMA ReportsProvider ==
    ASSUME TypeOK, Fits, Reports, NEW c \in Calls, Provider(c)
    PROVE  Reports'
<1> USE DEF Reports, ReportsTrue, RefreshJustified, TypeOK, Idle, NotAsked, brokerVars
<1>1. ASSUME NEW headers \in HeaderLists, BeginCall(c, headers) PROVE Reports'
  BY <1>1 DEF BeginCall, Ask
<1>2. CASE NoAnswer(c)
  <2>1. /\ call' = [call EXCEPT ![c] = Idle]
        /\ asked' = asked \/ asked' = [asked EXCEPT ![c] = NotAsked]
        /\ stored' = stored /\ health' = health
    BY <1>2 DEF NoAnswer, End
  <2> QED BY <2>1
<1>3. CASE CallRejected(c)
  <2>1. /\ call[c].token # NoToken => call[c].owner = call[c].delegation
        /\ call[c].token # NoToken => call[c].token <= stored[call[c].owner]
        /\ ~(call[c].token = stored[call[c].owner] /\ health[call[c].owner] = "fresh")
    BY <1>3 DEF CallRejected, Fits, OwnDelegation, MonzoAccepts
  <2> QED BY <1>3, <2>1 DEF CallRejected, Ask, Fingerprint
<1>4. CASE CallEnds(c)
  BY <1>4 DEF CallEnds, End
<1> QED BY <1>1, <1>2, <1>3, <1>4 DEF Provider

\* A user's next token: it is good, and nobody has reported it yet.
LEMMA ReportsNewToken ==
    ASSUME TypeOK, Fits, Reports, NEW u \in Users, NewToken(u), UNCHANGED call,
           UNCHANGED asked, ~Locked(u)
    PROVE  Reports'
<1>1. ReportsTrue'
  BY UserTypes, RecordTypes DEF Reports, ReportsTrue, NewToken, TypeOK, Tokens, NoToken
<1>2. RefreshJustified'
  BY UserTypes DEF Reports, RefreshJustified, NewToken, TypeOK, Locked
<1> QED BY <1>1, <1>2 DEF Reports

LEMMA ReportsUser ==
    ASSUME TypeOK, Fits, Reports, NEW u \in Users, User(u)
    PROVE  Reports'
<1>1. CASE Connects(u)
  BY <1>1, ReportsNewToken DEF Connects
<1>2. ASSUME health' = [health EXCEPT ![u] = health'[u]], health'[u] = "fresh" => health[u] = "fresh",
             UNCHANGED <<stored, call, asked>>
      PROVE  Reports'
  BY <1>2, UserTypes DEF Reports, ReportsTrue, RefreshJustified, TypeOK
<1>3. CASE TokenEnds(u)
  BY <1>2, <1>3 DEF TokenEnds, TypeOK
<1>4. CASE Withdraws(u)
  BY <1>2, <1>4 DEF Withdraws, TypeOK
<1> QED BY <1>1, <1>3, <1>4 DEF User

LEMMA ReportsBroker ==
    ASSUME TypeOK, Fits, Reports, NEW c \in Calls, Broker(c)
    PROVE  Reports'
<1> USE DEF brokerVars
<1>1. CASE GivesStoredToken(c)
  <2>1. asked[c].user \in Users /\ stored[asked[c].user] <= stored[asked[c].user]
    BY <1>1, UserTypes DEF GivesStoredToken, Looks, TypeOK, Tokens, NoToken
  <2> QED BY <1>1, <2>1 DEF GivesStoredToken, AnswerToken, Reports, ReportsTrue,
                            RefreshJustified, TypeOK, NotAsked
<1>2. CASE BeginsRefresh(c)
  <2>1. asked[c].user \in Users /\ asked[c].stage = "sent"
    BY <1>2, UserTypes DEF BeginsRefresh, Looks
  <2>2. /\ health[asked[c].user] # "fresh"
        /\ asked[c].fingerprint \in {NoToken, stored[asked[c].user]}
    BY <1>2, <2>1 DEF BeginsRefresh, StillStored, Reports, ReportsTrue
  <2>3. \A d \in Calls : asked[d].stage = "refreshing" => asked[d].user # asked[c].user
    BY <1>2 DEF BeginsRefresh, Looks, Locked
  <2>4. ReportsTrue'
    BY <1>2, <2>1 DEF BeginsRefresh, Reports, ReportsTrue, TypeOK
  <2>5. RefreshJustified'
    BY <1>2, <2>1, <2>2, <2>3 DEF BeginsRefresh, Reports, RefreshJustified, TypeOK
  <2> QED BY <2>4, <2>5 DEF Reports
<1>3. CASE Refreshes(c)
  <2> DEFINE u == asked[c].user
  <2>1. u \in Users /\ stored[u] \in Nat /\ stored'[u] = stored[u] + 1
    BY <1>3, UserTypes, MaxTokenAssumption DEF Refreshes, NewToken, TypeOK, Tokens, NoToken
  <2>2. ReportsTrue'
    <3>1. \A d \in Calls : call'[d].token # NoToken => call'[d].token <= stored'[call'[d].owner]
      BY <1>3, <2>1, UserTypes, RecordTypes
         DEF Refreshes, NewToken, AnswerToken, Reports, ReportsTrue, TypeOK, Tokens, NoToken
    <3>2. \A d \in Calls : asked'[d].stage # "none" => d # c /\ asked'[d] = asked[d]
      BY <1>3 DEF Refreshes, AnswerToken, TypeOK, NotAsked
    <3>3. \A d \in Calls : asked[d].stage # "none" /\ asked[d].fingerprint # NoToken =>
              /\ asked[d].fingerprint <= stored'[asked[d].user]
              /\ asked[d].fingerprint = stored'[asked[d].user] => health'[asked[d].user] # "fresh"
      BY <1>3, <2>1, UserTypes, RecordTypes
         DEF Refreshes, NewToken, Reports, ReportsTrue, TypeOK, Tokens, NoToken
    <3> QED BY <3>1, <3>2, <3>3 DEF ReportsTrue
  <2>3. RefreshJustified'
    <3>1. \A d \in Calls : asked'[d].stage = "refreshing" => d # c /\ asked'[d] = asked[d]
      BY <1>3 DEF Refreshes, AnswerToken, TypeOK, NotAsked
    <3>2. \A d \in Calls : asked'[d].stage = "refreshing" => asked[d].user # u
      BY <1>3, <3>1 DEF Refreshes, Reports, RefreshJustified
    <3> QED BY <1>3, <2>1, <3>1, <3>2, UserTypes
            DEF Refreshes, NewToken, Reports, RefreshJustified, TypeOK
  <2> QED BY <2>2, <2>3 DEF Reports
<1>4. ASSUME AnswerError(c), UNCHANGED brokerVars PROVE Reports'
  BY <1>4 DEF AnswerError, End, Reports, ReportsTrue, RefreshJustified, TypeOK, Idle, NotAsked
<1>5. CASE RefreshFails(c)
  BY <1>4, <1>5 DEF RefreshFails
<1>6. CASE RefusesDelegation(c)
  BY <1>4, <1>6 DEF RefusesDelegation
<1> QED BY <1>1, <1>2, <1>3, <1>5, <1>6 DEF Broker

LEMMA ReportsStep == TypeOK /\ Fits /\ Reports /\ [Next]_vars => Reports'
<1> SUFFICES ASSUME TypeOK, Fits, Reports, [Next]_vars PROVE Reports'
  OBVIOUS
<1>1. CASE UNCHANGED vars
  BY <1>1 DEF Reports, ReportsTrue, RefreshJustified, vars, brokerVars
<1> QED BY <1>1, NextCases, ReportsProvider, ReportsBroker, ReportsUser

\* No stale fingerprint, of a slow call or of one that has given up, makes the
\* broker spend a refresh token on a token that is good.
THEOREM StaleFingerprintsAreHarmless == Spec => NoNeedlessRefresh
<1>1. Reports /\ [Next]_vars =>
          [\A c \in Calls : Refreshes(c) => health[asked[c].user] # "fresh"]_vars
  BY DEF Reports, RefreshJustified, Refreshes
<1> QED BY <1>1, TypeInit, TypeStep, FitsInit, FitsStep, ReportsInit, ReportsStep, PTL
        DEF Spec, NoNeedlessRefresh

-----------------------------------------------------------------------------
(* The repetition of a rejected call.                                         *)

LEMMA RepeatInit == Init => RepeatUsesNewToken
BY DEF Init, RepeatUsesNewToken, Idle

LEMMA RepeatAnswer ==
    ASSUME TypeOK, Fits, RepeatUsesNewToken, NEW c \in Calls,
           NEW t \in Tokens \cup {NoToken},
           AnswerToken(c, t), t # NoToken => t # asked[c].fingerprint
    PROVE  RepeatUsesNewToken'
BY DEF AnswerToken, RepeatUsesNewToken, TypeOK, Fits, QuestionFits

LEMMA RepeatStep ==
    ASSUME TypeOK, Fits, Reports, RepeatUsesNewToken, [Next]_vars
    PROVE  RepeatUsesNewToken'
<1>1. ASSUME UNCHANGED call PROVE RepeatUsesNewToken'
  BY <1>1 DEF RepeatUsesNewToken
<1>2. ASSUME NEW c \in Calls, End(c) PROVE RepeatUsesNewToken'
  BY <1>2 DEF End, RepeatUsesNewToken, TypeOK, Idle
<1>3. ASSUME NEW c \in Calls, Provider(c) PROVE RepeatUsesNewToken'
  <2>1. ASSUME NEW headers \in HeaderLists, BeginCall(c, headers)
        PROVE  RepeatUsesNewToken'
    BY <2>1 DEF BeginCall, RepeatUsesNewToken, TypeOK, Idle
  <2>2. CASE CallRejected(c)
    BY <2>2 DEF CallRejected, RepeatUsesNewToken, TypeOK
  <2> QED BY <1>2, <1>3, <2>1, <2>2 DEF Provider, NoAnswer, CallEnds
<1>4. ASSUME NEW c \in Calls, Broker(c) PROVE RepeatUsesNewToken'
  <2>1. CASE GivesStoredToken(c)
    <3>1. asked[c].user \in Users
      BY <2>1, UserTypes DEF GivesStoredToken, Looks
    <3>2. stored[asked[c].user] # NoToken => stored[asked[c].user] # asked[c].fingerprint
      BY <2>1 DEF GivesStoredToken, StillStored
    <3>3. stored[asked[c].user] \in Tokens \cup {NoToken}
      BY <3>1 DEF TypeOK
    <3> QED BY <2>1, <3>2, <3>3, RepeatAnswer DEF GivesStoredToken
  <2>2. CASE Refreshes(c)
    <3>1. asked[c].user \in Users
      BY <2>2, UserTypes DEF Refreshes
    <3>2. stored[asked[c].user] + 1 \in Tokens
      BY <2>2, <3>1, TypeNewToken DEF Refreshes
    <3>3. stored[asked[c].user] + 1 # asked[c].fingerprint
      BY <2>2, <3>1, <3>2 DEF Refreshes, Reports, RefreshJustified, TypeOK, Tokens, NoToken
    <3> QED BY <2>2, <3>2, <3>3, RepeatAnswer DEF Refreshes
  <2> QED BY <1>1, <1>2, <1>4, <2>1, <2>2
          DEF Broker, BeginsRefresh, RefreshFails, RefusesDelegation, AnswerError
<1>5. ASSUME NEW u \in Users, User(u) PROVE UNCHANGED call
  BY <1>5 DEF User, Connects, TokenEnds, Withdraws
<1> QED BY <1>1, <1>3, <1>4, <1>5, NextCases DEF vars

\* A rejected call is repeated with another token or not at all.
THEOREM RepeatedWithNewToken == Spec => []RepeatUsesNewToken
BY TypeInit, TypeStep, FitsInit, FitsStep, ReportsInit, ReportsStep, RepeatInit,
   RepeatStep, PTL DEF Spec
=============================================================================
