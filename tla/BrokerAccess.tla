----------------------------- MODULE BrokerAccess -----------------------------
(* Tool calls in broker mode: a request-scoped BrokerAccessTokenProvider      *)
(* (src/src/monzo_mcp/mcp/broker.py) exchanges the delegation header of the   *)
(* request for the user's access token, and _execute (tools.py) uses it.      *)
(*                                                                            *)
(* The broker, which keeps the tokens of many users and refreshes them, is    *)
(* external: docs/wiki/External-Broker-Mode.md states the contract that the   *)
(* provider relies on.  A user's tokens are numbered in the order Monzo       *)
(* issued them; a fingerprint is the number of the token it identifies.       *)
EXTENDS Naturals, Sequences

CONSTANTS
    Users,    \* the users whose delegations the MCP host issues
    Calls,    \* tool calls the server works on at the same time
    Nobody,   \* a header that is no usable Bearer delegation
    MaxToken  \* bound: the tokens Monzo issues to one user in a behaviour

ASSUME NobodyAssumption == Nobody \notin Users
ASSUME MaxTokenAssumption == MaxToken \in Nat \ {0}

VARIABLES
    stored,      \* stored[u]: the token the broker has for u, 0 if none
    health,      \* what has become of that token
    authorised,  \* Monzo still honours the refresh token that goes with it
    call,        \* call[c]: the tool call in slot c, with its provider
    asked        \* asked[c]: the broker's side of the request c sent last

brokerVars == <<stored, health, authorised>>
vars == <<brokerVars, call, asked>>

-----------------------------------------------------------------------------
NoToken == 0
Tokens == 1 .. MaxToken

\* "expired": the broker can see it; "revoked": only Monzo knows.
Healths == {"fresh", "expired", "revoked"}

\* The delegation headers of a request: none, one, or one too many.
HeaderLists == {<<>>} \cup {<<h>> : h \in Users \cup {Nobody}}
                      \cup {<<g, h>> : g, h \in Users}

\* A call's provider has the delegation; `owner` is the user of the token it got,
\* `rejected` the token with which Monzo has refused the call once.
Idle == [stage |-> "idle", headers |-> <<>>, delegation |-> Nobody,
         owner |-> Nobody, token |-> NoToken, rejected |-> NoToken]
Running == [stage : {"asking",    \* a request to the broker is out
                     "calling"},  \* the API request is out
            headers : HeaderLists,
            delegation : Users,
            owner : Users \cup {Nobody},
            token : Tokens \cup {NoToken},
            rejected : Tokens \cup {NoToken}]

NotAsked == [stage |-> "none", user |-> Nobody, fingerprint |-> NoToken]
Questions == [stage : {"sent", "refreshing"},
              user : Users,
              fingerprint : Tokens \cup {NoToken}]

\* Nothing is left of a call that ended: broker mode keeps no token.
TypeOK ==
    /\ stored \in [Users -> Tokens \cup {NoToken}]
    /\ health \in [Users -> Healths]
    /\ authorised \in [Users -> BOOLEAN]
    /\ call \in [Calls -> {Idle} \cup Running]
    /\ asked \in [Calls -> {NotAsked} \cup Questions]

\* No user has connected Monzo yet.
Init ==
    /\ stored = [u \in Users |-> NoToken]
    /\ health = [u \in Users |-> "expired"]
    /\ authorised = [u \in Users |-> FALSE]
    /\ call = [c \in Calls |-> Idle]
    /\ asked = [c \in Calls |-> NotAsked]

-----------------------------------------------------------------------------
(* The provider and its call.                                                 *)

\* _request_access_token: one POST with the delegation, and with the fingerprint
\* of a rejected token if there is one.
Ask(c, user, fingerprint) ==
    asked' = [asked EXCEPT ![c] =
                  [stage |-> "sent", user |-> user, fingerprint |-> fingerprint]]

\* Variant: the first of several delegation headers is taken.
UsableFirst(headers) == headers # <<>> /\ headers[1] \in Users

\* create: exactly one delegation header, a Bearer value of bounded size.
Usable(headers) == Len(headers) = 1 /\ headers[1] \in Users

\* _execute creates the provider from the current request; the first thing its
\* MonzoClient does is to ask for a token.  A request without a usable delegation
\* is refused before anything is sent.
BeginCall(c, headers) ==
    /\ call[c].stage = "idle" /\ asked[c].stage = "none"
    /\ Usable(headers)
    /\ call' = [call EXCEPT ![c] = [Idle EXCEPT !.stage = "asking",
                                                !.headers = headers,
                                                !.delegation = headers[1]]]
    /\ Ask(c, headers[1], NoToken)
    /\ UNCHANGED brokerVars

\* The MonzoClient closes; the provider and its token go with it.
End(c) == call' = [call EXCEPT ![c] = Idle]

\* Variant: the broker is awaited without a timeout.
NoAnswerForEver(c) == FALSE /\ UNCHANGED vars

\* No answer in time, no connection, or an unreadable answer: the call ends with
\* CredentialBrokerUnavailableError.  The broker may have got the request, and
\* handle it yet.
NoAnswer(c) ==
    /\ call[c].stage = "asking"
    /\ End(c)
    /\ \/ UNCHANGED asked
       \/ asked[c].stage = "sent" /\ asked' = [asked EXCEPT ![c] = NotAsked]
    /\ UNCHANGED brokerVars

\* Monzo answers the API request, with a result or an error, or does not answer.
\* The second 401 is such an error.
CallEnds(c) ==
    /\ call[c].stage = "calling"
    /\ End(c)
    /\ UNCHANGED <<brokerVars, asked>>

MonzoAccepts(u, token) == token = stored[u] /\ health[u] = "fresh"

\* Variant: the broker is asked again, without saying why.
FingerprintNone(c) == NoToken

\* refresh_after_rejection: sha256 of the token that Monzo rejected.
Fingerprint(c) == call[c].token

\* The first 401: the same provider, with the same delegation, asks again.
CallRejected(c) ==
    /\ call[c].stage = "calling"
    /\ ~MonzoAccepts(call[c].owner, call[c].token)
    /\ call[c].rejected = NoToken
    /\ call' = [call EXCEPT ![c] = [@ EXCEPT !.stage = "asking",
                                             !.owner = Nobody,
                                             !.token = NoToken,
                                             !.rejected = call[c].token]]
    /\ Ask(c, call[c].delegation, Fingerprint(c))
    /\ UNCHANGED brokerVars

-----------------------------------------------------------------------------
(* The broker.  Its answer reaches a call that still waits for it; to a call  *)
(* that gave up it makes no difference.                                       *)

Locked(u) == \E c \in Calls : asked[c].stage = "refreshing" /\ asked[c].user = u

AnswerToken(c, token) ==
    /\ asked' = [asked EXCEPT ![c] = NotAsked]
    /\ call' = IF call[c].stage = "asking"
               THEN [call EXCEPT ![c] = [@ EXCEPT !.stage = "calling",
                                                  !.owner = asked[c].user,
                                                  !.token = token]]
               ELSE call

\* 401, 403, 409, 5xx: _execute turns each into an error of its own.
AnswerError(c) ==
    /\ asked' = [asked EXCEPT ![c] = NotAsked]
    /\ IF call[c].stage = "asking" THEN End(c) ELSE UNCHANGED call

\* Variant: the broker refreshes whenever a rejected token is reported.
StillStoredUnchecked(u, fingerprint) == fingerprint # NoToken \/ health[u] = "expired"

\* The broker refreshes an expired token, and one that is reported as rejected
\* and is still the one it has.
StillStored(u, fingerprint) ==
    IF fingerprint = NoToken THEN health[u] = "expired" ELSE fingerprint = stored[u]

\* Under the lock of the user's credential.
Looks(c) == asked[c].stage = "sent" /\ ~Locked(asked[c].user)

GivesStoredToken(c) ==
    /\ Looks(c)
    /\ ~StillStored(asked[c].user, asked[c].fingerprint)
    /\ AnswerToken(c, stored[asked[c].user])
    /\ UNCHANGED brokerVars

BeginsRefresh(c) ==
    /\ Looks(c)
    /\ StillStored(asked[c].user, asked[c].fingerprint)
    /\ asked' = [asked EXCEPT ![c].stage = "refreshing"]
    /\ UNCHANGED <<brokerVars, call>>

NewToken(u) ==
    /\ stored[u] < MaxToken
    /\ stored' = [stored EXCEPT ![u] = @ + 1]
    /\ health' = [health EXCEPT ![u] = "fresh"]

\* Monzo has refreshed the pair and the broker has saved it.
Refreshes(c) ==
    /\ asked[c].stage = "refreshing"
    /\ authorised[asked[c].user]
    /\ NewToken(asked[c].user)
    /\ AnswerToken(c, stored[asked[c].user] + 1)
    /\ UNCHANGED authorised

\* Monzo refuses the refresh: 409.  Or it is not reached: 503.
RefreshFails(c) ==
    /\ asked[c].stage = "refreshing"
    /\ AnswerError(c)
    /\ UNCHANGED brokerVars

\* The delegation has expired or is not for this user or service.
RefusesDelegation(c) ==
    /\ asked[c].stage = "sent"
    /\ AnswerError(c)
    /\ UNCHANGED brokerVars

-----------------------------------------------------------------------------
(* The users and Monzo.                                                       *)

\* The user connects Monzo, for the first time or again.
Connects(u) ==
    /\ ~Locked(u)
    /\ NewToken(u)
    /\ authorised' = [authorised EXCEPT ![u] = TRUE]
    /\ UNCHANGED <<call, asked>>

TokenEnds(u) ==
    /\ health[u] = "fresh"
    /\ \E h \in {"expired", "revoked"} : health' = [health EXCEPT ![u] = h]
    /\ UNCHANGED <<stored, authorised, call, asked>>

\* The user withdraws access, or the broker loses a pair on its way.
Withdraws(u) ==
    /\ authorised[u]
    /\ authorised' = [authorised EXCEPT ![u] = FALSE]
    /\ health' = [health EXCEPT ![u] = IF @ = "fresh" THEN "revoked" ELSE @]
    /\ UNCHANGED <<stored, call, asked>>

-----------------------------------------------------------------------------
Broker(c) ==
    \/ GivesStoredToken(c)
    \/ BeginsRefresh(c)
    \/ Refreshes(c)
    \/ RefreshFails(c)
    \/ RefusesDelegation(c)

Next ==
    \/ \E c \in Calls : \/ \E headers \in HeaderLists : BeginCall(c, headers)
                        \/ NoAnswer(c)
                        \/ CallRejected(c)
                        \/ CallEnds(c)
                        \/ Broker(c)
    \/ \E u \in Users : Connects(u) \/ TokenEnds(u) \/ Withdraws(u)

Spec == Init /\ [][Next]_vars

\* Requests to the broker end at the provider's timeout, those to Monzo at the
\* client's.  The broker need not answer.
Fairness == \A c \in Calls : WF_vars(NoAnswer(c)) /\ WF_vars(CallEnds(c))

FairSpec == Spec /\ Fairness

-----------------------------------------------------------------------------
(* Properties.                                                                *)

\* Requests of several users share one server, one HTTP client and the broker:
\* each uses only a token of the user whose delegation is the only one it has,
\* also on its repetition.
OwnTokenOnly ==
    \A c \in Calls : call[c].token # NoToken => call[c].headers = <<call[c].owner>>

\* A call that Monzo rejected is repeated with another token or not at all.
RepeatUsesNewToken ==
    \A c \in Calls : call[c].token # NoToken => call[c].token # call[c].rejected

\* A fingerprint may be stale when the broker gets to it, because another call
\* of the user, or one that has long given up, was there first: it spends no
\* refresh token on a token that is good.
NoNeedlessRefresh ==
    [][\A c \in Calls : Refreshes(c) => health[asked[c].user] # "fresh"]_vars

\* Every call ends, also if the broker never answers.
CallsEnd == \A c \in Calls : call[c].stage # "idle" ~> call[c].stage = "idle"

-----------------------------------------------------------------------------
(* Why the properties hold: what BrokerAccessProofs shows to be inductive.    *)

\* A call that waits for the broker is the one its question is about.
QuestionFits ==
    \A c \in Calls : call[c].stage = "asking" =>
        /\ asked[c].stage # "none"
        /\ asked[c].user = call[c].delegation
        /\ asked[c].fingerprint = call[c].rejected
        /\ call[c].token = NoToken

OwnDelegation ==
    \A c \in Calls : call[c].stage # "idle" =>
        /\ call[c].headers = <<call[c].delegation>>
        /\ call[c].token # NoToken => call[c].owner = call[c].delegation

\* Tokens only move forward, and a reported one is not good, whoever reports it
\* and however late.
ReportsTrue ==
    \A c \in Calls :
        /\ call[c].token # NoToken => call[c].token <= stored[call[c].owner]
        /\ asked[c].stage # "none" /\ asked[c].fingerprint # NoToken =>
               /\ asked[c].fingerprint <= stored[asked[c].user]
               /\ asked[c].fingerprint = stored[asked[c].user] =>
                      health[asked[c].user] # "fresh"

\* One refresh per user at a time, and its reason stands until it is done.
RefreshJustified ==
    \A c \in Calls : asked[c].stage = "refreshing" =>
        /\ health[asked[c].user] # "fresh"
        /\ asked[c].fingerprint \in {NoToken, stored[asked[c].user]}
        /\ \A d \in Calls : asked[d].stage = "refreshing" /\ asked[d].user = asked[c].user
                                => d = c
=============================================================================
