---------------------------- MODULE AuthCommands ----------------------------
(* `monzo-mcp auth login` and `auth logout` (src/src/monzo_mcp/cli.py): the   *)
(* command on the main task, the one-shot loopback listener with one handler  *)
(* task per connection, and the exchange with Monzo.                          *)
(*                                                                            *)
(* The credential store replaces its bundle whole.  A save that fails has     *)
(* changed nothing, or it has replaced the bundle and only the directory sync *)
(* after that failed.  Commands run one after the other: the directory lock   *)
(* keeps them apart, and a command that is interrupted while it saves waits   *)
(* for the thread before its process ends.                                    *)
EXTENDS FiniteSets, Naturals

CONSTANTS
    Clients,    \* OAuth client configurations (id, secret, redirect URI)
    Conns,      \* connections to one callback listener
    None,       \* nothing configured, supplied or decided
    MaxTokens   \* bound on the tokens Monzo issues

\* A token: the OAuth client it was issued to, and which of Monzo's tokens it is.
Tokens == [client : Clients, number : 1..MaxTokens]

ASSUME NoneAssumption == None \notin Clients \cup Conns \cup Tokens
ASSUME MaxTokensAssumption == MaxTokens \in Nat

VARIABLES
    bundle,     \* the bundle in the credential directory
    issued,     \* the number of tokens Monzo has issued
    pc,         \* where the command is
    want,       \* the OAuth client of this login
    before,     \* the bundle when this command started
    accepting,  \* the listener accepts connections
    conn,       \* conn[c]: the connection, then the status it was answered
    result,     \* self._result: no future, a pending one, or what it was set to
    outcome,    \* what `listener.wait` gave the command
    report      \* how the last command ended, as the user sees it

listenerVars == <<accepting, conn, result>>
vars == <<bundle, issued, pc, want, before, listenerVars, outcome, report>>

-----------------------------------------------------------------------------
Fields == [oauth : Clients \cup {None}, token : Tokens \cup {None}]

\* Where the command waits for somebody without a limit: for the user to type the
\* client secret, and for webbrowser.open to return.
Unbounded == {"prompting", "opening"}

LoginSteps  == Unbounded \cup
               {"resolved", "oauthSaved", "waiting", "closing", "exchanging", "issued"}
LogoutSteps == {"revoking", "clearing", "clearingUnconfirmed"}

\* A callback whose query holds a code and a state, the expected one or not.
Callbacks == {"approved", "forged"}
Statuses  == {"200", "400", "409"}

TypeOK ==
    /\ bundle \in Fields
    /\ issued \in 0..MaxTokens
    /\ pc \in {"idle"} \cup LoginSteps \cup LogoutSteps
    /\ want \in Clients \cup {None}
    /\ before \in Fields
    /\ accepting \in BOOLEAN
    /\ conn \in [Conns -> {"none", "reading"} \cup Statuses]
    /\ result \in {"none", "pending", "denied"} \cup Callbacks
    /\ outcome \in {"none", "timeout", "denied"} \cup Callbacks
    /\ report \in {"none", "saved", "failed", "interrupted", "cleared", "unconfirmed"}

Init ==
    /\ bundle = [oauth |-> None, token |-> None]
    /\ issued = 0
    /\ pc = "idle"
    /\ want = None
    /\ before = bundle
    /\ accepting = FALSE
    /\ conn = [c \in Conns |-> "none"]
    /\ result = "none"
    /\ outcome = "none"
    /\ report = "none"

\* The command ends; the process goes, and with it the listener.
End(r) ==
    /\ pc' = "idle"
    /\ want' = None
    /\ accepting' = FALSE
    /\ conn' = [c \in Conns |-> "none"]
    /\ result' = "none"
    /\ outcome' = "none"
    /\ report' = r

-----------------------------------------------------------------------------
(* The login command.                                                         *)

\* The store is open and the OAuth client chosen: the one on the command line,
\* with its secret from a file or still to be typed, else the one in the bundle.
BeginLogin(supplied) ==
    /\ pc = "idle"
    /\ want' = IF supplied # None THEN supplied ELSE bundle.oauth
    /\ want' # None
    /\ \/ pc' = "resolved"
       \/ supplied # None /\ pc' = "prompting"
    /\ before' = bundle
    /\ report' = "none"
    /\ UNCHANGED <<bundle, issued, listenerVars, outcome>>

SecretTyped ==
    /\ pc = "prompting"
    /\ pc' = "resolved"
    /\ UNCHANGED <<bundle, issued, want, before, listenerVars, outcome, report>>

\* The secret is empty, or it makes no valid configuration.
SecretRefused ==
    /\ pc = "prompting"
    /\ End("failed")
    /\ UNCHANGED <<bundle, issued, before>>

\* Variant: a new OAuth client starts from an empty bundle.
SaveOAuthDropsToken ==
    /\ pc = "resolved"
    /\ bundle' = [oauth |-> want, token |-> None]
    /\ pc' = "oauthSaved"
    /\ UNCHANGED <<issued, want, before, listenerVars, outcome, report>>

SaveOAuth ==
    /\ pc = "resolved"
    /\ bundle' = [bundle EXCEPT !.oauth = want]
    /\ pc' = "oauthSaved"
    /\ UNCHANGED <<issued, want, before, listenerVars, outcome, report>>

\* The listener runs; then the browser is opened, unless --no-browser is given.
StartListener ==
    /\ pc = "oauthSaved"
    /\ accepting' = TRUE
    /\ result' = "pending"
    /\ pc' \in {"opening", "waiting"}
    /\ UNCHANGED <<bundle, issued, want, before, conn, outcome, report>>

\* webbrowser.open returns: at once, or when a console browser is left.  Only now
\* the command begins to wait for the callback, and its timeout to run.
BrowserReturns ==
    /\ pc = "opening"
    /\ pc' = "waiting"
    /\ UNCHANGED <<bundle, issued, want, before, listenerVars, outcome, report>>

\* Leaving `async with listener` closes the server before its first await.
LeaveListener(o) ==
    /\ pc = "waiting"
    /\ accepting' = FALSE
    /\ outcome' = o
    /\ pc' = "closing"
    /\ UNCHANGED <<bundle, issued, want, before, conn, result, report>>

CallbackSeen == result \in {"denied"} \cup Callbacks /\ LeaveListener(result)

\* The timeout cancels the waiting task only: the future is shielded, and a
\* callback that came in the same instant is overtaken.
WaitTimesOut == LeaveListener("timeout")

HandlersDone == \A c \in Conns : conn[c] # "reading"

\* wait_closed returns once every handler is done; then the result is dropped
\* and the command goes on with the callback, or fails.
ListenerClosed ==
    /\ pc = "closing" /\ HandlersDone
    /\ IF outcome \in Callbacks
       THEN /\ pc' = "exchanging"
            /\ result' = "none"
            /\ UNCHANGED <<bundle, issued, want, before>>
            /\ UNCHANGED <<accepting, conn, outcome, report>>
       ELSE /\ End("failed")
            /\ UNCHANGED <<bundle, issued, before>>

\* Variant: the returned state is not compared with the expected one.
StateAcceptedAlways == TRUE

\* exchange_authorization_code compares the states before it spends the code.
StateAccepted == outcome = "approved"

\* Monzo issues a token for the code.
CodeExchanged ==
    /\ pc = "exchanging" /\ StateAccepted
    /\ issued < MaxTokens
    /\ issued' = issued + 1
    /\ pc' = "issued"
    /\ UNCHANGED <<bundle, want, before, listenerVars, outcome, report>>

\* The token that was issued to this login.
NewToken == [client |-> want, number |-> issued]

TokenSaved ==
    /\ pc = "issued"
    /\ bundle' = [bundle EXCEPT !.token = NewToken]
    /\ End("saved")
    /\ UNCHANGED <<issued, before>>

\* Variant: logging out drops the whole bundle.
ClearedBundleGone == None

ClearedBundle == [bundle EXCEPT !.token = None]

\* A save that fails or is interrupted: it has changed nothing, or it has replaced
\* the bundle, and only the directory sync failed, or its thread went on alone.
SaveCutShort ==
    \/ UNCHANGED bundle
    \/ pc = "resolved" /\ bundle' = [bundle EXCEPT !.oauth = want]
    \/ pc = "issued" /\ bundle' = [bundle EXCEPT !.token = NewToken]
    \/ pc \in LogoutSteps /\ bundle' = ClearedBundle

\* Every other way out before the end: the OAuth client cannot be saved, the
\* redirect URI is refused, the port is taken, Monzo refuses or does not
\* answer, the state differs, the token cannot be saved.
LoginFails ==
    /\ pc \in {"resolved", "oauthSaved", "exchanging", "issued"}
    /\ End("failed")
    /\ SaveCutShort
    /\ UNCHANGED <<issued, before>>

\* Ctrl-C cancels the main task and the store is closed.  (The process may still
\* wait for the thread of the prompt or of the browser.)
Interrupt ==
    /\ pc # "idle"
    /\ End("interrupted")
    /\ SaveCutShort
    /\ UNCHANGED <<issued, before>>

-----------------------------------------------------------------------------
(* The callback listener: one handler task per connection.                    *)

Connect(c) ==
    /\ accepting
    /\ conn[c] = "none"
    /\ conn' = [conn EXCEPT ![c] = "reading"]
    /\ UNCHANGED <<bundle, issued, pc, want, before, accepting, result, outcome, report>>

Answer(c, status) ==
    /\ conn[c] = "reading"
    /\ conn' = [conn EXCEPT ![c] = status]
    /\ UNCHANGED <<bundle, issued, pc, want, before, accepting, outcome, report>>

\* Variant: a later callback replaces the first.
FirstAnyway == TRUE

\* The future exists and is not done: this callback is the first.
First == result = "pending"

ReceiveCallback(c, callback) ==
    IF First THEN Answer(c, "200") /\ result' = callback
             ELSE Answer(c, "409") /\ UNCHANGED result

\* `error` in the query: the login is refused, the browser still gets a 400.
ReceiveDenial(c) ==
    IF First THEN Answer(c, "400") /\ result' = "denied"
             ELSE Answer(c, "409") /\ UNCHANGED result

\* Not an HTTP GET of the callback path, a repeated or missing parameter, a
\* connection closed early.
ReceiveGarbage(c) == Answer(c, "400") /\ UNCHANGED result

\* Variant: a connection that sends nothing is waited for.
ReadTimesOutNever(c) == Answer(c, "400") /\ UNCHANGED result /\ FALSE

\* The five seconds a connection may take to send its request.
ReadTimesOut(c) == Answer(c, "400") /\ UNCHANGED result

-----------------------------------------------------------------------------
(* The logout command.                                                        *)

BeginLogout ==
    /\ pc = "idle"
    /\ bundle.token # None
    /\ pc' = "revoking"
    /\ before' = bundle
    /\ report' = "none"
    /\ UNCHANGED <<bundle, issued, want, listenerVars, outcome>>

\* Monzo invalidates the token, and aiomonzo clears the store.
RemoteLogout ==
    /\ pc = "revoking"
    /\ bundle' = ClearedBundle
    /\ End("cleared")
    /\ UNCHANGED <<issued, before>>

\* MonzoAuthenticationError: the token was not valid any more.
RemoteRefuses ==
    /\ pc = "revoking"
    /\ pc' = "clearing"
    /\ UNCHANGED <<bundle, issued, want, before, listenerVars, outcome, report>>

\* Any other MonzoClientError.
RemoteUnknown ==
    /\ pc = "revoking"
    /\ pc' = "clearingUnconfirmed"
    /\ UNCHANGED <<bundle, issued, want, before, listenerVars, outcome, report>>

\* Variant: an unconfirmed remote logout keeps the local token for a retry.
ClearLocallyIfConfirmed ==
    /\ pc \in {"clearing", "clearingUnconfirmed"}
    /\ bundle' = IF pc = "clearing" THEN ClearedBundle ELSE bundle
    /\ End(IF pc = "clearing" THEN "cleared" ELSE "unconfirmed")
    /\ UNCHANGED <<issued, before>>

ClearLocally ==
    /\ pc \in {"clearing", "clearingUnconfirmed"}
    /\ bundle' = ClearedBundle
    /\ End(IF pc = "clearing" THEN "cleared" ELSE "unconfirmed")
    /\ UNCHANGED <<issued, before>>

\* The store cannot save the cleared bundle.
ClearFails ==
    /\ pc \in LogoutSteps
    /\ End("failed")
    /\ SaveCutShort
    /\ UNCHANGED <<issued, before>>

-----------------------------------------------------------------------------
Login ==
    \/ SaveOAuth
    \/ StartListener
    \/ CallbackSeen
    \/ WaitTimesOut
    \/ ListenerClosed
    \/ CodeExchanged
    \/ TokenSaved
    \/ LoginFails

Logout ==
    \/ RemoteLogout
    \/ RemoteRefuses
    \/ RemoteUnknown
    \/ ClearLocally
    \/ ClearFails

Browser(c) ==
    \/ Connect(c)
    \/ \E callback \in Callbacks : ReceiveCallback(c, callback)
    \/ ReceiveDenial(c)
    \/ ReceiveGarbage(c)

User ==
    \/ \E supplied \in Clients \cup {None} : BeginLogin(supplied)
    \/ SecretTyped
    \/ SecretRefused
    \/ BrowserReturns
    \/ BeginLogout
    \/ Interrupt

Next ==
    \/ Login
    \/ Logout
    \/ \E c \in Conns : Browser(c) \/ ReadTimesOut(c)
    \/ User

Spec == Init /\ [][Next]_vars

\* The command runs, the listener's timers fire and Monzo's answers or the HTTP
\* client's timeouts arrive.  The user need never type a secret, a browser need
\* never return from webbrowser.open, nor send a callback.
Fairness ==
    /\ WF_vars(Login)
    /\ WF_vars(Logout)
    /\ \A c \in Conns : WF_vars(ReadTimesOut(c))

FairSpec == Spec /\ Fairness

-----------------------------------------------------------------------------
(* Properties.                                                                *)

\* One-shot: of all callbacks to one listener, interleaved as they may be, at
\* most one is told that it was received, and what the command works with is
\* that one's code and state, unless it had given up waiting.
OneCallbackAccepted ==
    /\ Cardinality({c \in Conns : conn[c] = "200"}) <= 1
    /\ outcome \in Callbacks => \E c \in Conns : conn[c] = "200"
    /\ result \in Callbacks /\ outcome \in Callbacks => outcome = result

\* A failed login does not cost the user the session: the directory holds the
\* token it held before, or, if all that failed is the saving of the token that
\* Monzo issued to this login, that one.
FailedLoginKeepsToken ==
    [][report' = "failed" /\ pc \in LoginSteps
        => \/ bundle'.token = before.token
           \/ pc = "issued" /\ bundle'.token = NewToken]_vars

\* A token only comes from the callback that carried this login's own state.
OnlyApprovedToken ==
    [][bundle'.token \notin {None, bundle.token} => outcome = "approved"]_vars

\* When login says "Monzo authorization saved", the bundle holds the OAuth
\* client of this login and the token Monzo issued to it; when logout says the
\* local credentials were cleared, confirmed by Monzo or not, the token is gone
\* and the OAuth client is still there.
ReportedIsDone ==
    [][report' # report =>
        /\ report' = "saved" => bundle' = [oauth |-> want, token |-> NewToken]
        /\ report' \in {"cleared", "unconfirmed"}
               => bundle' = [before EXCEPT !.token = None]]_vars

\* Every command ends, or waits for ever for the user to type the secret or for
\* webbrowser.open to return.  Whatever browsers send the listener, or do not:
\* a connection without a request delays the closing only until its read timeout.
CommandEnds == pc # "idle" ~> (pc = "idle" \/ [](pc \in Unbounded))

\* open_runtime finds a token, and it is not another OAuth client's.
Usable(b) == b.token # None /\ b.token.client = b.oauth

\* docs/wiki/Operations.md:124, "The new OAuth client configuration and token
\* set are saved together": a login that fails after its first save succeeded
\* leaves no new client beside the old token, with which the server would refuse
\* to start.
SavedTogether ==
    [][report' = "failed" /\ pc \in LoginSteps \ {"prompting", "resolved"} /\ Usable(before)
        => Usable(bundle')]_vars

-----------------------------------------------------------------------------
(* Why the properties hold: what AuthCommandsProofs shows to be inductive.    *)

\* What a command may have changed so far: a login the OAuth client, a logout
\* nothing; and a token is only held after this login's own callback, and once
\* Monzo has issued one.
CommandInOrder ==
    /\ pc \in LoginSteps => want # None /\ bundle.token = before.token
    /\ pc \in LoginSteps \ {"prompting", "resolved"} => bundle.oauth = want
    /\ pc \in LogoutSteps => bundle = before
    /\ pc = "issued" => outcome = "approved" /\ issued # 0

\* The accepted connections.
Accepted == {c \in Conns : conn[c] = "200"}

\* One future decides for all connections, and it is set once.
ListenerInOrder ==
    /\ \A c, d \in Accepted : c = d
    /\ result = "pending" \/ pc \in {"prompting", "resolved", "oauthSaved"} => Accepted = {}
    /\ result \in Callbacks \/ outcome \in Callbacks => Accepted # {}
    /\ outcome \in Callbacks => result \in {outcome, "none"}
    /\ pc \in {"idle", "prompting", "resolved", "oauthSaved"} =>
           /\ Accepted = {}
           /\ result = "none" /\ outcome = "none"
=============================================================================
