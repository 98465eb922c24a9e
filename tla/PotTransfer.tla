----------------------------- MODULE PotTransfer -----------------------------
(* The two tools that move money, monzo_deposit_into_pot and                  *)
(* monzo_withdraw_from_pot (src/src/monzo_mcp/mcp/tools.py): ask the human,   *)
(* post the transfer to Monzo under its dedupe_id, report how it ended.       *)
(*                                                                            *)
(* A transfer stands for its details (direction, pot, account, amount) and    *)
(* the dedupe_id that its client keeps for it; a client that is left without  *)
(* a result may call the tool again for the same transfer.  The human's       *)
(* answer reaches the server as an HTTP request of its own, which Uvicorn     *)
(* turns away when too many connections are open (limit_concurrency): those   *)
(* of the waiting calls, all others, and the one it comes by.  Monzo, the MCP *)
(* client and Uvicorn are external.                                           *)
EXTENDS FiniteSets, Naturals

CONSTANTS
    Transfers,  \* intended transfers
    Calls,      \* tool calls in progress at the same time
    None,       \* no transfer
    Limits,     \* what http_settings.max_concurrent_requests may be
    MaxOthers,  \* bound: connections besides the calls' and a request's own
    MaxCalls    \* bound: tool calls in all

ASSUME NoneAssumption == None \notin Transfers
ASSUME LimitsAssumption == Limits \subseteq Nat \ {0}
ASSUME NumbersAssumption == MaxOthers \in Nat /\ MaxCalls \in Nat

VARIABLES
    slots,     \* max_concurrent_requests of this server
    others,    \* connections of listening streams, of other requests, and idle ones
    call,      \* call[c]: the tool call in slot c
    streaming, \* the calls whose client still holds the response stream open
    decision,  \* decision[c]: what the human answered, on its way to the server
    late,      \* posts Monzo has yet to handle though nobody waits for them
    handled,   \* the dedupe ids Monzo knows
    moved,     \* moved[t]: how often Monzo moved the money of t
    begun,     \* tool calls so far
    approvals, \* approvals[t]: how often a human approved t
    posts,     \* posts[t]: tool calls that posted t to Monzo
    told       \* told[t]: the outcomes reported for t so far

monzoVars == <<late, handled, moved>>
countVars == <<begun, approvals, posts, told>>
serverVars == <<slots, others>>
vars == <<serverVars, call, streaming, decision, monzoVars, countVars>>

-----------------------------------------------------------------------------
Stages == {"asking",    \* ctx.elicit is out
           "approved",  \* _confirm_transfer returned
           "posted",    \* the POST is out, Monzo has not handled it
           "answered"}  \* Monzo has handled it, its answer is on the way

Decisions == {"approve", "decline"}
Outcomes == {"moved", "notApproved", "refused", "unknown"}

Idle == [stage |-> "idle", transfer |-> None]

\* Monzo's dedupe ids: one per transfer, if the tools pass on what they get.
DedupeIds == Transfers \cup Calls

TypeOK ==
    /\ slots \in Limits
    /\ others \in 0 .. MaxOthers
    /\ call \in [Calls -> [stage : Stages, transfer : Transfers] \cup {Idle}]
    /\ streaming \subseteq Calls
    /\ decision \in [Calls -> Decisions \cup {"none"}]
    /\ late \subseteq DedupeIds \X Transfers
    /\ handled \subseteq DedupeIds
    /\ moved \in [Transfers -> Nat]
    /\ begun \in 0 .. MaxCalls
    /\ approvals \in [Transfers -> Nat]
    /\ posts \in [Transfers -> Nat]
    /\ told \in [Transfers -> SUBSET Outcomes]

Init ==
    /\ slots \in Limits
    /\ others \in 0 .. MaxOthers
    /\ call = [c \in Calls |-> Idle]
    /\ streaming = {}
    /\ decision = [c \in Calls |-> "none"]
    /\ late = {}
    /\ handled = {}
    /\ moved = [t \in Transfers |-> 0]
    /\ begun = 0
    /\ approvals = [t \in Transfers |-> 0]
    /\ posts = [t \in Transfers |-> 0]
    /\ told = [t \in Transfers |-> {}]

At(c, stage) == call[c].stage = stage

\* Variant: one connection is kept in reserve.
ConnectionLimitReserved == slots - 1

\* What the server passes to Uvicorn as limit_concurrency.
ConnectionLimit == slots

\* The open connections besides the one that carries a new request.
Held == Cardinality(streaming) + others

\* Uvicorn has added that one before it compares their number with the limit.
Admitted == Held + 1 < ConnectionLimit

-----------------------------------------------------------------------------
(* The tool call.                                                             *)

\* Variant: a transfer that was approved once is not asked about again.
FirstStageOnce(t) == IF approvals[t] > 0 THEN "approved" ELSE "asking"

FirstStage(t) == "asking"

\* The client calls a tool for t, for the first time or again.
BeginCall(c, t) ==
    /\ At(c, "idle") /\ c \notin streaming
    /\ begun < MaxCalls
    /\ Admitted
    /\ call' = [call EXCEPT ![c] = [stage |-> FirstStage(t), transfer |-> t]]
    /\ streaming' = streaming \cup {c}
    /\ begun' = begun + 1
    /\ UNCHANGED <<serverVars, decision, monzoVars, approvals, posts, told>>

\* The tool returns or raises ToolError; the client reads it if it still streams.
Report(c, outcome) ==
    /\ call' = [call EXCEPT ![c] = Idle]
    /\ streaming' = streaming \ {c}
    /\ decision' = [decision EXCEPT ![c] = "none"]
    /\ told' = IF c \in streaming
               THEN [told EXCEPT ![call[c].transfer] = @ \cup {outcome}]
               ELSE told

\* AcceptedElicitation with confirm = True.
Approved(c) ==
    /\ At(c, "asking") /\ decision[c] = "approve" /\ Admitted
    /\ call' = [call EXCEPT ![c].stage = "approved"]
    /\ decision' = [decision EXCEPT ![c] = "none"]
    /\ approvals' = [approvals EXCEPT ![call[c].transfer] = @ + 1]
    /\ UNCHANGED <<serverVars, streaming, monzoVars, begun, posts, told>>

\* Declined, cancelled, or accepted with confirm = False.
Declined(c) ==
    /\ At(c, "asking") /\ decision[c] = "decline" /\ Admitted
    /\ Report(c, "notApproved")
    /\ UNCHANGED <<serverVars, monzoVars, begun, approvals, posts>>

\* McpError or ValidationError: the client has no form elicitation, or answers
\* with something else.
ElicitFails(c) ==
    /\ At(c, "asking") /\ decision[c] = "none"
    /\ Report(c, "notApproved")
    /\ UNCHANGED <<serverVars, monzoVars, begun, approvals, posts>>

\* One POST.  When Monzo rejects its access token before handling it, the client
\* repeats it once with the next one and the same dedupe_id: part of this post.
Post(c) ==
    /\ At(c, "approved")
    /\ call' = [call EXCEPT ![c].stage = "posted"]
    /\ posts' = [posts EXCEPT ![call[c].transfer] = @ + 1]
    /\ UNCHANGED <<serverVars, streaming, decision, monzoVars, begun, approvals, told>>

\* No usable access token: nothing was posted.
PostImpossible(c) ==
    /\ At(c, "approved")
    /\ Report(c, "refused")
    /\ UNCHANGED <<serverVars, monzoVars, begun, approvals, posts>>

\* Variant: every tool call makes up a dedupe id.
DedupeIdPerCall(c) == c

\* The dedupe_id argument, unchanged.
DedupeId(c) == call[c].transfer

\* Monzo moves the money unless it knows the dedupe id.
Apply(id, t) ==
    /\ handled' = handled \cup {id}
    /\ moved' = IF id \in handled THEN moved ELSE [moved EXCEPT ![t] = @ + 1]

MonzoHandles(c) ==
    /\ At(c, "posted")
    /\ Apply(DedupeId(c), call[c].transfer)
    /\ call' = [call EXCEPT ![c].stage = "answered"]
    /\ UNCHANGED <<serverVars, streaming, decision, late, countVars>>

\* A 4xx or 5xx answer: rejected token, missing permission, rate limit, no money.
\* An error of Monzo's own may follow the movement: it is reported as a refusal too.
MonzoRefuses(c) ==
    /\ At(c, "posted") \/ At(c, "answered")
    /\ Report(c, "refused")
    /\ UNCHANGED <<serverVars, monzoVars, begun, approvals, posts>>

AnswerArrives(c) ==
    /\ At(c, "answered")
    /\ Report(c, "moved")
    /\ UNCHANGED <<serverVars, monzoVars, begun, approvals, posts>>

\* Variant: the timeout gets an outcome of its own.
SilenceOutcomeUnnamed == "timeout"

\* Variant: no answer is taken for success.
SilenceOutcomeMoved == "moved"

\* MonzoTimeoutError and MonzoTransportError become errors.
SilenceOutcome == "unknown"

\* Variant: the HTTP client has no read timeout.
PostTimesOutNever(c) ==
    /\ At(c, "answered") /\ UNCHANGED late
    /\ Report(c, SilenceOutcome)
    /\ UNCHANGED <<serverVars, handled, moved, begun, approvals, posts>>

\* No answer in time, or none that can be read: it was lost, the request was, or
\* Monzo will handle the request yet.
PostTimesOut(c) ==
    /\ \/ At(c, "answered") /\ UNCHANGED late
       \/ /\ At(c, "posted")
          /\ late' \in {late, late \cup {<<DedupeId(c), call[c].transfer>>}}
    /\ Report(c, SilenceOutcome)
    /\ UNCHANGED <<serverVars, handled, moved, begun, approvals, posts>>

-----------------------------------------------------------------------------
(* The environment.                                                           *)

\* The human decides; the client posts the answer.
Decide(c, d) ==
    /\ At(c, "asking") /\ decision[c] = "none" /\ c \in streaming
    /\ decision' = [decision EXCEPT ![c] = d]
    /\ UNCHANGED <<serverVars, call, streaming, monzoVars, countVars>>

\* Too many connections: Uvicorn answers 503 and the tool goes on waiting.
AnswerTurnedAway(c) ==
    /\ decision[c] # "none" /\ ~Admitted
    /\ decision' = [decision EXCEPT ![c] = "none"]
    /\ UNCHANGED <<serverVars, call, streaming, monzoVars, countVars>>

\* The client goes away; the tool call runs on in its session.
Disconnect(c) ==
    /\ c \in streaming
    /\ streaming' = streaming \ {c}
    /\ UNCHANGED <<serverVars, call, decision, monzoVars, countVars>>

\* The session ends, or the server stops, and the call is cancelled.
Cancel(c) ==
    /\ ~At(c, "idle")
    /\ \/ UNCHANGED late
       \/ At(c, "posted") /\ late' = late \cup {<<DedupeId(c), call[c].transfer>>}
    /\ call' = [call EXCEPT ![c] = Idle]
    /\ streaming' = streaming \ {c}
    /\ decision' = [decision EXCEPT ![c] = "none"]
    /\ UNCHANGED <<serverVars, handled, moved, countVars>>

\* Clients open and close connections for anything else.
OthersChange ==
    /\ others' \in (0 .. MaxOthers) \ {others}
    /\ UNCHANGED <<slots, call, streaming, decision, monzoVars, countVars>>

HandleLate ==
    \E post \in late :
        /\ Apply(post[1], post[2])
        /\ late' = late \ {post}
        /\ UNCHANGED <<serverVars, call, streaming, decision, countVars>>

-----------------------------------------------------------------------------
AnswerReaches(c) == Approved(c) \/ Declined(c)

Execute(c) ==
    \/ Post(c)
    \/ PostImpossible(c)
    \/ MonzoHandles(c)
    \/ MonzoRefuses(c)
    \/ AnswerArrives(c)
    \/ PostTimesOut(c)

Client(c) ==
    \/ \E t \in Transfers : BeginCall(c, t)
    \/ \E d \in Decisions : Decide(c, d)
    \/ Disconnect(c)

Step(c) ==
    \/ Client(c)
    \/ AnswerReaches(c)
    \/ AnswerTurnedAway(c)
    \/ ElicitFails(c)
    \/ Execute(c)
    \/ Cancel(c)

Next == HandleLate \/ OthersChange \/ \E c \in Calls : Step(c)

Spec == Init /\ [][Next]_vars

\* The event loop runs an approved call, the HTTP client's timeouts fire, and the
\* answer that a client has posted gets to Uvicorn, which lets it in or not.
\* Monzo need never answer and a human need never decide.
Fairness ==
    \A c \in Calls : /\ WF_vars(Post(c) \/ PostImpossible(c))
                     /\ WF_vars(PostTimesOut(c))
                     /\ WF_vars(AnswerReaches(c) \/ AnswerTurnedAway(c))

FairSpec == Spec /\ Fairness

-----------------------------------------------------------------------------
(* Properties.                                                                *)

\* However often a transfer is called again, and however late Monzo handles a
\* request that nobody waits for any more, its money moves at most once.
MovedAtMostOnce == \A t \in Transfers : moved[t] <= 1

\* Every post to Monzo has an approval of its own: a retry is confirmed again,
\* and no approval serves two calls.  So no money moves that nobody approved.
EachPostApproved ==
    \A t \in Transfers : /\ posts[t] <= approvals[t]
                         /\ moved[t] > 0 => posts[t] > 0

\* What the tools promise about each transfer (see MoneyPromise): it is moved only
\* once, with approval, is never moved back, and success is reported only after
\* it, of that call or of an earlier one; repeated calls, lost answers and late
\* handling are invisible at that level.
Promise == INSTANCE MoneyPromise WITH
    approved <- [t \in Transfers |-> approvals[t] > 0],
    confirmed <- {t \in Transfers : "moved" \in told[t]}
PromiseKept == Promise!Spec

\* The server allows more connections than the calls' streams, the others and the
\* one that an answer comes by.
RoomForAnswers == slots > Cardinality(Calls) + MaxOthers + 1

\* There, no human's answer is turned away: calls that wait for such answers
\* cannot keep them out.
NoAnswerTurnedAway == [][RoomForAnswers => \A c \in Calls : ~AnswerTurnedAway(c)]_vars

\* Once the human has approved, the tool call ends, with or without Monzo; and where
\* there is room for answers, once the human has answered, whichever way.
AnsweredCallsEnd ==
    \A c \in Calls :
        (At(c, "approved") \/ (decision[c] # "none" /\ RoomForAnswers)) ~> At(c, "idle")

-----------------------------------------------------------------------------
(* Why the properties hold: what PotTransferProofs shows to be inductive.     *)

\* Every request that reached or may yet reach Monzo carries the id of its
\* transfer, and Monzo has moved exactly the transfers whose ids it knows.
IdsNameTransfers ==
    /\ \A post \in late : post[1] = post[2]
    /\ handled \subseteq Transfers
    /\ \A t \in Transfers : moved[t] = IF t \in handled THEN 1 ELSE 0

\* Nothing is out, or was handled, that was not posted; and what is reported as
\* done, or about to be, was handled.
PostedBeforeHandled ==
    /\ \A post \in late : posts[post[2]] > 0
    /\ \A c \in Calls : At(c, "posted") \/ At(c, "answered") => posts[call[c].transfer] > 0
    /\ \A t \in handled : posts[t] > 0
    /\ \A c \in Calls : At(c, "answered") => call[c].transfer \in handled
    /\ \A t \in Transfers : "moved" \in told[t] => t \in handled

\* The calls for t that hold an approval they have not used.
Unused(t) == {c \in Calls : At(c, "approved") /\ call[c].transfer = t}

ApprovalsCounted ==
    \A t \in Transfers : /\ IsFiniteSet(Unused(t))
                         /\ posts[t] + Cardinality(Unused(t)) <= approvals[t]
=============================================================================
