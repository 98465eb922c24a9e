-------------------------- MODULE PotTransferProofs --------------------------
(* What the pot tools guarantee for every number of transfers, of concurrent  *)
(* and of repeated tool calls.  MCPotTransfer checks the same formulas on two *)
(* transfers and two calls.                                                   *)
EXTENDS PotTransfer, FiniteSetTheorems, TLAPS

LEMMA NextCases ==
    ASSUME [Next]_vars
    PROVE  HandleLate \/ (\E c \in Calls : Step(c)) \/ OthersChange \/ UNCHANGED vars
BY DEF Next

-----------------------------------------------------------------------------
(* Type correctness.                                                          *)

LEMMA TypeInit == Init => TypeOK
BY NumbersAssumption DEF Init, TypeOK

LEMMA CallTypes ==
    ASSUME TypeOK, NEW c \in Calls
    PROVE  /\ At(c, "idle") => call[c] = Idle
           /\ ~At(c, "idle") => call[c] \in [stage : Stages, transfer : Transfers]
           /\ ~At(c, "idle") => call[c].transfer \in Transfers
BY DEF TypeOK, At, Idle, Stages

LEMMA ReportTypes ==
    ASSUME TypeOK, NEW c \in Calls, ~At(c, "idle"), NEW o \in Outcomes, Report(c, o)
    PROVE  /\ call' \in [Calls -> [stage : Stages, transfer : Transfers] \cup {Idle}]
           /\ streaming' \subseteq Calls
           /\ decision' \in [Calls -> Decisions \cup {"none"}]
           /\ told' \in [Transfers -> SUBSET Outcomes]
BY CallTypes DEF TypeOK, Report

LEMMA ApplyTypes ==
    ASSUME TypeOK, NEW id \in DedupeIds, NEW t \in Transfers, Apply(id, t)
    PROVE  handled' \subseteq DedupeIds /\ moved' \in [Transfers -> Nat]
BY DEF TypeOK, Apply

LEMMA TypeClient == ASSUME TypeOK, NEW c \in Calls, Client(c) PROVE TypeOK'
<1> USE DEF serverVars, monzoVars, countVars
<1>1. ASSUME NEW t \in Transfers, BeginCall(c, t) PROVE TypeOK'
  <2>1. [stage |-> FirstStage(t), transfer |-> t] \in [stage : Stages, transfer : Transfers]
    BY DEF FirstStage, Stages
  <2>2. begun + 1 \in 0 .. MaxCalls
    BY <1>1, NumbersAssumption DEF BeginCall, TypeOK
  <2> QED BY <1>1, <2>1, <2>2 DEF BeginCall, TypeOK
<1>2. ASSUME NEW d \in Decisions, Decide(c, d) PROVE TypeOK'
  BY <1>2 DEF Decide, TypeOK
<1>3. CASE Disconnect(c)
  BY <1>3 DEF Disconnect, TypeOK
<1> QED BY <1>1, <1>2, <1>3 DEF Client

LEMMA TypeAnswers ==
    ASSUME TypeOK, NEW c \in Calls,
           AnswerReaches(c) \/ AnswerTurnedAway(c) \/ ElicitFails(c)
    PROVE  TypeOK'
<1> USE DEF serverVars, monzoVars, countVars
<1>1. CASE Approved(c)
  <2>1. [call[c] EXCEPT !.stage = "approved"] \in [stage : Stages, transfer : Transfers]
    BY <1>1, CallTypes DEF Approved, At, Stages
  <2>2. call[c].transfer \in Transfers
    BY <1>1, CallTypes DEF Approved, At
  <2> QED BY <1>1, <2>1, <2>2 DEF Approved, TypeOK
<1>2. CASE Declined(c) \/ ElicitFails(c)
  <2>1. ~At(c, "idle") /\ Report(c, "notApproved")
    BY <1>2 DEF Declined, ElicitFails, At
  <2> QED BY <1>2, <2>1, ReportTypes DEF Declined, ElicitFails, TypeOK, Outcomes
<1>3. CASE AnswerTurnedAway(c)
  BY <1>3 DEF AnswerTurnedAway, TypeOK
<1> QED BY <1>1, <1>2, <1>3 DEF AnswerReaches

LEMMA TypeExecute == ASSUME TypeOK, NEW c \in Calls, Execute(c) PROVE TypeOK'
<1> USE DEF serverVars, monzoVars, countVars, Outcomes
<1>1. CASE Post(c)
  <2>1. /\ [call[c] EXCEPT !.stage = "posted"] \in [stage : Stages, transfer : Transfers]
        /\ call[c].transfer \in Transfers
    BY <1>1, CallTypes DEF Post, At, Stages
  <2> QED BY <1>1, <2>1 DEF Post, TypeOK
<1>2. CASE PostImpossible(c)
  BY <1>2, ReportTypes DEF PostImpossible, At, TypeOK
<1>3. CASE MonzoHandles(c)
  <2>1. /\ [call[c] EXCEPT !.stage = "answered"] \in [stage : Stages, transfer : Transfers]
        /\ call[c].transfer \in Transfers
    BY <1>3, CallTypes DEF MonzoHandles, At, Stages
  <2>2. handled' \subseteq DedupeIds /\ moved' \in [Transfers -> Nat]
    BY <1>3, <2>1, ApplyTypes DEF MonzoHandles, DedupeId, DedupeIds
  <2> QED BY <1>3, <2>1, <2>2 DEF MonzoHandles, TypeOK
<1>4. CASE MonzoRefuses(c)
  BY <1>4, ReportTypes DEF MonzoRefuses, At, TypeOK
<1>5. CASE AnswerArrives(c)
  BY <1>5, ReportTypes DEF AnswerArrives, At, TypeOK
<1>6. CASE PostTimesOut(c)
  <2>1. ~At(c, "idle") /\ Report(c, "unknown")
    BY <1>6 DEF PostTimesOut, SilenceOutcome, At
  <2>2. call[c].transfer \in Transfers
    BY <2>1, CallTypes
  <2>3. late' \subseteq DedupeIds \X Transfers
    BY <1>6, <2>2 DEF PostTimesOut, DedupeId, DedupeIds, TypeOK
  <2> QED BY <1>6, <2>1, <2>3, ReportTypes DEF PostTimesOut, TypeOK
<1> QED BY <1>1, <1>2, <1>3, <1>4, <1>5, <1>6 DEF Execute

LEMMA TypeCancel == ASSUME TypeOK, NEW c \in Calls, Cancel(c) PROVE TypeOK'
<1>1. late' \subseteq DedupeIds \X Transfers
  BY CallTypes DEF Cancel, DedupeId, DedupeIds, TypeOK
<1> QED BY <1>1 DEF Cancel, TypeOK, serverVars, countVars

LEMMA TypeHandleLate == ASSUME TypeOK, HandleLate PROVE TypeOK'
<1>1. PICK post \in late : /\ Apply(post[1], post[2])
                           /\ late' = late \ {post}
                           /\ UNCHANGED <<serverVars, call, streaming, decision, countVars>>
  BY DEF HandleLate
<1>2. post[1] \in DedupeIds /\ post[2] \in Transfers
  BY <1>1 DEF TypeOK
<1> QED BY <1>1, <1>2, ApplyTypes DEF TypeOK, serverVars, countVars

LEMMA TypeNext == ASSUME TypeOK, [Next]_vars PROVE TypeOK'
<1>1. ASSUME NEW c \in Calls, Step(c) PROVE TypeOK'
  BY <1>1, TypeClient, TypeAnswers, TypeExecute, TypeCancel DEF Step
<1>2. CASE UNCHANGED vars
  BY <1>2 DEF TypeOK, vars, serverVars, monzoVars, countVars
<1>3. CASE OthersChange
  BY <1>3 DEF OthersChange, TypeOK, monzoVars, countVars
<1> QED BY <1>1, <1>2, <1>3, TypeHandleLate, NextCases

\* Every variable of the pot tools keeps its type.
THEOREM TypeCorrect == Spec => []TypeOK
BY TypeInit, TypeNext, PTL DEF Spec

-----------------------------------------------------------------------------
(* Money moves at most once: every request carries the id of its transfer.    *)

\* What a step does to Monzo and to the requests nobody waits for.
MonzoStep ==
    \/ UNCHANGED <<handled, moved>> /\ late' \subseteq late
    \/ /\ UNCHANGED <<handled, moved>>
       /\ \E c \in Calls : At(c, "posted")
                           /\ late' = late \cup {<<DedupeId(c), call[c].transfer>>}
    \/ /\ late' = late
       /\ \E c \in Calls : MonzoHandles(c)
    \/ HandleLate

LEMMA MonzoSteps == ASSUME [Next]_vars PROVE MonzoStep
<1> USE DEF MonzoStep, monzoVars
<1>1. ASSUME NEW c \in Calls, Client(c) PROVE MonzoStep
  BY <1>1 DEF Client, BeginCall, Decide, Disconnect
<1>2. ASSUME NEW c \in Calls, AnswerReaches(c) \/ AnswerTurnedAway(c) \/ ElicitFails(c)
      PROVE  MonzoStep
  BY <1>2 DEF AnswerReaches, Approved, Declined, AnswerTurnedAway, ElicitFails
<1>3. ASSUME NEW c \in Calls, Execute(c) PROVE MonzoStep
  <2>1. CASE PostTimesOut(c)
    BY <2>1 DEF PostTimesOut
  <2>2. CASE MonzoHandles(c)
    BY <2>2 DEF MonzoHandles
  <2> QED BY <1>3, <2>1, <2>2 DEF Execute, Post, PostImpossible, MonzoRefuses, AnswerArrives
<1>4. ASSUME NEW c \in Calls, Cancel(c) PROVE MonzoStep
  BY <1>4 DEF Cancel
<1>5. CASE UNCHANGED vars
  BY <1>5 DEF vars
<1>6. CASE OthersChange
  BY <1>6 DEF OthersChange
<1> QED BY <1>1, <1>2, <1>3, <1>4, <1>5, <1>6, NextCases DEF Step

LEMMA ApplyOnce ==
    ASSUME TypeOK, IdsNameTransfers, NEW t \in Transfers, Apply(t, t)
    PROVE  /\ handled' = handled \cup {t}
           /\ \A u \in Transfers : moved'[u] = IF u \in handled' THEN 1 ELSE 0
BY DEF TypeOK, IdsNameTransfers, Apply

LEMMA IdsInit == Init => IdsNameTransfers
BY DEF Init, IdsNameTransfers

LEMMA IdsNext ==
    ASSUME TypeOK, IdsNameTransfers, [Next]_vars
    PROVE  IdsNameTransfers'
<1>1. CASE UNCHANGED <<handled, moved>> /\ late' \subseteq late
  BY <1>1 DEF IdsNameTransfers
<1>2. ASSUME NEW c \in Calls, UNCHANGED <<handled, moved>>,
             late' = late \cup {<<DedupeId(c), call[c].transfer>>}
      PROVE  IdsNameTransfers'
  BY <1>2 DEF IdsNameTransfers, DedupeId
<1>3. ASSUME NEW c \in Calls, MonzoHandles(c), late' = late PROVE IdsNameTransfers'
  <2>1. call[c].transfer \in Transfers
    BY <1>3, CallTypes DEF MonzoHandles, At
  <2>2. Apply(call[c].transfer, call[c].transfer)
    BY <1>3 DEF MonzoHandles, DedupeId
  <2> QED BY <1>3, <2>1, <2>2, ApplyOnce DEF IdsNameTransfers
<1>4. CASE HandleLate
  <2>1. PICK post \in late : Apply(post[1], post[2]) /\ late' = late \ {post}
    BY <1>4 DEF HandleLate
  <2>2. post[1] = post[2] /\ post[2] \in Transfers
    BY <2>1 DEF IdsNameTransfers, TypeOK
  <2> QED BY <2>1, <2>2, ApplyOnce DEF IdsNameTransfers
<1> QED BY <1>1, <1>2, <1>3, <1>4, MonzoSteps DEF MonzoStep

\* However often a tool is called again, and however late Monzo handles requests
\* that nobody waits for, the money of each transfer moves at most once.
THEOREM MovesOnce == Spec => []MovedAtMostOnce
<1>1. Init => TypeOK /\ IdsNameTransfers
  BY TypeInit, IdsInit
<1>2. TypeOK /\ IdsNameTransfers /\ [Next]_vars => (TypeOK /\ IdsNameTransfers)'
  BY TypeNext, IdsNext
<1>3. TypeOK /\ IdsNameTransfers => MovedAtMostOnce
  BY DEF IdsNameTransfers, MovedAtMostOnce
<1> QED BY <1>1, <1>2, <1>3, PTL DEF Spec

-----------------------------------------------------------------------------
(* Nothing is handled that was not posted, nothing confirmed that was not     *)
(* handled.                                                                   *)

LEMMA PostedInit == Init => PostedBeforeHandled
BY DEF Init, PostedBeforeHandled, At, Idle

\* Reporting an outcome leaves the other calls alone.
LEMMA ReportKeeps ==
    ASSUME TypeOK, PostedBeforeHandled, NEW c \in Calls, ~At(c, "idle"),
           NEW o \in Outcomes, Report(c, o),
           o = "moved" => call[c].transfer \in handled,
           UNCHANGED <<posts, handled>>
    PROVE  /\ \A d \in Calls : At(d, "posted")' \/ At(d, "answered")'
                                   => posts'[call'[d].transfer] > 0
           /\ \A d \in Calls : At(d, "answered")' => call'[d].transfer \in handled'
           /\ \A t \in Transfers : "moved" \in told'[t] => t \in handled'
<1>1. \A d \in Calls : call'[d] = IF d = c THEN Idle ELSE call[d]
  BY DEF Report, TypeOK
<1>2. \A t \in Transfers : \/ told'[t] = told[t]
                           \/ (t = call[c].transfer /\ told'[t] = told[t] \cup {o})
  BY DEF Report, TypeOK
<1> QED BY <1>1, <1>2 DEF PostedBeforeHandled, At, Idle

LEMMA PostedClient ==
    ASSUME TypeOK, PostedBeforeHandled, NEW c \in Calls, Client(c)
    PROVE  PostedBeforeHandled'
<1>1. ASSUME NEW t \in Transfers, BeginCall(c, t) PROVE PostedBeforeHandled'
  <2>1. \A d \in Calls : call'[d] = IF d = c THEN [stage |-> "asking", transfer |-> t]
                                             ELSE call[d]
    BY <1>1 DEF BeginCall, FirstStage, TypeOK
  <2> QED BY <1>1, <2>1 DEF BeginCall, PostedBeforeHandled, At, monzoVars
<1>2. CASE (\E d \in Decisions : Decide(c, d)) \/ Disconnect(c)
  BY <1>2 DEF Decide, Disconnect, PostedBeforeHandled, At, serverVars, monzoVars, countVars
<1> QED BY <1>1, <1>2 DEF Client

LEMMA PostedAnswers ==
    ASSUME TypeOK, PostedBeforeHandled, NEW c \in Calls,
           AnswerReaches(c) \/ AnswerTurnedAway(c) \/ ElicitFails(c)
    PROVE  PostedBeforeHandled'
<1>1. CASE Approved(c)
  <2>1. \A d \in Calls : call'[d] = IF d = c THEN [call[c] EXCEPT !.stage = "approved"]
                                             ELSE call[d]
    BY <1>1 DEF Approved, TypeOK
  <2>2. call'[c].stage = "approved"
    BY <1>1, <2>1, CallTypes DEF Approved, At
  <2> QED BY <1>1, <2>1, <2>2 DEF Approved, PostedBeforeHandled, At, monzoVars
<1>2. CASE Declined(c) \/ ElicitFails(c)
  <2>1. ~At(c, "idle") /\ Report(c, "notApproved")
    BY <1>2 DEF Declined, ElicitFails, At
  <2> QED BY <1>2, <2>1, ReportKeeps
        DEF Declined, ElicitFails, PostedBeforeHandled, Outcomes, monzoVars
<1>3. CASE AnswerTurnedAway(c)
  BY <1>3 DEF AnswerTurnedAway, PostedBeforeHandled, At, serverVars, monzoVars, countVars
<1> QED BY <1>1, <1>2, <1>3 DEF AnswerReaches

LEMMA PostedExecute ==
    ASSUME TypeOK, PostedBeforeHandled, NEW c \in Calls, Execute(c)
    PROVE  PostedBeforeHandled'
<1> USE DEF serverVars, monzoVars, countVars, Outcomes
<1>1. CASE Post(c)
  <2>1. call[c].transfer \in Transfers
    BY <1>1, CallTypes DEF Post, At
  <2>2. \A d \in Calls : call'[d] = IF d = c THEN [call[c] EXCEPT !.stage = "posted"]
                                             ELSE call[d]
    BY <1>1 DEF Post, TypeOK
  <2>3. call[c] \in [stage : Stages, transfer : Transfers]
    BY <1>1, CallTypes DEF Post, At
  <2>4. /\ posts'[call[c].transfer] > 0
        /\ \A t \in Transfers : posts[t] > 0 => posts'[t] > 0
    BY <1>1, <2>1 DEF Post, TypeOK
  <2>5. ASSUME NEW d \in Calls, At(d, "posted")' \/ At(d, "answered")'
        PROVE  posts'[call'[d].transfer] > 0
    BY <2>2, <2>3, <2>4, <2>5, CallTypes DEF PostedBeforeHandled, At
  <2>6. ASSUME NEW d \in Calls, At(d, "answered")' PROVE call'[d].transfer \in handled'
    BY <1>1, <2>2, <2>3, <2>6 DEF Post, PostedBeforeHandled, At
  <2>7. \A post \in late' : posts'[post[2]] > 0
    BY <1>1, <2>4 DEF Post, PostedBeforeHandled, TypeOK
  <2>8. \A t \in handled' : posts'[t] > 0
    BY <1>1, <2>4 DEF Post, PostedBeforeHandled, TypeOK
  <2> QED BY <1>1, <2>5, <2>6, <2>7, <2>8 DEF Post, PostedBeforeHandled
<1>2. CASE PostImpossible(c) \/ MonzoRefuses(c)
  <2>1. ~At(c, "idle") /\ Report(c, "refused")
    BY <1>2 DEF PostImpossible, MonzoRefuses, At
  <2> QED BY <1>2, <2>1, ReportKeeps DEF PostImpossible, MonzoRefuses, PostedBeforeHandled
<1>3. CASE MonzoHandles(c)
  <2>1. \A d \in Calls : call'[d] = IF d = c THEN [call[c] EXCEPT !.stage = "answered"]
                                             ELSE call[d]
    BY <1>3 DEF MonzoHandles, TypeOK
  <2>2. call[c] \in [stage : Stages, transfer : Transfers]
    BY <1>3, CallTypes DEF MonzoHandles, At
  <2>3. handled' = handled \cup {call[c].transfer} /\ posts[call[c].transfer] > 0
    BY <1>3 DEF MonzoHandles, Apply, DedupeId, PostedBeforeHandled
  <2> QED BY <1>3, <2>1, <2>2, <2>3 DEF MonzoHandles, PostedBeforeHandled, At
<1>4. CASE AnswerArrives(c)
  <2>1. ~At(c, "idle") /\ Report(c, "moved") /\ call[c].transfer \in handled
    BY <1>4 DEF AnswerArrives, At, PostedBeforeHandled
  <2> QED BY <1>4, <2>1, ReportKeeps DEF AnswerArrives, PostedBeforeHandled
<1>5. CASE PostTimesOut(c)
  <2>1. ~At(c, "idle") /\ Report(c, "unknown")
    BY <1>5 DEF PostTimesOut, SilenceOutcome, At
  <2>2. \A post \in late' : posts'[post[2]] > 0
    BY <1>5 DEF PostTimesOut, PostedBeforeHandled
  <2> QED BY <1>5, <2>1, <2>2, ReportKeeps DEF PostTimesOut, PostedBeforeHandled
<1> QED BY <1>1, <1>2, <1>3, <1>4, <1>5 DEF Execute

LEMMA PostedCancel ==
    ASSUME TypeOK, PostedBeforeHandled, NEW c \in Calls, Cancel(c)
    PROVE  PostedBeforeHandled'
<1>1. \A d \in Calls : call'[d] = IF d = c THEN Idle ELSE call[d]
  BY DEF Cancel, TypeOK
<1>2. \A post \in late' : posts'[post[2]] > 0
  BY DEF Cancel, PostedBeforeHandled, countVars
<1> QED BY <1>1, <1>2 DEF Cancel, PostedBeforeHandled, At, Idle, countVars

LEMMA PostedHandleLate ==
    ASSUME TypeOK, IdsNameTransfers, PostedBeforeHandled, HandleLate
    PROVE  PostedBeforeHandled'
<1>1. PICK post \in late : /\ Apply(post[1], post[2])
                           /\ late' = late \ {post}
                           /\ UNCHANGED <<serverVars, call, streaming, decision, countVars>>
  BY DEF HandleLate
<1>2. handled' = handled \cup {post[2]} /\ posts[post[2]] > 0
  BY <1>1 DEF Apply, IdsNameTransfers, PostedBeforeHandled
<1> QED BY <1>1, <1>2 DEF PostedBeforeHandled, At, countVars

LEMMA PostedNext ==
    ASSUME TypeOK, IdsNameTransfers, PostedBeforeHandled, [Next]_vars
    PROVE  PostedBeforeHandled'
<1>1. ASSUME NEW c \in Calls, Step(c) PROVE PostedBeforeHandled'
  BY <1>1, PostedClient, PostedAnswers, PostedExecute, PostedCancel DEF Step
<1>2. CASE UNCHANGED vars
  BY <1>2 DEF PostedBeforeHandled, At, vars, serverVars, monzoVars, countVars
<1>3. CASE OthersChange
  BY <1>3 DEF OthersChange, PostedBeforeHandled, At, monzoVars, countVars
<1> QED BY <1>1, <1>2, <1>3, PostedHandleLate, NextCases

-----------------------------------------------------------------------------
(* Every post has an approval of its own.                                     *)

LEMMA CountedInit == Init => ApprovalsCounted
<1> SUFFICES ASSUME Init, NEW t \in Transfers
             PROVE  IsFiniteSet(Unused(t)) /\ posts[t] + Cardinality(Unused(t)) <= approvals[t]
  BY DEF ApprovalsCounted
<1>1. Unused(t) = {}
  BY DEF Init, Unused, At, Idle
<1>2. posts[t] = 0 /\ approvals[t] = 0
  BY DEF Init
<1> QED BY <1>1, <1>2, FS_EmptySet

\* Of finitely many unused approvals some may be given up.
LEMMA FewerUnused ==
    ASSUME TypeOK, ApprovalsCounted, UNCHANGED <<posts, approvals>>,
           \A t \in Transfers : Unused(t)' \subseteq Unused(t)
    PROVE  ApprovalsCounted'
<1> SUFFICES ASSUME NEW t \in Transfers
             PROVE  /\ IsFiniteSet(Unused(t)')
                    /\ posts'[t] + Cardinality(Unused(t)') <= approvals'[t]
  BY DEF ApprovalsCounted
<1>1. IsFiniteSet(Unused(t)) /\ posts[t] + Cardinality(Unused(t)) <= approvals[t]
  BY DEF ApprovalsCounted
<1>2. /\ IsFiniteSet(Unused(t)')
      /\ Cardinality(Unused(t)') <= Cardinality(Unused(t))
  BY <1>1, FS_Subset
<1>3. Cardinality(Unused(t)) \in Nat /\ Cardinality(Unused(t)') \in Nat
  BY <1>1, <1>2, FS_CardinalityType
<1> QED BY <1>1, <1>2, <1>3 DEF TypeOK

\* One more call holds an approval, newly given.
LEMMA CountedApproved ==
    ASSUME TypeOK, ApprovalsCounted, NEW c \in Calls, Approved(c)
    PROVE  ApprovalsCounted'
<1> DEFINE u == call[c].transfer
<1>1. u \in Transfers /\ call[c] \in [stage : Stages, transfer : Transfers]
  BY CallTypes DEF Approved, At
<1>2. \A d \in Calls : call'[d] = IF d = c THEN [call[c] EXCEPT !.stage = "approved"]
                                           ELSE call[d]
  BY DEF Approved, TypeOK
<1>3. \A t \in Transfers : t = u => c \notin Unused(t) /\ Unused(t)' = Unused(t) \cup {c}
  BY <1>1, <1>2 DEF Unused, At, Approved
<1>4. \A t \in Transfers \ {u} : Unused(t)' = Unused(t)
  BY <1>1, <1>2 DEF Unused, At, Approved
<1>5. /\ \A t \in Transfers : approvals'[t] = IF t = u THEN approvals[t] + 1 ELSE approvals[t]
      /\ posts' = posts
  BY <1>1 DEF Approved, TypeOK
<1>6. ASSUME NEW t \in Transfers
      PROVE  /\ IsFiniteSet(Unused(t)')
             /\ posts'[t] + Cardinality(Unused(t)') <= approvals'[t]
  <2>1. /\ IsFiniteSet(Unused(t)) /\ Cardinality(Unused(t)) \in Nat
        /\ posts[t] + Cardinality(Unused(t)) <= approvals[t]
    BY FS_CardinalityType DEF ApprovalsCounted
  <2>2. posts[t] \in Nat /\ approvals[t] \in Nat
    BY DEF TypeOK
  <2>3. CASE t = u
    <3>1. c \notin Unused(t) /\ Unused(t)' = Unused(t) \cup {c}
      BY <1>3, <2>3
    <3>2. /\ IsFiniteSet(Unused(t)')
          /\ Cardinality(Unused(t)') = Cardinality(Unused(t)) + 1
      BY <2>1, <3>1, FS_AddElement
    <3> QED BY <1>5, <2>1, <2>2, <2>3, <3>2
  <2>4. CASE t # u
    BY <1>4, <1>5, <2>1, <2>4
  <2> QED BY <2>3, <2>4
<1> QED BY <1>6 DEF ApprovalsCounted

\* One call turns its approval into its post.
LEMMA CountedPost ==
    ASSUME TypeOK, ApprovalsCounted, NEW c \in Calls, Post(c)
    PROVE  ApprovalsCounted'
<1> DEFINE u == call[c].transfer
<1>1. u \in Transfers /\ call[c] \in [stage : Stages, transfer : Transfers]
  BY CallTypes DEF Post, At
<1>2. \A d \in Calls : call'[d] = IF d = c THEN [call[c] EXCEPT !.stage = "posted"]
                                           ELSE call[d]
  BY DEF Post, TypeOK
<1>3. \A t \in Transfers : t = u => c \in Unused(t) /\ Unused(t)' = Unused(t) \ {c}
  BY <1>1, <1>2 DEF Unused, At, Post
<1>4. \A t \in Transfers \ {u} : Unused(t)' = Unused(t)
  BY <1>1, <1>2 DEF Unused, At, Post
<1>5. /\ \A t \in Transfers : posts'[t] = IF t = u THEN posts[t] + 1 ELSE posts[t]
      /\ approvals' = approvals
  BY <1>1 DEF Post, TypeOK
<1>6. ASSUME NEW t \in Transfers
      PROVE  /\ IsFiniteSet(Unused(t)')
             /\ posts'[t] + Cardinality(Unused(t)') <= approvals'[t]
  <2>1. /\ IsFiniteSet(Unused(t)) /\ Cardinality(Unused(t)) \in Nat
        /\ posts[t] + Cardinality(Unused(t)) <= approvals[t]
    BY FS_CardinalityType DEF ApprovalsCounted
  <2>2. posts[t] \in Nat /\ approvals[t] \in Nat
    BY DEF TypeOK
  <2>3. CASE t = u
    <3>1. c \in Unused(t) /\ Unused(t)' = Unused(t) \ {c}
      BY <1>3, <2>3
    <3>2. /\ IsFiniteSet(Unused(t)')
          /\ Cardinality(Unused(t)') = Cardinality(Unused(t)) - 1
      BY <2>1, <3>1, FS_RemoveElement
    <3> QED BY <1>5, <2>1, <2>2, <2>3, <3>2
  <2>4. CASE t # u
    BY <1>4, <1>5, <2>1, <2>4
  <2> QED BY <2>3, <2>4
<1> QED BY <1>6 DEF ApprovalsCounted

LEMMA CountedStep ==
    ASSUME TypeOK, ApprovalsCounted, NEW c \in Calls, Step(c)
    PROVE  ApprovalsCounted'
<1> USE DEF countVars
<1>1. ASSUME NEW r \in {"idle", "asking", "answered"}, UNCHANGED <<posts, approvals>>,
             \E t \in Transfers \cup {None} :
                 call' = [call EXCEPT ![c] = [stage |-> r, transfer |-> t]]
      PROVE  ApprovalsCounted'
  <2>1. \A t \in Transfers : Unused(t)' \subseteq Unused(t)
    BY <1>1 DEF Unused, At, TypeOK
  <2> QED BY <1>1, <2>1, FewerUnused
<1>2. ASSUME UNCHANGED <<call, posts, approvals>> PROVE ApprovalsCounted'
  BY <1>2, FewerUnused DEF Unused, At
<1>3. CASE Client(c)
  BY <1>1, <1>2, <1>3 DEF Client, BeginCall, FirstStage, Decide, Disconnect
<1>4. CASE AnswerTurnedAway(c)
  BY <1>2, <1>4 DEF AnswerTurnedAway
<1>5. CASE Declined(c) \/ ElicitFails(c) \/ PostImpossible(c) \/ MonzoRefuses(c)
           \/ AnswerArrives(c) \/ PostTimesOut(c) \/ Cancel(c)
  BY <1>1, <1>5 DEF Declined, ElicitFails, PostImpossible, MonzoRefuses, AnswerArrives,
                    PostTimesOut, Cancel, Report, Idle
<1>6. CASE MonzoHandles(c)
  <2>1. [call[c] EXCEPT !.stage = "answered"]
            = [stage |-> "answered", transfer |-> call[c].transfer]
    BY <1>6, CallTypes DEF MonzoHandles, At
  <2>2. call[c].transfer \in Transfers
    BY <1>6, CallTypes DEF MonzoHandles, At
  <2> QED BY <1>1, <1>6, <2>1, <2>2 DEF MonzoHandles
<1> QED BY <1>3, <1>4, <1>5, <1>6, CountedApproved, CountedPost
        DEF Step, AnswerReaches, Execute

LEMMA CountedNext ==
    ASSUME TypeOK, ApprovalsCounted, [Next]_vars
    PROVE  ApprovalsCounted'
<1>1. CASE HandleLate \/ OthersChange \/ UNCHANGED vars
  <2>1. UNCHANGED <<call, posts, approvals>>
    BY <1>1 DEF HandleLate, OthersChange, vars, countVars
  <2> QED BY <2>1, FewerUnused DEF Unused, At
<1> QED BY <1>1, CountedStep, NextCases

TransfersInv == TypeOK /\ IdsNameTransfers /\ PostedBeforeHandled /\ ApprovalsCounted

LEMMA TransfersInvariant == Spec => []TransfersInv
<1>1. Init => TransfersInv
  BY TypeInit, IdsInit, PostedInit, CountedInit DEF TransfersInv
<1>2. TransfersInv /\ [Next]_vars => TransfersInv'
  BY TypeNext, IdsNext, PostedNext, CountedNext DEF TransfersInv
<1> QED BY <1>1, <1>2, PTL DEF Spec

LEMMA InvApproved == TransfersInv => EachPostApproved
<1> SUFFICES ASSUME TransfersInv, NEW t \in Transfers
             PROVE  posts[t] <= approvals[t] /\ (moved[t] > 0 => posts[t] > 0)
  BY DEF EachPostApproved
<1>1. Cardinality(Unused(t)) \in Nat /\ posts[t] + Cardinality(Unused(t)) <= approvals[t]
  BY FS_CardinalityType DEF TransfersInv, ApprovalsCounted
<1>2. posts[t] \in Nat /\ approvals[t] \in Nat
  BY DEF TransfersInv, TypeOK
<1>3. moved[t] > 0 => posts[t] > 0
  BY DEF TransfersInv, IdsNameTransfers, PostedBeforeHandled
<1> QED BY <1>1, <1>2, <1>3

\* Every post to Monzo has a human approval of its own, so that a retry is
\* confirmed again, and no money moves without one.
THEOREM PostsAreApproved == Spec => []EachPostApproved
BY TransfersInvariant, InvApproved, PTL

-----------------------------------------------------------------------------
(* The promise: every step maps to one of MoneyPromise or to a stutter.       *)

Done == {t \in Transfers : "moved" \in told[t]}
ApprovedOnce == [t \in Transfers |-> approvals[t] > 0]

LEMMA PromiseInit == Init => Promise!Init
<1> SUFFICES ASSUME Init PROVE Promise!Init
  OBVIOUS
<1>1. \A t \in Transfers : (approvals[t] > 0) = FALSE /\ "moved" \notin told[t]
  BY DEF Init
<1>2. moved = [t \in Transfers |-> 0] /\ {t \in Transfers : "moved" \in told[t]} = {}
  BY <1>1 DEF Init
<1>3. [t \in Transfers |-> approvals[t] > 0] = [t \in Transfers |-> FALSE]
  BY <1>1
<1> QED BY <1>2, <1>3 DEF Promise!Init

\* The abstract steps, each for one transfer.
LEMMA PromiseSteps ==
    ASSUME NEW t \in Transfers, Promise!Approve(t) \/ Promise!Move(t) \/ Promise!Confirm(t)
    PROVE  Promise!Next
BY DEF Promise!Next, Promise!Approve, Promise!Move, Promise!Confirm

\* A step that moves nothing, approves nothing and reports no success.
LEMMA PromiseStutters ==
    ASSUME UNCHANGED <<approvals, moved>>, Done' = Done
    PROVE  UNCHANGED Promise!vars
BY DEF Promise!vars, Done

LEMMA PromiseReport ==
    ASSUME TransfersInv, NEW c \in Calls, ~At(c, "idle"), NEW o \in Outcomes,
           Report(c, o), UNCHANGED <<approvals, moved>>,
           o = "moved" => At(c, "answered")
    PROVE  Promise!Next \/ UNCHANGED Promise!vars
<1>1. PICK u \in Transfers : u = call[c].transfer
  BY CallTypes DEF TransfersInv
<1>2. /\ told \in [Transfers -> SUBSET Outcomes]
      /\ told' = told \/ told' = [told EXCEPT ![u] = @ \cup {o}]
  BY <1>1 DEF Report, TransfersInv, TypeOK
<1>3. CASE told' = told
  BY <1>3, PromiseStutters DEF Done
<1>4. CASE told' = [told EXCEPT ![u] = @ \cup {o}] /\ o # "moved"
  <2>1. Done' = Done
    BY <1>1, <1>2, <1>4 DEF Done
  <2> QED BY <2>1, PromiseStutters
<1>5. CASE told' = [told EXCEPT ![u] = @ \cup {o}] /\ o = "moved"
  <2>1. Done' = Done \cup {u}
    BY <1>1, <1>2, <1>5 DEF Done
  <2>2. moved[u] = 1
    BY <1>1, <1>5 DEF TransfersInv, PostedBeforeHandled, IdsNameTransfers
  <2>3. Promise!Confirm(u)
    BY <2>1, <2>2 DEF Promise!Confirm, Done
  <2> QED BY <1>1, <2>3, PromiseSteps
<1> QED BY <1>2, <1>3, <1>4, <1>5

\* Monzo moves the money of an approved transfer, or knows its id already.
LEMMA PromiseApply ==
    ASSUME TransfersInv, NEW t \in Transfers, posts[t] > 0, Apply(t, t),
           UNCHANGED <<approvals, told>>
    PROVE  Promise!Next \/ UNCHANGED Promise!vars
<1>1. Done' = Done
  BY DEF Done
<1>2. CASE t \in handled
  BY <1>1, <1>2, PromiseStutters DEF Apply
<1>3. CASE t \notin handled
  <2>1. moved[t] = 0 /\ moved' = [moved EXCEPT ![t] = @ + 1]
    BY <1>3 DEF Apply, TransfersInv, IdsNameTransfers
  <2>2. approvals[t] > 0
    BY InvApproved DEF EachPostApproved, TransfersInv, TypeOK
  <2>3. Promise!Move(t)
    <3>1. moved' = [moved EXCEPT ![t] = 1]
      BY <2>1
    <3> QED BY <1>1, <2>1, <2>2, <3>1 DEF Promise!Move, Done
  <2> QED BY <2>3, PromiseSteps
<1> QED BY <1>2, <1>3

LEMMA PromiseApproved ==
    ASSUME TransfersInv, NEW c \in Calls, Approved(c)
    PROVE  Promise!Next
<1>1. PICK u \in Transfers : u = call[c].transfer
  BY CallTypes DEF Approved, At, TransfersInv
<1>2. approvals \in [Transfers -> Nat] /\ approvals' = [approvals EXCEPT ![u] = @ + 1]
  BY <1>1 DEF Approved, TransfersInv, TypeOK
<1>3. ApprovedOnce' = [ApprovedOnce EXCEPT ![u] = TRUE]
  <2>1. \A t \in Transfers : approvals'[t] = IF t = u THEN approvals[u] + 1 ELSE approvals[t]
    BY <1>1, <1>2
  <2>2. approvals[u] + 1 > 0
    BY <1>1, <1>2
  <2>3. \A t \in Transfers : (approvals'[t] > 0) = IF t = u THEN TRUE ELSE approvals[t] > 0
    BY <2>1, <2>2
  <2> QED BY <2>3 DEF ApprovedOnce
<1>4. UNCHANGED <<moved, told>>
  BY DEF Approved, monzoVars
<1>5. Promise!Approve(u)
  BY <1>3, <1>4 DEF Promise!Approve, ApprovedOnce
<1> QED BY <1>1, <1>5, PromiseSteps

LEMMA PromiseStep ==
    ASSUME TransfersInv, NEW c \in Calls, Step(c)
    PROVE  Promise!Next \/ UNCHANGED Promise!vars
<1> USE DEF serverVars, monzoVars, countVars
<1>1. CASE Client(c) \/ AnswerTurnedAway(c) \/ Post(c) \/ Cancel(c)
  <2>1. UNCHANGED <<approvals, moved, told>>
    BY <1>1 DEF Client, BeginCall, Decide, Disconnect, AnswerTurnedAway, Post, Cancel
  <2> QED BY <2>1, PromiseStutters DEF Done
<1>2. CASE Declined(c) \/ ElicitFails(c) \/ PostImpossible(c) \/ MonzoRefuses(c)
           \/ PostTimesOut(c)
  <2>1. /\ ~At(c, "idle") /\ UNCHANGED <<approvals, moved>>
        /\ \E o \in Outcomes \ {"moved"} : Report(c, o)
    BY <1>2 DEF Declined, ElicitFails, PostImpossible, MonzoRefuses, PostTimesOut,
                SilenceOutcome, Outcomes, At
  <2> QED BY <2>1, PromiseReport
<1>3. CASE AnswerArrives(c)
  <2>1. ~At(c, "idle") /\ UNCHANGED <<approvals, moved>> /\ Report(c, "moved")
    BY <1>3 DEF AnswerArrives, At
  <2> QED BY <1>3, <2>1, PromiseReport DEF AnswerArrives, Outcomes
<1>4. CASE MonzoHandles(c)
  <2>1. call[c].transfer \in Transfers /\ posts[call[c].transfer] > 0
    BY <1>4, CallTypes DEF MonzoHandles, At, TransfersInv, PostedBeforeHandled
  <2> QED BY <1>4, <2>1, PromiseApply DEF MonzoHandles, DedupeId
<1> QED BY <1>1, <1>2, <1>3, <1>4, PromiseApproved DEF Step, AnswerReaches, Execute, Promise!Next

LEMMA PromiseHandleLate ==
    ASSUME TransfersInv, HandleLate
    PROVE  Promise!Next \/ UNCHANGED Promise!vars
<1>1. PICK post \in late : Apply(post[1], post[2])
  BY DEF HandleLate
<1>2. /\ post[2] \in Transfers /\ post[1] = post[2] /\ posts[post[2]] > 0
  BY DEF TransfersInv, TypeOK, IdsNameTransfers, PostedBeforeHandled
<1>3. UNCHANGED <<approvals, told>>
  BY DEF HandleLate, countVars
<1> QED BY <1>1, <1>2, <1>3, PromiseApply

LEMMA PromiseNext == TransfersInv /\ [Next]_vars => [Promise!Next]_(Promise!vars)
<1> SUFFICES ASSUME TransfersInv, [Next]_vars
             PROVE  Promise!Next \/ UNCHANGED Promise!vars
  OBVIOUS
<1>1. CASE UNCHANGED vars
  BY <1>1, PromiseStutters DEF vars, serverVars, monzoVars, countVars, Done
<1>2. CASE OthersChange
  BY <1>2, PromiseStutters DEF OthersChange, monzoVars, countVars, Done
<1> QED BY <1>1, <1>2, PromiseStep, PromiseHandleLate, NextCases

\* The pot tools implement MoneyPromise: whatever is lost, repeated or late, a
\* transfer is moved once, after its approval, and reported as done after that.
THEOREM PromiseIsKept == Spec => PromiseKept
BY PromiseInit, PromiseNext, TransfersInvariant, PTL DEF Spec, PromiseKept, Promise!Spec

-----------------------------------------------------------------------------
(* The connection limit.                                                      *)

\* For any finite number of calls: a server that allows more connections than the
\* calls' streams, the others and the answer's own turns no human's answer away.
THEOREM AnswersGetThrough == ASSUME IsFiniteSet(Calls) PROVE Spec => NoAnswerTurnedAway
<1>1. TypeOK => [RoomForAnswers => \A c \in Calls : ~AnswerTurnedAway(c)]_vars
  <2> SUFFICES ASSUME TypeOK, RoomForAnswers
               PROVE  Admitted
    BY DEF AnswerTurnedAway
  <2>1. /\ Cardinality(streaming) <= Cardinality(Calls)
        /\ Cardinality(streaming) \in Nat /\ Cardinality(Calls) \in Nat
    BY FS_Subset, FS_CardinalityType DEF TypeOK
  <2>2. slots \in Nat /\ MaxOthers \in Nat /\ others \in 0 .. MaxOthers
    BY LimitsAssumption, NumbersAssumption DEF TypeOK
  <2> QED BY <2>1, <2>2 DEF RoomForAnswers, Admitted, Held, ConnectionLimit
<1> QED BY <1>1, TypeCorrect, PTL DEF NoAnswerTurnedAway
=============================================================================
