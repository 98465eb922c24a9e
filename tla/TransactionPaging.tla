-------------------------- MODULE TransactionPaging --------------------------
(* The tool monzo_list_transactions (src/src/monzo_mcp/mcp/tools.py) and a    *)
(* client that reads an account page by page: each page is a tool call of its *)
(* own, begun from the `next_since` of the page before, while time passes and *)
(* new transactions come in.                                                  *)
(*                                                                            *)
(* A transaction is its position in the account; account[i] is when it was    *)
(* created, and several may be created at the same time.  Monzo is external:  *)
(* it lists what follows `since` and precedes `before`, oldest first.         *)
EXTENDS FiniteSets, Integers, Sequences

CONSTANTS
    Limits,     \* the page sizes a client may ask for
    Lookback,   \* _DEFAULT_TRANSACTION_LOOKBACK
    None,       \* `since` or `before` omitted, or no next page
    MaxTime,    \* bound: the time up to which a behaviour is followed
    MaxLength   \* bound: the transactions of the account

ASSUME NumbersAssumption ==
    /\ Limits \subseteq Nat \ {0}
    /\ {Lookback, MaxTime, MaxLength} \subseteq Nat
ASSUME NoneAssumption == None \notin Int

VARIABLES
    now,      \* the time
    account,  \* the account's transactions, oldest first
    stage,    \* where the client's reading is
    query,    \* the arguments of the call in progress, or of the next one
    start,    \* the time this reading began from
    listed    \* listed[i]: how often transaction i was returned in this reading

vars == <<now, account, stage, query, start, listed>>

-----------------------------------------------------------------------------
Stages == {"idle", "asked", "more", "done"}
Times == 0 .. MaxTime
Ids == 1 .. MaxLength

\* `since` is a timestamp, or the id of a transaction already seen.
Cursors == [at : -Lookback .. MaxTime] \cup [after : Ids]
Queries == [since : Cursors, before : Times \cup {None}, limit : Limits]

TypeOK ==
    /\ now \in Times
    /\ account \in Seq(Times) /\ Len(account) <= MaxLength
    /\ stage \in Stages
    /\ stage # "idle" => query \in Queries
    /\ start \in -Lookback .. MaxTime
    /\ listed \in [Ids -> Nat]

Nothing == [i \in Ids |-> 0]

Init ==
    /\ now = 0
    /\ account = <<>>
    /\ stage = "idle"
    /\ query = None
    /\ start = 0
    /\ listed = Nothing

-----------------------------------------------------------------------------
(* Monzo.                                                                     *)

NewTransaction ==
    /\ Len(account) < MaxLength
    /\ account' = Append(account, now)
    /\ UNCHANGED <<now, stage, query, start, listed>>

TimePasses ==
    /\ now < MaxTime
    /\ now' = now + 1
    /\ UNCHANGED <<account, stage, query, start, listed>>

Follows(i, since) == IF "at" \in DOMAIN since THEN account[i] >= since.at
                                              ELSE i > since.after
Precedes(i, before) == before # None => account[i] < before

Matching(q) ==
    {i \in DOMAIN account : Follows(i, q.since) /\ Precedes(i, q.before)}

\* The oldest `limit` transactions that match.
Page(q) ==
    {i \in Matching(q) : Cardinality({j \in Matching(q) : j <= i}) <= q.limit}

-----------------------------------------------------------------------------
(* The tool.                                                                  *)

\* effective_since: computed before the request to Monzo is made.
EffectiveSince(since, before) ==
    IF since # None THEN [at |-> since]
    ELSE [at |-> (IF before # None THEN before ELSE now) - Lookback]

FirstCall(since, before, limit) ==
    /\ stage = "idle"
    /\ stage' = "asked"
    /\ query' = [since |-> EffectiveSince(since, before), before |-> before, limit |-> limit]
    /\ start' = query'.since.at
    /\ UNCHANGED <<now, account, listed>>

\* Variant: the next page begins at the time of the last transaction.
CursorByTime(last) == [at |-> account[last]]

\* The next page begins after the last transaction.
Cursor(last) == [after |-> last]

\* Variant: only a page longer than its limit is taken to be followed by another.
FullTooLate(page) == Cardinality(page) > query.limit

\* A page with as many transactions as were asked for may be followed by another.
Full(page) == page # {} /\ Cardinality(page) = query.limit

Returned(page) == [i \in Ids |-> IF i \in page THEN listed[i] + 1 ELSE listed[i]]

\* Monzo's answer and the tool's result; `next_since` is the next cursor or null.
PageReturned ==
    /\ stage = "asked"
    /\ LET page == Page(query)
       IN  /\ listed' = Returned(page)
           /\ IF Full(page)
              THEN /\ stage' = "more"
                   /\ \E last \in page :
                        /\ \A i \in page : i <= last
                        /\ query' = [query EXCEPT !.since = Cursor(last)]
              ELSE /\ stage' = "done"
                   /\ UNCHANGED query
    /\ UNCHANGED <<now, account, start>>

\* ToolError, of whatever kind: the client may call again with the same arguments.
CallFails ==
    /\ stage = "asked"
    /\ stage' = "more"
    /\ UNCHANGED <<now, account, query, start, listed>>

-----------------------------------------------------------------------------
(* The client.                                                                *)

\* The next page: `since` is next_since, `before` as before, any limit.
NextCall(limit) ==
    /\ stage = "more"
    /\ stage' = "asked"
    /\ query' = [query EXCEPT !.limit = limit]
    /\ UNCHANGED <<now, account, start, listed>>

\* The reading is over, or given up; another one may begin.
EndReading ==
    /\ stage \in {"more", "done"}
    /\ stage' = "idle"
    /\ query' = None
    /\ start' = 0
    /\ listed' = Nothing
    /\ UNCHANGED <<now, account>>

-----------------------------------------------------------------------------
Client ==
    \/ \E since, before \in Times \cup {None}, limit \in Limits :
           FirstCall(since, before, limit)
    \/ \E limit \in Limits : NextCall(limit)
    \/ EndReading

Next == Client \/ PageReturned \/ CallFails \/ NewTransaction \/ TimePasses

Spec == Init /\ [][Next]_vars

-----------------------------------------------------------------------------
(* Properties.                                                                *)

\* What this reading is about: created at or after its start, before `before`.
Wanted == {i \in DOMAIN account : account[i] >= start /\ Precedes(i, query.before)}
Shown == {i \in Ids : listed[i] > 0}

\* No page repeats a transaction of an earlier page or leaves a gap before it,
\* whatever arrives between two pages, whichever limits are asked for, however
\* many transactions share a timestamp, and even if a page had to be asked for
\* again.
NoGapNoRepeat ==
    stage # "idle" =>
        /\ Shown \subseteq Wanted
        /\ \A i \in Shown : listed[i] = 1
        /\ \A i \in Shown, j \in Wanted : j < i => j \in Shown

\* Strengthening: the account is in the order of time, and nothing in it is of a
\* time to come.
AccountInOrder ==
    /\ \A i, j \in DOMAIN account : i < j => account[i] <= account[j]
    /\ \A i \in DOMAIN account : account[i] <= now

\* Strengthening: a reading that goes on has shown nothing yet, or exactly what was
\* wanted up to the transaction that its next page begins after.
Frontier ==
    /\ stage = "idle" => listed = Nothing
    /\ stage \in {"asked", "more"} =>
           \/ /\ query.since = [at |-> start]
              /\ listed = Nothing
           \/ \E last \in Wanted :
                 /\ query.since = [after |-> last]
                 /\ listed = [i \in Ids |-> IF i \in Wanted /\ i <= last THEN 1 ELSE 0]

\* When the tool gives no next_since, everything asked for has been shown: a page
\* that happens to be full never ends the reading too early.
EndIsEnd == [][stage = "asked" /\ stage' = "done" => Shown' = Wanted']_vars
=============================================================================
