----------------------- MODULE TransactionPagingProofs -----------------------
(* What the listing tool guarantees for every page size, every account and    *)
(* every time at which transactions come in.  MCTransactionPaging checks the  *)
(* same formulas on an account of four transactions.                          *)
EXTENDS TransactionPaging, FiniteSetTheorems, TLAPS

-----------------------------------------------------------------------------
(* Pages: the oldest `limit` elements of a finite set of positions.           *)

Below(S, i) == {j \in S : j <= i}
Oldest(S, limit) == {i \in S : Cardinality(Below(S, i)) <= limit}

\* A finite set of positions that is not empty has a first one.
LEMMA FirstExists ==
    ASSUME NEW T \in SUBSET Nat, IsFiniteSet(T), T # {}
    PROVE  \E x \in T : \A y \in T : x <= y
<1> DEFINE F == {Below(T, x) : x \in T}
           Smaller == StrictSubsetOrdering(T)
<1>1. IsWellFoundedOn(Smaller, SUBSET T)
  BY FS_StrictSubsetOrderingWellFounded, FS_FiniteSubsetsOfFinite
<1>2. F \subseteq SUBSET T /\ F # {}
  BY DEF Below
<1>3. PICK least \in F : \A other \in F : <<other, least>> \notin Smaller
  <2> HIDE DEF F, Smaller
  <2> QED BY <1>1, <1>2, WFMin
<1>4. PICK x \in T : least = Below(T, x)
  OBVIOUS
<1>5. ASSUME NEW y \in T, y < x PROVE FALSE
  <2>1. Below(T, y) \subseteq Below(T, x)
    <3>1. \A j \in T : j \in Nat
      OBVIOUS
    <3>2. \A j \in T : j <= y => j <= x
      BY <3>1, <1>5
    <3> QED BY <3>2 DEF Below
  <2>2. x \in Below(T, x) /\ x \notin Below(T, y)
    BY <1>5 DEF Below
  <2>3. <<Below(T, y), least>> \in Smaller
    <3>1. Below(T, y) \in SUBSET T /\ Below(T, x) \in SUBSET T
      BY DEF Below
    <3> QED BY <3>1, <2>1, <2>2, <1>4 DEF StrictSubsetOrdering
  <2> QED BY <2>3, <1>3
<1> QED BY <1>5

\* ... and a last one.
LEMMA LastExists ==
    ASSUME NEW T \in SUBSET Nat, IsFiniteSet(T), T # {}
    PROVE  \E x \in T : \A y \in T : y <= x
<1> DEFINE Above(x) == {y \in T : y >= x}
           F == {Above(x) : x \in T}
           Smaller == StrictSubsetOrdering(T)
<1>1. IsWellFoundedOn(Smaller, SUBSET T)
  BY FS_StrictSubsetOrderingWellFounded, FS_FiniteSubsetsOfFinite
<1>2. F \subseteq SUBSET T /\ F # {}
  OBVIOUS
<1>3. PICK least \in F : \A other \in F : <<other, least>> \notin Smaller
  <2> HIDE DEF F, Smaller
  <2> QED BY <1>1, <1>2, WFMin
<1>4. PICK x \in T : least = Above(x)
  OBVIOUS
<1>5. ASSUME NEW y \in T, y > x PROVE FALSE
  <2>1. Above(y) \subseteq Above(x)
    <3>1. \A j \in T : j \in Nat
      OBVIOUS
    <3>2. \A j \in T : j >= y => j >= x
      BY <3>1, <1>5
    <3> QED BY <3>2
  <2>2. x \in Above(x) /\ x \notin Above(y)
    BY <1>5
  <2>3. <<Above(y), least>> \in Smaller
    <3>1. Above(y) \in SUBSET T /\ Above(x) \in SUBSET T
      OBVIOUS
    <3> QED BY <3>1, <2>1, <2>2, <1>4 DEF StrictSubsetOrdering
  <2> QED BY <2>3, <1>3
<1> QED BY <1>5

LEMMA BelowIsFinite ==
    ASSUME NEW S, IsFiniteSet(S), S \subseteq Nat, NEW i \in Nat
    PROVE  IsFiniteSet(Below(S, i)) /\ Cardinality(Below(S, i)) \in Nat
<1>1. Below(S, i) \in SUBSET S
  BY DEF Below
<1> QED BY <1>1, FS_Subset, FS_CardinalityType

\* What comes before an element of a page is on the page.
LEMMA OldestIsClosed ==
    ASSUME NEW S, IsFiniteSet(S), S \subseteq Nat, NEW limit \in Nat,
           NEW i \in Oldest(S, limit), NEW j \in S, j <= i
    PROVE  j \in Oldest(S, limit)
<1>1. i \in S
  BY DEF Oldest
<1>2. Below(S, j) \in SUBSET Below(S, i)
  <2>1. \A k \in S : k <= j => k <= i
    BY <1>1
  <2> QED BY <2>1 DEF Below
<1>3. Cardinality(Below(S, j)) <= Cardinality(Below(S, i))
  BY <1>1, <1>2, BelowIsFinite, FS_Subset
<1>4. Cardinality(Below(S, j)) \in Nat /\ Cardinality(Below(S, i)) \in Nat
  BY <1>1, BelowIsFinite
<1> QED BY <1>3, <1>4 DEF Oldest

\* A page has no more than `limit` elements: its last one counts them all.
LEMMA OldestIsBounded ==
    ASSUME NEW S, IsFiniteSet(S), S \subseteq Nat, NEW limit \in Nat,
           NEW last \in Oldest(S, limit), \A i \in Oldest(S, limit) : i <= last
    PROVE  Cardinality(Oldest(S, limit)) <= limit
<1>1. last \in S /\ last \in Nat /\ Cardinality(Below(S, last)) <= limit
  BY DEF Oldest
<1>2. Oldest(S, limit) \in SUBSET Below(S, last)
  BY DEF Oldest, Below
<1>3. Cardinality(Oldest(S, limit)) <= Cardinality(Below(S, last))
  BY <1>1, <1>2, BelowIsFinite, FS_Subset
<1>4. Cardinality(Oldest(S, limit)) \in Nat
  <2>1. Oldest(S, limit) \in SUBSET S
    BY DEF Oldest
  <2> QED BY <2>1, FS_Subset, FS_CardinalityType
<1>5. Cardinality(Below(S, last)) \in Nat
  BY <1>1, BelowIsFinite
<1> QED BY <1>1, <1>3, <1>4, <1>5

\* A page that leaves something out is full.
LEMMA OldestIsFull ==
    ASSUME NEW S, IsFiniteSet(S), S \subseteq Nat, NEW limit \in Nat,
           Oldest(S, limit) # S
    PROVE  Cardinality(Oldest(S, limit)) >= limit
<1> DEFINE Page0 == Oldest(S, limit)
           Left == S \ Page0
<1>1. Left \in SUBSET S /\ Left # {} /\ Page0 \in SUBSET S
  BY DEF Oldest
<1>2. IsFiniteSet(Left) /\ IsFiniteSet(Page0) /\ Cardinality(Page0) \in Nat
  BY <1>1, FS_Subset, FS_CardinalityType
<1>3. PICK first \in Left : \A i \in Left : first <= i
  BY <1>1, <1>2, FirstExists
<1>4. Below(S, first) \in SUBSET (Page0 \cup {first})
  <2>1. ASSUME NEW j \in Below(S, first), j # first PROVE j \in Page0
    <3>1. j \in S /\ j <= first /\ j \in Nat /\ first \in Nat
      BY <1>1 DEF Below
    <3>2. j \notin Left
      BY <3>1, <2>1, <1>3
    <3> QED BY <3>1, <3>2
  <2> QED BY <2>1
<1>5. Cardinality(Below(S, first)) > limit
  <2>1. first \in S /\ ~(Cardinality(Below(S, first)) <= limit)
    BY DEF Oldest
  <2>2. Cardinality(Below(S, first)) \in Nat
    BY <2>1, BelowIsFinite
  <2> QED BY <2>1, <2>2
<1>6. /\ IsFiniteSet(Page0 \cup {first})
      /\ Cardinality(Page0 \cup {first}) = Cardinality(Page0) + 1
  <2>1. first \notin Page0
    OBVIOUS
  <2> HIDE DEF Page0
  <2> QED BY <2>1, <1>2, FS_AddElement
<1>7. Cardinality(Below(S, first)) <= Cardinality(Page0) + 1
  <2> HIDE DEF Page0
  <2> QED BY <1>4, <1>6, FS_Subset
<1>8. Cardinality(Below(S, first)) \in Nat
  BY <1>1, BelowIsFinite
<1> QED BY <1>2, <1>5, <1>7, <1>8

-----------------------------------------------------------------------------
(* Type correctness.                                                          *)

LEMMA NextCases ==
    ASSUME [Next]_vars
    PROVE  \/ \E since, before \in Times \cup {None}, limit \in Limits :
                 FirstCall(since, before, limit)
           \/ \E limit \in Limits : NextCall(limit)
           \/ EndReading \/ PageReturned \/ CallFails
           \/ NewTransaction \/ TimePasses \/ UNCHANGED vars
BY DEF Next, Client

LEMMA TypeInit == Init => TypeOK
BY NumbersAssumption DEF Init, TypeOK, Times, Stages, Nothing

LEMMA NumberTypes ==
    /\ Lookback \in Nat /\ MaxTime \in Nat /\ MaxLength \in Nat
    /\ \A limit \in Limits : limit \in Nat /\ limit > 0
    /\ None \notin Int
BY NumbersAssumption, NoneAssumption

\* The first call of a reading begins at the reading's start.
LEMMA FirstCallTypes ==
    ASSUME TypeOK, NEW since \in Times \cup {None}, NEW before \in Times \cup {None},
           NEW limit \in Limits, FirstCall(since, before, limit)
    PROVE  /\ start' \in -Lookback .. MaxTime
           /\ query' = [since |-> [at |-> start'], before |-> before, limit |-> limit]
           /\ query' \in Queries
<1>1. PICK t \in -Lookback .. MaxTime : EffectiveSince(since, before) = [at |-> t]
  <2>1. CASE since # None
    BY <2>1, NumberTypes DEF EffectiveSince, Times
  <2>2. CASE since = None /\ before # None
    BY <2>2, NumberTypes DEF EffectiveSince, Times
  <2>3. CASE since = None /\ before = None
    BY <2>3, NumberTypes DEF EffectiveSince, Times, TypeOK
  <2> QED BY <2>1, <2>2, <2>3
<1>2. query' = [since |-> [at |-> t], before |-> before, limit |-> limit] /\ start' = t
  BY <1>1 DEF FirstCall
<1>3. [at |-> t] \in Cursors
  BY DEF Cursors
<1> QED BY <1>2, <1>3 DEF Queries

LEMMA NewTransactionTypes ==
    ASSUME TypeOK, NewTransaction
    PROVE  /\ account' \in Seq(Times) /\ Len(account') = Len(account) + 1
           /\ Len(account') <= MaxLength
           /\ \A i \in 1 .. Len(account) : account'[i] = account[i]
           /\ account'[Len(account')] = now
<1>1. account \in Seq(Times) /\ now \in Times /\ account' = Append(account, now)
  BY DEF TypeOK, NewTransaction
<1>2. Len(account) \in Nat /\ Len(account) < MaxLength
  BY <1>1 DEF NewTransaction
<1> QED BY <1>1, <1>2, NumberTypes

\* Positions: those of the account, and the ones a page is about.
LEMMA Positions ==
    ASSUME TypeOK
    PROVE  /\ Len(account) \in Nat /\ DOMAIN account = 1 .. Len(account)
           /\ DOMAIN account \subseteq Ids /\ DOMAIN account \subseteq Nat
           /\ IsFiniteSet(DOMAIN account)
           /\ \A i \in DOMAIN account : account[i] \in Times /\ account[i] \in Int
<1>1. account \in Seq(Times) /\ Len(account) \in Nat /\ Len(account) <= MaxLength
  BY DEF TypeOK
<1>2. DOMAIN account = 1 .. Len(account)
  BY <1>1
<1>3. \A i \in DOMAIN account : account[i] \in Times /\ account[i] \in Int
  <2>1. \A i \in 1 .. Len(account) : account[i] \in Times
    BY <1>1
  <2>2. Times \subseteq Int
    BY NumberTypes DEF Times
  <2> QED BY <1>2, <2>1, <2>2
<1>4. IsFiniteSet(1 .. Len(account))
  BY <1>1, FS_Interval
<1>5. DOMAIN account \subseteq Ids /\ DOMAIN account \subseteq Nat
  BY <1>1, <1>2, NumberTypes DEF Ids
<1> QED BY <1>1, <1>2, <1>3, <1>4, <1>5

LEMMA PageIsOldest ==
    ASSUME TypeOK, NEW q
    PROVE  /\ Page(q) = Oldest(Matching(q), q.limit)
           /\ Page(q) \subseteq Matching(q) /\ Matching(q) \subseteq DOMAIN account
           /\ IsFiniteSet(Matching(q)) /\ Matching(q) \subseteq Nat
<1>1. Matching(q) \in SUBSET (DOMAIN account)
  BY DEF Matching
<1>2. IsFiniteSet(Matching(q)) /\ Matching(q) \subseteq Nat
  BY <1>1, Positions, FS_Subset
<1> QED BY <1>1, <1>2 DEF Page, Oldest, Below

\* The next query, when there is one, and what has been shown.
LEMMA PageTypes ==
    ASSUME TypeOK, PageReturned
    PROVE  /\ stage' \in Stages /\ listed' \in [Ids -> Nat] /\ query' \in Queries
<1>1. query \in Queries /\ Page(query) \subseteq Ids
  BY Positions, PageIsOldest DEF TypeOK, PageReturned
<1>2. listed' = Returned(Page(query)) /\ stage' \in {"more", "done"}
  BY DEF PageReturned
<1>3. listed' \in [Ids -> Nat]
  BY <1>2 DEF Returned, TypeOK
<1>4. query' = query \/ \E last \in Page(query) : query' = [query EXCEPT !.since = Cursor(last)]
  BY DEF PageReturned
<1>5. \A last \in Ids : Cursor(last) \in Cursors
  BY DEF Cursor, Cursors
<1>6. query' \in Queries
  BY <1>1, <1>4, <1>5 DEF Queries
<1> QED BY <1>2, <1>3, <1>6 DEF Stages

LEMMA TypeNext == TypeOK /\ [Next]_vars => TypeOK'
<1> SUFFICES ASSUME TypeOK, [Next]_vars PROVE TypeOK'
  OBVIOUS
<1>1. ASSUME NEW since \in Times \cup {None}, NEW before \in Times \cup {None},
             NEW limit \in Limits, FirstCall(since, before, limit)
      PROVE  TypeOK'
  BY <1>1, FirstCallTypes DEF TypeOK, FirstCall, Stages
<1>2. ASSUME NEW limit \in Limits, NextCall(limit) PROVE TypeOK'
  <2>1. query' \in Queries
    BY <1>2 DEF NextCall, TypeOK, Queries
  <2> QED BY <1>2, <2>1 DEF TypeOK, NextCall, Stages
<1>3. CASE EndReading
  BY <1>3, NumberTypes DEF TypeOK, EndReading, Stages, Nothing
<1>4. CASE PageReturned
  BY <1>4, PageTypes DEF TypeOK, PageReturned
<1>5. CASE CallFails
  BY <1>5 DEF TypeOK, CallFails, Stages
<1>6. CASE NewTransaction
  BY <1>6, NewTransactionTypes DEF TypeOK, NewTransaction
<1>7. CASE TimePasses
  BY <1>7, NumberTypes DEF TypeOK, TimePasses, Times
<1>8. CASE UNCHANGED vars
  BY <1>8 DEF TypeOK, vars
<1> QED BY <1>1, <1>2, <1>3, <1>4, <1>5, <1>6, <1>7, <1>8, NextCases

-----------------------------------------------------------------------------
(* The account.                                                               *)

LEMMA AccountInit == Init => AccountInOrder
BY DEF Init, AccountInOrder

LEMMA AccountNext == TypeOK /\ AccountInOrder /\ [Next]_vars => AccountInOrder'
<1> SUFFICES ASSUME TypeOK, AccountInOrder, [Next]_vars PROVE AccountInOrder'
  OBVIOUS
<1>1. CASE NewTransaction
  <2>1. DOMAIN account = 1 .. Len(account) /\ DOMAIN account' = 1 .. Len(account) + 1
    BY <1>1, TypeNext, Positions, NewTransactionTypes DEF TypeOK
  <2>2. \A i \in DOMAIN account : account'[i] = account[i] /\ account[i] <= now
    BY <1>1, <2>1, NewTransactionTypes DEF AccountInOrder
  <2>3. account'[Len(account) + 1] = now /\ now' = now /\ now \in Int
    BY <1>1, NewTransactionTypes, NumberTypes DEF NewTransaction, TypeOK, Times
  <2>4. ASSUME NEW i \in DOMAIN account', NEW j \in DOMAIN account', i < j
        PROVE  account'[i] <= account'[j]
    <3>1. CASE j \in DOMAIN account
      <4>1. i \in DOMAIN account
        BY <2>1, <2>4, <3>1, Positions
      <4> QED BY <2>2, <2>4, <3>1, <4>1 DEF AccountInOrder
    <3>2. CASE j = Len(account) + 1
      <4>1. i \in DOMAIN account
        BY <2>1, <2>4, <3>2, Positions
      <4> QED BY <2>2, <2>3, <3>2, <4>1
    <3> QED BY <2>1, <3>1, <3>2, Positions
  <2>5. ASSUME NEW i \in DOMAIN account' PROVE account'[i] <= now'
    <3>1. i \in DOMAIN account \/ i = Len(account) + 1
      BY <2>1, Positions
    <3> QED BY <2>2, <2>3, <3>1
  <2> QED BY <2>4, <2>5 DEF AccountInOrder
<1>2. CASE TimePasses
  <2>1. now \in Int /\ now' = now + 1 /\ account' = account
    BY <1>2, NumberTypes DEF TimePasses, TypeOK, Times
  <2> QED BY <2>1, Positions DEF AccountInOrder
<1>3. CASE UNCHANGED <<account, now>>
  BY <1>3 DEF AccountInOrder
<1> QED BY <1>1, <1>2, <1>3, NextCases
        DEF FirstCall, NextCall, EndReading, PageReturned, CallFails, vars

-----------------------------------------------------------------------------
(* Reading page by page.                                                      *)

\* A new transaction is wanted or not; what was wanted before it still is.
LEMMA WantedGrows ==
    ASSUME TypeOK, NewTransaction
    PROVE  /\ Wanted \subseteq Wanted'
           /\ \A i \in Wanted' : i \in Wanted \/ i = Len(account) + 1
<1>1. DOMAIN account = 1 .. Len(account) /\ DOMAIN account' = 1 .. Len(account) + 1
  BY TypeNext, Positions, NewTransactionTypes DEF TypeOK
<1>2. \A i \in DOMAIN account : account'[i] = account[i]
  BY <1>1, NewTransactionTypes
<1>3. start' = start /\ query' = query
  BY DEF NewTransaction
<1>4. \A i \in DOMAIN account : i \in Wanted <=> i \in Wanted'
  BY <1>1, <1>2, <1>3, Positions DEF Wanted, Precedes
<1>5. \A i \in DOMAIN account' : i \in DOMAIN account \/ i = Len(account) + 1
  BY <1>1, Positions
<1> QED BY <1>4, <1>5 DEF Wanted

\* Where Frontier holds, what the next page is about is what is wanted and not
\* shown; all that is shown precedes it.
LEMMA PageIsNext ==
    ASSUME TypeOK, AccountInOrder, Frontier, stage \in {"asked", "more"}
    PROVE  /\ \A i \in Ids : listed[i] = IF i \in Wanted \ Matching(query) THEN 1 ELSE 0
           /\ Matching(query) \subseteq Wanted /\ Wanted \subseteq DOMAIN account
           /\ \A i \in Wanted \ Matching(query), j \in Matching(query) : i < j
<1>1. CASE query.since = [at |-> start] /\ listed = Nothing
  <2>1. Wanted = Matching(query)
    BY <1>1 DEF Wanted, Matching, Follows
  <2> QED BY <1>1, <2>1 DEF Nothing, Wanted
<1>2. CASE \E last \in Wanted :
              /\ query.since = [after |-> last]
              /\ listed = [i \in Ids |-> IF i \in Wanted /\ i <= last THEN 1 ELSE 0]
  <2>1. PICK last \in Wanted :
              /\ query.since = [after |-> last]
              /\ listed = [i \in Ids |-> IF i \in Wanted /\ i <= last THEN 1 ELSE 0]
    BY <1>2
  <2>2. last \in DOMAIN account /\ account[last] >= start /\ start \in Int
    BY NumberTypes DEF Wanted, TypeOK
  <2>3. \A i : Follows(i, query.since) <=> i > last
    BY <2>1 DEF Follows
  <2>4. \A i \in DOMAIN account : i > last => account[i] >= start
    BY <2>2, Positions DEF AccountInOrder
  <2>5. \A i \in DOMAIN account : i \in Matching(query) <=> i \in Wanted /\ i > last
    BY <2>3, <2>4 DEF Wanted, Matching
  <2>6. Matching(query) \subseteq DOMAIN account /\ Wanted \subseteq DOMAIN account
    BY DEF Wanted, Matching
  <2>7. \A i \in DOMAIN account : i \in Int /\ last \in Int
    BY <2>2, Positions
  <2>8. \A i \in Wanted : i <= last <=> i \notin Matching(query)
    BY <2>5, <2>6, <2>7
  <2>9. \A i \in Ids : listed[i] = IF i \in Wanted \ Matching(query) THEN 1 ELSE 0
    BY <2>1, <2>8
  <2>10. \A i \in Wanted \ Matching(query), j \in Matching(query) : i < j
    BY <2>5, <2>6, <2>7, <2>8
  <2> QED BY <2>5, <2>6, <2>9, <2>10
<1> QED BY <1>1, <1>2 DEF Frontier

\* A reading that ends has shown all that is wanted: nothing is left of the page.
LEMMA LastPageIsAll ==
    ASSUME TypeOK, stage # "idle", ~Full(Page(query))
    PROVE  Page(query) = Matching(query)
<1> DEFINE S == Matching(query)
           limit == query.limit
<1>1. limit \in Nat /\ limit > 0
  BY NumberTypes DEF TypeOK, Queries
<1>2. Page(query) = Oldest(S, limit) /\ IsFiniteSet(S) /\ S \subseteq Nat
  BY PageIsOldest
<1> HIDE DEF S, limit
<1> SUFFICES ASSUME Oldest(S, limit) # S PROVE FALSE
  BY <1>2 DEF S
<1>3. Cardinality(Oldest(S, limit)) >= limit
  BY <1>1, <1>2, OldestIsFull
<1>4. IsFiniteSet(Oldest(S, limit)) /\ Cardinality(Oldest(S, limit)) \in Nat
  <2>1. Oldest(S, limit) \in SUBSET S
    BY DEF Oldest
  <2> QED BY <2>1, <1>2, FS_Subset, FS_CardinalityType
<1>5. Oldest(S, limit) # {}
  BY <1>1, <1>3, FS_EmptySet
<1>6. Oldest(S, limit) \subseteq Nat
  BY <1>2 DEF Oldest
<1>7. Cardinality(Oldest(S, limit)) <= limit
  <2> DEFINE T == Oldest(S, limit)
  <2>1. PICK last \in T : \A i \in T : i <= last
    BY <1>4, <1>5, <1>6, LastExists
  <2> QED BY <1>1, <1>2, <2>1, OldestIsBounded
<1> QED BY <1>1, <1>2, <1>3, <1>4, <1>5, <1>7 DEF Full, limit

\* What a reading has shown after one more page.
LEMMA PageShows ==
    ASSUME TypeOK, AccountInOrder, Frontier, PageReturned
    PROVE  /\ Wanted' = Wanted
           /\ listed' \in [Ids -> Nat]
           /\ \A i \in Ids : listed'[i] = IF \/ i \in Wanted \ Matching(query)
                                             \/ i \in Page(query) THEN 1 ELSE 0
<1>1. stage = "asked" /\ listed' = Returned(Page(query)) /\ UNCHANGED <<account, start>>
  BY DEF PageReturned
<1>2. query'.before = query.before
  <2>1. query \in Queries
    BY <1>1 DEF TypeOK
  <2> QED BY <2>1 DEF PageReturned, Queries
<1>3. Wanted' = Wanted
  BY <1>1, <1>2 DEF Wanted, Precedes
<1>4. \A i \in Ids : listed[i] = IF i \in Wanted \ Matching(query) THEN 1 ELSE 0
  BY <1>1, PageIsNext
<1>5. \A i \in Ids : listed'[i] = IF i \in Page(query) THEN listed[i] + 1 ELSE listed[i]
  BY <1>1 DEF Returned
<1>6. Page(query) \subseteq Matching(query)
  BY PageIsOldest
<1>7. listed' \in [Ids -> Nat]
  BY PageTypes
<1> QED BY <1>3, <1>4, <1>5, <1>6, <1>7

\* The reading that goes on: the page and all that was shown before are what is
\* wanted up to the page's last transaction.
LEMMA FrontierMoves ==
    ASSUME TypeOK, AccountInOrder, Frontier, PageReturned, Full(Page(query))
    PROVE  Frontier'
<1>1. PICK last \in Page(query) :
           (\A i \in Page(query) : i <= last) /\ query' = [query EXCEPT !.since = Cursor(last)]
  BY DEF PageReturned
<1>2. stage = "asked" /\ query \in Queries
  BY DEF PageReturned, TypeOK
<1>3. query'.since = [after |-> last]
  BY <1>1, <1>2 DEF Queries, Cursor
<1>4. last \in Matching(query) /\ last \in Wanted /\ last \in Nat /\ Wanted \subseteq Nat
  BY <1>2, PageIsOldest, PageIsNext, Positions
<1>5. \A i \in Wanted : i <= last <=> i \in Wanted \ Matching(query) \/ i \in Page(query)
  <2>1. ASSUME NEW i \in Wanted \ Matching(query) PROVE i <= last
    BY <1>2, <1>4, PageIsNext
  <2>2. ASSUME NEW i \in Matching(query), i <= last PROVE i \in Page(query)
    <3>1. query.limit \in Nat
      BY <1>2, NumberTypes DEF Queries
    <3> QED BY <2>2, <3>1, PageIsOldest, OldestIsClosed
  <2> QED BY <2>1, <2>2, <1>1, <1>4
<1>6. Page(query) \subseteq Wanted
  BY <1>2, PageIsOldest, PageIsNext
<1>7. listed' = [i \in Ids |-> IF i \in Wanted /\ i <= last THEN 1 ELSE 0]
  <2>1. \A i \in Ids : listed'[i] = IF i \in Wanted /\ i <= last THEN 1 ELSE 0
    BY <1>5, <1>6, PageShows
  <2> QED BY <2>1, PageShows
<1>8. Wanted' = Wanted
  BY PageShows
<1>9. stage' = "more"
  BY DEF PageReturned
<1> QED BY <1>3, <1>4, <1>7, <1>8, <1>9 DEF Frontier

\* The reading that ends has shown exactly what is wanted.
LEMMA EndShowsAll ==
    ASSUME TypeOK, AccountInOrder, Frontier, PageReturned, ~Full(Page(query))
    PROVE  /\ Shown' = Wanted'
           /\ \A i \in Shown' : listed'[i] = 1
<1>1. stage = "asked"
  BY DEF PageReturned
<1>2. Page(query) = Matching(query)
  BY <1>1, LastPageIsAll
<1>3. Wanted \subseteq Ids /\ Matching(query) \subseteq Wanted
  BY <1>1, PageIsNext, Positions
<1>4. \A i \in Ids : listed'[i] = IF i \in Wanted THEN 1 ELSE 0
  BY <1>2, <1>3, PageShows
<1>5. Wanted' = Wanted
  BY PageShows
<1> QED BY <1>3, <1>4, <1>5 DEF Shown

LEMMA FrontierInit == Init => Frontier
BY DEF Init, Frontier

LEMMA FrontierNext == TypeOK /\ AccountInOrder /\ Frontier /\ [Next]_vars => Frontier'
<1> SUFFICES ASSUME TypeOK, AccountInOrder, Frontier, [Next]_vars PROVE Frontier'
  OBVIOUS
<1>1. ASSUME NEW since \in Times \cup {None}, NEW before \in Times \cup {None},
             NEW limit \in Limits, FirstCall(since, before, limit)
      PROVE  Frontier'
  <2>1. query'.since = [at |-> start']
    BY <1>1, FirstCallTypes
  <2>2. listed' = Nothing /\ stage' = "asked"
    BY <1>1 DEF FirstCall, Frontier
  <2> QED BY <2>1, <2>2 DEF Frontier
<1>2. ASSUME NEW limit \in Limits, NextCall(limit) PROVE Frontier'
  <2>1. query'.since = query.since /\ query'.before = query.before
    BY <1>2 DEF NextCall, TypeOK, Queries
  <2>2. Wanted' = Wanted
    BY <1>2, <2>1 DEF NextCall, Wanted, Precedes
  <2> QED BY <1>2, <2>1, <2>2 DEF Frontier, NextCall
<1>3. CASE PageReturned
  <2>1. CASE Full(Page(query))
    BY <1>3, <2>1, FrontierMoves
  <2>2. CASE ~Full(Page(query))
    BY <1>3, <2>2 DEF PageReturned, Frontier
  <2> QED BY <2>1, <2>2
<1>4. CASE CallFails
  <2>1. Wanted' = Wanted
    BY <1>4 DEF CallFails, Wanted, Precedes
  <2> QED BY <1>4, <2>1 DEF CallFails, Frontier
<1>5. CASE NewTransaction
  <2>1. UNCHANGED <<stage, query, start, listed>>
    BY <1>5 DEF NewTransaction
  <2>2. ASSUME NEW last \in Wanted
        PROVE  /\ last \in Wanted'
               /\ \A i \in Ids : i \in Wanted' /\ i <= last <=> i \in Wanted /\ i <= last
    <3>1. last \in DOMAIN account /\ last <= Len(account) /\ Len(account) \in Nat /\ last \in Nat
      BY Positions DEF Wanted
    <3> QED BY <1>5, <3>1, WantedGrows
  <2>3. ASSUME NEW last \in Wanted
        PROVE  [i \in Ids |-> IF i \in Wanted' /\ i <= last THEN 1 ELSE 0]
                  = [i \in Ids |-> IF i \in Wanted /\ i <= last THEN 1 ELSE 0]
    BY <2>2
  <2> QED BY <2>1, <2>2, <2>3 DEF Frontier
<1>6. CASE EndReading
  BY <1>6 DEF EndReading, Frontier
<1>7. CASE TimePasses \/ UNCHANGED vars
  <2>1. Wanted' = Wanted /\ UNCHANGED <<stage, query, start, listed>>
    BY <1>7 DEF TimePasses, vars, Wanted, Precedes
  <2> QED BY <2>1 DEF Frontier
<1> QED BY <1>1, <1>2, <1>3, <1>4, <1>5, <1>6, <1>7, NextCases

-----------------------------------------------------------------------------
(* A reading that has ended.                                                  *)

Ended == stage = "done" => NoGapNoRepeat

LEMMA EndedInit == Init => Ended
BY DEF Init, Ended

LEMMA EndedNext == TypeOK /\ AccountInOrder /\ Frontier /\ Ended /\ [Next]_vars => Ended'
<1> SUFFICES ASSUME TypeOK, AccountInOrder, Frontier, Ended, [Next]_vars, stage' = "done"
             PROVE  NoGapNoRepeat'
  BY DEF Ended
<1>1. CASE PageReturned
  <2>1. ~Full(Page(query))
    BY <1>1 DEF PageReturned
  <2>2. Shown' = Wanted' /\ \A i \in Shown' : listed'[i] = 1
    BY <1>1, <2>1, EndShowsAll
  <2> QED BY <2>2 DEF NoGapNoRepeat
<1>2. CASE NewTransaction
  <2>1. UNCHANGED <<stage, listed>> /\ Shown' = Shown
    BY <1>2 DEF NewTransaction, Shown
  <2>2. /\ Shown \subseteq Wanted
        /\ \A i \in Shown : listed[i] = 1
        /\ \A i \in Shown, j \in Wanted : j < i => j \in Shown
    BY <2>1 DEF Ended, NoGapNoRepeat
  <2>3. \A i \in Shown : i \in Nat /\ i <= Len(account) /\ Len(account) \in Nat
    BY <2>2, Positions DEF Wanted
  <2>4. \A i \in Shown, j \in Wanted' : j < i => j \in Wanted
    BY <1>2, <2>3, WantedGrows
  <2> QED BY <1>2, <2>1, <2>2, <2>4, WantedGrows DEF NoGapNoRepeat
<1>3. CASE TimePasses \/ UNCHANGED vars
  <2>1. Wanted' = Wanted /\ Shown' = Shown /\ UNCHANGED <<stage, listed>>
    BY <1>3 DEF TimePasses, vars, Wanted, Precedes, Shown
  <2> QED BY <2>1 DEF Ended, NoGapNoRepeat
<1> QED BY <1>1, <1>2, <1>3, NextCases DEF FirstCall, NextCall, EndReading, CallFails

-----------------------------------------------------------------------------
(* The theorems.                                                              *)

PagingInv == TypeOK /\ AccountInOrder /\ Frontier /\ Ended

LEMMA PagingInvariant == Spec => []PagingInv
<1>1. Init => PagingInv
  BY TypeInit, AccountInit, FrontierInit, EndedInit DEF PagingInv
<1>2. PagingInv /\ [Next]_vars => PagingInv'
  BY TypeNext, AccountNext, FrontierNext, EndedNext DEF PagingInv
<1> QED BY <1>1, <1>2, PTL DEF Spec

\* The account, the clock and the reading keep their types.
THEOREM TypeCorrect == Spec => []TypeOK
BY PagingInvariant, PTL DEF PagingInv

\* For every page size and every account: no page repeats a transaction or leaves
\* a gap, whatever comes in between two pages.
THEOREM PagesFit == Spec => []NoGapNoRepeat
<1>1. PagingInv => NoGapNoRepeat
  <2> SUFFICES ASSUME PagingInv, stage \in {"asked", "more"} PROVE NoGapNoRepeat
    BY DEF PagingInv, Ended, TypeOK, Stages, NoGapNoRepeat
  <2>1. /\ \A i \in Ids : listed[i] = IF i \in Wanted \ Matching(query) THEN 1 ELSE 0
        /\ Matching(query) \subseteq Wanted /\ Wanted \subseteq DOMAIN account
        /\ \A i \in Wanted \ Matching(query), j \in Matching(query) : i < j
    BY PageIsNext DEF PagingInv
  <2>2. Wanted \subseteq Ids /\ Wanted \subseteq Nat
    BY <2>1, Positions DEF PagingInv
  <2>3. Shown = Wanted \ Matching(query)
    BY <2>1, <2>2 DEF Shown
  <2>4. \A i \in Shown : listed[i] = 1
    BY <2>1, <2>2, <2>3
  <2>5. \A i \in Shown, j \in Wanted : j < i => j \in Shown
    BY <2>1, <2>2, <2>3
  <2> QED BY <2>3, <2>4, <2>5 DEF NoGapNoRepeat
<1> QED BY <1>1, PagingInvariant, PTL

\* A reading that is told of no further page has shown all it asked for.
THEOREM EndIsTheEnd == Spec => EndIsEnd
<1>1. PagingInv /\ [Next]_vars
        => [stage = "asked" /\ stage' = "done" => Shown' = Wanted']_vars
  <2> SUFFICES ASSUME PagingInv, [Next]_vars, stage = "asked", stage' = "done"
               PROVE  Shown' = Wanted'
    OBVIOUS
  <2>1. PageReturned
    BY NextCases DEF FirstCall, NextCall, EndReading, CallFails, NewTransaction,
                     TimePasses, vars
  <2>2. ~Full(Page(query))
    BY <2>1 DEF PageReturned
  <2> QED BY <2>1, <2>2, EndShowsAll DEF PagingInv
<1> QED BY <1>1, PagingInvariant, PTL DEF EndIsEnd, Spec
=============================================================================
