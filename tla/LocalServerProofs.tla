-------------------------- MODULE LocalServerProofs --------------------------
(* What LocalServer guarantees for every number of concurrent tool calls and  *)
(* of pairs, under all of its faults.  MCLocalServer checks the same formulas *)
(* on three calls.                                                            *)
EXTENDS LocalServer, TLAPS

-----------------------------------------------------------------------------
(* Type correctness.                                                          *)

LEMMA TypeInit == Init => TypeOK
<1>1. Idle \in RequestRecords
  BY DEF Idle, RequestRecords
<1> QED BY <1>1 DEF Init, TypeOK, ClientKinds

\* Below the bound there is a next pair, newer than all the others.
LEMMA NextPair ==
    ASSUME TypeOK, live < MaxPair
    PROVE  live + 1 \in Pairs
BY MaxPairAssumption DEF TypeOK, Pairs, NoPair

LEMMA TypeOperator == ASSUME TypeOK, Operator PROVE TypeOK'
<1> USE DEF TypeOK, monzoVars, diskVars, Forgotten
<1>1. CASE StartServer
  BY <1>1 DEF StartServer
<1>2. CASE StopServer
  BY <1>2 DEF StopServer
<1>3. CASE KillServer
  <2>1. InHand \subseteq Pairs \cup {NoPair}
    BY DEF InHand, RequestRecords
  <2> QED BY <1>3, <2>1 DEF KillServer, Idle, RequestRecords
<1>4. CASE Login
  BY <1>4, NextPair DEF Login, ClientKinds
<1>5. CASE LoginFails
  BY <1>5 DEF LoginFails, ClientKinds
<1>6. CASE Logout
  BY <1>6 DEF Logout
<1> QED BY <1>1, <1>2, <1>3, <1>4, <1>5, <1>6 DEF Operator

LEMMA TypeEnvironment == ASSUME TypeOK, Environment \/ LateWrite PROVE TypeOK'
<1> USE DEF TypeOK, diskVars
<1>1. CASE TimePasses
  <2>1. 1 .. live \subseteq Pairs
    BY MaxPairAssumption DEF Pairs, NoPair
  <2> QED BY <1>1, <2>1 DEF TimePasses
<1>2. CASE AccessEnds
  BY <1>2 DEF AccessEnds
<1>3. CASE Withdraw
  BY <1>3, NextPair DEF Withdraw
<1>4. CASE LateWrite
  BY <1>4 DEF LateWrite, monzoVars, ClientKinds
<1> QED BY <1>1, <1>2, <1>3, <1>4 DEF Environment

\* How a call's record changes: to another stage, with the stored pair, with
\* the pair that was rejected, or back to idle.
LEMMA RecordTypes ==
    ASSUME TypeOK, NEW r \in Requests, NEW s \in Stages, NEW p \in Pairs \cup {NoPair}
    PROVE  /\ Idle \in RequestRecords
           /\ [req[r] EXCEPT !.stage = s] \in RequestRecords
           /\ [req[r] EXCEPT !.stage = s, !.token = p] \in RequestRecords
           /\ [req[r] EXCEPT !.stage = s, !.rejected = req[r].token] \in RequestRecords
BY DEF TypeOK, Idle, RequestRecords

LEMMA TypeCalling ==
    ASSUME TypeOK, NEW r \in Requests, BeginCall(r) \/ Calling(r) \/ EnterLock(r)
    PROVE  TypeOK'
<1> USE RecordTypes DEF TypeOK, Stages, monzoVars, diskVars
<1>1. CASE BeginCall(r)
  BY <1>1 DEF BeginCall
<1>2. CASE UseStoredPair(r)
  BY <1>2 DEF UseStoredPair
<1>3. CASE NeedRefresh(r)
  BY <1>3 DEF NeedRefresh
<1>4. CASE CallEnds(r)
  BY <1>4 DEF CallEnds
<1>5. CASE CallRejected(r)
  BY <1>5 DEF CallRejected
<1>6. CASE TakeLock(r)
  BY <1>6 DEF TakeLock
<1>7. CASE UseReplacedPair(r)
  BY <1>7 DEF UseReplacedPair
<1> QED BY <1>1, <1>2, <1>3, <1>4, <1>5, <1>6, <1>7 DEF Calling, EnterLock

LEMMA TypeRotate ==
    ASSUME TypeOK, Rotate
    PROVE  live' \in Pairs /\ live' = live + 1 /\ accepted' /\ expiring' = expiring
BY NextPair DEF TypeOK, Rotate

LEMMA TypeRefreshing ==
    ASSUME TypeOK, NEW r \in Requests, Refreshing(r) \/ CancelRefresh(r)
    PROVE  TypeOK'
<1>0. req[r].token \in Pairs \cup {NoPair}
  BY DEF TypeOK, RequestRecords
<1> USE RecordTypes, TypeRotate DEF TypeOK, EndRefresh, Stages, monzoVars, diskVars
<1>1. CASE PairArrives(r)
  BY <1>1 DEF PairArrives
<1>2. CASE RefreshRefused(r)
  BY <1>2 DEF RefreshRefused
<1>3. CASE RefreshUnhandled(r)
  BY <1>3 DEF RefreshUnhandled
<1>4. CASE AnswerLost(r)
  BY <1>4 DEF AnswerLost
<1>5. CASE PairSaved(r)
  BY <1>0, <1>5 DEF PairSaved
<1>6. CASE SaveFails(r)
  BY <1>0, <1>6 DEF SaveFails
<1>7. CASE CancelRefresh(r)
  BY <1>0, <1>7 DEF CancelRefresh
<1> QED BY <1>1, <1>2, <1>3, <1>4, <1>5, <1>6, <1>7 DEF Refreshing

LEMMA TypeStep == ASSUME TypeOK, [Next]_vars PROVE TypeOK'
<1>1. CASE Next
  BY <1>1, TypeOperator, TypeEnvironment, TypeCalling, TypeRefreshing DEF Next
<1>2. CASE UNCHANGED vars
  BY <1>2 DEF vars, monzoVars, diskVars, TypeOK
<1> QED BY <1>1, <1>2

\* Every variable keeps its type.
THEOREM TypeCorrect == Spec => []TypeOK
<1>1. TypeOK /\ [Next]_vars => TypeOK'
  BY TypeStep
<1> QED BY <1>1, TypeInit, PTL DEF Spec

-----------------------------------------------------------------------------
(* What a step can do, summarised once for the invariants below.              *)

InLock == {"refreshing", "rotated"}

\* A call outside the lock touches nothing but its own record, and brings no
\* pair into hand; it is about to enter the lock only if that is free.
LEMMA OutsideLock ==
    ASSUME TypeOK, NEW r \in Requests, BeginCall(r) \/ Calling(r) \/ EnterLock(r)
    PROVE  /\ UNCHANGED <<up, monzoVars, diskVars, memory, broken>>
           /\ req[r].stage \notin InLock
           /\ req'[r].stage # "rotated"
           /\ req'[r].stage = "idle" => req'[r] = Idle
           /\ req'[r].token \in {req[r].token, memory, NoPair}
           /\ req'[r].rejected \in {req[r].rejected, req[r].token, NoPair}
           /\ \A s \in Requests \ {r} : req'[s] = req[s]
           /\ \/ req'[r].stage = "refreshing" /\ lock = None /\ lock' = r
              \/ req'[r].stage # "refreshing" /\ lock' = lock
           /\ up \/ ~At(r, "idle")
<1> USE DEF TypeOK, RequestRecords, At, InLock, NoPair
<1>1. CASE BeginCall(r)
  BY <1>1 DEF BeginCall
<1>2. CASE UseStoredPair(r)
  BY <1>2 DEF UseStoredPair
<1>3. CASE NeedRefresh(r)
  BY <1>3 DEF NeedRefresh
<1>4. CASE CallEnds(r)
  BY <1>4 DEF CallEnds, Idle
<1>5. CASE CallRejected(r)
  BY <1>5 DEF CallRejected
<1>6. CASE TakeLock(r)
  BY <1>6 DEF TakeLock, LockFree
<1>7. CASE UseReplacedPair(r)
  BY <1>7 DEF UseReplacedPair, LockFree
<1> QED BY <1>1, <1>2, <1>3, <1>4, <1>5, <1>6, <1>7 DEF Calling, EnterLock

\* The call inside either gets its pair, or saves it, or leaves: then what it
\* may have changed is whether a pair was lost, and where the lost pair may be.
Leaves(r) ==
    /\ req[r].stage \in InLock
    /\ EndRefresh(r)
    /\ \/ At(r, "refreshing") /\ UNCHANGED <<monzoVars, diskVars, broken>>
       \/ Rotate /\ broken' /\ UNCHANGED diskVars
       \/ /\ At(r, "rotated") /\ broken'
          /\ disk' \in {disk, req[r].token}
          /\ orphans' \in {orphans, orphans \cup {req[r].token}}
          /\ UNCHANGED <<monzoVars, client, overwritten>>

LEMMA InsideLock ==
    ASSUME TypeOK, NEW r \in Requests, Refreshing(r) \/ CancelRefresh(r)
    PROVE  PairArrives(r) \/ PairSaved(r) \/ Leaves(r)
<1> USE DEF Leaves, At, InLock, diskVars
<1>1. CASE RefreshRefused(r) \/ RefreshUnhandled(r)
  BY <1>1 DEF RefreshRefused, RefreshUnhandled
<1>2. CASE AnswerLost(r)
  BY <1>2 DEF AnswerLost
<1>3. CASE SaveFails(r)
  BY <1>3 DEF SaveFails
<1>4. CASE CancelRefresh(r)
  <2>1. CASE At(r, "refreshing") /\ Rotate
    <3>1. live' # live /\ UNCHANGED diskVars
      BY <1>4, <2>1, MaxPairAssumption
      DEF CancelRefresh, Rotate, TypeOK, Pairs, NoPair
    <3> QED BY <1>4, <2>1, <3>1 DEF CancelRefresh
  <2>2. CASE At(r, "refreshing") /\ UNCHANGED monzoVars
    BY <1>4, <2>2 DEF CancelRefresh, TypeOK, monzoVars
  <2>3. CASE At(r, "rotated")
    BY <1>4, <2>3 DEF CancelRefresh
  <2> QED BY <1>4, <2>1, <2>2, <2>3 DEF CancelRefresh
<1> QED BY <1>1, <1>2, <1>3, <1>4 DEF Refreshing

-----------------------------------------------------------------------------
(* The refresh lock.                                                          *)

LockOwned == LockHeldByRefresher /\ OnlyWhileUp /\ EndedForgets

LEMMA LockInit == Init => LockOwned
BY NoneAssumption
DEF Init, LockOwned, LockHeldByRefresher, OnlyWhileUp, EndedForgets, AllIdle, At, Idle

LEMMA LockOperator ==
    ASSUME TypeOK, LockOwned, Operator \/ Environment \/ LateWrite
    PROVE  LockOwned'
<1> USE NoneAssumption
    DEF LockOwned, LockHeldByRefresher, OnlyWhileUp, EndedForgets, AllIdle, At
<1>1. CASE KillServer
  BY <1>1 DEF KillServer, Idle, Forgotten
<1>2. CASE StartServer
  BY <1>2 DEF StartServer
<1>3. CASE StopServer
  BY <1>3 DEF StopServer, TypeOK, Forgotten
<1>4. ASSUME UNCHANGED <<up, lock, req, memory>> PROVE LockOwned'
  BY <1>4
<1>5. CASE Login \/ LoginFails \/ Logout \/ Environment \/ LateWrite
  BY <1>4, <1>5
  DEF Login, LoginFails, Logout, Environment, TimePasses, AccessEnds, Withdraw, LateWrite
<1> QED BY <1>1, <1>2, <1>3, <1>5 DEF Operator

\* A call outside the lock stays outside, unless it takes it while it is free.
LEMMA LockCalling ==
    ASSUME TypeOK, LockOwned, NEW r \in Requests,
           BeginCall(r) \/ Calling(r) \/ EnterLock(r)
    PROVE  LockOwned'
<1>1. LockHeldByRefresher'
  BY NoneAssumption, OutsideLock DEF LockOwned, LockHeldByRefresher, InLock
<1>2. up /\ up'
  BY OutsideLock DEF LockOwned, OnlyWhileUp, AllIdle
<1>3. EndedForgets'
  BY OutsideLock DEF LockOwned, EndedForgets, At
<1> QED BY <1>1, <1>2, <1>3 DEF LockOwned, OnlyWhileUp

\* The call inside goes on inside, or leaves the lock free.
LEMMA LockRefreshing ==
    ASSUME TypeOK, LockOwned, NEW r \in Requests, Refreshing(r) \/ CancelRefresh(r)
    PROVE  LockOwned'
<1> USE NoneAssumption
    DEF TypeOK, LockOwned, LockHeldByRefresher, OnlyWhileUp, EndedForgets, AllIdle, At,
        RequestRecords
<1>1. CASE Leaves(r)
  BY <1>1 DEF Leaves, EndRefresh, InLock, Idle
<1>2. CASE PairArrives(r)
  BY <1>2 DEF PairArrives
<1>3. CASE PairSaved(r)
  BY <1>3 DEF PairSaved
<1> QED BY <1>1, <1>2, <1>3, InsideLock

LEMMA LockStep == ASSUME TypeOK, LockOwned, [Next]_vars PROVE LockOwned'
<1>1. CASE Next
  BY <1>1, LockOperator, LockCalling, LockRefreshing DEF Next
<1>2. CASE UNCHANGED vars
  BY <1>2 DEF vars, LockOwned, LockHeldByRefresher, OnlyWhileUp, EndedForgets,
              AllIdle, At
<1> QED BY <1>1, <1>2

\* The refresh lock is held exactly by the one call that refreshes, and by
\* nobody while no server runs: failed, cancelled and killed refreshes leave it.
THEOREM LockIsHeldByRefresher == Spec => [](LockHeldByRefresher /\ OnlyWhileUp)
<1>1. TypeOK /\ LockOwned /\ [Next]_vars => LockOwned'
  BY LockStep
<1>2. LockOwned => LockHeldByRefresher /\ OnlyWhileUp
  BY DEF LockOwned
<1> QED BY <1>1, <1>2, LockInit, TypeCorrect, PTL DEF Spec

-----------------------------------------------------------------------------
(* The order of pairs.                                                        *)

PairOrder == PairsInOrder /\ NewestInHand /\ OrphansAreLost

LEMMA PairsAreNumbers ==
    ASSUME TypeOK
    PROVE  /\ live \in Nat /\ disk \in Nat /\ memory \in Nat
           /\ \A r \in Requests : req[r].token \in Nat /\ req[r].rejected \in Nat
           /\ \A p \in orphans : p \in Nat
           /\ \A p \in InHand : p \in Nat
BY MaxPairAssumption DEF TypeOK, RequestRecords, Pairs, NoPair, InHand

\* At most one call is in the lock, so a call that refreshes shows that no pair
\* is in hand, and one with the pair in hand that nobody else has one.
LEMMA OneRefresher ==
    ASSUME LockHeldByRefresher, NEW r \in Requests, req[r].stage \in InLock
    PROVE  /\ lock = r
           /\ \A s \in Requests \ {r} : req[s].stage \notin InLock
           /\ At(r, "refreshing") => InHand = {}
           /\ At(r, "rotated") => InHand = {req[r].token}
<1>1. lock = r /\ \A s \in Requests \ {r} : req[s].stage \notin InLock
  BY DEF LockHeldByRefresher, InLock
<1> QED BY <1>1 DEF InHand, At, InLock

\* Without a server nothing is in hand.
LEMMA NothingInHand == ASSUME LockOwned, ~up PROVE InHand = {}
BY DEF LockOwned, OnlyWhileUp, AllIdle, InHand, At

\* After the call in the lock has left it, or has saved its pair, nobody has one.
LEMMA HandEmptied ==
    ASSUME TypeOK, LockOwned, NEW r \in Requests, Leaves(r) \/ PairSaved(r)
    PROVE  InHand' = {}
<1>1. req[r].stage \in InLock
  BY DEF Leaves, PairSaved, At, InLock
<1>2. \A s \in Requests \ {r} : req'[s].stage # "rotated"
  BY <1>1, OneRefresher
  DEF LockOwned, Leaves, EndRefresh, PairSaved, TypeOK, InLock, At
<1>3. req'[r].stage # "rotated"
  BY DEF Leaves, EndRefresh, PairSaved, TypeOK, RequestRecords, Idle
<1> QED BY <1>2, <1>3 DEF InHand, At

\* The pair that arrives is the only one in hand.
LEMMA ArrivedInHand ==
    ASSUME TypeOK, LockOwned, NEW r \in Requests, PairArrives(r)
    PROVE  InHand' = {live'}
<1>1. \A s \in Requests \ {r} : ~At(s, "rotated")
  BY OneRefresher DEF PairArrives, LockOwned, At, InLock
<1>2. /\ req'[r].stage = "rotated" /\ req'[r].token = live'
      /\ \A s \in Requests \ {r} : req'[s] = req[s]
  BY DEF PairArrives, TypeOK, RequestRecords
<1>3. {s \in Requests : At(s, "rotated")}' = {r}
  BY <1>1, <1>2 DEF At
<1> QED BY <1>2, <1>3 DEF InHand

LEMMA HandUnchanged ==
    ASSUME TypeOK, NEW r \in Requests, BeginCall(r) \/ Calling(r) \/ EnterLock(r)
    PROVE  InHand' = InHand
<1>1. \A s \in Requests : /\ req'[s].stage = "rotated" <=> req[s].stage = "rotated"
                          /\ req[s].stage = "rotated" => req'[s] = req[s]
  BY OutsideLock DEF InLock
<1> QED BY <1>1 DEF InHand, At

LEMMA OrderInit == Init => PairOrder
BY DEF Init, PairOrder, PairsInOrder, NewestInHand, OrphansAreLost, InHand, At,
       Idle, NoPair

LEMMA OrderOperator ==
    ASSUME TypeOK, LockOwned, PairOrder, Operator
    PROVE  PairOrder'
<1> USE PairsAreNumbers, NothingInHand
    DEF At, PairOrder, PairsInOrder, NewestInHand, OrphansAreLost, NoPair
<1>1. CASE KillServer
  <2>1. InHand' = {}
    BY <1>1 DEF KillServer, InHand, At, Idle
  <2>2. PairsInOrder'
    BY <1>1 DEF KillServer, Forgotten, Idle, monzoVars
  <2>3. CASE broken' = (broken \/ InHand # {}) /\ UNCHANGED <<disk, overwritten>>
    BY <1>1, <2>1, <2>2, <2>3 DEF KillServer, monzoVars
  <2>4. CASE disk' \in InHand
    <3>1. \A p \in orphans : p < disk'
      BY <2>4
    <3>2. OrphansAreLost'
      BY <1>1, <2>4, <3>1 DEF KillServer, monzoVars
    <3> QED BY <2>1, <2>2, <3>2
  <2> QED BY <1>1, <2>3, <2>4 DEF KillServer
<1>2. ASSUME UNCHANGED req PROVE InHand' = InHand
  BY <1>2 DEF InHand, At
<1>3. CASE StartServer
  BY <1>2, <1>3 DEF StartServer, LockOwned, OnlyWhileUp, monzoVars, diskVars
<1>4. CASE StopServer
  <2>1. InHand = {} /\ \A r \in Requests : req[r] = Idle
    BY <1>4 DEF StopServer, AllIdle, InHand, At, LockOwned, EndedForgets
  <2> QED BY <1>2, <1>4, <2>1 DEF StopServer, Forgotten, Idle, monzoVars, diskVars
<1>5. CASE Login
  BY <1>2, <1>5 DEF Login
<1>6. CASE LoginFails
  BY <1>2, <1>6 DEF LoginFails, monzoVars
<1>7. CASE Logout
  BY <1>2, <1>7 DEF Logout, LockOwned, OnlyWhileUp
<1> QED BY <1>1, <1>3, <1>4, <1>5, <1>6, <1>7 DEF Operator

LEMMA OrderEnvironment ==
    ASSUME TypeOK, LockOwned, PairOrder, Environment \/ LateWrite
    PROVE  PairOrder'
<1> USE PairsAreNumbers
    DEF PairOrder, PairsInOrder, NewestInHand, OrphansAreLost, At
<1>1. InHand' = InHand
  BY DEF InHand, Environment, TimePasses, AccessEnds, Withdraw, LateWrite
<1>2. CASE TimePasses
  BY <1>1, <1>2 DEF TimePasses, diskVars
<1>3. CASE AccessEnds
  BY <1>1, <1>3 DEF AccessEnds, diskVars
<1>4. CASE Withdraw
  BY <1>1, <1>4 DEF Withdraw, diskVars
<1>5. CASE LateWrite
  <2>1. PICK p \in orphans :
            /\ orphans' = orphans \ {p}
            /\ disk' = p
            /\ overwritten' = (overwritten \/ p < disk)
            /\ UNCHANGED <<up, monzoVars, memory, lock, req, broken>>
    BY <1>5 DEF LateWrite
  <2>2. ~overwritten' => ~overwritten /\ ~(p < disk)
    BY <2>1
  <2>3. overwritten => overwritten'
    BY <2>1
  <2>4. PairsInOrder'
    BY <2>1, <2>2 DEF monzoVars
  <2>5. NewestInHand'
    BY <1>1, <2>1 DEF monzoVars
  <2>6. OrphansAreLost'
    BY <2>1, <2>2, <2>3 DEF monzoVars
  <2> QED BY <2>4, <2>5, <2>6
<1> QED BY <1>2, <1>3, <1>4, <1>5 DEF Environment

LEMMA OrderCalling ==
    ASSUME TypeOK, PairOrder, NEW r \in Requests,
           BeginCall(r) \/ Calling(r) \/ EnterLock(r)
    PROVE  PairOrder'
<1> USE PairsAreNumbers, HandUnchanged, OutsideLock
    DEF PairOrder, monzoVars, diskVars
<1>1. PairsInOrder'
  BY DEF PairsInOrder, At, InLock, NoPair
<1>2. NewestInHand'
  BY DEF NewestInHand
<1>3. OrphansAreLost'
  BY DEF OrphansAreLost
<1> QED BY <1>1, <1>2, <1>3

LEMMA OrderRefreshing ==
    ASSUME TypeOK, LockOwned, PairOrder, NEW r \in Requests,
           Refreshing(r) \/ CancelRefresh(r)
    PROVE  PairOrder'
<1> USE PairsAreNumbers DEF PairOrder, PairsInOrder, NewestInHand, OrphansAreLost
<1>1. CASE PairArrives(r)
  <2>1. /\ live' = live + 1 /\ UNCHANGED <<diskVars, memory, broken>>
        /\ req'[r].stage = "rotated" /\ req'[r].rejected = req[r].rejected
        /\ \A s \in Requests \ {r} : req'[s] = req[s]
    BY <1>1 DEF PairArrives, Rotate, TypeOK, RequestRecords
  <2>2. \A s \in Requests \ {r} : ~At(s, "rotated")
    BY <1>1, OneRefresher DEF PairArrives, LockOwned, At, InLock
  <2>3. InHand' = {live'}
    BY <1>1, ArrivedInHand
  <2>4. PairsInOrder'
    BY <2>1, <2>2 DEF diskVars, At
  <2>5. NewestInHand' /\ OrphansAreLost'
    BY <2>1, <2>3 DEF diskVars
  <2> QED BY <2>4, <2>5
<1>2. CASE PairSaved(r)
  <2>1. req[r].token \in InHand /\ InHand' = {}
    BY <1>2, HandEmptied DEF PairSaved, InHand
  <2>2. \A s \in Requests \ {r} : ~At(s, "rotated")
    BY <1>2, OneRefresher DEF PairSaved, LockOwned, At, InLock
  <2>3. PairsInOrder'
    BY <1>2, <2>1, <2>2 DEF PairSaved, monzoVars, At, TypeOK, RequestRecords
  <2>4. NewestInHand' /\ OrphansAreLost'
    BY <1>2, <2>1 DEF PairSaved, monzoVars
  <2> QED BY <2>3, <2>4
<1>3. CASE Leaves(r)
  <2>1. InHand' = {} /\ UNCHANGED memory
    BY <1>3, HandEmptied DEF Leaves, EndRefresh
  <2>2. \A s \in Requests : req'[s] = Idle \/ req'[s] = req[s]
    BY <1>3 DEF Leaves, EndRefresh, TypeOK
  <2>3. CASE UNCHANGED <<monzoVars, diskVars, broken>>
    BY <2>1, <2>2, <2>3 DEF monzoVars, diskVars, Idle, At, NoPair
  <2>4. CASE Rotate /\ broken' /\ UNCHANGED diskVars
    BY <2>1, <2>2, <2>4 DEF Rotate, diskVars, Idle, At, NoPair
  <2>5. CASE /\ At(r, "rotated") /\ broken'
             /\ disk' \in {disk, req[r].token}
             /\ orphans' \in {orphans, orphans \cup {req[r].token}}
             /\ UNCHANGED <<monzoVars, client, overwritten>>
    <3>1. req[r].token \in InHand
      BY <2>5 DEF InHand
    <3>2. PairsInOrder'
      BY <2>1, <2>2, <2>5, <3>1 DEF monzoVars, Idle, At, NoPair
    <3>3. NewestInHand' /\ OrphansAreLost'
      BY <2>1, <2>5, <3>1 DEF monzoVars
    <3> QED BY <3>2, <3>3
  <2> QED BY <1>3, <2>3, <2>4, <2>5 DEF Leaves
<1> QED BY <1>1, <1>2, <1>3, InsideLock

LEMMA OrderStep == ASSUME TypeOK, LockOwned, PairOrder, [Next]_vars PROVE PairOrder'
<1>1. CASE Next
  BY <1>1, OrderOperator, OrderEnvironment, OrderCalling, OrderRefreshing DEF Next
<1>2. CASE UNCHANGED vars
  BY <1>2 DEF vars, monzoVars, diskVars, PairOrder, PairsInOrder, NewestInHand,
              OrphansAreLost, InHand, At
<1> QED BY <1>1, <1>2

LEMMA OrderInvariant == Spec => [](TypeOK /\ LockOwned /\ PairOrder)
<1>1. TypeOK /\ LockOwned /\ PairOrder /\ [Next]_vars
        => (TypeOK /\ LockOwned /\ PairOrder)'
  BY TypeStep, LockStep, OrderStep
<1> QED BY <1>1, TypeInit, LockInit, OrderInit, PTL DEF Spec

\* No pair is used that is not in the directory, whatever fails: in particular a
\* pair whose save failed or was cancelled is never used, and only the thread of
\* a cancelled save can take a pair that is in use out of the directory.
THEOREM PairsAreDurableBeforeUse == Spec => []DurableBeforeUse
<1>1. TypeOK /\ PairOrder => DurableBeforeUse
  BY PairsAreNumbers DEF PairOrder, PairsInOrder, DurableBeforeUse, At
<1> QED BY <1>1, OrderInvariant, PTL

-----------------------------------------------------------------------------
(* The chain of pairs.                                                        *)

LEMMA ChainInit == Init => ChainBehindByOne
BY DEF Init, ChainBehindByOne, InHand, At, Idle

LEMMA ChainOperator ==
    ASSUME TypeOK, LockOwned, PairOrder, ChainBehindByOne, Operator
    PROVE  ChainBehindByOne'
<1> USE NothingInHand DEF ChainBehindByOne
<1>1. ASSUME UNCHANGED req PROVE InHand' = InHand
  BY <1>1 DEF InHand, At
<1>2. CASE StartServer
  BY <1>1, <1>2 DEF StartServer, monzoVars, diskVars
<1>3. CASE StopServer
  BY <1>1, <1>3 DEF StopServer, monzoVars, diskVars
<1>4. CASE KillServer
  <2>1. InHand' = {} /\ ~up' /\ UNCHANGED live
    BY <1>4 DEF KillServer, InHand, At, Idle, monzoVars
  <2>2. CASE broken' = (broken \/ InHand # {}) /\ UNCHANGED <<disk, overwritten>>
    <3>1. ~broken' => ~broken /\ InHand = {}
      BY <2>2
    <3> QED BY <2>1, <2>2, <3>1
  <2>3. CASE disk' \in InHand /\ UNCHANGED broken
    BY <2>1, <2>3
  <2> QED BY <1>4, <2>2, <2>3 DEF KillServer
<1>5. CASE Login
  BY <1>1, <1>5 DEF Login
<1>6. CASE LoginFails
  BY <1>1, <1>6 DEF LoginFails, monzoVars
<1>7. CASE Logout
  BY <1>7 DEF Logout
<1> QED BY <1>2, <1>3, <1>4, <1>5, <1>6, <1>7 DEF Operator

\* A late write that changes the directory is one of a pair that was lost, or it
\* turns the directory back.
LEMMA ChainEnvironment ==
    ASSUME TypeOK, PairOrder, ChainBehindByOne, Environment \/ LateWrite
    PROVE  ChainBehindByOne'
<1> USE DEF ChainBehindByOne
<1>1. InHand' = InHand
  BY DEF InHand, At, Environment, TimePasses, AccessEnds, Withdraw, LateWrite
<1>2. CASE Environment
  BY <1>1, <1>2 DEF Environment, TimePasses, AccessEnds, Withdraw, diskVars
<1>3. CASE LateWrite
  <2>1. PICK p \in orphans :
            /\ disk' = p
            /\ overwritten' = (overwritten \/ p < disk)
            /\ UNCHANGED <<up, monzoVars, memory, broken>>
    BY <1>3 DEF LateWrite
  <2>2. ~overwritten' => ~overwritten /\ ~(p < disk)
    BY <2>1
  <2>3. broken \/ overwritten \/ ~(p > disk)
    BY PairsAreNumbers DEF PairOrder, OrphansAreLost
  <2>4. broken' \/ overwritten' \/ disk' = disk
    BY <2>1, <2>2, <2>3, PairsAreNumbers
  <2> QED BY <1>1, <2>1, <2>2, <2>4 DEF monzoVars
<1> QED BY <1>2, <1>3

\* Outside the lock the chain does not move and no pair comes into hand.
LEMMA ChainCalling ==
    ASSUME TypeOK, ChainBehindByOne, NEW r \in Requests,
           BeginCall(r) \/ Calling(r) \/ EnterLock(r)
    PROVE  ChainBehindByOne'
BY OutsideLock, HandUnchanged DEF ChainBehindByOne, monzoVars, diskVars

LEMMA ChainRefreshing ==
    ASSUME TypeOK, LockOwned, ChainBehindByOne, NEW r \in Requests,
           Refreshing(r) \/ CancelRefresh(r)
    PROVE  ChainBehindByOne'
<1> USE DEF ChainBehindByOne
<1>1. CASE PairArrives(r)
  <2>1. InHand' = {live'}
    BY <1>1, ArrivedInHand
  <2> QED BY <1>1, <2>1 DEF PairArrives, diskVars
<1>2. CASE PairSaved(r)
  <2>1. InHand' = {} /\ req[r].token \in InHand
    BY <1>2, HandEmptied DEF PairSaved, InHand
  <2> QED BY <1>2, <2>1 DEF PairSaved, monzoVars
<1>3. CASE Leaves(r)
  <2>1. CASE broken'
    BY <2>1
  <2>2. CASE At(r, "refreshing") /\ UNCHANGED <<monzoVars, diskVars, broken>>
    <3>1. InHand' = {} /\ UNCHANGED <<up, memory>>
      BY <1>3, HandEmptied DEF Leaves, EndRefresh
    <3>2. InHand = {}
      BY <2>2, OneRefresher DEF LockOwned, At, InLock
    <3> QED BY <2>2, <3>1, <3>2 DEF monzoVars, diskVars
  <2> QED BY <1>3, <2>1, <2>2 DEF Leaves
<1> QED BY <1>1, <1>2, <1>3, InsideLock

LEMMA ChainStep ==
    ASSUME TypeOK, LockOwned, PairOrder, ChainBehindByOne, [Next]_vars
    PROVE  ChainBehindByOne'
<1>1. CASE Next
  BY <1>1, ChainOperator, ChainEnvironment, ChainCalling, ChainRefreshing DEF Next
<1>2. CASE UNCHANGED vars
  BY <1>2 DEF vars, monzoVars, diskVars, ChainBehindByOne, InHand, At
<1> QED BY <1>1, <1>2

LEMMA ChainInvariant == Spec => [](TypeOK /\ LockOwned /\ ChainBehindByOne)
<1>1. TypeOK /\ LockOwned /\ PairOrder /\ ChainBehindByOne /\ [Next]_vars
        => ChainBehindByOne'
  BY ChainStep
<1> QED BY <1>1, ChainInit, OrderInvariant, PTL DEF Spec

\* However many calls run at once, and whatever fails without losing a pair,
\* the directory, the memory and Monzo agree between two refreshes.
THEOREM ChainStaysIntact == Spec => []ChainIntact
<1>1. TypeOK /\ LockOwned /\ ChainBehindByOne => ChainIntact
  <2> SUFFICES ASSUME TypeOK, LockOwned, ChainBehindByOne,
                      up, lock = None, ~broken, ~overwritten
               PROVE  memory = live /\ disk = live
    BY DEF ChainIntact
  <2>1. InHand = {}
    BY NoneAssumption DEF InHand, At, LockOwned, LockHeldByRefresher
  <2> QED BY <2>1 DEF ChainBehindByOne
<1> QED BY <1>1, ChainInvariant, PTL

\* Monzo refuses a refresh, and the user has to log in again, only after a pair
\* was lost, access withdrawn, the current pair overwritten, or the OAuth client
\* replaced unnoticed.
THEOREM NoSpuriousReauthentication == Spec => ReauthOnlyIfBroken
<1>1. ASSUME TypeOK, LockOwned, ChainBehindByOne, NEW r \in Requests, RefreshRefused(r),
             client # "unnoticed"
      PROVE  broken \/ overwritten
  <2>1. At(r, "refreshing") /\ memory # live
    BY <1>1 DEF RefreshRefused
  <2>2. up /\ InHand = {}
    BY <1>1, <2>1, OneRefresher
    DEF LockOwned, OnlyWhileUp, AllIdle, At, InLock
  <2> QED BY <1>1, <2>1, <2>2 DEF ChainBehindByOne
<1>2. TypeOK /\ LockOwned /\ ChainBehindByOne
        => [\A r \in Requests :
               RefreshRefused(r) => broken \/ overwritten \/ client = "unnoticed"]_vars
  BY <1>1
<1> QED BY <1>2, ChainInvariant, PTL DEF ReauthOnlyIfBroken

-----------------------------------------------------------------------------
(* Where the exceptions end: without cancelled calls, and without any fault.  *)

\* Only a cancelled save leaves a thread behind that may still write.
Undisturbed == orphans = {} /\ ~overwritten

LEMMA UndisturbedStep ==
    ASSUME "cancel" \notin Faults, Undisturbed, [Next]_vars
    PROVE  Undisturbed'
<1>1. CASE StartServer \/ StopServer \/ Login \/ LoginFails \/ Logout
  <2>1. UNCHANGED orphans /\ (overwritten' = overwritten \/ overwritten' = FALSE)
    BY <1>1 DEF StartServer, StopServer, Login, LoginFails, Logout, diskVars
  <2> QED BY <2>1 DEF Undisturbed
<1>2. CASE KillServer
  <2>1. CASE UNCHANGED <<disk, overwritten>>
    BY <1>2, <2>1 DEF KillServer, Undisturbed
  <2>2. CASE overwritten' = FALSE
    BY <1>2, <2>2 DEF KillServer, Undisturbed
  <2> QED BY <1>2, <2>1, <2>2 DEF KillServer
<1>3. CASE Environment \/ LateWrite
  BY <1>3 DEF Environment, TimePasses, AccessEnds, Withdraw, LateWrite, Undisturbed,
              diskVars
<1>4. ASSUME NEW r \in Requests,
             BeginCall(r) \/ Calling(r) \/ EnterLock(r) \/ Refreshing(r)
      PROVE  Undisturbed'
  BY <1>4 DEF BeginCall, Calling, UseStoredPair, NeedRefresh, CallEnds, CallRejected,
              EnterLock, TakeLock, UseReplacedPair,
              Refreshing, PairArrives, RefreshRefused, RefreshUnhandled, AnswerLost,
              PairSaved, SaveFails, Undisturbed, diskVars
<1>5. ASSUME NEW r \in Requests PROVE ~CancelRefresh(r)
  BY DEF CancelRefresh
<1>6. CASE UNCHANGED vars
  BY <1>6 DEF vars, Undisturbed, diskVars
<1> QED BY <1>1, <1>2, <1>3, <1>4, <1>5, <1>6 DEF Next, Operator

\* Where no call is cancelled while it refreshes, no old pair ever comes back,
\* whatever is killed, lost or fails to be written: the exceptions for
\* `overwritten` in the theorems above are for cancelled calls alone.
THEOREM NothingWrittenOver ==
    ASSUME "cancel" \notin Faults
    PROVE  Spec => []Undisturbed
<1>1. Init => Undisturbed
  BY DEF Init, Undisturbed
<1>2. Undisturbed /\ [Next]_vars => Undisturbed'
  BY UndisturbedStep
<1> QED BY <1>1, <1>2, PTL DEF Spec

\* A chain that no fault disturbed is broken by a logout only, and then there is
\* no pair that a server could start with.
BrokenByLogout == broken => ~up /\ disk = NoPair

\* And where every pair names its client, the server notices another one.
Noticed == client \in {"own", "other"}

LEMMA NoticedStep ==
    ASSUME "unnamed" \notin Faults, Noticed, [Next]_vars
    PROVE  Noticed'
<1> USE DEF Noticed, diskVars
<1>1. CASE StartServer \/ StopServer \/ KillServer
  BY <1>1 DEF StartServer, StopServer, KillServer
<1>2. CASE Login \/ LoginFails \/ Logout
  BY <1>2 DEF Login, LoginFails, Logout
<1>3. CASE Environment \/ LateWrite
  BY <1>3 DEF Environment, TimePasses, AccessEnds, Withdraw, LateWrite
<1>4. ASSUME NEW r \in Requests,
             BeginCall(r) \/ Calling(r) \/ EnterLock(r) \/ Refreshing(r) \/ CancelRefresh(r)
      PROVE  UNCHANGED client
  BY <1>4 DEF BeginCall, Calling, UseStoredPair, NeedRefresh, CallEnds, CallRejected,
              EnterLock, TakeLock, UseReplacedPair, Refreshing, PairArrives, RefreshRefused,
              RefreshUnhandled, AnswerLost, PairSaved, SaveFails, CancelRefresh
<1>5. CASE UNCHANGED vars
  BY <1>5 DEF vars
<1> QED BY <1>1, <1>2, <1>3, <1>4, <1>5 DEF Next, Operator

LEMMA BrokenByLogoutStep ==
    ASSUME Faults = {}, LockOwned, Undisturbed, BrokenByLogout, [Next]_vars
    PROVE  BrokenByLogout'
<1> USE DEF BrokenByLogout, monzoVars, diskVars
<1>1. CASE StartServer \/ StopServer
  BY <1>1 DEF StartServer, StopServer
<1>2. CASE Login \/ LoginFails \/ Logout
  BY <1>2 DEF Login, LoginFails, Logout
<1>3. CASE TimePasses \/ AccessEnds
  BY <1>3 DEF TimePasses, AccessEnds
<1>4. ~KillServer /\ ~Withdraw /\ ~LateWrite
  BY DEF KillServer, Withdraw, LateWrite, Undisturbed
<1>5. ASSUME NEW r \in Requests
      PROVE  ~AnswerLost(r) /\ ~SaveFails(r) /\ ~CancelRefresh(r)
  BY DEF AnswerLost, SaveFails, CancelRefresh
<1>6. ASSUME NEW r \in Requests,
             BeginCall(r) \/ Calling(r) \/ EnterLock(r)
             \/ PairArrives(r) \/ RefreshRefused(r) \/ RefreshUnhandled(r)
      PROVE  BrokenByLogout'
  BY <1>6 DEF BeginCall, Calling, UseStoredPair, NeedRefresh, CallEnds, CallRejected,
              EnterLock, TakeLock, UseReplacedPair,
              PairArrives, RefreshRefused, RefreshUnhandled, EndRefresh
<1>7. ASSUME NEW r \in Requests, PairSaved(r)
      PROVE  BrokenByLogout'
  <2>1. up /\ ~broken
    BY <1>7 DEF PairSaved, LockOwned, OnlyWhileUp, AllIdle, At
  <2> QED BY <1>7, <2>1 DEF PairSaved
<1>8. CASE UNCHANGED vars
  BY <1>8 DEF vars
<1> QED BY <1>1, <1>2, <1>3, <1>4, <1>5, <1>6, <1>7, <1>8
        DEF Next, Operator, Environment, Refreshing

\* Without a fault Monzo never refuses a refresh: however many calls race, each
\* of them expiring, rejected or waiting, and however often the server stops and
\* the user logs in or out, nobody is asked to log in again.
THEOREM NoFaultNoReauthentication ==
    ASSUME Faults = {}
    PROVE  Spec => [][\A r \in Requests : ~RefreshRefused(r)]_vars
<1> DEFINE Inv == TypeOK /\ LockOwned /\ ChainBehindByOne /\ Undisturbed /\ BrokenByLogout
               /\ Noticed
<1>1. Init => BrokenByLogout /\ Noticed
  BY DEF Init, BrokenByLogout, Noticed
<1>2. LockOwned /\ Undisturbed /\ BrokenByLogout /\ [Next]_vars => BrokenByLogout'
  BY BrokenByLogoutStep
<1>3. Noticed /\ [Next]_vars => Noticed'
  BY NoticedStep
<1>4. Spec => []Undisturbed
  BY NothingWrittenOver
<1>5. Spec => []Inv
  BY <1>1, <1>2, <1>3, <1>4, ChainInvariant, PTL DEF Spec
<1>6. ASSUME TypeOK, LockOwned, ChainBehindByOne, Undisturbed, BrokenByLogout, Noticed,
             NEW r \in Requests
      PROVE  ~RefreshRefused(r)
  <2> SUFFICES ASSUME At(r, "refreshing"), memory # live PROVE FALSE
    BY <1>6 DEF RefreshRefused, Noticed
  <2>1. up /\ InHand = {}
    BY <1>6, OneRefresher DEF LockOwned, OnlyWhileUp, AllIdle, At, InLock
  <2> QED BY <1>6, <2>1 DEF ChainBehindByOne, Undisturbed, BrokenByLogout
<1>7. Inv => [\A r \in Requests : ~RefreshRefused(r)]_vars
  BY <1>6
<1> QED BY <1>5, <1>7, PTL

-----------------------------------------------------------------------------
(* The reason for a refresh.                                                  *)

\* Only the holder of the lock changes the stored pair, so what it found when
\* it entered still holds when the answer comes.
LEMMA JustifiedInit == Init => RefreshJustified
<1> SUFFICES ASSUME Init, NEW r \in Requests
             PROVE  live = NoPair /\ ~At(r, "refreshing")
  BY DEF RefreshJustified
<1> QED BY DEF Init, At, Idle

LEMMA JustifiedOperator ==
    ASSUME TypeOK, LockOwned, PairOrder, RefreshJustified,
           Operator \/ Environment \/ LateWrite
    PROVE  RefreshJustified'
<1> USE PairsAreNumbers DEF RefreshJustified, StillUnusable, At, monzoVars, diskVars
<1>1. CASE StartServer
  BY <1>1 DEF StartServer, LockOwned, OnlyWhileUp, AllIdle
<1>2. CASE StopServer
  BY <1>2 DEF StopServer, AllIdle
<1>3. CASE KillServer
  BY <1>3 DEF KillServer, Idle, NoPair
<1>4. CASE Login
  BY <1>4 DEF Login, LockOwned, OnlyWhileUp, AllIdle, PairOrder, PairsInOrder
<1>5. CASE LoginFails \/ Logout \/ LateWrite
  BY <1>5 DEF LoginFails, Logout, LateWrite
<1>6. CASE TimePasses
  BY <1>6 DEF TimePasses, PairOrder, PairsInOrder, TypeOK, Pairs
<1>7. CASE AccessEnds
  BY <1>7 DEF AccessEnds
<1>8. CASE Withdraw
  BY <1>8 DEF Withdraw
<1> QED BY <1>1, <1>2, <1>3, <1>4, <1>5, <1>6, <1>7, <1>8 DEF Operator, Environment

LEMMA JustifiedCalling ==
    ASSUME TypeOK, RefreshJustified, NEW r \in Requests,
           BeginCall(r) \/ Calling(r) \/ EnterLock(r)
    PROVE  RefreshJustified'
<1> USE DEF TypeOK, RequestRecords, RefreshJustified, StillUnusable, At, monzoVars, diskVars
<1>1. CASE BeginCall(r)
  BY <1>1 DEF BeginCall
<1>2. CASE UseStoredPair(r)
  BY <1>2 DEF UseStoredPair
<1>3. CASE NeedRefresh(r)
  BY <1>3 DEF NeedRefresh
<1>4. CASE CallEnds(r)
  BY <1>4 DEF CallEnds, Idle
<1>5. CASE CallRejected(r)
  BY <1>5 DEF CallRejected, MonzoAccepts
<1>6. CASE TakeLock(r)
  BY <1>6 DEF TakeLock
<1>7. CASE UseReplacedPair(r)
  BY <1>7 DEF UseReplacedPair
<1> QED BY <1>1, <1>2, <1>3, <1>4, <1>5, <1>6, <1>7 DEF Calling, EnterLock

LEMMA JustifiedRefreshing ==
    ASSUME TypeOK, LockOwned, PairOrder, RefreshJustified,
           NEW r \in Requests, Refreshing(r) \/ CancelRefresh(r)
    PROVE  RefreshJustified'
<1> USE PairsAreNumbers, TypeRotate
    DEF RefreshJustified, StillUnusable, At, monzoVars, diskVars
<1>1. CASE PairArrives(r)
  BY <1>1 DEF PairArrives, PairOrder, PairsInOrder, TypeOK, RequestRecords
<1>2. CASE PairSaved(r)
  <2>1. \A s \in Requests \ {r} : ~At(s, "refreshing")
    BY <1>2, OneRefresher DEF PairSaved, InLock, LockOwned
  <2> QED BY <1>2, <2>1 DEF PairSaved, TypeOK, RequestRecords
<1>3. CASE Leaves(r)
  <2>1. /\ expiring' = expiring
        /\ (live' = live /\ accepted' = accepted) \/ live' = live + 1
    BY <1>3 DEF Leaves, Rotate
  <2> QED BY <1>3, <2>1
          DEF Leaves, EndRefresh, Idle, NoPair, TypeOK, PairOrder, PairsInOrder
<1> QED BY <1>1, <1>2, <1>3, InsideLock

LEMMA JustifiedStep ==
    ASSUME TypeOK, LockOwned, PairOrder, RefreshJustified, [Next]_vars
    PROVE  RefreshJustified'
<1>1. CASE Next
  BY <1>1, JustifiedOperator, JustifiedCalling, JustifiedRefreshing DEF Next
<1>2. CASE UNCHANGED vars
  BY <1>2 DEF vars, monzoVars, diskVars, RefreshJustified, StillUnusable, At
<1> QED BY <1>1, <1>2

\* Of all the calls that find one pair expiring or rejected, one refreshes it:
\* whoever comes later into the lock looks again and takes the new pair.
THEOREM OneRefreshPerReason == Spec => NoNeedlessRefresh
<1> DEFINE Inv == TypeOK /\ LockOwned /\ PairOrder /\ RefreshJustified
<1>1. Init => Inv
  BY TypeInit, LockInit, OrderInit, JustifiedInit
<1>2. Inv /\ [Next]_vars => Inv'
  BY TypeStep, LockStep, OrderStep, JustifiedStep
<1>3. ASSUME Inv, NEW r \in Requests, PairArrives(r)
      PROVE  memory \in expiring \/ ~accepted
  BY <1>3, PairsAreNumbers
  DEF PairArrives, Rotate, RefreshJustified, StillUnusable
<1>4. Inv => [\A r \in Requests : PairArrives(r) => memory \in expiring \/ ~accepted]_vars
  BY <1>3
<1> QED BY <1>1, <1>2, <1>4, PTL DEF Spec, NoNeedlessRefresh
=============================================================================
