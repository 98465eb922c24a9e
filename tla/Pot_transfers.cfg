CONSTANTS
    Transfers = {t1, t2}
    Calls = {k1, k2}
    None = None
    Limits = {3, 5}
    MaxOthers = 1
    MaxCalls = 3
SPECIFICATION FairSpec
INVARIANTS TypeOK MovedAtMostOnce EachPostApproved
PROPERTIES PromiseKept NoAnswerTurnedAway AnsweredCallsEnd
CHECK_DEADLOCK FALSE
