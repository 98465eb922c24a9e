CONSTANTS
    Users = {u1, u2}
    Calls = {c1, c2}
    Nobody = Nobody
    MaxToken = 3
SPECIFICATION FairSpec
INVARIANTS OwnTokenOnly RepeatUsesNewToken
PROPERTIES NoNeedlessRefresh CallsEnd
