CONSTANTS
    Requests = {r1, r2, r3}
    None = None
    MaxPair = 3
    Faults = {"lost", "io", "cancel", "kill", "withdraw", "unnamed"}
SPECIFICATION FairSpec
INVARIANTS TypeOK ChainIntact DurableBeforeUse
PROPERTIES NoNeedlessRefresh ReauthOnlyIfBroken CallsEnd
