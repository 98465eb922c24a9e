CONSTANTS
    Clients = {c1, c2}
    Conns = {k1, k2, k3}
    None = None
    MaxTokens = 3
SPECIFICATION FairSpec
INVARIANTS TypeOK OneCallbackAccepted
PROPERTIES FailedLoginKeepsToken OnlyApprovedToken ReportedIsDone CommandEnds
