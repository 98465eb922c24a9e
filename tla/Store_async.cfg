CONSTANTS
    Procs = {p1, p2}
    Jobs = {j1, j2}
    Clients = {}
    Tokens = {t1}
    None = None
    NoFile = NoFile
    Torn = Torn
    Closed = Closed
    Faults = {"dirsync", "cancel", "power"}
SPECIFICATION FairSpec
INVARIANTS KeyBeforeBundle
PROPERTIES StoreSettles LateRegisterSpec
