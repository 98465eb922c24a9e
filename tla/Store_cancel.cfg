CONSTANTS
    Procs = {p1, p2}
    Jobs = {j1, j2}
    Clients = {c1}
    Tokens = {t1, t2}
    None = None
    NoFile = NoFile
    Torn = Torn
    Closed = Closed
    Faults = {"cancel"}
SPECIFICATION Spec
PROPERTIES LockedReplace
