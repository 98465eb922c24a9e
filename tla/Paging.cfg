CONSTANTS
    Limits = {1, 2}
    Lookback = 1
    None = None
    MaxTime = 3
    MaxLength = 4
SPECIFICATION Spec
INVARIANTS NoGapNoRepeat
PROPERTIES EndIsEnd
