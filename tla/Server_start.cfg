CONSTANTS
    MaxEdits = 2
SPECIFICATION Spec
INVARIANTS TypeOK NothingImplied FlagsOverride TokenFromPrivateFile
