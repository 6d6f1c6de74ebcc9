\* Batches that also hold an operation of an unknown type.
CONSTANTS
    garbage = garbage
    Garbage <- garbage
    Keys <- MCKeys
    Values <- MCValues
    Batches <- MCBadBatches
    MaxBatches = 2
SPECIFICATION Spec
CHECK_DEADLOCK FALSE
INVARIANTS
    UsageErrorsNotSent
