\* One executeBatch / insertSync / removeSync call of up to three valid
\* operations: calls share no state, so one call per behaviour reaches every
\* buffer the encoder can build for these operations.
CONSTANTS
    garbage = garbage
    Garbage <- garbage
    Keys <- MCKeys
    Values <- MCValues
    Batches <- MCBatches
    MaxBatches = 1
SPECIFICATION Spec
CHECK_DEADLOCK FALSE
INVARIANTS
    TypeOK
    RoundTrip
