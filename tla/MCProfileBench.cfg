\* Two workers on one directory, every engine answer: main() only removes
\* the directory once no database is open on it, and always settles.
\* The profiler exits when main() has settled and every worker has ended,
\* so a state with no next step is its end, not a deadlock.
CONSTANTS
    w1 = w1
    w2 = w2
    Workers <- MCWorkers
SPECIFICATION Spec
CHECK_DEADLOCK FALSE
PROPERTIES
    RemovesOnlyClosedDirectory
    MainSettles
