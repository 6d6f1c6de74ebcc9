\* Every generator/close interleaving over result sets
\* of 0, 1, 50, 51 and 101 records, checked against CursorSpec.
CONSTANTS
    it1 = it1
    it2 = it2
    undef = undef
    Iterators <- MCIterators
    ResultSizes <- MCResultSizes
    Undefined <- undef
SPECIFICATION Spec
INVARIANTS
    TypeOK
    ExhaustedYieldsAll
PROPERTIES
    CursorRefinement
