\* Any sequence of up to six executeQuery() calls over the plans above.
CONSTANTS
    allOnes = allOnes
    name = name
    price = price
    worksOn = worksOn
    AllOnes32 = allOnes
    Plans <- MCPlans
    Names <- MCNames
    MaxCompileCalls = 6
    MaxExecutions = 6
SPECIFICATION Spec
CHECK_DEADLOCK FALSE
INVARIANTS
    TypeOK
    CacheCoherent
    ExecutedWithOwnShape
    CompileOncePerShape
