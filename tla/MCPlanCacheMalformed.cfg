\* Can a plan the engine's compile would reject reach native execution?
CONSTANTS
    allOnes = allOnes
    name = name
    price = price
    worksOn = worksOn
    AllOnes32 = allOnes
    Plans <- MCPlans
    Names <- MCNames
    MaxCompileCalls = 4
    MaxExecutions = 4
SPECIFICATION Spec
CHECK_DEADLOCK FALSE
INVARIANTS
    ExecutedPlansAccepted
