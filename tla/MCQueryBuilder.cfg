\* Fluent calls on successive builders, executed against one graph's cache.
CONSTANTS
    allOnes = allOnes
    a = a
    b = b
    r = r
    AllOnes32 = allOnes
    Names <- MCNames
    Relationships = {r}
    Mappings <- MCMappings
    FindArgs <- MCFindArgs
    MaxPlanLen = 2
    MaxCompileCalls = 2
    MaxExecutions = 2
SPECIFICATION Spec
INVARIANTS
    TypeOK
