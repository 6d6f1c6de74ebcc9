\* Sync and async users of two databases, in any interleaving.
CONSTANTS
    users = users
    graph = graph
    Names = {users}
    Graph = graph
    AsyncOps = {"insertBatchAsync", "multiGetAsync"}
    AsyncName <- MCAsyncName
    MaxDbs = 2
    MaxHandles = 3
    MaxTxns = 1
    MaxInflight = 2
SPECIFICATION Spec
INVARIANTS
    TypeOK
    OneHandlePerKey
