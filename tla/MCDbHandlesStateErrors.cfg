\* Do calls on a closed database or an ended read transaction throw?
CONSTANTS
    users = users
    graph = graph
    Names = {users}
    Graph = graph
    AsyncOps = {"insertBatchAsync", "multiGetAsync"}
    AsyncName <- MCAsyncName
    MaxDbs = 2
    MaxHandles = 3
    MaxTxns = 1
    MaxInflight = 2
SPECIFICATION Spec
PROPERTIES
    ErrorsRaisedAtCall
