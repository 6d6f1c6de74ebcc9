---------------------------- MODULE MCDbHandles ----------------------------
(***************************************************************************)
(* Model-checking instance of DbHandles: two databases (one of which can   *)
(* be the async wrapper's), one user collection name and the graph.        *)
(***************************************************************************)
EXTENDS DbHandles

CONSTANTS users, graph

MCAsyncName == [op \in {"insertBatchAsync", "multiGetAsync"} |->
                  IF op = "insertBatchAsync" THEN "async_batch_collection"
                  ELSE "async_multiget_collection"]
===========================================================================
