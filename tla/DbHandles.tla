----------------------------- MODULE DbHandles -----------------------------
(***************************************************************************)
(* The handle layer of src/stax_js/index.js: StaxDB (one native database   *)
(* instance, a cache of collection objects by name and of the graph        *)
(* object), StaxCollection, StaxReadTransaction, StaxWriteTransaction and  *)
(* StaxDBAsync (one StaxDB at a time, and native calls that complete       *)
(* later through a callback).                                              *)
(*                                                                         *)
(* StaxGraph and StaxGraphTransaction are here too, as the graph methods *)
(* that go to the engine (executeQuery is PlanCache's).                    *)
(*                                                                         *)
(* StaxDB objects are numbered 1..created; each constructor call opens its *)
(* own native instance, and db k is open while it is in `live`.  Handle    *)
(* objects (collections and graphs) are numbered by creation; the caller   *)
(* holds those in `held`.  Every call is atomic: all of these methods are  *)
(* synchronous JavaScript, and an async method runs to its native call      *)
(* before it returns its promise.  `last` records the call just made and   *)
(* what the wrapper did: "ok" (it went ahead, natively if need be),        *)
(* "threw" (the wrapper threw before any native call), "nativeThrew" (the  *)
(* engine refused the call), or "noop" (it returned without doing         *)
(* anything); `bad` says whether the caller passed an argument of the      *)
(* wrong type.                                                             *)
(***************************************************************************)
EXTENDS Integers, Sequences, FiniteSets

CONSTANTS
    Names,        \* collection names the caller uses
    Graph,        \* the key of the graph object in a database's caches
    AsyncOps,     \* "insertBatchAsync", "multiGetAsync"
    AsyncName,    \* AsyncName[op]: the collection that async op works on
    MaxDbs, MaxHandles, MaxTxns, MaxInflight

Keys == Names \cup {AsyncName[op] : op \in AsyncOps} \cup {Graph}
Results == {"ok", "threw", "nativeThrew", "noop"}
TxnKinds == {"read", "write", "graph"}

\* Graph methods that call the engine: StaxGraph's insertObject,
\* updateObject, deleteObject, insertRelationship and commit, and the same
\* names (with abort, without the graph's commit) on a graph transaction.
TypeChecked == {"insertObject", "updateObject"}
GraphMethods == TypeChecked \cup {"deleteObject", "insertRelationship", "commit"}

VARIABLES
    created,   \* StaxDB objects constructed so far
    live,      \* those whose _dbInstance is set (native instance open)
    cache,     \* _collections and _graph of each db: [db, key, id] entries
    handles,   \* handles[h]: [db, key] of collection or graph object h
    held,      \* handle objects the caller holds
    txns,      \* txns[t]: [db, kind, open] of transaction object t
    adb,       \* StaxDBAsync._db: a db number, or 0 for null
    asyncDbs,  \* the dbs StaxDBAsync.open() constructed
    inflight,  \* native async calls whose callback has not run: <<db, op>>
    last       \* [call, db, txn, bad, result] of the last call

vars == <<created, live, cache, handles, held, txns, adb, asyncDbs, inflight, last>>

RetArg(call, db, txn, bad, result) ==
    last' = [call |-> call, db |-> db, txn |-> txn, bad |-> bad, result |-> result]

Ret(call, db, txn, result) == RetArg(call, db, txn, FALSE, result)

NoStateChange == UNCHANGED <<created, live, cache, handles, held, txns, adb, asyncDbs, inflight>>

---------------------------------------------------------------------------
(* StaxDB                                                                  *)

\* new StaxDB(path): throws without a path (hasPath FALSE: an empty or
\* missing dbPath); otherwise a native instance is opened for the new
\* object.
NewStaxDB(hasPath) ==
    \/ /\ ~hasPath
       /\ Ret("new", 0, 0, "threw")
       /\ NoStateChange
    \/ /\ hasPath
       /\ created < MaxDbs
       /\ created' = created + 1
       /\ live' = live \cup {created + 1}
       /\ Ret("new", created + 1, 0, "ok")
       /\ UNCHANGED <<cache, handles, held, txns, adb, asyncDbs, inflight>>

\* StaxDB.dropSync(dbPath): throws without a path; otherwise the native
\* drop of the files at the path, whether or not a StaxDB, or the async
\* wrapper's, still has them open.  No wrapper object changes.
DropSync(hasPath) ==
    /\ Ret("dropSync", 0, 0, IF hasPath THEN "ok" ELSE "threw")
    /\ NoStateChange

ClosedKeepCache(k) ==
    /\ live' = live \ {k}
    /\ cache' = cache

\* The state closeSync() leaves: native instance closed, _dbInstance null,
\* _collections cleared, _graph null.
Closed(k) ==
    /\ live' = live \ {k}
    /\ cache' = {e \in cache : e.db # k}

\* db.closeSync(): a no-op once closed.
CloseSync(k) ==
    /\ \/ /\ k \in live
          /\ Closed(k)
          /\ Ret("closeSync", k, 0, "ok")
       \/ /\ k \notin live
          /\ Ret("closeSync", k, 0, "noop")
          /\ UNCHANGED <<live, cache>>
    /\ UNCHANGED <<created, handles, txns, held, adb, asyncDbs, inflight>>

LookupNoCache(k, key, id) ==
    /\ Len(handles) < MaxHandles
    /\ id = Len(handles) + 1
    /\ handles' = Append(handles, [db |-> k, key |-> key])
    /\ cache' = {e \in cache : e.db # k \/ e.key # key}
                \cup {[db |-> k, key |-> key, id |-> id]}

\* The lookup-or-create of getCollectionSync(name) and getGraph(): the
\* cached object, or a new one wrapping a native handle, then cached.
\* Returns the object's number; the caller's guard has checked `live`.
Lookup(k, key, id) ==
    \/ /\ \E e \in cache : e.db = k /\ e.key = key /\ e.id = id
       /\ UNCHANGED <<handles, cache>>
    \/ /\ ~\E e \in cache : e.db = k /\ e.key = key
       /\ Len(handles) < MaxHandles
       /\ id = Len(handles) + 1
       /\ handles' = Append(handles, [db |-> k, key |-> key])
       /\ cache' = cache \cup {[db |-> k, key |-> key, id |-> id]}

\* db.getCollectionSync(name) (key a name) and db.getGraph() (key Graph):
\* throw when the database is not open.
GetHandle(k, key) ==
    /\ \/ /\ k \notin live
          /\ Ret("getHandle", k, 0, "threw")
          /\ UNCHANGED <<handles, cache, held>>
       \/ /\ k \in live
          /\ \E id \in 1..MaxHandles :
                /\ Lookup(k, key, id)
                /\ held' = held \cup {id}
          /\ Ret("getHandle", k, 0, "ok")
    /\ UNCHANGED <<created, live, txns, adb, asyncDbs, inflight>>

---------------------------------------------------------------------------
(* Collections, graphs and transactions                                    *)

\* What the native instance answers a call: an open one serves it; what a
\* closed one does is the engine's, and it may refuse ("nativeThrew") or
\* serve the call silently ("ok").
NativeCallResults(k) == IF k \in live THEN {"ok"} ELSE {"ok", "nativeThrew"}

\* A method of a held collection that goes to the engine (executeBatch,
\* insertSync, removeSync, getSync, range).  None checks the database: the
\* object's _dbInstance was set at construction and is never cleared
\* (range()'s `!this._dbInstance` test cannot fire).
CollectionCall(h) ==
    /\ handles[h].key \in Names
    /\ \E r \in NativeCallResults(handles[h].db) : Ret("handle", handles[h].db, 0, r)
    /\ UNCHANGED <<created, live, cache, handles, held, txns, adb, asyncDbs, inflight>>

\* The argument kinds a method may be called with: bad (an argument of the
\* wrong type) only where the code checks the type, in insertObject and
\* updateObject; the other methods take ids or nothing and check none.
BadArgs(method) == IF method \in TypeChecked THEN BOOLEAN ELSE {FALSE}

\* A graph method: insertObject and updateObject throw a TypeError for a
\* dataObject (or objectId) of the wrong type; otherwise, and for the other
\* methods, the call goes to the graph's native handle, set at
\* construction and never cleared.
GraphCall(h, method, bad) ==
    /\ handles[h].key = Graph
    /\ \/ /\ bad
          /\ RetArg("handle", handles[h].db, 0, bad, "threw")
       \/ /\ ~bad
          /\ \E r \in NativeCallResults(handles[h].db) :
                RetArg("handle", handles[h].db, 0, bad, r)
    /\ UNCHANGED <<created, live, cache, handles, held, txns, adb, asyncDbs, inflight>>

NewTxn(h, kind) ==
    /\ Len(txns) < MaxTxns
    /\ txns' = Append(txns, [db |-> handles[h].db, kind |-> kind, open |-> TRUE])
    /\ Ret("begin", handles[h].db, Len(txns) + 1, "ok")
    /\ UNCHANGED <<created, live, cache, handles, held, adb, asyncDbs, inflight>>

\* collection.beginTransaction(isReadOnly): a read or write transaction
\* object around a new native transaction.
BeginTransaction(h, readOnly) ==
    /\ handles[h].key \in Names
    /\ NewTxn(h, IF readOnly THEN "read" ELSE "write")

\* graph.beginTransaction(): a StaxGraphTransaction around a new native one.
GraphBeginTransaction(h) ==
    /\ handles[h].key = Graph
    /\ NewTxn(h, "graph")

\* The engine's transaction (spec_modelled, test.js "used transaction"):
\* once committed or aborted it refuses every call; an open one answers as
\* its database's native instance does.
NativeTxnResults(t) ==
    IF txns[t].open THEN NativeCallResults(txns[t].db) ELSE {"nativeThrew"}

\* StaxWriteTransaction: insert, remove, commit and abort go straight to
\* the native handle, which is never checked or cleared.
WriteTxnCall(t, call) ==
    /\ txns[t].kind = "write"
    /\ \E r \in NativeTxnResults(t) : Ret(call, txns[t].db, t, r)

\* StaxGraphTransaction: insertObject, updateObject, deleteObject,
\* insertRelationship, commit and abort go straight to the native handle,
\* without the argument checks of StaxGraph's insertObject/updateObject:
\* bad is an insertObject/updateObject whose dataObject is not an object.
GraphTxnCall(t, call, bad) ==
    /\ txns[t].kind = "graph"
    /\ \E r \in NativeTxnResults(t) : RetArg(call, txns[t].db, t, bad, r)

\* get(key) of a read transaction throws once _txn is null; the methods
\* of write and graph transactions are their native calls.
TxnOp(t, bad) ==
    /\ \/ /\ txns[t].kind = "read"
          /\ Ret("txnOp", txns[t].db, t, IF txns[t].open THEN "ok" ELSE "threw")
       \/ WriteTxnCall(t, "txnOp")
       \/ GraphTxnCall(t, "txnOp", bad)
    /\ UNCHANGED <<created, live, cache, handles, held, txns, adb, asyncDbs, inflight>>

\* commit() and abort(): a read transaction returns silently once _txn is
\* null, else ends the native transaction and nulls _txn; a write or graph
\* transaction always calls the native commit/abort.
TxnEnd(t) ==
    /\ \/ /\ txns[t].kind = "read" /\ ~txns[t].open
          /\ Ret("txnEnd", txns[t].db, t, "noop")
       \/ /\ txns[t].kind = "read" /\ txns[t].open
          /\ Ret("txnEnd", txns[t].db, t, "ok")
       \/ WriteTxnCall(t, "txnEnd")
       \/ GraphTxnCall(t, "txnEnd", FALSE)
    /\ txns' = [txns EXCEPT ![t].open = FALSE]
    /\ UNCHANGED <<created, live, cache, handles, held, adb, asyncDbs, inflight>>

---------------------------------------------------------------------------
(* StaxDBAsync                                                             *)

\* The StaxDB the promise executor constructs: its constructor throws
\* without a path (the promise rejects and _db stays null); otherwise _db
\* is the new database.
OpenedAsync(hasPath) ==
    \/ /\ ~hasPath
       /\ Ret("open", 0, 0, "threw")
       /\ NoStateChange
    \/ /\ hasPath
       /\ created < MaxDbs
       /\ created' = created + 1
       /\ live' = live \cup {created + 1}
       /\ adb' = created + 1
       /\ asyncDbs' = asyncDbs \cup {created + 1}
       /\ Ret("open", created + 1, 0, "ok")
       /\ UNCHANGED <<cache, handles, held, txns, inflight>>

\* open(path): throws if a database is already open; otherwise constructs
\* a StaxDB and keeps it.
AsyncOpen(hasPath) ==
    \/ /\ adb # 0
       /\ Ret("open", adb, 0, "threw")
       /\ NoStateChange
    \/ /\ adb = 0
       /\ OpenedAsync(hasPath)

\* close(): nothing if none is open; otherwise closeSync() at once, whatever
\* native calls are still in flight, and forget the database.
AsyncClose ==
    /\ \/ /\ adb = 0
          /\ Ret("close", 0, 0, "noop")
          /\ UNCHANGED <<live, cache, adb>>
       \/ /\ adb # 0
          /\ Closed(adb)
          /\ adb' = 0
          /\ Ret("close", adb, 0, "ok")
    /\ UNCHANGED <<created, handles, held, txns, asyncDbs, inflight>>

\* insertBatchAsync(batch) / multiGetAsync(keys): throw unless open; an
\* empty array returns at once; otherwise get the op's collection through
\* the db's cache and start the native call, whose callback settles the
\* promise later.
AsyncCall(op, empty) ==
    /\ \/ /\ adb = 0 \/ adb \notin live
          /\ Ret(op, adb, 0, "threw")
          /\ UNCHANGED <<handles, cache, inflight>>
       \/ /\ adb # 0 /\ adb \in live
          /\ empty
          /\ Ret(op, adb, 0, "noop")
          /\ UNCHANGED <<handles, cache, inflight>>
       \/ /\ adb # 0 /\ adb \in live
          /\ ~empty
          /\ Len(inflight) < MaxInflight
          /\ \E id \in 1..MaxHandles : Lookup(adb, AsyncName[op], id)
          /\ inflight' = Append(inflight, <<adb, op>>)
          /\ Ret(op, adb, 0, "ok")
    /\ UNCHANGED <<created, live, held, txns, adb, asyncDbs>>

\* The engine runs the callback of one in-flight call, in any order.
Callback(j) ==
    /\ inflight' = [i \in 1..(Len(inflight) - 1) |->
                      IF i < j THEN inflight[i] ELSE inflight[i + 1]]
    /\ Ret("callback", inflight[j][1], 0, "ok")
    /\ UNCHANGED <<created, live, cache, handles, held, txns, adb, asyncDbs>>

---------------------------------------------------------------------------

Init ==
    /\ created = 0
    /\ live = {}
    /\ cache = {}
    /\ handles = <<>>
    /\ held = {}
    /\ txns = <<>>
    /\ adb = 0
    /\ asyncDbs = {}
    /\ inflight = <<>>
    /\ last = [call |-> "none", db |-> 0, txn |-> 0, bad |-> FALSE, result |-> "ok"]

\* The caller reaches the StaxDB objects it constructed itself; the one
\* inside StaxDBAsync is private to it.
Next ==
    \/ \E hasPath \in BOOLEAN : NewStaxDB(hasPath) \/ DropSync(hasPath)
    \/ \E k \in (1..created) \ asyncDbs : CloseSync(k) \/ \E key \in Names \cup {Graph} : GetHandle(k, key)
    \/ \E h \in held :
          \/ CollectionCall(h)
          \/ \E ro \in BOOLEAN : BeginTransaction(h, ro)
          \/ \E method \in GraphMethods : \E bad \in BadArgs(method) : GraphCall(h, method, bad)
          \/ GraphBeginTransaction(h)
    \/ \E t \in DOMAIN txns :
          \/ \E bad \in IF txns[t].kind = "graph" THEN BOOLEAN ELSE {FALSE} : TxnOp(t, bad)
          \/ TxnEnd(t)
    \/ \E hasPath \in BOOLEAN : AsyncOpen(hasPath)
    \/ AsyncClose
    \/ \E op \in AsyncOps, empty \in BOOLEAN : AsyncCall(op, empty)
    \/ \E j \in DOMAIN inflight : Callback(j)

Spec == Init /\ [][Next]_vars

---------------------------------------------------------------------------
(* Properties                                                              *)

TypeOK ==
    /\ created \in 0..MaxDbs
    /\ live \subseteq 1..created
    /\ cache \subseteq [db : live, key : Keys, id : DOMAIN handles]
    /\ handles \in Seq([db : 1..created, key : Keys])
    /\ held \subseteq DOMAIN handles
    /\ txns \in Seq([db : 1..created, kind : TxnKinds, open : BOOLEAN])
    /\ adb \in 0..created
    /\ inflight \in Seq((1..created) \X AsyncOps)
    /\ last.result \in Results

\* getCollectionSync(name) and getGraph() hand out one object per database
\* and key: the caller and the async calls, through any number of calls,
\* never get two objects for the same collection or graph of one database.
OneHandlePerKey ==
    \A i, j \in DOMAIN handles : handles[i] = handles[j] => i = j

\* Spec section 7: errors are raised at the call that meets them.  A usage
\* error (a graph object's properties that are not a mapping) is raised at
\* once and never sent to the engine; a state error (a call through a
\* collection, graph or transaction object of a database closeSync() has
\* closed, or a get, commit or abort of a transaction already committed
\* or aborted) fails rather than silently no-op-ing.
ErrorsRaisedAtCall ==
    [][/\ last'.bad => last'.result = "threw"
       /\ (last'.call \in {"handle", "txnOp"} /\ last'.db \notin live)
            => last'.result \in {"threw", "nativeThrew"}
       /\ \A t \in DOMAIN txns :
            (last'.call \in {"txnOp", "txnEnd"} /\ last'.txn = t /\ ~txns[t].open)
                => last'.result \in {"threw", "nativeThrew"}]_vars
===========================================================================
