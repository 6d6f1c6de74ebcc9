--------------------------- MODULE ProfileBench ---------------------------
(***************************************************************************)
(* The parallel profiler (src/stax_js/profile_bench.js) over StaxDBAsync   *)
(* (src/stax_js/index.js).  The main thread empties and re-creates the     *)
(* database directory, starts one worker thread per element of Workers on  *)
(* that same directory, and awaits Promise.all over one promise per        *)
(* worker, which the worker's 'message' event resolves and its 'error' or  *)
(* non-zero 'exit' event rejects.  After Promise.all resolves it prints    *)
(* the averages and removes the directory; if it rejects, main().catch     *)
(* logs the error and the directory stays.                                 *)
(*                                                                         *)
(* Each worker runs workerLogic: open a StaxDBAsync on the directory,      *)
(* insertBatchAsync its chunk, multiGetAsync its keys, close, postMessage. *)
(* The two native calls answer through a callback, with or without an     *)
(* error.  workerLogic() is called without a catch, so any throw or        *)
(* rejection in it ends the worker with an 'error' event and exit code 1,  *)
(* leaving its database open.  Whether the engine opens a second instance  *)
(* on a directory another thread has open is the engine's affair: open     *)
(* may succeed or throw.  Events a worker emits reach the main thread's    *)
(* handlers later, as a separate step.  Keys, values and timings are not   *)
(* modelled: no property here tells them apart.                            *)
(***************************************************************************)
EXTENDS Naturals

CONSTANTS
    Workers     \* the worker threads (NUM_THREADS of them)

VARIABLES
    dir,        \* the database directory: "absent" or "present"
    main,       \* main(): "start", "waiting" (on Promise.all), "done", "failed"
    wpc,        \* wpc[w]: where worker w's workerLogic is
    dbOpen,     \* dbOpen[w]: worker w's StaxDBAsync holds an open StaxDB
    event,      \* event[w]: "none", or the event of w main has not handled yet
    promise     \* promise[w]: "pending", "resolved" or "rejected"

vars == <<dir, main, wpc, dbOpen, event, promise>>

WorkerPcs == {"idle", "open", "insert", "insertWait", "get", "getWait",
              "close", "post", "exited", "crashed"}

---------------------------------------------------------------------------
(* The main thread                                                         *)

\* main() up to the await: rmSync the directory if it exists, mkdirSync it,
\* then one Worker and one promise per thread.
MainStart ==
    /\ main = "start"
    /\ dir' = "present"
    /\ wpc' = [w \in Workers |-> "open"]
    /\ promise' = [w \in Workers |-> "pending"]
    /\ main' = "waiting"
    /\ UNCHANGED <<dbOpen, event>>

\* The handlers without the 'error' and 'exit' rejections: a failed
\* worker leaves its promise pending.
HandleEventNoReject(w) ==
    /\ event[w] # "none"
    /\ promise' = IF promise[w] = "pending" /\ event[w] = "message"
                  THEN [promise EXCEPT ![w] = "resolved"]
                  ELSE promise
    /\ event' = [event EXCEPT ![w] = "none"]
    /\ UNCHANGED <<dir, main, wpc, dbOpen>>

\* A 'message' handler resolves w's promise; an 'error' handler, or an
\* 'exit' handler with a non-zero code, rejects it.  A settled promise
\* ignores both.
HandleEvent(w) ==
    /\ event[w] # "none"
    /\ promise' = IF promise[w] = "pending"
                  THEN [promise EXCEPT ![w] =
                          IF event[w] = "message" THEN "resolved" ELSE "rejected"]
                  ELSE promise
    /\ event' = [event EXCEPT ![w] = "none"]
    /\ UNCHANGED <<dir, main, wpc, dbOpen>>

\* main() without `await` on Promise.all: it goes on at once.
MainFinishNoAwait ==
    /\ main = "waiting"
    /\ dir' = "absent"
    /\ main' = "done"
    /\ UNCHANGED <<wpc, dbOpen, event, promise>>

\* Promise.all resolves: aggregate and print the timings, then rmSync the
\* directory if it exists.
MainFinish ==
    /\ main = "waiting"
    /\ \A w \in Workers : promise[w] = "resolved"
    /\ dir' = "absent"
    /\ main' = "done"
    /\ UNCHANGED <<wpc, dbOpen, event, promise>>

\* Promise.all rejects: main().catch(err => console.error(err)).
MainReject ==
    /\ main = "waiting"
    /\ \E w \in Workers : promise[w] = "rejected"
    /\ main' = "failed"
    /\ UNCHANGED <<dir, wpc, dbOpen, event, promise>>

---------------------------------------------------------------------------
(* A worker                                                                *)

\* workerLogic rejects: the worker ends with 'error' (and exit code 1); its
\* database, if open, is never closed.
Crash(w) ==
    /\ wpc' = [wpc EXCEPT ![w] = "crashed"]
    /\ event' = [event EXCEPT ![w] = "error"]

\* await db.open(dbPath): new StaxDB(dbPath) in the constructor of the
\* promise; the engine opens the directory or throws.
Open(w) ==
    /\ wpc[w] = "open"
    /\ \/ /\ dbOpen' = [dbOpen EXCEPT ![w] = TRUE]
          /\ wpc' = [wpc EXCEPT ![w] = "insert"]
          /\ UNCHANGED event
       \/ /\ Crash(w)
          /\ UNCHANGED dbOpen
    /\ UNCHANGED <<dir, main, promise>>

\* insertBatchAsync / multiGetAsync: the database is open and the chunk is
\* not empty, so the collection is fetched and the native call is issued.
Issue(w, from, to) ==
    /\ wpc[w] = from
    /\ dbOpen[w]
    /\ wpc' = [wpc EXCEPT ![w] = to]
    /\ UNCHANGED <<dir, main, dbOpen, event, promise>>

Insert(w) == Issue(w, "insert", "insertWait")

Get(w) == Issue(w, "get", "getWait")

\* The native callback: without an error the awaited promise resolves and
\* workerLogic goes on; with one it rejects and the worker crashes.
Callback(w) ==
    /\ wpc[w] \in {"insertWait", "getWait"}
    /\ \/ /\ wpc' = [wpc EXCEPT ![w] =
                       IF wpc[w] = "insertWait" THEN "get" ELSE "close"]
          /\ UNCHANGED event
       \/ Crash(w)
    /\ UNCHANGED <<dir, main, dbOpen, promise>>

\* await db.close(): closeSync() and this._db = null.
Close(w) ==
    /\ wpc[w] = "close"
    /\ dbOpen' = [dbOpen EXCEPT ![w] = FALSE]
    /\ wpc' = [wpc EXCEPT ![w] = "post"]
    /\ UNCHANGED <<dir, main, event, promise>>

\* parentPort.postMessage(timings); workerLogic returns and the worker
\* exits with code 0, which its 'exit' handler ignores.
Post(w) ==
    /\ wpc[w] = "post"
    /\ wpc' = [wpc EXCEPT ![w] = "exited"]
    /\ event' = [event EXCEPT ![w] = "message"]
    /\ UNCHANGED <<dir, main, dbOpen, promise>>

WorkerStep(w) ==
    Open(w) \/ Insert(w) \/ Get(w) \/ Callback(w) \/ Close(w) \/ Post(w)

---------------------------------------------------------------------------

\* The directory may be left over from an earlier run.
Init ==
    /\ dir \in {"absent", "present"}
    /\ main = "start"
    /\ wpc = [w \in Workers |-> "idle"]
    /\ dbOpen = [w \in Workers |-> FALSE]
    /\ event = [w \in Workers |-> "none"]
    /\ promise = [w \in Workers |-> "pending"]

Next ==
    \/ MainStart \/ MainFinish \/ MainReject
    \/ \E w \in Workers : HandleEvent(w) \/ WorkerStep(w)

\* Worker threads run in parallel and the main thread's event loop handles
\* every event it is sent: each is weakly fair.  Callback is fair on the
\* assumption that the engine answers every call; it has no timeout.
Fairness ==
    /\ WF_vars(MainStart) /\ WF_vars(MainFinish) /\ WF_vars(MainReject)
    /\ \A w \in Workers : WF_vars(HandleEvent(w)) /\ WF_vars(WorkerStep(w))

Spec == Init /\ [][Next]_vars /\ Fairness

---------------------------------------------------------------------------
(* Properties                                                              *)

TypeOK ==
    /\ dir \in {"absent", "present"}
    /\ main \in {"start", "waiting", "done", "failed"}
    /\ wpc \in [Workers -> WorkerPcs]
    /\ dbOpen \in [Workers -> BOOLEAN]
    /\ event \in [Workers -> {"none", "message", "error"}]
    /\ promise \in [Workers -> {"pending", "resolved", "rejected"}]

\* main() removes the database directory (rmSync, at its start or after
\* Promise.all) only when no worker has a database open on it: every
\* worker closes before it posts, and only posting resolves its promise.
RemovesOnlyClosedDirectory ==
    [][dir = "present" /\ dir' = "absent" => \A w \in Workers : ~dbOpen[w]]_vars

\* Once main() awaits Promise.all it settles: it resolves after every
\* worker posted, or rejects after one failed, whatever the engine answers.
MainSettles == main = "waiting" ~> main \in {"done", "failed"}
===========================================================================
