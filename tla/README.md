# TLA+ models of the StaxDB JavaScript layer

These modules model `src/stax_js/index.js`, the JavaScript layer of StaxDB.
That layer wraps a native storage and graph engine. Each module is written
from the code. Engine behaviour comes from `spec.md`; those definitions are
marked `spec_modelled` in `PROJECT.json`. Every model is checked with TLC.

## The system

`index.js` holds everything that has state or logic at run time. The other
files are the tests, the benchmarks, and the two install scripts:
`prebuild.js` builds the native module before publishing, and
`postinstall.js` installs it on the user's machine.

| Part | Code | State | Operations |
|---|---|---|---|
| Result cursor | `StaxResultSet` (5-56) | native handle or `null`; per generator: `totalCount`, `currentPageNumber`, `totalFetched`, position in page | `getPage`, `getTotalCount`, `close`, `[Symbol.asyncIterator]` (lazy sequence) |
| Query builder | `StaxQueryBuilder` (58-214) | `_plan` | `find`, `filter`, `union`, `traverse`, `execute`; `_processCriterion`, `_encodeGeohash` |
| Plan cache | `StaxGraph.executeQuery` (273-295) | `_planCache`: signature → plan id | `executeQuery` |
| Batch encoder | `StaxCollection.executeBatch` (339-380) | none (a buffer per call) | `executeBatch`, `insertSync`, `removeSync` |
| Handles | `StaxDB`, `StaxCollection`, `StaxGraph` | `_dbInstance`, `_collections`, `_graph` | constructor, `closeSync`, `getCollectionSync`, `getGraph`, collection and graph methods |
| Transactions | `StaxReadTransaction`, `StaxWriteTransaction`, `StaxGraphTransaction` | `_txn` (read only) | `get`, `insert`, `remove`, `commit`, `abort` |
| Async wrapper | `StaxDBAsync` (447-499) | `_db`; native calls waiting for a callback | `open`, `close`, `insertBatchAsync`, `multiGetAsync` |
| Profiler | `profile_bench.js` (`main`, `workerLogic`) | the database directory; per worker thread: where `workerLogic` is, its `StaxDBAsync`, the event it has sent, its promise in `Promise.all` | `main` (clean directory, start workers, await, remove directory); `workerLogic` (open, `insertBatchAsync`, `multiGetAsync`, close, `postMessage`) |
| Install scripts | `prebuild.js`, `postinstall.js` | the package's `prebuilds/<platform>/` directories | build and stage a binary; install from source or copy the staged binary |

How the parts interact:
- `graph.query()` makes a builder.
- `execute()` passes the builder's plan to `executeQuery`. That method looks up
  the plan's signature in the cache, compiles on a miss, runs the plan, and
  wraps the result handle in a cursor.
- Cursors are consumed with `for await`. Each generator resumption runs to its
  next `yield` without interruption. Between resumptions, other generators
  over the same cursor, and `close()`, can run.
- Collections encode batches for the engine.
- `StaxDBAsync` owns one `StaxDB` and starts native calls that finish later
  through a callback.
- The profiler's main thread starts two worker threads on one database
  directory. Each opens its own `StaxDBAsync` there, and main removes the
  directory once every worker has reported.
- `prebuild.js` writes a directory name into the package, and `postinstall.js`
  must compute the same name on the user's machine.

## Modules

| Module | Models | Variables ↔ code |
|---|---|---|
| `CursorSpec` | what a cursor promises (spec §4.6), without pages | `records`, `open`, per consumer `status` (idle/active/ended) and `consumed`. It is an abstract specification, not a translation of code. |
| `ResultCursor` | `StaxResultSet` with its generators | `handle` = `_resultSet`; `gen[i]` = the locals of generator `i`; `yielded[i]` = what it produced. The engine (`resultCount`, `reportedTotal`, `EngineGetPage`) is spec_modelled. `Abstract` instantiates `CursorSpec` under a refinement mapping. `open` is `handle = "open"`. The status maps fresh→idle, suspended→active and finished→ended. `consumed` is `yielded`. |
| `PlanCache` | `executeQuery` and the cache | `planCache` = `_planCache`. `nextId`, `compileCalls`, `compiled` and `executed` are the engine's history; the engine's compile is spec_modelled (spec §4.4). |
| `QueryBuilder` | the builder, composed with `PlanCache` through `INSTANCE` | `plan` = `_plan`; `firstCall` = the first method called on the current builder |
| `Geohash` | `_encodeGeohash` and the `{near, radius}` / `{lat, lon}` branches | `step` = the last geographic step pushed |
| `BatchWire` | `executeBatch`, `insertSync`, `removeSync` | `sent` = the buffers handed to the native `executeBatch`. The engine's decoding is spec_modelled (§4.5). |
| `DbHandles` | `StaxDB` (with `dropSync`), `StaxCollection`, `StaxGraph` (except `executeQuery`), read, write and graph transactions, `StaxDBAsync` | `live` = dbs whose `_dbInstance` is set; `cache` = `_collections` and `_graph`; `handles` and `held` = the collection/graph objects; `txns` = transaction objects with their kind and whether the native transaction is still open; `adb` = `_db`; `inflight` = pending callbacks; `last` = the outcome of the last call and whether an argument had the wrong type. The engine's transaction refusing calls once ended is spec_modelled from `test.js`. What a closed native instance answers is spec_modelled as a choice between refusing and serving the call. A wrong-type argument is chosen only for `insertObject` and `updateObject`, the methods whose argument types the code checks. |
| `ProfileBench` | `profile_bench.js` over `StaxDBAsync` | `dir` = `DB_PATH_STAX` on disk; `main` = where `main()` is; `wpc[w]` = where worker `w`'s `workerLogic` is; `dbOpen[w]` = its `StaxDBAsync._db` is set; `event[w]` = the `message` or `error` event not yet handled by main; `promise[w]` = its promise in `Promise.all`. Whether the engine opens a directory another thread holds, and whether a native call fails, are choices. Keys, values and timings are left out. |
| `Packaging` | `prebuild.js` and `postinstall.js` | `prebuilds` = the directory names in the package; `built` = the machines whose binary was staged; `published`; `last` = the last install's exit code and source. `ldd --version` and compilation are choices among their possible outcomes. |

There is one action per method. Each action covers the method's guards, early
returns, throws and all of its assignments. Helpers whose names end in
`NoGuard`, `NoCache`, `OffByOne` and similar are mutants. Each one is a
plausible wrong version of the definition after it. They exist so the check can
confirm that each property can fail (see `mutants` in `PROJECT.json`).

Abstractions:
- Literal values in plans become their kind (scalar, range, georange, object,
  undefined). Those kinds are all that the signature and the engine's compile
  tell apart.
- Strings in batches are sequences of code points, and their bytes are their
  real UTF-8 encoding.
- The 32-bit sentinel 4294967295 is a model value, because it is larger than
  TLC's integers.
- Geohashes use 8 bits instead of 64. Coordinates are integers in units of the
  final cell. At this scale every midpoint the code computes is exact, as it is
  in double arithmetic.

## Runs

| Run | Result | What it shows |
|---|---|---|
| `result_cursor` (`MCResultCursor.cfg`) | pass | Two consumers and the owner's `close()` run in every interleaving, over 0, 1, 50, 51 and 101 records. The cursor implements `CursorSpec` (`CursorRefinement`): records come out in order, each once; a generator that ends leaves the cursor closed; a resumed generator always ends. An exhausted generator has yielded its whole total (`ExhaustedYieldsAll`). |
| `plan_cache` | pass | Over up to six `executeQuery` calls, the cache holds only ids compiled for exactly that structure (`CacheCoherent`, `ExecutedWithOwnShape`), and each shape is compiled once (`CompileOncePerShape`). |
| `plan_cache_malformed` | violation | A plan with a missing value reaches native execution when a well-formed plan of the same shape is already cached (`ExecutedPlansAccepted`). |
| `query_builder` | pass | Builders run over every branch of `_processCriterion`, including one that throws midway, and executed through the plan cache. Every plan a builder holds is made of well-formed steps within the bound (`TypeOK`); it catches a `traverse()` that pushes a step without a valid direction. The run is what fires the builder's actions. Compiling once per shape is checked in `plan_cache`. |
| `query_builder_leading_union` | violation | `find([{}, {...}])` produces a plan that starts with a Union step. |
| `batch_wire` | pass | Every byte sent has been written (`TypeOK`). The engine's reading of the buffer gives back the caller's operations exactly (`RoundTrip`), including with empty and multi-byte strings. |
| `batch_wire_bad_type` | violation | An operation of unknown type is sent with `allocUnsafe` bytes where its tag should be. |
| `geohash` | pass | The encoder computes the Z-order code of the point's cells (`EncoderIsMorton`). A radius range contains every point of its box, including for negative radii and for boxes that reach past the axes (`BoxInsideRange`). |
| `db_handles` | pass | Sync and async users interleave over two databases, with collections, graphs and read, write and graph transactions, across close and reopen. The caches hand out one object per collection or graph (`OneHandlePerKey`). |
| `profile_bench` (`MCProfileBench.cfg`) | pass | Two workers open the same directory, and every open, insert or get may fail. `main()` removes the directory only when no worker's database is open (`RemovesOnlyClosedDirectory`): each worker closes before it posts, and only the posts resolve `Promise.all`. Once `main()` awaits, it always resolves or rejects (`MainSettles`): a failed worker's `error` or `exit` event rejects its promise. |
| `db_handles_state_errors` | violation | `ErrorsRaisedAtCall` (spec §7). It covers three cases, and TLC reports whichever it reaches first: (1) a collection or graph obtained before `closeSync()` still calls the closed native instance, and the wrapper does not check; what a closed instance answers is left to the engine (it may refuse or serve the call), and TLC's counterexample is the engine serving it; (2) a second `commit()` or `abort()` of a read transaction returns silently; (3) a graph transaction's `insertObject` sends a non-object to the engine. |
| `packaging` | violation | `InstallFindsPublishedBinary`: `prebuild.js` on glibc Linux x64 stages `prebuilds/linux-x64`, but `postinstall.js` on the same platform looks for `prebuilds/linux-x64-glibc` and exits 1. |

`findings` in `PROJECT.json` explains each violation against the spec or the
tests that state the opposite.

## Bounds

- **Cursor.** Result sizes 0, 1, 50, 51 and 101 cover an empty result, a page
  with one record, a full page, a page plus one, and a final page with one
  record. There are two consumers, because a third adds no new kind of
  interleaving.
- **Plan cache.** Six plans: one shape with two literals and with a missing
  value, another field, and two directions of a traversal. Six executions
  reach a hit after a miss for each pair, and every plan run once.
- **Builder.** Plans have at most two steps and there are at most two executions.
  That is enough for two builders to share a shape and for a leading Union to
  appear.
- **Batch encoder.** One call per behaviour, with batches of up to three
  operations. Calls share no state, so a second call adds no new buffer. Keys
  are empty, one-byte, or mix two- and three-byte characters.
- **Geohash.** Four halvings per axis (an axis is -8..8). Corners go past
  each end of an axis. Half-widths are 0, one cell, two cells, and the whole axis, each with
  both signs of the radius.
- **Handles.** Two databases, three handle objects, one transaction of any
  kind and two pending async calls. Paths are given or missing, because
  truthiness is the only thing the wrapper tests about a path.
- **Profiler.** Two workers, which is `NUM_THREADS` on any machine with more
  than one CPU. With one worker the two workers can never race on the
  directory. The directory may or may not exist at the start.
- **Packaging.** Five machines: glibc and musl Linux x64, Linux arm64 (a
  platform `postinstall.js` does not name), macOS arm64 and Windows x64. The
  counterexample needs one build and one install.

## Fairness

Liveness is checked as part of `CursorRefinement`. `CursorSpec` requires weak
fairness of each active consumer's pull: the consumer takes a record or ends.
`ResultCursor` has to meet that under weak fairness of each generator's
resumption only. Under `for await`, a loop body that completes
calls `next()` again, so a suspended generator is eventually resumed. Breaking
out of the loop is the consumer's choice and is not assumed. A generator
abandoned without `return()` is outside this usage (see the hazards).

The profiler's `MainSettles` assumes weak fairness of each worker thread's
steps and of main's handling of each event. Worker threads run in parallel,
and Node's event loop runs every queued handler. The native callback is part
of the worker's step, so this also assumes that the engine answers every
call. Nothing in the code times a call out (spec §5), so an engine that never
answers leaves `main()` waiting forever.

## Not modelled

- The native engine beyond the contracts in spec §4.4–4.6 and §6.
- What `dropSync` does to a database that is still open. The wrapper lets
  the call through and the spec says nothing about it (see the hazards).
- A generator suspended inside a page yields that page's buffered records
  after the owner's `close()`. `CursorSpec` allows this, because the records
  come from memory and not from the closed handle.
- What the install scripts print, and the copying of file contents. `Packaging`
  keeps only which directory names exist.
- `bench.js`. It is one sequential script over the synchronous API. Its only
  state changes are opening and closing handles, which `DbHandles` covers,
  and deleting its directories. In `profile_bench.js` the key/value
  serialisation, timings and printing are left out.
- A worker's data. `insertBatchAsync` writes into the collection
  `async_batch_collection`, and `multiGetAsync` reads from
  `async_multiget_collection` (index.js:477, 490). So the profiler's gets
  never find the keys its inserts wrote, and the profiler checks only the
  length of the results. `ProfileBench` leaves keys out, and no run states
  read-your-writes for `StaxDBAsync`.
- An engine whose `getTotalCount()` disagrees with its pages. The generator
  checks the total only between pages (index.js:46), so it would yield up to a
  page past the total, where spec §4.6 says the sequence stops at the total.
  `ResultCursor` models only an engine whose total agrees with its pages.
- A sequence started on a cursor that is already closed. It reads a total of 0
  and ends as if empty, where spec §4.6 says it should fail. The refinement
  allows this case (an idle consumer may end), and the project has no
  room for a violation run of its own (see the hazards).
- `test.js`. It is used as a statement of intended behaviour, not modelled.
- What `StaxDBAsync.close()` owes a pending native call. `DbHandles` reaches
  a close while a callback is pending, but the spec states no behaviour for
  this case, so no property checks it (see the hazards).

## Plan for further work

1. `getPage` argument coercion checked against spec §4.6 paging, with page
   numbers past the end.
2. Builder, plan cache and cursor composed: `execute()` handing its cursor to
   consumers.
3. A liveness property for `StaxDBAsync` callbacks in `DbHandles`, once the
   engine's behaviour on `closeSync()` with a pending call is stated.
4. `StaxDBAsync` read-your-writes: add keys to `ProfileBench` and check that
   a worker's gets find its inserts.
