# A TLA+ verification of Pyronova

Pyronova is a Python web framework whose server is written in Rust: hyper on
Tokio accepts and parses HTTP, and Python handlers run in the main interpreter,
in a pool of sub-interpreters, or on one sub-interpreter per CPU thread. This
directory models the parts of it where several threads, tasks and interpreters
meet, checks them with TLC and proves the most important facts with TLAPS.

Paths such as `pool.rs:259` are relative to `src/src/` (Rust) or
`src/python/pyronova/` (Python). `PROJECT.json` maps each definition to the
lines it models.

## 1. Inventory

### 1.1 The parts and how they interact

A `Server` is started from an application object. `start()` resolves a
*topology* (`config.rs`), binds the listeners and freezes the route table;
`serve()` builds the executors and blocks until the server is stopped.

| Topology | Accepts on | `def` routes | `async def` routes | `gil=True` routes, fallback |
|---|---|---|---|---|
| Pool | multi-thread Tokio runtime | sync pool workers | async pool workers | blocking pool, main interpreter |
| TpcWorkers / TpcFanout | one runtime per thread / one acceptor | inline, on the thread's worker | async pool | main bridge |
| MultiThreadGil / TpcGil | as above | main | main | main |

| Component | State it keeps | Operations | Hard behaviour | What makes it correct |
|---|---|---|---|---|
| Sub-interpreter pool (`python/pool.rs`, `handlers/subinterp.rs`, `handlers/pipeline.rs`, `python/worker_api.rs`, `_async_engine.py`) | two bounded queues, the admission semaphore, one thread per worker, the jobs of each asyncio engine, counters | admit, collect the body, submit, take, run, answer, count, time out, stop, join | a 504 or a disconnect races the answer; an engine dies with work in flight; shutdown while a handler hangs | one answer per caller, a handler starts at most once and only for a caller that waits, permits conserved, no finalization with a live interpreter |
| Server run (`app.rs`, `tpc.rs`, `bridge/main_bridge.rs`, `python/worker.rs`, `app.py`) | who owns each interpreter, the threads, the stop token, abandoned threads | build, spawn, hand over, bind, watch, join, abandon, exit | any step of the start fails after others succeeded; a thread fails while others serve | each interpreter ended by its owner, the run returns unless a main-interpreter handler or WebSocket thread never ends, a quiet process at finalization |
| Registration and plan (`app.rs`, `router.rs`, `config.rs`, `pool.rs`) | route table, seal, topology, worker counts | add route, set fallback, seal, resolve, split | routes added by startup hooks; sizes 0, 1 and odd | an executor for every call a started server can receive, worker indices valid |
| WebSocket connections (`websocket.rs`) | slots, handshake future, handler thread, verdict channel | upgrade, accept, reject, time out, join, release | verdict against 504 or disconnect | exact slots, no handler for a refused client unless its accept crossed the deadline |
| WebSocket pump (`websocket.rs`) | two queues with byte budgets, a held message | read, forward, send, typed receive, close | back-pressure in both directions, close after send | order, budgets conserved, `close()` flushes |
| Streamed bodies (`body.rs`, `python/body_stream.rs`) | a bounded channel, the stream state behind a mutex, the GIL | feed, hand, next, drain, drop, reply | deadline and client failure against readers on several threads | never a silently shortened body, failures true and stable, every read returns |
| Worker GC (`python/worker.rs`, `tpc.rs`, `config.rs`) | served / collected counters | serve, tick, collect | panics and failing collections between count and trigger | bounded garbage, a lull is used |
| Main dispatch and bridge (`handlers/gil.rs`, `handlers/tpc.rs`, `handlers.rs`, `bridge/main_bridge.rs`) | bridge queue, blocking pool, the main GIL, each thread's event loop | dispatch, run inline, take, attach, run, answer, time out, close, join | hung handlers fill the threads, a panic in a handler, a join against the GIL | one answer, every request answered, threads survive, nothing of Python left at the join |
| Listener, accept loops, TLS (`server/listener.rs`, `conn_driver.rs`, `tls.rs`, `tpc.rs`) | sockets, the poll's turn, connection tasks | probe, bind all or none, accept, back off, shake hands, drain | EMFILE, one busy listener, slow handshakes, stop during accept | all sockets or none, every listener gets its turn, TLS exactly where configured, drain bounded |
| Thread states (`python/worker.rs`, `run_context.rs`) | the thread state current on each OS thread, the live ones, each worker's | create, init, swap back, hand over, rebind, serve, release, end | init fails half-way, a state of one thread used on another | Python runs under a live state of the right interpreter, the building thread returns to main's, nothing is left |
| Fan-out acceptor (`tpc.rs`, Darwin) | a channel per thread | pick, send, skip a dead thread | a thread dies while others serve | every accepted socket served or closed |
| Hooks and request context (`python/hook_chain.rs`, `python/request_context.rs`, `_async_engine.py`) | the chain and the `contextvars.Context` of one request | before, handler, after, await in a task | short circuit and errors in each stage, three paths with one meaning | order, a context of its own, before hooks guard the handler, the same answer on every path |
| Shared state (`state.rs`) | a concurrent map of bytes, one map per app | hand to a worker, get, set, delete, incr, decr | increments from several interpreters, i64 edges, a map handed over too late | no lost update, one store per app |
| Response streams (`python/stream.rs`) | a bounded channel | send, close, drop, return, drain | slow or vanished client, several producers | accepted events arrive in order, a close ends the response |
| Postgres (`db.rs`) | the process's pool, tasks, asyncio futures, cursors | connect, query, await, cancel, iterate | racing first connects, cancel against delivery against a closing loop, several threads on one cursor | settings honoured, one answer per call, rows in order, no read hangs, connections come back |
| Static files (`static_fs.rs`) | a cache and its byte counter | resolve, stat, look up, open, read, insert, remove | files edited between any two of these | an answer is made of what the file held during the request, and of one version unless an in-place write straddled the read; the counter exact |
| Compression (`compression.rs`) | a pool of output buffers | negotiate, plan, compress, apply, give back | buffers recycled under responses being written | a client's own bytes, in a form it can read |
| Routing (`router.rs`, `app.rs`, `handlers/pipeline.rs`) | the route list, a router per method, pre-built responses | add, resolve, refuse | three lookups with a HEAD rule each, refused registrations | list and routers in step, `Allow` truthful, HEAD as GET, the same answer in any case of the method but for what is looked up as sent |
| Responses, errors, request ids (`response.rs`, `error.rs`, `request_id.rs`, `site.rs`) | id ranges and sampling rolls per thread | map, refuse, log, render, finish | a handler that ends after its 504 | a quoted id leads to its own error, hooks change nothing they do not mean to, sampling exact |
| RSS sampler (`monitor.rs`) | a user count and one thread | start, drop, sample | overlapping runs in one process | no thread and no stale value once nobody samples, the drop returns |
| gRPC fixture, logging, leak detection, benches | - | - | none shared between components | - |
| Python layer (`app.py`, `testing.py`, `_reload.py`, `_bounded.py`, `cache.py`, `mcp.py`, ...) | the application, a background server, child processes | run, seal, restart | start/stop races in the test client and the reloader | start reports, stop ends |

`PROJECT.json` lists every component with what is modelled of it and why the
rest is not; its `hazards` list has each place where something can go wrong
that a test would hardly reach, with the property that would notice.

### 1.2 How the parts meet

* A service future of hyper owns the *receiving* half of a reply channel; the
  `WorkRequest` in a queue owns the *sending* half, the body and the headers.
  Each can be dropped first. This pair appears in the pool, in the WebSocket
  handshake (the verdict channel) and in streamed bodies.
* Interpreters are created on the main thread and handed to a thread each.
  After the hand-over only that thread may end the interpreter; before it only
  the creator may; a leaked one must prevent finalization.
* The stop is one cancellation token. Dropping the runtime drops every future,
  and with them the last references to the pool, which closes the queues, which
  ends the workers.

## 2. Modules

| Module | Models | State and actions |
|---|---|---|
| `WorkerPool` | one pool under load and through its stop | Callers (`Arrive` ... `Disconnect`) are `run_on_pool` cut at its awaits; `SyncTake/SyncFinish/SyncEnd` are `serve_sync`; `Fetch`, `FetchLate`, `FetcherStops/Fails` the engine's fetcher thread; `TaskDone`, `EngineStops`, `TaskCancelled`, `EngineWaited`, `EngineCloses` its event loop; `WorkerEnded` is `Py_EndInterpreter` and the drop of the receiver; `Stop` ... `Exit` the shutdown |
| `RequestService` | what the pool promises about one request | abstract: open, start, refuse, finish |
| `ServerRun` | one run from `serve()` to the end of `Pyronova.run()`, both sub-interpreter topologies | `pc` is the starting thread's position; each loop step, each failing step (`...Fails`), each thread's bind and end, joins and abandonment are actions; so are the runtime's drop (`RuntimeDropped`) and the blocking work it waits for (`blocking`) |
| `ServerPlan` | registration, seal, topology and sizes | `AddRoute`, `SetFallback`, `SealRegistrations`, `Start` |
| `WsConnections` | upgrades, slots and handler threads | `Upgrade`, the hooks' outcomes, verdict, the time-out in two steps (`HandshakeTimeout` when the timer fires, `GivesUp` when the receiver is dropped), disconnect, join, stop |
| `WsPump` | one open WebSocket | `Read/Forward` (incoming), `TakeOut/Sent` (outgoing), `Closed`, and the handler's `Recv/SendMsg/Close/HandlerReturns` |
| `BodyStream` | one streamed body | client, feeder (`FeedFrame`, `FeedEnd`, `FeedTimeout`, `Hand`, `HandFails`), readers (`Call`, `Lock`, `Recv`, `Attach`), reply |
| `WorkerGc` | collection schedule of a worker | `GcServe`, `ServePanics`, `Tick` |
| `MainDispatch` | requests for the main interpreter on a TPC thread and on the multi-thread runtime | Callers (`MdArrives` ... `MdGone`), bridge and pool threads (`MdServes`, `MdTakes`, `MdAttaches`, `MdMakesLoop`, `MdHandlerEnds/Panics`, `MdExits`) and the GIL they share with the stopping thread (`MdCloses`, `MdJoined`); implements `RequestService` |
| `ThreadStates` | `SubInterpreterWorker::new` to `end`, and `main_attach` | What is current on each OS thread; creation, each init step, refusal and failure, the swap back, hand-over, rebind, calls, end on the creator's or the own thread, the pool join that gives up (`TsJoined`) |
| `HookChain` | `Chain::before/handler/after` on main and in a worker, `_handle` in the engine | One request per thread or task; `HcCall` a hook or handler, `HcReturn` with what it returned, `HcPanic` |
| `SharedState` | the map of an app in several interpreters | `ShHands`, `ShScriptRuns`, `ShNew`, the operations; `incr` is two steps under the entry's lock |
| `ResponseStream` | one SSE stream | producers `RsSend/RsClose/RsForgets`, `RsReturned`, the response `RsDrains/RsCompletes`, the client's departure |
| `RssSampler` | the sampler of overlapping runs | `RmStart`, `RmDrop`, `RmJoined`, the thread's `RmSample`, `RmWakes` |
| `AcceptLoop` | accept loops over several listeners, and their connections | `AlAccept` (the poll, the error and its back-off), `AlHandshake`, `AlGraceful`, `AlStops`, `AlDrains`, `AlEnds` |
| `PortBinding` | `BoundListeners::bind` of several servers | `PbProbe`, `PbBind`, `PbListen`, failures, release |
| `PgPool` | `connect` and one query per caller | `ConnectLooks/Opens/Sets`, `Call*`, `Acquire`, `QueryEnds/Panics`, delivery (`DeliveryChecks/Posts`, `Resolve`), cancellation |
| `PgCursor` | one cursor, its driver task and the threads that iterate it | driver; each reader's `__next__` cut at every lock, claim, wait, detach and attach |
| `StaticFiles` | concurrent requests and an operator who edits files | `serve` cut at each await, each read of `read_to_end` (`SfReads`, `SfEof`) and each step on the shared map or counter |
| `Compression` | the decision, and the life of an output buffer | `CoPlans`, `CoTakesBuf`, `CoJobEnds/Panics`, `CoBodyDropped`; `Negotiate`, `Plan`, `Varied` are the pure functions |
| `Routing` | the table and what a request resolves to | registrations, refused ones included, and `RtAsk`; `RtServes` is `preprocess` then `unrouted` |
| `Responses` | values, errors, ids and `finish` | `RpDispatch`, the handler's start and end, `RpGivenUp` (queued or running), `RpFinish` |
| `Sums` | the byte counts of a queue, a cache or a budget | `SumOver(n, S)` as a cardinality, so that its laws are proved without induction |

`MC*.tla` instantiate them for TLC; `*Proofs.tla` and `SumTheorems` hold the
theorems: `WorkerPoolProofs`, `MainDispatchProofs` and `BodyStreamProofs` of the
module of their name, `WsConnectionsProofs` of both WebSocket modules, `DbProofs`
of `PgPool` and `PgCursor`, `ServerProofs` of the modules of the `server` run with
`ServerPlan` and `PortBinding`, `PartsProofs` of the others of the `parts` run.
Three of the MC modules put several modules into one run: `MCServer`, `MCParts` and `MCDb` extend
modules that share no variables, and a variable (`part`, `half`) chosen in the
initial state says which of them moves. A behaviour of such a run is a behaviour
of one module, so its states add up instead of multiplying, and each property is
checked exactly as in a run of its own. Definitions
whose comment begins with *Mutant* are plausible bugs of the definition that
follows; a property is kept only if one of them makes TLC refute it.

Abstractions common to all modules: payloads are model values or small numbers;
a request, chunk or message carries only its identity, kind and size class; a
deadline is an action that may happen whenever its timer is armed (so any
ordering of a timer with other events is covered); a handler may return, raise
or hang unless the fairness of a run says otherwise.

## 3. Runs

Passing runs:

| Run | Instance | Shows |
|---|---|---|
| `pool_safe` | 1 sync and 2 async requests, a worker of each kind, 1 queue slot, symmetry; engine and fetcher may fail | permits balance on every way out of `run_on_pool` (`PermitsBalance`); a pending answer always has somebody who will give it (`NoOrphan`); no finalization with a live interpreter (`FinalizeSafe`); a live caller's large body was admitted, `inc_completed` at most once and only after the request is nowhere (`PoolSafe`) |
| `pool_live` | 1 sync and 1 async request and worker, handlers may hang, engine and fetcher may fail | `WorkerPool` implements `RequestService` (`ServicePromise`); every caller is answered, a stop ends the process (`PoolLive`) |
| `main` | 2 bridged, 1 inline and 2 blocking requests, one of each streamed, 2 bridge threads, 1 pool thread, 1 slot | a TPC thread implements `RequestService` (`MdImplements`); a bridge thread survives its handlers and holds nothing once joined (`MdSafe`); every request is answered though handlers hang with or without the GIL, the bridge is joined (`MdEnds`) |
| `db` | 2 callers with each pair of three requests, one in a worker; 3 readers, 2 rows, capacity 2 | a caller's settings hold and a cancelled query frees its connection (`PgSafe`); each call is answered once, a done future stays, one pool is left (`PgDelivers`); rows in order, `StopIteration` only at the end (`CurSafe`); no read hangs, a dropped cursor gives its connection back (`CurEnds`) |
| `ws_pump` | 3 messages in, 2 out, two kinds, sizes 0 and the maximum, a budget of one maximal message | order also through typed receives that refuse a message, budgets conserved, `close()` flushes (`PumpSafe`); a receiving handler gets everything (`MessagesArrive`) |
| `body_stream` | 2 readers, 4 frames of 1, 0, 1 and 1 bytes with a limit of 2, channel of 1 | order, no silent truncation, failures name what happened and stay (`BodySafe`); a lone reader's reads return, the client is answered (`BodyEnds`) |
| `server` | `ServerRun`: up to 2+2 pool workers, 3 TPC threads, 2 bridge threads, every fault | interpreters ended by their owner, a quiet process at finalization (`RunSafe`); after a stop or a failure the run returns, or waits for ever for blocking work that never ends (`RunEnds`) |
| | `WsConnections`: 3 upgrades, 2 slots | `SlotsExact`, `SlotOutlivesThread`, `NoHandlerAfterRefusal`, `SlotsReturn` |
| | `WorkerGc`: 1 worker, thresholds 2 and 3, 12 requests, each mode | garbage below the trigger except after panics or a raising collection (`GcSafe`), a lull collects (`LullCollects`) |
| | `AcceptLoop`: 3 connections, a plain and a TLS listener, 2 descriptors | TLS exactly where configured (`AlSafe`); queued connections are taken and a stopped loop ends (`AlLoopsEnd`) |
| | `RssSampler`: 3 runs, 3 spawns | nothing left once nobody samples, the drop returns (`RmCorrect`) |
| | `ResponseStream`: 2 producers, 2 requests, 4 chunks, capacity 2 | accepted events in order, a close ends the response (`RsCorrect`) |
| `parts` | `ServerPlan`: up to 3 routes of every kind, sizes 0..3 or default | an executor for each route and the fallback (`EveryCallServed`); every pooled route known to the workers (`WorkersKnowRoutes`); the pool has the workers asked for, split between the kinds the table holds (`PlanSafe`) |
| | `HookChain`: 2 requests on any two paths, 1 hook before and 1 after | `HcSafe` |
| | `ThreadStates`: 2 workers, 2 init steps, pool or TPC | `TsSafe` |
| | `SharedState`: 2 apps, one of them also in a worker, 1 key, numbers -2..1 | increments are atomic, an app's objects have one store (`ShCorrect`) |
| | `PortBinding`: 3 servers, 3 ports, 2 copies | `PbSafe` |
| | `StaticFiles`: 3 requests, 2 files, one edited past the limit | `SfSafe` |
| | `Compression`: every `Accept-Encoding` of up to two elements, 21 kinds of response, 6 settings, beside a second response | `CoSafe` |
| | `Routing`: 3 registrations of 3 methods, 5 patterns, 7 methods asked, three of them in lower case | `RtSafe` |
| | `Responses`: 2 requests, 2 threads, 1 in 2 sampled | `RpSafe` |

Runs in which TLC refutes what the repository says of itself:

| Run | Statement | What happens |
|---|---|---|
| `pool_large_bodies` | `pool.rs:259` "At most as many large bodies buffered as the channels in use have slots." | the permit is the caller's, the body is the request's: after a 504 the body waits in the queue while its permit admits another |
| `run_pool_spawn` | `pool.rs:281` workers not handed to a thread are ended, the others joined | the worker whose spawn failed was moved into the closure and is leaked; a started thread that outlives the join is only logged; Python is finalized either way |
| `ws_threads` | `websocket.rs:533` "the slot is released only once the thread has been joined, on every path" | a client that leaves during the handshake drops the future that owns the thread: the slot goes, the thread runs on |
| `body_readers` | `body_stream.rs:117` concurrent readers "take chunks one at a time in order" | `self.lock()` waits for the mutex with the GIL held, its holder needs the GIL to return: both wait for ever |

Met while modelling and not given a run of their own:

* `pool.rs:50` says `inc_completed` runs "exactly once per request, on every
  path"; a request discarded with its queue when the last worker of its kind
  ends is not counted (`DiscardQueue`).
* `_async_engine.py:115` says the wait for cancelled tasks is bounded; the
  `asyncio.run` around it gathers the same tasks with no bound (`EngineCloses`).
* `websocket.rs:878` says waiting for the incoming budget stops "this select
  arm"; the await is inside the arm's body, so the outgoing arm is not polled
  either, and a handler that sends without receiving is told that the client is
  slow (`Forward`).
* `websocket.rs:357` says `send()` on a closed connection raises; the receiver
  lives until the closing handshake is over, so it succeeds and the message is
  dropped (`SendMsg` while `pump = "closing"`).
* `config.rs:154` says "each worker" collects in count mode; an async engine has
  no schedule and its interpreter has the collector disabled.
* `listener.rs:208` says the probe "proves `addr` free"; it is closed before the
  sockets are bound, so two servers that both probe before either listens share
  the port (`PbProbe`, `PbListen`). `PbSafe` is about the sockets of one server.
* `hook_chain.rs` says the async engine runs "the same order and semantics"; a
  `Response` whose status or body cannot be sent fails at once in the chain, but
  in the engine only when it is sent, and an after hook that replaces it saves
  the request (`Mapped`, `Goes`). `HcSameAnswer` leaves that outcome out.
* `stream.rs:139`: a producer whose client is gone is told so only if the
  response was dropped; one whose `Stream` was never returned meets a full
  channel for ever (`RsPushes`).
* A handler whose caller got a 504 before its turn is skipped by the pool and by
  the bridge, but not by the blocking pool, which runs it (`MdTakes`).
* A static file that grows past `MAX_STATIC_FILE_BYTES` between the fstat and the
  read is served once, cut to the limit (`ReadOf`).
* `static_fs.rs:405` says the stamp "describes these bytes"; `read_to_end` awaits
  each read, so a write in place after the fstat, or between two reads, is served
  under the older stamp, and may be answered as a mix of two versions (`SfReads`,
  `SfEof`). `SfFresh` says what remains true: each piece is of a version the path
  had during the request, and no request that came after the write gets the mix.
* `router.rs:487` says HTTP methods are case-insensitive; pre-built responses
  (`router.rs:478`) and static files (`pipeline.rs:236`) compare the method as
  sent, so `get` for a pre-built `GET` is refused with a 405 whose `Allow` names
  GET (`RtFastFor`). `RtCaseRule` says that the rule holds for everything else.
* `websocket.rs:605` says that after a time-out "the thread sees the verdict go
  unread and exits without running the handler"; an accept sent after the timer
  fired and before the receiver is dropped is sent successfully, and the handler
  runs for a client that was answered 504 (`HandshakeTimeout`, `GivesUp`).
  `NoHandlerAfterRefusal` allows that one crossing.
* A table with no worker route still gets its whole pool, as sync workers
  (`pool.rs:119`, `PoolUsesItsWorkers`).
* A pool's join gives up on a thread after `JOIN_TIMEOUT` (`pool.rs:411`), and
  after a failed start only logs it: its interpreter and its thread state stay
  (`TsJoined`; `TsNoneLeft` names exactly these).
* A `HEAD` route is shadowed by a pre-built `GET` response of the same path
  (`RtFastFor`); `q=-1` and `q=nan` are parsed and leave their codec as if not
  listed, so that a wildcard covers it, where the comment says a malformed `q`
  disables (`CoQ`).

### 3.1 Bounds, and why they are enough

Races in the pool are between one request and its worker, plus a second one for
the last permit or slot and a third to overtake it: three requests, one slot.
Two readers and two kinds of message suffice for the mutual interference of
readers and typed receives; three upgrades for two slots give a full and a
contended table. Start-up loops are run with at least two elements so that a
failure has both a predecessor and a successor. Plan sizes 0 to 3 contain the
refused size, the size that cannot be split and an odd one. `MaxRequests`,
`MaxRoutes`, `MaxIn` and `MaxOut` bound counters that grow for ever in the code;
`gc` runs long enough for several collections of either threshold.

In `main` the five requests make each thread a bottleneck at least once: a full
bridge queue, two handlers for one GIL, a request behind a hung one on the only
pool thread. Three cursor readers are one that receives, one that waits and one
that arrives late, which is what a lost wake-up needs; the channel's capacity
bounds the rows, since a batch is at most a channel. Two callers suffice for the
pool race (a winner and a loser) and two versions of a file for a stale stamp or a
torn read, with a third request to contend for the cache's last bytes. `RtMost`, `ShOps`,
`RsChunks`, `RmSpawns` and the two versions of a file bound what grows for ever.
i64 is -2..1 in `SharedState`: only its ends and the asymmetry of negation count.

Deadlock is checked in the pool and run modules, whose terminal states are
explicit (`Terminated`). The other models end when their client or connection
does, so there the check is off.

### 3.2 Fairness, and why the code justifies it

* `WorkerPool`: timers fire, the runtime polls ready futures, an idle worker
  takes work, the stopping thread goes on. No fairness for `SyncFinish`,
  `TaskDone` or `TaskCancelled`: handlers may hang for ever.
* `ServerRun`: the starting thread and new threads are scheduled; TPC threads
  return from their handlers after a stop, because the code joins them without a
  bound (a TPC handler that never returns does hang the run). Pool threads get no
  fairness for their end, and neither does `spawn_blocking` work: the drop of the
  multi-thread runtime (`app.rs:862`) waits without a bound for what has started
  (a `gil=True` handler, `gil.rs:65`; the join of a WebSocket thread,
  `websocket.rs:546`; a compression, `compression.rs:523`), and `RunEnds` has that
  wait as its one alternative to the return.
* `WsConnections`: tasks are polled; hooks and handlers return once their
  connection is over (a closed inbox makes `recv()` return `None`).
* `WsPump`: the pump is polled, and for `MessagesArrive` the handler keeps
  receiving.
* `BodyStream`: the deadline passes, the feeder is polled, and locks are not
  withheld for ever from one thread (strong fairness of mutex and GIL). Nothing
  is assumed of the client or of the handler. `LoneReadsReturn` restricts itself
  to behaviours with no second reader, where the deadlock of `body_readers`
  cannot occur.
* `WorkerGc`: the interval timer ticks.
* `MainDispatch`: budgets pass, futures are polled, idle threads take work and a
  free GIL is granted (strongly: threads compete for it). Feeders end, by their
  deadline. An inline handler is assumed to end, since one that never returns
  stops its TPC thread. Nothing is assumed of a bridged or blocking handler;
  `MdStops` is stated for behaviours in which none holds a bridge thread for ever,
  because `shutdown_join` has no bound.
* `PgPool`: tasks are polled, `acquire_timeout` passes, the loop runs its callbacks
  while it runs. A query may take for ever only if it is a cursor's.
* `PgCursor`: the driver and each reader take their next step (weak fairness is
  enough: every loop ends); nothing is assumed of the application calling again.
* `AcceptLoop`: loops are polled, back-offs and the drain's timeout pass. Nothing is
  assumed of clients.
* `RssSampler`, `ResponseStream`: threads are scheduled and the response is polled.
* The modules of `parts` have safety properties only.

Two limits of what these properties say: `PoolLive` and `ServicePromise` are about
the pool's own handlers, `MdImplements` about the requests of a TPC thread (a
blocking-pool handler may start after its 504). And `CurSafe` has no driver that
panics: `__next__` would take the channel's end for the end of the rows.

## 4. Proofs

Every invariant a passing run checks is a theorem, and so are both refinements of
`RequestService` and the two action properties inside `PgDelivers` and
`BodyEnds`. Each holds for every value of the constants that satisfies the
module's named assumption. A proof has one lemma per action (or per group of
actions that touch the same state) for the inductive invariant, which TLC checked
first on the instance of the module's run.

| Module | Theorem | Inductive invariant, and why it is needed |
|---|---|---|
| `WorkerPoolProofs` | `TypeCorrect` | the semaphore cannot underflow because every taker tests `free` |
| | `FinalizeCorrect` | `JoinedOrAbandoned`: all threads before `next` are ended or recorded; `FinalizeSafe` alone says nothing before the exit |
| | `NoOrphanCorrect` | `PendingHeld`, `QueueServed`, `HandsServing`: a pending request is somewhere; a non-empty queue has a receiver (the last one to go discards it); a worker that holds work serves |
| | `PermitsCorrect` | conservation as a cardinality; `NewUntouched` for requests that have not arrived |
| | `PoolCorrect`, `ServiceCorrect` | `IInv`: a `WorkRequest` is in one place (`QueuedOnce`, `HeldOnce`) and `Ledger` ties the answer channel to what was started and counted; without it a second `Fetch` of the same request could start its handler again |
| `MainDispatchProofs` | `MdCorrect`, `TpcService` | `MdIInv`: `MdThreadsTidy` (what each thread holds in each of its states, the GIL included), `MdQueuedOnce`, and `MdLedger` for the refinement as in the pool |
| `WsConnectionsProofs` | `WsTypeCorrect`, `WsSlotsExact`, `WsSlotOutlivesThread`, `WsNoLateHandler` | `WsInv` ties slot, thread and verdict to the connection's phase; without it a release could be of a slot not held |
| | `PumpCorrect` | `WpInPlace`, `WpOutPlace`: every message has its place, from the received ones over `held`, the queue and the pump to the wire; prefixes alone say nothing of the next message |
| `BodyStreamProofs` | `BodyCorrect`, `EndSettles` | `BodyIInv`: frames read, queue and the feeder's message are one numbered sequence; the last message is true when made and stays true; a read holds the mutex |
| `ServerProofs` | `RunCorrect` | `RunIInv`: what the starting thread's `pc` and loop index say about each worker (`Stage`), what a thread has of its interpreter (`ThreadHas`), bridge and watcher (`Helpers`) |
| | `GcCorrect` | `ScheduleTrue`: the schedule's count measures the garbage |
| | `AcceptCorrect` | `AlIInv`: a socket queues a connection once, one that arrived on it; only a TLS listener's is in a handshake |
| | `PlanTypeCorrect`, `CallsServed`, `RoutesKnown`, `PlanCorrect` | the integer halves of the two splits are at least one where they must be; a table is frozen once served |
| | `BindCorrect` | `PbIInv`: the sockets are `PbCopies` of each specification in turn, as far as the step says, each on the port found |
| | `RmSafety` | `RmIInv`: the lock is held exactly through the one join, which only the last user comes to |
| | `RsSafety` | `RsIInv`: the response with the receiver is the owner's, and a completed one has dropped it |
| `DbProofs` | `PgCorrect`, `FutureSettles` | `PgOrder`: pool before statement before future, the pool's settings are those of the call that installed it |
| | `CursorCorrect` | `CurIInv`: delivered, on the way and in the channel, the rows are numbered without a gap; one reader has the receiver |
| `PartsProofs` | `SharedCorrect` | `ShIInv`: a map is its app's, an `incr` under way holds its entry's lock and the value it read |
| | `TsCorrect` | `TsIInv`: which thread holds which state at each step of a build, a service and an end; only a pool's join leaves a thread running |
| | `CompressCorrect` | `CoIInv`: a buffer is with one job, in one body or in the pool |
| | `HooksCorrect` | `HcIInv`: a request's answer so far is a function of the calls it has made, the same on the three paths |
| | `RoutingCorrect` | `RtIInv`: list and per-method routers describe the same routes |
| | `ResponsesCorrect` | `RpIInv`: id ranges of threads are disjoint and used up in order; a thread's roll counts the answers it rolled for |
| | `StaticCorrect` | `SfIInv`: what each request has seen at each step and of which versions the bytes it has read are, and that the counter is the cached bytes plus what requests have reserved and owe |

Two techniques stand in for the induction over data the prover lacks. A sum over a
queue or a cache (`WsPump.Reserved`, `StaticFiles`) is the cardinality of a set of
units, one per byte; `SumTheorems` derives from the cardinality theorems how it
changes when an element is added, replaced or shifted. That the `q`
of a codec listed several times is its greatest (`CoQ`) uses `Greatest` in
`PartsProofs`, which rests on the well-foundedness of the order on the naturals.

Assumptions on constants beyond their types, each evaluated by TLC:

* finite sets where something is counted: `Requests`, `Conns`, `CoReqs`, `RpReqs`,
  `RpThreads`, `SfRequests`, the files, `RtMethods`, `RmServers`;
* at least one queue slot, buffer slot, accept loop, TPC thread, core, init step,
  copy of a socket and listener specification: what the constructors enforce;
* `KindServed`: a kind with requests has a worker, which `CallsServed` proves of
  the plan;
* `Bytes` grows with the frames; `RpRange` is at least the number of requests, as
  a thread's 2^40 ids are (the range is not meant to be used up);
* the values that stand for "nobody" or "unset" are none of the others
  (`ShNobody`, `RsNobody`, `CoNoBuf`, `PgSetAssumption`, ...);
* the upper case of a spelling (`RtUpperOf`) is its own upper case, and so are
  the methods an app registers (`router.rs:378` upper-cases them);
* a static file limit of at least one byte (`SfMax`).

Only model-checked: everything under fairness (`PoolLive`, `MdEnds`,
`MessagesArrive`, `BodyEnds`, `RunEnds`, `SlotsReturn`, `LullCollects`,
`AlLoopsEnd`, `PgDelivers`, `CurEnds`, and the second halves of `RmCorrect` and
`RsCorrect`), which the prover does not handle. The statements the four violation
runs refute have no theorem, of course.

## 5. Not modelled

HTTP parsing, TLS records, WebSocket frames, path matching, encoders and SQL
belong to external crates; what the server relies on is stated where it is used
(marked external in the map). Formatting, log text, header construction and JSON
are conversions of one value, as are Postgres parameters and cells (`db/*.rs`).
C-extension isolation in `_bootstrap.py` is CPython loader behaviour; only whether
a worker is built is used. The Darwin fan-out acceptor and the two GIL servers own
no sub-interpreter; they appear in `ServerPlan` only. Hooks are registered like
routes and left out of `ServerPlan`. The gRPC endpoint is a benchmark fixture;
`bench.rs`, `leak_detect.rs` and `logging.rs` are diagnostics. What is written in
Python on top of the server (`mcp.py`, `rpc.py`, `crud.py`, ...) is application
code; the test client and the reloader use only operations `ServerRun` has.

## 6. Plan

The pool, the run, the plan, the WebSocket modules, streamed bodies and the
collector came first because they carry every request, every interpreter and the
stop; the others of section 2 followed by the hazards they are exposed to. No
module is left to be written for the server itself.

Every invariant and every action property has its proof. The rest of `PgDelivers`,
`BodyEnds`, `RmCorrect` and `RsCorrect` and the other liveness properties are
leads-to formulas and stay with TLC. Worth a further lemma are safety facts those
rest on, for instance that a pool which is open and not installed is its opener's
to close in its next step (`PgOnePool`).
