# RemoteView server: TLA+ models, TLC runs and proofs

RemoteView (`src/src`) is a C++ server that reads tiles of seismic volumes from a
VDS file, caches them, and serves them to web clients over a WebSocket connection.
The modules in this directory model the parts of it that keep state, and the pure
parts those rest on; TLC checks them on small instances and TLAPS proves their safety
for every instance. `PROJECT.json` maps each definition to the lines it translates.

## 1. Inventory

Paths are relative to `src/src`.

| Component | State | Operations | Interacts with |
|---|---|---|---|
| `TileCache` (`tile_cache/`) | map key -> list iterator, list in recency order, byte total, three counters, `cache_mutex_` | get, put, evict, clear, reset_stats, shutdown | called by any thread |
| `WebRtcServer` (`rtc_channel/`) | `running_`, server thread, lws context, `sessions_` and its mutex, an id string per connection | start, stop, callbacks ESTABLISHED / RECEIVE / CLOSED, three message handlers, send_tile_data | libwebsockets calls it back on the server thread; `Server` starts and stops it |
| `VdsReader` (`vds_access/`) | engine objects, two request buffers used in turn, `initialized_`, `cuda_available_`, `access_mutex_` | initialize (five phases), shutdown, set_cuda_enabled, read_tile | HueSpace engine, CUDA allocator |
| `Server`, `main` | `running_`, `shutdown_requested_`, the components, a global pointer for the handler | start, main loop, stop, SIGINT/SIGTERM handler, destructors | starts and stops all others |
| `VdsMetadataExtractor` | none | layout -> metadata, downsample levels and their sizes | called by `VdsReader` |
| `Compressor` (`compressor/`) | statistics and their mutex, per compressor | compress, decompress, estimate_ratio, get_stats, reset_stats; a factory | LZ4, Zstd; any thread may call |
| tile protocol (`protocol/tile_message`) | none | serialize, deserialize, two is_valid, `TileData::compress` | nothing in `src/src` joins it to a compressor or a channel yet |
| control protocol (`protocol/control_message`) | none | to_json, from_json, `ControlResponse::to_json` | nothing in `src/src` calls it |
| `Config` (`config/`) | settings | load_default, load_from_file, save_to_file, from_json, to_json | `main` loads it before any thread exists; read by all |
| `MetricsCollector` | an atomic flag | start, stop, collect (empty) | `Server` |
| `Adapt` | none | two stubs that log | `Server` |

What is hard here, and the property that is about it (the line of each is in
`PROJECT.json`, `hazards`):

* **TileCache**: map and list hold the same tiles by two structures, one of them raw
  iterators (`MapMatchesList`); the byte total is adjusted in five places
  (`Accounting`); the eviction loop must end, evict the right end of the list and no
  more than it has to, and spare the new tile (`PutTerminates`, `LruOrder`,
  `LoopKeepsLongestPrefix`, `NewestSurvives`); all of it together must be an LRU cache
  (`RefinesLRU`); the counters must count what the header says, over evicts and clears
  (`ClearResetsStats`).
* **WebRtcServer**: a session lives in one table and is named in another
  (`SessionsMatchConnections`); the callback uses a session pointer after unlocking
  (`CallbackSessionAlive`); stop() tears down what the server thread uses
  (`ContextOutlivesService`, `StoppedClean`) and must end (`StopCompletes`); handlers
  respond while they hold the mutex (`CallbackReturns`), and nothing else may keep a callback
  from returning (`OtherCallbacksReturn`).
* **VdsReader**: initialize can fail at every phase (`AllOrNothing`,
  `InitializeReturns`); a read waits for the engine with a borrowed buffer
  (`ReadKeepsBuffer`, `TileAnswersRequest`) and every path out of a call, also an exception,
  has to give the mutex back (`MutexComesBack`); pinned and malloc buffers
  are freed by a flag that can change in between (`FreedAsAllocated`). Another file may
  be loaded after a shutdown, and metadata are members that nobody clears
  (`ReadOfLoadedFile`). All of it together must look like a source that opens, answers
  and closes (`RefinesTileSource`).
* **Tile geometry**: offset, extent and level size are divided by the downsample factor
  each on its own (`ReadWithinLevel`, `NeighboursMeet`); a loop counts the levels by halving and
  a shift makes their sizes (`LevelsReachMinimum`); the number of levels grows with the file
  while the smallest tile stays (`OptimalTileNotEmpty`); x and y lie along other axes on every
  plane (`SpatialBounds`).
* **Tile pipeline**: a compression that fails returns the samples, a decompression that
  fails returns what it was given, `TileData::compress` labels samples with a codec
  that never saw them, and `payload_bytes` keeps 32 bits of a size (`AcceptedIsSent`); a
  channel may deliver too little or too much (`OnlyWholeMessages`); calls are counted after
  the work, and a reset may come between (`RatioOfCountedCalls`); keys of control messages are
  spelt twice, once for each direction (`ControlUnderstood`).
* **Server**: stop() runs inside a signal handler on whichever thread the signal
  interrupts, so several stop() may be on one stack or on two (`ContextOutlivesThread`,
  `ReleasedOnExit`, `ShutdownFinishes`); a stop() that finds the web server's `running_` cleared
  goes on without waiting for the join (`AbortedByOwnJoin`); a stop() nested in another may wait for the
  mutex that the frame below it holds (`OnlyNestedStopsWait`); a signal can come before `running_` is set
  (`SignalStops`, `RunningMeansComplete`).
* **Config**: from_json assigns member by member and throws at the first bad value
  (`WholeConfig`); what was read, in whole or in part, must survive a save
  (`ReloadsAsSaved`).

## 2. Modules

| Module | Models | Code |
|---|---|---|
| `Sums` | running sums as a recursive function | (helper) |
| `LRUCache` | the abstract LRU cache: every operation atomic, no nodes, no loop; statistics as the code counts them | the operations of `TileCache` |
| `TileCache` | the cache with its list nodes, iterators and eviction loop | `tile_cache/cache.cpp` |
| `WebRtcServer` | server thread, stopping thread, sending thread, connections | `rtc_channel/webrtc_server.cpp` |
| `TileGeometry` | metadata, downsample levels, accepted requests, voxels and bytes of a tile: operators only | `vds_access/vds_metadata.cpp`, the arithmetic of `vds_reader.cpp` |
| `TileSource` | the abstract reader: one volume open or none, one question at a time | what `vds_reader.hpp` offers its callers |
| `VdsReader` | start, stop and reads by several threads; extends `TileGeometry` | `vds_access/vds_reader.cpp` |
| `TileMessage` | tile data, message, serialize and deserialize: operators only | `protocol/tile_message.cpp` |
| `ControlMessage` | control messages and their JSON: operators only | `protocol/control_message.cpp` |
| `Compressor` | the factory, the three compressors, their statistics; extends `TileMessage` | `compressor/compressor.cpp` |
| `TilePipeline` | the last three joined by a channel | how their interfaces and tests use them |
| `Config` | the settings, to_json and from_json: operators only | `config/config.cpp` |
| `Server` | `main`, the components' start and stop, signals, stop() frames; extends `Config` | `server.cpp`, `main.cpp`, the start and stop of the components |
| `ListLemmas` | facts about `Cons`, `RemoveAt`, `Front`, running sums, and recursion on smaller numbers | (lemmas) |
| `TileGeometryProofs` | facts about the operators of `TileGeometry` for all numbers | (lemmas) |
| `TileCacheProofs`, `WebRtcServerProofs`, `VdsReaderProofs`, `TilePipelineProofs`, `ServerProofs` | inductive invariants and theorems | |
| `TileCacheRefinement` | `TileCache` implements `LRUCache`; extends `TileCacheProofs` | |
| `MC*` | the small instances | |

A definition called *Mutant* in a comment is not part of a specification: it is the
definition after it with a plausible bug, and PROJECT.json names the property that
notices the bug.

**TileCache.** All public operations hold `cache_mutex_` from beginning to end, so
each is one action. The exception is a put of a new key: the insertion (`PutInsert`),
each round of `while (should_evict()) evict_lru()` (`EvictLru`) and the return
(`PutReturn`) are separate, `inserting` is the frame of that put, and no other
operation is enabled while it is there. `entry[n]` is the heap: `Freed` or a
`TileEntry`; `cache_map` stores nodes, as the code stores iterators, and a node can be
allocated again after it was freed. `clear` and `shutdown` do the same to the state and
are one action. The clock never goes back but may stand still. A null payload, which put
refuses, is among the inputs. `RefinesLRU` is about recency and eviction. Of the statistics
`LRUCache` says what the code does, so that the refinement follows the counters too; what
`cache.hpp` promises of them is more: `ClearResetsStats` states it of clear, and a violation run
shows that the code breaks it.

**WebRtcServer.** `svc` is the place of the server thread: the test of the loop,
inside `lws_service`, or inside a callback whose connection and session are in `frame`.
`ctl` is the place of the thread in stop(). A critical section that calls nothing is
one action enabled when the mutex is free. handle_ping and handle_handshake call
send_control_response inside their critical section, so `HandleLocked` leaves the mutex
taken and `SendControlResponse`, which needs it free, is the second half. A start
whose context cannot be created changes nothing and has no action; one whose
thread cannot be created is `StartWithoutThread`. libwebsockets is
external: it accepts (`Accept`), delivers (`Receive`), notices a lost peer (`Hangup`)
and closes what is open when the context is destroyed (`DestroyConnection`, on the
stopping thread). Addresses of connections are used again. Session ids are taken to be
distinct: create_session draws 128 bits from a generator with a 32-bit seed
(`webrtc_server.cpp:115`), and what two equal ids would do is listed as a hazard only.

**VdsReader.** `at[t]` is the phase of initialize in which thread t is, "failed" for
its catch block, or "wait" for the blocking `WaitForCompletion`. Every phase has both
outcomes the code tests for. `Shutdown` from "failed" is the call in the catch block,
which needs the mutex that its caller holds. The engine fills the buffer of the request
in progress at any time before it answers, or leaves garbage in it. Each initialize
opens one of the files of `Layout`; a layout gives the sizes of the axes it has.
`TileSource` is the reader as a caller sees it. It is open when `initialized`, with the
`layout` loaded; it is asking what a waiting thread requested; `returned` is what it answered.
Opening is one step there and the last round of `SetupBuffer` here; closing is `Shutdown` of
a reader that was initialized. Engine, buffers, mutex and failed starts are stutters.

**TileGeometry.** A request is a record of 32-bit numbers, metadata a record of sizes.
`ExtractFromLayout` is a set, because a member of an axis that the layout lacks is
never written and holds whatever its memory held (`Leftover`). `Start` and `End` are the
voxels of the engine's request in level coordinates. Only the offset along the
plane's normal, the slice, is not divided by the factor: the code does not scale it
(`vds_reader.cpp:247`), and `Start` says so. `Bit[n]` is `1 << n`; it, `Halvings` and the other
loops are recursive functions, so that the theorems can speak of them.

**TilePipeline.** *No code composes these parts yet*: `TileData::compress` returns
uncompressed data "for now" (`tile_message.cpp:137`), and
the tests exercise one part at a time. The module joins them the only way their interfaces fit:
the label is `type()`, the receiver makes a compressor from the label and decompresses
into `expected_data_size()` bytes, then asks `is_valid`. A buffer is a record of what its
bytes are: which codec wrote them, for which tile, from how many bytes and to how many.
`Compress` and `Decompress` are the work, in which the library may fail; `Count` is the
section of `stats_mutex_` that follows a success. The libraries are external:
`Compressions` gives any of the sizes in `Packed` within `CompressBound`, which is that of
`LZ4_compressBound` (n + n/255 + 16) or of `ZSTD_compressBound` (n + n/256 and up to 64 more);
`Decompressions` reads back what the same codec wrote, and makes anything, or nothing, of what it
did not: no byte, just as many as there is room for, or a size in `Packed`. Data of 4 GiB and more,
whose size `compressor.cpp:20` cuts to an int, are not modelled. `wire` is a set that messages may stay in after they were received, so they
are repeated and reordered; `Receive` hands over any of the lengths at which deserialize
decides. A control message may lack a key or have one with a value of the wrong type.
The sizes compared by a codec stand for bytes; a tile is its own identity.

**Config.** `Read` and `Written` are the tables that from_json and to_json spell out, with
the C++ type that each `get` asks for. `Gets` and `Get` are the library's conversions, which are
in the repository (`third_party/nlohmann/json.hpp`). Every integer, an int too, is cut to its width
without a word: `get<uint16_t>` of 70000 is 4464, `get<int>` of 2^31 negative. An integer is
got of a boolean too, except the `size_t` of `cache.size_mb`, which is the library's own unsigned type
and has an overload that throws (`json.hpp:3508`). Numbers are whole: a fraction is taken as its
whole part, and a float beyond the type, whose cast C++ leaves undefined, is not modelled.

**Server.** `main` begins with the configuration (`at = "load"`): none named, a file that
cannot be opened or parsed, or a document of `Document`. `stack[t]` holds the stop() frames of thread t, innermost first; the code
below them is suspended, as under a signal handler. Each stop() moves through the
components' own stop functions; tests of a flag and the assignment of it are separate
steps, because another frame can come between them. A thread that joins itself gets a
`system_error` out of a signal handler, which ends the process: "aborted". So does
~WebRtcServer when nobody has joined its thread; `AbortedByOwnJoin` says that this happens only
beside such a handler. `DestroyMembers` leaves out the stop() of a web server that still
runs; that there is none is the theorem `AlwaysStoppedBeforeDestructors`. An
initialize that fails is "stuck", after what module VdsReader shows.

The models meet in `Server`: what VdsReader and WebRtcServer show about their start
and stop is what its steps `StartVdsReader`, `WebFlag` ... `SessionsUnlock` and `VdsLock` ...
`VdsUnlock` assume. Of the callbacks only what they do to `sessions_mutex_` is there. One
that opens, looks up or removes a session holds it for a while (`CallbackLocks`,
`CallbackUnlocks`; `sessions_mutex` is then "callback"). A ping or a handshake_response is a "handler",
which keeps it for ever, as `sessions_deadlock` shows: `ServerLoopEnds` cannot follow, and a stop()
waits at its join. The destruction of the context calls back on the stopping thread
and needs the mutex, and so does the section of `WebRtcServer::stop` that clears the sessions
(`SessionsLock`, `SessionsUnlock`). The lock inside the logger is left out.

## 3. Runs

| Run | Question | States |
|---|---|---|
| `tile_cache` | do all sequences of operations keep the invariants, end their loops, and refine `LRUCache`? | 191,200 |
| `tile_cache_limit` | is the byte limit respected outside put, as `cache.hpp:129` says? No | violation |
| `tile_cache_clear` | does clear reset the statistics, as `cache.hpp:133` says? No | violation |
| `sessions` | do sessions, connections, callbacks and a stop stay consistent, with every kind of message? Do callbacks and stop() finish unless a handler waits for itself? | 2,940 |
| `sessions_deadlock` | does every callback return, a ping's and a handshake_response's too? No | violation |
| `vds_reader` | starts, stops and reads of two threads on three files: who sees what, and does the mutex come back? | 260,363 |
| `vds_bounds` | does is_valid_tile_request check spatial bounds, as its comment says? No | violation |
| `vds_startup` | does initialize return or throw when it fails? No | violation |
| `vds_buffers` | is each buffer freed as it was allocated? No | violation |
| `server` | SIGINT and SIGTERM at any two moments on any thread, after any document, beside callbacks that return and one that does not | 104,048 |
| `server_lost_signal` | does every signal stop the server? No | violation |
| `tile_pipeline` | is what a receiver accepts what was sent, whatever fails? Are the totals those of counted calls? | 1,281,650 |

**What the violations show.**

1. *A put over a cached key can exceed the byte limit*, until the next put of a new
   key: the early return at `cache.cpp:204` precedes the loop.
2. *A ping or a handshake_response deadlocks the server thread* with `sessions_mutex_`
   held (`webrtc_server.cpp:253, 269`). No other client is served, every
   send_tile_data blocks, and stop() never returns. As `datachannel_ready` is set only
   inside this critical section, send_tile_data never finds a ready session and no tile is
   ever sent. Both are theorems: `DeadlockIsForever`, `NoTileIsEverSent`.
3. *A failed initialize deadlocks* (`vds_reader.cpp:46`): a missing VDS file hangs the
   process where `main.cpp:74` would report it. Nothing ends the wait (`FailedIsForever`).
4. *A buffer that fell back to malloc is given to `cudaFreeHost`*, and after
   `set_cuda_enabled(false)` a pinned one to `free`. Only a build with CUDA does this
   (`NoCudaNoMismatch`).
5. *A signal during startup is lost*: the handler is installed, `running_` is not set.
6. *"Check spatial bounds" compares x with the inlines and y with the crosslines on every
   plane* (`vds_reader.cpp:345`), which is right for time slices only. On the vertical
   planes requests inside the volume are refused and others begin outside it.
7. *clear() keeps the statistics* (`cache.cpp:242`), against the header and against the comment
   of the test (`tests/test_tile_cache.cpp:106`), which then looks only at entries and bytes.

Differences between text and code that are not runs of their own:

* An explicit evict counts as an eviction (`cache.cpp:239`), while `cache.hpp:145` counts the
  tiles removed due to limits. `LRUCache!Evict` counts as the code does. Prefetch logic that evicts
  would make a cache look too small.
* A second signal during shutdown may nest a stop() over a frame that holds a mutex,
  which is why `ShutdownFinishes` speaks of one signal. `OnlyNestedStopsWait` says that
  nothing else makes a stop() wait for `cache_mutex_` or `access_mutex_`, however many signals there
  are: two stop() on two threads do not meet, since one of them is held up by the join. It says too
  that no stop() ever waits for `sessions_mutex_`, nested or not, and even if a stuck handler keeps
  it: then the join, which comes first, is never over.
* One ping makes the server impossible to stop: `ShutdownFinishes` and `SignalStops` except a
  server whose WebSocket thread is stuck (`sessions_mutex = "handler"`), which is the finding of
  `sessions_deadlock`.
* A second stop(), on either thread, that begins after a first has cleared `running_` of the web
  server skips the join (`webrtc_server.cpp:60`) and shuts the cache and the reader down
  (`server.cpp:69-70`) while the WebSocket thread is still running. Nothing that thread does
  uses either today.
* `compressor.hpp:35` and `:44` promise an empty buffer after a failure. The code
  returns its input. `AcceptedIsSent` shows how far that is harmless: a receiver is never
  given samples of the wrong tile or a part of them as a valid tile, except where a
  decoder makes the right number of bytes out of bytes it did not write -- which the label
  of `TileData::compress` invites.
* `compressor.hpp:50` says "without actually compressing": estimate_ratio compresses a
  sample, and counts it. `Compress(w, "estimate", ...)` is therefore in `RatioOfCountedCalls`.
* `src/README.md` shows a u32 `uncompressedBytes` in the tile header, which
  `tile_message.hpp` lacks, flags such as `--vds=`, where `main.cpp:49` takes the path of a
  configuration file, and `"vx":+1`, which is not JSON. Its ping has the key `t`, as
  `ControlMessage` has; `WebRtcServer` looks for `type`.
* The index of a slice is not divided by the downsample factor although x and y are
  (`vds_reader.cpp:247`), and a file of 2112 lines has a level at which a tile of the smallest
  optimal size is empty: `OptimalTileNotEmpty` stops at 2111.

**Bounds, and why they are enough.**

* `MCTileCache`: `MaxEntries` 2, `MaxBytes` 3, payloads of 1, 2 and 4 bytes, three
  keys, three nodes. Both limits bind separately and together: two small tiles hit the
  entry limit, two medium ones the byte limit, an oversize one empties the list. With
  one key more than entries every put can meet a full cache; a fourth node would
  never be used. `CounterMod` 2 makes the counters wrap, `MaxNow` 1 lets the clock
  stand or move; a larger clock adds only longer runs of the same order relation.
* `MCWebRtcServer`: two addresses (another connection while one is accepted or closed),
  four ids (each address is used twice), so that a stop and a restart can fall
  anywhere. `SessionId` bounds the connections of a run; when it is used up no more
  are accepted.
* `MCVdsReader`: two threads, two buffers (the code's MAX_REQUESTS_IN_FLIGHT), three
  reads, so that a buffer is used again. `MaxReads` bounds `current_buffer_index_`. Three
  files: one with many inlines, one with many crosslines, one with no time axis, so that a
  restart changes every size and the number of levels. Six requests: two
  neighbours with an odd offset and extent, one past the time axis, one for a slice and a level
  that one file has, one too large for a buffer, one for a plane that does not exist. `Word`
  is 2^30 because TLC's integers have 32 bits; no product of the requests reaches
  either. `MaxReads` 3 with three files lets a read of each kind follow a restart.
* `MCTilePipeline`: two threads (interchangeable, hence the symmetry), one message in flight
  and `MaxCalls` 1: a further call may begin only when no count is above it or after a
  reset, so two calls overlap, a reset falls between work and count, and a tile
  goes through compress, send, receive and decompress with a reset on the way. `Word` 256 makes
  `payload_bytes` wrap; the three tiles are one that is well formed, one whose data do
  not fit its dimensions but do when compressed, and one that wraps. The sizes of
  `Packed` are one shorter than the data and the most that LZ4 makes of each tile, 20 bytes of 4 and
  277 of 260. Repetition needs no second message on the wire, as a received one stays.
* `MCServer`: each of two signals once. Two frames on one thread, or one on each,
  already show every pair of steps. 43 documents: all keys, each of the 17 missing, each of the
  wrong type, each of the seven numbers a boolean, and numbers below 0. 16-bit numbers have their
  width and an int has 17 bits, so that 70000 is cut in both, and -1 in every unsigned type; the
  theorems are for any widths. `server_lost_signal` needs one signal and one document.

Deadlock detection is on for `tile_cache`, `tile_pipeline` and `vds_reader`
(where `DisableCuda`, which needs no lock, is always possible). It is off where the program
really stops: in `sessions` at the second lock of the mutex (that nothing else stops it is `OtherCallbacksReturn`
and `StopCompletes`), in `server` when the
process has ended or is stuck.

**Fairness.**

* TileCache: weak fairness of the loop rounds and of the return. The thread holds the
  only lock it needs. Callers are free to call nothing.
* WebRtcServer: weak fairness of every step of a thread that has begun a callback or a
  stop(), and strong fairness of the return of `lws_service`, which handles the events
  one poll() reported and then returns even though new ones keep arriving. Nothing is
  assumed of clients, of start() or of the decision to stop.
* VdsReader: weak fairness of the phases of initialize, of the shutdown in its catch
  block and of the engine's answer. No fairness of callers.
* Server: weak fairness of the main thread and the frames of stop(); of the WebSocket thread, weak
  fairness of a callback's unlock, and strong fairness of the loop's end, as in WebRtcServer: one
  `lws_service` returns to the test of `running_` although callbacks keep coming, unless
  one of them is stuck, when the step is not enabled at all. No fairness of signals or of messages.
* TilePipeline has none: nothing in the code repeats a message or waits for one, so
  all that can be said is safety.

## 4. Proofs

Each proof module has an inductive invariant `IInv`, one lemma per action (or group of
actions that touch the same variables), and theorems of the form `Spec => []P`. TLC has
checked each `IInv` as an invariant of the small instance. Every invariant that a passing
run checks is a theorem. The only assumptions are the named ones on the constants
(`CacheAssumption`, `MarkerAssumption`, `SessionAssumption`, `ReaderAssumption`,
`GeometryAssumption`, `TileAssumption`, `CompressorAssumption`, `BadAssumption`,
`ConfigAssumption`, `DocumentAssumption`); TLC evaluates them too. They say that limits and
sizes are numbers, that marker values are not data, that the integer types are wide enough for the
initializers, and what of a JSON value can be had as a number. Two exclude inputs that the code does not
check for. `TileAssumption` wants tiles with data, and at most 2^31 - 1 samples: beyond that
`tile_w * tile_h` overflows an int (`tile_message.cpp:129`), which is undefined.
`CompressorAssumption` wants `size \div 255 + 64 < Word`, that a compression adds less than
payload_bytes wraps at; with the code's 32 bits that is any tile below 2^40 bytes.

The induction theorems of the library take an operator as a parameter, which the provers
cannot instantiate. Where a proof needs induction it goes through a least counterexample
instead (`LeastNat`, `AllNaturals` in `ListLemmas`). That a recursive function exists and
satisfies its equation is proved once, for functions that call themselves on one smaller
number (`DescentExists`), and used for `Bit` and `Halvings`.

* **TileCacheProofs** (any keys, payloads, nodes, limits): `TypeCorrect`,
  `MapAlwaysMatchesList`, `AccountingNeverDrifts`, `EntriesNeverExceedLimit`,
  `NewestAlwaysSurvives`, `ListIsInLruOrder`, `LoopAlwaysAdvances`. The entry limit is a
  theorem only: in the run `RefinesLRU` already shows it. The three parts of `IInv` need one
  another: that the byte total stays a natural number needs the sum over the list, the
  sum needs that a node is in the list once, and that needs the map. `ListLemmas` has
  what erasing, prepending and dropping an element do to injectivity, to the
  set of elements and to the running sums. `LoopAlwaysAdvances` is the part of `PutTerminates`
  that needs no fairness: the loop never meets an empty list while a limit is exceeded, and
  inside put the list only gets shorter.
* **TileCacheRefinement** (any keys, payloads, nodes, limits, and modulus of the
  counters): `LoopAlwaysKeepsLongestPrefix`, `ImplementsLRU`. The abstract cache sees
  what will be left when the put in progress returns (`SettledLen`, `SettledOrder`,
  `SettledStore`): the longest prefix of the list that fits. A round of the loop runs
  only while the whole list does not fit, so it removes a node beyond that prefix and
  changes nothing the abstract cache sees; the return is a stutter because by then
  everything fits. Outside put everything is settled (`Outside`), although an update
  may have left the list too large. Each operation then has a lemma that maps it to the step of
  `LRUCache` with its arguments; `PutInsertImplements` is the one that evicts, and the abstract
  eviction counter, which is ahead of the code's by what the loop still has to do, is
  followed through the modulus by `Remainder` and `OneMoreEvicted`.
* **WebRtcServerProofs** (any addresses, ids and messages): `TypeCorrect`,
  `SessionsAlwaysMatch`, `CallbackSessionAlwaysAlive`, `ContextAlwaysOutlives`,
  `StopAlwaysClean`. `Phases` relates the stopping thread to the server thread (no
  callback runs once the context is being destroyed; no connection is open without a
  context); without it the table properties are not inductive, because
  `DestroyConnection` and `ClearSessions` write the tables the callbacks read.
  `OnlyUsedIds` says that a fresh id is in no table. Two theorems say what the deadlock costs:
  once the server thread holds the mutex, no step changes mutex, tables, callbacks or context
  (`DeadlockIsForever`), and `last_send` keeps its first value (`NoTileIsEverSent`). Both rest on
  `HeldToRespond`: a session is ready only while the mutex is held, when no sender can look.
* **VdsReaderProofs** (any threads, requests, number and size of buffers):
  `TypeCorrect`, `AlwaysAllOrNothing`, `ReadAlwaysKeepsBuffer`,
  `TileAlwaysAnswersRequest`, `ReadAlwaysOfLoadedFile`, `ReadAlwaysWithinLevel`,
  `NeighboursAlwaysMeet`. `Locking` says that whoever is inside a call, and nobody else, holds the
  mutex, so all others are idle, and an idle thread has given it back (`IdleHoldsNoMutex`, the part of
  `MutexComesBack` that needs no fairness); `StartedSoFar` what exists at each phase;
  `ReadInFlight` that the issued request fits its buffer and was accepted by the metadata of the file
  that is open. The last two of these then are about the floor of a sum: for any factor
  f > 0, a \div f + b \div f is (a + b) \div f or one less. Three more are about the levels:
  `LevelsAlwaysReachMinimum`, `OptimalTileNeverEmpty`, and `LevelAlwaysFitsShift` (no level
  above 27 is offered for sizes of 32 bits, so the `int` that is shifted does not overflow).
  `ImplementsTileSource` is the refinement: `Locking` makes the thread that opens, asks or
  closes the only one inside, so the others are quiet; `ReadOfLoadedFile` gives the abstract
  guard `HasSlice`; `TileAnswersRequest` makes the answer the one that was asked for.
  `FailedIsForever` follows from `Locking` alone. `NoCudaNoMismatch` has an invariant of its own:
  without CUDA no buffer is pinned.
* **TileGeometryProofs** (all numbers): floors of sums for `ReadWithinLevel` and
  `NeighboursMeet`; powers of two (`BitSum`, `BitMonotone`); `LevelsOfSize`, which says that the
  loop counts as many halvings as the shift needs, because halving k times is
  dividing by 2^k (`HalvedThenShifted`); `LevelsBound`, that n < 33 * 2^k has at most k levels;
  `OptimalSizeBounds`, that the optimal size is between 64 and 1024.
* **TilePipelineProofs** (any tiles, threads, sizes and limits, and any `Word` that
  `CompressorAssumption` allows):
  `TypeCorrect`, `AcceptedAlwaysIsSent`, `OnlyEverWholeMessages`, `RatioAlwaysOfCountedCalls`.
  Each message in flight is one that some sender makes (`Sent`), each call holds what its
  compressor can make of its input (`CallOK`). The hard case is a wrapped
  `payload_bytes`: the prefix that deserialize keeps is shorter by at least `Word` (`Wrapped`), and a
  compression is longer than its tile by less (`LessThanWordLonger`). The totals need
  that the bounds of single calls add up to the bound of all (`BoundsAddUp`): a floor of a sum again.
  `ControlAlwaysUnderstood` (any key lost, any key garbled): for each type of message the table of
  to_json and that of from_json are inverse to each other, key by key, and the defaults
  agree (`Paired`, one lemma per type); what is on the wire is always such a text (`Garbles`).
* **ServerProofs** (any signals, so any number of handlers nested on the two threads, any
  documents): `TypeCorrect`, `RunningAlwaysMeansComplete`, `ContextAlwaysOutlivesThread`,
  `AlwaysReleasedOnExit`, `AlwaysWholeConfig`, `AlwaysReloadsAsSaved`, `OnlyOwnJoinAborts`,
  `AlwaysStoppedBeforeDestructors`, `AlwaysWaitsForNested`, `OneSignalNeverWaits`. The stop() frames of a stack are all suspended
  somewhere, so the invariant speaks of each of them: `Frames` says where a frame can be
  in the present state, `Nested` that an outer frame on its way to the join keeps the
  inner ones, which began later, out of the join and the destroy. `Context` says that a context
  without a thread has a frame about to take it down, and that a destroyed one is about to
  be forgotten. `Stages` says how far start() has come. `JoinInv`, inductive beside `IInv`,
  follows the join: a thread whose `running_` is cleared and that is not joined has a frame, on
  one of the two stacks, that is about to join it (`Unjoined`); if that is no frame of the main
  thread, it is one that joins the WebSocket thread to itself. `Held` says that a mutex is held by a
  thread with a frame that will give it back. If no thread has two frames, the frame that holds
  and the one that waits are on different threads, neither is at the join, and `Unjoined`
  is contradicted: that is `AlwaysWaitsForNested`. A stop() past the join finds `sessions_mutex_` free
  because the thread whose callbacks lock it is gone (`Serving`), and no second frame is there. `Signalled` counts frames against
  signals, so that one signal makes no nested frame. `Storable` says that
  every member, whichever document it came from and wherever from_json stopped, has a value
  that its own type keeps; `SavedKey` then reads back each key that to_json writes.

Note what `AlwaysAllOrNothing` means for a failed start: nobody gets the mutex
any more, so nobody sees the partial state; that is the deadlock of `vds_startup`.

Model-checked only is all liveness (`PutTerminates`, `OtherCallbacksReturn`, `StopCompletes`,
`MutexComesBack`, `ShutdownFinishes`), since ENABLED and fairness are beyond the prover; and, of
course, what the violation runs refute.

## 5. Not modelled

* `Adapt`, whose operations only log; build files, tests, deployment script; and third-party code
  but for the conversions of `Config`.
* `ControlResponse::to_json`: nothing reads what it writes.
* `Config`: the setters, which only tests call, and the file that save_to_file writes.
* `VdsMetadataExtractor`: channels, coordinates, names and units, `uncompressed_size`. No
  operation reads them.
* `VdsReader`: its statistics; `set_compression_ratio` and `set_cache_policy`, which only
  pass values to the engine.
* `Compressor`: the times; `get_stats`, which returns a copy made under the mutex.
* `TileCache`: `get_stats` and the hash function.
* `WebRtcServer`: the text of messages; `authenticated` and `last_ping`, which nothing reads.

Four hazards have no property: equal session ids (`webrtc_server.cpp:115`); the overflow of the
buffer index after 2^31 reads
(`vds_reader.cpp:207`); what the engine would write for a tile of 2^32 bytes (`:236`); the
engine settings made without the lock (`:383`).

## 6. Plan

Done: `LRUCache`, `TileCache`, `WebRtcServer`, `VdsReader`, `Server`; then `TileGeometry`,
the tile and control messages, `Compressor`, `TilePipeline` and `Config`; `TileSource`; the proofs of
all safety properties of the five state machines, that `TileCache` implements
`LRUCache`, and that `VdsReader` implements `TileSource`.

What is left waits for the code, or is small:

1. When a caller joins the compressor, the tile messages and send_tile_data,
   `TilePipeline` should take its composition from there, and the
   hazard at `webrtc_server.cpp:115` becomes reachable.
2. The engine settings of `VdsReader`, once another thread may set them beside a shutdown.
3. A weaker premise for `ShutdownFinishes`: that no stop() is ever nested, where it now says that
   no second signal comes.
