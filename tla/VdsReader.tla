------------------------------- MODULE VdsReader -------------------------------
(***************************************************************************)
(* remoteview::VdsReader (src/vds_access): the objects and the request     *)
(* buffers it holds between initialize() and shutdown(), and the reads     *)
(* that borrow a buffer.                                                   *)
(*                                                                         *)
(* Every thread may call every public operation.  initialize, shutdown and *)
(* read_tile hold access_mutex_ to their end; set_cuda_enabled takes no    *)
(* lock.  `at[t]` is where thread t is inside initialize or read_tile.     *)
(* The mutex is not recursive, and a failed initialize calls shutdown      *)
(* while it holds it.                                                      *)
(*                                                                         *)
(* The HueSpace engine and the CUDA allocator are external: a call that    *)
(* may fail has both outcomes, the file that is loaded may be another one  *)
(* at every start, and the engine fills the buffer of an issued request    *)
(* some time before it reports success.  What a request reads and needs is *)
(* in TileGeometry; the statistics, which nothing reads, are left out.     *)
(***************************************************************************)
EXTENDS TileGeometry

CONSTANTS Thread,
          Request,              \* tile requests
          Layout,               \* layouts of the files that may be loaded
          MaxRequestsInFlight,  \* number of request buffers
          CudaBuild,            \* CUDA_AVAILABLE is defined
          MaxReads,             \* bound on current_buffer_index_
          Free, NoRequest, Garbage, NoLayout, NoMetadata

Index   == 0..(MaxRequestsInFlight - 1)
Objects == {"proxy", "project", "file", "layout"}
Phase   == {"huespace", "memory", "load", "layout", "buffers"}
Samples == Request \cup {NoRequest, Garbage}

ASSUME ReaderAssumption ==
  /\ Request \subseteq TileRequest
  /\ \A l \in Layout : \E last \in 0..5 : l \in [0..last -> U32]
  /\ MaxRequestsInFlight \in Nat \ {0}
  /\ CudaBuild \in BOOLEAN
  /\ MaxReads \in Nat
  /\ Free \notin Thread
  /\ NoRequest \notin Request /\ Garbage \notin Request
  /\ NoLayout \notin Layout

VARIABLES access_mutex,          \* Free, or the thread that holds it
          at,                    \* Thread -> "idle" or a point in its call
          initialized,
          held,                  \* the engine objects the reader points to
          layout,                \* of the file that is loaded
          metadata,
          cuda_available,
          buffer,                \* Index -> "null", or how it was allocated
          size,                  \* Index -> buffer.size
          slot,                  \* i of the loop in setup_request_buffers
          current_buffer_index,
          request,               \* the request of the read in progress
          samples,               \* Index -> the request whose samples it holds
          completed,             \* the engine has filled the buffer of `request`
          returned,              \* Thread -> [asked, got] of its last tile
          mismatch               \* a buffer was freed as another kind

file   == <<layout, metadata>>
store  == <<initialized, held, file, buffer, size, slot>>
read   == <<current_buffer_index, request, samples, completed, returned>>
vars   == <<access_mutex, at, store, cuda_available, read, mismatch>>

NoTile == [asked |-> NoRequest, got |-> NoRequest]

Init == /\ access_mutex = Free
        /\ at = [t \in Thread |-> "idle"]
        /\ initialized = FALSE
        /\ held = {}
        /\ layout = NoLayout /\ metadata = NoMetadata
        /\ cuda_available = FALSE
        /\ buffer = [i \in Index |-> "null"]
        /\ size = [i \in Index |-> 0]
        /\ slot = 0
        /\ current_buffer_index = 0
        /\ request = NoRequest
        /\ samples = [i \in Index |-> NoRequest]
        /\ completed = FALSE
        /\ returned = [t \in Thread |-> NoTile]
        /\ mismatch = FALSE

\* Thread t goes on to the point p of its call.
Goto(t, p) == at' = [at EXCEPT ![t] = p]
-----------------------------------------------------------------------------
(* initialize() *)

Initialize(t) == /\ at[t] = "idle"
                 /\ access_mutex = Free
                 /\ ~ initialized
                 /\ access_mutex' = t
                 /\ Goto(t, "huespace")
                 /\ UNCHANGED <<store, cuda_available, read, mismatch>>

\* Either factory may return null.
InitHuespace(t) ==
  /\ at[t] = "huespace"
  /\ \E made \in SUBSET {"proxy", "project"} :
       /\ held' = made
       /\ Goto(t, IF made = {"proxy", "project"} THEN "memory" ELSE "failed")
  /\ UNCHANGED <<access_mutex, initialized, file, buffer, size, slot, cuda_available, read,
                 mismatch>>

ConfigureMemory(t) == /\ at[t] = "memory"
                      /\ cuda_available' \in BOOLEAN
                      /\ Goto(t, "load")
                      /\ UNCHANGED <<access_mutex, store, read, mismatch>>

\* Mutant: the null check after RestoreVDSFromFileName is gone.
LoadUnchecked(t) ==
  /\ at[t] = "load"
  /\ \E found \in BOOLEAN : held' = IF found THEN held \cup {"file"} ELSE held
  /\ Goto(t, "layout")
  /\ UNCHANGED <<access_mutex, initialized, file, buffer, size, slot, cuda_available, read,
                 mismatch>>

LoadVdsFile(t) ==
  /\ at[t] = "load"
  /\ \E found \in BOOLEAN :
       /\ held' = IF found THEN held \cup {"file"} ELSE held
       /\ Goto(t, IF found THEN "layout" ELSE "failed")
  /\ UNCHANGED <<access_mutex, initialized, file, buffer, size, slot, cuda_available, read,
                 mismatch>>

\* Mutant: metadata that are there already are kept.
ExtractLayoutOnce(t) ==
  /\ at[t] = "layout"
  /\ \E l \in Layout :
       /\ layout' = l
       /\ held' = held \cup {"layout"}
       /\ metadata' \in IF metadata = NoMetadata THEN ExtractFromLayout(l) ELSE {metadata}
  /\ Goto(t, "buffers")
  /\ slot' = 0
  /\ UNCHANGED <<access_mutex, initialized, buffer, size, cuda_available, read, mismatch>>

\* The layout may be missing, or reading its metadata may throw.
ExtractLayout(t) ==
  /\ at[t] = "layout"
  /\ \/ /\ \/ UNCHANGED <<held, layout>>
           \/ held' = held \cup {"layout"} /\ layout' \in Layout
        /\ Goto(t, "failed")
        /\ UNCHANGED <<metadata, slot>>
     \/ \E l \in Layout :
          /\ held' = held \cup {"layout"}
          /\ layout' = l
          /\ metadata' \in ExtractFromLayout(l)
          /\ Goto(t, "buffers")
          /\ slot' = 0
  /\ UNCHANGED <<access_mutex, initialized, buffer, size, cuda_available, read, mismatch>>

\* cudaHostAlloc falls back to malloc, and malloc may fail.
Allocated == {"malloc", "null"} \cup IF CudaBuild /\ cuda_available THEN {"pinned"} ELSE {}

\* Mutant: the loop runs to i <= MAX_REQUESTS_IN_FLIGHT.
SetupBufferOneMore(t) ==
  /\ at[t] = "buffers"
  /\ \E kind \in Allocated : buffer' = [i \in Index \cup {slot} |-> IF i = slot THEN kind ELSE buffer[i]]
  /\ size' = [size EXCEPT ![slot] = BufferSize]
  /\ slot' = slot + 1
  /\ IF slot < MaxRequestsInFlight
     THEN UNCHANGED <<at, access_mutex, initialized>>
     ELSE Goto(t, "idle") /\ access_mutex' = Free /\ initialized' = TRUE
  /\ UNCHANGED <<held, file, cuda_available, read, mismatch>>

\* One round of setup_request_buffers; after the last one initialize returns.
SetupBuffer(t) ==
  /\ at[t] = "buffers"
  /\ \E kind \in Allocated : buffer' = [buffer EXCEPT ![slot] = kind]
  /\ size' = [size EXCEPT ![slot] = BufferSize]
  /\ slot' = slot + 1
  /\ CASE buffer'[slot] = "null" ->
            Goto(t, "failed") /\ UNCHANGED <<access_mutex, initialized>>
       [] buffer'[slot] # "null" /\ slot + 1 < MaxRequestsInFlight ->
            UNCHANGED <<at, access_mutex, initialized>>
       [] OTHER ->
            Goto(t, "idle") /\ access_mutex' = Free /\ initialized' = TRUE
  /\ UNCHANGED <<held, file, cuda_available, read, mismatch>>
-----------------------------------------------------------------------------
(* shutdown() and set_cuda_enabled() *)

\* cleanup_buffers asks cuda_available_ how to free, not how it allocated.
FreedAs == IF CudaBuild /\ cuda_available THEN "pinned" ELSE "malloc"

\* Mutant: shutdown does not lock.
ShutdownUnlocked(t) ==
  /\ at[t] \in {"idle", "failed"}
  /\ Goto(t, "idle")
  /\ initialized
  /\ mismatch' = (mismatch \/ \E i \in Index : buffer[i] \notin {"null", FreedAs})
  /\ buffer' = [i \in Index |-> "null"] /\ size' = [i \in Index |-> 0]
  /\ held' = {} /\ layout' = NoLayout /\ initialized' = FALSE
  /\ UNCHANGED <<access_mutex, metadata, slot, cuda_available, read>>

\* The catch block of initialize calls it too, with the mutex already held.
Shutdown(t) ==
  /\ at[t] \in {"idle", "failed"}
  /\ access_mutex = Free
  /\ Goto(t, "idle")
  /\ IF initialized
     THEN /\ mismatch' = (mismatch \/ \E i \in Index : buffer[i] \notin {"null", FreedAs})
          /\ buffer' = [i \in Index |-> "null"]
          /\ size' = [i \in Index |-> 0]
          /\ held' = {}
          /\ layout' = NoLayout
          /\ initialized' = FALSE
     ELSE UNCHANGED <<mismatch, buffer, size, held, layout, initialized>>
  /\ UNCHANGED <<access_mutex, metadata, slot, cuda_available, read>>

\* set_cuda_enabled(false), by a thread that is in no other call.
DisableCuda(t) == /\ at[t] = "idle"
                  /\ cuda_available' = FALSE
                  /\ UNCHANGED <<access_mutex, at, store, read, mismatch>>
-----------------------------------------------------------------------------
(* read_tile() *)

Turn == current_buffer_index % MaxRequestsInFlight

\* The buffer of the read in progress: the index has been advanced already.
Borrowed == (current_buffer_index - 1) % MaxRequestsInFlight

\* A tile too large for its buffer costs a turn, too, and throws.
ReadRejected(t, r) ==
  /\ at[t] = "idle"
  /\ access_mutex = Free
  /\ initialized
  /\ IsValidTileRequest(metadata, r)
  /\ current_buffer_index < MaxReads
  /\ RequiredSize(r) > size[Turn]
  /\ current_buffer_index' = current_buffer_index + 1
  /\ UNCHANGED <<access_mutex, at, store, cuda_available, request, samples, completed,
                 returned, mismatch>>

\* RequestVolumeSubset, then WaitForCompletion with the mutex held.
ReadIssue(t, r) ==
  /\ at[t] = "idle"
  /\ access_mutex = Free
  /\ initialized
  /\ IsValidTileRequest(metadata, r)
  /\ current_buffer_index < MaxReads
  /\ RequiredSize(r) <= size[Turn]
  /\ current_buffer_index' = current_buffer_index + 1
  /\ request' = r
  /\ completed' = FALSE
  /\ access_mutex' = t
  /\ Goto(t, "wait")
  /\ UNCHANGED <<store, cuda_available, samples, returned, mismatch>>

\* The engine writes into the buffer: all samples, or what it had when it failed.
EngineFills == /\ request # NoRequest
               /\ ~ completed
               /\ \E s \in {request, Garbage} :
                    /\ samples' = [samples EXCEPT ![Borrowed] = s]
                    /\ completed' = (s = request)
               /\ UNCHANGED <<access_mutex, at, store, cuda_available, current_buffer_index,
                              request, returned, mismatch>>

\* Mutant: the result of WaitForCompletion is not looked at.
ReadReturnUnchecked(t) ==
  /\ at[t] = "wait"
  /\ returned' = [returned EXCEPT ![t] = [asked |-> request, got |-> samples[Borrowed]]]
  /\ request' = NoRequest /\ completed' = FALSE
  /\ access_mutex' = Free
  /\ Goto(t, "idle")
  /\ UNCHANGED <<store, cuda_available, current_buffer_index, samples, mismatch>>

ReadReturn(t) ==
  /\ at[t] = "wait"
  /\ completed
  /\ returned' = [returned EXCEPT ![t] = [asked |-> request, got |-> samples[Borrowed]]]
  /\ request' = NoRequest
  /\ completed' = FALSE
  /\ access_mutex' = Free
  /\ Goto(t, "idle")
  /\ UNCHANGED <<store, cuda_available, current_buffer_index, samples, mismatch>>

\* Mutant: the throw leaves the mutex locked.
ReadFailedKeepsMutex(t) ==
  /\ at[t] = "wait"
  /\ ~ completed
  /\ request' = NoRequest
  /\ Goto(t, "idle")
  /\ UNCHANGED <<access_mutex, store, cuda_available, current_buffer_index, samples, completed,
                 returned, mismatch>>

\* WaitForCompletion reports failure: read_tile throws.
ReadFailed(t) ==
  /\ at[t] = "wait"
  /\ ~ completed
  /\ request' = NoRequest
  /\ access_mutex' = Free
  /\ Goto(t, "idle")
  /\ UNCHANGED <<store, cuda_available, current_buffer_index, samples, completed, returned,
                 mismatch>>

InitStep(t) == \/ Initialize(t) \/ InitHuespace(t) \/ ConfigureMemory(t)
               \/ LoadVdsFile(t) \/ ExtractLayout(t) \/ SetupBuffer(t)

Next == \/ EngineFills
        \/ \E t \in Thread : \/ InitStep(t) \/ Shutdown(t) \/ DisableCuda(t)
                             \/ ReadReturn(t) \/ ReadFailed(t)
        \/ \E t \in Thread, r \in Request : ReadRejected(t, r) \/ ReadIssue(t, r)

\* A thread inside a call runs on, and the engine answers every request.
Fairness ==
  \A t \in Thread :
    /\ WF_vars(InitHuespace(t)) /\ WF_vars(ConfigureMemory(t)) /\ WF_vars(LoadVdsFile(t))
    /\ WF_vars(ExtractLayout(t)) /\ WF_vars(SetupBuffer(t))
    /\ WF_vars(at[t] = "failed" /\ Shutdown(t))
    /\ WF_vars(ReadReturn(t) \/ ReadFailed(t))

Spec == Init /\ [][Next]_vars /\ Fairness
-----------------------------------------------------------------------------
TypeOK == /\ access_mutex \in Thread \cup {Free}
          /\ at \in [Thread -> {"idle", "failed", "wait"} \cup Phase]
          /\ initialized \in BOOLEAN
          /\ held \in SUBSET Objects
          /\ layout \in Layout \cup {NoLayout}
          /\ metadata \in {NoMetadata} \cup UNION {ExtractFromLayout(l) : l \in Layout}
          /\ cuda_available \in BOOLEAN
          /\ buffer \in [Index -> {"null", "malloc", "pinned"}]
          /\ size \in [Index -> {0, BufferSize}]
          /\ slot \in 0..MaxRequestsInFlight
          /\ current_buffer_index \in 0..MaxReads
          /\ request \in Request \cup {NoRequest}
          /\ samples \in [Index -> Samples]
          /\ completed \in BOOLEAN
          /\ returned \in [Thread -> [asked : Samples, got : Samples]]
          /\ mismatch \in BOOLEAN

\* Whoever gets access_mutex_ finds the reader complete or empty: initialized_
\* with every engine object and every buffer, or not initialized and holding
\* nothing.  No call meets, and no later initialize leaks, a partial start.
AllOrNothing ==
  access_mutex = Free =>
    IF initialized
    THEN held = Objects /\ \A i \in Index : buffer[i] # "null" /\ size[i] = BufferSize
    ELSE held = {} /\ \A i \in Index : buffer[i] = "null" /\ size[i] = 0

\* While a read waits for the engine nothing frees its buffer or drops the
\* layout, and the tile fits: shutdown cannot overtake a read in flight.
ReadKeepsBuffer ==
  \A t \in Thread : at[t] = "wait" =>
    /\ access_mutex = t
    /\ held = Objects
    /\ buffer[Borrowed] # "null"
    /\ RequiredSize(request) <= size[Borrowed]

\* A tile holds the samples of the request it answers, never those of an earlier
\* read in the same buffer or of a request that failed.
TileAnswersRequest == \A t \in Thread : returned[t].got = returned[t].asked

\* A read in flight asks for a slice and a level of the file that is loaded now,
\* whatever file was loaded before it: no metadata outlive their file.
ReadOfLoadedFile ==
  \A t \in Thread : at[t] = "wait" /\ request.plane_index \in DOMAIN layout =>
    /\ request.slice_index < layout[request.plane_index]
    /\ {0, 1} \subseteq DOMAIN layout => request.downsample_level <= MaxLevel(layout)

\* A tile that lies inside the volume is read inside its level: the offset and the
\* extent, divided apart, do not pass the level size, divided as a whole.
ReadWithinLevel ==
  \A t \in Thread : at[t] = "wait" =>
    \A a \in {0, 1} \ {request.plane_index} :
      Asked(request, a).to <= metadata.size[a] =>
        End(request)[a] <= metadata.level_sizes[a][request.downsample_level]

\* Neighbouring tiles of a level share no sample, and leave out one at most; none
\* when the factor divides the first tile's offset and extent.
NeighboursMeet ==
  \A t \in Thread : at[t] = "wait" =>
    \A q \in Request, a \in Axis : NextAlong(request, q, a) =>
      /\ Start(q)[a] - End(request)[a] \in {0, 1}
      /\ /\ Asked(request, a).from % Factor(request) = 0
         /\ Asked(request, a).to % Factor(request) = 0
         => Start(q)[a] = End(request)[a]

\* A tile of the optimal size has a sample at every level that is offered, in a file
\* of up to 2111 lines.  (With 2112 the smallest tile is empty at the last level.)
OptimalTileNotEmpty ==
  initialized /\ metadata.size[0] <= 2111 /\ metadata.size[1] <= 2111 =>
    \A r \in Request : 0 < r.width /\ r.width <= 2147483647 =>
      LET tile == GetOptimalTileSize(r.width)
      IN  \A l \in GetAvailableDownsampleLevels(metadata) : tile \div Bit[l] >= 1

\* The levels are counted by halving again and again, their sizes are made by one
\* shift: the two agree that the larger extent comes down to the minimum at the
\* last level, not before, and never below half of it (vds_metadata.cpp:153-167).
LevelsReachMinimum ==
  initialized =>
    \A l \in GetAvailableDownsampleLevels(metadata) :
      LET extent == Larger(metadata.level_sizes[0][l], metadata.level_sizes[1][l])
      IN  IF l < metadata.max_downsample_level THEN extent > MIN_SIZE_AT_MAX_LEVEL
          ELSE /\ extent <= MIN_SIZE_AT_MAX_LEVEL
               /\ l > 0 => 2 * extent >= MIN_SIZE_AT_MAX_LEVEL

\* The reader as its callers see it: open between the end of initialize and shutdown.
Source == INSTANCE TileSource WITH
            Caller   <- Thread,
            Volume   <- Layout,
            NoVolume <- NoLayout,
            opened   <- IF initialized THEN layout ELSE NoLayout,
            asking   <- [t \in Thread |-> IF at[t] = "wait" THEN request ELSE NoRequest],
            answered <- returned

\* However initialize, shutdown and reads of several threads interleave and fail, a
\* caller cannot tell the reader from one that opens, answers and closes in single
\* steps: a start that fails is no start, no file is closed or exchanged under a
\* read, and no tile carries other samples than its own.
RefinesTileSource == Source!Spec

\* vds_reader.cpp:345, "Check spatial bounds": of the requests for an existing slice
\* and level those are accepted that begin inside the volume.
SpatialBounds ==
  initialized =>
    \A r \in Request :
      /\ r.plane_index \in Axis
      /\ r.slice_index < metadata.size[r.plane_index]
      /\ r.downsample_level <= metadata.max_downsample_level
      => (IsValidTileRequest(metadata, r) <=>
            /\ r.x_offset < metadata.size[XAxis(r)]
            /\ r.y_offset < metadata.size[YAxis(r)])

\* Whoever takes access_mutex_ gives it back and leaves its call, whether the read
\* returns or throws, the start succeeds or another caller waits; all but the thread
\* whose initialize failed, which waits in its catch block (vds_reader.cpp:46).
MutexComesBack ==
  \A t \in Thread :
    access_mutex = t ~> at[t] = "failed" \/ (at[t] = "idle" /\ access_mutex # t)

\* main.cpp:74 catches and logs startup errors: initialize returns or throws.
InitializeReturns == \A t \in Thread : at[t] \in Phase ~> at[t] = "idle"

\* A buffer is freed by the counterpart of what allocated it: free for one that
\* fell back to malloc, cudaFreeHost for pinned memory.
FreedAsAllocated == ~ mismatch
=============================================================================
