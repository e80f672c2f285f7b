---------------------------- MODULE VdsReaderProofs ----------------------------
(***************************************************************************)
(* Safety of VdsReader for any threads, requests and number of buffers.    *)
(* Inside the critical section of initialize the reader is neither empty   *)
(* nor complete; StartedSoFar says how much of it exists at each point.    *)
(***************************************************************************)
EXTENDS VdsReader, TileGeometryProofs

USE ReaderAssumption DEF file

\* access_mutex_ is held exactly by the thread inside initialize or read_tile.
Locking == /\ \A t \in Thread : at[t] # "idle" => access_mutex = t
           /\ access_mutex # Free => at[access_mutex] # "idle"
           /\ \A t \in Thread : at[t] = "wait" => initialized
           /\ \A t \in Thread : at[t] \notin {"idle", "wait"} => ~ initialized

Empty    == held = {} /\ \A i \in Index : buffer[i] = "null" /\ size[i] = 0
Complete == held = Objects /\ \A i \in Index : buffer[i] # "null" /\ size[i] = BufferSize

StartedSoFar ==
  /\ \A t \in Thread :
       /\ at[t] \in {"memory", "load"} => held = {"proxy", "project"}
       /\ at[t] = "layout" => held = {"proxy", "project", "file"}
       /\ at[t] = "buffers" =>
            /\ held = Objects
            /\ slot \in Index
            /\ \A i \in Index : i < slot => buffer[i] # "null" /\ size[i] = BufferSize
  /\ initialized => Complete
  /\ access_mutex = Free /\ ~ initialized => Empty

\* The request in progress fits the buffer it borrowed, whose samples are its
\* own once the engine has completed it.
ReadInFlight ==
  /\ request # NoRequest => current_buffer_index >= 1 /\ \E t \in Thread : at[t] = "wait"
  /\ \A t \in Thread : at[t] = "wait" =>
       request \in Request /\ RequiredSize(request) <= size[Borrowed]
  /\ completed => request # NoRequest /\ samples[Borrowed] = request

\* From the extraction on the metadata are those of the file that is loaded.
MetadataOfFile ==
  initialized \/ (\E t \in Thread : at[t] = "buffers") =>
    layout \in Layout /\ metadata \in ExtractFromLayout(layout)

\* The request in progress was accepted for these metadata.
AcceptedForFile == \A t \in Thread : at[t] = "wait" => IsValidTileRequest(metadata, request)

IInv == /\ TypeOK
        /\ Locking
        /\ StartedSoFar
        /\ MetadataOfFile
        /\ AcceptedForFile
        /\ ReadInFlight
        /\ TileAnswersRequest
-----------------------------------------------------------------------------
\* A turn names a buffer.
LEMMA TurnIsIndex ==
  ASSUME NEW n \in Nat
  PROVE  n % MaxRequestsInFlight \in Index
BY DEF Index

LEMMA InitEstablishes == Init => IInv
<1> SUFFICES ASSUME Init PROVE IInv
  OBVIOUS
<1> USE DEF Init
<1>1. /\ slot \in 0..MaxRequestsInFlight
      /\ current_buffer_index \in 0..MaxReads
  OBVIOUS
<1>2. /\ samples \in [Index -> Samples]
      /\ returned \in [Thread -> [asked : Samples, got : Samples]]
  BY DEF Samples, NoTile
<1>3. TypeOK
  BY <1>1, <1>2 DEF TypeOK
<1>4. Locking /\ StartedSoFar
  BY DEF Locking, StartedSoFar, Empty
<1>5. ReadInFlight
  BY DEF ReadInFlight
<1>6. TileAnswersRequest /\ MetadataOfFile /\ AcceptedForFile
  BY DEF TileAnswersRequest, NoTile, MetadataOfFile, AcceptedForFile
<1> QED BY <1>3, <1>4, <1>5, <1>6 DEF IInv

\* While t is in a call that holds the mutex every other thread is idle.
LEMMA OthersIdle ==
  ASSUME TypeOK, Locking, NEW t \in Thread, access_mutex = t \/ access_mutex = Free,
         NEW u \in Thread, u # t
  PROVE  at[u] = "idle"
BY DEF Locking

\* Goto moves one thread.
LEMMA GotoFacts ==
  ASSUME TypeOK, NEW t \in Thread, NEW p \in {"idle", "failed", "wait"} \cup Phase, Goto(t, p)
  PROVE  /\ at' \in [Thread -> {"idle", "failed", "wait"} \cup Phase]
         /\ at'[t] = p
         /\ \A u \in Thread : u # t => at'[u] = at[u]
BY DEF TypeOK, Goto

\* A step between two states in which no read waits keeps the reads as they are.
LEMMA NoReadInFlight ==
  ASSUME IInv, UNCHANGED read, \A t \in Thread : at[t] # "wait" /\ at'[t] # "wait"
  PROVE  ReadInFlight' /\ TileAnswersRequest' /\ AcceptedForFile'
<1>1. request = NoRequest /\ completed = FALSE
  BY DEF IInv, TypeOK, ReadInFlight
<1> QED BY <1>1 DEF IInv, ReadInFlight, TileAnswersRequest, AcceptedForFile, read
-----------------------------------------------------------------------------
\* A step of initialize before the buffers: it does not touch the reads.
LEMMA InitializeStep ==
  ASSUME IInv, NEW t \in Thread, Initialize(t)
  PROVE  IInv'
<1> USE DEF Initialize, store, read
<1>1. /\ at' \in [Thread -> {"idle", "failed", "wait"} \cup Phase]
      /\ at'[t] = "huespace"
      /\ \A u \in Thread : u # t => at'[u] = "idle"
  BY GotoFacts, OthersIdle DEF IInv, Phase
<1>2. TypeOK'
  BY <1>1 DEF IInv, TypeOK
<1>3. Locking'
  BY <1>1 DEF IInv, Locking
<1>4. StartedSoFar'
  BY <1>1 DEF IInv, StartedSoFar, Complete
<1>5. ReadInFlight' /\ TileAnswersRequest' /\ AcceptedForFile'
  BY <1>1, OthersIdle, NoReadInFlight DEF IInv
<1>6. MetadataOfFile'
  BY <1>1 DEF IInv, MetadataOfFile
<1> QED BY <1>2, <1>3, <1>4, <1>5, <1>6 DEF IInv

LEMMA EarlyPhases ==
  ASSUME IInv, NEW t \in Thread,
         InitHuespace(t) \/ ConfigureMemory(t) \/ LoadVdsFile(t) \/ ExtractLayout(t)
  PROVE  IInv'
<1>1. at[t] \in {"huespace", "memory", "load", "layout"}
  BY DEF InitHuespace, ConfigureMemory, LoadVdsFile, ExtractLayout
<1>2. access_mutex = t /\ ~ initialized /\ \A u \in Thread : u # t => at[u] = "idle"
  BY <1>1, OthersIdle DEF IInv, Locking
<1>3. /\ UNCHANGED <<access_mutex, initialized, buffer, size, read, mismatch>>
      /\ \E p \in {"memory", "load", "layout", "buffers", "failed"} : Goto(t, p)
  <2>1. CASE InitHuespace(t)
    BY <2>1 DEF InitHuespace
  <2>2. CASE ConfigureMemory(t)
    BY <2>2 DEF ConfigureMemory, store
  <2>3. CASE LoadVdsFile(t)
    BY <2>3 DEF LoadVdsFile
  <2>4. CASE ExtractLayout(t)
    BY <2>4 DEF ExtractLayout
  <2> QED BY <2>1, <2>2, <2>3, <2>4
<1>4. /\ at' \in [Thread -> {"idle", "failed", "wait"} \cup Phase]
      /\ at'[t] \in {"memory", "load", "layout", "buffers", "failed"}
      /\ \A u \in Thread : u # t => at'[u] = "idle"
  BY <1>2, <1>3, GotoFacts DEF IInv, Phase
<1>5. /\ held' \in SUBSET Objects
      /\ cuda_available' \in BOOLEAN
      /\ slot' \in 0..MaxRequestsInFlight
      /\ at'[t] \in {"memory", "load"} => held' = {"proxy", "project"}
      /\ at'[t] = "layout" => held' = {"proxy", "project", "file"}
      /\ at'[t] = "buffers" => held' = Objects /\ slot' = 0
      /\ layout' \in Layout \cup {NoLayout}
      /\ metadata' \in {NoMetadata} \cup UNION {ExtractFromLayout(l) : l \in Layout}
      /\ at'[t] = "buffers" => layout' \in Layout /\ metadata' \in ExtractFromLayout(layout')
  <2>1. CASE InitHuespace(t)
    BY <2>1, GotoFacts DEF IInv, TypeOK, InitHuespace, Objects, Phase
  <2>2. CASE ConfigureMemory(t)
    BY <2>2, GotoFacts DEF IInv, TypeOK, StartedSoFar, ConfigureMemory, store, Phase
  <2>3. CASE LoadVdsFile(t)
    BY <2>3, GotoFacts DEF IInv, TypeOK, StartedSoFar, LoadVdsFile, Objects, Phase
  <2>4. CASE ExtractLayout(t)
    BY <2>4, GotoFacts DEF IInv, TypeOK, StartedSoFar, ExtractLayout, Objects, Phase
  <2> QED BY <2>1, <2>2, <2>3, <2>4
<1>6. TypeOK'
  BY <1>3, <1>4, <1>5 DEF IInv, TypeOK, read
<1>7. Locking'
  BY <1>2, <1>3, <1>4 DEF Locking
<1>8. StartedSoFar'
  BY <1>2, <1>3, <1>4, <1>5 DEF StartedSoFar, Index
<1>9. ReadInFlight' /\ TileAnswersRequest' /\ AcceptedForFile'
  BY <1>1, <1>2, <1>3, <1>4, NoReadInFlight
<1>10. MetadataOfFile'
  BY <1>2, <1>3, <1>4, <1>5 DEF MetadataOfFile
<1> QED BY <1>6, <1>7, <1>8, <1>9, <1>10 DEF IInv

LEMMA SetupStep ==
  ASSUME IInv, NEW t \in Thread, SetupBuffer(t)
  PROVE  IInv'
<1>1. /\ at[t] = "buffers" /\ slot' = slot + 1
      /\ UNCHANGED <<held, file, cuda_available, read, mismatch>>
  BY DEF SetupBuffer
<1>2. /\ access_mutex = t /\ ~ initialized /\ held = Objects /\ slot \in Index
      /\ \A u \in Thread : u # t => at[u] = "idle"
  BY <1>1, OthersIdle DEF IInv, Locking, StartedSoFar
<1>3. PICK kind \in {"malloc", "null", "pinned"} :
        buffer' = [buffer EXCEPT ![slot] = kind] /\ size' = [size EXCEPT ![slot] = BufferSize]
  BY DEF SetupBuffer, Allocated
<1>4. /\ buffer' \in [Index -> {"null", "malloc", "pinned"}]
      /\ size' \in [Index -> {0, BufferSize}]
      /\ buffer'[slot] = kind /\ size'[slot] = BufferSize
      /\ \A i \in Index : i # slot => buffer'[i] = buffer[i] /\ size'[i] = size[i]
  BY <1>2, <1>3 DEF IInv, TypeOK
<1>5. slot \in Nat /\ slot < MaxRequestsInFlight /\ slot' \in 0..MaxRequestsInFlight
  BY <1>1, <1>2 DEF Index
<1>6. \A i \in Index : i < slot => buffer'[i] # "null" /\ size'[i] = BufferSize
  BY <1>1, <1>4, <1>5 DEF IInv, StartedSoFar, Index
<1>7. \/ Goto(t, "failed") /\ UNCHANGED <<access_mutex, initialized>>
      \/ /\ kind # "null" /\ slot + 1 < MaxRequestsInFlight
         /\ UNCHANGED <<at, access_mutex, initialized>>
      \/ /\ kind # "null" /\ ~ (slot + 1 < MaxRequestsInFlight)
         /\ Goto(t, "idle") /\ access_mutex' = Free /\ initialized' = TRUE
  BY <1>4 DEF SetupBuffer
<1>8. CASE Goto(t, "failed") /\ UNCHANGED <<access_mutex, initialized>>
  <2>1. /\ at' \in [Thread -> {"idle", "failed", "wait"} \cup Phase]
        /\ at'[t] = "failed"
        /\ \A u \in Thread : u # t => at'[u] = "idle"
    BY <1>2, <1>8, GotoFacts DEF IInv
  <2>2. TypeOK'
    BY <1>1, <1>4, <1>5, <1>8, <2>1 DEF IInv, TypeOK, read
  <2>3. Locking' /\ StartedSoFar' /\ MetadataOfFile'
    BY <1>2, <1>8, <2>1 DEF Locking, StartedSoFar, MetadataOfFile
  <2>4. ReadInFlight' /\ TileAnswersRequest' /\ AcceptedForFile'
    BY <1>1, <1>2, <2>1, NoReadInFlight
  <2> QED BY <2>2, <2>3, <2>4 DEF IInv
<1>9. CASE /\ kind # "null" /\ slot + 1 < MaxRequestsInFlight
           /\ UNCHANGED <<at, access_mutex, initialized>>
  <2>1. TypeOK'
    BY <1>1, <1>4, <1>5, <1>9 DEF IInv, TypeOK, read
  <2>2. Locking' /\ MetadataOfFile'
    BY <1>1, <1>9 DEF IInv, Locking, MetadataOfFile
  <2>3. slot' \in Index /\ \A i \in Index : i < slot' => i < slot \/ i = slot
    BY <1>1, <1>5, <1>9 DEF Index
  <2>4. \A i \in Index : i < slot' => buffer'[i] # "null" /\ size'[i] = BufferSize
    BY <1>4, <1>6, <1>9, <2>3
  <2>5. StartedSoFar'
    BY <1>1, <1>2, <1>9, <2>3, <2>4 DEF StartedSoFar
  <2>6. ReadInFlight' /\ TileAnswersRequest' /\ AcceptedForFile'
    BY <1>1, <1>2, <1>9, NoReadInFlight
  <2> QED BY <2>1, <2>2, <2>5, <2>6 DEF IInv
<1>10. CASE /\ kind # "null" /\ ~ (slot + 1 < MaxRequestsInFlight)
            /\ Goto(t, "idle") /\ access_mutex' = Free /\ initialized' = TRUE
  <2>1. /\ at' \in [Thread -> {"idle", "failed", "wait"} \cup Phase]
        /\ \A u \in Thread : at'[u] = "idle"
    BY <1>2, <1>10, GotoFacts DEF IInv
  <2>2. TypeOK'
    BY <1>1, <1>4, <1>5, <1>10, <2>1 DEF IInv, TypeOK, read
  <2>3. Locking' /\ MetadataOfFile'
    BY <1>1, <1>10, <2>1 DEF IInv, Locking, MetadataOfFile
  <2>4. \A i \in Index : i < slot \/ i = slot
    BY <1>5, <1>10 DEF Index
  <2>5. Complete'
    BY <1>1, <1>2, <1>4, <1>6, <1>10, <2>4 DEF Complete
  <2>6. StartedSoFar'
    BY <1>10, <2>1, <2>5 DEF StartedSoFar
  <2>7. ReadInFlight' /\ TileAnswersRequest' /\ AcceptedForFile'
    BY <1>1, <1>2, <2>1, NoReadInFlight
  <2> QED BY <2>2, <2>3, <2>6, <2>7 DEF IInv
<1> QED BY <1>7, <1>8, <1>9, <1>10
-----------------------------------------------------------------------------
LEMMA ShutdownStep ==
  ASSUME IInv, NEW t \in Thread, Shutdown(t)
  PROVE  IInv'
<1>1. /\ access_mutex = Free /\ Goto(t, "idle")
      /\ UNCHANGED <<access_mutex, metadata, slot, cuda_available, read>>
  BY DEF Shutdown
<1>2. /\ at' \in [Thread -> {"idle", "failed", "wait"} \cup Phase]
      /\ \A u \in Thread : at'[u] = "idle"
  BY <1>1, GotoFacts, OthersIdle DEF IInv
<1>3. /\ buffer' \in [Index -> {"null", "malloc", "pinned"}]
      /\ size' \in [Index -> {0, BufferSize}]
      /\ initialized' = FALSE
      /\ mismatch' \in BOOLEAN
      /\ layout' \in Layout \cup {NoLayout}
      /\ Empty'
  <2>1. CASE initialized
    BY <2>1 DEF Shutdown, IInv, TypeOK, Empty
  <2>2. CASE ~ initialized
    BY <1>1, <2>2 DEF Shutdown, IInv, TypeOK, StartedSoFar, Empty
  <2> QED BY <2>1, <2>2
<1>4. TypeOK'
  BY <1>1, <1>2, <1>3 DEF IInv, TypeOK, Empty, read
<1>5. Locking' /\ StartedSoFar' /\ MetadataOfFile'
  BY <1>1, <1>2, <1>3 DEF Locking, StartedSoFar, MetadataOfFile
<1>6. ReadInFlight' /\ TileAnswersRequest' /\ AcceptedForFile'
  <2>1. \A u \in Thread : at[u] # "wait"
    BY <1>1 DEF Shutdown, IInv, Locking
  <2> QED BY <1>1, <1>2, <2>1, NoReadInFlight
<1> QED BY <1>4, <1>5, <1>6 DEF IInv

LEMMA DisableStep ==
  ASSUME IInv, NEW t \in Thread, DisableCuda(t)
  PROVE  IInv'
<1> USE DEF DisableCuda, store, read
<1>1. TypeOK' /\ Locking'
  BY DEF IInv, TypeOK, Locking
<1>2. StartedSoFar' /\ MetadataOfFile'
  BY DEF IInv, StartedSoFar, Empty, Complete, MetadataOfFile
<1>3. ReadInFlight' /\ TileAnswersRequest' /\ AcceptedForFile'
  BY DEF IInv, ReadInFlight, TileAnswersRequest, AcceptedForFile, Borrowed
<1> QED BY <1>1, <1>2, <1>3 DEF IInv

LEMMA RejectStep ==
  ASSUME IInv, NEW t \in Thread, NEW r \in Request, ReadRejected(t, r)
  PROVE  IInv'
<1> USE DEF ReadRejected, store
<1>1. \A u \in Thread : at[u] = "idle"
  BY OthersIdle DEF IInv
<1>2. current_buffer_index' \in 0..MaxReads /\ current_buffer_index' >= 1
  BY DEF IInv, TypeOK
<1>3. TypeOK' /\ Locking' /\ TileAnswersRequest'
  BY <1>2 DEF IInv, TypeOK, Locking, TileAnswersRequest
<1>4. StartedSoFar' /\ MetadataOfFile'
  BY DEF IInv, StartedSoFar, Empty, Complete, MetadataOfFile
<1>5. ReadInFlight' /\ AcceptedForFile'
  BY <1>1, <1>2 DEF IInv, ReadInFlight, AcceptedForFile
<1> QED BY <1>3, <1>4, <1>5 DEF IInv

LEMMA IssueStep ==
  ASSUME IInv, NEW t \in Thread, NEW r \in Request, ReadIssue(t, r)
  PROVE  IInv'
<1> USE DEF ReadIssue, store
<1>1. /\ at' \in [Thread -> {"idle", "failed", "wait"} \cup Phase]
      /\ at'[t] = "wait"
      /\ \A u \in Thread : u # t => at'[u] = "idle"
  BY GotoFacts, OthersIdle DEF IInv
<1>2. /\ current_buffer_index \in Nat
      /\ current_buffer_index' \in 0..MaxReads
      /\ current_buffer_index' >= 1
      /\ current_buffer_index' - 1 = current_buffer_index
  BY DEF IInv, TypeOK
<1>3. TypeOK'
  BY <1>1, <1>2 DEF IInv, TypeOK
<1>4. Locking'
  BY <1>1 DEF IInv, Locking
<1>5. StartedSoFar' /\ MetadataOfFile'
  BY <1>1 DEF IInv, StartedSoFar, Complete, MetadataOfFile
<1>6. RequiredSize(r) <= size'[Borrowed']
  BY <1>2 DEF Borrowed, Turn
<1>7. ReadInFlight' /\ AcceptedForFile'
  BY <1>1, <1>2, <1>6 DEF ReadInFlight, AcceptedForFile
<1>8. TileAnswersRequest'
  BY DEF IInv, TileAnswersRequest
<1> QED BY <1>3, <1>4, <1>5, <1>7, <1>8 DEF IInv

LEMMA EngineStep ==
  ASSUME IInv, EngineFills
  PROVE  IInv'
<1> USE DEF EngineFills, store
<1>1. /\ request \in Request
      /\ current_buffer_index - 1 \in Nat
      /\ \E t \in Thread : at[t] = "wait"
  BY DEF IInv, TypeOK, ReadInFlight
<1>2. Borrowed \in Index
  BY <1>1, TurnIsIndex DEF Borrowed
<1>3. PICK s \in {request, Garbage} :
        samples' = [samples EXCEPT ![Borrowed] = s] /\ completed' = (s = request)
  OBVIOUS
<1>4. completed' \in BOOLEAN
  BY <1>3
<1>5. samples' \in [Index -> Samples]
  BY <1>1, <1>2, <1>3 DEF IInv, TypeOK, Samples
<1>6. completed' => samples'[Borrowed] = request
  BY <1>2, <1>3 DEF IInv, TypeOK
<1>7. TypeOK'
  BY <1>4, <1>5 DEF IInv, TypeOK
<1>8. Locking' /\ TileAnswersRequest'
  BY DEF IInv, Locking, TileAnswersRequest
<1>9. StartedSoFar' /\ MetadataOfFile' /\ AcceptedForFile'
  BY DEF IInv, StartedSoFar, Empty, Complete, MetadataOfFile, AcceptedForFile
<1>10. ReadInFlight'
  BY <1>6 DEF IInv, ReadInFlight, Borrowed
<1> QED BY <1>7, <1>8, <1>9, <1>10 DEF IInv

\* The read ends, with the tile or with an exception.
LEMMA EndOfRead ==
  ASSUME IInv, NEW t \in Thread, ReadReturn(t) \/ ReadFailed(t)
  PROVE  IInv'
<1>1. /\ at[t] = "wait" /\ access_mutex' = Free /\ Goto(t, "idle")
      /\ request' = NoRequest
      /\ UNCHANGED <<store, cuda_available, current_buffer_index, samples, mismatch>>
  BY DEF ReadReturn, ReadFailed
<1>2. /\ access_mutex = t /\ initialized
      /\ \A u \in Thread : u # t => at[u] = "idle"
  BY <1>1, OthersIdle DEF IInv, Locking
<1>3. /\ at' \in [Thread -> {"idle", "failed", "wait"} \cup Phase]
      /\ \A u \in Thread : at'[u] = "idle"
  BY <1>1, <1>2, GotoFacts DEF IInv
<1>4. completed' = FALSE
  BY DEF ReadReturn, ReadFailed, IInv, TypeOK
<1>5. returned' \in [Thread -> [asked : Samples, got : Samples]] /\ TileAnswersRequest'
  <2>1. CASE ReadReturn(t)
    <3>1. returned' = [returned EXCEPT ![t] = [asked |-> request, got |-> request]]
      BY <2>1 DEF ReadReturn, IInv, ReadInFlight
    <3>2. request \in Samples
      BY DEF IInv, TypeOK, Samples
    <3> QED BY <3>1, <3>2 DEF IInv, TypeOK, TileAnswersRequest
  <2>2. CASE ReadFailed(t)
    BY <2>2 DEF ReadFailed, IInv, TypeOK, TileAnswersRequest
  <2> QED BY <2>1, <2>2
<1>6. TypeOK'
  BY <1>1, <1>3, <1>4, <1>5 DEF IInv, TypeOK, store
<1>7. Locking'
  BY <1>1, <1>3 DEF Locking
<1>8. StartedSoFar' /\ MetadataOfFile'
  BY <1>1, <1>2, <1>3 DEF IInv, StartedSoFar, Complete, MetadataOfFile, store
<1>9. ReadInFlight' /\ AcceptedForFile'
  BY <1>1, <1>3, <1>4 DEF ReadInFlight, AcceptedForFile
<1> QED BY <1>5, <1>6, <1>7, <1>8, <1>9 DEF IInv

LEMMA StepPreserves == IInv /\ [Next]_vars => IInv'
<1> SUFFICES ASSUME IInv, [Next]_vars PROVE IInv'
  OBVIOUS
<1>1. CASE EngineFills
  BY <1>1, EngineStep
<1>2. ASSUME NEW t \in Thread,
             InitStep(t) \/ Shutdown(t) \/ DisableCuda(t) \/ ReadReturn(t) \/ ReadFailed(t)
      PROVE  IInv'
  BY <1>2, InitializeStep, EarlyPhases, SetupStep, ShutdownStep, DisableStep, EndOfRead
  DEF InitStep
<1>3. ASSUME NEW t \in Thread, NEW r \in Request, ReadRejected(t, r) \/ ReadIssue(t, r)
      PROVE  IInv'
  BY <1>3, RejectStep, IssueStep
<1>4. CASE UNCHANGED vars
  BY <1>4 DEF vars, store, read, IInv, TypeOK, Locking, StartedSoFar, Empty, Complete,
              MetadataOfFile, AcceptedForFile, ReadInFlight, Borrowed, TileAnswersRequest
<1> QED BY <1>1, <1>2, <1>3, <1>4 DEF Next
-----------------------------------------------------------------------------
LEMMA Inductive == Spec => []IInv
BY InitEstablishes, StepPreserves, PTL DEF Spec

\* Every variable keeps its type, for any number of threads and buffers.
THEOREM TypeCorrect == Spec => []TypeOK
<1>1. IInv => TypeOK
  BY DEF IInv
<1> QED BY <1>1, Inductive, PTL

\* Outside a critical section the reader is complete or empty, at whatever phase
\* initialize has failed: its catch block never gives the mutex back.
THEOREM AlwaysAllOrNothing == Spec => []AllOrNothing
<1>1. IInv => AllOrNothing
  BY DEF IInv, StartedSoFar, Complete, Empty, AllOrNothing
<1> QED BY <1>1, Inductive, PTL

\* A thread that has left its call, by a return or by an exception, has left the
\* mutex too: no path through initialize, shutdown or read_tile forgets it.
THEOREM IdleHoldsNoMutex ==
  Spec => [](\A t \in Thread : at[t] = "idle" => access_mutex # t)
<1>1. IInv => \A t \in Thread : at[t] = "idle" => access_mutex # t
  BY DEF IInv, Locking
<1> QED BY <1>1, Inductive, PTL

\* A shutdown on another thread never frees the buffer, or drops the layout,
\* of a read that waits for the engine.
THEOREM ReadAlwaysKeepsBuffer == Spec => []ReadKeepsBuffer
<1>1. ASSUME IInv, NEW t \in Thread, at[t] = "wait"
      PROVE  /\ access_mutex = t
             /\ held = Objects
             /\ buffer[Borrowed] # "null"
             /\ RequiredSize(request) <= size[Borrowed]
  <2>1. access_mutex = t /\ initialized /\ request # NoRequest
    BY <1>1 DEF IInv, Locking, ReadInFlight
  <2>2. current_buffer_index - 1 \in Nat
    BY <1>1, <2>1 DEF IInv, TypeOK, ReadInFlight
  <2>3. Borrowed \in Index
    BY <2>2, TurnIsIndex DEF Borrowed
  <2>4. held = Objects /\ buffer[Borrowed] # "null"
    BY <1>1, <2>1, <2>3 DEF IInv, StartedSoFar, Complete
  <2>5. RequiredSize(request) <= size[Borrowed]
    BY <1>1 DEF IInv, ReadInFlight
  <2> QED BY <2>1, <2>4, <2>5
<1>2. IInv => ReadKeepsBuffer
  BY <1>1 DEF ReadKeepsBuffer
<1> QED BY <1>2, Inductive, PTL

\* The samples copied into a tile are those of its own request.
THEOREM TileAlwaysAnswersRequest == Spec => []TileAnswersRequest
<1>1. IInv => TileAnswersRequest
  BY DEF IInv
<1> QED BY <1>1, Inductive, PTL
-----------------------------------------------------------------------------
(* The geometry of a read *)

LEMMA RequestType ==
  ASSUME NEW r \in Request
  PROVE  /\ r.x_offset \in Nat /\ r.y_offset \in Nat /\ r.width \in Nat /\ r.height \in Nat
         /\ r.slice_index \in Nat /\ r.plane_index \in Nat
         /\ r.downsample_level \in Nat /\ Factor(r) \in Nat \ {0}
<1>1. r \in TileRequest
  OBVIOUS
<1> HIDE ReaderAssumption
<1>2. U32 \subseteq Nat /\ Level \subseteq Nat
  BY GeometryAssumption DEF U32
<1>3. /\ r.x_offset \in Nat /\ r.y_offset \in Nat /\ r.width \in Nat /\ r.height \in Nat
      /\ r.slice_index \in Nat /\ r.plane_index \in Nat
      /\ r.downsample_level \in Nat
  BY <1>1, <1>2 DEF TileRequest
<1> QED BY <1>3, BitFacts DEF Factor

\* What a request reads along the axis of its tile.
LEMMA SpanOf ==
  ASSUME NEW r \in Request, NEW a \in {XAxis(r), YAxis(r)} \ {r.plane_index}
  PROVE  \E w \in Nat :
           /\ Asked(r, a).from \in Nat
           /\ Asked(r, a).to = Asked(r, a).from + w
           /\ Start(r)[a] = Asked(r, a).from \div Factor(r)
           /\ End(r)[a] = (Asked(r, a).from \div Factor(r)) + (w \div Factor(r))
BY RequestType DEF XAxis, YAxis, Asked, Start, End, TileWidth, TileHeight, Axis

\* The metadata of a layout, however large the last level is.
LEMMA MetadataOf ==
  ASSUME NEW l \in Layout, NEW m \in ExtractFromLayout(l)
  PROVE  /\ \A a \in Axis : m.size[a] \in Nat /\ m.size[a] < Word
         /\ \A a \in DOMAIN l \cap Axis : m.size[a] = l[a]
         /\ m.max_downsample_level = MaxLevel(m.size)
         /\ \A a \in {0, 1}, k \in Nat : k <= m.max_downsample_level =>
              m.level_sizes[a][k] = LevelSize(m.size[a], k)
<1>1. PICK rest \in [Axis \ DOMAIN l -> Leftover] :
        m = Metadata([a \in Axis |-> IF a \in DOMAIN l THEN l[a] ELSE rest[a]])
  BY DEF ExtractFromLayout
<1> DEFINE s == [a \in Axis |-> IF a \in DOMAIN l THEN l[a] ELSE rest[a]]
<1>2. m = Metadata(s)
  BY <1>1
<1>3. \A a \in DOMAIN l : l[a] \in Nat /\ l[a] < Word
  <2>1. PICK last \in 0..5 : l \in [0..last -> U32]
    OBVIOUS
  <2> QED BY <2>1, GeometryAssumption DEF U32
<1> HIDE ReaderAssumption
<1>4. \A x \in Leftover : x \in Nat /\ x < Word
  BY GeometryAssumption DEF U32
<1>5. /\ \A a \in Axis : s[a] \in Nat /\ s[a] < Word
      /\ \A a \in DOMAIN l \cap Axis : s[a] = l[a]
  BY <1>3, <1>4
<1> HIDE DEF s
<1>6. m.size = s /\ m.max_downsample_level = MaxLevel(s)
  BY <1>2 DEF Metadata
<1>7. ASSUME NEW a \in {0, 1}, NEW k \in Nat, k <= MaxLevel(s)
      PROVE  m.level_sizes[a][k] = LevelSize(s[a], k)
  <2>1. k \in 0..MaxLevel(s)
    BY <1>7
  <2> QED BY <1>2, <2>1 DEF Metadata
<1> QED BY <1>5, <1>6, <1>7

\* A read in flight, its request and the metadata it was accepted for.
LEMMA InFlight ==
  ASSUME IInv, NEW t \in Thread, at[t] = "wait"
  PROVE  /\ request \in Request
         /\ layout \in Layout /\ metadata \in ExtractFromLayout(layout)
         /\ IsValidTileRequest(metadata, request)
BY DEF IInv, Locking, ReadInFlight, MetadataOfFile, AcceptedForFile

\* Whatever files were loaded before, a read asks for a slice and a level of the
\* file that is loaded now.
THEOREM ReadAlwaysOfLoadedFile == Spec => []ReadOfLoadedFile
<1>1. ASSUME IInv, NEW t \in Thread, at[t] = "wait", request.plane_index \in DOMAIN layout
      PROVE  /\ request.slice_index < layout[request.plane_index]
             /\ {0, 1} \subseteq DOMAIN layout =>
                  request.downsample_level <= MaxLevel(layout)
  <2>1. /\ request.plane_index \in Axis
        /\ request.slice_index < metadata.size[request.plane_index]
        /\ request.downsample_level <= MaxLevel(metadata.size)
    BY <1>1, InFlight, RequestType, MetadataOf DEF IsValidTileRequest, Axis
  <2>2. \A a \in DOMAIN layout \cap Axis : metadata.size[a] = layout[a]
    BY <1>1, InFlight, MetadataOf
  <2>3. {0, 1} \subseteq DOMAIN layout => MaxLevel(layout) = MaxLevel(metadata.size)
    BY <2>2 DEF MaxLevel, Axis
  <2> QED BY <1>1, <2>1, <2>2, <2>3
<1>2. IInv => ReadOfLoadedFile
  BY <1>1 DEF ReadOfLoadedFile
<1> QED BY <1>2, Inductive, PTL

\* At every level, for every factor: what is read of a tile inside the volume lies
\* inside the level size that the metadata state.
THEOREM ReadAlwaysWithinLevel == Spec => []ReadWithinLevel
<1>1. ASSUME IInv, NEW t \in Thread, at[t] = "wait",
             NEW a \in {0, 1} \ {request.plane_index},
             Asked(request, a).to <= metadata.size[a]
      PROVE  End(request)[a] <= metadata.level_sizes[a][request.downsample_level]
  <2> DEFINE f == Factor(request)
             x == Asked(request, a).from
             n == metadata.size[a]
  <2>1. request \in Request /\ request.plane_index \in 0..2
    BY <1>1, InFlight, RequestType DEF IsValidTileRequest
  <2>2. a \in {XAxis(request), YAxis(request)} \ {request.plane_index}
    BY <2>1 DEF XAxis, YAxis
  <2>3. PICK w \in Nat : /\ x \in Nat
                         /\ Asked(request, a).to = x + w
                         /\ End(request)[a] = (x \div f) + (w \div f)
    BY <2>1, <2>2, SpanOf
  <2>4. n \in Nat /\ f \in Nat \ {0}
    BY <1>1, <2>1, InFlight, MetadataOf, RequestType DEF Axis
  <2>5. metadata.level_sizes[a][request.downsample_level] = Larger(1, n \div f)
    BY <1>1, <2>1, InFlight, MetadataOf, RequestType DEF IsValidTileRequest, LevelSize, Factor
  <2> HIDE DEF f, x, n
  <2>6. (x \div f) + (w \div f) <= (x + w) \div f
    BY <2>3, <2>4, FloorsApart
  <2>7. (x + w) \div f <= n \div f
    BY <1>1, <2>3, <2>4, FloorMonotone DEF n
  <2>8. /\ (x \div f) \in Int /\ (w \div f) \in Int
        /\ ((x + w) \div f) \in Int /\ (n \div f) \in Int
    BY <2>3, <2>4
  <2> QED BY <2>3, <2>5, <2>6, <2>7, <2>8 DEF Larger
<1>2. IInv => ReadWithinLevel
  BY <1>1 DEF ReadWithinLevel
<1> QED BY <1>2, Inductive, PTL

\* For any offsets, extents and levels neighbours share no sample and leave out one
\* at most.
THEOREM NeighboursAlwaysMeet == Spec => []NeighboursMeet
<1>1. ASSUME IInv, NEW t \in Thread, at[t] = "wait",
             NEW q \in Request, NEW a \in Axis, NextAlong(request, q, a)
      PROVE  /\ Start(q)[a] - End(request)[a] \in {0, 1}
             /\ /\ Asked(request, a).from % Factor(request) = 0
                /\ Asked(request, a).to % Factor(request) = 0
                => Start(q)[a] = End(request)[a]
  <2> DEFINE f == Factor(request)
             x == Asked(request, a).from
  <2>1. request \in Request /\ request.plane_index \in 0..2
    BY <1>1, InFlight, RequestType DEF IsValidTileRequest
  <2>2. /\ a \in {XAxis(request), YAxis(request)} \ {request.plane_index}
        /\ a \in {XAxis(q), YAxis(q)} \ {q.plane_index}
        /\ Factor(q) = f
    BY <1>1, <2>1 DEF NextAlong, XAxis, YAxis, Factor
  <2>3. PICK w \in Nat : /\ x \in Nat
                         /\ Asked(request, a).to = x + w
                         /\ End(request)[a] = (x \div f) + (w \div f)
    BY <2>1, <2>2, SpanOf
  <2>4. Start(q)[a] = (x + w) \div f
    BY <1>1, <2>2, <2>3, SpanOf DEF NextAlong
  <2>5. f \in Nat \ {0}
    BY <2>1, RequestType
  <2> HIDE DEF f, x
  <2>6. /\ (x \div f) + (w \div f) <= (x + w) \div f
        /\ (x + w) \div f <= (x \div f) + (w \div f) + 1
    BY <2>3, <2>5, FloorsApart
  <2>7. x % f = 0 /\ (x + w) % f = 0 => (x \div f) + (w \div f) = (x + w) \div f
    BY <2>3, <2>5, FloorsAligned
  <2>8. /\ (x \div f) \in Int /\ (w \div f) \in Int
        /\ ((x + w) \div f) \in Int
    BY <2>3, <2>5
  <2>9. Start(q)[a] - End(request)[a] \in {0, 1}
    BY <2>3, <2>4, <2>6, <2>8
  <2>10. x % f = 0 /\ (x + w) % f = 0 => Start(q)[a] = End(request)[a]
    BY <2>3, <2>4, <2>7
  <2> QED BY <2>3, <2>9, <2>10 DEF f, x
<1>2. IInv => NeighboursMeet
  BY <1>1 DEF NeighboursMeet
<1> QED BY <1>2, Inductive, PTL
-----------------------------------------------------------------------------
(* The levels of a file *)

\* The metadata of a reader that is initialized, and the larger of its extents.
LEMMA LevelsOfFile ==
  ASSUME IInv, initialized
  PROVE  LET n == Larger(metadata.size[0], metadata.size[1])
         IN  /\ metadata.size[0] \in Nat /\ metadata.size[1] \in Nat
             /\ metadata.size[0] < Word /\ metadata.size[1] < Word
             /\ n \in Nat /\ metadata.max_downsample_level = Halvings[n]
             /\ \A l \in GetAvailableDownsampleLevels(metadata) :
                  /\ l \in 0..Halvings[n]
                  /\ metadata.level_sizes[0][l] = LevelSize(metadata.size[0], l)
                  /\ metadata.level_sizes[1][l] = LevelSize(metadata.size[1], l)
<1>1. layout \in Layout /\ metadata \in ExtractFromLayout(layout)
  BY DEF IInv, MetadataOfFile
<1>2. /\ \A a \in {0, 1} : metadata.size[a] \in Nat /\ metadata.size[a] < Word
      /\ metadata.max_downsample_level = MaxLevel(metadata.size)
      /\ \A a \in {0, 1}, k \in Nat : k <= metadata.max_downsample_level =>
           metadata.level_sizes[a][k] = LevelSize(metadata.size[a], k)
  BY <1>1, MetadataOf DEF Axis
<1>3. Larger(metadata.size[0], metadata.size[1]) \in Nat
  BY <1>2 DEF Larger
<1> QED BY <1>2, <1>3, HalvingsFacts DEF MaxLevel, GetAvailableDownsampleLevels

\* The counting loop and the shift agree, for a file of any size: see
\* calculate_downsample_levels.
THEOREM LevelsAlwaysReachMinimum == Spec => []LevelsReachMinimum
<1>1. ASSUME IInv, initialized, NEW l \in GetAvailableDownsampleLevels(metadata)
      PROVE  LET extent == Larger(metadata.level_sizes[0][l], metadata.level_sizes[1][l])
             IN  IF l < metadata.max_downsample_level THEN extent > 32
                 ELSE extent <= 32 /\ (l > 0 => 2 * extent >= 32)
  <2> DEFINE a == metadata.size[0]
             b == metadata.size[1]
             n == Larger(a, b)
             k == Halvings[n]
             f == Bit[l]
  <2>1. /\ a \in Nat /\ b \in Nat /\ n \in Nat /\ k \in Nat /\ l \in 0..k
        /\ metadata.max_downsample_level = k
        /\ metadata.level_sizes[0][l] = LevelSize(a, l)
        /\ metadata.level_sizes[1][l] = LevelSize(b, l)
    BY <1>1, LevelsOfFile, HalvingsFacts
  <2>2. f \in Nat \ {0}
    BY <2>1, BitFacts
  <2>3. /\ l < k => n \div f > 32
        /\ l = k => n \div f <= 32 /\ (k > 0 => n \div f >= 16)
    BY <2>1, LevelsOfSize
  <2> HIDE DEF a, b, k, f
  <2>4. /\ n = IF a > b THEN a ELSE b
        /\ a \div f \in Nat /\ b \div f \in Nat
        /\ a > b => b \div f <= a \div f
        /\ ~ (a > b) => a \div f <= b \div f
    <3>1. a \div f \in Nat /\ b \div f \in Nat
      BY <2>1, <2>2
    <3>2. b <= a => b \div f <= a \div f
      BY <2>1, <2>2, FloorMonotone
    <3>3. a <= b => a \div f <= b \div f
      BY <2>1, <2>2, FloorMonotone
    <3> QED BY <2>1, <3>1, <3>2, <3>3 DEF Larger
  <2> HIDE DEF n
  <2>5. Larger(LevelSize(a, l), LevelSize(b, l)) = Larger(1, n \div f)
    BY <2>4 DEF Larger, LevelSize, f
  <2>6. n \div f \in Nat
    BY <2>4
  <2> QED BY <2>1, <2>3, <2>5, <2>6 DEF Larger
<1>2. IInv => LevelsReachMinimum
  BY <1>1 DEF LevelsReachMinimum, MIN_SIZE_AT_MAX_LEVEL
<1> QED BY <1>2, Inductive, PTL

\* No offered level divides a tile of the optimal size away, in a file of up to 2111
\* lines, for any requested size below 2^31.
THEOREM OptimalTileNeverEmpty == Spec => []OptimalTileNotEmpty
<1>1. ASSUME IInv, initialized, metadata.size[0] <= 2111, metadata.size[1] <= 2111,
             NEW l \in GetAvailableDownsampleLevels(metadata),
             NEW w \in Nat \ {0}, w < Bit[31]
      PROVE  GetOptimalTileSize(w) \div Bit[l] >= 1
  <2> DEFINE n == Larger(metadata.size[0], metadata.size[1])
  <2>1. n \in Nat /\ n <= 2111 /\ l \in 0..Halvings[n]
    BY <1>1, LevelsOfFile DEF Larger
  <2> HIDE DEF n
  <2>2. Halvings[n] \in Nat /\ Halvings[n] <= 6
    BY <2>1, LevelsBound, SomeBits, HalvingsFacts
  <2>3. Bit[l] \in Nat \ {0} /\ Bit[l] <= 64
    BY <2>1, <2>2, BitMonotone, BitFacts, SomeBits
  <2>4. GetOptimalTileSize(w) \in 64..1024
    BY <1>1, OptimalSizeBounds
  <2>5. \A s \in 64..1024, b \in Nat \ {0} : b <= 64 => s \div b >= 1
    <3>1. \A s \in Nat, b \in Nat \ {0} : b <= s => s \div b >= 1
      OBVIOUS
    <3> QED BY <3>1
  <2> QED BY <2>3, <2>4, <2>5
<1>2. ASSUME IInv, NEW r \in Request
      PROVE  /\ r.width \in Nat
             /\ 0 < r.width /\ r.width <= 2147483647 => r.width \in Nat \ {0} /\ r.width < Bit[31]
  <2>1. r.width \in Nat
    BY RequestType
  <2>2. \A w \in Nat : 0 < w /\ w <= 2147483647 => w \in Nat \ {0} /\ w < Bit[31]
    BY SignBit, SMT
  <2> QED BY <2>1, <2>2, SMT
<1>3. IInv => OptimalTileNotEmpty
  BY <1>1, <1>2, SMT DEF OptimalTileNotEmpty
<1> QED BY <1>3, Inductive, PTL

\* 1 << level is a shift of an int: no level is offered at which it overflows.
LevelFitsShift == initialized => \A l \in GetAvailableDownsampleLevels(metadata) : l <= 27

\* For all sizes that 32 bits can hold (vds_metadata.cpp:165, vds_reader.cpp:223).
THEOREM LevelAlwaysFitsShift == Word <= 2 * Bit[31] => (Spec => []LevelFitsShift)
<1> SUFFICES ASSUME Word <= 2 * Bit[31] PROVE Spec => []LevelFitsShift
  OBVIOUS
<1>1. ASSUME IInv, initialized
      PROVE  metadata.max_downsample_level \in Nat /\ metadata.max_downsample_level <= 27
  <2> DEFINE n == Larger(metadata.size[0], metadata.size[1])
  <2>1. n \in Nat /\ n < Word /\ metadata.max_downsample_level = Halvings[n]
    BY <1>1, LevelsOfFile DEF Larger
  <2> HIDE DEF n
  <2>2. n < 33 * Bit[27]
    BY <2>1, LargestBit, SignBit, GeometryAssumption, SMT
  <2> QED BY <2>1, <2>2, LevelsBound, HalvingsFacts
<1>2. IInv => LevelFitsShift
  BY <1>1 DEF LevelFitsShift, GetAvailableDownsampleLevels
<1> QED BY <1>2, Inductive, PTL
-----------------------------------------------------------------------------
(* Where the two findings about start and stop end *)

\* A thread in the catch block of initialize waits for the mutex it holds, and with
\* it everybody else: no step leaves that state, on any thread (vds_reader.cpp:46).
THEOREM FailedIsForever ==
  Spec => [][\A t \in Thread : at[t] = "failed" =>
               /\ at' = at
               /\ access_mutex' = t
               /\ UNCHANGED <<initialized, held, file, buffer, size, read>>]_vars
<1>1. ASSUME IInv, [Next]_vars, NEW t \in Thread, at[t] = "failed"
      PROVE  /\ at' = at
             /\ access_mutex' = t
             /\ UNCHANGED <<initialized, held, file, buffer, size, read>>
  <2>1. /\ access_mutex = t /\ t # Free /\ ~ initialized
        /\ \A u \in Thread : at[u] \in {"idle", "failed"}
    BY <1>1, OthersIdle DEF IInv, Locking
  <2>2. request = NoRequest
    BY <1>1, <2>1 DEF IInv, ReadInFlight
  <2>3. ~ EngineFills
    BY <2>2 DEF EngineFills
  <2>4. ASSUME NEW u \in Thread,
               InitStep(u) \/ Shutdown(u) \/ DisableCuda(u) \/ ReadReturn(u) \/ ReadFailed(u)
        PROVE  DisableCuda(u)
    BY <2>1, <2>4 DEF InitStep, Initialize, InitHuespace, ConfigureMemory, LoadVdsFile,
                      ExtractLayout, SetupBuffer, Shutdown, ReadReturn, ReadFailed
  <2>5. ASSUME NEW u \in Thread, NEW r \in Request, ReadRejected(u, r) \/ ReadIssue(u, r)
        PROVE  FALSE
    BY <2>1, <2>5 DEF ReadRejected, ReadIssue
  <2>6. (\E u \in Thread : DisableCuda(u)) \/ UNCHANGED vars
    BY <1>1, <2>3, <2>4, <2>5 DEF Next
  <2> QED BY <2>1, <2>6 DEF DisableCuda, vars, store, read, file
<1>2. IInv /\ [Next]_vars =>
        [\A t \in Thread : at[t] = "failed" =>
           /\ at' = at
           /\ access_mutex' = t
           /\ UNCHANGED <<initialized, held, file, buffer, size, read>>]_vars
  BY <1>1
<1> QED BY <1>2, Inductive, PTL DEF Spec

\* Without CUDA every buffer comes from malloc and goes back to free: the mismatch
\* of FreedAsAllocated takes a build with CUDA (vds_reader.cpp:146-188).
THEOREM NoCudaNoMismatch == ~ CudaBuild => (Spec => []FreedAsAllocated)
<1> SUFFICES ASSUME ~ CudaBuild PROVE Spec => []FreedAsAllocated
  OBVIOUS
<1> DEFINE NoPinned == ~ mismatch /\ \A i \in Index : buffer[i] # "pinned"
<1>1. Init => NoPinned
  BY DEF Init
<1>2. IInv /\ NoPinned /\ [Next]_vars => NoPinned'
  <2> SUFFICES ASSUME IInv, NoPinned, [Next]_vars PROVE NoPinned'
    OBVIOUS
  <2>1. buffer \in [Index -> {"null", "malloc", "pinned"}]
    BY DEF IInv, TypeOK
  <2>2. ASSUME NEW t \in Thread, SetupBuffer(t)
        PROVE  NoPinned'
    BY <2>1, <2>2 DEF SetupBuffer, Allocated
  <2>3. ASSUME NEW t \in Thread, Shutdown(t)
        PROVE  NoPinned'
    BY <2>1, <2>3 DEF Shutdown, FreedAs
  <2>4. ASSUME UNCHANGED <<buffer, mismatch>>
        PROVE  NoPinned'
    BY <2>4
  <2> QED BY <2>2, <2>3, <2>4
          DEF Next, InitStep, Initialize, InitHuespace, ConfigureMemory, LoadVdsFile,
              ExtractLayout, DisableCuda, ReadReturn, ReadFailed, ReadRejected, ReadIssue,
              EngineFills, vars, store
<1>3. NoPinned => FreedAsAllocated
  BY DEF FreedAsAllocated
<1> QED BY <1>1, <1>2, <1>3, Inductive, PTL DEF Spec
-----------------------------------------------------------------------------
(* The reader as its callers see it *)

Opened == IF initialized THEN layout ELSE NoLayout
Asking == [t \in Thread |-> IF at[t] = "wait" THEN request ELSE NoRequest]

\* Between reads nobody asks.
LEMMA NobodyAsks ==
  ASSUME \A t \in Thread : at[t] # "wait"
  PROVE  Asking = [t \in Thread |-> NoRequest] /\ Source!Quiet
BY DEF Asking, Source!Quiet

LEMMA NobodyAsksNext ==
  ASSUME \A t \in Thread : at'[t] # "wait"
  PROVE  Asking' = [t \in Thread |-> NoRequest]
BY DEF Asking

\* While one thread holds the mutex inside initialize nobody else is in a call.
LEMMA Starting ==
  ASSUME IInv, NEW t \in Thread, at[t] \in Phase
  PROVE  ~ initialized /\ \A u \in Thread : at[u] # "wait"
BY OthersIdle DEF IInv, Locking, Phase

\* A start that has not come to its end is not visible.
LEMMA StartStutters ==
  ASSUME IInv, NEW t \in Thread,
         \/ Initialize(t) \/ InitHuespace(t) \/ ConfigureMemory(t)
         \/ LoadVdsFile(t) \/ ExtractLayout(t)
  PROVE  UNCHANGED Source!vars
<1>1. ~ initialized /\ \A u \in Thread : at[u] # "wait"
  <2>1. CASE Initialize(t)
    BY <2>1, OthersIdle DEF IInv, Initialize
  <2>2. CASE at[t] \in Phase
    BY <2>2, Starting
  <2> QED BY <2>1, <2>2 DEF InitHuespace, ConfigureMemory, LoadVdsFile, ExtractLayout, Phase
<1>2. /\ UNCHANGED <<initialized, returned>>
      /\ \E p \in Phase \cup {"failed"} : Goto(t, p)
  BY DEF Initialize, InitHuespace, ConfigureMemory, LoadVdsFile, ExtractLayout, store, read, Phase
<1>3. \A u \in Thread : at'[u] # "wait"
  BY <1>1, <1>2, GotoFacts DEF IInv, Phase
<1>4. UNCHANGED <<Opened, Asking>>
  BY <1>1, <1>2, <1>3, NobodyAsks, NobodyAsksNext DEF Opened
<1> QED BY <1>2, <1>4 DEF Source!vars, Opened, Asking

\* The last round of setup_request_buffers opens the file, no other does.
LEMMA SetupImplements ==
  ASSUME IInv, NEW t \in Thread, SetupBuffer(t)
  PROVE  Source!Next \/ UNCHANGED Source!vars
<1>1. /\ at[t] = "buffers" /\ at[t] \in Phase
      /\ UNCHANGED <<layout, returned>>
  BY DEF SetupBuffer, read, Phase
<1>2. ~ initialized /\ \A u \in Thread : at[u] # "wait"
  BY <1>1, Starting
<1>3. layout \in Layout
  BY <1>1 DEF IInv, MetadataOfFile
<1>4. \A u \in Thread : at'[u] # "wait"
  <2>1. \/ Goto(t, "failed") /\ UNCHANGED initialized
        \/ UNCHANGED <<at, initialized>>
        \/ Goto(t, "idle") /\ initialized' = TRUE
    BY DEF SetupBuffer
  <2>2. CASE Goto(t, "failed") /\ UNCHANGED initialized
    BY <1>2, <2>2, GotoFacts DEF IInv
  <2>3. CASE UNCHANGED <<at, initialized>>
    BY <1>2, <2>3
  <2>4. CASE Goto(t, "idle") /\ initialized' = TRUE
    BY <1>2, <2>4, GotoFacts DEF IInv
  <2> QED BY <2>1, <2>2, <2>3, <2>4
<1>5. UNCHANGED Asking /\ Source!Quiet
  BY <1>2, <1>4, NobodyAsks, NobodyAsksNext
<1>6. CASE initialized'
  <2>1. Source!Open(layout)
    BY <1>1, <1>2, <1>5, <1>6 DEF Source!Open, Asking
  <2> QED BY <1>3, <2>1 DEF Source!Next
<1>7. CASE ~ initialized'
  BY <1>1, <1>2, <1>5, <1>7 DEF Source!vars, Asking
<1> QED BY <1>6, <1>7

\* A shutdown closes the file, or finds none.
LEMMA ShutdownImplements ==
  ASSUME IInv, NEW t \in Thread, Shutdown(t)
  PROVE  Source!Next \/ UNCHANGED Source!vars
<1>1. access_mutex = Free /\ Goto(t, "idle") /\ UNCHANGED returned /\ initialized' = FALSE
  BY DEF Shutdown, read, IInv, TypeOK
<1>2. /\ \A u \in Thread : at[u] # "wait"
      /\ \A u \in Thread : at'[u] # "wait"
  <2>1. at[t] # "wait" /\ \A u \in Thread : u # t => at[u] = "idle"
    BY <1>1, OthersIdle DEF Shutdown, IInv
  <2> QED BY <1>1, <2>1, GotoFacts DEF IInv
<1>3. UNCHANGED Asking /\ Source!Quiet
  BY <1>2, NobodyAsks, NobodyAsksNext
<1>4. CASE initialized
  <2>1. layout # NoLayout
    BY <1>4 DEF IInv, MetadataOfFile
  <2>2. Source!Close
    BY <1>1, <1>3, <1>4, <2>1 DEF Source!Close, Asking
  <2> QED BY <2>2 DEF Source!Next
<1>5. CASE ~ initialized
  BY <1>1, <1>3, <1>5 DEF Source!vars, Asking
<1> QED BY <1>4, <1>5

\* What a thread or the engine does beside the reads is not visible.
LEMMA OthersStutter ==
  ASSUME \/ EngineFills
         \/ \E t \in Thread : DisableCuda(t)
         \/ \E t \in Thread, r \in Request : ReadRejected(t, r)
         \/ UNCHANGED vars
  PROVE  UNCHANGED Source!vars
<1>1. UNCHANGED <<initialized, layout, at, request, returned>>
  BY DEF EngineFills, DisableCuda, ReadRejected, vars, store, file, read
<1> QED BY <1>1 DEF Source!vars

\* A read that is accepted asks for a slice of the open file.
LEMMA IssueImplements ==
  ASSUME IInv, NEW t \in Thread, NEW r \in Request, ReadIssue(t, r)
  PROVE  Source!Next
<1>1. /\ at[t] = "idle" /\ access_mutex = Free /\ initialized
      /\ IsValidTileRequest(metadata, r)
      /\ request' = r /\ Goto(t, "wait")
      /\ UNCHANGED <<initialized, layout, returned>>
  BY DEF ReadIssue, store, file
<1>2. /\ \A u \in Thread : at[u] = "idle"
      /\ at'[t] = "wait"
      /\ \A u \in Thread : u # t => at'[u] = "idle"
  BY <1>1, OthersIdle, GotoFacts DEF IInv
<1>3. Source!Quiet /\ Asking = [u \in Thread |-> NoRequest]
  BY <1>2, NobodyAsks
<1>4. Asking' = [Asking EXCEPT ![t] = r]
  BY <1>1, <1>2, <1>3 DEF Asking
<1>5. layout \in Layout /\ layout # NoLayout /\ metadata \in ExtractFromLayout(layout)
  BY <1>1 DEF IInv, MetadataOfFile
<1>6. Source!HasSlice(layout, r)
  <2>1. r.plane_index \in Axis /\ r.slice_index < metadata.size[r.plane_index]
    BY <1>1, RequestType DEF IsValidTileRequest, Axis
  <2>2. \A a \in DOMAIN layout \cap Axis : metadata.size[a] = layout[a]
    BY <1>5, MetadataOf
  <2> QED BY <2>1, <2>2 DEF Source!HasSlice
<1>7. Source!Ask(t, r)
  BY <1>1, <1>3, <1>4, <1>5, <1>6 DEF Source!Ask, Asking
<1> QED BY <1>7 DEF Source!Next

\* A read ends with the samples of its request, or with an exception and none.
LEMMA EndOfReadImplements ==
  ASSUME IInv, NEW t \in Thread, ReadReturn(t) \/ ReadFailed(t)
  PROVE  Source!Next
<1>1. /\ at[t] = "wait" /\ Goto(t, "idle") /\ request' = NoRequest
      /\ UNCHANGED <<initialized, layout>>
  BY DEF ReadReturn, ReadFailed, store, file
<1>2. request \in Request /\ request # NoRequest
  BY <1>1, InFlight
<1>3. /\ \A u \in Thread : u # t => at[u] = "idle"
      /\ \A u \in Thread : at'[u] = "idle"
  BY <1>1, OthersIdle, GotoFacts DEF IInv, Locking
<1>4. /\ Asking[t] = request
      /\ Asking' = [Asking EXCEPT ![t] = NoRequest]
  BY <1>1, <1>3 DEF Asking
<1>5. CASE ReadReturn(t)
  <2>1. returned' = [returned EXCEPT ![t] = [asked |-> request, got |-> request]]
    BY <1>5 DEF ReadReturn, IInv, ReadInFlight
  <2>2. Source!Answer(t)
    BY <1>1, <1>2, <1>4, <2>1 DEF Source!Answer, Asking
  <2> QED BY <2>2 DEF Source!Next
<1>6. CASE ReadFailed(t)
  <2>1. Source!Refuse(t)
    BY <1>1, <1>2, <1>4, <1>6 DEF Source!Refuse, Asking, ReadFailed
  <2> QED BY <2>1 DEF Source!Next
<1> QED BY <1>5, <1>6

\* Every behaviour of the reader, with its phases, its buffers and its engine, is
\* one of a source that opens, answers and closes (vds_reader.cpp:23-335).
THEOREM ImplementsTileSource == Spec => RefinesTileSource
<1>1. Init => Source!Init
  BY NobodyAsks DEF Init, Source!Init, Asking, NoTile
<1>2. IInv /\ [Next]_vars => [Source!Next]_Source!vars
  <2> SUFFICES ASSUME IInv, [Next]_vars PROVE Source!Next \/ UNCHANGED Source!vars
    OBVIOUS
  <2>1. ASSUME NEW t \in Thread, InitStep(t)
        PROVE  Source!Next \/ UNCHANGED Source!vars
    BY <2>1, StartStutters, SetupImplements DEF InitStep
  <2>2. ASSUME NEW t \in Thread, Shutdown(t)
        PROVE  Source!Next \/ UNCHANGED Source!vars
    BY <2>2, ShutdownImplements
  <2>3. ASSUME NEW t \in Thread, ReadReturn(t) \/ ReadFailed(t)
        PROVE  Source!Next
    BY <2>3, EndOfReadImplements
  <2>4. ASSUME NEW t \in Thread, NEW r \in Request, ReadIssue(t, r)
        PROVE  Source!Next
    BY <2>4, IssueImplements
  <2>5. ASSUME \/ EngineFills
               \/ \E t \in Thread : DisableCuda(t)
               \/ \E t \in Thread, r \in Request : ReadRejected(t, r)
               \/ UNCHANGED vars
        PROVE  UNCHANGED Source!vars
    BY <2>5, OthersStutter
  <2> QED BY <2>1, <2>2, <2>3, <2>4, <2>5 DEF Next
<1>3. Spec => Init /\ [][Next]_vars
  BY DEF Spec
<1> QED BY <1>1, <1>2, <1>3, Inductive, PTL DEF RefinesTileSource, Source!Spec
=============================================================================
