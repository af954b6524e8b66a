-------------------------- MODULE AdapterLifecycle --------------------------
(***************************************************************************)
(* The lifetime of one camera's ICameraAdapter and of the resources the    *)
(* camera3 HAL is handed: camera_device_open / camera_device_close and the *)
(* sCamAdapters registry, open(), close() (flush without mLock, then unmap *)
(* and free the request settings), setParameters() (which hands            *)
(* mRequestSettings to a CameraMetadata and takes back a possibly new      *)
(* pointer), configStreams(), allocateMemory(), and the capture path of    *)
(* qBuf / start / stop down to the HAL call.                               *)
(*                                                                         *)
(* ICameraAdapter.tla models how results are matched to buffers; here a   *)
(* returned request only moves its buffer to mCapturedBuffers.  What is    *)
(* kept is which settings pointer and which buffer handle each request     *)
(* carries, and whether they are still alive when the HAL uses them.       *)
(***************************************************************************)
EXTENDS Integers, Sequences, SequencesExt, FiniteSets

CONSTANTS
    Threads,            \* application threads calling the icamera C API
    Buffers,            \* the application's camera_buffer_t objects
    DmaBuffers,         \* buffers with dmafd > 0, mapped by capture()
    Settings,           \* camera_metadata_t allocations (the heap for them)
    MaxSubmits,         \* bound on qBuf calls
    MaxInFlight,        \* requests the HAL holds before process_capture_request blocks
    MapMayFail,         \* whether gralloc's ashmem region or mapBuffer may fail
    InitMayFail,        \* whether initialize / construct_default_request_settings may fail
    SettingsMayRealloc, \* whether CameraMetadata::update may reallocate the buffer
    NULL,
    BadHandle           \* the uninitialised handle a failed GRALLOC_MAP_FD leaves

ASSUME /\ DmaBuffers \subseteq Buffers
       /\ NULL \notin Settings /\ BadHandle \notin Buffers
       /\ MaxSubmits \in Nat /\ MaxInFlight \in Nat \ {0}
       /\ {MapMayFail, InitMayFail, SettingsMayRealloc} \subseteq BOOLEAN

VARIABLES
    sCamAdapter,        \* sCamAdapters[camera_id] != NULL
    adapter,            \* the ICameraAdapter object: "none", "live", "deleted"
    device,             \* the camera3 device: "none", "open", "ready", "configured", "closed"
    mStarted, mPendingBuffers, mCapturedBuffers,
    mBufferMapping,     \* key -> buffer handle
    mMappedBuffers,     \* the pHandles mapMemory() created, in order
    mAllocatedBuffers,  \* buffers allocateMemory() created
    mRequestSettings,
    allocated, freed,   \* the Settings ever allocated, and those freed
    pc, req,            \* thread program counters; the request a thread is passing
    inflight,           \* requests the HAL has accepted: [buf, handle]
    appBuffers, submitted,
    gralloc             \* the gralloc module's regions and handles (Gralloc.tla)

vars == <<sCamAdapter, adapter, device, mStarted, mPendingBuffers,
          mCapturedBuffers, mBufferMapping, mMappedBuffers, mAllocatedBuffers,
          mRequestSettings, allocated, freed, pc, req, inflight, appBuffers,
          submitted, gralloc>>

G == INSTANCE Gralloc WITH AshmemMayFail <- MapMayFail, MapBufferMayFail <- MapMayFail

Handles == Buffers \cup {BadHandle}
FdKey(b) == <<"fd", b>>
AddrKey(b) == <<"addr", b>>
Keys == {FdKey(b) : b \in DmaBuffers} \cup {AddrKey(b) : b \in Buffers \ DmaBuffers}
NoReq == [buf |-> BadHandle, handle |-> BadHandle, settings |-> NULL]

\* A settings allocation not handed out yet (what the allocator returns).
Fresh == CHOOSE p \in Settings \ allocated : TRUE
CanAllocate == allocated # Settings

-----------------------------------------------------------------------------
(* camera_device_open: new ICameraAdapter (opens the HAL device), stored   *)
(* in sCamAdapters, then open(): initialize() and constructDefaultRequest().*)
(* One camera is opened once in a behaviour.                                *)

InitOutcomes == IF InitMayFail THEN {"ok", "init_fail", "default_fail"} ELSE {"ok"}

CameraDeviceOpen(t) ==
    /\ pc[t] = "idle" /\ adapter = "none"
    /\ sCamAdapter' = TRUE /\ adapter' = "live"
    /\ \E outcome \in InitOutcomes :
         /\ device' = IF outcome = "init_fail" THEN "open" ELSE "ready"
         /\ IF outcome = "ok" /\ CanAllocate
            THEN /\ mRequestSettings' = Fresh
                 /\ allocated' = allocated \cup {Fresh}
            ELSE UNCHANGED <<mRequestSettings, allocated>>
    /\ UNCHANGED <<mStarted, mPendingBuffers, mCapturedBuffers, mBufferMapping,
                   mMappedBuffers, mAllocatedBuffers, freed, pc, req, inflight,
                   appBuffers, submitted, gralloc>>

\* A C API call reaches the adapter: sCamAdapters[camera_id] != NULL.
Callable(t) == pc[t] = "idle" /\ sCamAdapter

\* configStreams(): configure_streams on whatever device the adapter has.
ConfigStreams(t) ==
    /\ Callable(t)
    /\ device' = IF device \in {"ready", "configured"} THEN "configured" ELSE device
    /\ UNCHANGED <<sCamAdapter, adapter, mStarted, mPendingBuffers,
                   mCapturedBuffers, mBufferMapping, mMappedBuffers,
                   mAllocatedBuffers, mRequestSettings, allocated, freed, pc,
                   req, inflight, appBuffers, submitted, gralloc>>

\* setParameters(): with settings, CameraMetadata meta(mRequestSettings)
\* takes ownership; the conversions update() it, which may move it to a new
\* allocation and free the old one; meta.release() is stored back.
SetParameters(t) ==
    /\ Callable(t)
    /\ mRequestSettings # NULL
    /\ \/ UNCHANGED <<mRequestSettings, allocated, freed>>
       \/ /\ SettingsMayRealloc /\ CanAllocate
          /\ mRequestSettings' = Fresh
          /\ allocated' = allocated \cup {Fresh}
          /\ freed' = freed \cup {mRequestSettings}
    /\ UNCHANGED <<sCamAdapter, adapter, device, mStarted, mPendingBuffers,
                   mCapturedBuffers, mBufferMapping, mMappedBuffers,
                   mAllocatedBuffers, pc, req, inflight, appBuffers, submitted,
                   gralloc>>

\* allocateMemory(): a GraphicBuffer in YCbCr_420_888 for the composer,
\* which gralloc_alloc allocates; when initCheck() fails its status is
\* returned; otherwise the buffer is locked for its address, mapped by
\* that address and kept in mAllocatedBuffers.
AllocateMemory(t, b) ==
    /\ Callable(t)
    /\ b \in Buffers \ DmaBuffers /\ b \notin mAllocatedBuffers
    /\ \E r \in G!GrallocAllocOutcomes(gralloc, b, G!HAL_PIXEL_FORMAT_YCbCr_420_888,
                                       {G!GRALLOC_USAGE_HW_COMPOSER}) :
         /\ gralloc' = r.g
         /\ IF r.ok
            THEN /\ mBufferMapping' = (AddrKey(b) :> b) @@ mBufferMapping
                 /\ mAllocatedBuffers' = mAllocatedBuffers \cup {b}
            ELSE UNCHANGED <<mBufferMapping, mAllocatedBuffers>>
    /\ UNCHANGED <<sCamAdapter, adapter, device, mStarted, mPendingBuffers,
                   mCapturedBuffers, mMappedBuffers, mRequestSettings,
                   allocated, freed, pc, req, inflight, appBuffers, submitted>>

-----------------------------------------------------------------------------
(* capture(), qBuf(), start(), stop(), dqBuf().                            *)

\* Whether capture() finds (or, for a dma fd, creates) a mapping for b.
CaptureFails(b) == b \notin DmaBuffers /\ AddrKey(b) \notin DOMAIN mBufferMapping

\* mapMemory(): a new pHandle, filled by gralloc_perform (GRALLOC_MAP_FD)
\* whose status is ignored: when the map fails, *pHandle is left
\* uninitialised and is stored all the same.
MapMemoryOutcomes(b) ==
    {[h |-> IF r.ok THEN b ELSE BadHandle, g |-> r.g] : r \in G!PerformMapFdOutcomes(gralloc, b)}

\* capture() under mLock: look the buffer up, mapMemory() a new dma fd
\* (pushing the new pHandle on mMappedBuffers whatever GRALLOC_MAP_FD
\* returned), build the request with request.settings = mRequestSettings,
\* unlock.  `back' is the pc the thread returns to after the HAL call.
Capture(t, b, back) ==
    /\ ~CaptureFails(b)
    /\ LET key     == IF b \in DmaBuffers THEN FdKey(b) ELSE AddrKey(b)
           needMap == key \notin DOMAIN mBufferMapping
       IN  \E r \in IF needMap THEN MapMemoryOutcomes(b)
                                ELSE {[h |-> mBufferMapping[key], g |-> gralloc]} :
         LET h       == r.h
             mapping == IF needMap THEN (key :> h) @@ mBufferMapping ELSE mBufferMapping
         IN  /\ mBufferMapping' = mapping
             /\ mMappedBuffers' = IF needMap THEN Append(mMappedBuffers, h) ELSE mMappedBuffers
             /\ req' = [req EXCEPT ![t] = [buf |-> b, handle |-> mapping[key],
                                           settings |-> mRequestSettings]]
             /\ gralloc' = r.g
    /\ pc' = [pc EXCEPT ![t] = back]

\* One turn of start()'s loop: drop the pending buffers capture() fails
\* for, capture the first one it does not, or return when none is left.
StartLoop(t) ==
    LET ok == {i \in 1..Len(mPendingBuffers) : ~CaptureFails(mPendingBuffers[i])}
    IN  IF ok = {}
        THEN /\ mPendingBuffers' = <<>>
             /\ pc' = [pc EXCEPT ![t] = "idle"]
             /\ UNCHANGED <<mBufferMapping, mMappedBuffers, req, gralloc>>
        ELSE /\ mPendingBuffers' = SubSeq(mPendingBuffers, Min(ok) + 1, Len(mPendingBuffers))
             /\ Capture(t, mPendingBuffers[Min(ok)], "call_from_start")

QBuf(t, b) ==
    /\ Callable(t) /\ b \in appBuffers /\ submitted < MaxSubmits
    /\ submitted' = submitted + 1
    /\ IF ~mStarted
       THEN /\ mPendingBuffers' = Append(mPendingBuffers, b)
            /\ appBuffers' = appBuffers \ {b}
            /\ UNCHANGED <<mBufferMapping, mMappedBuffers, pc, req, gralloc>>
       ELSE IF CaptureFails(b)
            THEN UNCHANGED <<mPendingBuffers, mBufferMapping, mMappedBuffers,
                             pc, req, appBuffers, gralloc>>
            ELSE /\ Capture(t, b, "call_from_qbuf")
                 /\ appBuffers' = appBuffers \ {b}
                 /\ UNCHANGED mPendingBuffers
    /\ UNCHANGED <<sCamAdapter, adapter, device, mStarted, mCapturedBuffers,
                   mAllocatedBuffers, mRequestSettings, allocated, freed, inflight>>

Start(t) ==
    /\ Callable(t)
    /\ mStarted' = TRUE
    /\ StartLoop(t)
    /\ UNCHANGED <<sCamAdapter, adapter, device, mCapturedBuffers,
                   mAllocatedBuffers, mRequestSettings, allocated, freed,
                   inflight, appBuffers, submitted>>

Stop(t) ==
    /\ Callable(t)
    /\ mStarted' = FALSE
    /\ UNCHANGED <<sCamAdapter, adapter, device, mPendingBuffers,
                   mCapturedBuffers, mBufferMapping, mMappedBuffers,
                   mAllocatedBuffers, mRequestSettings, allocated, freed, pc,
                   req, inflight, appBuffers, submitted, gralloc>>

\* dqBuf() that finds a captured buffer (the timeout path changes nothing).
DqBuf(t) ==
    /\ Callable(t) /\ mCapturedBuffers # <<>>
    /\ appBuffers' = appBuffers \cup {Head(mCapturedBuffers)}
    /\ mCapturedBuffers' = Tail(mCapturedBuffers)
    /\ UNCHANGED <<sCamAdapter, adapter, device, mStarted, mPendingBuffers,
                   mBufferMapping, mMappedBuffers, mAllocatedBuffers,
                   mRequestSettings, allocated, freed, pc, req, inflight,
                   submitted, gralloc>>

\* process_capture_request(), without mLock: the HAL reads the settings,
\* keeps the buffer handle, and blocks while it holds MaxInFlight requests.
\* Then mLock is taken again: qBuf returns, start() loops.
ProcessCaptureRequest(t) ==
    /\ pc[t] \in {"call_from_qbuf", "call_from_start"}
    /\ Cardinality(inflight) < MaxInFlight
    /\ inflight' = inflight \cup {[buf |-> req[t].buf, handle |-> req[t].handle]}
    /\ IF pc[t] = "call_from_qbuf"
       THEN /\ pc' = [pc EXCEPT ![t] = "idle"]
            /\ UNCHANGED <<mPendingBuffers, mBufferMapping, mMappedBuffers, req,
                            gralloc>>
       ELSE StartLoop(t)

CaptureCall(t) ==
    /\ ProcessCaptureRequest(t)
    /\ UNCHANGED <<sCamAdapter, adapter, device, mStarted, mCapturedBuffers,
                   mAllocatedBuffers, mRequestSettings, allocated, freed,
                   appBuffers, submitted>>

-----------------------------------------------------------------------------
(* The HAL callback thread, close() and camera_device_close.              *)

\* processCaptureResult() completing an accepted request: its buffer goes
\* to mCapturedBuffers (the matching itself is modelled in ICameraAdapter).
HalReturn(r) ==
    /\ r \in inflight /\ device # "closed"
    /\ inflight' = inflight \ {r}
    /\ mCapturedBuffers' = Append(mCapturedBuffers, r.buf)
    /\ UNCHANGED <<sCamAdapter, adapter, device, mStarted, mPendingBuffers,
                   mBufferMapping, mMappedBuffers, mAllocatedBuffers,
                   mRequestSettings, allocated, freed, pc, req, appBuffers,
                   submitted, gralloc>>

\* camera_device_close calls close(), which calls flush() without mLock.
CloseFlush(t) ==
    /\ Callable(t)
    /\ pc' = [pc EXCEPT ![t] = "close_flushing"]
    /\ UNCHANGED <<sCamAdapter, adapter, device, mStarted, mPendingBuffers,
                   mCapturedBuffers, mBufferMapping, mMappedBuffers,
                   mAllocatedBuffers, mRequestSettings, allocated, freed, req,
                   inflight, appBuffers, submitted, gralloc>>

\* flush() returns once the HAL has returned every request it held (the
\* camera3 contract of flush); close() then waits for mLock.  Nothing stops
\* another thread from submitting a request in between.
FlushReturn(t) ==
    /\ pc[t] = "close_flushing" /\ inflight = {}
    /\ pc' = [pc EXCEPT ![t] = "close_locking"]
    /\ UNCHANGED <<sCamAdapter, adapter, device, mStarted, mPendingBuffers,
                   mCapturedBuffers, mBufferMapping, mMappedBuffers,
                   mAllocatedBuffers, mRequestSettings, allocated, freed, req,
                   inflight, appBuffers, submitted, gralloc>>

\* close(): mAllocatedBuffers.clear() drops the last reference to each
\* GraphicBuffer, whose destruction gralloc_free()s it; then every pHandle
\* of mMappedBuffers is passed to GRALLOC_UNMAP_FD.
ReleaseAllocated(g) == FoldSet(LAMBDA b, acc : G!GrallocFree(acc, b), g, mAllocatedBuffers)

ReleaseGralloc(g) ==
    FoldLeft(LAMBDA acc, h : G!PerformUnmapFd(acc, h), ReleaseAllocated(g), mMappedBuffers)

\* Mutant: close() unmaps the imported fds but the GraphicBuffers are
\* never released (their references outlive mAllocatedBuffers).
CloseLockedKeepAllocated(t) ==
    /\ pc[t] = "close_locking"
    /\ mAllocatedBuffers' = {} /\ mBufferMapping' = <<>> /\ mMappedBuffers' = <<>>
    /\ gralloc' = FoldLeft(LAMBDA acc, h : G!PerformUnmapFd(acc, h), gralloc, mMappedBuffers)
    /\ freed' = IF mRequestSettings = NULL THEN freed ELSE freed \cup {mRequestSettings}
    /\ device' = "closed"
    /\ pc' = [pc EXCEPT ![t] = "close_delete"]

\* close() under mLock, whatever the HAL holds by now: the
\* allocated buffers are released, the mapping cleared, every pHandle of
\* mMappedBuffers passed to GRALLOC_UNMAP_FD, mRequestSettings freed (the
\* member keeps the pointer) and the HAL device closed.
CloseLocked(t) ==
    /\ pc[t] = "close_locking"
    /\ mAllocatedBuffers' = {} /\ mBufferMapping' = <<>> /\ mMappedBuffers' = <<>>
    /\ gralloc' = ReleaseGralloc(gralloc)
    /\ freed' = IF mRequestSettings = NULL THEN freed ELSE freed \cup {mRequestSettings}
    /\ device' = "closed"
    /\ pc' = [pc EXCEPT ![t] = "close_delete"]

CloseStep(t) ==
    /\ CloseLocked(t)
    /\ UNCHANGED <<sCamAdapter, adapter, mStarted, mPendingBuffers,
                   mCapturedBuffers, mRequestSettings, allocated, req,
                   inflight, appBuffers, submitted>>

\* After close() returns: delete the adapter, sCamAdapters[camera_id] = NULL.
DeleteAdapter(t) ==
    /\ pc[t] = "close_delete"
    /\ adapter' = "deleted" /\ sCamAdapter' = FALSE
    /\ pc' = [pc EXCEPT ![t] = "idle"]

\* delete runs ~ICameraAdapter, whose member mAllocatedBuffers releases
\* the GraphicBuffers allocateMemory added since close() cleared it; the
\* raw pHandles of mMappedBuffers are not released.
CameraDeviceClose(t) ==
    /\ DeleteAdapter(t)
    /\ UNCHANGED <<device, mStarted, mPendingBuffers, mCapturedBuffers,
                   mBufferMapping, mMappedBuffers, mAllocatedBuffers,
                   mRequestSettings, allocated, freed, req, inflight,
                   appBuffers, submitted>>
    /\ gralloc' = ReleaseAllocated(gralloc)

-----------------------------------------------------------------------------

Init ==
    /\ sCamAdapter = FALSE /\ adapter = "none" /\ device = "none"
    /\ mStarted = FALSE
    /\ mPendingBuffers = <<>> /\ mCapturedBuffers = <<>>
    /\ mBufferMapping = <<>> /\ mMappedBuffers = <<>> /\ mAllocatedBuffers = {}
    /\ mRequestSettings = NULL /\ allocated = {} /\ freed = {}
    /\ pc = [t \in Threads |-> "idle"]
    /\ req = [t \in Threads |-> NoReq]
    /\ inflight = {}
    /\ appBuffers = Buffers /\ submitted = 0
    /\ gralloc = G!NoGralloc

Next ==
    \/ \E t \in Threads :
         \/ CameraDeviceOpen(t) \/ ConfigStreams(t) \/ SetParameters(t)
         \/ \E b \in Buffers : AllocateMemory(t, b) \/ QBuf(t, b)
         \/ Start(t) \/ Stop(t) \/ DqBuf(t) \/ CaptureCall(t)
         \/ CloseFlush(t) \/ FlushReturn(t) \/ CloseStep(t) \/ CameraDeviceClose(t)
    \/ \E r \in inflight : HalReturn(r)

Spec == Init /\ [][Next]_vars

-----------------------------------------------------------------------------
(* Properties                                                              *)

CallStates == {"call_from_qbuf", "call_from_start"}
LiveHandles == mAllocatedBuffers \cup (ToSet(mMappedBuffers) \ {BadHandle})

TypeOK ==
    /\ sCamAdapter \in BOOLEAN /\ mStarted \in BOOLEAN
    /\ adapter \in {"none", "live", "deleted"}
    /\ device \in {"none", "open", "ready", "configured", "closed"}
    /\ mPendingBuffers \in Seq(Buffers) /\ mCapturedBuffers \in Seq(Buffers)
    /\ DOMAIN mBufferMapping \subseteq Keys
    /\ \A k \in DOMAIN mBufferMapping : mBufferMapping[k] \in Handles
    /\ mMappedBuffers \in Seq(Handles) /\ mAllocatedBuffers \subseteq Buffers \ DmaBuffers
    /\ mRequestSettings \in allocated \cup {NULL} /\ freed \subseteq allocated
    /\ allocated \subseteq Settings
    /\ pc \in [Threads -> {"idle", "close_flushing", "close_locking", "close_delete"} \cup CallStates]
    /\ inflight \subseteq [buf : Buffers, handle : Handles]
    /\ appBuffers \subseteq Buffers /\ submitted \in 0..MaxSubmits
    /\ G!GrallocTypeOK(gralloc, Buffers)

\* The HAL reads request.settings during process_capture_request, which
\* capture() calls after dropping mLock: the pointer it reads was taken
\* from mRequestSettings before the unlock and must not have been freed
\* since, by setParameters() reallocating it or by close().
SettingsLiveDuringCall ==
    \A t \in Threads : pc[t] \in CallStates => req[t].settings \notin freed

\* Every request the HAL holds refers to a buffer handle that is still
\* mapped (by mapMemory or allocateMemory), on a device not yet closed:
\* close() flushes before it unmaps and closes.
HalUsesLiveResources ==
    \A r \in inflight : device # "closed" /\ r.handle \in LiveHandles

\* Whatever setParameters and close() do on other threads, the HAL touches
\* only live memory: the settings of a request being passed to it and the
\* buffers and device of every request it holds.
HalUsesLiveMemory == SettingsLiveDuringCall /\ HalUsesLiveResources

\* The close() step that unmaps the buffers passes to GRALLOC_UNMAP_FD only
\* handles GRALLOC_MAP_FD created.
CloseUnmapsOnlyMapped ==
    \A t \in Threads :
        (pc[t] = "close_locking" /\ pc'[t] = "close_delete")
            => BadHandle \notin ToSet(mMappedBuffers)

\* Once camera_device_close has closed and deleted the adapter, every
\* ashmem region and private_handle_t gralloc made for the camera (the
\* GraphicBuffers of allocateMemory, the handles of GRALLOC_MAP_FD) has been
\* released: the C API leaks no buffer memory across an open/close.
GrallocReleasedOnClose ==
    adapter = "deleted" => gralloc = G!NoGralloc

\* The lifecycle is memory safe: no step lets the HAL read freed settings,
\* an unmapped buffer or a closed device (whatever setParameters, close()
\* and qBuf do on other threads), close() never unmaps a handle that was
\* not mapped, and no gralloc buffer outlives camera_device_close.
LifecycleMemorySafety ==
    [][HalUsesLiveMemory' /\ CloseUnmapsOnlyMapped /\ GrallocReleasedOnClose']_vars

=============================================================================
