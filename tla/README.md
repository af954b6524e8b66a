# TLA+ models of the icamera adapter

These modules model `src/icamera_adapter/ICameraAdapter.cpp` and the code around it. The adapter is the layer that turns the
V4L2-like `icamera` API into camera3 HAL requests. The TLC runs check what the code does to
buffers and frame numbers when several threads and an asynchronous HAL interact.

## 1. The system

### Parts

| Part | Source | State | Operations |
|---|---|---|---|
| Capture coordination | `ICameraAdapter.cpp` `qBuf`, `dqBuf`, `start`, `stop`, `capture`, `processCaptureResult` | `mStarted`, `mPendingBuffers`, `mQueuedBuffers`, `mCapturedBuffers`, `mResults`, the function-static `frame_number`, fields `addr`/`sequence`/`timestamp` of the caller's `camera_buffer_t` | queue a buffer; dequeue with a 1 s timed wait; start (drain the pending queue); stop; HAL result callback |
| Buffer mapping table | `mapMemory`, `allocateMemory`, `gralloc.cpp` `gralloc_perform` | `mBufferMapping` (dma fd or address → handle) | lazy mapping of dma fds on first capture; allocation of non-dma buffers |
| Lifecycle | `open`, `close`, `configStreams`, `setParameters` | device, streams, `mRequestSettings` | open/close the HAL (close flushes unlocked, then unmaps), configure streams, replace the settings |
| C API / registry | wrappers at lines 65–370 and 639–657, `sCamAdapters` (`CameraRegistry`) | one adapter per camera id, the static `frame_number` shared by all adapters | open/close (new and delete), start/stop, qbuf, forwarding |
| Parameter conversion | `ParameterAdapter.cpp` | none (pure) | AE compensation and exposure clamping, fps range selection, DVS, banding |
| gralloc stub | `gralloc.cpp` | ashmem regions and private handles (framebuffer slot mask not modelled) | `gralloc_alloc`, `gralloc_free`, `gralloc_perform` (map/unmap an fd) |
| pvl face-detection filter | `pvl/pvl-gst/gst/pvl/gst_pvl_face_detection_filter.c` | pvl parameters, orientation, perf statistics | `set_property`, `change_state`, `sink_event`, `transform_frame_ip` |
| Static stream configurations | `ICameraAdapter.cpp` `camera_hal_init`, `get_camera_info`; `Parameters.cpp` `getSupportedStreamConfig` | static `sParameters[MAX_CAMERAS]`, `initDone` | read the HAL's configurations once; hand them to the application |
| cv_trace viewer | `pvl/pvl-cvtrace/src/cv_trace_gui.c` | selected filters, source, media file, pipeline and its elements' parameters, bus, detection counts, parameter entries | GTK callbacks on the main loop, `bus_cb`, the streaming thread's bus messages |
| pvl face-recognition filter | `pvl/pvl-gst/gst/pvl/gst_pvl_face_recognition_filter.c` | the pvl handle's face database and parameters | `transform_frame_ip`, `set_property` (max faces, database file via `loadExternalDB`) |

### Actors

- The application threads call `qBuf`/`dqBuf`/`start`/`stop`.
- The HAL's callback thread calls `processCaptureResult`.
- The adapter's `mLock`/`mCondition` serialise them.
- `capture()` releases `mLock` while it calls `process_capture_request`.
- `dqBuf` releases it in `mCondition.waitRelative`.

### What makes it hard

- The HAL delivers a request's metadata and buffer as two separate partial results.
- HAL callbacks run concurrently with application threads.
- Unlocking around the HAL call allows two captures to overtake one another.
- The code matches every result to `mQueuedBuffers.at(0)`, not by frame number.
- dma buffers are mapped lazily, and mapping failures are ignored.
- A `dqBuf` timeout can race a completion.

## 2. Module `ICameraAdapter` and how it corresponds to the code

Each `mLock` critical section is one atomic action. A thread's `pc` records the two points where
`mLock` is released inside an operation:

- `capture_call`: the HAL call;
- `dq_wait`: the condition wait.

| Action | Code |
|---|---|
| `QBuf(t,b)` | `qBuf` 639–657: pending if not started, else `Capture` |
| `Capture(t,b,from)` | `capture` 687–727: mapping lookup/`mapMemory`, `frame_number++`, push to `mQueuedBuffers`, unlock |
| `ProcessCaptureRequest(t)` | 727–733: the HAL accepts (blocking while `MaxInFlight` requests are held) or rejects |
| `CaptureRelock(t)` | 734–741 |
| `Start(t)` / `StartLoop(t)` | `start` 351–362, one loop iteration per step, capture status ignored |
| `Stop(t)` | 364–370 |
| `DqBuf` / `DqTimeout` / `DqResume` / `PopCaptured` | `dqBuf` 618–637 |
| `ProcessCaptureResult(i,kind,hasTs)` | 743–813: the whole callback, including the `at(0)` rewrite of `addr`/`sequence` and the completion |

- `Init` is the state after `allocateMemory` of every non-dma buffer (549–616).
- The HAL is an environment. It holds `inflight` requests.
- `DriverOrder` fixes which pending partial result it may return next:
  - `Lockstep`: all results of the oldest request first;
  - `PerStream`: metadata in order and buffers in order, independently (what camera3 allows);
  - `Any`: no order.
- `frameOf` is an auxiliary variable: the frame number of each buffer's latest capture.
- Memory addresses are modelled as buffer identities. `addr[b] = b` means "its own memory".
- `BadHandle` is the uninitialised handle that a failed `GRALLOC_MAP_FD` leaves.

### Fairness

- **`WF_vars(ThreadStep(t))` for each thread.** A thread in `capture_call`, `capture_relock`,
  `dq_woken` or `dq_wait` only needs `mLock`, and `Mutex` is not starved in practice.
- **`WF_vars(HalStep)`.** The HAL keeps returning results for the requests it accepted.
- **No fairness on the application's own calls.** The application may stop calling.

### Properties

| Property | Kind | Statement |
|---|---|---|
| `TypeOK` | invariant | types only; documents the state space and is not part of a run |
| `BufferAccounting` | invariant | exactly-once ownership: each buffer is with the app or once in one of the three queues |
| `QueuedMatchesOutstanding` | invariant | `mQueuedBuffers` is exactly the buffers of the requests the HAL still owes. The `at(0)` matching depends on it. |
| `DeliveredIntact` | invariant | a buffer in `mCapturedBuffers` has its own address, its own frame as `sequence`, and that frame's timestamp |
| `HalReceivesInOrder` | step predicate | a request reaching `process_capture_request` carries a frame number above every one the HAL has received |
| `QueuedEventuallyCaptured` | liveness | every buffer given to the HAL returns to `mCapturedBuffers` |
| `ImplementsBufferQueue` | refinement | the adapter implements `BufferQueue` (section 6) |
| `CaptureContract` | action | every step is a `BufferQueue` step (or leaves its variables alone) leaves every delivered buffer intact, and satisfies `HalReceivesInOrder`: stated step by step so that one run checks all three |

## 3. Module `AdapterLifecycle`

The lifecycle around the capture engine, from `camera_device_open` to `camera_device_close`
(ICameraAdapter.cpp 224–245, 313–346, 372–450, 459–497, 549–734, 805–812). Result matching is
abstracted: the HAL holds a set `inflight` of requests, each with the handle and the settings
pointer it was given, and returns them in any order.

- `CameraDeviceOpen`: registers the adapter; `open()` may fail in `initialize` or in the default
  request (`InitMayFail`).
- `SetParameters`: `CameraMetadata::update` may reallocate the settings buffer and free the old
  one (`SettingsMayRealloc`); the new pointer becomes `mRequestSettings`.
- `Capture` / `ProcessCaptureRequest`: the request takes `mRequestSettings` and the buffer's
  handle under `mLock`; the HAL reads them after the unlock.
- `AllocateMemory`: the `GraphicBuffer` is allocated by gralloc (`G!GrallocAllocOutcomes`); a
  failed `initCheck()` returns without a mapping.
- `MapMemoryOutcomes`: `mapMemory` calls `GRALLOC_MAP_FD` (`G!PerformMapFdOutcomes`) and stores
  the handle whatever the status (`BadHandle` when the map failed).
- `CloseFlush` (flush, no lock), `FlushReturn` (flush returns once the HAL has returned every
  request it held, the camera3 contract of `flush`; nothing stops another thread from submitting
  before `close()` takes `mLock`), `CloseLocked` (release the `GraphicBuffer`s and pass every
  pushed handle to `GRALLOC_UNMAP_FD`, `ReleaseGralloc`; free the settings without clearing the
  pointer; close the device), `DeleteAdapter` / `CameraDeviceClose` (delete, clear the entry; no
  lock; the destructor releases any `GraphicBuffer` allocated since `close()`).

The variable `gralloc` is the gralloc module's state; `G == INSTANCE Gralloc` supplies its
operations (section 7a), so an adapter step and the gralloc calls it makes are one atomic step.

| Property | Kind | Statement |
|---|---|---|
| `TypeOK` | invariant | types only; not part of a run |
| `SettingsLiveDuringCall` | invariant | the settings a thread passes to `process_capture_request` are not freed |
| `HalUsesLiveResources` | invariant | every request the HAL holds refers to an open device and a mapped or allocated handle |
| `HalUsesLiveMemory` | invariant | both of the above: nothing the HAL reads, during or after the call, has been freed or unmapped |
| `CloseUnmapsOnlyMapped` | step predicate | `close()` never passes a handle that `GRALLOC_MAP_FD` did not write to `GRALLOC_UNMAP_FD` |
| `GrallocReleasedOnClose` | invariant | once `camera_device_close` has deleted the adapter, gralloc holds no region or handle made for it |
| `LifecycleMemorySafety` | action | every step keeps `HalUsesLiveMemory` and `GrallocReleasedOnClose`, and a closing step satisfies `CloseUnmapsOnlyMapped` |

`camera_device_close` ends the behaviour (one open per behaviour), so its runs set
`CHECK_DEADLOCK FALSE`.

## 4. Module `CameraParameters`

The parameter path: the application's `Parameters` object (constructor defaults, six setters),
`setParameters` and every `ParameterAdapter` conversion it calls.

- The camera's static metadata is a set of constants. A missing entry is `NoEntry`, and the data
  is a sequence, so the code's count checks stay.
- Each conversion is an operator returning a status and the value it writes:
  - `convertAeComp` divides with C truncation toward zero (`CDiv`), then caps the max and then
    the min.
  - `convertFps` is the recursive loop `FpsSearch`: a matching fixed range breaks; the last
    containing range is kept; index 0 is the fallback.
  - `convertExposureTime` converts µs to ns and clamps.
  - `convertBandingMode` falls back to AUTO.
- `SetParameters` is the whole method:
  - it returns early while `mRequestSettings` is NULL;
  - it writes every successful conversion;
  - it sets `mOperationMode` from the requested fps and DVS mode.
- `SetParametersNotReady` is that early return: `setParameters` returns an error status.
- `status` is what the last `setParameters` returned: `StatusOf` the antibanding conversion
  (449), or `ERROR` for the early return.
- `ConfigStreams` is `configStreams` (459–497) as far as this module needs it: it passes the
  current `mOperationMode` to `configure_streams`; `configured` records it.
- `requested` is an auxiliary variable: the parameters the last call read.

| Property | Kind | Statement |
|---|---|---|
| `TypeOK` | invariant | types; the operation mode is at most one fps bit plus the DVS bit |
| `SettingsWithinCapabilities` | invariant | every value written is one the camera advertises (clamped ranges, listed fps pair, DVS only if available, supported antibanding or AUTO) |
| `FpsRangeSelection` | invariant | the written fps range is the fixed range for the requested fps if advertised, else a containing range, else the first |
| `ConfiguredModeMatchesSettings` | invariant | the operation mode the last `configStreams` passed to the HAL agrees with the fps range and DVS mode in the current request settings |
| `SetParametersReportsFailure` | invariant | when `setParameters` returns OK, every conversion of the parameters it read succeeded |
| `SetParametersContract` | invariant | both of the above |

The MC camera (`MC_CameraParameters`):

- AE compensation: 1/3 EV steps over [-6, 6];
- fps ranges: [15,30], [30,30] and [30,60];
- no DVS; AUTO and 50 Hz antibanding; exposure 1 µs to 33 ms;
- requests below, inside and above every range, including 90 fps, which no range contains.

The `int32`/`int64` products are not modelled at their width, because TLC's integers are 32-bit.

## 5. Module `PvlFdFilter`

The face-detection filter's streaming thread (`transform_frame_ip`) against application threads
(`set_property`, `change_state`). Each `GST_OBJECT_LOCK` section is one step. The perf-statistics
block that runs with no lock is one step per statement (`PerfCount`, `PerfStart`, `PerfCheck`,
`PerfPrint`). Time is abstracted: a frame either starts within 3 s of the window start or after
it, and a window start of 0 always counts as elapsed (the monotonic clock is past 3 s).
`set_property` is split: it reads the parameters before the lock and writes them under it.

| Property | Kind | Statement |
|---|---|---|
| `ReportCountNonZero` | state predicate | the statistics report, which divides by `count`, is reached only with `count > 0` |
| `SetPropertiesKept` | state predicate | once no `set_property` is in progress, the pvl parameters are the values last set for each property (`lastSet`, an auxiliary variable written by each call) |
| `FdFilterConsistent` | invariant | both of the above |

## 6. Module `BufferQueue` and the refinement

`BufferQueue` is the contract of spec.md sections 3 and 4.2, written without any of the adapter's
mechanism: the caller holds some buffers; `Submit` queues a buffer while stopped and dispatches it
at once while started, never ahead of a pending one; `Start` starts draining the pending queue in
FIFO order (`Dispatch` continues a drain that began); the driver `Complete`s dispatched requests
in any order; `Drain` returns completed buffers in completion order.

`ICameraAdapter` ends with

```
Queue == INSTANCE BufferQueue WITH held <- appBuffers, started <- mStarted,
    pending <- mPendingBuffers, dispatched <- mQueuedBuffers, ready <- mCapturedBuffers
ImplementsBufferQueue == Queue!Spec
```

so every adapter step must be a `BufferQueue` step or leave the five mapped variables alone.
With one application thread (`core`) it is; with two (`capture_contract`) it is not.

## 7. Module `StaticMetadata`

`camera_hal_init` (ICameraAdapter.cpp 114–210) as one action: the `initDone` early return, the
loop over `MAX_CAMERAS` as the recursive `HalInitLoop` with each of its four `UNKNOWN_ERROR`
exits (no metadata, no entry, fewer than 4 ints, no NV12 output), the eight-int rewrite
`StreamConfigVec`, and `Parameters::merge`, which replaces the entry. `ac2info` is declared
before the loop, so a camera id the HAL lacks reuses the previous camera's info.
`GetSupportedStreamConfig(c)` is `get_camera_info`'s `CAMERA_ID_CHECK` followed by
`Parameters::getSupportedStreamConfig` (Parameters.cpp 362–387), which parses groups of
`STREAM_MEMBER_NUM` = 4 ints. A metadata entry is a flat sequence of ints.

| Property | Kind | Statement |
|---|---|---|
| `SupportedConfigsAreHalOutputs` | invariant | every `stream_t` the application reads is an NV12 output the HAL advertises, with stride = width and an NV12 size |

## 7a. Module `Gralloc`

The gralloc stub's operations as operators from its state, a record of the ashmem regions and
private handles it has made, to the outcomes a call may have. They have no variables of their
own: `AdapterLifecycle` takes an outcome in the same step as the adapter code that calls them.

- `GrallocAllocOutcomes` (`gralloc_alloc`): an unknown format is `EINVAL`; otherwise
  `AllocBufferOutcomes` (`gralloc_alloc_buffer`): `ashmem_create_region` may fail with nothing
  made; `mapBuffer` may fail after the region and the handle exist, and both stay allocated.
- `GrallocFree`: a handle `validate()` rejects is `EINVAL`; otherwise unmap, close, delete.
- `PerformMapFdOutcomes` / `PerformUnmapFd`: the two `gralloc_perform` operations.

`MapMayFail` of `AdapterLifecycle` lets both `ashmem_create_region` and `mapBuffer` fail.
Sizes and strides are left out, and so is the framebuffer path (section 10).

## 7b. Module `CameraRegistry`

The C API over several cameras at once: the `sCamAdapters` registry and the function-static
`frame_number` of `capture()`, which every `ICameraAdapter` object shares while each guards it
with its own `mLock`. Adapters are named by the order of their `new`; each application thread
streams one camera (`CameraOf`), as a camerasrc element does. Buffers are counted, not named.

| Action | Code |
|---|---|
| `CameraDeviceOpen(t)` | `camera_device_open` 224–230: a new adapter overwrites `sCamAdapters[camera_id]` |
| `CameraDeviceClose(t)` | `camera_device_close` 232–245: `close()`, delete, NULL (one step; its interleavings are in `AdapterLifecycle`) |
| `CameraDeviceStart(t)` / `StartLoop(t)` | `start` 351–362: lock, set `mStarted`, drain `mPendingBuffers` |
| `CameraDeviceStop(t)` | `stop` 364–370 |
| `CameraStreamQbuf(t)` | `qBuf` 639–657: pending while stopped, else `capture()` |
| `FrameNumberLoad(t)` / `FrameNumberStore(t)` | `frame_number++` (709) as a load and a store, then the unlock (725) |
| `ProcessCaptureRequest(t)` | 727–733: the HAL call with `mLock` released, then relock |

| Property | Kind | Statement |
|---|---|---|
| `TypeOK` | invariant | types |
| `OpenAdaptersRegistered` | state predicate | every adapter not deleted is the one `sCamAdapters` holds for its camera, so `camera_device_close` can still reach it |
| `FramesIncreasePerDevice` | state predicate | each device's `process_capture_request` receives strictly increasing frame numbers |
| `RegistrySafety` | invariant | both of the above |

## 8. Module `PvlFrFilter`

The face-recognition filter's pvl handle shared by the streaming thread and the application
thread. `TransformBegin` is `transform_frame_ip` up to `run_in_preview_with_rect` (under
`GST_OBJECT_LOCK`; no face or a failed result buffer releases it at once), `TransformEnd` its
return, the unlock and the unlocked tail (meta, bus message, statistics, which touch nothing of
the handle). `SetMaxRecognizableFaces` is the locked `set_parameters`. `LoadExternalDB` is
`set_property(PROP_DATABASE_FILE)` up to `pvl_face_recognition_reset`: every exit before the
reset (no file, short header, count out of range) leaves the handle alone. `LoadEntry` is one
turn of the register loop, which can succeed, hit a short `fread` or a failed registration.

| Property | Kind | Statement |
|---|---|---|
| `DbStableDuringRecognition` | action | no step changes the face database while `run_in_preview_with_rect` runs |

## 8a. Module `CvTraceGui`

The cv_trace viewer. Every GTK callback and `bus_cb` runs on the main loop, so each is one
action. The streaming thread's bus posts (`PostElement`, `PostEOS`) are the other actor. A
pipeline is a record: its filters, its source, its `GstState`, and the parameter value each FD,
FR and PD element holds. A filter's parameters are abstracted to one value, `default` or `custom`.
An entry's text may also be `invalid`.

- `RestartOutcomes` is `restart_pipeline`. It returns at once for a video source without a file;
  otherwise it builds a new pipeline with default parameters and sets it to PLAYING, which may
  fail.
- `RestartPipeline` is a restart followed, at the call sites that have it, by
  `update_pvl_parameters`. `UpdatePvlParameters` applies every valid non-default entry to its
  element. It stops at the first selected filter without an element.
- `RestartShowingDefaults` is `restart_pipeline` followed by `set_widget_pvl_default_value` on
  whatever pipeline `app_data` then holds (the old one after the early return): the selected
  filters' entries with an element show its default (`DefaultEntries`).
- `FilterToggled` is a check button's callback and `changed_pvl_filter`. It clears the counts and
  calls `RestartShowingDefaults`. A box toggles from what its bit says, and the FD box is
  insensitive while FR is on (`update_gtk_setting_widgets_for_pvl_filter`).
- `SourceTypeChanged` to a camera and `FileChosen` with a file call `RestartShowingDefaults`.
  `PlayPause` after EOS creates a pipeline and sets it PLAYING with neither
  `update_pvl_parameters` nor the entry reset.
- `EntryEdited` is the user typing; `EntryEntered` is Enter, which runs `SetParam`. An invalid
  text restores the element's value.
- `PropertyResetClicked` is the reset button.
- `BusElement` and `BusEOS` are `bus_cb`. FD results are ignored while FR is selected. EOS loops
  a video with a new pipeline and `update_pvl_parameters`, or marks `is_EOS`.
- `WindowClosed` stops the pipeline and quits.

| Property | Kind | Statement |
|---|---|---|
| `OverlayMatchesSelection` | state predicate | while the pipeline plays, `draw_overlay_cb` draws only selected filters |
| `ParamsMatchEntries` | state predicate | while the pipeline plays, each selected filter's entry, unless typed in since the program last set or applied it, shows what its element uses |
| `PipelineFollowsUi` | invariant | both of the above |

## 9. Runs

There are 12 runs, each given by a config file. `CameraRegistry` has only a violation run: both its
properties fail on short traces, and a passing variant would need a run slot.

- `ICameraAdapter` runs have `MaxInFlight = 2`.
- `AdapterLifecycle` runs have `MaxInFlight = 1`.

### Passing runs

- **`core`** (`MC_ICameraAdapter`)
  - Setup: 1 thread; 3 buffers, 2 of them dma; `Lockstep`; 5 submits.
  - Checks: `QueuedMatchesOutstanding`, `DeliveredIntact`, `QueuedEventuallyCaptured` and the
    refinement `ImplementsBufferQueue`. Exactly-once ownership and the HAL's frame order need a
    second thread; `two_threads` and `capture_contract` check them.
  - Buffers recycle through `dqBuf` and remap; the pipeline fills; a `dqBuf` timeout meets a late completion.
- **`two_threads`** (`MC_ICameraAdapter`)
  - Setup: 2 threads; 2 dma buffers; 3 submits; the HAL may reject a request.
  - Checks: `BufferAccounting`.
  - Neither the start()/qBuf race nor a rejected request loses or duplicates a buffer when every
    buffer is dma (GStreamer's dma mode). Both still break delivery or order; see below.
- **`lifecycle`** (`MC_AdapterLifecycle`)
  - Setup: 1 thread; one dma and one allocated buffer; open may fail; settings may be reallocated; 4 submits.
  - Checks: `GrallocReleasedOnClose`.
  - When gralloc does not fail, nothing it allocates outlives `camera_device_close`. The HAL's
    use of freed or unmapped memory needs a second thread and is checked by `lifecycle_memory`.
- **`parameters`** (`MC_CameraParameters`)
  - Setup: every interleaving of setters, `setParameters` and `configStreams` over the values above, about 4.3 million states.
  - Checks: `TypeOK`, `SettingsWithinCapabilities`, `FpsRangeSelection`.

### Violation runs

Each records one or more findings in `PROJECT.json`. TLC reports the shortest counterexample; where
a run has two findings, the second was seen with the other mechanism switched off.

| Run | Setup | Broken property | What happens in the code |
|---|---|---|---|
| `capture_contract` | 2 threads, `PerStream`, HAL may reject | `CaptureContract` | A buffer result of frame n+1 arriving before the metadata of frame n is written into frame n's buffer (line 791); a rejected request's buffer stays at the front of `mQueuedBuffers` (731). `start()` drains `mPendingBuffers` with `mLock` dropped around each capture (727), while `qBuf` captures at once because `mStarted` is set (648): a later buffer overtakes pending ones, and the HAL receives a higher frame number before a lower one. With an allocated buffer, the `addr` rewrite (797) makes it unfindable and `start()` drops it (359). |
| `lifecycle_memory` | 2 threads, realloc, gralloc may fail | `LifecycleMemorySafety` | `setParameters` frees the settings a concurrent `capture()` has handed to the HAL (447). `close()` flushes without `mLock` (331) and then unmaps what a later `qBuf` submitted. A failed `GRALLOC_MAP_FD` (ignored at 522) leaves an uninitialised handle that `close()` unmaps and deletes (337). `gralloc_alloc_buffer` leaks its region and handle when `mapBuffer` fails (gralloc.cpp:209). A capture on another thread between `close()` and the delete maps an fd that is never unmapped (544). |
| `set_parameters_contract` | a camera with no exposure time range | `SetParametersContract` | At 90 fps no advertised range exists: the mode says 90 fps while the requests target [15,30] (407, 425). A requested DVS on a camera without DVS sets `OP_MODE_DVS`. `setParameters` returns the antibanding conversion's status only (449), so OK after a failed exposure conversion. `configStreams` passed the mode of earlier parameters, and a later `setParameters` changes the settings without reconfiguring (476). |
| `fd_filter_races` | 1 streaming thread, 2 app threads, 4 frames | `FdFilterConsistent` | `change_state` zeroes `count` and `start_time` between a frame's count and its report, and `fd_time / count` divides by zero. `set_property` copies the whole parameter block before the lock and writes it back under it (455), so of two concurrent calls one property's new value is lost. |
| `stream_configs` | 1 camera: NV12 out, BLOB out, NV12 in | `SupportedConfigsAreHalOutputs` | `camera_hal_init` stores eight ints per config (175–178) while `getSupportedStreamConfig` reads four, so every other config the application gets is format 0, 0×0. |
| `ui_follows_controls` | filters FD, FR, PD; 1 detection; 2 bus messages | `PipelineFollowsUi` | After the file selection is cleared, `restart_pipeline` returns early (500): the old pipeline keeps playing, a deselected filter's results are drawn, and `set_widget_pvl_default_value` resets entries whose elements keep the applied values. Play after EOS (1922) builds elements with default parameters while the entries show the applied ones. The reset button applies the PD entries only in an `else if` after FR (1797). |
| `camera_registry` | 2 cameras, 1 thread each, 3 opens, 4 frames, 1 pending buffer | `RegistrySafety` | Two adapters' `capture()` increment the shared static `frame_number` (709) under different locks: a lost update gives one device the same frame number twice. A second `camera_device_open` of an open camera (228) overwrites the registry entry, so the first adapter and its device can never be closed. |
| `fr_db_race` | files of 1 and 2 faces | `DbStableDuringRecognition` | `loadExternalDB` (from `set_property`, 516) resets and re-registers the database without `GST_OBJECT_LOCK` while `run_in_preview_with_rect` holds it. |

### Why the bounds are enough

- **`ICameraAdapter`.** The code's behaviours repeat after one buffer has been recycled. Every
  hazard needs at most two outstanding requests and one recycled buffer. Five submits over three
  buffers give every buffer a second capture. Two threads are the most that the code's two-thread
  races involve.
- **`AdapterLifecycle`.** A single request in flight is enough to be freed or unmapped under the
  HAL. Three settings pointers allow one reallocation and one free.
- **`CameraParameters`.**
  - The chosen fps values hit the fixed range, a variable range and no range.
  - The ev and exposure values hit both caps and the interior.
  - Every enumeration is complete.
- **`PvlFdFilter`.** The race needs one frame and one state change. Four frames allow a report
  before and after the reset. Two application threads setting different properties are enough
  for the lost update.
- **`CameraRegistry`.** The lost update needs two cameras and one capture on each; four frames
  let each device receive a second one. Three opens allow a double open and a reopen after
  close; one pending buffer sends `start()` through its drain loop.
- **`StaticMetadata`.** One NV12 output is enough for the mis-parse; the BLOB output and the
  input show the filter; the second id of `MAX_CAMERAS` takes the carried-over `ac2info`.
- **`CvTraceGui`.** One detection per message and two queued messages are enough for a
  stale message to reach `bus_cb` after a restart. Three filters include both FR (which hides
  FD) and PD (the reset's `else if`).
- **`PvlFrFilter`.** One frame in recognition and one load are enough; the two files let a load
  replace a loaded database.

### Fairness

Only `ICameraAdapter`'s liveness property uses fairness (section 2). The other modules check
safety only.

## 10. Not modelled, and why

- **Logging, property, call-stack and fence stubs, and the `RWLock` wrapper.** No state that any
  property could tell apart.
- **Parts of the cv_trace GUI.** Widget layout, labels, logging and pipeline description strings
  are left out. `draw_overlay_cb` runs on the streaming thread and reads, without a lock, the
  counts and rectangles that `bus_cb` writes. That torn read, and the unchecked
  `MAX_DETECTABLE` bound, are listed as hazards. The FR database chooser is not modelled.
- **The face-recognition filter's statistics.** They repeat the detection filter's unlocked
  reset (lines 222–240, 404–437), so `fd_filter_races` speaks for them; `TransformEnd` is that
  tail as one step. The log flags, orientation and `get_property` have no shared state.
- **The rest of `Parameters`.** The fields the adapter never reads (regions, AWB, gains). Most
  of their setters are stubs that return OK without storing anything; no property could tell them
  apart.
- **The gralloc framebuffer allocator, `gralloc_lock` and `mapBuffer`.** Nothing in the repository allocates framebuffers, and
  `mapFrameBufferLocked` is not in the repository. No caller asks for `GRALLOC_USAGE_HW_FB`, so
  the unlocked `bufferMask` clear (gralloc.cpp:310) is never reached and is not listed as a hazard.
- **The `int32`/`int64` multiplications of `ParameterAdapter`.** They are not modelled at their
  width, because TLC's integers are 32-bit.
- **`s_notify`.** Only logs.
- **Pixel data and metadata contents.** Abstracted to identities and timestamps.

## 11. Plan for the next modules

1. **HAL misbehaviour.** Duplicated or unmatched results: the `mResults` entry created at
   751–757 is never erased.
2. **A passing run for `CvTraceGui`** restricted to the restart paths that call
   `update_pvl_parameters`, and one for `CameraRegistry` with a single open per camera, once run
   slots are free.
3. **A failed database load** of `PvlFrFilter` (a short `fread` after the reset) once the
   intended outcome is stated somewhere.
