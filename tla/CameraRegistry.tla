--------------------------- MODULE CameraRegistry ---------------------------
(***************************************************************************)
(* The icamera C API over several cameras (ICameraAdapter.cpp): the        *)
(* sCamAdapters registry that camera_device_open / camera_device_close     *)
(* fill and empty and that every other wrapper dereferences, and the       *)
(* capture path of qBuf and start() down to process_capture_request, with  *)
(* the function-static frame_number of capture() that all ICameraAdapter   *)
(* objects share while each guards it with its own mLock.                  *)
(*                                                                         *)
(* An adapter is named by the order of its `new` (1, 2, ...).  Each        *)
(* application thread streams one camera (CameraOf), as a camerasrc        *)
(* element does.  Buffers are counted, not named: which buffer a request   *)
(* carries, the mapping table and the results are in ICameraAdapter.tla;   *)
(* here every capture finds its mapping.  close() is one step: its         *)
(* interleavings are in AdapterLifecycle.tla.                              *)
(***************************************************************************)
EXTENDS Naturals, Sequences, FiniteSets

CONSTANTS
    Cameras,        \* the ids 0 .. get_number_of_cameras()-1 (CAMERA_ID_CHECK passes)
    Threads,        \* application threads
    CameraOf,       \* the camera each thread streams
    MaxOpens,       \* bound on camera_device_open calls (new ICameraAdapter)
    MaxFrames,      \* bound on frame_number (the static int; its overflow is not reached)
    MaxPending,     \* bound on buffers queued before start()
    NULL

ASSUME /\ CameraOf \in [Threads -> Cameras]
       /\ MaxOpens \in Nat /\ MaxFrames \in Nat /\ MaxPending \in Nat

Adapters == 1..MaxOpens

VARIABLES
    sCamAdapters,   \* camera id -> adapter or NULL
    cameraOf,       \* sequence: the camera id each adapter was constructed for
    deleted,        \* adapters deleted by camera_device_close
    devOpen,        \* adapters whose camera3 device is open (constructor .. close())
    mLock,          \* adapter -> the thread holding its mLock, or NULL
    mStarted,       \* adapter -> BOOLEAN
    mPending,       \* adapter -> number of buffers in mPendingBuffers
    frame_number,   \* the function-static int of capture()
    pc,             \* thread -> where it is in the C API
    cur,            \* thread -> the adapter it is calling into
    loaded,         \* thread -> the frame_number it loaded for frame_number++
    halFrames       \* adapter -> frame numbers given to its process_capture_request

vars == <<sCamAdapters, cameraOf, deleted, devOpen, mLock, mStarted, mPending,
          frame_number, pc, cur, loaded, halFrames>>

Created == 1..Len(cameraOf)
Idle(t) == pc[t] = "idle"
\* CALL_ADAPTOR_AND_RETURN: the wrapper calls into sCamAdapters[camera_id].
Registered(t) == sCamAdapters[CameraOf[t]] # NULL
Target(t) == sCamAdapters[CameraOf[t]]
Lock(a, t) == mLock' = [mLock EXCEPT ![a] = t]
Unlock(a) == mLock' = [mLock EXCEPT ![a] = NULL]

-----------------------------------------------------------------------------
\* camera_device_open: a new ICameraAdapter (whose constructor opens the
\* camera3 device) is stored in sCamAdapters[camera_id] whatever was there;
\* open() follows (initialize, default request; its failures are in
\* AdapterLifecycle.tla and leave the adapter registered).
CameraDeviceOpen(t) ==
    LET a == Len(cameraOf) + 1
    IN  /\ Idle(t) /\ Len(cameraOf) < MaxOpens
        /\ cameraOf' = Append(cameraOf, CameraOf[t])
        /\ sCamAdapters' = [sCamAdapters EXCEPT ![CameraOf[t]] = a]
        /\ devOpen' = devOpen \cup {a}
        /\ UNCHANGED <<deleted, mLock, mStarted, mPending, frame_number, pc,
                       cur, loaded, halFrames>>

\* camera_device_close: for a registered adapter, close() (flush, then
\* under mLock release the buffers and close the device), delete, NULL.
CameraDeviceClose(t) ==
    LET a == Target(t)
    IN  /\ Idle(t) /\ Registered(t) /\ mLock[a] = NULL
        /\ devOpen' = devOpen \ {a}
        /\ deleted' = deleted \cup {a}
        /\ sCamAdapters' = [sCamAdapters EXCEPT ![CameraOf[t]] = NULL]
        /\ UNCHANGED <<cameraOf, mLock, mStarted, mPending, frame_number, pc,
                       cur, loaded, halFrames>>

\* camera_device_stop: stop() clears mStarted under mLock.
CameraDeviceStop(t) ==
    LET a == Target(t)
    IN  /\ Idle(t) /\ Registered(t) /\ mLock[a] = NULL
        /\ mStarted' = [mStarted EXCEPT ![a] = FALSE]
        /\ UNCHANGED <<sCamAdapters, cameraOf, deleted, devOpen, mLock,
                       mPending, frame_number, pc, cur, loaded, halFrames>>

\* camera_device_start: start() takes mLock, sets mStarted and then drains
\* mPendingBuffers, calling capture() for each (StartLoop).
CameraDeviceStart(t) ==
    LET a == Target(t)
    IN  /\ Idle(t) /\ Registered(t) /\ mLock[a] = NULL
        /\ Lock(a, t)
        /\ mStarted' = [mStarted EXCEPT ![a] = TRUE]
        /\ pc' = [pc EXCEPT ![t] = "start_loop"]
        /\ cur' = [cur EXCEPT ![t] = a]
        /\ UNCHANGED <<sCamAdapters, cameraOf, deleted, devOpen, mPending,
                       frame_number, loaded, halFrames>>

\* The while loop of start(): the oldest pending buffer goes to capture(),
\* or, with none left, start() returns and the Autolock releases mLock.
StartLoop(t) ==
    LET a == cur[t]
    IN  /\ pc[t] = "start_loop"
        /\ IF mPending[a] > 0
           THEN /\ mPending' = [mPending EXCEPT ![a] = @ - 1]
                /\ pc' = [pc EXCEPT ![t] = "fn_load_start"]
                /\ UNCHANGED mLock
           ELSE /\ pc' = [pc EXCEPT ![t] = "idle"]
                /\ Unlock(a)
                /\ UNCHANGED mPending
        /\ UNCHANGED <<sCamAdapters, cameraOf, deleted, devOpen, mStarted,
                       frame_number, cur, loaded, halFrames>>

\* camera_stream_qbuf: qBuf() takes mLock; while started the buffer goes to
\* capture(), otherwise to mPendingBuffers and the call returns.
CameraStreamQbuf(t) ==
    LET a == Target(t)
    IN  /\ Idle(t) /\ Registered(t) /\ mLock[a] = NULL
        /\ IF mStarted[a]
           THEN /\ Lock(a, t)
                /\ pc' = [pc EXCEPT ![t] = "fn_load_qbuf"]
                /\ cur' = [cur EXCEPT ![t] = a]
                /\ UNCHANGED mPending
           ELSE /\ mPending[a] < MaxPending
                /\ mPending' = [mPending EXCEPT ![a] = @ + 1]
                /\ UNCHANGED <<mLock, pc, cur>>
        /\ UNCHANGED <<sCamAdapters, cameraOf, deleted, devOpen, mStarted,
                       frame_number, loaded, halFrames>>

-----------------------------------------------------------------------------
(* capture(), with the mapping found: request.frame_number =               *)
(* frame_number++ is a load and a store of a static int that no lock       *)
(* common to the adapters protects; then mLock is released around          *)
(* process_capture_request and taken again.                                *)

LoadStates == {"fn_load_qbuf", "fn_load_start"}
StoreOf(s) == IF s = "fn_load_qbuf" THEN "fn_store_qbuf" ELSE "fn_store_start"
CallOf(s) == IF s = "fn_store_qbuf" THEN "call_qbuf" ELSE "call_start"

FrameNumberLoad(t) ==
    /\ pc[t] \in LoadStates /\ frame_number < MaxFrames
    /\ loaded' = [loaded EXCEPT ![t] = frame_number]
    /\ pc' = [pc EXCEPT ![t] = StoreOf(pc[t])]
    /\ UNCHANGED <<sCamAdapters, cameraOf, deleted, devOpen, mLock, mStarted,
                   mPending, frame_number, cur, halFrames>>

FrameNumberStore(t) ==
    /\ pc[t] \in {"fn_store_qbuf", "fn_store_start"}
    /\ frame_number' = loaded[t] + 1
    /\ pc' = [pc EXCEPT ![t] = CallOf(pc[t])]
    /\ Unlock(cur[t])
    /\ UNCHANGED <<sCamAdapters, cameraOf, deleted, devOpen, mStarted,
                   mPending, cur, loaded, halFrames>>

\* process_capture_request, then mLock.lock(): qBuf returns (releasing it),
\* start() goes on with its loop.
ProcessCaptureRequest(t) ==
    LET a == cur[t]
    IN  /\ pc[t] \in {"call_qbuf", "call_start"} /\ mLock[a] = NULL
        /\ halFrames' = [halFrames EXCEPT ![a] = Append(@, loaded[t])]
        /\ IF pc[t] = "call_qbuf"
           THEN pc' = [pc EXCEPT ![t] = "idle"] /\ UNCHANGED mLock
           ELSE pc' = [pc EXCEPT ![t] = "start_loop"] /\ Lock(a, t)
        /\ UNCHANGED <<sCamAdapters, cameraOf, deleted, devOpen, mStarted,
                       mPending, frame_number, cur, loaded>>

-----------------------------------------------------------------------------
Init ==
    /\ sCamAdapters = [c \in Cameras |-> NULL]
    /\ cameraOf = <<>>
    /\ deleted = {} /\ devOpen = {}
    /\ mLock = [a \in Adapters |-> NULL]
    /\ mStarted = [a \in Adapters |-> FALSE]
    /\ mPending = [a \in Adapters |-> 0]
    /\ frame_number = 0
    /\ pc = [t \in Threads |-> "idle"]
    /\ cur = [t \in Threads |-> NULL]
    /\ loaded = [t \in Threads |-> 0]
    /\ halFrames = [a \in Adapters |-> <<>>]

Next ==
    \E t \in Threads :
        \/ CameraDeviceOpen(t) \/ CameraDeviceClose(t)
        \/ CameraDeviceStart(t) \/ CameraDeviceStop(t) \/ StartLoop(t)
        \/ CameraStreamQbuf(t)
        \/ FrameNumberLoad(t) \/ FrameNumberStore(t) \/ ProcessCaptureRequest(t)

Spec == Init /\ [][Next]_vars

-----------------------------------------------------------------------------
TypeOK ==
    /\ sCamAdapters \in [Cameras -> Adapters \cup {NULL}]
    /\ cameraOf \in Seq(Cameras) /\ Len(cameraOf) <= MaxOpens
    /\ deleted \subseteq Created /\ devOpen \subseteq Created
    /\ mLock \in [Adapters -> Threads \cup {NULL}]
    /\ mStarted \in [Adapters -> BOOLEAN]
    /\ mPending \in [Adapters -> 0..MaxPending]
    /\ frame_number \in 0..MaxFrames
    /\ loaded \in [Threads -> 0..MaxFrames]
    /\ halFrames \in [Adapters -> Seq(0..MaxFrames)]

\* Every camera3 device the adapters opened can still be closed: an adapter
\* that is not deleted is the one sCamAdapters holds for its camera, which
\* is the only way camera_device_close reaches it.
OpenAdaptersRegistered ==
    \A a \in Created \ deleted : sCamAdapters[cameraOf[a]] = a

\* camera3 requires each device's frame numbers to increase: every adapter
\* hands its process_capture_request strictly increasing frame numbers,
\* whatever the other cameras do with the shared frame_number.
FramesIncreasePerDevice ==
    \A a \in Adapters :
        \A i, j \in 1..Len(halFrames[a]) : i < j => halFrames[a][i] < halFrames[a][j]

\* The registry and the frame numbers of several cameras used at once.
RegistrySafety == OpenAdaptersRegistered /\ FramesIncreasePerDevice
=============================================================================
