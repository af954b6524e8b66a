--------------------------- MODULE ICameraAdapter ---------------------------
(***************************************************************************)
(* The capture buffer / request coordination of ICameraAdapter             *)
(* (src/icamera_adapter/ICameraAdapter.cpp): qBuf, dqBuf, start, stop,     *)
(* capture() with its lock drop around process_capture_request, the lazy   *)
(* dma-fd mapping of mapMemory() and the completion matching of            *)
(* processCaptureResult(), composed with a camera3 HAL that accepts        *)
(* requests and delivers their metadata and buffer results on its own      *)
(* callback thread.                                                        *)
(*                                                                         *)
(* Every critical section of the adapter (the code between taking mLock    *)
(* and releasing it) is one atomic action.  The only points where mLock is *)
(* released inside an operation are the call into process_capture_request *)
(* (pc "capture_call") and the condition wait in dqBuf (pc "dq_wait").     *)
(***************************************************************************)
EXTENDS Integers, Sequences, SequencesExt, FiniteSets, TLC

CONSTANTS
    Threads,        \* application threads calling the icamera API
    Buffers,        \* camera_buffer_t objects owned by the application
    DmaBuffers,     \* buffers with dmafd > 0: mapped lazily by capture()
    BadFormat,      \* dma buffers whose format is not NV12 (mapMemory fails)
    MapMayFail,     \* whether GRALLOC_MAP_FD (mapBuffer) may fail
    MaxSubmits,     \* bound on the number of qBuf calls of a behaviour
    MaxInFlight,    \* requests the HAL holds before process_capture_request blocks
    DriverOrder,    \* order in which the HAL returns results, see ResultAllowed
    DriverMayReject,\* whether process_capture_request may return an error
    Null,           \* a NULL address
    BadHandle       \* the uninitialised handle left by a failed GRALLOC_MAP_FD

ASSUME /\ DmaBuffers \subseteq Buffers
       /\ BadFormat \subseteq DmaBuffers
       /\ MapMayFail \in BOOLEAN /\ DriverMayReject \in BOOLEAN
       /\ MaxSubmits \in Nat /\ MaxInFlight \in Nat \ {0}
       /\ DriverOrder \in {"Lockstep", "PerStream", "Any"}
       /\ Null \notin Buffers /\ BadHandle \notin Buffers

VARIABLES
    \* ICameraAdapter members
    mStarted, mPendingBuffers, mQueuedBuffers, mCapturedBuffers,
    mResults,        \* frame_number -> Result{metadataDone, buffersDone, timestamp}
    mBufferMapping,  \* key (dma fd or address) -> buffer handle
    frame_number,    \* the function-static counter of capture()
    \* fields of the application's camera_buffer_t objects
    addr, sequence, timestamp,
    \* application threads: program counter and the request built by capture()
    pc, req,
    \* the camera3 HAL: requests accepted and not yet fully returned, in
    \* the order it received them, and the last frame number it received
    inflight, lastReceived,
    \* the application: buffers it holds, and the number of qBuf calls so far
    appBuffers, submitted,
    \* auxiliary: the frame number of each buffer's latest capture
    frameOf

adapterVars == <<mStarted, mPendingBuffers, mQueuedBuffers, mCapturedBuffers,
                 mResults, mBufferMapping, frame_number>>
bufferVars  == <<addr, sequence, timestamp>>
vars == <<adapterVars, bufferVars, pc, req, inflight, lastReceived,
          appBuffers, submitted, frameOf>>

Frames == 0..MaxSubmits
Handles == Buffers \cup {BadHandle}
\* std::map<void *, camera3_stream_buffer> holds dma fds and addresses as keys
FdKey(b) == <<"fd", b>>
AddrKey(m) == <<"addr", m>>
Keys == {FdKey(b) : b \in DmaBuffers} \cup {AddrKey(m) : m \in Buffers \cup {Null}}
\* ANDROID_SENSOR_TIMESTAMP of a frame; 0 is the value of a cleared Result
Ts(f) == f + 1
NoResult == [metadataDone |-> FALSE, buffersDone |-> FALSE, timestamp |-> 0]
ResultRec == [metadataDone : BOOLEAN, buffersDone : BOOLEAN, timestamp : {0} \cup {Ts(f) : f \in Frames}]
Request == [frame : Frames, handle : Handles, from : {"qbuf", "start"}]
NoRequest == [frame |-> 0, handle |-> BadHandle, from |-> "qbuf"]
HalEntry == [frame : Frames, handle : Handles, meta : BOOLEAN, buf : BOOLEAN]

-----------------------------------------------------------------------------
(* capture(): the key looked up, and the buffers it fails for.             *)

\* buffer->dmafd > 0 ? map[dmafd] : map[buffer->addr]
MappingKey(b) == IF b \in DmaBuffers THEN FdKey(b) ELSE AddrKey(addr[b])

\* capture() returns UNKNOWN_ERROR without side effects: mapMemory rejects
\* a non-NV12 format, or no mapping exists for a non-dma buffer's address.
CaptureFails(b) ==
    \/ b \in BadFormat /\ FdKey(b) \notin DOMAIN mBufferMapping
    \/ b \notin DmaBuffers /\ MappingKey(b) \notin DOMAIN mBufferMapping

MapOutcomes == IF MapMayFail THEN BOOLEAN ELSE {TRUE}

\* request.frame_number = frame_number++
NextFrame(n) == n + 1

\* The part of capture() run under mLock for a buffer it does not fail for:
\* map the dma fd on first use (mapMemory records the handle whatever
\* GRALLOC_MAP_FD returned), take frame_number++, push the buffer on
\* mQueuedBuffers and unlock before calling the HAL.
Capture(t, b, from) ==
    /\ ~CaptureFails(b)
    /\ \E mapOk \in MapOutcomes :
         LET needMap == b \in DmaBuffers /\ FdKey(b) \notin DOMAIN mBufferMapping
             mapping == IF needMap
                        THEN (FdKey(b) :> IF mapOk THEN b ELSE BadHandle) @@ mBufferMapping
                        ELSE mBufferMapping
         IN  /\ mBufferMapping' = mapping
             /\ addr' = IF needMap /\ mapOk THEN [addr EXCEPT ![b] = b] ELSE addr
             /\ req' = [req EXCEPT ![t] = [frame |-> frame_number,
                                           handle |-> mapping[MappingKey(b)],
                                           from |-> from]]
    /\ frame_number' = NextFrame(frame_number)
    /\ mQueuedBuffers' = Append(mQueuedBuffers, b)
    /\ frameOf' = [frameOf EXCEPT ![b] = frame_number]
    /\ pc' = [pc EXCEPT ![t] = "capture_call"]

\* Mutant: start() takes its buffers from the back of mPendingBuffers.
StartLoopBack(t) ==
    LET ok == {i \in 1..Len(mPendingBuffers) : ~CaptureFails(mPendingBuffers[i])}
    IN  IF ok = {}
        THEN /\ mPendingBuffers' = <<>>
             /\ pc' = [pc EXCEPT ![t] = "idle"]
             /\ UNCHANGED <<mQueuedBuffers, mBufferMapping, frame_number, addr, req, frameOf>>
        ELSE LET k == Max(ok)
             IN  /\ mPendingBuffers' = SubSeq(mPendingBuffers, 1, k - 1)
                 /\ Capture(t, mPendingBuffers[k], "start")

\* One turn of start()'s loop: pop pending buffers in order, dropping those
\* capture() fails for (its status is ignored), until one is captured or
\* mPendingBuffers is empty and start() returns.
StartLoop(t) ==
    LET ok == {i \in 1..Len(mPendingBuffers) : ~CaptureFails(mPendingBuffers[i])}
    IN  IF ok = {}
        THEN /\ mPendingBuffers' = <<>>
             /\ pc' = [pc EXCEPT ![t] = "idle"]
             /\ UNCHANGED <<mQueuedBuffers, mBufferMapping, frame_number, addr, req, frameOf>>
        ELSE LET k == Min(ok)
             IN  /\ mPendingBuffers' = SubSeq(mPendingBuffers, k + 1, Len(mPendingBuffers))
                 /\ Capture(t, mPendingBuffers[k], "start")

-----------------------------------------------------------------------------
(* The application-facing operations.                                     *)

\* qBuf(): capture now when started, else append to mPendingBuffers.  A
\* failed capture returns an error and the application keeps the buffer.
QBuf(t, b) ==
    /\ pc[t] = "idle" /\ b \in appBuffers /\ submitted < MaxSubmits
    /\ submitted' = submitted + 1
    /\ IF mStarted
       THEN IF CaptureFails(b)
            THEN UNCHANGED <<mPendingBuffers, mQueuedBuffers, mBufferMapping,
                             frame_number, addr, pc, req, frameOf, appBuffers>>
            ELSE /\ Capture(t, b, "qbuf")
                 /\ appBuffers' = appBuffers \ {b}
                 /\ UNCHANGED mPendingBuffers
       ELSE /\ mPendingBuffers' = Append(mPendingBuffers, b)
            /\ appBuffers' = appBuffers \ {b}
            /\ UNCHANGED <<mQueuedBuffers, mBufferMapping, frame_number, addr,
                           pc, req, frameOf>>
    /\ UNCHANGED <<mStarted, mCapturedBuffers, mResults, sequence, timestamp,
                   inflight, lastReceived>>

\* start(): mStarted = true, then drain mPendingBuffers through capture().
Start(t) ==
    /\ pc[t] = "idle"
    /\ mStarted' = TRUE
    /\ StartLoop(t)
    /\ UNCHANGED <<mCapturedBuffers, mResults, sequence, timestamp, inflight,
                   lastReceived, appBuffers, submitted>>

\* stop(): mStarted = false; requests already given to the HAL go on.
Stop(t) ==
    /\ pc[t] = "idle"
    /\ mStarted' = FALSE
    /\ UNCHANGED <<mPendingBuffers, mQueuedBuffers, mCapturedBuffers, mResults,
                   mBufferMapping, frame_number, bufferVars, pc, req, inflight,
                   lastReceived, appBuffers, submitted, frameOf>>

\* process_capture_request, called without mLock.  The HAL blocks while
\* MaxInFlight requests are outstanding, and may reject the request.
ProcessCaptureRequest(t) ==
    /\ pc[t] = "capture_call"
    /\ lastReceived' = req[t].frame
    /\ \/ /\ Len(inflight) < MaxInFlight
          /\ inflight' = Append(inflight, [frame |-> req[t].frame,
                                           handle |-> req[t].handle,
                                           meta |-> FALSE, buf |-> FALSE])
       \/ /\ DriverMayReject
          /\ UNCHANGED inflight
    /\ pc' = [pc EXCEPT ![t] = "capture_relock"]
    /\ UNCHANGED <<adapterVars, bufferVars, req, appBuffers, submitted, frameOf>>

\* mLock.lock() after the HAL call: qBuf returns; start() goes on looping.
CaptureRelock(t) ==
    /\ pc[t] = "capture_relock"
    /\ IF req[t].from = "qbuf"
       THEN /\ pc' = [pc EXCEPT ![t] = "idle"]
            /\ UNCHANGED <<mPendingBuffers, mQueuedBuffers, mBufferMapping,
                           frame_number, addr, req, frameOf>>
       ELSE StartLoop(t)
    /\ UNCHANGED <<mStarted, mCapturedBuffers, mResults, sequence, timestamp,
                   inflight, lastReceived, appBuffers, submitted>>

\* Mutant: the buffer is returned but not erased from mCapturedBuffers.
PopCapturedNoErase(t) ==
    /\ mCapturedBuffers # <<>>
    /\ UNCHANGED mCapturedBuffers
    /\ appBuffers' = appBuffers \cup {Head(mCapturedBuffers)}
    /\ pc' = [pc EXCEPT ![t] = "idle"]

\* Pop the oldest captured buffer and hand it to the application.
PopCaptured(t) ==
    /\ mCapturedBuffers # <<>>
    /\ mCapturedBuffers' = Tail(mCapturedBuffers)
    /\ appBuffers' = appBuffers \cup {Head(mCapturedBuffers)}
    /\ pc' = [pc EXCEPT ![t] = "idle"]

\* dqBuf(): return the oldest captured buffer, or wait on mCondition.
DqBuf(t) ==
    /\ pc[t] = "idle"
    /\ \/ PopCaptured(t)
       \/ /\ mCapturedBuffers = <<>>
          /\ pc' = [pc EXCEPT ![t] = "dq_wait"]
          /\ UNCHANGED <<mCapturedBuffers, appBuffers>>
    /\ UNCHANGED <<mStarted, mPendingBuffers, mQueuedBuffers, mResults,
                   mBufferMapping, frame_number, bufferVars, req, inflight,
                   lastReceived, submitted, frameOf>>

\* waitRelative(mLock, ONE_SECOND) returns after its timeout.
DqTimeout(t) ==
    /\ pc[t] = "dq_wait"
    /\ pc' = [pc EXCEPT ![t] = "dq_woken"]
    /\ UNCHANGED <<adapterVars, bufferVars, req, inflight, lastReceived,
                   appBuffers, submitted, frameOf>>

\* After the wait, with mLock held again: pop, or fail with "capture timed out".
DqResume(t) ==
    /\ pc[t] = "dq_woken"
    /\ \/ PopCaptured(t)
       \/ /\ mCapturedBuffers = <<>>
          /\ pc' = [pc EXCEPT ![t] = "idle"]
          /\ UNCHANGED <<mCapturedBuffers, appBuffers>>
    /\ UNCHANGED <<mStarted, mPendingBuffers, mQueuedBuffers, mResults,
                   mBufferMapping, frame_number, bufferVars, req, inflight,
                   lastReceived, submitted, frameOf>>

-----------------------------------------------------------------------------
(* The HAL callback thread.                                               *)

\* Whether the HAL may now return the metadata ("meta") or buffer ("buf")
\* result of inflight[i].  Lockstep: all results of a request before any of
\* the next one.  PerStream: metadata in request order and buffers in
\* request order, the two streams independent.  Any: no order.
ResultAllowed(i, kind) ==
    /\ ~inflight[i][kind]
    /\ CASE DriverOrder = "Lockstep"  -> i = 1
         [] DriverOrder = "PerStream" -> \A j \in 1..(i - 1) : inflight[j][kind]
         [] DriverOrder = "Any"       -> TRUE

\* Mutant: the Result is created afresh for every partial result.
ResultFresh(f) == NoResult

\* mResults.find(frame_number), or a cleared Result inserted when absent.
ResultOf(f) == IF f \in DOMAIN mResults THEN mResults[f] ELSE NoResult

\* Mutant: the request completes on either partial result.
CompletedEither(r) == r.metadataDone \/ r.buffersDone

\* buffersDone && metadataDone
Completed(r) == r.metadataDone /\ r.buffersDone

\* Mutant: the newest queued buffer, mQueuedBuffers.back(), is taken.
QueuedBack == mQueuedBuffers[Len(mQueuedBuffers)]

\* mQueuedBuffers.at(0)
QueuedFront == Head(mQueuedBuffers)

\* The address gbm.lock() yields for a returned handle.
LockAddress(h) == IF h = BadHandle THEN Null ELSE h

\* processCaptureResult() for a result with num_output_buffers = 0 (kind
\* "meta", with or without a timestamp entry) or = 1 (kind "buf").  The
\* buffer result is written into mQueuedBuffers.at(0), and on completion
\* mQueuedBuffers.at(0) is moved to mCapturedBuffers and one waiter woken.
ProcessCaptureResult(i, kind, hasTs) ==
    LET e     == inflight[i]
        f     == e.frame
        r0    == ResultOf(f)
        r1    == IF kind = "meta"
                 THEN [r0 EXCEPT !.metadataDone = TRUE,
                                 !.timestamp = IF hasTs THEN Ts(f) ELSE @]
                 ELSE [r0 EXCEPT !.buffersDone = TRUE]
        q     == QueuedFront
        addr1 == IF kind = "buf" THEN [addr EXCEPT ![q] = LockAddress(e.handle)] ELSE addr
        seq1  == IF kind = "buf" THEN [sequence EXCEPT ![q] = f] ELSE sequence
        done  == Completed(r1)
        e1    == [e EXCEPT ![kind] = TRUE]
        waiters == {t \in Threads : pc[t] = "dq_wait"}
    IN
    /\ ResultAllowed(i, kind)
    /\ kind = "buf" => hasTs
    /\ inflight' = IF e1.meta /\ e1.buf THEN RemoveAt(inflight, i)
                   ELSE [inflight EXCEPT ![i] = e1]
    /\ addr' = addr1
    /\ sequence' = seq1
    /\ IF done
       THEN /\ mQueuedBuffers' = Tail(mQueuedBuffers)
            /\ mCapturedBuffers' = Append(mCapturedBuffers, q)
            /\ timestamp' = [timestamp EXCEPT ![q] = r1.timestamp]
            /\ mResults' = [g \in DOMAIN mResults \ {f} |-> mResults[g]]
            /\ IF waiters = {} THEN UNCHANGED pc
               ELSE \E w \in waiters : pc' = [pc EXCEPT ![w] = "dq_woken"]
       ELSE /\ mResults' = (f :> r1) @@ mResults
            /\ UNCHANGED <<mQueuedBuffers, mCapturedBuffers, timestamp, pc>>
    /\ UNCHANGED <<mStarted, mPendingBuffers, mBufferMapping, frame_number,
                   req, lastReceived, appBuffers, submitted, frameOf>>

-----------------------------------------------------------------------------

\* After open(), configStreams() and allocateMemory() of every non-dma
\* buffer: those are mapped by address; dma buffers are not mapped yet.
Init ==
    /\ mStarted = FALSE
    /\ mPendingBuffers = <<>> /\ mQueuedBuffers = <<>> /\ mCapturedBuffers = <<>>
    /\ mResults = <<>>
    /\ mBufferMapping = [k \in {AddrKey(m) : m \in Buffers \ DmaBuffers} |-> k[2]]
    /\ frame_number = 0
    /\ addr = [b \in Buffers |-> IF b \in DmaBuffers THEN Null ELSE b]
    /\ sequence = [b \in Buffers |-> -1]
    /\ timestamp = [b \in Buffers |-> 0]
    /\ pc = [t \in Threads |-> "idle"]
    /\ req = [t \in Threads |-> NoRequest]
    /\ inflight = <<>>
    /\ lastReceived = -1
    /\ appBuffers = Buffers
    /\ submitted = 0
    /\ frameOf = [b \in Buffers |-> -1]

AppStep(t) ==
    \/ \E b \in Buffers : QBuf(t, b)
    \/ Start(t) \/ Stop(t) \/ DqBuf(t)

ThreadStep(t) ==
    ProcessCaptureRequest(t) \/ CaptureRelock(t) \/ DqTimeout(t) \/ DqResume(t)

HalStep ==
    \E i \in 1..Len(inflight), kind \in {"meta", "buf"}, hasTs \in BOOLEAN :
        ProcessCaptureResult(i, kind, hasTs)

Next ==
    \/ \E t \in Threads : AppStep(t) \/ ThreadStep(t)
    \/ HalStep

\* The application is free to stop calling; a thread inside an operation
\* always proceeds (the HAL call returns once it has room, the wait times
\* out), and the HAL returns every result of an accepted request.
Fairness ==
    /\ \A t \in Threads : WF_vars(ThreadStep(t))
    /\ WF_vars(HalStep)

Spec == Init /\ [][Next]_vars /\ Fairness

-----------------------------------------------------------------------------
(* Properties                                                              *)

TypeOK ==
    /\ mStarted \in BOOLEAN
    /\ mPendingBuffers \in Seq(Buffers) /\ mQueuedBuffers \in Seq(Buffers)
    /\ mCapturedBuffers \in Seq(Buffers)
    /\ DOMAIN mResults \subseteq Frames /\ \A f \in DOMAIN mResults : mResults[f] \in ResultRec
    /\ DOMAIN mBufferMapping \subseteq Keys /\ \A k \in DOMAIN mBufferMapping : mBufferMapping[k] \in Handles
    /\ frame_number \in 0..MaxSubmits
    /\ addr \in [Buffers -> Buffers \cup {Null}]
    /\ sequence \in [Buffers -> Frames \cup {-1}]
    /\ timestamp \in [Buffers -> {0} \cup {Ts(f) : f \in Frames}]
    /\ pc \in [Threads -> {"idle", "capture_call", "capture_relock", "dq_wait", "dq_woken"}]
    /\ req \in [Threads -> Request]
    /\ inflight \in Seq(HalEntry)
    /\ lastReceived \in Frames \cup {-1}
    /\ appBuffers \subseteq Buffers /\ submitted \in 0..MaxSubmits
    /\ frameOf \in [Buffers -> Frames \cup {-1}]

Occurrences(s, b) == Cardinality({i \in 1..Len(s) : s[i] = b})

\* Exactly-once ownership (spec property 3): through qBuf, start(), the HAL
\* callbacks and dqBuf, every buffer is at each moment in exactly one place:
\* held by the application, or once in mPendingBuffers, mQueuedBuffers or
\* mCapturedBuffers.  A buffer dropped or delivered twice breaks it.
BufferAccounting ==
    \A b \in Buffers :
        (IF b \in appBuffers THEN 1 ELSE 0)
          + Occurrences(mPendingBuffers, b) + Occurrences(mQueuedBuffers, b)
          + Occurrences(mCapturedBuffers, b) = 1

\* The frame numbers of the requests the HAL still owes results for: the
\* accepted ones and those being passed to process_capture_request.
OutstandingFrames ==
    {inflight[i].frame : i \in 1..Len(inflight)}
      \cup {req[t].frame : t \in {u \in Threads : pc[u] = "capture_call"}}

\* processCaptureResult() takes mQueuedBuffers.at(0) as the buffer of every
\* result.  That is right only while mQueuedBuffers holds exactly the
\* buffers of the outstanding requests, one per request, oldest first.
QueuedMatchesOutstanding ==
    /\ Len(mQueuedBuffers) = Cardinality(OutstandingFrames)
    /\ {frameOf[mQueuedBuffers[i]] : i \in 1..Len(mQueuedBuffers)} = OutstandingFrames

\* A buffer that reaches mCapturedBuffers (and so the application through
\* dqBuf) carries its own memory address, the frame number of its own
\* request as sequence, and that frame's timestamp (or 0 when the metadata
\* had none): the HAL result written into mQueuedBuffers.at(0) belonged to it.
DeliveredIntact ==
    \A i \in 1..Len(mCapturedBuffers) :
        LET b == mCapturedBuffers[i]
        IN  /\ addr[b] = b
            /\ sequence[b] = frameOf[b]
            /\ timestamp[b] \in {0, Ts(frameOf[b])}

\* A step in which a request reaches process_capture_request gives the HAL
\* a frame number above every one it has received (camera3 requires them
\* in increasing order); capture() takes frame_number++ under mLock but
\* calls the HAL after unlocking it.
HalReceivesInOrder ==
    \A t \in Threads :
        (pc[t] = "capture_call" /\ pc'[t] = "capture_relock")
            => req[t].frame > lastReceived

\* Every buffer given to the HAL comes back to mCapturedBuffers.
QueuedEventuallyCaptured ==
    \A b \in Buffers :
        (\E i \in 1..Len(mQueuedBuffers) : mQueuedBuffers[i] = b)
            ~> (\E i \in 1..Len(mCapturedBuffers) : mCapturedBuffers[i] = b)

\* The engine's contract (BufferQueue): the application's buffers, the
\* pending FIFO, the requests given to the HAL in mQueuedBuffers and the
\* completed buffers in mCapturedBuffers.
Queue == INSTANCE BufferQueue WITH
    held <- appBuffers, started <- mStarted, pending <- mPendingBuffers,
    dispatched <- mQueuedBuffers, ready <- mCapturedBuffers

\* qBuf, start, stop, the HAL callbacks and dqBuf implement BufferQueue:
\* every buffer comes back exactly once, pending buffers reach the HAL in
\* the order they were queued and after those already dispatched, and
\* dqBuf returns buffers in the order their requests completed.
ImplementsBufferQueue == Queue!Spec

\* The whole capture contract, step by step, whatever the application
\* threads and the HAL interleave: every step of the engine is a step of
\* BufferQueue (the application's buffers, the pending FIFO, the requests
\* given to the HAL and the completed buffers move as the contract lets
\* them), leaves every buffer in mCapturedBuffers intact, and hands the HAL
\* frame numbers in increasing order.  (Init maps to BufferQueue's Init by
\* construction.)
CaptureContract ==
    [][[Queue!Next]_Queue!vars /\ DeliveredIntact' /\ HalReceivesInOrder]_vars

=============================================================================
