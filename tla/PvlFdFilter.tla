----------------------------- MODULE PvlFdFilter -----------------------------
(***************************************************************************)
(* The pvl face-detection GStreamer filter (gst_pvl_face_detection_filter.c)*)
(* between its streaming thread and the application's threads.             *)
(*                                                                         *)
(* The streaming thread runs transform_frame_ip for each frame: the        *)
(* detection under GST_OBJECT_LOCK, then, with no lock, the perf           *)
(* statistics when log-perf is on.  Application threads call set_property  *)
(* and the element's change_state.  Each GST_OBJECT_LOCK section is one    *)
(* atomic step, so the lock is not a variable.  The statistics fields      *)
(* count and start_time are written by both sides without a lock; each     *)
(* statement of the statistics block is one step.  Timestamps are          *)
(* abstracted: a frame's start time is either within 3 s of the window     *)
(* start or past it, chosen when the frame starts, and the monotonic clock *)
(* is taken to be past 3 s, so a window start of 0 always counts as        *)
(* elapsed.  Detection results, metadata and bus messages carry no shared  *)
(* state and are left out.                                                 *)
(***************************************************************************)
EXTENDS Integers

CONSTANTS
    AppThreads,     \* threads calling set_property
    MaxFacesValues, \* values the max-detectable-faces property may be set to
    RatioValues,    \* values the min-face-ratio property may be set to
    MaxFrames       \* bound on the frames the streaming thread processes

VARIABLES
    pvlParams,      \* the parameters held by the pvl_face_detection instance
    logPerf,
    orientation,
    elementState,   \* "PAUSED" or "PLAYING"
    count,          \* filter->count
    startTime,      \* filter->start_time: "zero" or "set"
    spc,            \* the streaming thread's position in transform_frame_ip
    late,           \* the current frame started more than 3 s after the window
    frames,         \* frames processed so far (bounded by MaxFrames)
    apc,            \* each app thread's position in set_property
    acopy,          \* each app thread's copy of the parameters
    lastSet         \* history: the value of each parameter's latest completed set_property

vars == <<pvlParams, logPerf, orientation, elementState, count,
          startTime, spc, late, frames, apc, acopy, lastSet>>

LockedProps == {"max_num_faces", "min_face_ratio"}
PropValues(p) == IF p = "max_num_faces" THEN MaxFacesValues ELSE RatioValues

\* get_pvl_orientation: the image-orientation tag to the rotation pvl
\* expects (a clockwise tag is a counter-clockwise rotation); -1 when the
\* tag is absent or unknown.
Tags == {"rotate-0", "rotate-90", "rotate-180", "rotate-270",
         "flip-rotate-0", "flip-rotate-90", "flip-rotate-180",
         "flip-rotate-270", "other"}
PvlOrientation(tag) ==
    CASE tag \in {"rotate-0", "flip-rotate-0"}     -> 0
      [] tag \in {"rotate-90", "flip-rotate-90"}   -> 270
      [] tag \in {"rotate-180", "flip-rotate-180"} -> 180
      [] tag \in {"rotate-270", "flip-rotate-270"} -> 90
      [] OTHER                                     -> -1

-----------------------------------------------------------------------------
(* The application side.                                                   *)

\* set_property of a parameter: pvl_face_detection_get_parameters copies
\* the parameters before the lock is taken ...
SetPropertyRead(t, p, v) ==
    /\ apc[t] = "idle"
    /\ apc' = [apc EXCEPT ![t] = <<p, v>>]
    /\ acopy' = [acopy EXCEPT ![t] = pvlParams]
    /\ UNCHANGED <<pvlParams, logPerf, orientation, elementState,
                   count, startTime, spc, late, frames, lastSet>>

\* ... then, under GST_OBJECT_LOCK, one field of the copy is changed and
\* the whole copy written back with pvl_face_detection_set_parameters.
SetPropertyLocked(t) ==
    /\ apc[t] # "idle"
    /\ pvlParams' = [acopy[t] EXCEPT ![apc[t][1]] = apc[t][2]]
    /\ apc' = [apc EXCEPT ![t] = "idle"]
    /\ lastSet' = [lastSet EXCEPT ![apc[t][1]] = apc[t][2]]
    /\ UNCHANGED <<logPerf, orientation, elementState, count,
                   startTime, spc, late, frames, acopy>>

\* set_property of log-perf: no lock.
SetLogPerf(t, b) ==
    /\ apc[t] = "idle"
    /\ logPerf' = b
    /\ UNCHANGED <<pvlParams, orientation, elementState, count,
                   startTime, spc, late, frames, apc, acopy, lastSet>>

\* change_state: the parent's transition, then on PAUSED_TO_PLAYING the
\* statistics are reset, with no lock.
ResetStatistics ==
    /\ count' = 0
    /\ startTime' = "zero"

ChangeState ==
    /\ \/ /\ elementState = "PAUSED"
          /\ elementState' = "PLAYING"
          /\ ResetStatistics
       \/ /\ elementState = "PLAYING"
          /\ elementState' = "PAUSED"
          /\ UNCHANGED <<count, startTime>>
    /\ UNCHANGED <<pvlParams, logPerf, orientation, spc, late,
                   frames, apc, acopy, lastSet>>

-----------------------------------------------------------------------------
(* The streaming thread.                                                   *)

\* sink_event: a tag event carrying a known orientation replaces it.
SinkEvent(tag) ==
    /\ spc = "idle"
    /\ PvlOrientation(tag) # -1
    /\ orientation' = PvlOrientation(tag)
    /\ UNCHANGED <<pvlParams, logPerf, elementState, count,
                   startTime, spc, late, frames, apc, acopy, lastSet>>

\* transform_frame_ip up to the statistics: the parameters are read and
\* the detection run under GST_OBJECT_LOCK, the metadata and message are
\* attached without it; log_perf is read once.
TransformDetect ==
    /\ spc = "idle"
    /\ frames < MaxFrames
    /\ frames' = frames + 1
    /\ \E l \in BOOLEAN : late' = l
    /\ spc' = IF logPerf THEN "perf_count" ELSE "idle"
    /\ UNCHANGED <<pvlParams, logPerf, orientation, elementState,
                   count, startTime, apc, acopy, lastSet>>

\* fdfilter->count++ (and the time sums).
PerfCount ==
    /\ spc = "perf_count"
    /\ count' = count + 1
    /\ spc' = "perf_start"
    /\ UNCHANGED <<pvlParams, logPerf, orientation, elementState,
                   startTime, late, frames, apc, acopy, lastSet>>

\* if (start_time == 0) start_time = this frame's start: the frame is then
\* the window's first and not late.
PerfStart ==
    /\ spc = "perf_start"
    /\ IF startTime = "zero"
       THEN startTime' = "set" /\ late' = FALSE
       ELSE UNCHANGED <<startTime, late>>
    /\ spc' = "perf_check"
    /\ UNCHANGED <<pvlParams, logPerf, orientation, elementState,
                   count, frames, apc, acopy, lastSet>>

\* if (start_time + 3000000000 < frame start): a window start of 0 is
\* always in the past.
WindowElapsed == startTime = "zero" \/ late

PerfCheck ==
    /\ spc = "perf_check"
    /\ spc' = IF WindowElapsed THEN "perf_print" ELSE "idle"
    /\ UNCHANGED <<pvlParams, logPerf, orientation, elementState,
                   count, startTime, late, frames, apc, acopy, lastSet>>

\* The report divides the sums by count, then starts a new window.
PerfPrint ==
    /\ spc = "perf_print"
    /\ count' = 0
    /\ startTime' = "set"
    /\ spc' = "idle"
    /\ UNCHANGED <<pvlParams, logPerf, orientation, elementState,
                   late, frames, apc, acopy, lastSet>>

-----------------------------------------------------------------------------

\* gst_pvl_fd_filter_init: the default parameters of the pvl instance,
\* orientation 0; the element starts PAUSED with zeroed statistics.
Init ==
    /\ pvlParams = [max_num_faces |-> CHOOSE v \in MaxFacesValues : TRUE,
                    min_face_ratio |-> CHOOSE v \in RatioValues : TRUE]
    /\ logPerf \in BOOLEAN
    /\ orientation = 0
    /\ elementState = "PAUSED"
    /\ count = 0
    /\ startTime = "zero"
    /\ spc = "idle"
    /\ late = FALSE
    /\ frames = 0
    /\ apc = [t \in AppThreads |-> "idle"]
    /\ acopy = [t \in AppThreads |-> pvlParams]
    /\ lastSet = pvlParams

Next ==
    \/ \E t \in AppThreads :
          \/ \E p \in LockedProps : \E v \in PropValues(p) : SetPropertyRead(t, p, v)
          \/ SetPropertyLocked(t)
          \/ \E b \in BOOLEAN : SetLogPerf(t, b)
    \/ ChangeState
    \/ \E tag \in Tags : SinkEvent(tag)
    \/ TransformDetect
    \/ PerfCount
    \/ PerfStart
    \/ PerfCheck
    \/ PerfPrint

Spec == Init /\ [][Next]_vars

-----------------------------------------------------------------------------

\* The statistics report of transform_frame_ip divides the accumulated
\* times by fdfilter->count (a guint64): it is reached only with at least
\* one frame counted, whatever change_state does on another thread.
ReportCountNonZero == spc = "perf_print" => count > 0

\* Two application threads setting different parameters: once no
\* set_property is running, the pvl instance holds, for each parameter, the
\* value of the latest completed set_property of it.  set_property copies
\* the parameters before GST_OBJECT_LOCK and writes the whole copy back.
SetPropertiesKept ==
    (\A t \in AppThreads : apc[t] = "idle") => pvlParams = lastSet

\* The filter's state shared between the streaming thread and the
\* application's threads: the report divides by a non-zero count, and no
\* completed set_property is undone.
FdFilterConsistent == ReportCountNonZero /\ SetPropertiesKept
=============================================================================
