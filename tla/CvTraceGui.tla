------------------------------ MODULE CvTraceGui ------------------------------
(***************************************************************************)
(* The cv_trace viewer (src/pvl/pvl-cvtrace/src/cv_trace_gui.c): a GTK    *)
(* application that runs a GStreamer pipeline of a camera or video-file    *)
(* source, the pvl filters the user ticks, and a cairooverlay.             *)
(*                                                                         *)
(* Every GTK callback and the bus watch bus_cb run on the GTK main loop,   *)
(* one at a time, so each is one action.  The pipeline's streaming thread  *)
(* posts element and EOS messages to the bus, which bus_cb consumes, and   *)
(* calls draw_overlay_cb, which draws what detected_num says.  A pipeline  *)
(* is a record of the filters and source it was built with, its GstState   *)
(* and the parameter values its FD, FR and PD elements hold; a bus message *)
(* is [filter, n] or EOS.  The parameters of a filter (five for FD, two    *)
(* for PD) are one value: "default", "custom" or, for an entry's text,     *)
(* "invalid" (what strtoul rejects).  Other widget updates, the pipeline   *)
(* description strings, sizes and logging are left out.                   *)
(***************************************************************************)
EXTENDS Integers, Sequences, FiniteSets

CONSTANTS
    Toggles,        \* the filter check buttons the user may toggle
    MaxDetected,    \* most detections one element message carries
    MaxBus,         \* most messages waiting on the bus
    CameraSrcAvailable \* icamerasrc or v4l2src exists (get_camerasrc_description)

PvlFilters == {"FD", "FR", "PD", "OT"}
\* The filters with parameter entries, in the order update_pvl_parameters
\* visits them.
ParamOrder == <<"FD", "FR", "PD">>
ParamFilters == {"FD", "FR", "PD"}
ParamValues == {"default", "custom"}
EntryTexts == ParamValues \cup {"invalid"}
ASSUME Toggles \subseteq PvlFilters /\ MaxBus \in Nat \ {0}

NoPipeline == [state |-> "none"]
EOS == [type |-> "EOS"]
Element(f, n) == [type |-> "ELEMENT", filter |-> f, n |-> n]

VARIABLES
    filters,        \* app_data->pvl_filters_type
    inputSrc,       \* app_data->input_src: "CAMERA" or "VIDEO_FILE"
    mediaSet,       \* app_data->media_file != NULL
    cmdValid,       \* app_data->camera_command parses
    loopVideo,      \* app_data->loop_video
    isEOS,          \* app_data->is_EOS
    pipeline,       \* app_data->pipeline, or NoPipeline
    bus,            \* messages waiting for bus_cb, oldest first
    detectedNum,    \* app_data->detected_num
    closed,         \* window_closed_cb ran gtk_main_quit
    entry,          \* filter -> the text of its parameter entries
    edited          \* filters whose entry the user typed in since the
                    \* program last set or applied it

vars == <<filters, inputSrc, mediaSet, cmdValid, loopVideo, isEOS, pipeline,
          bus, detectedNum, closed, entry, edited>>

-----------------------------------------------------------------------------
(* Helpers for the pipeline handling shared by the callbacks.              *)

\* create_pipeline: the old pipeline and its bus watch are released first;
\* a video source without a file or a command gst_parse_launch rejects
\* leaves no pipeline.
CreatedPipeline(fs, src, media, cmd) ==
    IF (src = "VIDEO_FILE" /\ ~media) \/ (src = "CAMERA" /\ ~cmd)
    THEN NoPipeline
    ELSE [filters |-> fs, src |-> src, state |-> "NULL",
          param |-> [f \in ParamFilters |-> "default"]]

\* gst_element_set_state (PLAYING): may fail, leaving the pipeline stopped;
\* on no pipeline it is a g_return_if_fail no-op.
PlayOutcomes(p) ==
    IF p = NoPipeline THEN {p} ELSE {[p EXCEPT !.state = "PLAYING"], p}

\* gst_element_set_state (NULL); the pipeline flushes its bus.
Stopped(p) == IF p = NoPipeline THEN p ELSE [p EXCEPT !.state = "NULL"]

\* gst_bin_get_by_name finds the filter's element in pipeline p.
HasElement(p, f) == p # NoPipeline /\ f \in p.filters

\* set_param, for filter f's entry text t: nothing without the element;
\* text strtoul rejects makes the entry show the element's value again;
\* otherwise the element takes the value.  Result: [p, text].
SetParam(p, f, t) ==
    CASE ~HasElement(p, f) -> [p |-> p, text |-> t]
      [] t = "invalid"     -> [p |-> p, text |-> p.param[f]]
      [] OTHER             -> [p |-> [p EXCEPT !.param[f] = t], text |-> t]

\* update_pvl_parameters: for each selected filter in ParamOrder, a
\* missing element returns at once; an entry whose valid value differs
\* from the default goes through set_param.  Result: [p, applied].
UpdatePvlParameters(p, fs) ==
    IF p = NoPipeline THEN [p |-> p, applied |-> {}]
    ELSE LET stop    == {i \in 1..3 : ParamOrder[i] \in fs /\ ~HasElement(p, ParamOrder[i])}
             visited == {ParamOrder[i] : i \in {j \in 1..3 : \A k \in stop : j < k}} \cap fs
             applied == {f \in visited : entry[f] = "custom"}
         IN  [p |-> [p EXCEPT !.param = [f \in ParamFilters |->
                         IF f \in applied THEN entry[f] ELSE @[f]]],
              applied |-> applied]

\* The pipelines restart_pipeline may leave: the same one when it returns
\* at once for a video source without a file; otherwise the pipeline is
\* stopped, a new one created and set to PLAYING.
RestartOutcomes(fs, src, media, cmd) ==
    IF src = "VIDEO_FILE" /\ ~media THEN {pipeline}
    ELSE PlayOutcomes(CreatedPipeline(fs, src, media, cmd))

\* restart_pipeline, followed by update_pvl_parameters when `update'.
RestartPipeline(fs, src, media, cmd, update) ==
    \E p \in RestartOutcomes(fs, src, media, cmd) :
        LET u == IF update THEN UpdatePvlParameters(p, fs) ELSE [p |-> p, applied |-> {}]
        IN  /\ pipeline' = u.p
            /\ edited' = edited \ u.applied
            /\ bus' = IF src = "VIDEO_FILE" /\ ~media THEN bus ELSE <<>>

\* set_widget_pvl_default_value: the entries of the selected filters whose
\* element the pipeline has show the element's default.
DefaultEntries(p, fs) ==
    {f \in ParamFilters \cap fs : HasElement(p, f)}

\* What draw_overlay_cb draws: FR rectangles, else FD ones, then PD and OT.
Drawn(num) ==
    (IF num["FR"] > 0 THEN {"FR"} ELSE IF num["FD"] > 0 THEN {"FD"} ELSE {})
    \cup {f \in {"PD", "OT"} : num[f] > 0}

NoDetections == [f \in PvlFilters |-> 0]

\* restart_pipeline, then set_widget_pvl_default_value on whatever pipeline
\* app_data holds afterwards (the old one when restart_pipeline returned
\* early): the call sites marked "should be updated after create pipeline".
RestartShowingDefaults(fs, src, media, cmd) ==
    \E p \in RestartOutcomes(fs, src, media, cmd) :
        /\ pipeline' = p
        /\ bus' = IF src = "VIDEO_FILE" /\ ~media THEN bus ELSE <<>>
        /\ entry' = [g \in ParamFilters |->
                       IF g \in DefaultEntries(p, fs) THEN "default" ELSE entry[g]]
        /\ edited' = edited \ DefaultEntries(p, fs)

-----------------------------------------------------------------------------

\* main: no filter; a video source (the default) has no file yet, so only
\* a camera source gets a pipeline, which is set to PLAYING (set back to
\* NULL on failure).  The parameter entries are empty until a filter is
\* chosen; they are taken as showing the defaults.
Init ==
    /\ filters = {}
    /\ inputSrc \in {"CAMERA", "VIDEO_FILE"}
    /\ mediaSet = FALSE /\ cmdValid = CameraSrcAvailable
    /\ loopVideo = FALSE /\ isEOS = FALSE
    /\ pipeline \in PlayOutcomes(CreatedPipeline({}, inputSrc, FALSE, cmdValid))
    /\ bus = <<>> /\ detectedNum = NoDetections /\ closed = FALSE
    /\ entry = [f \in ParamFilters |-> "default"] /\ edited = {}

\* checkbutton_pvl_*_toggled_cb, then changed_pvl_filter: clear
\* detected_num, restart_pipeline, then set_widget_pvl_default_value on the
\* pipeline it leaves.  Face recognition brings detection.  A box toggles
\* from what its bit says (update_gtk_setting_widgets_for_pvl_filter keeps
\* the detection box in step with its bit), and the detection box is
\* insensitive while recognition is on.
FilterToggled(f, on) ==
    /\ on = (f \notin filters)
    /\ f = "FD" => "FR" \notin filters
    /\ LET fs == CASE f = "FR" /\ on  -> filters \cup {"FD", "FR"}
                   [] f = "FR" /\ ~on -> filters \ {"FD", "FR"}
                   [] on              -> filters \cup {f}
                   [] OTHER           -> filters \ {f}
       IN  /\ filters' = fs
           /\ detectedNum' = NoDetections
           /\ RestartShowingDefaults(fs, inputSrc, mediaSet, cmdValid)
           /\ UNCHANGED <<inputSrc, mediaSet, cmdValid, loopVideo, isEOS>>

\* The sync, parallel, auto-rotate, resize, log and PD-format callbacks:
\* restart_pipeline and update_pvl_parameters.
PipelineOptionChanged ==
    /\ RestartPipeline(filters, inputSrc, mediaSet, cmdValid, TRUE)
    /\ UNCHANGED <<filters, inputSrc, mediaSet, cmdValid, loopVideo, isEOS,
                   detectedNum, entry>>

\* combobox_source_type_changed_cb: a camera restarts and its entries show
\* the new elements' defaults; a video file only stops the pipeline.
SourceTypeChanged(src) ==
    /\ inputSrc' = src
    /\ IF src = "CAMERA"
       THEN RestartShowingDefaults(filters, src, mediaSet, cmdValid)
       ELSE pipeline' = Stopped(pipeline) /\ bus' = <<>> /\ UNCHANGED <<entry, edited>>
    /\ UNCHANGED <<filters, mediaSet, cmdValid, loopVideo, isEOS, detectedNum>>

\* filechooser_selection_changed_cb: the selection becomes media_file; a
\* cleared selection returns before restarting, otherwise the entries show
\* the new elements' defaults.
FileChosen(m) ==
    /\ mediaSet' = m
    /\ IF m THEN RestartShowingDefaults(filters, inputSrc, m, cmdValid)
            ELSE UNCHANGED <<pipeline, bus, entry, edited>>
    /\ UNCHANGED <<filters, inputSrc, cmdValid, loopVideo, isEOS, detectedNum>>

\* button_apply_camera_command_clicked_cb, button_reset_camera_command_
\* clicked_cb and the entry's Enter key: a new command, restart_pipeline
\* and update_pvl_parameters.
CameraCommandChanged(valid) ==
    /\ cmdValid' = valid
    /\ RestartPipeline(filters, inputSrc, mediaSet, valid, TRUE)
    /\ UNCHANGED <<filters, inputSrc, mediaSet, loopVideo, isEOS, detectedNum, entry>>

LoopVideoToggled(b) ==
    /\ loopVideo' = b
    /\ UNCHANGED <<filters, inputSrc, mediaSet, cmdValid, isEOS, pipeline, bus,
                   detectedNum, entry, edited>>

\* The user types in a selected filter's parameter entry (its expander is
\* insensitive otherwise); nothing is applied until Enter.
EntryEdited(f, t) ==
    /\ f \in filters
    /\ entry' = [entry EXCEPT ![f] = t] /\ edited' = edited \cup {f}
    /\ UNCHANGED <<filters, inputSrc, mediaSet, cmdValid, loopVideo, isEOS,
                   pipeline, bus, detectedNum>>

\* key_release_event_entry_*: Enter in filter f's entry runs set_param.
EntryEntered(f) ==
    /\ f \in filters
    /\ LET r == SetParam(pipeline, f, entry[f])
       IN  /\ pipeline' = r.p
           /\ entry' = [entry EXCEPT ![f] = r.text]
           /\ edited' = IF HasElement(pipeline, f) THEN edited \ {f} ELSE edited
    /\ UNCHANGED <<filters, inputSrc, mediaSet, cmdValid, loopVideo, isEOS, bus, detectedNum>>

\* button_property_reset_clicked_cb: set_widget_pvl_default_value, then
\* set_param for the FD entries, for the FR entry, and only when FR is not
\* selected for the PD entries.
PropertyResetClicked ==
    LET reset == DefaultEntries(pipeline, filters)
        e1    == [g \in ParamFilters |-> IF g \in reset THEN "default" ELSE entry[g]]
        sets  == {g \in {"FD", "FR"} : g \in filters}
                 \cup (IF "FR" \notin filters /\ "PD" \in filters THEN {"PD"} ELSE {})
        p1    == [pipeline EXCEPT !.param = [g \in ParamFilters |->
                    IF g \in sets /\ HasElement(pipeline, g) /\ e1[g] # "invalid"
                    THEN e1[g] ELSE @[g]]]
        e2    == [g \in ParamFilters |->
                    IF g \in sets /\ HasElement(pipeline, g) /\ e1[g] = "invalid"
                    THEN pipeline.param[g] ELSE e1[g]]
    IN  /\ pipeline' = IF pipeline = NoPipeline THEN pipeline ELSE p1
        /\ entry' = e2
        /\ edited' = edited \ (reset \cup {g \in sets : HasElement(pipeline, g)})
        /\ UNCHANGED <<filters, inputSrc, mediaSet, cmdValid, loopVideo, isEOS, bus, detectedNum>>

\* button_play_pause_clicked_cb: needs a pipeline and a file; after EOS it
\* builds a new pipeline and plays it, otherwise it toggles PLAYING/PAUSED.
PlayPause ==
    /\ pipeline # NoPipeline /\ mediaSet
    /\ IF isEOS
       THEN /\ pipeline' \in PlayOutcomes(CreatedPipeline(filters, inputSrc, mediaSet, cmdValid))
            /\ bus' = <<>> /\ isEOS' = FALSE
       ELSE /\ pipeline' \in IF pipeline.state = "PLAYING"
                             THEN {[pipeline EXCEPT !.state = "PAUSED"]}
                             ELSE PlayOutcomes(pipeline)
            /\ UNCHANGED <<bus, isEOS>>
    /\ UNCHANGED <<filters, inputSrc, mediaSet, cmdValid, loopVideo, detectedNum,
                   entry, edited>>

\* bus_cb on EOS: stop; a video file loops with a new pipeline (then
\* update_pvl_parameters) or marks is_EOS.
BusEOS ==
    /\ bus # <<>> /\ Head(bus) = EOS
    /\ IF inputSrc = "VIDEO_FILE" /\ loopVideo
       THEN /\ \E p \in PlayOutcomes(CreatedPipeline(filters, inputSrc, mediaSet, cmdValid)) :
                 LET u == UpdatePvlParameters(p, filters)
                 IN  pipeline' = u.p /\ edited' = edited \ u.applied
            /\ UNCHANGED isEOS
       ELSE /\ pipeline' = Stopped(pipeline)
            /\ isEOS' = (isEOS \/ inputSrc = "VIDEO_FILE")
            /\ UNCHANGED edited
    /\ bus' = <<>>
    /\ UNCHANGED <<filters, inputSrc, mediaSet, cmdValid, loopVideo, detectedNum, entry>>

\* bus_cb on an element message: the filter's count (and rectangles) are
\* replaced; face-detection results are ignored while FR is selected.
BusElement ==
    /\ bus # <<>> /\ Head(bus).type = "ELEMENT"
    /\ LET m == Head(bus)
       IN  detectedNum' = IF m.filter = "FD" /\ "FR" \in filters
                          THEN detectedNum
                          ELSE [detectedNum EXCEPT ![m.filter] = m.n]
    /\ bus' = Tail(bus)
    /\ UNCHANGED <<filters, inputSrc, mediaSet, cmdValid, loopVideo, isEOS, pipeline,
                   entry, edited>>

\* The streaming thread: each pvl filter of a playing pipeline posts its
\* results; a file source posts EOS once at its end.
PostElement(f, n) ==
    /\ pipeline.state = "PLAYING" /\ f \in pipeline.filters
    /\ Len(bus) < MaxBus
    /\ bus' = Append(bus, Element(f, n))
    /\ UNCHANGED <<filters, inputSrc, mediaSet, cmdValid, loopVideo, isEOS, pipeline,
                   detectedNum, entry, edited>>

PostEOS ==
    /\ pipeline.state = "PLAYING" /\ pipeline.src = "VIDEO_FILE"
    /\ Len(bus) < MaxBus /\ \A i \in 1..Len(bus) : bus[i] # EOS
    /\ bus' = Append(bus, EOS)
    /\ UNCHANGED <<filters, inputSrc, mediaSet, cmdValid, loopVideo, isEOS, pipeline,
                   detectedNum, entry, edited>>

\* window_closed_cb: stop the pipeline, remove the watch, quit.
WindowClosed ==
    /\ closed' = TRUE
    /\ pipeline' = Stopped(pipeline) /\ bus' = <<>>
    /\ UNCHANGED <<filters, inputSrc, mediaSet, cmdValid, loopVideo, isEOS,
                   detectedNum, entry, edited>>

MainLoop ==
    \/ \E f \in Toggles, on \in BOOLEAN : FilterToggled(f, on)
    \/ PipelineOptionChanged
    \/ \E src \in {"CAMERA", "VIDEO_FILE"} : SourceTypeChanged(src)
    \/ \E m \in BOOLEAN : FileChosen(m)
    \/ \E valid \in BOOLEAN : CameraCommandChanged(valid)
    \/ \E b \in BOOLEAN : LoopVideoToggled(b)
    \/ \E f \in ParamFilters, t \in EntryTexts : EntryEdited(f, t)
    \/ \E f \in ParamFilters : EntryEntered(f)
    \/ PropertyResetClicked
    \/ PlayPause \/ BusEOS \/ BusElement

Next ==
    /\ ~closed
    /\ \/ MainLoop /\ UNCHANGED closed
       \/ \E f \in PvlFilters, n \in 0..MaxDetected :
             PostElement(f, n) /\ UNCHANGED closed
       \/ PostEOS /\ UNCHANGED closed
       \/ WindowClosed

Spec == Init /\ [][Next]_vars

-----------------------------------------------------------------------------

\* changed_pvl_filter clears detected_num and restarts the pipeline so that
\* the overlay follows the user's filter selection: while the pipeline
\* plays, draw_overlay_cb draws only the results of selected filters.
OverlayMatchesSelection ==
    pipeline.state = "PLAYING" => Drawn(detectedNum) \subseteq filters

\* While the pipeline plays, the parameter entries of the selected filters
\* that the user has not typed in since the program last set or applied
\* them show the values the pipeline's elements use: create_pipeline builds elements with their
\* defaults, and update_pvl_parameters, set_widget_pvl_default_value and
\* the property reset button bring entries and elements together again.
ParamsMatchEntries ==
    pipeline.state = "PLAYING" =>
        \A f \in (filters \cap ParamFilters) \ edited :
            HasElement(pipeline, f) => pipeline.param[f] = entry[f]

\* What the viewer runs and draws follows its controls: the overlay shows
\* only selected filters and the elements use the parameters the entries
\* show.
PipelineFollowsUi == OverlayMatchesSelection /\ ParamsMatchEntries
=============================================================================
