----------------------------- MODULE PvlFrFilter -----------------------------
(***************************************************************************)
(* The pvl face-recognition GStreamer filter                               *)
(* (src/pvl/pvl-gst/gst/pvl/gst_pvl_face_recognition_filter.c).            *)
(*                                                                         *)
(* Two threads share the filter's pvl_face_recognition handle: the         *)
(* streaming thread runs transform_frame_ip on every frame, and the        *)
(* application thread sets properties.  The filter serialises them with    *)
(* GST_OBJECT_LOCK: transform holds it from get_parameters to the end of   *)
(* run_in_preview_with_rect, and max-recognizable-faces holds it around    *)
(* set_parameters.  Setting database-file runs loadExternalDB, which       *)
(* resets the handle's database and registers the file's faces one by one. *)
(* The handle's database is the sequence of registered faces; a face is a  *)
(* model value.                                                            *)
(***************************************************************************)
EXTENDS Integers, Sequences

CONSTANTS
    DbFiles,        \* the contents of the database files the application
                    \* may name: sequences of faces
    MaxDb,          \* fr->max_faces_in_database
    FaceCounts,     \* max-recognizable-faces values the application may set
    MaxDetected     \* most faces a frame's detection meta carries

ASSUME MaxDb \in Nat /\ MaxDetected \in Nat /\ FaceCounts \subseteq Nat

VARIABLES
    lock,           \* GST_OBJECT_LOCK (filter) is held
    maxFaces,       \* params.max_faces_in_preview inside the handle
    db,             \* the handle's internal database, in registration order
    streamPc,       \* "idle" or "run": inside run_in_preview_with_rect
    loadPc,         \* "idle" or "entry": loadExternalDB's register loop
    loadFile,       \* the file being loaded
    loadPos         \* the loop index i (1-based)

vars == <<lock, maxFaces, db, streamPc, loadPc, loadFile, loadPos>>

Init ==
    /\ lock = FALSE
    /\ maxFaces \in FaceCounts
    /\ db = <<>>
    /\ streamPc = "idle"
    /\ loadPc = "idle" /\ loadFile = <<>> /\ loadPos = 1

\* transform_frame_ip up to the analysis: take the lock, read
\* max_faces_in_preview, bound the detected faces by it.  With no face, or
\* when create_result_buffer fails, the lock is released at once (the
\* frame gets an empty meta); otherwise run_in_preview_with_rect starts.
TransformBegin(detected) ==
    /\ streamPc = "idle" /\ ~lock
    /\ LET numFaces == IF detected > maxFaces THEN maxFaces ELSE detected
       IN  \/ /\ numFaces > 0
              /\ lock' = TRUE /\ streamPc' = "run"
           \/ UNCHANGED <<lock, streamPc>>
    /\ UNCHANGED <<maxFaces, db, loadPc, loadFile, loadPos>>

\* run_in_preview_with_rect returns and the lock is released; the meta,
\* the bus message and the perf counters follow without the lock and
\* touch nothing the handle holds.
TransformEnd ==
    /\ streamPc = "run"
    /\ lock' = FALSE /\ streamPc' = "idle"
    /\ UNCHANGED <<maxFaces, db, loadPc, loadFile, loadPos>>

\* set_property (PROP_MAX_RECOGNIZABLE_FACES): set_parameters under the lock.
SetMaxRecognizableFaces(m) ==
    /\ loadPc = "idle" /\ ~lock
    /\ maxFaces' = m
    /\ UNCHANGED <<lock, db, streamPc, loadPc, loadFile, loadPos>>

\* set_property (PROP_DATABASE_FILE): loadExternalDB up to its loop, with
\* no lock.  fopen, the header fread and the count check may each fail
\* and return before the handle is touched; otherwise
\* pvl_face_recognition_reset empties the handle's database.
LoadExternalDB(f) ==
    /\ loadPc = "idle"
    /\ \/ UNCHANGED <<db, loadPc, loadFile, loadPos>>
       \/ /\ Len(f) <= MaxDb
          /\ db' = <<>>
          /\ loadPc' = "entry" /\ loadFile' = f /\ loadPos' = 1
    /\ UNCHANGED <<lock, maxFaces, streamPc>>

\* One turn of the loop: both freads succeed and register_facedata adds
\* the face, or a short fread returns FALSE, or a failed registration
\* breaks the loop; both leave the faces registered so far.
LoadEntry ==
    /\ loadPc = "entry"
    /\ IF loadPos > Len(loadFile)
       THEN /\ loadPc' = "idle" /\ UNCHANGED <<db, loadPos>>
       ELSE \/ /\ db' = Append(db, loadFile[loadPos])
               /\ loadPos' = loadPos + 1 /\ UNCHANGED loadPc
            \/ /\ loadPc' = "idle" /\ UNCHANGED <<db, loadPos>>
    /\ UNCHANGED <<lock, maxFaces, streamPc, loadFile>>

Next ==
    \/ \E d \in 0..MaxDetected : TransformBegin(d)
    \/ TransformEnd
    \/ \E m \in FaceCounts : SetMaxRecognizableFaces(m)
    \/ \E f \in DbFiles : LoadExternalDB(f)
    \/ LoadEntry

Spec == Init /\ [][Next]_vars

-----------------------------------------------------------------------------

\* The filter takes GST_OBJECT_LOCK around every call that uses or changes
\* the handle from the streaming thread, so no step may change the face
\* database while run_in_preview_with_rect is matching faces against it.
DbStableDuringRecognition ==
    [][streamPc = "run" /\ streamPc' = "run" => db' = db]_vars
=============================================================================
