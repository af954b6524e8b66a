\* Filter toggles, parameter entries, pipeline restarts, file selection and
\* EOS against the streaming thread's bus messages.
CONSTANTS
    Toggles = {"FD", "FR", "PD"}
    MaxDetected = 1
    MaxBus = 2
    CameraSrcAvailable = TRUE
SPECIFICATION Spec
INVARIANT PipelineFollowsUi
\* window_closed_cb quits the application.
CHECK_DEADLOCK FALSE
