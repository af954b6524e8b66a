\* Two cameras streamed at once, each by its own thread; a camera may be
\* opened again while open.
CONSTANTS
    t1 = t1  t2 = t2  NULL = NULL
    Cameras <- MCCameras
    Threads <- MCThreads
    CameraOf <- MCCameraOf
    MaxOpens = 3
    MaxFrames = 4
    MaxPending = 1
SPECIFICATION Spec
INVARIANT RegistrySafety
\* The bounds on opens and frames end every behaviour.
CHECK_DEADLOCK FALSE
