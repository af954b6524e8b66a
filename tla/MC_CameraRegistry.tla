------------------------- MODULE MC_CameraRegistry -------------------------
(* Two cameras, each streamed by its own thread, as two camerasrc elements *)
(* in one process.                                                         *)
EXTENDS CameraRegistry

CONSTANTS t1, t2

MCCameras == {0, 1}
MCThreads == {t1, t2}
MCCameraOf == [t \in MCThreads |-> IF t = t1 THEN 0 ELSE 1]
=============================================================================
