CONSTANTS
    t1 = t1  t2 = t2  b1 = b1  b2 = b2  s1 = s1  s2 = s2  s3 = s3
    NULL = NULL  BadHandle = BadHandle
    Threads <- OneThread
    Buffers <- MCBuffers
    DmaBuffers <- MCDmaBuffers
    Settings <- MCSettings
    MaxSubmits = 4
    MaxInFlight = 1
    MapMayFail = FALSE
    InitMayFail = TRUE
    SettingsMayRealloc = TRUE
SPECIFICATION Spec
INVARIANT GrallocReleasedOnClose
\* camera_device_close ends the behaviour: one open per behaviour.
CHECK_DEADLOCK FALSE
