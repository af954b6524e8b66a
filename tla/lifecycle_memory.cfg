\* Two application threads; setParameters may reallocate the settings and
\* GRALLOC_MAP_FD may fail.
CONSTANTS
    t1 = t1  t2 = t2  b1 = b1  b2 = b2  s1 = s1  s2 = s2  s3 = s3
    NULL = NULL  BadHandle = BadHandle
    Threads <- TwoThreads
    Buffers <- MCBuffers
    DmaBuffers <- MCDmaBuffers
    Settings <- MCSettings
    MaxSubmits = 2
    MaxInFlight = 1
    MapMayFail = TRUE
    InitMayFail = FALSE
    SettingsMayRealloc = TRUE
SPECIFICATION Spec
PROPERTY LifecycleMemorySafety
\* camera_device_close ends the behaviour: one open per behaviour.
CHECK_DEADLOCK FALSE
