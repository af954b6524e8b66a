CONSTANTS
    t1 = t1  t2 = t2  b1 = b1  b2 = b2  b3 = b3
    Null = Null  BadHandle = BadHandle
    Threads <- TwoThreads
    Buffers <- TwoBuffers
    DmaBuffers <- TwoBuffers
    BadFormat = {}
    MapMayFail = FALSE
    MaxSubmits = 3
    MaxInFlight = 2
    DriverOrder = "Lockstep"
    DriverMayReject = TRUE
SPECIFICATION Spec
INVARIANT BufferAccounting

