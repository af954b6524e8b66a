\* One application thread, HAL returning results request by request.
CONSTANTS
    t1 = t1  t2 = t2  b1 = b1  b2 = b2  b3 = b3
    Null = Null  BadHandle = BadHandle
    Threads <- OneThread
    Buffers <- MCBuffers
    DmaBuffers <- MCDmaBuffers
    BadFormat = {}
    MapMayFail = FALSE
    MaxSubmits = 5
    MaxInFlight = 2
    DriverOrder = "Lockstep"
    DriverMayReject = FALSE
SPECIFICATION Spec
INVARIANT QueuedMatchesOutstanding DeliveredIntact
PROPERTY QueuedEventuallyCaptured ImplementsBufferQueue
