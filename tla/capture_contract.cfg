\* Two application threads: start() draining mPendingBuffers races qBuf.
\* The HAL returns metadata and buffers each in request order, the two
\* streams independent, and may reject process_capture_request.
CONSTANTS
    t1 = t1  t2 = t2  b1 = b1  b2 = b2  b3 = b3
    Null = Null  BadHandle = BadHandle
    Threads <- TwoThreads
    Buffers <- MCBuffers
    DmaBuffers <- MCDmaBuffers
    BadFormat = {}
    MapMayFail = FALSE
    MaxSubmits = 4
    MaxInFlight = 2
    DriverOrder = "PerStream"
    DriverMayReject = TRUE
SPECIFICATION Spec
PROPERTY CaptureContract
