\* setParameters and configStreams over every combination of the application's
\* parameters, on a camera that does not advertise an exposure time range.
CONSTANTS
    NoEntry = NoEntry  NoValue = NoValue  NULL = NULL
    AeCompStep <- MCAeCompStep
    AeCompRange <- MCAeCompRange
    FpsRanges <- MCFpsRanges
    DvsModes <- MCDvsModes
    EtRange <- MCNoEtRange
    BandingModes <- MCBandingModes
    EvValues <- MCEvValues
    FpsValues <- MCFpsValues
    EtValues <- MCEtValues
SPECIFICATION Spec
INVARIANT SetParametersContract
