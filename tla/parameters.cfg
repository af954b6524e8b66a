\* setParameters over every combination of the application's parameters.
CONSTANTS
    NoEntry = NoEntry  NoValue = NoValue  NULL = NULL
    AeCompStep <- MCAeCompStep
    AeCompRange <- MCAeCompRange
    FpsRanges <- MCFpsRanges
    DvsModes <- MCDvsModes
    EtRange <- MCEtRange
    BandingModes <- MCBandingModes
    EvValues <- MCEvValues
    FpsValues <- MCFpsValues
    EtValues <- MCEtValues
SPECIFICATION Spec
INVARIANT TypeOK SettingsWithinCapabilities FpsRangeSelection
