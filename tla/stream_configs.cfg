\* camera_hal_init writes eight ints per NV12 output, getSupportedStreamConfig
\* reads four: the application is handed a zero-sized configuration.
CONSTANTS
    NumCameras <- MCNumCameras
    HalStreamConfigs <- MCHalStreamConfigs
    NoMeta = NoMeta
    NoEntry = NoEntry
SPECIFICATION Spec
INVARIANT SupportedConfigsAreHalOutputs
