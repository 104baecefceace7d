CONSTANTS
    Capacity = 4
    Period = 2
    DeviceSize = 4
    CanPause = TRUE
    WriteRetries = 1
    MaxFrames = 3
    MaxFlushes = 1
SPECIFICATION MonitorSpec
INVARIANTS
    Unbroken
    FlushedIsSilent
PROPERTIES
    DrainEndsUnlessStalled
