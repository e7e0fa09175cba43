SPECIFICATION FairSpec
CONSTANTS
    NaN = NaN
    MIN_PLAUSIBLE_EPOCH = 1
    DayLength = 8
    MAX_RELAY_SLOTS = 1
    FunctionOrder <- RestFunctions
    Metrics <- MCMetrics
    Readings <- RestReadings
    Configs <- RestConfigs
    Wired <- MCRelayPins
    PidOutputs = {0}
    MAX_HEATING_SENSOR_STALE_SECONDS = 2
    BootEpoch = 1
    ClockSyncs <- NoSteps
    ClockSteps <- NoSteps
    MaxEpoch = 1
PROPERTIES
    DisabledComesToRest
    ChangesAreDrained
