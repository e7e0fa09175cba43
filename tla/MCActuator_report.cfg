SPECIFICATION Spec
CONSTANTS
    NaN = NaN
    MIN_PLAUSIBLE_EPOCH = 1
    DayLength = 8
    MAX_RELAY_SLOTS = 2
    FunctionOrder <- ReportFunctions
    Metrics <- MCMetrics
    Readings <- ReportReadings
    Configs <- ReportConfigs
    Wired <- MCRelayPins
    PidOutputs = {0}
    MAX_HEATING_SENSOR_STALE_SECONDS = 2
    BootEpoch = 1
    ClockSyncs <- NoSteps
    ClockSteps <- NoSteps
    MaxEpoch = 1
INVARIANTS
    ServerViewConsistent
    TickInv
PROPERTIES
    StopNeverEnergises
