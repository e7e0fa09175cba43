SPECIFICATION InstalledSpec
VIEW InstalledView
CONSTANTS
    NaN = NaN
    MIN_PLAUSIBLE_EPOCH = 1
    DayLength = 8
    MAX_RELAY_SLOTS = 2
    FunctionOrder <- InstalledFunctions
    Metrics <- MCMetrics
    Readings <- InstalledReadings
    Configs <- InstalledConfigs
    Wired <- MCRelayPins
    PidOutputs = {0}
    MAX_HEATING_SENSOR_STALE_SECONDS = 2
    BootEpoch = 2
    ClockSyncs <- NoSteps
    ClockSteps <- NoSteps
    MaxEpoch = 8
    HistoryCap = 3
INVARIANTS
    PositionTracked
    PumpRunCeiling
    AtMostOneStaleTick
    HeatingHoldBounded
    DisabledAtRest
PROPERTIES
    DeadTime
    PumpCooldown
    MinTimesHonoured
