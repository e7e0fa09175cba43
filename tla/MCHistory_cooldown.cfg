SPECIFICATION HSpec
VIEW RelayView
CONSTANTS
    NaN = NaN
    MIN_PLAUSIBLE_EPOCH = 1
    DayLength = 8
    MAX_RELAY_SLOTS = 1
    FunctionOrder <- PumpFunctions
    Metrics <- MCMetrics
    Readings <- PumpReadings
    Configs <- LongRunConfigs
    Wired <- MCRelayPins
    PidOutputs = {0}
    MAX_HEATING_SENSOR_STALE_SECONDS = 2
    BootEpoch = 1
    ClockSyncs <- NoSteps
    ClockSteps <- NoSteps
    MaxEpoch = 6
    HistoryCap = 3
PROPERTIES
    CooldownAfterEveryPumpOff
