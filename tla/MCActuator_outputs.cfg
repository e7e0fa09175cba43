SPECIFICATION Spec
VIEW DeviceView
CONSTANTS
    NaN = NaN
    MIN_PLAUSIBLE_EPOCH = 2
    DayLength = 8
    MAX_RELAY_SLOTS = 4
    FunctionOrder <- OutputFunctions
    Metrics <- OutputMetrics
    Readings <- OutputReadings
    Configs <- OutputConfigs
    Wired <- MCAllPins
    PidOutputs = {55}
    MAX_HEATING_SENSOR_STALE_SECONDS = 2
    BootEpoch = 1
    ClockSyncs = {2}
    ClockSteps <- StepBack
    MaxEpoch = 3
INVARIANTS
    TypeOK
PROPERTIES
    ReportsMatchRelays
