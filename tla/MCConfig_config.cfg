SPECIFICATION ConfigFairSpec
CONSTANTS
    MaxVersion = 3
    BootFields <- AlternatingFields
    Offers <- OtherImage
    MaxCommands = 1
    Actions = {"reboot", "forceOta", "wifi", "provision"}
    Pins = {"right", "wrong"}
    MaxFaults = 2
INVARIANTS
    ConfigTypeOK
    DiskIsLive
    CommandsOnce
    TrialNotKept
PROPERTY
    ConfigConverges
