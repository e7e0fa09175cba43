SPECIFICATION ConfigSpec
CONSTANTS
    MaxVersion = 1
    BootFields <- AlternatingFields
    Offers <- OtherImage
    MaxCommands = 0
    Actions = {"reboot", "forceOta", "wifi", "provision"}
    Pins = {"right", "wrong"}
    MaxFaults = 0
INVARIANT RefusedAsksAgain
