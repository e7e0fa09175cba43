\* Unit: 10 s.
SPECIFICATION Spec
VIEW DeviceView
CONSTANTS
    Clients = {"loop"}
    Requests = {r1, r2, r3, r4, r5, r6, r7}
    NoRequest = NoRequest
    NETWORK_QUEUE_LENGTH = 4
    NETWORK_REQUEST_TIMEOUT = 2
    IoMax = 1
    BacklogMax = 1
    Happening = {"connect"}
    IdleTimes = {30}
    Watched = {"loop", "network"}
    WDT_TIMEOUT = 9
PROPERTIES
    IdleIsNoStall
