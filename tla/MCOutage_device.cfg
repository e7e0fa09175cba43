\* Unit: 10 s.  The deadline, the watchdog and the queue are the code's own; a
\* round trip of 8 units is long enough for the queue to fill.
SPECIFICATION RunSpec
VIEW RunView
CONSTANTS
    Clients = {"loop"}
    Requests = {r1, r2, r3, r4, r5, r6, r7}
    NoRequest = NoRequest
    NETWORK_QUEUE_LENGTH = 4
    NETWORK_REQUEST_TIMEOUT = 2
    IoMax = 10
    BacklogMax = 2
    Happening = {"boot", "outcome", "ack", "executed", "ota", "applied", "rejected", "missing", "publish", "safety", "fault", "stale", "changes", "connect"}
    IdleTimes = {1, 8}
    Watched = {"loop", "network"}
    WDT_TIMEOUT = 9
INVARIANTS
    TypeOK
    RequestsOwned
    FedInOutage
PROPERTIES
    DataKept
