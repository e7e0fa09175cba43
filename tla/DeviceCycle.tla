---------------------------- MODULE DeviceCycle ----------------------------
(***************************************************************************)
(* The Arduino loop task of a WiFi device as a client of the network task: *)
(* the requests of one loop() in their order, the replay of the readings   *)
(* buffered on flash, and the task watchdog over both tasks.               *)
(*                                                                         *)
(* What the requests carry is abstracted: the relays are in Actuator, a    *)
(* buffered file is one unit of backlog, unreadable files (dropped unsent) *)
(* are not counted.  The requests a command itself makes, and the commands *)
(* pushed over MQTT, are left out; so are LoRa and GPS, compile-time       *)
(* options.  The relay task, which always feeds in time, is not watched    *)
(* here.                                                                   *)
(***************************************************************************)
EXTENDS NetworkTask

CONSTANTS
    BacklogMax,         \* files that fit under the cap on the partition
    Happening,          \* the optional requests that occur, "connect" among them
    IdleTimes,          \* lengths of the idle wait, in units
    Watched,            \* tasks subscribed to the task watchdog
    WDT_TIMEOUT

ASSUME DeviceAssumption ==
    /\ Clients = {"loop"}
    /\ BacklogMax \in Nat
    /\ "connect" \in Happening
    /\ IdleTimes \subseteq Nat /\ IdleTimes # {}
    /\ Watched \subseteq Callers
    /\ WDT_TIMEOUT \in Nat \ {0}

VARIABLES
    site,       \* the request of loop() the loop task has come to
    phase,      \* within its one retry after a 401
    asked,      \* the request of this phase has been made
    backlog,    \* files in /buffer
    idle,       \* what is left of the idle wait
    fed,        \* tasks that have fed the watchdog since it was restarted
    wdt         \* time until it reboots the device

loopVars == <<site, phase, asked>>
wdtVars == <<fed, wdt>>
vars == <<networkVars, site, phase, asked, backlog, idle, fed, wdt>>

KindOf == [boot      |-> "post",    \* setup(): apiAuthenticate
           outcome   |-> "event",   \* ConfigApplied, CrashLoopRollback, Crash
           config    |-> "poll",
           ack       |-> "post",    \* apiCommandAck
           executed  |-> "event",
           ota       |-> "ota",
           otaFailed |-> "event",
           applied   |-> "event",   \* or ConfigSyncFailed
           rejected  |-> "event",   \* RuleRejected
           flush     |-> "post",    \* flushBufferedSensorData, from loop()
           missing   |-> "event",   \* SensorMissing
           publish   |-> "mqtt",
           safety    |-> "event",
           fault     |-> "event",
           stale     |-> "event",
           changes   |-> "post",    \* pushControllerData
           drain     |-> "post",    \* flushBufferedSensorData, before the push
           push      |-> "post",
           discard   |-> "event",
           connect   |-> "mqtt"]    \* beginPersistentIfEnabled
Sites == DOMAIN KindOf \cup {"idle"}

Order == <<"boot", "outcome", "config", "ack", "executed", "ota", "applied",
           "rejected", "flush", "missing", "publish", "safety", "fault",
           "stale", "changes", "drain", "push", "connect", "idle">>

\* Requests that loop() makes in some cycles only.
Optional == {"boot", "outcome", "ack", "executed", "ota", "applied",
             "rejected", "missing", "publish", "safety", "fault", "stale",
             "changes", "connect"}
Replays == {"flush", "drain"}

\* The next request that loop() may come to; the events about a failed
\* update and a lost spill come out of the order.
Position(s) == CASE s = "otaFailed" -> 6
                 [] s = "discard"   -> 17
                 [] OTHER -> CHOOSE i \in DOMAIN Order : Order[i] = s
After(s) ==
    LET later == {i \in DOMAIN Order : /\ i > Position(s)
                                       /\ Order[i] \notin Optional \ Happening}
    IN  Order[CHOOSE i \in later : \A j \in later : i <= j]

-----------------------------------------------------------------------------
(* The task watchdog: restarted once every task it watches has fed it. *)

FedBy(tasks, otherwise) ==
    IF Watched \subseteq fed \cup tasks
    THEN fed' = {} /\ wdt' = WDT_TIMEOUT
    ELSE fed' = fed \cup tasks /\ wdt' = otherwise

Feed(task) == FedBy({task}, wdt)

-----------------------------------------------------------------------------
(* One request, with the retry after a 401 most of them have *)

Retried == KindOf[site] \in {"poll", "post", "event"} /\ site # "ack"

PhaseKind == CASE phase \in {"first", "again"} -> KindOf[site]
               [] phase = "auth"               -> "post"
               [] phase = "check"              -> "get"

\* A replay has a file to send; MQTT is connected only over WiFi.
Ask ==
    /\ site # "idle" /\ ~asked
    /\ site \in Replays => backlog > 0
    /\ site = "connect" => wifi
    /\ Call("loop", PhaseKind)
    /\ asked' = TRUE
    /\ UNCHANGED <<work, site, phase, backlog, idle, wdtVars>>

Back == asked /\ stage["loop"] = "idle"
Result == outcome["loop"]

ToPhase(p) == phase' = p /\ asked' = FALSE /\ UNCHANGED site
GoTo(s) == site' = s /\ phase' = "first" /\ asked' = FALSE

\* apiAuthenticate, isHardResetPending, then the same request again; at boot
\* apiAuthenticate is the request itself.
Reauthenticate ==
    /\ Back
    /\ \/ /\ phase = "first" /\ Retried /\ Result = "denied"
          /\ ToPhase(IF site = "boot" THEN "check" ELSE "auth")
       \/ phase = "auth" /\ Result = "denied" /\ ToPhase("check")
       \/ phase = "auth" /\ Result # "denied" /\ ToPhase("again")
       \/ phase = "check" /\ site # "boot" /\ ToPhase("again")
    /\ UNCHANGED <<networkVars, backlog, idle, wdtVars>>

Settled == /\ Back
           /\ \/ phase = "again"
              \/ phase = "first" /\ ~(Retried /\ Result = "denied")
              \/ phase = "check" /\ site = "boot"

Reboot == /\ NetworkReboot
          /\ GoTo("boot")
          /\ idle' = 0
          /\ fed' = {} /\ wdt' = WDT_TIMEOUT

\* The admin asked for a reset, in answer to the GET or in a configuration:
\* LittleFS is formatted.
HardReset == /\ Result = "ok"
             /\ \/ Back /\ phase = "check"
                \/ site = "config" /\ Settled
             /\ Reboot
             /\ backlog' = 0

-----------------------------------------------------------------------------
(* loop() *)

\* The watchdog is fed where the cycle ends, before the idle wait.
Leave(s) == /\ GoTo(s)
            /\ IF s = "connect" THEN Feed("loop") ELSE UNCHANGED wdtVars
            /\ UNCHANGED <<networkVars, backlog, idle>>

SkipOptional == /\ site \in Optional \ {"connect"} /\ ~asked /\ phase = "first"
                /\ Leave(After(site))

\* A disabled device does not read its sensors.
Disabled == /\ site = "flush" /\ ~asked /\ phase = "first"
            /\ Leave("connect")

\* A command comes with an answer only, an update is due without one, too.
Configured == /\ site = "config" /\ Settled
              /\ Leave(CASE Result = "wait" -> "connect"
                         [] Result = "ok"   -> After(site)
                         [] OTHER           -> After("executed"))

\* Little memory, a Reboot command (after its acknowledgement), or a change
\* that takes effect at boot only.
ConfigReboots == /\ \/ site = "config" /\ Settled /\ Result # "wait"
                    \/ site = "ack" /\ Settled
                 /\ Reboot /\ UNCHANGED backlog

Updated == /\ site = "ota" /\ Settled
           /\ \/ Result # "ok" /\ Leave("otaFailed")
              \/ Result = "ok" /\ Reboot /\ UNCHANGED backlog

\* Whatever came of it, the loop goes on.
Reported == /\ site \in (Optional \cup {"otaFailed", "discard"})
                            \ {"ota", "connect"}
            /\ Settled
            /\ Leave(After(site))

ReplayEmpty == /\ site \in Replays /\ ~asked /\ backlog = 0
               /\ Leave(After(site))

\* The file goes after its own 2xx; the next one is looked for.
Replayed == /\ site \in Replays /\ Settled /\ ~IsError(Result)
            /\ backlog' = backlog - 1
            /\ GoTo(site)
            /\ Feed("loop")
            /\ UNCHANGED <<networkVars, idle>>

ReplayBroken == /\ site = "flush" /\ Settled /\ IsError(Result)
                /\ Leave(After(site))

Pushed == /\ site = "push" /\ Settled /\ ~IsError(Result)
          /\ Leave("connect")

PushFailed == Settled /\ IsError(Result) /\ site \in {"push", "drain"}

KeptInRam == PushFailed /\ Leave("connect")

\* (mutant) the cap on the partition is not looked at
MutSpilled == /\ PushFailed
              /\ backlog' = backlog + 1
              /\ GoTo("connect")
              /\ Feed("loop")
              /\ UNCHANGED <<networkVars, idle>>

Spilled == /\ PushFailed
           /\ backlog < BacklogMax
           /\ backlog' = backlog + 1
           /\ GoTo("connect")
           /\ Feed("loop")
           /\ UNCHANGED <<networkVars, idle>>

\* A full partition, or a failed write or rename.
Discarded == PushFailed /\ Leave("discard")

StartIdle == /\ site = "connect"
             /\ Settled \/ (~asked /\ phase = "first")
             /\ idle' \in IdleTimes
             /\ GoTo("idle")
             /\ UNCHANGED <<networkVars, backlog, wdtVars>>

\* device.sleep() ends in a boot.
DeepSleep == /\ site = "connect" /\ ~asked /\ phase = "first"
             /\ Reboot
             /\ UNCHANGED backlog

NextCycle == /\ site = "idle" /\ idle = 0
             /\ Leave("config")

DeviceLoop ==
    \/ Ask \/ Reauthenticate \/ SkipOptional \/ Disabled
    \/ Configured \/ Updated \/ Reported
    \/ ReplayEmpty \/ Replayed \/ ReplayBroken
    \/ Pushed \/ KeptInRam \/ Spilled \/ Discarded
    \/ StartIdle \/ NextCycle
    \/ Facade("loop") /\ UNCHANGED <<loopVars, backlog, idle, wdtVars>>

-----------------------------------------------------------------------------
(* The network task feeds the watchdog where it picks a request up. *)

DeviceNetwork ==
    /\ \/ Receive /\ Feed("network")
       \/ NetworkLoop /\ ~Receive /\ UNCHANGED wdtVars
    /\ UNCHANGED <<loopVars, backlog, idle>>

\* What feeds it while time passes: the chunks of the idle wait, the chunks
\* of a download and the 5 s polls of the task that waits for it.  setup()
\* runs before it is armed.
FedMeanwhile ==
    (IF site \in {"idle", "ota"} THEN {"loop"} ELSE {}) \cup
    (IF work = "io" /\ heap[serving].kind = "ota" THEN {"network"} ELSE {}) \cup
    (IF site \in {"boot", "outcome"} THEN Watched ELSE {})

DeviceTick ==
    /\ Tick
    /\ IF site = "idle" THEN idle > 0 ELSE stage["loop"] = "wait"
    /\ wdt > 0
    /\ idle' = IF idle > 0 THEN idle - 1 ELSE 0
    /\ FedBy(FedMeanwhile, wdt - 1)
    /\ UNCHANGED <<loopVars, backlog>>

WatchdogReboot == wdt = 0 /\ Reboot /\ UNCHANGED backlog

Init == /\ NetworkInit
        /\ site = "boot" /\ phase = "first" /\ asked = FALSE
        /\ backlog \in 0..BacklogMax
        /\ idle = 0
        /\ fed = {} /\ wdt = WDT_TIMEOUT

WifiChanges == SetWifi /\ UNCHANGED <<loopVars, backlog, idle, wdtVars>>

Next == \/ DeviceLoop \/ DeviceNetwork \/ DeviceTick \/ WifiChanges
        \/ HardReset \/ ConfigReboots \/ DeepSleep \/ WatchdogReboot

Spec == Init /\ [][Next]_vars

-----------------------------------------------------------------------------
(* Properties *)

TypeOK ==
    /\ NetworkTypeOK
    /\ site \in Sites
    /\ phase \in {"first", "auth", "check", "again"} /\ asked \in BOOLEAN
    /\ backlog \in 0..BacklogMax
    /\ idle \in Nat
    /\ fed \subseteq Watched \cup Callers /\ wdt \in 0..WDT_TIMEOUT

\* Buffered readings leave the flash only because the server took them, or
\* because an admin had it formatted: not because a request without WiFi
\* comes back with errorCode 1000 and error still false, which the caller
\* would take for a success if it waited long enough to see it
\* (flushBufferedSensorData, requestPostSync, EventLog).
DataKept == [][backlog' < backlog => Result = "ok"]_vars

\* However long the server lets the device wait, the watchdog does not take
\* the idle wait for a stall (loop).
IdleIsNoStall == [][site = "idle" /\ wdt = 0 => site' # "boot"]_vars

\* The loop task and the network task feed the watchdog in time, whichever
\* requests the cycle makes (loop, networkTaskLoop): so it is during an
\* outage; a round trip may last longer than the watchdog waits.
FedInTime == wdt > 0
=============================================================================
