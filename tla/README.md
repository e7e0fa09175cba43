# A TLA+ model of the Agrumy firmware

This directory models the firmware in `src/`: an ESP32 device that reads
greenhouse sensors, drives relays, motors and proportional outputs by rules a
server sends it, and reports back. It holds TLA+ modules, TLC configurations
and TLAPS proofs; `PROJECT.json` maps every definition to the lines it stands
for and lists runs, theorems, hazards and findings.

## 1. The system

Three FreeRTOS tasks share one global state.

| Part | State it keeps | Operations | Talks to |
|---|---|---|---|
| Relay task (`relayTaskLoop`, `ActuatorController`) | per slot: applied level, on/off stamps, motor position and dead time, pump stamps; per function: last reported state; pending changes and events | every 2 s: `initController`, or `forceAllRelaysOff` while disabled | reads `deviceConfig` and the sensor snapshot under `deviceStateMutex`, drives the outputs |
| Loop task (`main.cpp: loop`) | cycle state, wait time | reconnect, `apiConfig`, sensor cycle or forced-off, idle wait | server (through the network task), relay task (lock), watchdog |
| Network task (`AgrumyClient`) | a queue of four requests | one POST, GET, download or MQTT call at a time | the other tasks block on a request's semaphore, with a deadline |
| `ServiceController` | config candidate, wait seconds | `apiConfig`, `pushEvent`, `pushControllerData`, discovery | network task, storage, inbox |
| `SensorController` | current readings, RAM buffer, relay snapshot | read drivers, `pushSensorData`, spill, flush | storage, service, controller |
| `StorageController` | LittleFS files | atomic save, numbered buffers, backup of the configuration | flash; format after repeated failures |
| `DeviceController`, `PowerController` | clock, rollback and auth counters in RTC memory, registration | boot, registration, NTP, restart, deep sleep, reset | NVS, storage, server |
| `InboxController`, `CommandReplayLogic`, `MqttController` | last processed command id, MQTT client | accept or reject a command, execute it | poll path and MQTT callback |
| `ConfigParser`, `ConfigParseLogic` | none | JSON to `DeviceConfig`, caps and rejected rules | service |
| `OtaController` | none | download, verify, switch image | network task |
| `RelayIO`, `PwmIO`, `AnalogIO`, `ServoIO` | I2C shadow byte and fault latch | write a level | hardware |
| LoRa node, bridge, relay | session counters, RTC buffer, serial frames | uplink, downlink, store and forward | radio, service |
| Display, GPS, battery, discovery | page, fix | presentation and I/O | read-only getters |

What makes it hard: the relay task and the loop task interleave, and only part
of what they share is read under the lock; the loop task blocks in the network
for many seconds while the relay task goes on with an old snapshot; three
different paths force the outputs off and leave different tracking state
behind; timers are differences of a wall clock that jumps; pushes are lost;
the device restarts between any two flash writes. The correctness of each part
is listed with its hazards in `PROJECT.json`; for the core it is: an output
does what was decided and reported; pump, heater, motor and minimum-time
limits hold in real time whatever the rules say; a stop stops; the server's
view is the device's.

## 2. Modules

| Module | What it is |
|---|---|
| `RelayLogic` | the pure functions of `Logic/RelayLogic.cpp`, same names and argument order |
| `Actuator` | the relay task and the loop task around `ActuatorController` |
| `ActuatorHistory` | `Actuator` with history variables: what relays and motors physically did, in ticks |
| `NetworkTask` | the request queue, its callers and the network task |
| `DeviceCycle` | `NetworkTask` composed with the loop task as its client, and the task watchdog |
| `DeviceOutage` | `DeviceCycle` with or without WiFi down from the boot on |
| `StoreAndForward` | abstract: what any of the firmware's buffers promises |
| `UplinkBuffers` | readings and relayed uplinks in RAM and on LittleFS; implements `StoreAndForward` twice |
| `LoRaNode` | the deep-sleeping LoRa node; implements `StoreAndForward` |
| `GatewayBridge` | the gateway's radio board: one loop over radio and serial line |
| `LoRaLink` | `LoRaNode` and `GatewayBridge` on one channel |
| `ConfigLife` | registration, configuration, commands, WiFi network and image across reboots |
| `MCActuator`, `MCHistory`, `MCDevice`, `MCOutage`, `MCUplink`, `MCLink`, `MCConfig` | small instances for TLC |
| `Actuator_proofs`, `ActuatorHistory_proofs`, `NetworkTask_proofs`, `DeviceCycle_proofs` (and `DeviceOutage`), `StoreAndForward_proofs`, `UplinkBuffers_proofs`, `LoRaLink_proofs`, `ConfigLife_proofs` | theorems about the module of that name |

### 2.1 `Actuator`: state and actions

`deviceConfig` is the live configuration, a member of `Configs`. Each record of
`slots` gathers what the class keeps in one array per field: `applied` is
`lastAppliedPercent`, `onSince`/`offSince` are `slotOnSinceEpoch` and
`slotOffSinceEpoch`, `dispatched` is `lastDispatchEpoch`, `position`,
`direction` and `dead` are the motor's, `pumpOnSince`/`pumpOffSince` the
pump's, `type` is `lastConfiguredType`. `pin` is the level of every output.
`reported`, `pending`, `safetyEvent`, `staleEvent` and
`heatingSensorStaleSinceEpoch` are the class's members of those names.
`server` and `inFlight` follow the changes to the server, `lost` names the
functions whose last pushed change did not arrive.

The relay task: `RelayCheckEnabled` (the unlocked test), `RelaySnapshotGet`,
`InitController` (lock, remap, safety switches), then per function
`DecideFunction`, `DispatchSlot` per entry and `RecordFunction`; the pump's
safety pass `PumpWrite`, `ApplyWaterPumpSafetyLimits` per slot; `FinishTick`,
`RelayDelay`. The forced-off path `ForceAllRelaysOff`, `RecordOff`,
`FinishForcedOff` runs in either task. The loop task: `ApiConfigCommit` or
`ApiConfigUnchanged`, `LoopBody`, the three consume actions,
`PushControllerData` (delivered or lost), `ServerAppliesChange`,
`PublishSnapshot`, `LoopDelay`. `SetClock` is NTP, or the server's clock before
the first NTP answer.

The lock is the program counter: a task inside its critical section has a
label in `Critical`, and an action that takes the lock waits for `LockFree`.
The steps of a tick are separate actions although they hold the lock, so that
whatever the other task does WITHOUT the lock interleaves with them.

Abstractions, all of data: readings are small integers or `NaN`; one unit of
time is one relay tick and configured durations are in that unit; the result of
`pidCompute` is any of `PidOutputs`; an output's conversion to a pulse width or
a DAC value is left out; a latching valve is the position it was last pulsed
to; VPD and dew point are metrics of their own. A slot number outside the bank
is excluded. An I2C write succeeds.

### 2.2 `ActuatorHistory`

The controller judges by its own stamps. To check what those stamps are FOR,
the history counts real ticks: `runs` holds for how many samples a relay has
had its present level and which disturbances (boot, forced-off, clock set,
remap) fell into that time, `motor` integrates the energised windings in units
in which no travel time is rounded (`Moved`: a tick is 100 and the whole way
100 times the travel time), while the code books whole percents,
`staleTicks` counts ticks finished after the device was disabled, `blindTicks`
ticks a heater was on without a temperature; `rested` says that the relay task
has made a forced-off pass under the disabling configuration in force. No action
of `Actuator` reads any of it.
A pump that is forced off keeps the stamp of its start; so that a clock set back
during that run is remembered in the next, `Sampled` hands the mark on
(`Inherited`).

`HSpec` lets every configuration change everything. `InstallationSpec` is one
installation: new configurations change rules, overrides, limits, `enabled` and
the stop, but list the same relays. `Separate(c)` says that no two entries of a
configuration share an output or a slot number, `OnePump(c)` that at most one is
a pump, `ListedOnce(c)` that a tick comes to every function and entry once, and
`WholeSteps(c)` that every target of a motor is reached in whole steps of what
is booked for a tick (`StepOf`): with a travel of 2 ticks these are 0, 50 and
100, with one of 3 only 0 and 100, since three steps of 33 fall short of 100,
and with one above 100 any percent. `HeatsByTemperature(c)` says that the hold
of the fail-safe policy is all that keeps a heater on without a temperature: no
minimum on-time, no rule that is true without it, no override or PID loop on
another metric. The installations of the run `history` are of that kind, which
`MCHistory` asserts with an ASSUME; section 4 says which theorems need it.

### 2.3 `NetworkTask` and `DeviceCycle`

`heap` holds the `NetworkRequest`s, with `released` and the binary semaphore
`done`; `queue` is `networkQueue`; `stage`, `handle`, `left` and `outcome`
follow each caller through a facade (`requestPost`, `requestGet`,
`mqttPublish`, `mqttConnectPersistent`, `firmwareUpdate`, which differ in
nothing but the payload, except that the last polls without a deadline):
`Call`, `Enqueue` or `EnqueueFails`, `Answered` or `TimedOut`. The network task
is `Receive`, then `BeginIo` and `FinishIo`, or `NoWifi`, or `NoWifiEvent` and
`NoWifiEventDone` (it calls the facade itself, through its own queue), then
`Give` and `Release`. `Released` is `releaseNetworkRequest`.

`DeviceCycle` adds the loop task: `site` is the request of `loop()` it has come
to, in the order of the source (`Order`); `phase` walks the retry after a 401
(`Reauthenticate`); `backlog` counts the files in `/buffer`
(`flushBufferedSensorData` at two sites, `pushSensorData` with `Spilled`,
`KeptInRam` and `Discarded`). `fed` and `wdt` are the task watchdog, which
restarts only when every task it watches has reset it. `Reboot` loses all of
RAM, never the backlog; `HardReset` formats the flash.

Time: a `Tick` is 10 s and happens when every task is blocked; the deadline is
2 units, the watchdog 9, so the constants of the cfg files are the code's own.
What takes less is instantaneous (the 200 ms of a full queue, reading sensors,
TLS of a fast server): a result about the watchdog therefore holds up to those
seconds. One assumption about time is in a guard (`OwnerExpires`): of two waits
of 20 s the one begun earlier ends first. The network task begins its own wait
after it has received the request, and its owner began to wait right after
sending it; nothing but that orders the two in the code.

`DeviceOutage` adds one environment: in an `outage` WiFi is down from a boot on
and stays so; without one it comes and goes. `EnoughTime` is what the watchdog
needs for an outage: a queue, a deadline above 0, four deadlines and every idle
wait shorter than the watchdog's time-out. `MCOutage` asserts it of the
constants of its cfg, which are the code's.

Not modelled here: a command's own requests (what a command does is in
`ConfigLife`), LoRa and GPS (compile-time options), unreadable buffer files
(in `UplinkBuffers`), the relay task as a watched task (it resets the watchdog
at every tick), NTP.

### 2.4 `StoreAndForward` and `UplinkBuffers`

`StoreAndForward` has four steps: `Make` an item, `HandOver` a batch (the
device need not learn of it), `Release` what has been handed over, and a
`Mishap`, which alone may lose something. Where the line is `Ordered`, a batch
holds every older item not yet released.

`UplinkBuffers` is the code that keeps this promise. `ram` is
`sensorDataJsonArray`; `files` are the files of `/buffer` and `/relaybuffer`,
each a name and the items in it; `orphans` the `.tmp` files left by an
interrupted save; `folders`, `nextIndex` and `openFailures` the directories,
the per-boot counter and `saveFile`'s consecutive failures. `site` walks
`loop()`: `poll` (`apiConfig`, whose save of the configuration shares
`openFailures`), `save` (`saveConfigFile` opens two files, the backup and then
config.json, and either may fail to open, the first with a `format()`),
`radio` (`LoRaGatewayRelayController::poll`), `relayFlush`,
`relaySend`, then the sensor cycle `flush`, `read`, `drain`, `push`, `keep`.
At a site that sends, `PostAnswered` or `PostFails` decides what the server
has and what the caller is told. `Saved`, `Discarded` (the cap or the heap),
`NotOpened` (with `format()` at the last failure in a row), `NotWritten` and
`CutShort` (restart with a `.tmp` left) are the outcomes of a spill; `Reboot`
strikes between any two steps. The mapping is
`held <- Held(b)`, `safe <- mishaps = 0`.

### 2.5 `LoRaNode`, `GatewayBridge`, `LoRaLink`

`node` walks one wake-up: `begin`, the flush (`disk`, then `drain` of RTC
memory), `uplink`, `send`, `listen` or `buffer`, `sleep`. `rtc` is
`rtcUplinkBuffer`; `loraFiles` and `loraOrphans` are `/lorabuffer`; `sent`
what the flush has transmitted of the file, or of RTC memory, in hand;
`sinceFed` counts frames since the watchdog was fed. An uplink is its number,
which stands for its random boot nonce and the counter 1 that every boot starts
with; `isCounterAckV2` compares it with what an acknowledgement echoes. A
battery pull (`PowerFails`) loses RTC memory; for a watchdog reset the model
allows both outcomes, since the source relies on RTC memory surviving a panic
(`DeviceController.cpp:20-24`) and the platform documents it for deep sleep.
Encryption, frame layout and airtime are data: `RtcFrames` frames fit the
buffer, `FramesPerTimeout` fit the watchdog's time-out.

`GatewayBridge` has the serial line byte by byte, because what can go wrong in
it is a byte: `line` is what the gateway process has written (`Encoded`,
external) and the board has not read, `serialBuffer` the class's buffer,
`Consumed` is `tryDecodeAgrumySerialDownlink`. A frame is smaller than the real
one (one byte each of address and length) and a byte has few values, but its
checksum is the code's, an exclusive or. The line may lose a byte, the board
may restart.

`LoRaLink` puts both on one channel `air`, which holds one frame: the board
hears it only while it listens, and the node only in its two windows.

### 2.6 `ConfigLife`

One variable per thing that survives a reboot: `config` and `bak` (config.json
and its backup, as version numbers), `registration`, `idFile` on LittleFS;
`regBackup`, `network` (what the SDK's `WiFi.begin` persists) and `netBackup`
in NVS; `rapid` in RTC memory; `image`. In RAM: `live` is `deviceConfig`,
`candidate` the configuration just received, `command` and `channel` the
command in hand, `lastId` is `lastProcessedId`, `pin` the registration in use.
`server`, `issued` and `unacked` are the server.

`stage` walks `setup()` (`Boot`, `Provision`, `MirrorRegistration`, `Connect`,
`Load` with the rollback, `Registered`/`RegisterFails`/`RegisterRefused`), then
`apiConfig` (`PollAnswered` or `PollEmpty`, `BackUpConfig`, `SaveConfig`, the
inbox, `OtaGate`, `CommitByReboot` or `HotApply`) and inside it a command:
`DropCommand` or `AcceptCommand`, `Acknowledge`, `Execute`, and from there the
trial of a network, the provisioning of another device, or a forced update.
`MqttCommand` enters the same inbox from the persistent channel. A `Crash` may
fall between any two of these steps, and a write may fail, up to `MaxFaults`
times together: a save to LittleFS, with or without the `format()` of a third
failure, of the backup as well as of config.json, or one of the copies in NVS.
`saveLost` says that the last save of config.json failed, or that flash was
formatted since. `HardReset` is the admin's reset flag.

## 3. What the runs show

All bounds are CONSTANTS of the cfg files: `MaxEpoch` stops the clock,
`HistoryCap` the counters, `Configs` and `Readings` list what the server and
the sensors may send.

| Run | Properties | What happens in it |
|---|---|---|
| `report` | `ServerViewConsistent`, `TickInv`, `StopNeverEnergises` | two functions, buffer of two, configurations enabled, disabled and stopped, pushes lost; the clock stands, because nothing in it is timed |
| `rest` | `DisabledComesToRest`, `ChangesAreDrained` | fair tasks, one pump |
| `outputs` | `TypeOK`, `ReportsMatchRelays` | PWM with a ramp, servo, relay, latch, PID, schedule, target override, a clock first unsynchronised, then set and set back |
| `history` | `PumpRunCeiling`, `PumpCooldown`, `PositionTracked`, `DeadTime`, `AtMostOneStaleTick`, `MinTimesHonoured`, `HeatingHoldBounded`, `DisabledAtRest` | one of several installations, chosen at boot: a pump (ceiling 2, cooldown 2: a full run, its cooldown, a restart, a tank that runs dry), a vent (travel 2 and dead time 2: opening, reversal, pause, closing; or travel 3 or 120 without dead time: steps that do not divide the way, and steps of less than a percent), a light (minimum times 2 and 2, disabled and enabled anywhere), a heater (ceiling 2, hold and schedule-only alternating, the sensor failing at will); clock from 2 to 6, for the vents to 8, which lets the motor of three steps be tracked as open and close again; the sensor of each takes the values its rules tell apart, or none; 429 waits anywhere |
| `device` | `TypeOK`, `RequestsOwned`, `FedInOutage`, `DataKept` | queue of 4, round trips up to 100 s, 401s, 429s, updates, reboots, a backlog of up to 2; either WiFi coming and going anywhere (the queue fills up with abandoned requests and the watchdog reboots), or none from the boot on, with every optional request free to occur and idle waits of 10 s and 80 s |
| `store` | `TypeOK`, `ImplementsSensorLine`, `ImplementsRelayLine`, `ReadingsDrain` | 4 readings and 2 uplinks, spills of 2 readings, room for 2 files, one mishap by chance; lost answers anywhere, a full partition, a failing flash that ends in a format |
| `radio` | `LinkTypeOK`, `RtcUnsent`, `DownlinksIntact`, `AckedIsForwarded`, `ImplementsLoRaLine` | up to 5 uplinks, or fewer and up to 2 downlinks; RTC memory of 2 frames, 1 file, a watchdog that bites after 1 unfed frame; one mishap, of the node, the line or the board |
| `config` | `ConfigTypeOK`, `DiskIsLive`, `CommandsOnce`, `TrialNotKept`, `ConfigConverges` | 3 versions of the configuration, each differing from the next in a field read at boot, two of them offering another image; a command of any kind, delivered repeatedly over both channels; a right or a wrong pin; two faults |

The bounds are small because every timer compares one difference of epochs with
one configured duration: a duration of 2 distinguishes "too early", "on time"
and "late", and two to three times the longest duration lets a complete cycle
and its repetition happen. Each property has a mutant (an operator marked
`(mutant)` in the module) under which its run fails.

`device` uses the seven heap cells that can be live at once: four
queued, one served, one per caller about to enqueue. A round trip of 100 s
(`IoMax`) outlasts the watchdog; longer ones add nothing.

`FedInOutage` is checked for a steady outage because that is where it is close:
four POSTs of 20 s leave 10 s (and with a watchdog of exactly four deadlines the
run finds the reboot, so the bound of `EnoughTime` is sharp). It says what the
code does not show at a glance, that the network task's wait for itself delays
its caller no further, and it bounds the wait of both tasks where a liveness
property would be vacuous: the watchdog ends every stall. With idle waits of 90
s and more, which the run `idle` is about, it fails in an outage as well.

`store`: four readings fill the RAM array twice, so a backlog of two files, a
spill against the cap and a live push behind a backlog all occur. `format()`
comes after 2 failures in a row instead of the code's 3; the counter's reset
and its sharing with the configuration's save do not depend on the number.
`radio`: two frames of RTC memory and one file make the node spill, meet the
cap and flush both. The only payload is the marker byte and the type, so that
every cut of the line offers the decoder a false header. `config`: with three
versions both a reboot and a hot apply, and a rollback over either, occur;
one command is enough for `CommandsOnce` to be about repetition, and its
theorem covers any number.

`VIEW`: `outputs` drops `server` and `lost`, which no guard and no property of
that run reads. The run `cooldown` drops of the history what its property does
not read. The run `history` drops more, since no property of it speaks of
reports: everywhere the two events and the changes in flight; for the pump, the
vents and the light also `reported` and `pending`, because a report decides
only where a rule has a hysteresis, as the heater's has; of the history what
the installation's properties do not read or cannot change: `runs` of a motor
without dead time and of the heater, `motor` once something was disturbed, the
stale ticks of a device that is never disabled. What is dropped decides one
thing besides itself, whether `PushControllerData` may skip the delivery: two
untimed steps of the loop task alone, after which both ways meet, so the states
the properties tell apart are reached either way. That reports match relays is
checked by `outputs`, which keeps `reported` and `pending`.
The view of `MCDevice` forgets which cell a request lies in (`Call` takes any
free one, no action compares them) and, of a request its caller has given up,
everything but whether the network task will report WiFi for it and whether it
feeds the watchdog.

Fairness. `FairSpec` assumes strong fairness of each task as a whole. The watchdog
reboots a device whose task stops; the lock is granted in turn because both
tasks sleep outside it (2 s, and 10 s or more). Nothing is assumed about the
network, the server's answers or the clock in `Actuator`. `ReadingsDrain`
assumes that the loop task keeps running, that again and again the device is
enabled and not told to wait, and that again and again the server answers at
each place where readings are sent; without the last a reading stays for ever,
as it should. `ConfigConverges` assumes that the device runs and that a poll
and a registration made over and over are sooner or later answered.

### 3.1 Where comments and code disagree

Four runs end in a violation: each checks one sentence of a comment against
what the code does, and the finding in `PROJECT.json` quotes it.

| Run | What the code does |
|---|---|
| `cooldown` | a pump stopped by a forced-off restarts without cooldown |
| `idle` | an idle wait longer than 90 s reboots the device: the network task, watched too, feeds nothing while its queue is empty |
| `wedge` | one byte lost on the serial line may leave the gateway board waiting for a frame longer than its buffer, for ever |
| `portal` | a refused registration is wiped from LittleFS, restored from NVS and refused again, for ever; the portal does not open |

More were met while modelling. They have no run of their own, and the model
follows the code:

Outputs

- an expired override keeps its function off instead of handing back to the
  rules (`ActuatorController.cpp:772` against `RelayLogic.h:76`);
- outputs forced off for a 429 wait are driven again at the next relay tick
  (`main.cpp:396`);
- equal slot numbers of two banks share one shadow, so that a relay may not be
  written (`ActuatorController.cpp:111` against `DeviceModel.h:274`); the
  configurations of the runs use different numbers;
- a lost push stays wrong on the server until that same function changes
  (`ServiceController.cpp:82` calls it a lag until the next change);
- a forced-off resets the tracked position of a motor that stays where it is
  (`ActuatorController.cpp:475`: it "just holds wherever it physically is");
- a pump forced off keeps the stamp of its start
  (`driveEveryAssignedRelayOff` does not touch `waterPumpOnSince`), which the
  next run inherits when the controller did not see the pump off in between; a
  clock set back before then makes that next run longer than the ceiling;
- a stop does not reach a relay that was on and that the configuration which
  carries the stop no longer lists;
- a held heater can be switched on without a temperature, because "currently
  on" is the reported state, not the relay (`ActuatorController.h:113`);
- a motor's step is `100 / travelSeconds` in integers, and at least 1
  (`RelayLogic.cpp:202-206`), although `DeviceModel.h:310` calls travelSeconds
  the time of a full traversal: a motor of 3 ticks is booked at 33 and 66 percent
  where it is at 33 1/3 and 66 2/3, and needs a fourth tick to be booked as
  open; one that travels for more than 100 ticks, each of which is booked as a
  percent (at 2 s a tick, a travel of more than 200 s), is taken for open after
  100 of them and stopped on its way.
  `PositionTracked` bounds the first by `100 % travelSeconds` percent, and the
  second by what is left of the way (`Drift`);
- the first dispatch of a rate-limited output jumps to its target, although
  `ActuatorController.cpp:77` says it holds;
- a remapped slot keeps its old dispatch state (`ActuatorController.h:151`).

Buffers and radio

- after a broken-off flush the relay still sends the new uplink
  (`LoRaGatewayRelayController.cpp:60` says in chronological order), so
  `RelayLine` is not `Ordered`; its backlog is flushed only when another uplink
  arrives;
- a batch the server rejects for good (any error but 401) stays at the head of
  the queue and blocks it; `ReadingsDrain` assumes that this ends;
- `.tmp` files left by restarts are never removed and count against the cap,
  and after a `format()` the directory is not made again until the next boot;
- a sensor node that deep-sleeps loses the readings of its RAM array;
- a full RTC buffer takes longer on the air than the LoRa watchdog's 30 s
  (about 110 frames at half a second), and the drain feeds it not at all
  (`LoRaPrivateController.cpp:281`);
- the board is deaf while it acknowledges, so of a flush sent back to back it
  misses frames, and a node acts on a missing acknowledgement with a log line
  only: "sent" is all that `LoRaLine` promises.

Configuration

- a rollback writes the backup over config.json "so the rollback sticks"
  (`main.cpp:240`), but the next poll fetches the version it rolled back from;
- only reboots for a configuration are counted: a configuration that crashes
  the device is not rolled back (`main.cpp:225`);
- a poll that only carries a command saves the configuration in use once more,
  which makes the backup equal to it;
- an older command delivered after a newer one is rejected for good;
- while another device is provisioned, its access point is the network on
  record; a crash there, or a trial reverted before any network was copied,
  leaves the device without one. `ConfigConverges` names both.

## 4. What is proved

`Actuator_proofs`, for every value of the constants that satisfies the ASSUMEs
(any slots, functions, configurations, readings, clock corrections):

- `TypeCorrect == Spec => [](TypeOK /\ TickInv)` and `TypeSafe`. `TypeOK` alone
  is not inductive: `RecordFunction` indexes `FunctionOrder` with `fn`, and
  `ApplyWaterPumpSafetyLimits` indexes `slots` with `entry`, so the invariant
  carries `TickInv`, which says that these indices are in range where they are
  used. The arithmetic is in the lemmas `RateLimitPercent`, `FoldPercent` and
  `PairStepType`: a ramp, a fold and a motor step stay within 0..100.
- `StopSafe == Spec => StopNeverEnergises`, from the part of `TickInv` that a
  tick past `InitController` runs under a configuration without a stop. That
  part is inductive because `ApiConfigCommit` waits for the lock.
- `ServerViewCorrect == Spec => []ServerViewConsistent`. The invariant is
  inductive given `TickInv`'s "changes are in flight only while they are
  pushed"; it speaks of every function but those whose last pushed change was
  lost, so a lost push excuses its own functions and no others. `AppendSays` and
  `ApplyHead` say what appending a change and applying the first one do to "what
  the queue says last".

`ActuatorHistory_proofs`, for any clock, history cap and configurations that
satisfy the ASSUMEs (`HistoryAssumption` keeps the cap at or above the times
that are compared with it):

- `OneStaleTick == HSpec => []AtMostOneStaleTick`. `StaleInv` says that after a
  stale tick the relay task is on a way that leads through the test of
  `enabled`.
- `RestsWhenDisabled == HSpec => []DisabledAtRest`. `DisabledInv` adds where the
  relay task is: after its forced-off pass it cannot be inside a tick before the
  next commit, and what either task writes until then is the resting level.
- `PumpCeiling == InstallationSpec => []PumpRunCeiling` and
  `PumpRests == InstallationSpec => PumpCooldown`. The controller limits a pump
  by two stamps it keeps, the property by ticks that pass. `PumpsInv` joins
  them, for each pump: what a tick in progress knows of the time, `StampInv`
  (a relay that is on is stamped, except where the tick may still revoke it),
  `RunInv` (a run began no later than its stamp says, and the ceiling judged
  last leaves room for one more sample) and `RestInv` (a pause is as long as its
  stamp says).
- `MinTimes`: `InstallationSpec => MinTimesHonoured`, and `MotorsRest`:
  `InstallationSpec => DeadTime`. `EntriesInv` says of every entry what its
  stamps say of the samples it was on or off for (`MinInv`), or what a motor's
  direction and dead time say of its windings (`PairInv`).
- `ReportsMatch`: `InstallationSpec => ReportsMatchRelays`. `ReportInv` follows a
  tick: the entries already dispatched follow the decision in hand (`Deciding`),
  functions already decided are on as reported (`Recorded`), and pumps already
  judged are tracked as they are (`Judged`).

- `PositionKept`: `InstallationSpec => []PositionTracked`, for any travel time,
  dividing 100 or not, above 100 or not. `dispatchSlot` books the position before
  the motor has moved. `MotorsInv` says, as long as nothing was forced off, that
  a motor this tick has not come to (`Due`) is where it was booked, and that the
  position of one it has come to is where its windings will take it until the
  next sample (`AtSample`), both up to rounding. What "up to rounding" means is
  `Tracks`, the part that took thought: a bound on the distance would not be
  inductive, because each step adds to it. `Tracks` compares the motor with what
  is booked from BOTH ends instead: in ticks, it has done no more of the way from
  either end than was booked from that end, so a reversal cannot add the errors
  of both directions up, and an end stop makes them 0. `Opened` and `Closed` are
  its steps, `DriftBounds` draws from it what `PositionTracked` says.
  `TargetInv` says the tick asks for one of the `Stops`; `BookedStep` that
  towards a stop `computeRelayPairStep` books a whole step, clamped at the ends.

- `HeatingBounded`: `InstallationSpec => []HeatingHoldBounded`. `HeatInv` compares
  the stamp `heatingSensorStaleSinceEpoch` with the ticks counted: the streak
  began at least as many ticks ago as the heater has been on without a
  temperature (`Streak`, `StreakInv` between ticks). In a tick without one, each
  heater that is on, or told to be, is so because the hold still runs
  (`HeldDecided`, `HeldDispatch`); when it has run out, the tick ends with all
  heaters off and the count starts again. A forced-off in between ends neither the
  streak nor the count.

The hypotheses are about the installation. All but `OneStaleTick` and
`RestsWhenDisabled` are about relays that stay what they are, since a remapped
slot meets the stamps of its earlier life. The last five assume `Separate`
entries: where two share an output, what one is told the other one does.
`ReportsMatch` also assumes one pump: all pumps share one report, and the safety
pass may stop one of two. `PositionKept` also assumes `ListedOnce` and
`WholeSteps`: towards a target less than a step away the code books what is left
while the motor runs a whole tick, and the tracked position drifts from the
motor by more than its rounding, without bound if that is asked of it again and
again. `HeatingBounded` also assumes `HeatsByTemperature` and `ForwardClock`: a
minimum on-time above the ceiling, an override, a PID loop on another metric, or
a clock set back would keep a heater on longer. `MCHistory` asserts all that is
assumed of configurations of those it runs with.

`NetworkTask_proofs`, for any callers, heap cells, queue length and deadline:

- `NetworkOwned == NetworkSpec => []RequestsOwned`. `RequestsOwned` is not
  inductive: if one request were in the queue twice, or both queued and served,
  releasing it once would not end the network task's hold. The invariant
  `NetworkInv` adds `OneHolder` (each party holds a request in one place only)
  and the types. `ReleasedCell` says what a release does to the heap,
  `HoldersKept` that a step which moves no request keeps both parts; then there
  is one lemma per action.

`DeviceCycle_proofs`, for any backlog cap, idle waits, watched tasks, optional
requests and watchdog time-out:

- `DeviceImplements == Spec => NetworkSpec`: the device is one of the clients
  `NetworkTask` allows. No refinement mapping is needed beyond the shared
  variables; what needs an invariant is that every phase of every request is
  a kind the network task knows (`PhaseKindType`, from the types of `site` and
  `phase`).
- `DeviceOwned == Spec => []RequestsOwned` follows from the two theorems.
- `DeviceTypeCorrect == Spec => []TypeOK`. The inductive invariant adds
  `ReplayHasFile`: a replay that has been asked for has a file, or the backlog
  could go below 0.
- `FilesKept == Spec => DataKept`, for any queue length, 1 included. A file is
  deleted on an answer, and the network task answers a request it met without
  WiFi only after its wait for its own event. `EventInv` says that this event
  finds room in the queue and is waited for no less long than the loop task
  still waits for the request: so the loop task has given up by then, and no
  answer without WiFi reaches it. `ReplyInv` says what an answer in hand means.
- `FedWithoutWifi`: from `EnoughTime`, `OutageSpec => []FedInOutage`. In an
  outage every request is in one of few states (`OutageInv`), none is answered
  before its deadline (`Unanswered`), and `InTime` is a potential: at each place
  of the loop task the time left on the watchdog exceeds what the task can
  still spend before it feeds it again (`LoopDebt`, at most four deadlines), and
  likewise for the network task (`NetworkPaid`), whose wait for itself runs in
  step with its caller's (`InStep`).

`StoreAndForward_proofs`: `EveryItemAccounted` and `DeliveredInOrder`, what the
abstract specification gives to everything that implements it, from the
inductive invariant that no held item not yet handed over is older than one
that was.

`UplinkBuffers_proofs`, for any cap, spill size, name bound and number of items
and mishaps:

- `UplinkTypeCorrect == UplinkSpec => []TypeOK`;
- `SensorLineImplemented == UplinkSpec => ImplementsSensorLine` and
  `RelayLineImplemented`. The inductive invariant says where items may be at
  each `site`, that a file is deleted at an "ok" only (the server then has it),
  and that the readings lie in line: those of a file with a lower name are
  older, those in RAM are youngest, and `nextIndex` is above every name. Without
  the last a file written after a reboot could sort before a survivor and its
  replay would be out of order. One lemma per kind of step (`Answered`,
  `Flushed`, `Spilled`, `FileGoes`) says which abstract step it is.
- `NothingForgotten` and `ReadingsInOrder` are what the two lines inherit from
  `StoreAndForward_proofs`, instantiated with the mapping: at any time every
  item is with the device or the server, or lost, and readings arrive in the
  order they were made.

`LoRaLink_proofs`, for any sizes, in the composition with the gateway board:

- `LoRaLineImplemented == LinkSpec => ImplementsLoRaLine`. The invariant
  `NodeInv` has the types, the line (file before file, files before RTC memory,
  RTC memory before the new uplink), what `sent` means at each place of the
  cycle, and that the oldest go first. A step of the board changes nothing the
  line is about (`LinkIsNodeStep`).
- `UplinksAccounted` and `UplinksInOrder` are what the line inherits.
- `NothingSentWaits == LinkSpec => []RtcUnsent`.
- `LinkTypeCorrect == LinkSpec => []LinkTypeOK`. The numbers in the buffers
  are sequences without repetition because each number lies in one place only
  (`NodeTypeInv`).
- `AckedForwarded == LinkSpec => []AckedIsForwarded`. `AckInv` counts the
  acknowledgements on the air too: every uplink acknowledged, or about to be, is
  in the board or behind it, but for one at each restart of the board.
- `DownlinksAreIntact == LinkSpec => []DownlinksIntact`, about a decoder that
  reads bytes and may take any of them for a header. `StreamInv` says that the
  stream consists of whole frames from where the board cut it last; it
  quantifies over the cut points, so that no recursion over bytes is needed.

`ConfigLife_proofs`, for any versions, commands, registrations and faults, each
from types and one invariant of its own:

- `ConfigTypeCorrect`; `DiskFollows == ConfigSpec => []DiskIsLive`: unless
  the last save failed or flash was formatted since, flash is ahead of memory by
  exactly the candidate, from the save to the commit;
- `ExecutedOnce == ConfigSpec => []CommandsOnce`: a command that was carried
  out has a number at most that of the file, unless one was lost;
- `TrialSafe == ConfigSpec => []TrialNotKept`: `keep` is reached verified.

Only model-checked, and why:

- Liveness (`DisabledComesToRest`, `ChangesAreDrained`, `ReadingsDrain`,
  `ConfigConverges`): fairness and ENABLED are beyond the prover.
- The value of a condition tree, whose evaluation is recursive: a statement
  about all trees needs induction over data.

## 5. Not modelled

Components with the reason are listed in `PROJECT.json`. What is left out, and
why:

- `ConfigParser`, `ConfigParseLogic`: JSON to struct, stateless; the models use
  its verdict.
- `SleepScheduleLogic`, `LoRaIntervalLogic`: arithmetic on lengths of waits; the
  models let a wait be any of a set.
- `RelayIO`, `PwmIO`, `AnalogIO`, `ServoIO`, the sensor drivers, display, GPS,
  battery: hardware I/O; an output is its level and a reading a value.
- `LoRaController`: a wrapper around a vendor's LoRaWAN stack.
- TLS, tokens, signatures, encryption and encodings: a message is authentic and
  intact, or does not arrive.
- The clock in `ConfigLife`: a command may be dropped as expired at any time.
- A negative `retryAfterSeconds` or sleep time from the server, which the code
  turns into a very long wait: the models' waits are from given sets.
- The heap: the guards that skip work when memory is low are free choices.

What would come next: an abstract pump guard that `Actuator` implements, and
the I2C expander's shadow byte under failing writes.
