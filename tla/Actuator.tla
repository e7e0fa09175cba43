------------------------------ MODULE Actuator ------------------------------
(***************************************************************************)
(* ActuatorController: the relay task, which decides and drives every      *)
(* output once per tick, and the Arduino loop task, which applies new      *)
(* configurations, publishes sensor snapshots, drains the controller's     *)
(* events and forces the outputs off while the device is disabled or told  *)
(* to wait.  The two share deviceConfig, the snapshot and the controller's *)
(* state under the recursive mutex deviceStateMutex.                       *)
(*                                                                         *)
(* The relay task's tick is split into the steps of initController, one    *)
(* action per decision, dispatched slot and report, all under the lock:    *)
(* what the loop task does WITHOUT the lock interleaves with them.         *)
(*                                                                         *)
(* One unit of time is one RELAY_TASK_TICK_MS period; durations in a       *)
(* configuration are in that unit.                                         *)
(***************************************************************************)
EXTENDS RelayLogic

CONSTANTS
    MAX_RELAY_SLOTS,        \* slot numbers run from 1 to this
    FunctionOrder,          \* relay functions in the order of initController
    Metrics,                \* names of the metrics of a sensor reading
    Readings,               \* SensorData snapshots the drivers may produce
    Configs,                \* configurations the server may send
    Wired,                  \* pins the board really has
    PidOutputs,             \* results pidCompute may round to
    MAX_HEATING_SENSOR_STALE_SECONDS,
    BootEpoch,              \* getEpochSeconds() when the tasks start
    ClockSyncs,             \* epochs the first synchronisation may set
    ClockSteps,             \* corrections a later synchronisation may make
    MaxEpoch                \* bound: the clock stops there

Functions == {FunctionOrder[i] : i \in DOMAIN FunctionOrder}
MAX_REPORTED_FUNCTIONS == Len(FunctionOrder)

SlotNumbers == 1..MAX_RELAY_SLOTS
Tasks == {"relay", "loop"}
Kinds == {"relay", "pair", "pwm", "analog", "servo", "latch"}

\* A pin is <<bank, number>>.  The value of a "latch" pin is the position
\* the valve was last pulsed to: both of its coils are off in between.
Pins == {"relay", "pwm", "analog", "servo", "latch"} \X SlotNumbers

RelaySlot == [slot : SlotNumbers, fn : Functions, kind : Kinds,
              pairSlot : SlotNumbers, travelSeconds : Nat,
              deadTimeSeconds : Nat, safePosition : Percent,
              rateLimit : Nat, minOnSeconds : Nat, minOffSeconds : Nat,
              proportioningPeriod : Nat]

ConditionNode ==
    [type : {"comparison"}, metric : Metrics, value1 : Int, value2 : Int,
     op : {"GT", "LT", "GTE", "LTE", "EQ", "BETWEEN"}, hysteresis : Nat]
    \cup [type : {"interval"}, interval : Nat, intervalLength : Nat]
    \cup [type : {"schedule"}, daysOfWeek : SUBSET (0..6), start : Nat,
          duration : Nat]
    \cup [type : {"group"}, groupOperator : {"AND", "OR"},
          children : SUBSET Nat]

Rule == [fn : Functions, percent : Percent, nodes : Seq(ConditionNode)]

ManualOverride == [fn : Functions, mode : {"duration", "target"},
                   expiresAt : Nat, metric : Metrics, threshold : Int,
                   hysteresis : Nat]

\* pid: the functions in CONTROL_MODE_PID, each with its setpoint metric
DeviceConfig ==
    [enabled : BOOLEAN, emergencyStop : BOOLEAN, relayEnabled : BOOLEAN,
     relays : Seq(RelaySlot), rules : SUBSET Rule,
     overrides : Seq(ManualOverride), pid : SUBSET (Functions \X Metrics),
     waterPumpMaxRunSeconds : Nat, waterPumpCooldownSeconds : Nat,
     waterPumpMinLevel : Nat, waterLevelRawEmpty : Int,
     waterLevelRawFull : Int, skipWaterPumpForRain : BOOLEAN,
     heatingFailSafePolicy : {"hold", "off", "scheduleOnly"},
     utcOffsetSeconds : Int]

SensorData == [Metrics -> Int \cup {NaN}]
NoReading == [m \in Metrics |-> NaN]

ASSUME SizeAssumption ==
    /\ MAX_RELAY_SLOTS \in Nat \ {0}
    /\ FunctionOrder \in Seq(Functions)
    /\ Wired \subseteq Pins
    /\ PidOutputs \subseteq Percent
ASSUME ConfigAssumption == \A c \in Configs : c \in DeviceConfig
ASSUME ReadingAssumption ==
    /\ {"temperature", "waterLevel"} \subseteq Metrics
    /\ \A r \in Readings : r \in SensorData
ASSUME EpochAssumption ==
    /\ BootEpoch \in Nat \ {0}
    /\ MaxEpoch \in Nat
    /\ BootEpoch <= MaxEpoch
    /\ MAX_HEATING_SENSOR_STALE_SECONDS \in Nat \ {0}
    /\ \A e \in ClockSyncs : e \in MIN_PLAUSIBLE_EPOCH..MaxEpoch
    /\ ClockSteps \subseteq Int

VARIABLES
    deviceConfig,   \* the live configuration
    epoch,          \* getEpochSeconds()
    snapshot,       \* relaySensorDataSnapshot
    pin,            \* level of every output, 0..100
    slots,          \* per slot number: the controller's per-slot arrays
    reported,       \* lastReportedOn and lastReportedPercent
    pending,        \* pendingControllerDataChanges
    heatingSensorStaleSinceEpoch,
    safetyEvent,    \* pendingSafetyEventMessage, "none" when empty
    staleEvent,     \* pendingSensorStaleMessage is not empty
    pc,             \* where each task is
    fn,             \* each task's index into FunctionOrder
    entry,          \* the relay task's index into relays or slot numbers
    view,           \* the relay task's copy of the snapshot
    now,            \* ... and of the epoch, both read before the tick
    shouldBeOn,     \* the tick's decision for the current function
    targetPercent,
    pumpTarget,     \* waterPumpTargetPercentThisTick
    waiting,        \* service.waitSeconds > 0: the server answered 429
    reading,        \* the loop task's SensorData, not published yet
    inFlight,       \* changes consumed and being pushed
    server,         \* what the server knows of every function
    lost            \* functions whose last change to be pushed never arrived

controllerVars == <<slots, reported, pending, heatingSensorStaleSinceEpoch,
                    safetyEvent, staleEvent>>
tickVars == <<view, now, shouldBeOn, targetPercent, pumpTarget, entry>>
loopVars == <<waiting, reading, inFlight, server, lost>>
vars == <<deviceConfig, epoch, snapshot, pin, controllerVars, pc, fn,
          tickVars, loopVars>>

-----------------------------------------------------------------------------
(* ActuatorStateLock *)

Critical == {"decide", "dispatch", "pumpWrite", "pumpLimits", "recordOff"}

\* (mutant) nobody takes the lock
MutNoLock == TRUE

LockFree == \A t \in Tasks : pc[t] \notin Critical

Goto(task, label) == pc' = [pc EXCEPT ![task] = label]

\* The tick's local variables go out of scope.
EndOfTick == /\ view' = NoReading /\ now' = BootEpoch /\ entry' = 1
             /\ shouldBeOn' = FALSE /\ targetPercent' = 0 /\ pumpTarget' = 0

-----------------------------------------------------------------------------
(* The configuration's slots *)

Entries(c) == {c.relays[i] : i \in DOMAIN c.relays}

\* The pins an entry drives.  A pair's second relay is named by pairSlot.
OutputPins(e) ==
    CASE e.kind = "relay" -> {<<"relay", e.slot>>}
      [] e.kind = "pair"  -> {<<"relay", e.slot>>, <<"relay", e.pairSlot>>}
      [] OTHER            -> {<<e.kind, e.slot>>}

\* A latching valve needs both of its coils' relays.
Needed(e) ==
    IF e.kind = "latch" THEN {<<"relay", e.slot>>, <<"relay", e.pairSlot>>}
    ELSE OutputPins(e)

\* configuredType and configuredOutputKind: for a slot number two entries
\* share, the later entry's
IsConfigured(c, i, s) ==
    /\ c.relays[i].slot = s
    /\ \A j \in DOMAIN c.relays : c.relays[j].slot = s => j <= i

configuredType(c, s) ==
    IF \E i \in DOMAIN c.relays : IsConfigured(c, i, s)
    THEN c.relays[CHOOSE i \in DOMAIN c.relays : IsConfigured(c, i, s)].fn
    ELSE "None"

configuredOutputKind(c, s) ==
    IF \E i \in DOMAIN c.relays : IsConfigured(c, i, s)
    THEN c.relays[CHOOSE i \in DOMAIN c.relays : IsConfigured(c, i, s)].kind
    ELSE "None"

\* isRelayOn: the first slot of the function answers for it
isRelayOn(f) ==
    \E i \in DOMAIN deviceConfig.relays :
        /\ deviceConfig.relays[i].fn = f
        /\ \A j \in DOMAIN deviceConfig.relays :
               deviceConfig.relays[j].fn = f => i <= j
        /\ slots[deviceConfig.relays[i].slot].applied > 0

-----------------------------------------------------------------------------
(* recordControllerState, and what the server makes of the changes *)

State(on, percent) == [on |-> on, percent |-> percent]
States == [on : BOOLEAN, percent : Percent]
Changes == [fn : Functions, state : States]

\* (mutant) the state is remembered although the full buffer refuses it
MutRecordFirst(f, on, percent) ==
    /\ reported' = [reported EXCEPT ![f] = State(on, percent)]
    /\ pending' = IF Len(pending) >= MAX_REPORTED_FUNCTIONS
                     \/ reported[f] = State(on, percent)
                  THEN pending
                  ELSE Append(pending, [fn |-> f, state |-> State(on, percent)])

recordControllerState(f, on, percent) ==
    IF Len(pending) >= MAX_REPORTED_FUNCTIONS \/ reported[f] = State(on, percent)
    THEN UNCHANGED <<reported, pending>>
    ELSE /\ reported' = [reported EXCEPT ![f] = State(on, percent)]
         /\ pending' = Append(pending,
                              [fn |-> f, state |-> State(on, percent)])

-----------------------------------------------------------------------------
(* driveEveryAssignedRelayOff, up to its reports *)

\* (mutant) a forced-off waits for the minimum on-time
MutRestLevel(e) ==
    IF e.kind = "servo" THEN e.safePosition
    ELSE IF minOnTimeBlocksOff(epoch, slots[e.slot].onSince, e.minOnSeconds)
    THEN 100 ELSE 0

RestLevel(e) == IF e.kind = "servo" THEN e.safePosition ELSE 0

\* (mutant) the shadow of the relay's level is not reset
MutForcedOff(st) == [st EXCEPT !.position = 0, !.onSince = 0, !.offSince = 0]

ForcedOff(st) == [st EXCEPT !.applied = 0, !.position = 0, !.onSince = 0,
                            !.offSince = 0, !.dispatched = 0]

\* The close coil alone is enough to shut a latching valve.
RestPins(e) ==
    IF e.kind = "latch"
    THEN IF <<"relay", e.pairSlot>> \in Wired THEN OutputPins(e) ELSE {}
    ELSE OutputPins(e) \cap Wired

\* The entry that writes the pin last
RestsLast(i, p) ==
    /\ p \in RestPins(deviceConfig.relays[i])
    /\ \A j \in DOMAIN deviceConfig.relays :
           p \in RestPins(deviceConfig.relays[j]) => j <= i

DriveEveryAssignedRelayOff(slotsBefore) ==
    /\ pin' = [p \in Pins |->
                 IF \E i \in DOMAIN deviceConfig.relays : RestsLast(i, p)
                 THEN RestLevel(deviceConfig.relays[
                          CHOOSE i \in DOMAIN deviceConfig.relays :
                              RestsLast(i, p)])
                 ELSE pin[p]]
    /\ slots' = [s \in SlotNumbers |->
                   IF \E e \in Entries(deviceConfig) : e.slot = s
                   THEN ForcedOff(slotsBefore[s]) ELSE slotsBefore[s]]

-----------------------------------------------------------------------------
(* dispatchSlot: the outcome of one entry's dispatch, as the new slot state *)
(* (before the on/off timestamps) and the new levels of its pins            *)

Outcome(st, applied, levels) == [st |-> [st EXCEPT !.applied = applied],
                                 levels |-> levels]

DispatchRelay(e, st, raw, first) ==
    LET previousOn == st.applied > 0
        wantsOn == IF e.proportioningPeriod > 0
                   THEN computeTimeProportioningState(raw,
                            e.proportioningPeriod, now)
                   ELSE raw > 0
        blockedOn  == /\ wantsOn /\ ~previousOn
                      /\ cooldownActive(now, st.offSince, e.minOffSeconds)
        blockedOff == /\ ~wantsOn /\ previousOn
                      /\ minOnTimeBlocksOff(now, st.onSince, e.minOnSeconds)
        finalOn == (wantsOn /\ ~blockedOn) \/ blockedOff
        level == IF finalOn THEN 100 ELSE 0
    IN  Outcome(st, level,
                IF first \/ finalOn # previousOn
                THEN [p \in OutputPins(e) |-> level]
                ELSE [p \in OutputPins(e) |-> pin[p]])

\* (mutant) the remaining dead time is not kept from tick to tick
MutDispatchPair(e, st, raw, elapsed) ==
    LET d == computeRelayPairStep([direction |-> st.direction,
                                   dead |-> st.dead],
                 st.position, raw, e.travelSeconds, e.deadTimeSeconds, elapsed)
    IN  Outcome([st EXCEPT !.direction = d.direction, !.position = d.position],
                d.position,
                [p \in OutputPins(e) |->
                   IF \/ d.open /\ p = <<"relay", e.slot>>
                      \/ d.close /\ p = <<"relay", e.pairSlot>>
                   THEN 100 ELSE 0])

DispatchPair(e, st, raw, elapsed) ==
    LET d == computeRelayPairStep([direction |-> st.direction,
                                   dead |-> st.dead],
                 st.position, raw, e.travelSeconds, e.deadTimeSeconds, elapsed)
    IN  Outcome([st EXCEPT !.direction = d.direction, !.dead = d.dead,
                           !.position = d.position],
                d.position,
                [p \in OutputPins(e) |->
                   IF \/ d.open /\ p = <<"relay", e.slot>>
                      \/ d.close /\ p = <<"relay", e.pairSlot>>
                   THEN 100 ELSE 0])

DispatchProportional(e, st, raw, elapsed) ==
    LET level == applyRateLimit(st.applied, raw, e.rateLimit, elapsed)
    IN  Outcome(st, level, [p \in OutputPins(e) |-> level])

DispatchLatch(e, st, raw) ==
    LET action == computeLatchingPulseAction(st.applied, raw)
    IN  Outcome(st, raw,
                [p \in OutputPins(e) |->
                   CASE action = "open"  -> 100
                     [] action = "close" -> 0
                     [] OTHER            -> pin[p]])

Dispatched(e, st, raw, first, elapsed) ==
    CASE e.kind = "relay" -> DispatchRelay(e, st, raw, first)
      [] e.kind = "pair"  -> DispatchPair(e, st, raw, elapsed)
      [] e.kind = "latch" -> DispatchLatch(e, st, raw)
      [] OTHER            -> DispatchProportional(e, st, raw, elapsed)

\* (mutant) a relay switched on is not stamped
MutStamped(before, after) ==
    IF after.applied = 0 /\ before.applied > 0
    THEN [after EXCEPT !.offSince = now, !.onSince = 0] ELSE after

\* slotOnSinceEpoch and slotOffSinceEpoch
Stamped(before, after) ==
    CASE after.applied > 0 /\ before.applied = 0 ->
           [after EXCEPT !.onSince = now, !.offSince = 0]
      [] after.applied = 0 /\ before.applied > 0 ->
           [after EXCEPT !.offSince = now, !.onSince = 0]
      [] OTHER -> after

-----------------------------------------------------------------------------
(* evaluateRule and the decision for one function *)

HeatingStale(f) ==
    /\ f = "Heating"
    /\ view["temperature"] = NaN
    /\ deviceConfig.heatingFailSafePolicy # "scheduleOnly"

RulesFor(f) == {r \in deviceConfig.rules : r.fn = f}

\* (mutant) the stale streak starts again with every tick
MutStaleSince == now

staleSince == IF heatingSensorStaleSinceEpoch = 0 THEN now
              ELSE heatingSensorStaleSinceEpoch

evaluateRule(r, isCurrentlyOn) ==
    IF HeatingStale(r.fn)
    THEN /\ deviceConfig.heatingFailSafePolicy = "hold"
         /\ ~runTimeCeilingHit(now, staleSince,
                               MAX_HEATING_SENSOR_STALE_SECONDS)
         /\ isCurrentlyOn
    ELSE /\ r.nodes # <<>>
         /\ evaluateNode(r.nodes, 1, isCurrentlyOn, view, now,
                         now + deviceConfig.utcOffsetSeconds)

\* what evaluating the function's rules leaves behind, if it has any
RuleSideEffects(f, evaluated) ==
    IF ~evaluated \/ f # "Heating" \/ RulesFor(f) = {}
    THEN UNCHANGED <<heatingSensorStaleSinceEpoch, staleEvent>>
    ELSE IF HeatingStale(f)
    THEN /\ staleEvent' = TRUE
         /\ heatingSensorStaleSinceEpoch' =
              IF deviceConfig.heatingFailSafePolicy = "hold" THEN staleSince
              ELSE heatingSensorStaleSinceEpoch
    ELSE heatingSensorStaleSinceEpoch' = 0 /\ UNCHANGED staleEvent

TargetMetrics == {"temperature", "humidity", "moisture"}

\* readingForTargetMetric: no reading for any other metric
readingForTargetMetric(m) == IF m \in TargetMetrics THEN view[m] ELSE NaN

PidMetrics(f) == {m \in Metrics : <<f, m>> \in deviceConfig.pid}

\* pidCompute's arithmetic is abstracted to a choice of its rounded result
PidDemands(f) ==
    IF \E m \in PidMetrics(f) : readingForTargetMetric(m) = NaN THEN {0}
    ELSE PidOutputs

RuleDemand(f) ==
    foldTargetPercent({r.percent : r \in
        {q \in RulesFor(f) : evaluateRule(q, reported[f].on)}})

\* findManualOverride: the first one of the function; in target mode it
\* does not count in a tick without a reading
Overriding(f) ==
    LET os == deviceConfig.overrides
        isFirst(i) == os[i].fn = f /\ \A j \in 1..(i - 1) : os[j].fn # f
    IN  {os[i] : i \in {j \in DOMAIN os :
            /\ isFirst(j)
            /\ os[j].mode = "target" =>
                   readingForTargetMetric(os[j].metric) # NaN}}

Overridden(o, f) ==
    evaluateManualOverride(o.mode, now, o.expiresAt, reported[f].on,
        readingForTargetMetric(o.metric), o.threshold, o.hysteresis,
        f = "Ventilation")

\* the fold, then the rain veto, then a manual override, which wins
Decision(f, demand) ==
    IF Overriding(f) # {}
    THEN \E o \in Overriding(f) : Overridden(o, f)
    ELSE /\ demand > 0
         /\ ~(f = "WaterPump" /\ deviceConfig.skipWaterPumpForRain)

Reconciled(on, demand) ==
    IF ~on THEN 0 ELSE IF demand = 0 THEN 100 ELSE demand

-----------------------------------------------------------------------------
Init ==
    /\ deviceConfig \in Configs
    /\ epoch = BootEpoch
    /\ snapshot = NoReading
    /\ pin = [p \in Pins |-> 0]
    /\ slots = [s \in SlotNumbers |->
                  [type |-> "None", pumpOnSince |-> 0, pumpOffSince |-> 0,
                   applied |-> 0, onSince |-> 0, offSince |-> 0,
                   dispatched |-> 0, position |-> 0,
                   direction |-> "none", dead |-> 0]]
    /\ reported = [f \in Functions |-> State(FALSE, 0)]
    /\ pending = <<>>
    /\ heatingSensorStaleSinceEpoch = 0
    /\ safetyEvent = "none"
    /\ staleEvent = FALSE
    /\ pc = [t \in Tasks |-> IF t = "relay" THEN "check" ELSE "config"]
    /\ fn = [t \in Tasks |-> 1]
    /\ entry = 1
    /\ view = NoReading
    /\ now = BootEpoch
    /\ shouldBeOn = FALSE
    /\ targetPercent = 0
    /\ pumpTarget = 0
    /\ waiting = FALSE
    /\ reading = NoReading
    /\ inFlight = <<>>
    /\ server = [f \in Functions |-> State(FALSE, 0)]
    /\ lost = {}

-----------------------------------------------------------------------------
(* The relay task *)

\* (mutant) a disabled device goes on deciding
MutRelayCheckEnabled ==
    /\ pc["relay"] = "check"
    /\ Goto("relay", "snapshot")
    /\ UNCHANGED <<deviceConfig, epoch, snapshot, pin, controllerVars, fn,
                   tickVars, loopVars>>

\* relayTaskLoop tests deviceConfig.enabled WITHOUT the lock.
RelayCheckEnabled ==
    /\ pc["relay"] = "check"
    /\ Goto("relay", IF deviceConfig.enabled THEN "snapshot" ELSE "forceOff")
    /\ UNCHANGED <<deviceConfig, epoch, snapshot, pin, controllerVars, fn,
                   tickVars, loopVars>>

\* relaySnapshotGet and getEpochSeconds, the arguments of initController
RelaySnapshotGet ==
    /\ pc["relay"] = "snapshot" /\ LockFree
    /\ view' = snapshot
    /\ now' = epoch
    /\ Goto("relay", "begin")
    /\ UNCHANGED <<deviceConfig, epoch, snapshot, pin, controllerVars, fn,
                   shouldBeOn, targetPercent, pumpTarget, entry, loopVars>>

\* A slot whose function changed forgets its pump history.
Remapped ==
    [s \in SlotNumbers |->
       IF configuredType(deviceConfig, s) = slots[s].type THEN slots[s]
       ELSE [slots[s] EXCEPT !.type = configuredType(deviceConfig, s),
                             !.pumpOnSince = 0, !.pumpOffSince = 0]]

\* initController takes the lock, which it keeps until FinishTick or, on
\* an emergency stop, until the last report of the forced-off outputs.
InitController ==
    /\ pc["relay"] = "begin" /\ LockFree
    /\ IF deviceConfig.emergencyStop \/ ~deviceConfig.relayEnabled
       THEN /\ DriveEveryAssignedRelayOff(Remapped)
            /\ Goto("relay", "recordOff")
            /\ EndOfTick
       ELSE /\ slots' = Remapped
            /\ Goto("relay", "decide")
            /\ UNCHANGED <<pin, tickVars>>
    /\ UNCHANGED <<deviceConfig, epoch, snapshot, reported, pending,
                   heatingSensorStaleSinceEpoch, safetyEvent, staleEvent, fn,
                   loopVars>>

\* One pass of the loop over functions: what the function should do now.
DecideFunction ==
    /\ pc["relay"] = "decide"
    /\ fn["relay"] <= Len(FunctionOrder)
    /\ LET f == FunctionOrder[fn["relay"]]
           isPid == PidMetrics(f) # {}
           assigned == \E e \in Entries(deviceConfig) : e.fn = f
       IN IF assigned
          THEN /\ \E demand \in IF isPid THEN PidDemands(f)
                                          ELSE {RuleDemand(f)} :
                    /\ shouldBeOn' = Decision(f, demand)
                    /\ targetPercent' = Reconciled(Decision(f, demand), demand)
               /\ RuleSideEffects(f, ~isPid)
               /\ Goto("relay", "dispatch")
               /\ UNCHANGED fn
          ELSE /\ fn' = [fn EXCEPT !["relay"] = @ + 1]
               /\ UNCHANGED <<shouldBeOn, targetPercent, pc,
                              heatingSensorStaleSinceEpoch, staleEvent>>
    /\ UNCHANGED <<deviceConfig, epoch, snapshot, pin, slots, reported,
                   pending, safetyEvent, view, now, pumpTarget, entry,
                   loopVars>>

\* (mutant) a slot's first dispatch counts from the epoch's zero
MutElapsed(st) == now - st.dispatched

\* seconds since the slot's own last dispatch, 0 in its first one
Elapsed(st) == IF st.dispatched = 0 THEN 0 ELSE now - st.dispatched

\* dispatchSlot for the next entry of relays[], if it is the function's.
\* A pump on a plain relay is left to the safety pass.
DispatchSlot ==
    /\ pc["relay"] = "dispatch"
    /\ entry <= Len(deviceConfig.relays)
    /\ LET f == FunctionOrder[fn["relay"]]
           e == deviceConfig.relays[entry]
           st == slots[e.slot]
           d == Dispatched(e, st, targetPercent, st.dispatched = 0,
                           Elapsed(st))
       IN IF e.fn # f \/ (f = "WaterPump" /\ e.kind = "relay")
          THEN UNCHANGED <<slots, pin>>
          ELSE IF ~(Needed(e) \subseteq Wired)
          THEN /\ slots' = [slots EXCEPT ![e.slot].dispatched = now]
               /\ UNCHANGED pin
          ELSE /\ slots' = [slots EXCEPT ![e.slot] =
                              [Stamped(st, d.st) EXCEPT !.dispatched = now]]
               /\ pin' = [p \in Pins |->
                            IF p \in OutputPins(e) THEN d.levels[p] ELSE pin[p]]
    /\ entry' = entry + 1
    /\ UNCHANGED <<deviceConfig, epoch, snapshot, reported, pending,
                   heatingSensorStaleSinceEpoch, safetyEvent, staleEvent, pc,
                   fn, view, now, shouldBeOn, targetPercent, pumpTarget,
                   loopVars>>

\* The function is reported as decided; the pump only after its safety pass.
RecordFunction ==
    /\ pc["relay"] = "dispatch"
    /\ entry > Len(deviceConfig.relays)
    /\ LET f == FunctionOrder[fn["relay"]]
       IN IF f = "WaterPump"
          THEN pumpTarget' = targetPercent /\ UNCHANGED <<reported, pending>>
          ELSE /\ recordControllerState(f, shouldBeOn, targetPercent)
               /\ UNCHANGED pumpTarget
    /\ fn' = [fn EXCEPT !["relay"] = @ + 1]
    /\ entry' = 1
    /\ shouldBeOn' = FALSE /\ targetPercent' = 0
    /\ Goto("relay", "decide")
    /\ UNCHANGED <<deviceConfig, epoch, snapshot, pin, slots,
                   heatingSensorStaleSinceEpoch, safetyEvent, staleEvent,
                   view, now, loopVars>>

BeginSafetyPass ==
    /\ pc["relay"] = "decide"
    /\ fn["relay"] > Len(FunctionOrder)
    /\ fn' = [fn EXCEPT !["relay"] = 1]
    /\ Goto("relay", "pumpWrite")
    /\ UNCHANGED <<deviceConfig, epoch, snapshot, pin, controllerVars,
                   tickVars, loopVars>>

PumpSlot(s) == /\ configuredType(deviceConfig, s) = "WaterPump"
               /\ configuredOutputKind(deviceConfig, s) = "relay"
               /\ <<"relay", s>> \in Wired

\* The safety pass first writes the demand to the pump's relay ...
PumpWrite ==
    /\ pc["relay"] = "pumpWrite"
    /\ entry <= MAX_RELAY_SLOTS
    /\ IF PumpSlot(entry)
       THEN /\ pin' = [pin EXCEPT ![<<"relay", entry>>] =
                        IF pumpTarget > 0 THEN 100 ELSE 0]
            /\ Goto("relay", "pumpLimits")
            /\ UNCHANGED entry
       ELSE entry' = entry + 1 /\ UNCHANGED <<pin, pc>>
    /\ UNCHANGED <<deviceConfig, epoch, snapshot, controllerVars, fn,
                   view, now, shouldBeOn, targetPercent, pumpTarget, loopVars>>

\* (mutant) every tick the pump is allowed to run starts its run again
MutPumpVerdict(st, desired) ==
    LET cooldown == /\ desired
                    /\ cooldownActive(now, st.pumpOffSince,
                                      deviceConfig.waterPumpCooldownSeconds)
        lowTank == /\ desired /\ ~cooldown
                   /\ waterPumpBlockedByLowTank(view["waterLevel"],
                          deviceConfig.waterLevelRawEmpty,
                          deviceConfig.waterLevelRawFull,
                          deviceConfig.waterPumpMinLevel)
        allowed == desired /\ ~cooldown /\ ~lowTank
        onSince == IF allowed THEN now ELSE st.pumpOnSince
    IN  [on |-> allowed, onSince |-> onSince,
         reason |-> IF cooldown THEN "cooldown"
                    ELSE IF lowTank THEN "lowTank" ELSE "none"]

\* ... and applyWaterPumpSafetyLimits reads it back and may revoke it.
\* The cooldown is judged before anything touches the pump's timestamps.
PumpVerdict(st, desired) ==
    LET c == deviceConfig
        cooldown == /\ desired
                    /\ cooldownActive(now, st.pumpOffSince,
                                      c.waterPumpCooldownSeconds)
        lowTank == /\ desired /\ ~cooldown
                   /\ waterPumpBlockedByLowTank(view["waterLevel"],
                          c.waterLevelRawEmpty, c.waterLevelRawFull,
                          c.waterPumpMinLevel)
        allowed == desired /\ ~cooldown /\ ~lowTank
        onSince == IF allowed /\ st.pumpOnSince = 0 THEN now
                   ELSE st.pumpOnSince
        ceiling == /\ allowed
                   /\ runTimeCeilingHit(now, onSince, c.waterPumpMaxRunSeconds)
    IN  [on |-> allowed /\ ~ceiling, onSince |-> onSince,
         reason |-> IF ceiling THEN "ceiling"
                    ELSE IF cooldown THEN "cooldown"
                    ELSE IF lowTank THEN "lowTank" ELSE "none"]

ApplyWaterPumpSafetyLimits ==
    /\ pc["relay"] = "pumpLimits"
    /\ LET st == slots[entry]
           v == PumpVerdict(st, pin[<<"relay", entry>>] > 0)
           stopping == ~v.on /\ v.onSince # 0
       IN /\ slots' = [slots EXCEPT ![entry] =
                 [st EXCEPT !.pumpOnSince = IF stopping THEN 0 ELSE v.onSince,
                            !.pumpOffSince = IF stopping THEN now ELSE @,
                            !.applied = IF v.on THEN 100 ELSE 0]]
          /\ pin' = [pin EXCEPT ![<<"relay", entry>>] =
                        IF v.on THEN 100 ELSE 0]
          /\ safetyEvent' = IF v.reason = "none" THEN safetyEvent ELSE v.reason
    /\ entry' = entry + 1
    /\ Goto("relay", "pumpWrite")
    /\ UNCHANGED <<deviceConfig, epoch, snapshot, reported, pending,
                   heatingSensorStaleSinceEpoch, staleEvent, fn, view, now,
                   shouldBeOn, targetPercent, pumpTarget, loopVars>>

\* The pump is reported as it now really is, and the lock is released.
FinishTick ==
    /\ pc["relay"] = "pumpWrite"
    /\ entry > MAX_RELAY_SLOTS
    /\ IF "WaterPump" \in Functions
       THEN recordControllerState("WaterPump", isRelayOn("WaterPump"), 0)
       ELSE UNCHANGED <<reported, pending>>
    /\ Goto("relay", "sleep")
    /\ EndOfTick
    /\ UNCHANGED <<deviceConfig, epoch, snapshot, pin, slots,
                   heatingSensorStaleSinceEpoch, safetyEvent, staleEvent, fn,
                   loopVars>>

\* vTaskDelay(RELAY_TASK_TICK_MS): one unit of time passes.
RelayDelay ==
    /\ pc["relay"] = "sleep"
    /\ epoch' = IF epoch < MaxEpoch THEN epoch + 1 ELSE epoch
    /\ Goto("relay", "check")
    /\ UNCHANGED <<deviceConfig, snapshot, pin, controllerVars, fn, tickVars,
                   loopVars>>

-----------------------------------------------------------------------------
(* forceAllRelaysOff, called by either task *)

ForceAllRelaysOff(t) ==
    /\ pc[t] = "forceOff" /\ LockFree
    /\ DriveEveryAssignedRelayOff(slots)
    /\ Goto(t, "recordOff")
    /\ UNCHANGED <<deviceConfig, epoch, snapshot, reported, pending,
                   heatingSensorStaleSinceEpoch, safetyEvent, staleEvent, fn,
                   tickVars, loopVars>>

RecordOff(t) ==
    /\ pc[t] = "recordOff"
    /\ fn[t] <= Len(FunctionOrder)
    /\ recordControllerState(FunctionOrder[fn[t]], FALSE, 0)
    /\ fn' = [fn EXCEPT ![t] = @ + 1]
    /\ UNCHANGED <<deviceConfig, epoch, snapshot, pin, slots,
                   heatingSensorStaleSinceEpoch, safetyEvent, staleEvent, pc,
                   tickVars, loopVars>>

FinishForcedOff(t) ==
    /\ pc[t] = "recordOff"
    /\ fn[t] > Len(FunctionOrder)
    /\ fn' = [fn EXCEPT ![t] = 1]
    /\ Goto(t, IF t = "relay" THEN "sleep" ELSE "idle")
    /\ UNCHANGED <<deviceConfig, epoch, snapshot, pin, controllerVars,
                   tickVars, loopVars>>

-----------------------------------------------------------------------------
(* The loop task.  Its network calls block it, never the relay task. *)

\* apiConfig commits a new configuration, under the lock.
ApiConfigCommit ==
    /\ pc["loop"] = "config" /\ LockFree
    /\ \E c \in Configs : deviceConfig' = c
    /\ waiting' = FALSE
    /\ Goto("loop", "body")
    /\ UNCHANGED <<epoch, snapshot, pin, controllerVars, fn, tickVars,
                   reading, inFlight, server, lost>>

\* apiConfig finds nothing new, or fails, or is told to wait (429).
ApiConfigUnchanged(wait) ==
    /\ pc["loop"] = "config"
    /\ waiting' = wait
    /\ Goto("loop", "body")
    /\ UNCHANGED <<deviceConfig, epoch, snapshot, pin, controllerVars, fn,
                   tickVars, reading, inFlight, server, lost>>

\* loop() reads the sensors, or forces the outputs off when it does not.
LoopBody ==
    /\ pc["loop"] = "body"
    /\ IF deviceConfig.enabled /\ ~waiting
       THEN /\ reading' \in Readings
            /\ Goto("loop", "safety")
       ELSE Goto("loop", "forceOff") /\ UNCHANGED reading
    /\ UNCHANGED <<deviceConfig, epoch, snapshot, pin, controllerVars, fn,
                   tickVars, waiting, inFlight, server, lost>>

\* pushSensorData: each event is consumed under the lock and then pushed.
ConsumeSafetyLimitEvent ==
    /\ pc["loop"] = "safety" /\ LockFree
    /\ safetyEvent' = "none"
    /\ Goto("loop", "stale")
    /\ UNCHANGED <<deviceConfig, epoch, snapshot, pin, slots, reported,
                   pending, heatingSensorStaleSinceEpoch, staleEvent, fn,
                   tickVars, loopVars>>

ConsumeSensorStaleEvent ==
    /\ pc["loop"] = "stale" /\ LockFree
    /\ staleEvent' = FALSE
    /\ Goto("loop", "changes")
    /\ UNCHANGED <<deviceConfig, epoch, snapshot, pin, slots, reported,
                   pending, heatingSensorStaleSinceEpoch, safetyEvent, fn,
                   tickVars, loopVars>>

\* (mutant) the buffer is copied but its count is not reset
MutConsumeControllerDataChanges ==
    /\ pc["loop"] = "changes" /\ LockFree
    /\ inFlight' = pending
    /\ Goto("loop", "push")
    /\ UNCHANGED <<deviceConfig, epoch, snapshot, pin, slots, reported, pending,
                   heatingSensorStaleSinceEpoch, safetyEvent, staleEvent, fn,
                   tickVars, waiting, reading, server, lost>>

ConsumeControllerDataChanges ==
    /\ pc["loop"] = "changes" /\ LockFree
    /\ inFlight' = pending
    /\ pending' = <<>>
    /\ Goto("loop", "push")
    /\ UNCHANGED <<deviceConfig, epoch, snapshot, pin, slots, reported,
                   heatingSensorStaleSinceEpoch, safetyEvent, staleEvent, fn,
                   tickVars, waiting, reading, server, lost>>

\* pushControllerData is sent once and never kept: it reaches the server,
\* which applies the changes in order, or it is gone.
PushControllerData ==
    /\ pc["loop"] = "push"
    /\ \/ Goto("loop", "deliver") /\ UNCHANGED <<inFlight, lost>>
       \/ /\ inFlight # <<>>
          /\ inFlight' = <<>>
          /\ lost' = lost \cup {inFlight[i].fn : i \in DOMAIN inFlight}
          /\ Goto("loop", "publish")
    /\ UNCHANGED <<deviceConfig, epoch, snapshot, pin, controllerVars, fn,
                   tickVars, waiting, reading, server>>

ServerAppliesChange ==
    /\ pc["loop"] = "deliver"
    /\ IF inFlight = <<>>
       THEN Goto("loop", "publish") /\ UNCHANGED <<inFlight, server, lost>>
       ELSE /\ server' = [server EXCEPT ![Head(inFlight).fn] =
                                           Head(inFlight).state]
            /\ inFlight' = Tail(inFlight)
            /\ lost' = lost \ {Head(inFlight).fn}
            /\ UNCHANGED pc
    /\ UNCHANGED <<deviceConfig, epoch, snapshot, pin, controllerVars, fn,
                   tickVars, waiting, reading>>

\* buildSensorData hands the relay task its snapshot last, after the pushes.
PublishSnapshot ==
    /\ pc["loop"] = "publish" /\ LockFree
    /\ snapshot' = reading
    /\ reading' = NoReading
    /\ Goto("loop", "idle")
    /\ UNCHANGED <<deviceConfig, epoch, pin, controllerVars, fn, tickVars,
                   waiting, inFlight, server, lost>>

LoopDelay ==
    /\ pc["loop"] = "idle"
    /\ Goto("loop", "config")
    /\ UNCHANGED <<deviceConfig, epoch, snapshot, pin, controllerVars, fn,
                   tickVars, loopVars>>

\* The first synchronisation (NTP, or the server's clock before it) moves
\* an uptime-based clock to the real epoch; a later one corrects it.
SetClock ==
    /\ \/ epoch < MIN_PLAUSIBLE_EPOCH /\ \E e \in ClockSyncs : epoch' = e
       \/ /\ epoch >= MIN_PLAUSIBLE_EPOCH
          /\ \E d \in ClockSteps :
                /\ epoch + d \in MIN_PLAUSIBLE_EPOCH..MaxEpoch
                /\ epoch + d > 0
                /\ epoch' = epoch + d
    /\ UNCHANGED <<deviceConfig, snapshot, pin, controllerVars, pc, fn,
                   tickVars, loopVars>>

-----------------------------------------------------------------------------
RelayTask == \/ RelayCheckEnabled \/ RelaySnapshotGet \/ InitController
             \/ DecideFunction \/ DispatchSlot \/ RecordFunction
             \/ BeginSafetyPass \/ PumpWrite \/ ApplyWaterPumpSafetyLimits
             \/ FinishTick \/ RelayDelay
             \/ ForceAllRelaysOff("relay") \/ RecordOff("relay")
             \/ FinishForcedOff("relay")

LoopTask == \/ ApiConfigCommit
            \/ \E wait \in BOOLEAN : ApiConfigUnchanged(wait)
            \/ LoopBody
            \/ ConsumeSafetyLimitEvent \/ ConsumeSensorStaleEvent
            \/ ConsumeControllerDataChanges \/ PushControllerData
            \/ ServerAppliesChange \/ PublishSnapshot \/ LoopDelay
            \/ ForceAllRelaysOff("loop") \/ RecordOff("loop")
            \/ FinishForcedOff("loop")

Next == RelayTask \/ LoopTask \/ SetClock

Spec == Init /\ [][Next]_vars

\* Both FreeRTOS tasks keep running, or the task watchdog reboots the
\* device; and neither is kept off the lock for ever, for each one sleeps
\* without it, the loop task at least 10 s and the relay task 2 s.
FairSpec == Spec /\ SF_vars(RelayTask) /\ SF_vars(LoopTask)

-----------------------------------------------------------------------------
(* Properties *)

SlotState ==
    [type : Functions \cup {"None"}, pumpOnSince : Nat, pumpOffSince : Nat,
     applied : Percent, onSince : Nat, offSince : Nat, dispatched : Nat,
     position : Percent, direction : Directions, dead : Nat]

Labels == Critical \cup {"check", "snapshot", "begin", "forceOff", "sleep",
                         "config", "body", "safety", "stale", "changes",
                         "push", "deliver", "publish", "idle"}

\* Every variable keeps the shape the code's declarations give it; in
\* particular no arithmetic of the dispatch leaves 0..100.
TypeOK ==
    /\ deviceConfig \in Configs
    /\ epoch \in Nat /\ now \in Nat /\ epoch > 0 /\ now > 0
    /\ snapshot \in SensorData /\ view \in SensorData
    /\ reading \in SensorData
    /\ pin \in [Pins -> Percent]
    /\ slots \in [SlotNumbers -> SlotState]
    /\ reported \in [Functions -> States] /\ server \in [Functions -> States]
    /\ pending \in Seq(Changes) /\ inFlight \in Seq(Changes)
    /\ heatingSensorStaleSinceEpoch \in Nat
    /\ safetyEvent \in {"none", "ceiling", "cooldown", "lowTank"}
    /\ staleEvent \in BOOLEAN /\ waiting \in BOOLEAN
    /\ lost \in SUBSET Functions
    /\ pc \in [Tasks -> Labels]
    /\ fn \in [Tasks -> Nat \ {0}] /\ entry \in Nat \ {0}
    /\ shouldBeOn \in BOOLEAN
    /\ targetPercent \in Percent /\ pumpTarget \in Percent

\* What the tick in progress, and the push in progress, rely on: indices are
\* in range, a tick that decides was not told to stop, and changes are in
\* flight only while they are pushed (the lock of initController and
\* consumeControllerDataChanges).
InTick == {"decide", "dispatch", "pumpWrite", "pumpLimits"}
TickInv ==
    /\ pc["relay"] = "dispatch" => fn["relay"] <= Len(FunctionOrder)
    /\ pc["relay"] = "pumpLimits" => entry <= MAX_RELAY_SLOTS
    /\ pc["relay"] \in InTick =>
          ~deviceConfig.emergencyStop /\ deviceConfig.relayEnabled
    /\ pc["loop"] \notin {"push", "deliver"} => inFlight = <<>>

\* What the queue says last about a function, or the base if it is silent.
Silent(queue, f) == \A i \in DOMAIN queue : queue[i].fn # f
LastSays(queue, f, state) ==
    \E i \in DOMAIN queue :
        /\ queue[i] = [fn |-> f, state |-> state]
        /\ \A j \in DOMAIN queue : j > i => queue[j].fn # f

\* The server's view brought up to date with the changes in flight and then
\* with those still pending is what the controller last reported, of every
\* function but those whose last change to be pushed was lost: the bounded
\* buffer, which refuses changes when it is full, and the drain racing the
\* relay task lose and reorder none, and the next change of a function that
\* arrives makes up for those lost (recordControllerState,
\* consumeControllerDataChanges, pushControllerData).
ServerViewConsistent ==
    \A f \in Functions :
        \/ LastSays(pending, f, reported[f])
        \/ Silent(pending, f) /\ LastSays(inFlight, f, reported[f])
        \/ /\ Silent(pending, f) /\ Silent(inFlight, f)
           /\ f \in lost \/ server[f] = reported[f]

\* From the moment a configuration with emergencyStop, or without
\* relayEnabled, is committed, no step energises any output (a servo may
\* move to its safe position): no tick that began before the commit goes on
\* deciding after it (initController's whole-tick lock).
StopNeverEnergises ==
    [][(deviceConfig.emergencyStop \/ ~deviceConfig.relayEnabled) =>
          \A p \in Pins : p[1] # "servo" => pin'[p] <= pin[p]]_vars

RelayPin(s) == <<"relay", s>>
IsOn(s) == pin[RelayPin(s)] > 0
TickEnds == pc["relay"] = "pumpWrite" /\ pc'["relay"] = "sleep"

\* What the controller reports is what the outputs do: when a tick ends, the
\* relay of a slot without minimum times or proportioning is on exactly if
\* its function is reported on, unless the full buffer refused the report.
\* The write a tick skips because the shadow already matches was not needed
\* (dispatchSlot, recordControllerState).
ReportsMatchRelays ==
    [][(TickEnds /\ Len(pending) < MAX_REPORTED_FUNCTIONS) =>
          \A e \in Entries(deviceConfig) :
              (/\ e.kind = "relay" /\ RelayPin(e.slot) \in Wired
               /\ e.minOnSeconds = 0 /\ e.minOffSeconds = 0
               /\ e.proportioningPeriod = 0) =>
                  (IsOn(e.slot) <=> reported'[e.fn].on)]_vars

\* A device that stays disabled ends up with every assigned output at rest,
\* and a tick that had already passed the unlocked check of
\* deviceConfig.enabled does not undo that for good (relayTaskLoop).
DisabledComesToRest ==
    <>[](~deviceConfig.enabled) =>
        <>[](\A e \in Entries(deviceConfig) :
                \A p \in RestPins(e) : e.kind # "servo" => pin[p] = 0)

\* While the device is enabled and the server does not tell it to wait, the
\* pending changes are drained again and again, so that the buffer cannot
\* stay full (pushSensorData).
ChangesAreDrained ==
    <>[](deviceConfig.enabled /\ ~waiting) => []<>(pending = <<>>)
=============================================================================
