-------------------------- MODULE ActuatorHistory --------------------------
(***************************************************************************)
(* Actuator with history variables: what the relays and the motors they    *)
(* drive really did, counted in the ticks that passed, and not what the    *)
(* controller's own timestamps say.  The history never constrains a step.  *)
(*                                                                         *)
(* A relay is sampled when a tick's delay passes, so a level a tick sets   *)
(* and revokes again under the lock is not a state of the relay's.         *)
(***************************************************************************)
EXTENDS Actuator

CONSTANT HistoryCap        \* bound: the history counts no further

\* It counts as far as the times that must have passed before a relay, a
\* pump or a motor may be switched.
ASSUME HistoryAssumption ==
    /\ HistoryCap \in Nat \ {0}
    /\ \A c \in Configs :
          /\ c.waterPumpCooldownSeconds <= HistoryCap
          /\ \A e \in Entries(c) :
                {e.minOnSeconds, e.minOffSeconds, e.deadTimeSeconds}
                  \subseteq 0..HistoryCap

VARIABLES
    runs,       \* per relay: its last samples, see Run
    motor,      \* per slot number: where a pair's motor physically is, in
                \* the units of Moved
    disturbed,  \* outputs were forced off, or the clock set, since boot
    staleTicks, \* ticks finished since the device was disabled
    blindTicks, \* ticks a heater has been on without a temperature
    rested      \* the relay task has switched off what this configuration,
                \* which disables the device, lists

history == <<runs, motor, disturbed, staleTicks, blindTicks, rested>>
hvars == <<vars, history>>

\* What may cut a timer short, or lengthen it: a boot, a forced-off of a
\* relay that is on ("cut") or off ("idled"), a clock set forwards or back,
\* and a slot's change of function.
Marks == {"boot", "cut", "idled", "ahead", "back", "remap"}

\* The relay has been on (or off) for n samples; `marks' fell in that time,
\* `recent' since the last sample.
Run == [on : BOOLEAN, n : 0..HistoryCap, marks : SUBSET Marks,
        recent : SUBSET Marks]

-----------------------------------------------------------------------------
(* What a step adds to the history *)

TimePasses == /\ pc["relay"] = "sleep" /\ pc'["relay"] = "check"
              /\ epoch < MaxEpoch

OutputsForced == \E t \in Tasks : pc[t] # "recordOff" /\ pc'[t] = "recordOff"

Capped(n) == IF n < HistoryCap THEN n + 1 ELSE n

\* A pump that is forced off keeps the stamp of its start, so a clock that
\* was set back meanwhile counts for its next run as well.
Inherited(r) == IF "cut" \in r.marks \cup r.recent THEN r.marks \cap {"back"}
                ELSE {}

Sampled(r, on) ==
    IF r.on = on
    THEN [r EXCEPT !.n = Capped(@), !.marks = @ \cup r.recent, !.recent = {}]
    ELSE [on |-> on, n |-> 1, marks |-> r.recent \cup Inherited(r),
          recent |-> {}]

MarksOf(s) ==
    (IF OutputsForced /\ \E e \in Entries(deviceConfig) :
                             RelayPin(s) \in RestPins(e) \/ e.slot = s
     THEN IF IsOn(s) THEN {"cut"} ELSE {"idled"} ELSE {})
    \cup (IF slots'[s].type # slots[s].type THEN {"remap"} ELSE {})
    \cup (IF epoch' > epoch THEN {"ahead"} ELSE {})
    \cup (IF epoch' < epoch THEN {"back"} ELSE {})

\* Where a motor is a tick later: the winding that is energised moves it, and
\* its ends stop it.  In these units a tick's travel is 100 and the whole way
\* 100 * travelSeconds, so that no travel time is rounded.
Moved(s) ==
    IF \E e \in Entries(deviceConfig) : e.kind = "pair" /\ e.slot = s
    THEN LET e == CHOOSE d \in Entries(deviceConfig) :
                      d.kind = "pair" /\ d.slot = s
             m == motor[s] + (IF IsOn(s) THEN 100 ELSE 0)
                           - (IF IsOn(e.pairSlot) THEN 100 ELSE 0)
             way == 100 * e.travelSeconds
         IN  IF m < 0 THEN 0 ELSE IF m > way THEN way ELSE m
    ELSE motor[s]

\* The relay task has forced the outputs off and reported it.
OffPassEnds == pc["relay"] = "recordOff" /\ pc'["relay"] = "sleep"

HeaterOn == \E e \in Entries(deviceConfig) :
                e.fn = "Heating" /\ e.kind = "relay" /\ IsOn(e.slot)

HistoryStep ==
    /\ runs' = [s \in SlotNumbers |->
                  IF TimePasses THEN Sampled(runs[s], IsOn(s))
                  ELSE [runs[s] EXCEPT !.recent = @ \cup MarksOf(s)]]
    /\ motor' = IF TimePasses
                THEN [s \in SlotNumbers |-> Moved(s)]
                ELSE motor
    /\ disturbed' = \/ disturbed \/ OutputsForced
                    \/ ~TimePasses /\ epoch' # epoch
    /\ staleTicks' = IF deviceConfig'.enabled THEN 0
                     ELSE IF TickEnds THEN Capped(staleTicks) ELSE staleTicks
    /\ blindTicks' = IF ~TickEnds \/ now >= MaxEpoch THEN blindTicks
                     ELSE IF view["temperature"] = NaN /\ HeaterOn
                     THEN Capped(blindTicks) ELSE 0
    /\ rested' = /\ ~deviceConfig'.enabled /\ UNCHANGED deviceConfig
                 /\ rested \/ OffPassEnds

HInit ==
    /\ Init
    /\ runs = [s \in SlotNumbers |->
                 [on |-> FALSE, n |-> 0, marks |-> {"boot"}, recent |-> {}]]
    /\ motor = [s \in SlotNumbers |-> 0]
    /\ disturbed = FALSE
    /\ staleTicks = 0
    /\ blindTicks = 0
    /\ rested = FALSE

HNext == Next /\ HistoryStep

HSpec == HInit /\ [][HNext]_hvars

\* One installation: whatever else a new configuration changes, it lists the
\* relays that are there, with the same functions and timings.
InstallationNext == HNext /\ deviceConfig'.relays = deviceConfig.relays

InstallationSpec == HInit /\ [][InstallationNext]_hvars

\* The slot numbers an entry's outputs and its tracking use.
UsedSlots(e) == IF e.kind \in {"pair", "latch"} THEN {e.slot, e.pairSlot}
                ELSE {e.slot}

\* No two entries share an output or a slot number.
Separate(c) ==
    \A e \in Entries(c) :
        /\ e.kind = "pair" => e.slot # e.pairSlot
        /\ \A d \in Entries(c) \ {e} : UsedSlots(d) \cap UsedSlots(e) = {}

\* No two entries are pumps.
OnePump(c) ==
    \A d, e \in Entries(c) :
        d.fn = "WaterPump" /\ e.fn = "WaterPump" => d = e

\* A tick comes to every function and to every entry once.
ListedOnce(c) ==
    /\ \A i, j \in DOMAIN FunctionOrder :
          FunctionOrder[i] = FunctionOrder[j] => i = j
    /\ \A i, j \in DOMAIN c.relays :
          c.relays[i].slot = c.relays[j].slot => i = j

\* What the code books for a motor's tick, in whole percents and at least one,
\* and where its bookkeeping can be after whole ticks: on a step if the steps
\* divide the way, and otherwise wherever its ends let it.
StepOf(e) == LET q == 100 \div e.travelSeconds IN IF q < 1 THEN 1 ELSE q
Divides(e) == \E k \in Percent : k * StepOf(e) = 100
OnStep(e) == {p \in Percent : \E k \in Percent : p = k * StepOf(e)}

\* Positions the bookkeeping reaches in whole ticks from wherever it can be
Stops(e) == {0, 100} \cup (IF Divides(e) THEN OnStep(e) ELSE {})

\* No motor is asked for less than a step, by a rule or a PID loop.
WholeSteps(c) ==
    \A e \in Entries(c) : e.kind = "pair" =>
        /\ e.travelSeconds > 0
        /\ \A r \in c.rules : r.fn = e.fn => r.percent \in Stops(e)
        /\ (\E m \in Metrics : <<e.fn, m>> \in c.pid) =>
              PidOutputs \subseteq Stops(e)

\* What keeps a heater on without a temperature is the hold alone: a rule, a
\* PID loop and an override need the temperature, and no minimum on-time
\* outlives them.
HeatsByTemperature(c) ==
    /\ \A e \in Entries(c) :
          e.fn = "Heating" /\ e.kind = "relay" => e.minOnSeconds = 0
    /\ \A r \in c.rules, blind \in Readings \cup {NoReading},
          on \in BOOLEAN, t \in 1..MaxEpoch :
          r.fn = "Heating" /\ r.nodes # <<>> /\ blind["temperature"] = NaN =>
              ~evaluateNode(r.nodes, 1, on, blind, t, t + c.utcOffsetSeconds)
    /\ \A i \in DOMAIN c.overrides : c.overrides[i].fn = "Heating" =>
          c.overrides[i].mode = "target" /\ c.overrides[i].metric = "temperature"
    /\ \A m \in Metrics :
          <<"Heating", m>> \in c.pid => <<"Heating", "temperature">> \in c.pid

-----------------------------------------------------------------------------
(* Properties *)

\* The relay of slot s changes level with the sample this step takes.
Switches(s) == TimePasses /\ IsOn(s) # runs[s].on

\* A pump's relay is never on for longer than the run-time ceiling, counted
\* in real ticks: whatever the rules, the overrides, the configurations in
\* between and the forced-off periods do, unless the slot was another
\* function's meanwhile or the clock was set back
\* (applyWaterPumpSafetyLimits, which guards pumps on a plain relay only).
PumpRunCeiling ==
    \A s \in SlotNumbers :
        (/\ PumpSlot(s) /\ slots[s].type = "WaterPump" /\ runs[s].on
         /\ (runs[s].marks \cup runs[s].recent) \cap {"remap", "back"} = {}) =>
            \E c \in Configs : \/ c.waterPumpMaxRunSeconds = 0
                               \/ runs[s].n <= c.waterPumpMaxRunSeconds

\* A pump that stopped, other than by being forced off while it ran, rests
\* for the whole cooldown before its relay is on again
\* (applyWaterPumpSafetyLimits).
PumpCooldown ==
    [][\A s \in SlotNumbers :
          (/\ PumpSlot(s) /\ slots[s].type = "WaterPump"
           /\ Switches(s) /\ ~runs[s].on
           /\ (runs[s].marks \cup runs[s].recent)
                \cap {"boot", "cut", "ahead", "remap"} = {}) =>
              \E c \in Configs : runs[s].n >= c.waterPumpCooldownSeconds]_hvars

\* A plain relay that is switched by its rules has been on, or off, for its
\* minimum time, counted in real ticks; a forced-off is exempt and clears
\* the minimum off time (dispatchSlot).
MinTimesHonoured ==
    [][\A e \in Entries(deviceConfig) :
          (/\ e.kind = "relay" /\ e.fn # "WaterPump" /\ Switches(e.slot)
           /\ (runs[e.slot].marks \cup runs[e.slot].recent)
                \cap {"boot", "cut", "idled", "ahead"} = {}) =>
              runs[e.slot].n >= IF runs[e.slot].on THEN e.minOnSeconds
                                ELSE e.minOffSeconds]_hvars

\* A motor's two windings are never energised together, and one of them is
\* energised only after the other has rested for the dead time, forced-off
\* periods or not (computeRelayPairStep, driveEveryAssignedRelayOff).
DeadTime ==
    [][\A e \in Entries(deviceConfig) : e.kind = "pair" =>
          /\ ~(IsOn(e.slot) /\ IsOn(e.pairSlot))
          /\ \A w \in {<<e.slot, e.pairSlot>>, <<e.pairSlot, e.slot>>} :
                (/\ Switches(w[1]) /\ ~runs[w[1]].on
                 /\ e.deadTimeSeconds > 0
                 /\ (runs[w[2]].marks \cup runs[w[2]].recent)
                      \cap {"boot", "ahead"} = {}) =>
                    ~runs[w[2]].on /\ runs[w[2]].n >= e.deadTimeSeconds]_hvars

\* What the integer division of computeRelayPairStep may cost over a full way,
\* in the motor's units: 100 % travelSeconds percent, nothing where the steps
\* divide the way; a travel of more than 100 is booked a percent a tick, and
\* the motor does travelSeconds - 100 ticks too few.
Drift(e) == IF e.travelSeconds <= 100
            THEN e.travelSeconds * (100 % e.travelSeconds)
            ELSE 100 * (e.travelSeconds - 100)

\* Between ticks the tracked position of a motor is where the motor is, up to
\* the rounding of its steps, as long as nothing was forced off and the clock
\* was not set: what the code books ahead of a tick is the travel the tick
\* then allows, and the error does not add up over reversals.  A motor tracked
\* as closed is closed, and one tracked as open is open, unless it is too slow
\* (computeRelayPairStep with the elapsed time of dispatchSlot).
PositionTracked ==
    (~disturbed /\ pc["relay"] \in {"check", "snapshot", "begin", "forceOff"}
        /\ epoch < MaxEpoch) =>
        \A e \in Entries(deviceConfig) : e.kind = "pair" =>
            LET p == slots[e.slot].position
                m == motor[e.slot]
            IN  /\ m - p * e.travelSeconds \in -Drift(e)..Drift(e)
                /\ p = 0 => m = 0
                /\ p = 100 /\ e.travelSeconds <= 100 =>
                      m = 100 * e.travelSeconds

\* The unlocked test of deviceConfig.enabled costs at most one stale tick:
\* after a commit disables the device, at most one tick still finishes
\* (relayTaskLoop).
AtMostOneStaleTick == staleTicks <= 1

\* Once the relay task has made a pass since the configuration that disabled
\* the device, every output that configuration lists is at rest, and stays
\* at rest while it is in force, whatever tick was in progress when it came
\* (relayTaskLoop, forceAllRelaysOff).
DisabledAtRest ==
    rested => \A e \in Entries(deviceConfig) : e.kind # "servo" =>
                 \A p \in RestPins(e) : pin[p] = 0

\* A heater never stays on without a temperature for more ticks than
\* MAX_HEATING_SENSOR_STALE_SECONDS, whatever the fail-safe policies of the
\* configurations committed meanwhile (evaluateRule).
HeatingHoldBounded == blindTicks <= MAX_HEATING_SENSOR_STALE_SECONDS

-----------------------------------------------------------------------------
(* What comments of the code say of it, and its code does not do *)

\* "Start the cooldown clock on every pump-off (not just
\* safety-limit-caused ones)": also when the pump was forced off.
CooldownAfterEveryPumpOff ==
    [][\A s \in SlotNumbers :
          (/\ Switches(s) /\ ~runs[s].on /\ slots[s].type = "WaterPump"
           /\ (runs[s].marks \cup runs[s].recent)
                \cap {"boot", "ahead", "remap"} = {}) =>
              \E c \in Configs : runs[s].n >= c.waterPumpCooldownSeconds]_hvars
=============================================================================
