----------------------------- MODULE MCHistory -----------------------------
(* Small instances of ActuatorHistory. *)
EXTENDS ActuatorHistory, MCActuator

\* No action reads the history: each run looks at the part its properties read.
RelayView == <<DeviceView, runs>>
HasKind(k) == \E e \in Entries(deviceConfig) : e.kind = k
SlowMotor == \E e \in Entries(deviceConfig) :
                e.kind = "pair" /\ e.deadTimeSeconds = 0
HasHeater == \E e \in Entries(deviceConfig) : e.fn = "Heating"

\* Nor do the events, nor the changes in flight, which only the loop task's
\* own untimed steps read; nor, where no rule has a hysteresis, the reports.
UntoldView == <<deviceConfig, epoch, snapshot, pin, slots, pc, fn, tickVars,
                waiting, reading>>
MoverView == <<UntoldView,
               IF SlowMotor THEN <<>> ELSE runs,
               IF HasKind("pair") /\ ~disturbed THEN motor ELSE <<>>>>
TimerView == <<UntoldView,
               IF HasHeater
               THEN <<heatingSensorStaleSinceEpoch, reported, pending,
                      blindTicks>>
               ELSE <<runs, staleTicks, rested>>>>

\* The pump's ceiling and cooldown are in every configuration, pump or no pump.
Limits == [MCConfig EXCEPT !.waterPumpMaxRunSeconds = 2,
                           !.waterPumpCooldownSeconds = 2]

(* One pump on a plain relay, with a ceiling, a cooldown and a tank. *)
PumpFunctions == <<"WaterPump">>
PumpBase ==
    [Limits EXCEPT
       !.relays = <<[MCSlot EXCEPT !.fn = "WaterPump"]>>,
       !.rules = {MCRule("WaterPump", 100,
                         <<Compare("temperature", "LT", 1, 0)>>)},
       !.waterPumpMinLevel = 10]
PumpConfigs == {PumpBase}
PumpReadings == {Read(0, 50), Read(0, 0)}
LongRunConfigs == {[PumpBase EXCEPT !.waterPumpMaxRunSeconds = 4]}

(* A light with minimum times, disabled now and then. *)
LightBase ==
    [Limits EXCEPT
       !.relays = <<[MCSlot EXCEPT !.minOnSeconds = 2, !.minOffSeconds = 2]>>,
       !.rules = {MCRule("Light", 100,
                         <<Compare("temperature", "LT", 1, 0)>>)}]
LightConfigs == {LightBase, [LightBase EXCEPT !.enabled = FALSE]}

(* A vent moved by a motor with two windings, in steps of half its way, of a *)
(* third of it, which are not whole percents, or of less than one percent.   *)
VentBase ==
    [Limits EXCEPT
       !.relays = <<[MCSlot EXCEPT !.fn = "Vent", !.kind = "pair",
                       !.pairSlot = 2, !.travelSeconds = 2,
                       !.deadTimeSeconds = 2]>>,
       !.rules = {MCRule("Vent", 100, <<Compare("waterLevel", "GT", 1, 0)>>)}]
VentConfigs ==
    {VentBase} \cup
    {[VentBase EXCEPT !.relays[1].travelSeconds = t,
                      !.relays[1].deadTimeSeconds = 0] : t \in {3, 120}}

(* A heater whose temperature sensor fails, under each fail-safe policy. *)
HeatBase ==
    [Limits EXCEPT
       !.relays = <<[MCSlot EXCEPT !.fn = "Heating"]>>,
       !.rules = {MCRule("Heating", 100,
                         <<Compare("temperature", "LT", 1, 1)>>)}]
HeatConfigs == {HeatBase,
                [HeatBase EXCEPT !.heatingFailSafePolicy = "scheduleOnly"]}

-----------------------------------------------------------------------------
(* All of them *)

InstalledFunctions == <<"WaterPump", "Vent", "Light", "Heating">>
MovedConfigs == {PumpBase} \cup VentConfigs
InstalledConfigs == MovedConfigs \cup LightConfigs \cup HeatConfigs
Blind == Read(NaN, 0)
InstalledReadings == PumpReadings \cup {Blind}

\* What the rules of an installation tell apart: the pump looks at two metrics,
\* the others at one, which is there or is not.
SensorsOf(c) ==
    {NoReading} \cup IF c = PumpBase THEN PumpReadings
                     ELSE {Read(0, 50), Blind}

\* bound: how far an installation's clock is followed.  A motor of three ticks
\* takes four to be tracked as open; the others have been through a cycle by 6.
LastEpoch(c) == IF c \in VentConfigs THEN MaxEpoch ELSE 6

\* One run covers several installations: what a device's relays are, and the
\* sensors it has, is chosen at boot, and neither changes.
InstalledSpec ==
    HInit /\ [][/\ InstallationNext
                /\ reading' \in SensorsOf(deviceConfig')
                /\ epoch' <= LastEpoch(deviceConfig)]_hvars

\* What the theorems about these installations assume of them
ASSUME Installations ==
    \A c \in Configs : /\ Separate(c) /\ OnePump(c)
                       /\ ListedOnce(c) /\ WholeSteps(c)
                       /\ HeatsByTemperature(c)

InstalledView ==
    IF deviceConfig \in MovedConfigs THEN MoverView ELSE TimerView
=============================================================================
