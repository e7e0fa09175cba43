----------------------------- MODULE MCActuator -----------------------------
(* Small instances of Actuator: configurations a server may send. *)
EXTENDS Actuator

MCSlot == [slot |-> 1, fn |-> "Light", kind |-> "relay", pairSlot |-> 1,
           travelSeconds |-> 0, deadTimeSeconds |-> 0, safePosition |-> 0,
           rateLimit |-> 0, minOnSeconds |-> 0, minOffSeconds |-> 0,
           proportioningPeriod |-> 0]

Compare(metric, op, value, hysteresis) ==
    [type |-> "comparison", metric |-> metric, op |-> op, value1 |-> value,
     value2 |-> value, hysteresis |-> hysteresis]

MCRule(f, percent, nodes) == [fn |-> f, percent |-> percent, nodes |-> nodes]

MCConfig == [enabled |-> TRUE, emergencyStop |-> FALSE, relayEnabled |-> TRUE,
             relays |-> <<MCSlot>>, rules |-> {}, overrides |-> <<>>, pid |-> {},
             waterPumpMaxRunSeconds |-> 0, waterPumpCooldownSeconds |-> 0,
             waterPumpMinLevel |-> 0, waterLevelRawEmpty |-> 0,
             waterLevelRawFull |-> 100, skipWaterPumpForRain |-> FALSE,
             heatingFailSafePolicy |-> "hold", utcOffsetSeconds |-> 0]

Read(temperature, waterLevel) ==
    [temperature |-> temperature, waterLevel |-> waterLevel]
MCMetrics == {"temperature", "waterLevel"}
MCRelayPins == {"relay"} \X SlotNumbers
MCAllPins == Pins
NoSteps == {}

-----------------------------------------------------------------------------
(* Reporting: two functions, a light and a heater, and every way to stop *)

ReportFunctions == <<"Light", "Heating">>
ReportBase ==
    [MCConfig EXCEPT
       !.relays = <<[MCSlot EXCEPT !.slot = 1],
                    [MCSlot EXCEPT !.slot = 2, !.fn = "Heating"]>>,
       !.rules = {MCRule("Light", 100, <<Compare("waterLevel", "GT", 1, 1)>>),
                  MCRule("Heating", 100,
                         <<Compare("temperature", "LT", 1, 1)>>)}]
ReportConfigs == {ReportBase,
                  [ReportBase EXCEPT !.enabled = FALSE],
                  [ReportBase EXCEPT !.emergencyStop = TRUE]}
ReportReadings == {Read(0, 0), Read(2, 2), Read(0, 2)}

(* Coming to rest: a pump that is disabled and enabled again *)
RestFunctions == <<"WaterPump">>
RestBase ==
    [MCConfig EXCEPT
       !.relays = <<[MCSlot EXCEPT !.fn = "WaterPump"]>>,
       !.rules = {MCRule("WaterPump", 100,
                         <<Compare("temperature", "LT", 1, 0)>>)}]
RestConfigs == {RestBase, [RestBase EXCEPT !.enabled = FALSE]}
RestReadings == {Read(0, 0), Read(2, 0)}

\* What the server knows, and whether a push was lost, affects nothing on
\* the device: no action's guard and no property of these runs reads it.
DeviceView == <<deviceConfig, epoch, snapshot, pin, controllerVars, pc, fn,
                tickVars, waiting, reading, inFlight>>

(* Every kind of output at once: a fan under PID, a light on a schedule or a *)
(* reading, with an override, and a latching vent; clock corrections.        *)
OutputFunctions == <<"Ventilation", "Light">>
OutputBase ==
    [MCConfig EXCEPT
       !.relays = <<[MCSlot EXCEPT !.fn = "Ventilation", !.kind = "pwm",
                       !.rateLimit = 60],
                    [MCSlot EXCEPT !.fn = "Ventilation", !.slot = 4,
                       !.kind = "servo", !.safePosition = 40],
                    [MCSlot EXCEPT !.slot = 2],
                    [MCSlot EXCEPT !.fn = "Ventilation", !.slot = 3,
                       !.kind = "latch", !.pairSlot = 4]>>,
       !.rules = {MCRule("Light", 100,
                    <<[type |-> "group", groupOperator |-> "OR",
                       children |-> {2, 3}],
                      [type |-> "schedule", daysOfWeek |-> 0..6, start |-> 2,
                       duration |-> 1],
                      Compare("temperature", "GT", 1, 1)>>)},
       !.overrides = <<[fn |-> "Light", mode |-> "target", expiresAt |-> 4,
                        metric |-> "moisture", threshold |-> 1,
                        hysteresis |-> 0]>>,
       !.pid = {<<"Ventilation", "temperature">>}]
OutputConfigs == {OutputBase}
OutputMetrics == MCMetrics \cup {"moisture"}
OutputReadings ==
    {[temperature |-> 2, waterLevel |-> 0, moisture |-> NaN],
     [temperature |-> NaN, waterLevel |-> 0, moisture |-> 0]}
StepBack == {-1}
=============================================================================
