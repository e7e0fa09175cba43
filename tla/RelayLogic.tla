----------------------------- MODULE RelayLogic -----------------------------
(***************************************************************************)
(* The pure decision functions of Logic/RelayLogic.cpp.  Every operator    *)
(* has the name and the argument order of the C++ function it stands for.  *)
(* Readings are integers or NaN; epochs and durations are integers in one  *)
(* common unit.  Set-valued arguments replace C arrays whose order does    *)
(* not matter.                                                             *)
(***************************************************************************)
EXTENDS Integers, Sequences

CONSTANTS
    NaN,                    \* "no reading this cycle", compared with nothing
    MIN_PLAUSIBLE_EPOCH,    \* an epoch below this is an unsynchronised clock
    DayLength               \* length of a local day in epoch units

ASSUME NaNAssumption == NaN \notin Int
ASSUME ClockAssumption ==
    MIN_PLAUSIBLE_EPOCH \in Nat /\ DayLength \in Nat \ {0}

Percent == 0..100

clamp(percent) ==
    IF percent < 0 THEN 0 ELSE IF percent > 100 THEN 100 ELSE percent

-----------------------------------------------------------------------------
(* Clock-driven conditions *)

computeIntervalState(interval, intervalLength, epochSeconds) ==
    interval > 0 /\ epochSeconds % interval < intervalLength

localSecondsOfDay(localEpoch) == localEpoch % DayLength

\* 1970-01-01 was a Thursday, gmtime's weekday 4
localWeekday(localEpoch) == ((localEpoch \div DayLength) + 4) % 7

computeScheduleState(daysOfWeek, start, duration, weekday, secondsOfDay) ==
    /\ weekday \in daysOfWeek
    /\ secondsOfDay >= start
    /\ secondsOfDay < start + duration

-----------------------------------------------------------------------------
(* Hysteresis and timers *)

computeThresholdState(currentlyOn, reading, threshold, hysteresis, above) ==
    LET turnOn  == IF above THEN reading > threshold ELSE reading < threshold
        turnOff == IF above THEN reading <= threshold - hysteresis
                            ELSE reading >= threshold + hysteresis
    IN  IF currentlyOn THEN ~turnOff ELSE turnOn

\* an epoch of 0 means "not running", whatever the clock says
runTimeCeilingHit(epochSeconds, onSinceEpoch, maxRunSeconds) ==
    /\ maxRunSeconds > 0
    /\ onSinceEpoch # 0
    /\ epochSeconds - onSinceEpoch >= maxRunSeconds

\* (mutant) the cooldown ends a second early
MutCooldownActive(epochSeconds, offSinceEpoch, cooldownSeconds) ==
    /\ cooldownSeconds > 0
    /\ offSinceEpoch # 0
    /\ epochSeconds - offSinceEpoch < cooldownSeconds - 1

cooldownActive(epochSeconds, offSinceEpoch, cooldownSeconds) ==
    /\ cooldownSeconds > 0
    /\ offSinceEpoch # 0
    /\ epochSeconds - offSinceEpoch < cooldownSeconds

minOnTimeBlocksOff(epochSeconds, onSinceEpoch, minOnSeconds) ==
    /\ minOnSeconds > 0
    /\ onSinceEpoch # 0
    /\ epochSeconds - onSinceEpoch < minOnSeconds

waterPumpBlockedByLowTank(waterLevel, rawEmpty, rawFull, minLevelPercent) ==
    /\ minLevelPercent > 0
    /\ rawEmpty # rawFull
    /\ \/ waterLevel = NaN
       \/ LET span == rawFull - rawEmpty
              fill == IF span > 0 THEN waterLevel - rawEmpty
                                  ELSE rawEmpty - waterLevel
              size == IF span > 0 THEN span ELSE -span
          IN  \* fraction of the tank, clamped to it, against the minimum
              IF fill < 0 THEN TRUE
              ELSE IF fill > size THEN 100 < minLevelPercent
              ELSE fill * 100 < minLevelPercent * size

evaluateManualOverride(mode, epochSeconds, expiresAtEpoch, isCurrentlyOn, reading, threshold, hysteresis, above) ==
    /\ epochSeconds >= MIN_PLAUSIBLE_EPOCH
    /\ epochSeconds < expiresAtEpoch
    /\ \/ mode = "duration"
       \/ /\ mode = "target"
          /\ computeThresholdState(isCurrentlyOn, reading, threshold,
                                   hysteresis, above)

-----------------------------------------------------------------------------
(* Outputs *)

\* (mutant) a limited change overshoots the target
MutRateLimit(currentPercent, targetPercent, maxPercentPerSecond, elapsedSeconds) ==
    LET maxStep == maxPercentPerSecond * elapsedSeconds
    IN  IF maxPercentPerSecond <= 0 \/ elapsedSeconds <= 0 THEN targetPercent
        ELSE IF targetPercent > currentPercent THEN currentPercent + maxStep
        ELSE IF targetPercent < currentPercent THEN currentPercent - maxStep
        ELSE targetPercent

applyRateLimit(currentPercent, targetPercent, maxPercentPerSecond, elapsedSeconds) ==
    LET maxStep == maxPercentPerSecond * elapsedSeconds
    IN  IF maxPercentPerSecond <= 0 \/ elapsedSeconds <= 0 THEN targetPercent
        ELSE IF targetPercent - currentPercent > maxStep
             THEN currentPercent + maxStep
        ELSE IF targetPercent - currentPercent < -maxStep
             THEN currentPercent - maxStep
        ELSE targetPercent

computeTimeProportioningState(percent, periodSeconds, epochSeconds) ==
    IF periodSeconds <= 0 THEN clamp(percent) > 0
    ELSE epochSeconds % periodSeconds < (periodSeconds * clamp(percent)) \div 100

\* which winding a latching valve is pulsed on, if any
computeLatchingPulseAction(previousPercent, newPercent) ==
    IF previousPercent <= 0 /\ newPercent > 0 THEN "open"
    ELSE IF previousPercent > 0 /\ newPercent <= 0 THEN "close"
    ELSE "none"

Directions == {"none", "open", "close"}

\* One tick of a two-relay motor.  `state' is [direction, dead]; the result
\* is the new state, the new tracked position and the two relays' levels.
computeRelayPairStep(state, currentPositionPercent, targetPercent, travelSeconds, deadTimeSeconds, elapsedSeconds) ==
    LET target  == clamp(targetPercent)
        current == clamp(currentPositionPercent)
        dead    == IF elapsedSeconds > 0 /\ state.dead > 0
                   THEN IF state.dead > elapsedSeconds
                        THEN state.dead - elapsedSeconds ELSE 0
                   ELSE state.dead
        holding == \/ travelSeconds <= 0
                   \/ elapsedSeconds <= 0
                   \/ current = target
                   \/ dead > 0
        desired == IF target > current THEN "open" ELSE "close"
        reversal == /\ deadTimeSeconds > 0
                    /\ state.direction # "none"
                    /\ desired # state.direction
        raw     == (elapsedSeconds * 100) \div travelSeconds
        step    == IF raw < 1 THEN 1 ELSE raw
        moved   == IF desired = "open"
                   THEN IF current + step > target THEN target ELSE current + step
                   ELSE IF current - step < target THEN target ELSE current - step
    IN  IF holding
        THEN [direction |-> state.direction, dead |-> dead,
              position |-> current, open |-> FALSE, close |-> FALSE]
        ELSE IF reversal
        THEN [direction |-> desired, dead |-> deadTimeSeconds,
              position |-> current, open |-> FALSE, close |-> FALSE]
        ELSE [direction |-> desired, dead |-> dead, position |-> moved,
              open |-> desired = "open", close |-> desired = "close"]

-----------------------------------------------------------------------------
(* Rules: a condition tree is a sequence of nodes; a group names its        *)
(* children by index, and the parser gives a child a later index.           *)

evaluateComparison(node, wasRuleTrue, reading) ==
    /\ reading # NaN
    /\ CASE node.op = "GT" -> computeThresholdState(wasRuleTrue, reading,
                                  node.value1, node.hysteresis, TRUE)
         [] node.op = "LT" -> computeThresholdState(wasRuleTrue, reading,
                                  node.value1, node.hysteresis, FALSE)
         [] node.op = "GTE" -> reading >= node.value1
         [] node.op = "LTE" -> reading <= node.value1
         [] node.op = "EQ"  -> reading = node.value1
         [] node.op = "BETWEEN" ->
              \/ node.value1 <= reading /\ reading <= node.value2
              \/ node.value2 <= reading /\ reading <= node.value1
         [] OTHER -> FALSE

evaluateLeaf(node, wasRuleTrue, readings, epochSeconds, localEpoch) ==
    CASE node.type = "comparison" ->
           evaluateComparison(node, wasRuleTrue, readings[node.metric])
      [] node.type = "interval" ->
           /\ epochSeconds >= MIN_PLAUSIBLE_EPOCH
           /\ computeIntervalState(node.interval, node.intervalLength,
                                   epochSeconds)
      [] node.type = "schedule" ->
           /\ epochSeconds >= MIN_PLAUSIBLE_EPOCH
           /\ computeScheduleState(node.daysOfWeek, node.start, node.duration,
                                   localWeekday(localEpoch),
                                   localSecondsOfDay(localEpoch))
      [] OTHER -> FALSE

\* The left-to-right fold over a group's children with ONE operator is the
\* conjunction or the disjunction of all of them; an empty group is false.
evaluateNode(nodes, root, wasRuleTrue, readings, epochSeconds, localEpoch) ==
    LET value[i \in DOMAIN nodes] ==
          IF nodes[i].type # "group"
          THEN evaluateLeaf(nodes[i], wasRuleTrue, readings, epochSeconds,
                            localEpoch)
          ELSE /\ nodes[i].children # {}
               /\ IF nodes[i].groupOperator = "AND"
                  THEN \A c \in nodes[i].children : value[c]
                  ELSE \E c \in nodes[i].children : value[c]
    IN  value[root]

\* `percents' are the demands of the rules that hold this tick
foldTargetPercent(percents) ==
    LET isMax(p) == \A q \in percents : q <= p
    IN  IF \E p \in percents : isMax(p)
        THEN CHOOSE p \in percents : isMax(p)
        ELSE 0
=============================================================================
