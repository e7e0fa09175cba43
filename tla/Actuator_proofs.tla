--------------------------- MODULE Actuator_proofs ---------------------------
(***************************************************************************)
(* Proofs about Actuator, for every number of slots, every set of          *)
(* functions, configurations and readings the assumptions allow.           *)
(***************************************************************************)
EXTENDS Actuator, TLAPS

-----------------------------------------------------------------------------
(* What the operators return *)

\* A ramped output stays within 0..100 (applyRateLimit), whatever the limit
\* and the time elapsed, also a negative one.
LEMMA RateLimitPercent ==
    ASSUME NEW current \in Percent, NEW target \in Percent,
           NEW limit \in Int, NEW elapsed \in Int
    PROVE  applyRateLimit(current, target, limit, elapsed) \in Percent
<1> DEFINE maxStep == limit * elapsed
<1>1. maxStep \in Int
  OBVIOUS
<1>2. CASE limit <= 0 \/ elapsed <= 0
  BY <1>2 DEF applyRateLimit
<1>3. CASE limit > 0 /\ elapsed > 0
  <2>1. maxStep > 0
    BY <1>3
  <2> HIDE DEF maxStep
  <2>2. applyRateLimit(current, target, limit, elapsed) =
          IF target - current > maxStep THEN current + maxStep
          ELSE IF target - current < -maxStep THEN current - maxStep
          ELSE target
    BY <1>3 DEF applyRateLimit, maxStep
  <2> QED
    BY <1>1, <2>1, <2>2 DEF Percent
<1> QED
  BY <1>2, <1>3

\* The fold of percentages is one of them or 0 (foldTargetPercent).
LEMMA FoldPercent ==
    ASSUME NEW S \in SUBSET Percent
    PROVE  foldTargetPercent(S) \in Percent
<1> DEFINE isMax(p) == \A q \in S : q <= p
<1>1. CASE \E p \in S : isMax(p)
  <2>1. PICK p \in S : isMax(p)
    BY <1>1
  <2>2. (CHOOSE q \in S : isMax(q)) \in S
    BY <2>1
  <2> QED
    BY <1>1, <2>2 DEF foldTargetPercent
<1>2. CASE ~\E p \in S : isMax(p)
  BY <1>2 DEF foldTargetPercent, Percent
<1> QED
  BY <1>1, <1>2

\* A motor's tracked position stays within 0..100 and its dead time does not
\* become negative (computeRelayPairStep).
LEMMA PairStepType ==
    ASSUME NEW direction \in Directions, NEW dead \in Nat,
           NEW current \in Percent, NEW target \in Percent,
           NEW travel \in Nat, NEW pause \in Nat, NEW elapsed \in Int
    PROVE  /\ computeRelayPairStep(
                 [direction |-> direction, dead |-> dead], current, target,
                 travel, pause, elapsed).direction \in Directions
           /\ computeRelayPairStep(
                 [direction |-> direction, dead |-> dead], current, target,
                 travel, pause, elapsed).dead \in Nat
           /\ computeRelayPairStep(
                 [direction |-> direction, dead |-> dead], current, target,
                 travel, pause, elapsed).position \in Percent
<1>1. clamp(target) = target /\ clamp(current) = current
  BY DEF clamp, Percent
<1>2. CASE travel <= 0 \/ elapsed <= 0
  BY <1>1, <1>2 DEF computeRelayPairStep, Percent, Directions
<1>3. CASE travel > 0 /\ elapsed > 0
  <2> DEFINE raw == (elapsed * 100) \div travel
             step == IF raw < 1 THEN 1 ELSE raw
  <2>1. raw \in Int
    BY <1>3
  <2> HIDE DEF raw
  <2>2. step \in Int /\ step >= 1
    BY <2>1
  <2> HIDE DEF step
  <2> QED
    BY <1>1, <1>3, <2>2 DEF computeRelayPairStep, Percent, Directions, step, raw
<1>4. travel <= 0 \/ elapsed <= 0 \/ (travel > 0 /\ elapsed > 0)
  OBVIOUS
<1> QED
  BY <1>2, <1>3, <1>4

-----------------------------------------------------------------------------
(* Type correctness *)

\* The entries of a configuration are slots, and drive pins.
LEMMA EntryType ==
    ASSUME deviceConfig \in Configs
    PROVE  /\ deviceConfig \in DeviceConfig
           /\ \A e \in Entries(deviceConfig) :
                 e \in RelaySlot /\ OutputPins(e) \subseteq Pins
                 /\ RestPins(e) \subseteq OutputPins(e)
                 /\ RestLevel(e) \in Percent
<1>1. deviceConfig \in DeviceConfig
  BY ConfigAssumption
<1>2. \A e \in Entries(deviceConfig) : e \in RelaySlot
  BY <1>1 DEF DeviceConfig, Entries
<1>3. ASSUME NEW e \in RelaySlot
      PROVE  /\ OutputPins(e) \subseteq Pins
             /\ RestPins(e) \subseteq OutputPins(e)
             /\ RestLevel(e) \in Percent
  BY DEF RelaySlot, Kinds, OutputPins, RestPins, RestLevel, Pins, Percent
<1> QED
  BY <1>1, <1>2, <1>3

\* What one dispatch leaves behind has the right type (dispatchSlot).
LEMMA DispatchedType ==
    ASSUME NEW e \in RelaySlot, NEW st \in SlotState, NEW raw \in Percent,
           NEW first \in BOOLEAN, NEW elapsed \in Int,
           pin \in [Pins -> Percent], now \in Nat
    PROVE  /\ Dispatched(e, st, raw, first, elapsed).st \in SlotState
           /\ \A p \in OutputPins(e) :
                 Dispatched(e, st, raw, first, elapsed).levels[p] \in Percent
<1>0. OutputPins(e) \subseteq Pins /\ 0 \in Percent /\ 100 \in Percent
  BY DEF RelaySlot, Kinds, OutputPins, Pins, Percent
<1>1. CASE e.kind = "relay"
  <2>1. DispatchRelay(e, st, raw, first).st \in SlotState
    BY <1>0 DEF DispatchRelay, Outcome, SlotState
  <2>2. ASSUME NEW p \in OutputPins(e)
        PROVE  DispatchRelay(e, st, raw, first).levels[p] \in Percent
    BY <1>0 DEF DispatchRelay, Outcome
  <2> QED
    BY <1>1, <2>1, <2>2 DEF Dispatched
<1>2. CASE e.kind = "pair"
  <2> DEFINE d == computeRelayPairStep(
                      [direction |-> st.direction, dead |-> st.dead],
                      st.position, raw, e.travelSeconds, e.deadTimeSeconds,
                      elapsed)
  <2>1. /\ st.direction \in Directions /\ st.dead \in Nat
        /\ st.position \in Percent /\ e.travelSeconds \in Nat
        /\ e.deadTimeSeconds \in Nat
    BY DEF SlotState, RelaySlot
  <2>2. d.direction \in Directions /\ d.dead \in Nat /\ d.position \in Percent
    BY <2>1, PairStepType
  <2> HIDE DEF d
  <2>3. DispatchPair(e, st, raw, elapsed).st \in SlotState
    BY <2>2 DEF DispatchPair, Outcome, SlotState, d
  <2>4. ASSUME NEW p \in OutputPins(e)
        PROVE  DispatchPair(e, st, raw, elapsed).levels[p] \in Percent
    BY <1>0 DEF DispatchPair, Outcome
  <2> QED
    BY <1>2, <2>3, <2>4 DEF Dispatched
<1>3. CASE e.kind = "latch"
  <2>1. DispatchLatch(e, st, raw).st \in SlotState
    BY DEF DispatchLatch, Outcome, SlotState
  <2>2. ASSUME NEW p \in OutputPins(e)
        PROVE  DispatchLatch(e, st, raw).levels[p] \in Percent
    BY <1>0 DEF DispatchLatch, Outcome
  <2> QED
    BY <1>3, <2>1, <2>2 DEF Dispatched
<1>4. CASE e.kind \notin {"relay", "pair", "latch"}
  <2>1. applyRateLimit(st.applied, raw, e.rateLimit, elapsed) \in Percent
    BY RateLimitPercent DEF SlotState, RelaySlot
  <2>2. DispatchProportional(e, st, raw, elapsed).st \in SlotState
    BY <2>1 DEF DispatchProportional, Outcome, SlotState
  <2>3. ASSUME NEW p \in OutputPins(e)
        PROVE  DispatchProportional(e, st, raw, elapsed).levels[p] \in Percent
    BY <2>1 DEF DispatchProportional, Outcome
  <2> QED
    BY <1>4, <2>2, <2>3 DEF Dispatched
<1> QED
  BY <1>1, <1>2, <1>3, <1>4

\* A report leaves the reported states and the buffer well-typed.
LEMMA RecordType ==
    ASSUME NEW f \in Functions, NEW on \in BOOLEAN, NEW percent \in Percent,
           reported \in [Functions -> States], pending \in Seq(Changes),
           recordControllerState(f, on, percent)
    PROVE  reported' \in [Functions -> States] /\ pending' \in Seq(Changes)
<1>1. /\ State(on, percent) \in States
      /\ [fn |-> f, state |-> State(on, percent)] \in Changes
  BY DEF State, States, Changes
<1> QED
  BY <1>1 DEF recordControllerState

\* Forcing one slot off leaves it well-typed (driveEveryAssignedRelayOff).
LEMMA ForcedOffType ==
    ASSUME NEW st \in SlotState
    PROVE  ForcedOff(st) \in SlotState
<1>1. 0 \in Percent /\ 0 \in Nat
  BY DEF Percent
<1> HIDE DEF Percent
<1> DEFINE next == [st EXCEPT !.applied = 0, !.position = 0]
<1>2. next \in SlotState
  BY <1>1 DEF SlotState
<1>3. [next EXCEPT !.onSince = 0, !.offSince = 0, !.dispatched = 0] \in SlotState
  BY <1>1, <1>2 DEF SlotState
<1>4. ForcedOff(st) = [next EXCEPT !.onSince = 0, !.offSince = 0, !.dispatched = 0]
  BY DEF ForcedOff, SlotState
<1> QED
  BY <1>3, <1>4

\* Forcing the outputs off leaves pins and slots well-typed.
LEMMA DriveOffType ==
    ASSUME deviceConfig \in Configs, pin \in [Pins -> Percent],
           NEW before \in [SlotNumbers -> SlotState],
           DriveEveryAssignedRelayOff(before)
    PROVE  pin' \in [Pins -> Percent] /\ slots' \in [SlotNumbers -> SlotState]
<1>1. pin' \in [Pins -> Percent]
  <2> DEFINE last(p) == CHOOSE i \in DOMAIN deviceConfig.relays : RestsLast(i, p)
             level(p) ==
               IF \E i \in DOMAIN deviceConfig.relays : RestsLast(i, p)
               THEN RestLevel(deviceConfig.relays[last(p)])
               ELSE pin[p]
  <2>1. ASSUME NEW p \in Pins  PROVE level(p) \in Percent
    <3>1. CASE \E i \in DOMAIN deviceConfig.relays : RestsLast(i, p)
      <4>1. last(p) \in DOMAIN deviceConfig.relays
        BY <3>1
      <4> HIDE DEF last
      <4>2. deviceConfig.relays[last(p)] \in Entries(deviceConfig)
        BY <4>1 DEF Entries
      <4> QED
        BY <3>1, <4>2, EntryType
    <3>2. CASE ~\E i \in DOMAIN deviceConfig.relays : RestsLast(i, p)
      BY <3>2
    <3> QED
      BY <3>1, <3>2
  <2>2. pin' = [p \in Pins |-> level(p)]
    BY DEF DriveEveryAssignedRelayOff
  <2> HIDE DEF level
  <2> QED
    BY <2>1, <2>2
<1>2. slots' \in [SlotNumbers -> SlotState]
  <2> QED
    BY ForcedOffType DEF DriveEveryAssignedRelayOff
<1> QED
  BY <1>1, <1>2

\* So does clearing the slots whose function has changed (initController).
LEMMA RemappedType ==
    ASSUME deviceConfig \in Configs, slots \in [SlotNumbers -> SlotState]
    PROVE  Remapped \in [SlotNumbers -> SlotState]
<1>1. ASSUME NEW s \in SlotNumbers
      PROVE  configuredType(deviceConfig, s) \in Functions \cup {"None"}
  <2>1. CASE \E i \in DOMAIN deviceConfig.relays : IsConfigured(deviceConfig, i, s)
    <3> DEFINE i == CHOOSE i \in DOMAIN deviceConfig.relays :
                       IsConfigured(deviceConfig, i, s)
    <3>1. i \in DOMAIN deviceConfig.relays
      BY <2>1
    <3> HIDE DEF i
    <3>2. deviceConfig.relays[i] \in RelaySlot
      BY <3>1, EntryType DEF Entries
    <3> QED
      BY <2>1, <3>2 DEF configuredType, i, RelaySlot
  <2> QED
    BY <2>1 DEF configuredType
<1>2. ASSUME NEW s \in SlotNumbers, NEW type \in Functions \cup {"None"}
      PROVE  [slots[s] EXCEPT !.type = type, !.pumpOnSince = 0,
                              !.pumpOffSince = 0] \in SlotState
  BY DEF SlotState
<1> QED
  BY <1>1, <1>2 DEF Remapped

\* What rules and PID ask of a function is a percentage.
LEMMA DemandType ==
    ASSUME deviceConfig \in Configs, NEW f \in Functions
    PROVE  RuleDemand(f) \in Percent /\ PidDemands(f) \subseteq Percent
<1>1. \A r \in deviceConfig.rules : r.percent \in Percent
  BY EntryType DEF DeviceConfig, Rule
<1>2. {r.percent : r \in {q \in RulesFor(f) : evaluateRule(q, reported[f].on)}}
        \subseteq Percent
  BY <1>1 DEF RulesFor
<1>3. RuleDemand(f) \in Percent
  BY <1>2, FoldPercent DEF RuleDemand
<1>4. PidDemands(f) \subseteq Percent
  BY SizeAssumption DEF PidDemands, Percent
<1> QED
  BY <1>3, <1>4

\* The boot leaves every variable well-typed.
LEMMA InitType == Init => TypeOK
<1> SUFFICES ASSUME Init  PROVE TypeOK
  OBVIOUS
<1>1. NoReading \in SensorData
  BY DEF NoReading, SensorData
<1>2. /\ 0 \in Percent /\ State(FALSE, 0) \in States
      /\ BootEpoch \in Nat /\ BootEpoch > 0
  BY EpochAssumption DEF Percent, State, States
<1>3. pc \in [Tasks -> Labels] /\ fn \in [Tasks -> Nat \ {0}]
  BY DEF Init, Tasks, Labels
<1>4. slots \in [SlotNumbers -> SlotState]
  BY <1>2 DEF Init, SlotState, Directions
<1>5. /\ pin \in [Pins -> Percent]
      /\ reported \in [Functions -> States]
      /\ server \in [Functions -> States]
  BY <1>2 DEF Init
<1>6. /\ staleEvent \in BOOLEAN /\ waiting \in BOOLEAN
      /\ lost \in SUBSET Functions /\ shouldBeOn \in BOOLEAN
  BY Zenon DEF Init
<1>7. /\ pending \in Seq(Changes) /\ inFlight \in Seq(Changes)
      /\ entry \in Nat \ {0} /\ heatingSensorStaleSinceEpoch \in Nat
  BY DEF Init
<1> QED
  BY <1>1, <1>2, <1>3, <1>4, <1>5, <1>6, <1>7 DEF Init, TypeOK

\* Every action leaves the variables well-typed.
LEMMA StepType ==
    ASSUME TypeOK, TickInv, [Next]_vars
    PROVE  TypeOK'
<1> USE DEF Goto, controllerVars, tickVars, loopVars
<1>0. /\ pc \in [Tasks -> Labels] /\ fn \in [Tasks -> Nat \ {0}]
      /\ pin \in [Pins -> Percent] /\ slots \in [SlotNumbers -> SlotState]
      /\ reported \in [Functions -> States] /\ pending \in Seq(Changes)
      /\ deviceConfig \in Configs /\ deviceConfig \in DeviceConfig
      /\ 0 \in Percent /\ 100 \in Percent
  BY EntryType DEF TypeOK, Percent
<1>a. ASSUME NEW task \in Tasks, NEW label \in Labels, Goto(task, label)
      PROVE  pc' \in [Tasks -> Labels]
  BY <1>0, <1>a
<1>b. NoReading \in SensorData
  BY DEF NoReading, SensorData
<1>e. EndOfTick => shouldBeOn' \in BOOLEAN
  BY Zenon DEF EndOfTick
<1>f. BootEpoch \in Nat /\ BootEpoch > 0
  BY EpochAssumption
<1>g. EndOfTick => /\ view' \in SensorData /\ now' \in Nat /\ now' > 0
                   /\ entry' \in Nat \ {0} /\ targetPercent' \in Percent
                   /\ pumpTarget' \in Percent
  BY <1>0, <1>b, <1>f DEF EndOfTick
<1>c. EndOfTick => /\ view' \in SensorData /\ now' \in Nat /\ now' > 0
                   /\ entry' \in Nat \ {0} /\ shouldBeOn' \in BOOLEAN
                   /\ targetPercent' \in Percent /\ pumpTarget' \in Percent
  BY <1>e, <1>g
<1>d. ASSUME NEW t \in Tasks, fn[t] <= Len(FunctionOrder)
      PROVE  FunctionOrder[fn[t]] \in Functions
  BY <1>0, <1>d, SizeAssumption

<1>1. ASSUME RelayCheckEnabled  PROVE TypeOK'
  BY <1>0, <1>1 DEF RelayCheckEnabled, TypeOK, Labels, Critical, Tasks
<1>2. ASSUME RelaySnapshotGet  PROVE TypeOK'
  BY <1>0, <1>2 DEF RelaySnapshotGet, TypeOK, Labels, Critical, Tasks
<1>3. ASSUME InitController  PROVE TypeOK'
  <2>1. CASE deviceConfig.emergencyStop \/ ~deviceConfig.relayEnabled
    <3>1. pin' \in [Pins -> Percent] /\ slots' \in [SlotNumbers -> SlotState]
      BY <1>0, <1>3, <2>1, RemappedType, DriveOffType DEF InitController
    <3> QED
      BY <1>0, <1>c, <1>3, <2>1, <3>1
         DEF InitController, TypeOK, Labels, Critical, Tasks
  <2>2. CASE ~(deviceConfig.emergencyStop \/ ~deviceConfig.relayEnabled)
    BY <1>0, <1>3, <2>2, RemappedType
       DEF InitController, TypeOK, Labels, Critical, Tasks
  <2> QED
    BY <2>1, <2>2
<1>4. ASSUME DecideFunction  PROVE TypeOK'
  <2> DEFINE f == FunctionOrder[fn["relay"]]
  <2>1. f \in Functions
    BY <1>4, <1>d DEF DecideFunction, Tasks
  <2>2. ASSUME NEW demand \in Percent, NEW on \in BOOLEAN
        PROVE  Reconciled(on, demand) \in Percent
    BY <1>0 DEF Reconciled
  <2>3. ASSUME NEW demand  PROVE Decision(f, demand) \in BOOLEAN
    BY DEF Decision
  <2>4. shouldBeOn' \in BOOLEAN /\ targetPercent' \in Percent
    <3>1. CASE \E e \in Entries(deviceConfig) : e.fn = f
      <4>1. PICK demand \in IF PidMetrics(f) # {} THEN PidDemands(f)
                                                 ELSE {RuleDemand(f)} :
               /\ shouldBeOn' = Decision(f, demand)
               /\ targetPercent' = Reconciled(Decision(f, demand), demand)
        BY <1>4, <3>1 DEF DecideFunction
      <4>2. demand \in Percent
        BY <1>0, <2>1, DemandType
      <4> QED
        BY <4>1, <4>2, <2>2, <2>3
    <3>2. CASE ~\E e \in Entries(deviceConfig) : e.fn = f
      BY <1>4, <3>2 DEF DecideFunction, TypeOK
    <3> QED
      BY <3>1, <3>2
  <2>5. /\ heatingSensorStaleSinceEpoch' \in Nat /\ staleEvent' \in BOOLEAN
    <3>1. \/ \E isPid \in BOOLEAN : RuleSideEffects(f, isPid)
          \/ UNCHANGED <<heatingSensorStaleSinceEpoch, staleEvent>>
      <4>1. (PidMetrics(f) = {}) \in BOOLEAN
        OBVIOUS
      <4> QED
        BY <1>4, <4>1, Zenon DEF DecideFunction
    <3>2. staleSince \in Nat /\ heatingSensorStaleSinceEpoch \in Nat
      BY DEF staleSince, TypeOK
    <3>3. staleEvent \in BOOLEAN
      BY DEF TypeOK
    <3>4. heatingSensorStaleSinceEpoch' \in Nat
      BY <3>1, <3>2 DEF RuleSideEffects
    <3>5. staleEvent' = staleEvent \/ staleEvent' = TRUE
      BY <3>1, Zenon DEF RuleSideEffects
    <3> QED
      BY <3>3, <3>4, <3>5
  <2>6. pc' \in [Tasks -> Labels] /\ fn' \in [Tasks -> Nat \ {0}]
    BY <1>0, <1>4 DEF DecideFunction, Labels, Critical, Tasks
  <2> QED
    BY <1>4, <2>4, <2>5, <2>6 DEF DecideFunction, TypeOK
<1>5. ASSUME DispatchSlot  PROVE TypeOK'
  <2> DEFINE e == deviceConfig.relays[entry]
             st == slots[e.slot]
             d == Dispatched(e, st, targetPercent, st.dispatched = 0, Elapsed(st))
  <2>a. entry <= Len(deviceConfig.relays) /\ entry' = entry + 1
    BY <1>5, Zenon DEF DispatchSlot
  <2>b. entry \in Nat \ {0}
    BY DEF TypeOK
  <2>0. entry \in DOMAIN deviceConfig.relays
    <3>1. deviceConfig.relays \in Seq(RelaySlot)
      BY <1>0 DEF DeviceConfig
    <3> QED
      BY <3>1, <2>a, <2>b
  <2>1. e \in RelaySlot
    BY <1>0, <2>0, EntryType DEF Entries
  <2>2. e.slot \in SlotNumbers /\ st \in SlotState
    BY <1>0, <2>1 DEF RelaySlot
  <2>3. now \in Nat /\ targetPercent \in Percent /\ Elapsed(st) \in Int
    <3>1. now \in Nat /\ targetPercent \in Percent
      BY DEF TypeOK
    <3>2. st.dispatched \in Nat
      BY <2>2 DEF SlotState
    <3> HIDE DEF st
    <3> QED
      BY <3>1, <3>2 DEF Elapsed
  <2>4. /\ d.st \in SlotState
        /\ \A p \in OutputPins(e) : d.levels[p] \in Percent
    BY <1>0, <2>1, <2>2, <2>3, DispatchedType
  <2> HIDE DEF d
  <2>5. [Stamped(st, d.st) EXCEPT !.dispatched = now] \in SlotState
    BY <2>2, <2>3, <2>4 DEF Stamped, SlotState
  <2>6. [st EXCEPT !.dispatched = now] \in SlotState
    BY <2>2, <2>3 DEF SlotState
  <2>7. slots' \in [SlotNumbers -> SlotState]
    BY <1>0, <1>5, <2>2, <2>5, <2>6 DEF DispatchSlot, d
  <2>8. pin' \in [Pins -> Percent]
    <3>1. \/ pin' = pin
          \/ pin' = [p \in Pins |-> IF p \in OutputPins(e) THEN d.levels[p]
                                    ELSE pin[p]]
      BY <1>5 DEF DispatchSlot, d
    <3> HIDE DEF e
    <3> QED
      BY <1>0, <2>4, <3>1
  <2>9. entry' \in Nat \ {0}
    BY <2>a, <2>b
  <2>10. UNCHANGED <<deviceConfig, epoch, snapshot, reported, pending,
                     heatingSensorStaleSinceEpoch, safetyEvent, staleEvent,
                     pc, fn, view, now, shouldBeOn, targetPercent, pumpTarget,
                     waiting, reading, inFlight, server, lost>>
    BY <1>5, Zenon DEF DispatchSlot
  <2> QED
    BY <2>7, <2>8, <2>9, <2>10 DEF TypeOK
<1>6. ASSUME RecordFunction  PROVE TypeOK'
  <2> DEFINE f == FunctionOrder[fn["relay"]]
  <2>1. shouldBeOn \in BOOLEAN /\ targetPercent \in Percent
    BY DEF TypeOK
  <2>2. pc["relay"] = "dispatch"
    BY <1>6 DEF RecordFunction
  <2>3. fn' \in [Tasks -> Nat \ {0}] /\ pc' \in [Tasks -> Labels]
    BY <1>0, <1>6 DEF RecordFunction, Labels, Critical, Tasks
  <2>4. /\ reported' \in [Functions -> States] /\ pending' \in Seq(Changes)
        /\ pumpTarget' \in Percent
    <3>1. CASE f = "WaterPump"
      BY <1>0, <2>1, <3>1, <1>6 DEF RecordFunction
    <3>2. CASE f # "WaterPump"
      <4>1. recordControllerState(f, shouldBeOn, targetPercent)
            /\ UNCHANGED pumpTarget
        BY <3>2, <1>6 DEF RecordFunction
      <4>2. f \in Functions /\ pumpTarget \in Percent
        BY <1>d, <1>6 DEF RecordFunction, TickInv, Tasks, TypeOK
      <4> QED
        BY <1>0, <2>1, <4>1, <4>2, RecordType
    <3> QED
      BY <3>1, <3>2
  <2>5. entry' = 1 /\ shouldBeOn' = FALSE /\ targetPercent' = 0
    BY <1>6, Zenon DEF RecordFunction
  <2>6. shouldBeOn' \in BOOLEAN
    BY <2>5, Zenon
  <2>7. UNCHANGED <<deviceConfig, epoch, snapshot, pin, slots,
                    heatingSensorStaleSinceEpoch, safetyEvent, staleEvent,
                    view, now, waiting, reading, inFlight, server, lost>>
    BY <1>6, Zenon DEF RecordFunction
  <2>8. entry' \in Nat \ {0} /\ targetPercent' \in Percent
    BY <1>0, <2>5
  <2> QED
    BY <2>3, <2>4, <2>6, <2>7, <2>8 DEF TypeOK
<1>7. ASSUME BeginSafetyPass  PROVE TypeOK'
  BY <1>0, <1>7 DEF BeginSafetyPass, TypeOK, Labels, Critical, Tasks
<1>8. ASSUME PumpWrite  PROVE TypeOK'
  <2>1. pin' \in [Pins -> Percent]
    BY <1>0, <1>8 DEF PumpWrite
  <2> QED
    BY <1>0, <1>8, <2>1 DEF PumpWrite, TypeOK, Labels, Critical, Tasks
<1>9. ASSUME ApplyWaterPumpSafetyLimits  PROVE TypeOK'
  <2> DEFINE st == slots[entry]
             v == PumpVerdict(st, pin[<<"relay", entry>>] > 0)
  <2>1. entry \in SlotNumbers
    BY <1>9, SizeAssumption
       DEF ApplyWaterPumpSafetyLimits, TickInv, TypeOK, SlotNumbers
  <2>2. st \in SlotState /\ now \in Nat
    BY <1>0, <2>1 DEF TypeOK
  <2>3. v.onSince \in Nat /\ v.reason \in {"none", "ceiling", "cooldown", "lowTank"}
    BY <2>2 DEF PumpVerdict, SlotState
  <2> HIDE DEF v
  <2>4. slots' \in [SlotNumbers -> SlotState]
    BY <1>0, <1>9, <2>2, <2>3 DEF ApplyWaterPumpSafetyLimits, SlotState, v
  <2>5. pin' \in [Pins -> Percent]
    BY <1>0, <1>9 DEF ApplyWaterPumpSafetyLimits
  <2>6. safetyEvent' \in {"none", "ceiling", "cooldown", "lowTank"}
    BY <1>9, <2>3 DEF ApplyWaterPumpSafetyLimits, TypeOK, v
  <2> QED
    BY <1>0, <1>9, <2>4, <2>5, <2>6
       DEF ApplyWaterPumpSafetyLimits, TypeOK, Labels, Critical, Tasks
<1>10. ASSUME FinishTick  PROVE TypeOK'
  <2>1. reported' \in [Functions -> States] /\ pending' \in Seq(Changes)
    <3>1. CASE "WaterPump" \in Functions
      <4>1. recordControllerState("WaterPump", isRelayOn("WaterPump"), 0)
            /\ isRelayOn("WaterPump") \in BOOLEAN
        BY <1>10, <3>1 DEF FinishTick, isRelayOn
      <4> QED
        BY <1>0, <3>1, <4>1, RecordType
    <3>2. CASE "WaterPump" \notin Functions
      BY <1>0, <1>10, <3>2 DEF FinishTick
    <3> QED
      BY <3>1, <3>2
  <2> QED
    BY <1>0, <1>c, <1>10, <2>1 DEF FinishTick, TypeOK, Labels, Critical, Tasks
<1>11. ASSUME RelayDelay  PROVE TypeOK'
  BY <1>0, <1>11 DEF RelayDelay, TypeOK, Labels, Critical, Tasks
<1>12. ASSUME NEW t \in Tasks, ForceAllRelaysOff(t)  PROVE TypeOK'
  <2>1. pin' \in [Pins -> Percent] /\ slots' \in [SlotNumbers -> SlotState]
    BY <1>0, <1>12, DriveOffType DEF ForceAllRelaysOff
  <2> QED
    BY <1>0, <1>12, <2>1 DEF ForceAllRelaysOff, TypeOK, Labels, Critical
<1>13. ASSUME NEW t \in Tasks, RecordOff(t)  PROVE TypeOK'
  <2>1. reported' \in [Functions -> States] /\ pending' \in Seq(Changes)
    BY <1>0, <1>d, <1>13, RecordType DEF RecordOff
  <2> QED
    BY <1>0, <1>13, <2>1 DEF RecordOff, TypeOK
<1>14. ASSUME NEW t \in Tasks, FinishForcedOff(t)  PROVE TypeOK'
  BY <1>0, <1>14 DEF FinishForcedOff, TypeOK, Labels, Critical, Tasks
<1>15. ASSUME ApiConfigCommit  PROVE TypeOK'
  BY <1>0, <1>15 DEF ApiConfigCommit, TypeOK, Labels, Critical, Tasks
<1>16. ASSUME NEW wait \in BOOLEAN, ApiConfigUnchanged(wait)  PROVE TypeOK'
  BY <1>0, <1>16 DEF ApiConfigUnchanged, TypeOK, Labels, Critical, Tasks
<1>17. ASSUME LoopBody  PROVE TypeOK'
  BY <1>0, <1>17, ReadingAssumption DEF LoopBody, TypeOK, Labels, Critical, Tasks
<1>18. ASSUME ConsumeSafetyLimitEvent  PROVE TypeOK'
  BY <1>0, <1>18 DEF ConsumeSafetyLimitEvent, TypeOK, Labels, Critical, Tasks
<1>19. ASSUME ConsumeSensorStaleEvent  PROVE TypeOK'
  BY <1>0, <1>19 DEF ConsumeSensorStaleEvent, TypeOK, Labels, Critical, Tasks
<1>20. ASSUME ConsumeControllerDataChanges  PROVE TypeOK'
  BY <1>0, <1>20 DEF ConsumeControllerDataChanges, TypeOK, Labels, Critical, Tasks
<1>21. ASSUME PushControllerData  PROVE TypeOK'
  <2>0. \/ Goto("loop", "deliver") /\ inFlight' = inFlight
        \/ Goto("loop", "publish") /\ inFlight' = <<>>
    BY <1>21, Zenon DEF PushControllerData
  <2>1. pc' \in [Tasks -> Labels] /\ inFlight' \in Seq(Changes)
    <3>1. CASE Goto("loop", "deliver") /\ inFlight' = inFlight
      BY <1>0, <3>1 DEF TypeOK, Labels, Critical, Tasks
    <3>2. CASE Goto("loop", "publish") /\ inFlight' = <<>>
      BY <1>0, <3>2 DEF Labels, Critical, Tasks
    <3> QED
      BY <2>0, <3>1, <3>2
  <2>2. lost' \in SUBSET Functions
    <3>1. \/ lost' = lost
          \/ lost' = lost \cup {inFlight[i].fn : i \in DOMAIN inFlight}
      BY <1>21, Zenon DEF PushControllerData
    <3>2. inFlight \in Seq(Changes) /\ lost \in SUBSET Functions
      BY Zenon DEF TypeOK
    <3>3. \A i \in DOMAIN inFlight : inFlight[i] \in Changes
      BY <3>2
    <3>4. \A i \in DOMAIN inFlight : inFlight[i].fn \in Functions
      BY <3>3 DEF Changes
    <3> HIDE DEF Functions
    <3> QED
      BY <3>1, <3>2, <3>4
  <2>3. UNCHANGED <<deviceConfig, epoch, snapshot, pin, slots, reported,
                    pending, heatingSensorStaleSinceEpoch, safetyEvent,
                    staleEvent, fn, view, now, shouldBeOn, targetPercent,
                    pumpTarget, entry, waiting, reading, server>>
    BY <1>21, Zenon DEF PushControllerData
  <2> QED
    BY <2>1, <2>2, <2>3 DEF TypeOK
<1>22. ASSUME ServerAppliesChange  PROVE TypeOK'
  <2>1. CASE inFlight = <<>>
    BY <1>0, <1>22, <2>1 DEF ServerAppliesChange, TypeOK, Labels, Critical, Tasks
  <2>2. CASE inFlight # <<>>
    <3>1. /\ Head(inFlight) \in Changes /\ Tail(inFlight) \in Seq(Changes)
      BY <2>2 DEF TypeOK
    <3> QED
      BY <1>0, <1>22, <2>2, <3>1 DEF ServerAppliesChange, TypeOK, Changes
  <2> QED
    BY <2>1, <2>2
<1>23. ASSUME PublishSnapshot  PROVE TypeOK'
  BY <1>0, <1>23, <1>b DEF PublishSnapshot, TypeOK, Labels, Critical, Tasks
<1>24. ASSUME LoopDelay  PROVE TypeOK'
  BY <1>0, <1>24 DEF LoopDelay, TypeOK, Labels, Critical, Tasks
<1>25. ASSUME SetClock  PROVE TypeOK'
  BY <1>0, <1>25, ClockAssumption, EpochAssumption DEF SetClock, TypeOK, Labels, Critical, Tasks
<1>26. ASSUME UNCHANGED vars  PROVE TypeOK'
  BY <1>26 DEF vars, TypeOK
<1> QED
  BY <1>1, <1>2, <1>3, <1>4, <1>5, <1>6, <1>7, <1>8, <1>9, <1>10, <1>11, <1>12, <1>13, <1>14, <1>15, <1>16, <1>17, <1>18, <1>19, <1>20, <1>21, <1>22, <1>23, <1>24, <1>25, <1>26
     DEF Next, RelayTask, LoopTask, Tasks

\* The tick's own assumptions are kept by every step.
LEMMA StepTick ==
    ASSUME TypeOK, TickInv, [Next]_vars
    PROVE  TickInv'
<1> USE DEF Goto, controllerVars, tickVars, loopVars, Tasks, InTick
<1>0. /\ pc \in [Tasks -> Labels] /\ fn \in [Tasks -> Nat \ {0}]
      /\ entry \in Nat \ {0}
  BY DEF TypeOK
<1>1. ASSUME InitController  PROVE TickInv'
  BY <1>0, <1>1 DEF InitController, TickInv
<1>2. ASSUME DecideFunction  PROVE TickInv'
  BY <1>0, <1>2 DEF DecideFunction, TickInv
<1>3. ASSUME PumpWrite  PROVE TickInv'
  BY <1>0, <1>3 DEF PumpWrite, TickInv
<1>4. ASSUME ApiConfigCommit  PROVE TickInv'
  BY <1>0, <1>4 DEF ApiConfigCommit, LockFree, Critical, TickInv
<1>5. ASSUME PushControllerData  PROVE TickInv'
  BY <1>0, <1>5 DEF PushControllerData, TickInv
<1>6. ASSUME ServerAppliesChange  PROVE TickInv'
  BY <1>0, <1>6 DEF ServerAppliesChange, TickInv
<1>7. ASSUME RelayCheckEnabled  PROVE TickInv'
  BY <1>0, <1>7 DEF RelayCheckEnabled, TickInv
<1>8. ASSUME RelaySnapshotGet  PROVE TickInv'
  BY <1>0, <1>8 DEF RelaySnapshotGet, TickInv
<1>9. ASSUME DispatchSlot  PROVE TickInv'
  BY <1>0, <1>9 DEF DispatchSlot, TickInv
<1>10. ASSUME RecordFunction  PROVE TickInv'
  BY <1>0, <1>10 DEF RecordFunction, TickInv
<1>11. ASSUME BeginSafetyPass  PROVE TickInv'
  BY <1>0, <1>11 DEF BeginSafetyPass, TickInv
<1>12. ASSUME ApplyWaterPumpSafetyLimits  PROVE TickInv'
  BY <1>0, <1>12 DEF ApplyWaterPumpSafetyLimits, TickInv
<1>13. ASSUME FinishTick  PROVE TickInv'
  BY <1>0, <1>13 DEF FinishTick, TickInv
<1>14. ASSUME RelayDelay  PROVE TickInv'
  BY <1>0, <1>14 DEF RelayDelay, TickInv
<1>15. ASSUME NEW t \in Tasks, ForceAllRelaysOff(t)  PROVE TickInv'
  BY <1>0, <1>15 DEF ForceAllRelaysOff, TickInv
<1>16. ASSUME NEW t \in Tasks, RecordOff(t)  PROVE TickInv'
  BY <1>0, <1>16 DEF RecordOff, TickInv
<1>17. ASSUME NEW t \in Tasks, FinishForcedOff(t)  PROVE TickInv'
  BY <1>0, <1>17 DEF FinishForcedOff, TickInv
<1>18. ASSUME NEW wait \in BOOLEAN, ApiConfigUnchanged(wait)  PROVE TickInv'
  BY <1>0, <1>18 DEF ApiConfigUnchanged, TickInv
<1>19. ASSUME LoopBody  PROVE TickInv'
  BY <1>0, <1>19 DEF LoopBody, TickInv
<1>20. ASSUME ConsumeSafetyLimitEvent  PROVE TickInv'
  BY <1>0, <1>20 DEF ConsumeSafetyLimitEvent, TickInv
<1>21. ASSUME ConsumeSensorStaleEvent  PROVE TickInv'
  BY <1>0, <1>21 DEF ConsumeSensorStaleEvent, TickInv
<1>22. ASSUME ConsumeControllerDataChanges  PROVE TickInv'
  BY <1>0, <1>22 DEF ConsumeControllerDataChanges, TickInv
<1>23. ASSUME PublishSnapshot  PROVE TickInv'
  BY <1>0, <1>23 DEF PublishSnapshot, TickInv
<1>24. ASSUME LoopDelay  PROVE TickInv'
  BY <1>0, <1>24 DEF LoopDelay, TickInv
<1>25. ASSUME SetClock  PROVE TickInv'
  BY <1>0, <1>25 DEF SetClock, TickInv
<1>26. ASSUME UNCHANGED vars  PROVE TickInv'
  BY <1>26 DEF vars, TickInv
<1> QED
  BY <1>1, <1>2, <1>3, <1>4, <1>5, <1>6, <1>7, <1>8, <1>9, <1>10, <1>11, <1>12, <1>13, <1>14, <1>15, <1>16, <1>17, <1>18, <1>19, <1>20, <1>21, <1>22, <1>23, <1>24, <1>25, <1>26
     DEF Next, RelayTask, LoopTask

\* The type invariant holds in every state, so no dispatch ever leaves
\* 0..100 (initController, dispatchSlot).
THEOREM TypeCorrect == Spec => [](TypeOK /\ TickInv)
<1>1. Init => TypeOK
  BY InitType
<1>2. Init => TickInv
  BY DEF Init, TickInv, InTick, Tasks
<1>3. TypeOK /\ TickInv /\ [Next]_vars => TypeOK' /\ TickInv'
  BY StepType, StepTick
<1> QED
  BY <1>1, <1>2, <1>3, PTL DEF Spec

\* In every reachable state each variable has the shape the code declares for
\* it: whatever the configuration asks for, no output, tracked position or
\* reported percentage leaves 0..100 (dispatchSlot, recordControllerState).
THEOREM TypeSafe == Spec => []TypeOK
BY TypeCorrect, PTL

-----------------------------------------------------------------------------
(* An emergency stop *)

Stopped == deviceConfig.emergencyStop \/ ~deviceConfig.relayEnabled

\* Forcing the outputs off energises none of them but servos.
LEMMA DriveOffLowers ==
    ASSUME deviceConfig \in Configs, pin \in [Pins -> Percent],
           NEW before, DriveEveryAssignedRelayOff(before),
           NEW p \in Pins, p[1] # "servo"
    PROVE  pin'[p] <= pin[p]
<1> DEFINE last == CHOOSE i \in DOMAIN deviceConfig.relays : RestsLast(i, p)
           e == deviceConfig.relays[last]
<1>1. pin[p] \in Percent
  OBVIOUS
<1>2. CASE \E i \in DOMAIN deviceConfig.relays : RestsLast(i, p)
  <2>0. last \in DOMAIN deviceConfig.relays /\ RestsLast(last, p)
    BY <1>2
  <2> HIDE DEF last
  <2>1. e \in Entries(deviceConfig) /\ p \in RestPins(e)
    BY <2>0 DEF Entries, RestsLast
  <2>a. pin'[p] = RestLevel(e)
    BY <1>2 DEF DriveEveryAssignedRelayOff, last
  <2> HIDE DEF e
  <2>2. e \in RelaySlot /\ p \in OutputPins(e)
    BY <2>1, EntryType
  <2>3. e.kind # "servo"
    BY <2>2 DEF OutputPins
  <2>4. pin'[p] = 0
    BY <2>a, <2>3 DEF RestLevel
  <2> QED
    BY <1>1, <2>4 DEF Percent
<1>3. CASE ~\E i \in DOMAIN deviceConfig.relays : RestsLast(i, p)
  BY <1>1, <1>3 DEF DriveEveryAssignedRelayOff, Percent
<1> QED
  BY <1>2, <1>3

\* The steps that write pins otherwise are those of a tick that decides, and
\* such a tick did not begin under a stop and shuts new configurations out.
LEMMA StepStop ==
    ASSUME TypeOK, TickInv, [Next]_vars, Stopped,
           NEW p \in Pins, p[1] # "servo"
    PROVE  pin'[p] <= pin[p]
<1>a. pin \in [Pins -> Percent] /\ deviceConfig \in Configs
  BY DEF TypeOK
<1>b. pin[p] <= pin[p]
  BY <1>a DEF Percent
<1>0. /\ pin \in [Pins -> Percent] /\ deviceConfig \in Configs
      /\ pin[p] <= pin[p]
  BY <1>a, <1>b
<1>1. pc["relay"] \notin InTick
  BY DEF TickInv, Stopped
<1>2. ~DispatchSlot /\ ~PumpWrite /\ ~ApplyWaterPumpSafetyLimits
  BY <1>1 DEF InTick, DispatchSlot, PumpWrite, ApplyWaterPumpSafetyLimits
<1>3. CASE InitController
  BY <1>0, <1>3, DriveOffLowers DEF InitController, Stopped
<1>4. ASSUME NEW t \in Tasks, ForceAllRelaysOff(t)  PROVE pin'[p] <= pin[p]
  BY <1>0, <1>4, DriveOffLowers DEF ForceAllRelaysOff
<1>5. CASE \/ RelayCheckEnabled \/ RelaySnapshotGet \/ DecideFunction
           \/ RecordFunction \/ BeginSafetyPass \/ FinishTick \/ RelayDelay
           \/ \E t \in Tasks : RecordOff(t) \/ FinishForcedOff(t)
  <2>1. UNCHANGED pin
    BY <1>5, Zenon
       DEF RelayCheckEnabled, RelaySnapshotGet, DecideFunction, RecordFunction,
           BeginSafetyPass, FinishTick, RelayDelay, RecordOff, FinishForcedOff
  <2> QED
    BY <1>0, <2>1
<1>6. CASE \/ ApiConfigCommit \/ \E wait \in BOOLEAN : ApiConfigUnchanged(wait)
           \/ LoopBody \/ ConsumeSafetyLimitEvent \/ ConsumeSensorStaleEvent
           \/ ConsumeControllerDataChanges \/ PushControllerData
           \/ ServerAppliesChange \/ PublishSnapshot \/ LoopDelay \/ SetClock
           \/ UNCHANGED vars
  <2>1. UNCHANGED pin
    BY <1>6, Zenon
       DEF ApiConfigCommit, ApiConfigUnchanged, LoopBody,
           ConsumeSafetyLimitEvent, ConsumeSensorStaleEvent,
           ConsumeControllerDataChanges, PushControllerData,
           ServerAppliesChange, PublishSnapshot, LoopDelay, SetClock, vars
  <2> QED
    BY <1>0, <2>1
<1> QED
  BY <1>2, <1>3, <1>4, <1>5, <1>6 DEF Next, RelayTask, LoopTask, Tasks

\* After an emergency stop, or the loss of relayEnabled, is committed, no
\* step of either task energises an output (initController, apiConfig).
THEOREM StopSafe == Spec => StopNeverEnergises
<1>1. TypeOK /\ TickInv /\ [Next]_vars =>
        [(deviceConfig.emergencyStop \/ ~deviceConfig.relayEnabled) =>
            \A p \in Pins : p[1] # "servo" => pin'[p] <= pin[p]]_vars
  BY StepStop DEF Stopped
<1> QED
  BY <1>1, TypeCorrect, PTL DEF Spec, StopNeverEnergises

-----------------------------------------------------------------------------
(* What the server believes *)

\* A function named by an appended change is last named by that change, and
\* the queue says of every other function what it said before.
LEMMA AppendSays ==
    ASSUME NEW q \in Seq(Changes), NEW c \in Changes, NEW f \in Functions,
           NEW s
    PROVE  /\ LastSays(Append(q, c), c.fn, c.state)
           /\ f # c.fn /\ Silent(q, f) => Silent(Append(q, c), f)
           /\ f # c.fn /\ LastSays(q, f, s) => LastSays(Append(q, c), f, s)
<1>1. /\ Len(Append(q, c)) = Len(q) + 1 /\ Len(q) \in Nat
      /\ Append(q, c)[Len(q) + 1] = c
      /\ \A i \in 1..Len(q) : Append(q, c)[i] = q[i]
      /\ DOMAIN Append(q, c) = 1..(Len(q) + 1) /\ DOMAIN q = 1..Len(q)
  OBVIOUS
<1>2. c = [fn |-> c.fn, state |-> c.state]
  BY DEF Changes
<1>3. LastSays(Append(q, c), c.fn, c.state)
  BY <1>1, <1>2 DEF LastSays
<1>4. ASSUME f # c.fn, Silent(q, f)  PROVE Silent(Append(q, c), f)
  BY <1>1, <1>4 DEF Silent
<1>5. ASSUME f # c.fn, LastSays(q, f, s)  PROVE LastSays(Append(q, c), f, s)
  <2>1. PICK i \in DOMAIN q : /\ q[i] = [fn |-> f, state |-> s]
                              /\ \A j \in DOMAIN q : j > i => q[j].fn # f
    BY <1>5 DEF LastSays
  <2>2. i \in DOMAIN Append(q, c) /\ Append(q, c)[i] = [fn |-> f, state |-> s]
    BY <1>1, <2>1
  <2>3. \A j \in DOMAIN Append(q, c) : j > i => Append(q, c)[j].fn # f
    BY <1>1, <1>5, <2>1
  <2> QED
    BY <2>2, <2>3 DEF LastSays
<1> QED
  BY <1>3, <1>4, <1>5

\* Applying the head of a queue to what the server knows leaves what the
\* server will know after the whole queue the same.
LEMMA ApplyHead ==
    ASSUME NEW q \in Seq(Changes), q # <<>>, NEW f \in Functions, NEW s
    PROVE  /\ Silent(q, f) => Head(q).fn # f /\ Silent(Tail(q), f)
           /\ LastSays(q, f, s) =>
                 \/ LastSays(Tail(q), f, s)
                 \/ /\ Silent(Tail(q), f)
                    /\ Head(q) = [fn |-> f, state |-> s]
<1>1. /\ Len(q) \in Nat /\ Len(q) > 0 /\ DOMAIN q = 1..Len(q)
      /\ Len(Tail(q)) = Len(q) - 1 /\ DOMAIN Tail(q) = 1..(Len(q) - 1)
      /\ Head(q) = q[1]
      /\ \A i \in 1..(Len(q) - 1) : Tail(q)[i] = q[i + 1]
  OBVIOUS
<1>2. ASSUME Silent(q, f)  PROVE Head(q).fn # f /\ Silent(Tail(q), f)
  BY <1>1, <1>2 DEF Silent
<1>3. ASSUME LastSays(q, f, s)
      PROVE  \/ LastSays(Tail(q), f, s)
             \/ Silent(Tail(q), f) /\ Head(q) = [fn |-> f, state |-> s]
  <2>1. PICK i \in DOMAIN q : /\ q[i] = [fn |-> f, state |-> s]
                              /\ \A j \in DOMAIN q : j > i => q[j].fn # f
    BY <1>3 DEF LastSays
  <2>2. CASE i = 1
    BY <1>1, <2>1, <2>2 DEF Silent
  <2>3. CASE i # 1
    <3>1. i - 1 \in DOMAIN Tail(q) /\ Tail(q)[i - 1] = [fn |-> f, state |-> s]
      BY <1>1, <2>1, <2>3
    <3>2. \A j \in DOMAIN Tail(q) : j > i - 1 => Tail(q)[j].fn # f
      BY <1>1, <2>1, <2>3
    <3> QED
      BY <3>1, <3>2 DEF LastSays
  <2> QED
    BY <2>2, <2>3
<1> QED
  BY <1>2, <1>3

\* A report keeps the two sides together: it changes both or neither.
LEMMA RecordConsistent ==
    ASSUME TypeOK, ServerViewConsistent, NEW f \in Functions,
           NEW on \in BOOLEAN, NEW percent \in Percent,
           recordControllerState(f, on, percent),
           UNCHANGED <<inFlight, server, lost>>
    PROVE  ServerViewConsistent'
<1> DEFINE c == [fn |-> f, state |-> State(on, percent)]
<1>0. /\ pending \in Seq(Changes) /\ reported \in [Functions -> States]
  BY DEF TypeOK
<1>1. CASE UNCHANGED <<reported, pending>>
  BY <1>1 DEF ServerViewConsistent, LastSays, Silent
<1>2. CASE /\ reported' = [reported EXCEPT ![f] = State(on, percent)]
           /\ pending' = Append(pending, c)
  <2>1. c \in Changes /\ c.fn = f /\ c.state = State(on, percent)
    BY DEF State, States, Changes
  <2> HIDE DEF c
  <2> SUFFICES ASSUME NEW g \in Functions
               PROVE  \/ LastSays(pending', g, reported'[g])
                      \/ Silent(pending', g) /\ LastSays(inFlight, g, reported'[g])
                      \/ /\ Silent(pending', g) /\ Silent(inFlight, g)
                         /\ g \in lost \/ server[g] = reported'[g]
    BY DEF ServerViewConsistent, LastSays, Silent
  <2>2. CASE g = f
    BY <1>0, <1>2, <2>1, <2>2, AppendSays
  <2>3. CASE g # f
    <3>1. reported'[g] = reported[g]
      BY <1>0, <1>2, <2>3
    <3>2. /\ Silent(pending, g) => Silent(pending', g)
          /\ LastSays(pending, g, reported[g]) =>
               LastSays(pending', g, reported[g])
      BY <1>0, <1>2, <2>1, <2>3, AppendSays
    <3> QED
      BY <3>1, <3>2, Zenon DEF ServerViewConsistent
  <2> QED
    BY <2>2, <2>3
<1> QED
  BY <1>1, <1>2 DEF recordControllerState

\* What the drain of the changes does: buffered changes become changes in
\* flight, and changes in flight become the server's, first one first.
LEMMA DrainConsistent ==
    ASSUME TypeOK, TickInv, ServerViewConsistent,
           \/ ConsumeControllerDataChanges
           \/ PushControllerData
           \/ ServerAppliesChange
    PROVE  ServerViewConsistent'
<1> USE DEF Goto, controllerVars, tickVars, loopVars
<1>0. /\ inFlight \in Seq(Changes) /\ pending \in Seq(Changes)
      /\ server \in [Functions -> States]
  BY DEF TypeOK
<1>1. CASE ConsumeControllerDataChanges
  <2>1. /\ inFlight = <<>> /\ inFlight' = pending /\ pending' = <<>>
        /\ reported' = reported /\ server' = server /\ lost' = lost
    BY <1>1 DEF ConsumeControllerDataChanges, TickInv
  <2>2. \A f \in Functions : Silent(pending', f)
    BY <2>1 DEF Silent
  <2>3. \A f, s : ~LastSays(inFlight, f, s)
    BY <2>1 DEF LastSays
  <2>4. \A f, s : /\ LastSays(inFlight', f, s) <=> LastSays(pending, f, s)
                  /\ Silent(inFlight', f) <=> Silent(pending, f)
    BY <2>1
  <2> SUFFICES ASSUME NEW f \in Functions
               PROVE  \/ LastSays(inFlight', f, reported[f])
                      \/ /\ Silent(inFlight', f)
                         /\ f \in lost \/ server[f] = reported[f]
    BY <2>1, <2>2 DEF ServerViewConsistent
  <2> QED
    BY <2>3, <2>4, Zenon DEF ServerViewConsistent
<1>2. CASE PushControllerData
  <2>1. CASE lost' = lost /\ inFlight' = inFlight
    BY <1>2, <2>1 DEF PushControllerData, ServerViewConsistent
  <2>2. CASE /\ lost' = lost \cup {inFlight[i].fn : i \in DOMAIN inFlight}
             /\ inFlight' = <<>>
    <3>1. UNCHANGED <<pending, reported, server>>
      BY <1>2, Zenon DEF PushControllerData
    <3>2. \A f : Silent(inFlight', f) /\ (f \in lost' \/ Silent(inFlight, f))
      BY <2>2 DEF Silent
    <3>3. \A f, s : Silent(inFlight, f) => ~LastSays(inFlight, f, s)
      BY DEF Silent, LastSays
    <3>4. SUFFICES ASSUME NEW f \in Functions
                   PROVE  \/ LastSays(pending, f, reported[f])
                          \/ /\ Silent(pending, f)
                             /\ f \in lost' \/ server[f] = reported[f]
      BY <3>1, <3>2 DEF ServerViewConsistent
    <3>5. f \in lost => f \in lost'
      BY <2>2
    <3> QED
      BY <3>2, <3>3, <3>5, Zenon DEF ServerViewConsistent
  <2> QED
    BY <1>2, <2>1, <2>2, Zenon DEF PushControllerData
<1>3. CASE ServerAppliesChange
  <2>0. UNCHANGED <<pending, reported>>
    BY <1>3, Zenon DEF ServerAppliesChange
  <2>1. CASE inFlight = <<>>
    BY <1>3, <2>1 DEF ServerAppliesChange, ServerViewConsistent
  <2>2. CASE inFlight # <<>>
    <3> DEFINE h == Head(inFlight)
    <3>1. /\ server' = [server EXCEPT ![h.fn] = h.state]
          /\ inFlight' = Tail(inFlight)
          /\ lost' = lost \ {h.fn}
      BY <1>3, <2>2 DEF ServerAppliesChange
    <3>2. h \in Changes
      BY <1>0, <2>2
    <3> SUFFICES ASSUME NEW f \in Functions
                 PROVE  \/ LastSays(pending, f, reported[f])
                        \/ /\ Silent(pending, f)
                           /\ LastSays(inFlight', f, reported[f])
                        \/ /\ Silent(pending, f) /\ Silent(inFlight', f)
                           /\ f \in lost' \/ server'[f] = reported[f]
      BY <2>0 DEF ServerViewConsistent
    <3>3. CASE LastSays(pending, f, reported[f])
      BY <3>3
    <3>4. CASE Silent(pending, f) /\ LastSays(inFlight, f, reported[f])
      <4>1. \/ LastSays(inFlight', f, reported[f])
            \/ /\ Silent(inFlight', f)
               /\ h = [fn |-> f, state |-> reported[f]]
        BY <1>0, <2>2, <3>1, <3>4, ApplyHead
      <4>2. h = [fn |-> f, state |-> reported[f]] => server'[f] = reported[f]
        BY <1>0, <3>1
      <4> QED
        BY <3>4, <4>1, <4>2
    <3>5. CASE /\ Silent(pending, f) /\ Silent(inFlight, f)
               /\ f \in lost \/ server[f] = reported[f]
      <4>1. h.fn # f /\ Silent(inFlight', f)
        BY <1>0, <2>2, <3>1, <3>5, ApplyHead
      <4>2. server'[f] = server[f] /\ (f \in lost => f \in lost')
        BY <1>0, <3>1, <4>1
      <4> QED
        BY <3>5, <4>1, <4>2
    <3> QED
      BY <3>3, <3>4, <3>5, Zenon DEF ServerViewConsistent
  <2> QED
    BY <2>1, <2>2
<1> QED
  BY <1>1, <1>2, <1>3

\* Every step keeps the two sides together.
LEMMA StepConsistent ==
    ASSUME TypeOK, TickInv, ServerViewConsistent, [Next]_vars
    PROVE  ServerViewConsistent'
<1>0. pc \in [Tasks -> Labels] /\ fn \in [Tasks -> Nat \ {0}]
  BY DEF TypeOK
<1>a. ASSUME NEW t \in Tasks, fn[t] <= Len(FunctionOrder)
      PROVE  FunctionOrder[fn[t]] \in Functions
  BY <1>0, <1>a, SizeAssumption
<1>1. CASE UNCHANGED <<reported, pending, inFlight, server, lost>>
  BY <1>1 DEF ServerViewConsistent, LastSays, Silent
<1>2. CASE RecordFunction
  <2> DEFINE f == FunctionOrder[fn["relay"]]
  <2>1. UNCHANGED <<inFlight, server, lost>>
    BY <1>2, Zenon DEF RecordFunction, loopVars
  <2>2. CASE f = "WaterPump"
    BY <1>1, <1>2, <2>1, <2>2 DEF RecordFunction
  <2>3. CASE f # "WaterPump"
    <3>1. recordControllerState(f, shouldBeOn, targetPercent)
      BY <1>2, <2>3 DEF RecordFunction
    <3>2. f \in Functions
      BY <1>a, <1>2 DEF RecordFunction, TickInv, Tasks
    <3>3. shouldBeOn \in BOOLEAN /\ targetPercent \in Percent
      BY DEF TypeOK
    <3> QED
      BY <2>1, <3>1, <3>2, <3>3, RecordConsistent
  <2> QED
    BY <2>2, <2>3
<1>3. CASE FinishTick
  <2>1. UNCHANGED <<inFlight, server, lost>>
    BY <1>3, Zenon DEF FinishTick, loopVars
  <2>2. CASE "WaterPump" \in Functions
    <3>1. /\ recordControllerState("WaterPump", isRelayOn("WaterPump"), 0)
          /\ isRelayOn("WaterPump") \in BOOLEAN
      BY <1>3, <2>2 DEF FinishTick, isRelayOn
    <3>2. 0 \in Percent
      BY DEF Percent
    <3> QED
      BY <2>1, <2>2, <3>1, <3>2, RecordConsistent
  <2>3. CASE "WaterPump" \notin Functions
    BY <1>1, <1>3, <2>1, <2>3 DEF FinishTick
  <2> QED
    BY <2>2, <2>3
<1>4. ASSUME NEW t \in Tasks, RecordOff(t)  PROVE ServerViewConsistent'
  <2>1. /\ recordControllerState(FunctionOrder[fn[t]], FALSE, 0)
        /\ UNCHANGED <<inFlight, server, lost>>
    BY <1>4, Zenon DEF RecordOff, loopVars
  <2>2. FunctionOrder[fn[t]] \in Functions /\ 0 \in Percent
    BY <1>a, <1>4 DEF RecordOff, Percent
  <2> QED
    BY <2>1, <2>2, RecordConsistent
<1>5. CASE \/ RelayCheckEnabled \/ RelaySnapshotGet \/ InitController
           \/ DecideFunction \/ DispatchSlot \/ BeginSafetyPass \/ PumpWrite
           \/ ApplyWaterPumpSafetyLimits \/ RelayDelay
           \/ \E t \in Tasks : ForceAllRelaysOff(t) \/ FinishForcedOff(t)
  BY <1>1, <1>5, Zenon
     DEF RelayCheckEnabled, RelaySnapshotGet, InitController, DecideFunction,
         DispatchSlot, BeginSafetyPass, PumpWrite, ApplyWaterPumpSafetyLimits,
         RelayDelay, ForceAllRelaysOff, FinishForcedOff, controllerVars, loopVars
<1>6. CASE \/ ApiConfigCommit \/ \E wait \in BOOLEAN : ApiConfigUnchanged(wait)
           \/ LoopBody \/ ConsumeSafetyLimitEvent \/ ConsumeSensorStaleEvent
           \/ PublishSnapshot \/ LoopDelay \/ SetClock \/ UNCHANGED vars
  BY <1>1, <1>6, Zenon
     DEF ApiConfigCommit, ApiConfigUnchanged, LoopBody,
         ConsumeSafetyLimitEvent, ConsumeSensorStaleEvent, PublishSnapshot,
         LoopDelay, SetClock, controllerVars, loopVars, vars
<1> QED
  BY <1>2, <1>3, <1>4, <1>5, <1>6, DrainConsistent, Zenon
     DEF Next, RelayTask, LoopTask, Tasks

\* The server's view, brought up to date with the changes in flight and those
\* still buffered, is what the controller last reported, of every function
\* but those whose last pushed change was lost (recordControllerState,
\* consumeControllerDataChanges, pushControllerData).
THEOREM ServerViewCorrect == Spec => []ServerViewConsistent
<1>1. Init => ServerViewConsistent
  <2> SUFFICES ASSUME Init, NEW f \in Functions
               PROVE  /\ Silent(pending, f) /\ Silent(inFlight, f)
                      /\ server[f] = reported[f]
    BY DEF ServerViewConsistent
  <2> QED
    BY DEF Init, Silent
<1>2. TypeOK /\ TickInv /\ ServerViewConsistent /\ [Next]_vars
        => ServerViewConsistent'
  BY StepConsistent
<1> QED
  BY <1>1, <1>2, TypeCorrect, PTL DEF Spec
=============================================================================
