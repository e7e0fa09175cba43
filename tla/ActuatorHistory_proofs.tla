----------------------- MODULE ActuatorHistory_proofs -----------------------
(***************************************************************************)
(* Proofs about ActuatorHistory: what the controller's timestamps are for, *)
(* counted in real ticks.                                                  *)
(***************************************************************************)
EXTENDS ActuatorHistory, Actuator_proofs, FiniteSets, FiniteSetTheorems,
        WellFoundedInduction

-----------------------------------------------------------------------------
(* The history only observes *)

\* Every behaviour with history is one of the controller, so what is proved
\* of the controller holds here.
LEMMA HistoryOfSpec == HSpec => Spec /\ [](TypeOK /\ TickInv)
<1>1. HInit => Init
  BY DEF HInit
<1>2. [HNext]_hvars => [Next]_vars
  BY DEF HNext, hvars
<1>3. HSpec => Spec
  BY <1>1, <1>2, PTL DEF HSpec, Spec
<1> QED
  BY <1>3, TypeCorrect, PTL

LEMMA InstallationOfHistory == InstallationSpec => HSpec
<1>1. [InstallationNext]_hvars => [HNext]_hvars
  BY DEF InstallationNext
<1> QED
  BY <1>1, PTL DEF InstallationSpec, HSpec

-----------------------------------------------------------------------------
(* A disabled device *)

\* A tick that has finished since the device was disabled is the only one:
\* the relay task is now on a way that leads through the test of enabled.
StaleInv ==
    /\ staleTicks \in {0, 1}
    /\ staleTicks = 1 =>
          /\ ~deviceConfig.enabled
          /\ pc["relay"] \in {"sleep", "check", "forceOff", "recordOff"}

\* Where the relay task goes from those labels while the device is disabled.
LEMMA DisabledWay ==
    ASSUME TypeOK, [Next]_vars, ~deviceConfig.enabled,
           pc["relay"] \in {"sleep", "check", "forceOff", "recordOff"}
    PROVE  pc'["relay"] \in {"sleep", "check", "forceOff", "recordOff"}
<1> USE DEF Goto, Tasks
<1>0. pc \in [Tasks -> Labels]
  BY DEF TypeOK
<1>1. CASE RelayTask
  BY <1>0, <1>1
     DEF RelayTask, RelayCheckEnabled, RelaySnapshotGet, InitController,
         DecideFunction, DispatchSlot, RecordFunction, BeginSafetyPass,
         PumpWrite, ApplyWaterPumpSafetyLimits, FinishTick, RelayDelay,
         ForceAllRelaysOff, RecordOff, FinishForcedOff
<1>2. CASE LoopTask \/ SetClock \/ UNCHANGED vars
  <2>1. pc'["relay"] = pc["relay"]
    BY <1>0, <1>2
       DEF LoopTask, ApiConfigCommit, ApiConfigUnchanged, LoopBody,
           ConsumeSafetyLimitEvent, ConsumeSensorStaleEvent,
           ConsumeControllerDataChanges, PushControllerData,
           ServerAppliesChange, PublishSnapshot, LoopDelay, ForceAllRelaysOff,
           RecordOff, FinishForcedOff, SetClock, vars
  <2> QED
    BY <2>1
<1> QED
  BY <1>1, <1>2 DEF Next

\* After a commit disables the device at most one tick still finishes, for
\* every configuration and every interleaving (relayTaskLoop's unlocked test
\* of deviceConfig.enabled).
THEOREM OneStaleTick == HSpec => []AtMostOneStaleTick
<1>1. HInit => StaleInv
  BY DEF HInit, StaleInv
<1>2. TypeOK /\ StaleInv /\ [HNext]_hvars => StaleInv'
  <2> SUFFICES ASSUME TypeOK, StaleInv, [HNext]_hvars
               PROVE  StaleInv'
    OBVIOUS
  <2>1. CASE UNCHANGED hvars
    BY <2>1 DEF hvars, vars, history, StaleInv
  <2>2. CASE HNext
    <3>1. staleTicks' = IF deviceConfig'.enabled THEN 0
                        ELSE IF TickEnds THEN Capped(staleTicks)
                        ELSE staleTicks
      BY <2>2 DEF HNext, HistoryStep
    <3>2. CASE deviceConfig'.enabled
      BY <3>1, <3>2 DEF StaleInv
    <3>3. CASE ~deviceConfig'.enabled /\ TickEnds
      <4>1. staleTicks = 0 /\ pc'["relay"] = "sleep"
        BY <3>3 DEF StaleInv, TickEnds
      <4> QED
        BY <3>1, <3>3, <4>1 DEF StaleInv, Capped
    <3>4. CASE ~deviceConfig'.enabled /\ ~TickEnds
      <4>1. staleTicks = 1 =>
              pc'["relay"] \in {"sleep", "check", "forceOff", "recordOff"}
        BY <2>2, DisabledWay DEF StaleInv, HNext
      <4> QED
        BY <3>1, <3>4, <4>1 DEF StaleInv
    <3> QED
      BY <3>2, <3>3, <3>4
  <2> QED
    BY <2>1, <2>2
<1>3. StaleInv => AtMostOneStaleTick
  BY DEF StaleInv, AtMostOneStaleTick
<1> QED
  BY <1>1, <1>2, <1>3, HistoryOfSpec, PTL DEF HSpec

-----------------------------------------------------------------------------
(* What a pump's relay sees of the controller *)

\* A non-empty set of indices of a sequence has a last one.  The sets of the
\* indices from i on are finite, and strict inclusion among them well-founded.
LEMMA LastIndex ==
    ASSUME NEW n \in Nat, NEW I \in SUBSET (1..n), I # {}
    PROVE  \E i \in I : \A j \in I : j <= i
<1> DEFINE from(i) == {j \in I : i <= j}
           T == {from(i) : i \in I}
           Less == StrictSubsetOrdering(1..n)
<1>1. T \subseteq FiniteSubsetsOf(1..n) /\ T # {}
  <2>1. IsFiniteSet(1..n)
    BY FS_Interval
  <2>2. \A i \in I : from(i) \subseteq 1..n
    OBVIOUS
  <2>3. \A i \in I : IsFiniteSet(from(i))
    BY <2>1, <2>2, FS_Subset
  <2> QED
    BY <2>2, <2>3 DEF FiniteSubsetsOf
<1>2. PICK U \in T : \A V \in T : ~(<<V, U>> \in Less)
  <2> HIDE DEF T, Less
  <2> QED
    BY <1>1, WFMin, FS_StrictSubsetOrderingWellFounded DEF Less
<1>3. PICK i \in I : U = from(i)
  OBVIOUS
<1>4. ASSUME NEW j \in I, ~(j <= i)  PROVE FALSE
  <2>0. i \in Int /\ j \in Int /\ i < j
    BY <1>4
  <2>a. \A k \in I : k \in Int /\ (j <= k => i <= k)
    BY <2>0
  <2>b. i \in from(i) /\ i \notin from(j)
    BY <2>0
  <2>1. from(j) \subseteq from(i) /\ from(j) # from(i) /\ from(j) \in T
    BY <2>a, <2>b
  <2>2. <<from(j), from(i)>> \in Less
    BY <1>1, <1>3, <2>1 DEF StrictSubsetOrdering, FiniteSubsetsOf
  <2> QED
    BY <1>2, <1>3, <2>1, <2>2
<1> QED
  BY <1>4

\* ... and a first one: the last of the indices counted from the end.
LEMMA FirstIndex ==
    ASSUME NEW n \in Nat, NEW I \in SUBSET (1..n), I # {}
    PROVE  \E i \in I : \A j \in I : i <= j
<1> DEFINE R == {n + 1 - i : i \in I}
<1>1. R \in SUBSET (1..n) /\ R # {}
  <2>1. ASSUME NEW i \in I  PROVE n + 1 - i \in 1..n
    <3>1. i \in 1..n
      OBVIOUS
    <3> QED
      BY <3>1
  <2>2. R \in SUBSET (1..n)
    BY <2>1
  <2>3. PICK i \in I : TRUE
    OBVIOUS
  <2>4. n + 1 - i \in R
    BY <2>3
  <2> QED
    BY <2>2, <2>4
<1>2. PICK r \in R : \A q \in R : q <= r
  <2> HIDE DEF R
  <2> QED
    BY <1>1, LastIndex
<1>3. PICK i \in I : r = n + 1 - i
  OBVIOUS
<1>4. ASSUME NEW j \in I  PROVE i <= j
  <2>1. n + 1 - j \in R
    OBVIOUS
  <2>2. n + 1 - j <= n + 1 - i
    BY <1>2, <1>3, <2>1
  <2>3. i \in Nat /\ j \in Nat
    OBVIOUS
  <2> QED
    BY <2>2, <2>3
<1> QED
  BY <1>4

\* Outputs forced off leave every relay of an entry off (the last entry that
\* writes a relay's pin writes 0 to it).
LEMMA RelayForcedOff ==
    ASSUME deviceConfig \in Configs, NEW before,
           DriveEveryAssignedRelayOff(before),
           NEW s \in SlotNumbers, NEW e \in Entries(deviceConfig),
           RelayPin(s) \in RestPins(e)
    PROVE  ~IsOn(s)'
<1> DEFINE p == RelayPin(s)
           I == {i \in DOMAIN deviceConfig.relays :
                    p \in RestPins(deviceConfig.relays[i])}
           last == CHOOSE i \in DOMAIN deviceConfig.relays : RestsLast(i, p)
           l == deviceConfig.relays[last]
<1>1. deviceConfig.relays \in Seq(RelaySlot)
  BY EntryType DEF DeviceConfig
<1>2. /\ Len(deviceConfig.relays) \in Nat
      /\ DOMAIN deviceConfig.relays = 1..Len(deviceConfig.relays)
  BY <1>1
<1>3. I \in SUBSET (1..Len(deviceConfig.relays)) /\ I # {}
  BY <1>2 DEF Entries
<1>4. PICK i \in I : \A j \in I : j <= i
  BY <1>2, <1>3, LastIndex
<1>5. RestsLast(i, p) /\ i \in DOMAIN deviceConfig.relays
  BY <1>4 DEF RestsLast
<1>6. last \in DOMAIN deviceConfig.relays /\ RestsLast(last, p)
  BY <1>5
<1>7. p \in Pins
  BY DEF RelayPin, Pins
<1>8. pin'[p] = RestLevel(l)
  BY <1>5, <1>7 DEF DriveEveryAssignedRelayOff
<1> HIDE DEF last
<1>9. l \in RelaySlot /\ p \in OutputPins(l)
  BY <1>6, EntryType DEF RestsLast, Entries
<1>10. l.kind # "servo"
  BY <1>9 DEF OutputPins, RelayPin
<1> QED
  BY <1>8, <1>10 DEF RestLevel, IsOn

\* A pump slot is the slot of an entry that drives a relay, and it stays one
\* while the relays are the same.
LEMMA PumpSlotEntry ==
    ASSUME deviceConfig \in Configs, NEW s \in SlotNumbers, PumpSlot(s)
    PROVE  \E e \in Entries(deviceConfig) :
              e.slot = s /\ RelayPin(s) \in RestPins(e)
<1> DEFINE Last(i) == IsConfigured(deviceConfig, i, s)
           i == CHOOSE i \in DOMAIN deviceConfig.relays : Last(i)
<1>1. \E j \in DOMAIN deviceConfig.relays : Last(j)
  BY DEF PumpSlot, configuredType
<1>2. i \in DOMAIN deviceConfig.relays /\ Last(i)
  BY <1>1
<1>3. deviceConfig.relays[i].kind = "relay"
  BY <1>1 DEF PumpSlot, configuredOutputKind
<1> HIDE DEF i
<1> QED
  BY <1>2, <1>3
     DEF IsConfigured, Entries, RestPins, OutputPins, RelayPin, PumpSlot

LEMMA PumpSlotStays ==
    ASSUME deviceConfig'.relays = deviceConfig.relays, NEW s
    PROVE  PumpSlot(s)' <=> PumpSlot(s)
BY DEF PumpSlot, configuredType, configuredOutputKind, IsConfigured

\* Where the relay task is in its cycle, seen from slot s: "open" from the
\* time a tick has begun until the slot's safety pass is over.
Phase(s) ==
    CASE pc["relay"] = "begin" -> "begin"
      [] pc["relay"] \in {"decide", "dispatch"} -> "open"
      [] pc["relay"] \in {"pumpWrite", "pumpLimits"} ->
            IF entry <= s THEN "open" ELSE "done"
      [] pc["relay"] = "recordOff" -> "off"
      [] pc["relay"] = "sleep" -> "sleep"
      [] OTHER -> "idle"

Judging == {"begin", "open", "done"}

\* The time the slot's stamps are compared with: the tick's own, if there is
\* one, or else the clock's.
Clock(s) == IF Phase(s) \in Judging THEN now ELSE epoch

Stamps(s) == <<slots[s].type, slots[s].pumpOnSince, slots[s].pumpOffSince>>

\* The stamps after initController has looked for a change of function
Reassigned(s) ==
    /\ slots'[s].type = "WaterPump"
    /\ \/ UNCHANGED Stamps(s)
       \/ /\ slots[s].type # "WaterPump"
          /\ slots'[s].pumpOnSince = 0 /\ slots'[s].pumpOffSince = 0

\* What a step may be to a pump's slot.
Rests(s) ==
    /\ UNCHANGED <<IsOn(s), Stamps(s), epoch, Clock(s)>>
    /\ \/ Phase(s)' = Phase(s)
       \/ Phase(s) = "idle" /\ Phase(s)' = "begin"
       \/ Phase(s) = "off" /\ Phase(s)' = "sleep"

Opens(s) ==
    /\ Phase(s) = "begin" /\ Phase(s)' = "open"
    /\ UNCHANGED <<IsOn(s), epoch, Clock(s)>>
    /\ Reassigned(s)

Writes(s) ==
    /\ Phase(s) = "open" /\ Phase(s)' = "open"
    /\ UNCHANGED <<Stamps(s), epoch, Clock(s)>>

Judges(s) ==
    /\ Phase(s) = "open" /\ Phase(s)' = "done"
    /\ UNCHANGED <<epoch, Clock(s), slots[s].type>>
    /\ LET v == PumpVerdict(slots[s], IsOn(s))
           stopping == ~v.on /\ v.onSince # 0
       IN /\ IsOn(s)' = v.on
          /\ slots'[s].pumpOnSince = IF stopping THEN 0 ELSE v.onSince
          /\ slots'[s].pumpOffSince = IF stopping THEN now
                                      ELSE slots[s].pumpOffSince

Ends(s) ==
    /\ Phase(s) = "done" /\ Phase(s)' = "sleep"
    /\ UNCHANGED <<IsOn(s), Stamps(s), epoch>>

Forces(s) ==
    /\ ~IsOn(s)'
    /\ UNCHANGED epoch
    /\ OutputsForced
    /\ \/ /\ Phase(s) \in {"idle", "begin", "sleep"}
          /\ \/ Phase(s)' = Phase(s)
             \/ Phase(s) = "idle" /\ Phase(s)' = "off"
          /\ UNCHANGED <<Stamps(s), Clock(s)>>
       \/ /\ Phase(s) = "begin" /\ Phase(s)' = "off"
          /\ Reassigned(s)

Passes(s) ==
    /\ Phase(s) = "sleep" /\ Phase(s)' = "idle"
    /\ UNCHANGED <<IsOn(s), Stamps(s)>>
    /\ epoch' = IF epoch < MaxEpoch THEN epoch + 1 ELSE epoch
    /\ TimePasses <=> epoch < MaxEpoch

SetsClock(s) ==
    /\ UNCHANGED <<IsOn(s), Stamps(s), Phase(s)>>
    /\ Clock(s)' = IF Phase(s) \in Judging THEN Clock(s) ELSE epoch'

PumpStep(s) ==
    \/ Passes(s)
    \/ /\ ~TimePasses
       /\ \/ Rests(s) \/ Opens(s) \/ Writes(s) \/ Judges(s) \/ Ends(s)
          \/ Forces(s) \/ SetsClock(s)

\* The relay task looks at the slots in order, from the first one on.
EntryInv ==
    /\ pc["relay"] \notin {"dispatch", "pumpWrite", "pumpLimits"} => entry = 1
    /\ pc["relay"] \in InTick =>
          \A s \in SlotNumbers :
              slots[s].type = configuredType(deviceConfig, s)
    /\ epoch <= MaxEpoch

\* A dispatch leaves every slot's function and its pump stamps alone.
LEMMA DispatchKeeps ==
    ASSUME TypeOK, TickInv, DispatchSlot, NEW s \in SlotNumbers
    PROVE  UNCHANGED Stamps(s)
<1> DEFINE f == FunctionOrder[fn["relay"]]
           e == deviceConfig.relays[entry]
           st == slots[e.slot]
           d == Dispatched(e, st, targetPercent, st.dispatched = 0,
                           Elapsed(st))
           Same(a) == /\ a.type = st.type /\ a.pumpOnSince = st.pumpOnSince
                      /\ a.pumpOffSince = st.pumpOffSince
<1>1. /\ slots \in [SlotNumbers -> SlotState]
      /\ e \in RelaySlot /\ e.slot \in SlotNumbers
  <2>1. deviceConfig.relays \in Seq(RelaySlot)
    BY EntryType DEF TypeOK, DeviceConfig
  <2>2. entry \in 1..Len(deviceConfig.relays)
    <3>1. Len(deviceConfig.relays) \in Nat
      BY <2>1
    <3>2. entry \in Nat \ {0} /\ entry <= Len(deviceConfig.relays)
      BY DEF TypeOK, DispatchSlot
    <3> QED
      BY <3>1, <3>2
  <2>3. e \in RelaySlot
    BY <2>1, <2>2
  <2> QED
    BY <2>3 DEF TypeOK, RelaySlot
<1>2. st \in SlotState
  BY <1>1
<1>3. Same(d.st)
  <2> HIDE DEF st, e
  <2>1. Same(DispatchRelay(e, st, targetPercent, st.dispatched = 0).st)
    BY <1>2 DEF DispatchRelay, Outcome, SlotState
  <2>2. Same(DispatchPair(e, st, targetPercent, Elapsed(st)).st)
    <3> DEFINE p == computeRelayPairStep(
                        [direction |-> st.direction, dead |-> st.dead],
                        st.position, targetPercent, e.travelSeconds,
                        e.deadTimeSeconds, Elapsed(st))
    <3>1. DispatchPair(e, st, targetPercent, Elapsed(st)).st =
            [[st EXCEPT !.direction = p.direction, !.dead = p.dead,
                        !.position = p.position] EXCEPT !.applied = p.position]
      BY DEF DispatchPair, Outcome
    <3> HIDE DEF p
    <3> QED
      BY <1>2, <3>1 DEF SlotState
  <2>3. Same(DispatchProportional(e, st, targetPercent, Elapsed(st)).st)
    BY <1>2 DEF DispatchProportional, Outcome, SlotState
  <2>4. Same(DispatchLatch(e, st, targetPercent).st)
    BY <1>2 DEF DispatchLatch, Outcome, SlotState
  <2> QED
    BY <2>1, <2>2, <2>3, <2>4 DEF Dispatched
<1>4. d.st \in SlotState
  <2>1. e \in RelaySlot
    BY <1>1
  <2>2. now \in Int /\ pin \in [Pins -> Percent] /\ targetPercent \in Percent
    BY DEF TypeOK
  <2>3. Elapsed(st) \in Int
    BY <1>2, <2>2 DEF Elapsed, SlotState
  <2> HIDE DEF e, st
  <2> QED
    BY <1>2, <2>1, <2>2, <2>3, DispatchedType DEF TypeOK
<1>5. Same([Stamped(st, d.st) EXCEPT !.dispatched = now])
  <2> HIDE DEF d, st
  <2> QED
    BY <1>3, <1>4 DEF Stamped, SlotState
<1>6. Same([st EXCEPT !.dispatched = now])
  BY <1>2 DEF SlotState
<1>7. \/ slots' = slots
      \/ slots' = [slots EXCEPT ![e.slot].dispatched = now]
      \/ slots' = [slots EXCEPT ![e.slot] =
                        [Stamped(st, d.st) EXCEPT !.dispatched = now]]
  BY DEF DispatchSlot
<1> HIDE DEF d
<1>8. \/ slots'[s] = slots[s]
      \/ s = e.slot /\ slots'[s] = [st EXCEPT !.dispatched = now]
      \/ /\ s = e.slot
         /\ slots'[s] = [Stamped(st, d.st) EXCEPT !.dispatched = now]
  BY <1>1, <1>7
<1> HIDE DEF e
<1> QED
  BY <1>5, <1>6, <1>8 DEF Stamps

\* initController gives every slot its configured function.
LEMMA RemappedStamps ==
    ASSUME TypeOK, NEW s \in SlotNumbers
    PROVE  /\ Remapped[s].type = configuredType(deviceConfig, s)
           /\ \/ Remapped[s] = slots[s]
              \/ /\ slots[s].type # configuredType(deviceConfig, s)
                 /\ Remapped[s].pumpOnSince = 0
                 /\ Remapped[s].pumpOffSince = 0
<1>1. slots[s] \in SlotState
  BY DEF TypeOK
<1> QED
  BY <1>1 DEF Remapped, SlotState

\* Every step keeps the order in which the relay task looks at the slots.
LEMMA StepEntry ==
    ASSUME TypeOK, TickInv, EntryInv, [Next]_vars
    PROVE  EntryInv'
<1> USE DEF Goto, Tasks, InTick
<1>0. /\ pc \in [Tasks -> Labels] /\ entry \in Nat \ {0} /\ epoch \in Nat
      /\ deviceConfig \in Configs /\ slots \in [SlotNumbers -> SlotState]
      /\ BootEpoch \in Nat /\ MaxEpoch \in Nat
  BY EpochAssumption DEF TypeOK
<1>1. CASE InitController
  <2>1. \A s \in SlotNumbers :
           Remapped[s].type = configuredType(deviceConfig, s)
    BY RemappedStamps
  <2>2. CASE deviceConfig.emergencyStop \/ ~deviceConfig.relayEnabled
    BY <1>0, <1>1, <2>2 DEF InitController, EndOfTick, EntryInv
  <2>3. CASE ~(deviceConfig.emergencyStop \/ ~deviceConfig.relayEnabled)
    BY <1>0, <1>1, <2>1, <2>3 DEF InitController, EntryInv, tickVars
  <2> QED
    BY <2>2, <2>3
<1>2. CASE DispatchSlot
  <2>1. \A s \in SlotNumbers : slots'[s].type = slots[s].type
    BY <1>2, DispatchKeeps DEF Stamps
  <2>2. pc' = pc /\ deviceConfig' = deviceConfig /\ epoch' = epoch
        /\ pc["relay"] = "dispatch"
    BY <1>2 DEF DispatchSlot
  <2> QED
    BY <2>1, <2>2 DEF EntryInv
<1>3. CASE ApplyWaterPumpSafetyLimits
  <2>1. \A s \in SlotNumbers : slots'[s].type = slots[s].type
    <3> DEFINE st == slots[entry]
               v == PumpVerdict(st, pin[<<"relay", entry>>] > 0)
               stopping == ~v.on /\ v.onSince # 0
               after == [st EXCEPT
                           !.pumpOnSince = IF stopping THEN 0 ELSE v.onSince,
                           !.pumpOffSince = IF stopping THEN now ELSE @,
                           !.applied = IF v.on THEN 100 ELSE 0]
    <3>1. slots' = [slots EXCEPT ![entry] = after]
      BY <1>3 DEF ApplyWaterPumpSafetyLimits
    <3>2. st.type = after.type
      OBVIOUS
    <3> HIDE DEF after
    <3> QED
      BY <1>0, <3>1, <3>2
  <2> QED
    BY <1>0, <1>3, <2>1 DEF ApplyWaterPumpSafetyLimits, EntryInv
<1>4. CASE \/ DecideFunction \/ RecordFunction \/ BeginSafetyPass \/ PumpWrite
  BY <1>0, <1>4
     DEF DecideFunction, RecordFunction, BeginSafetyPass, PumpWrite, EntryInv,
         controllerVars, tickVars
<1>5. CASE RelayCheckEnabled \/ RelaySnapshotGet \/ FinishTick
  BY <1>0, <1>5
     DEF RelayCheckEnabled, RelaySnapshotGet, FinishTick, EndOfTick, EntryInv,
         tickVars
<1>6. CASE RelayDelay
  BY <1>0, <1>6 DEF RelayDelay, EntryInv, tickVars
<1>7. ASSUME NEW t \in Tasks,
             ForceAllRelaysOff(t) \/ RecordOff(t) \/ FinishForcedOff(t)
      PROVE  EntryInv'
  <2>1. CASE ForceAllRelaysOff(t)
    BY <1>0, <2>1 DEF ForceAllRelaysOff, LockFree, Critical, EntryInv, tickVars
  <2>2. CASE RecordOff(t) \/ FinishForcedOff(t)
    <3>1. UNCHANGED <<entry, epoch, slots, deviceConfig>>
      BY <2>2 DEF RecordOff, FinishForcedOff, tickVars, controllerVars
    <3>2. \/ pc'["relay"] = pc["relay"]
          \/ pc["relay"] = "recordOff" /\ pc'["relay"] = "sleep"
      BY <1>0, <2>2 DEF RecordOff, FinishForcedOff
    <3> QED
      BY <3>1, <3>2 DEF EntryInv
  <2> QED
    BY <1>7, <2>1, <2>2
<1>8. CASE SetClock
  <2>1. epoch' <= MaxEpoch
    BY <1>0, <1>8, EpochAssumption DEF SetClock
  <2> QED
    BY <1>8, <2>1 DEF SetClock, EntryInv, controllerVars, tickVars
<1>9. CASE ApiConfigCommit
  <2>1. pc["relay"] \notin InTick
    BY <1>9 DEF ApiConfigCommit, LockFree, Critical
  <2> QED
    BY <1>0, <1>9, <2>1 DEF ApiConfigCommit, EntryInv, tickVars
<1>10. CASE \/ \E wait \in BOOLEAN : ApiConfigUnchanged(wait)
            \/ LoopBody \/ ConsumeSafetyLimitEvent \/ ConsumeSensorStaleEvent
            \/ ConsumeControllerDataChanges \/ PushControllerData
            \/ ServerAppliesChange \/ PublishSnapshot \/ LoopDelay
            \/ UNCHANGED vars
  <2>1. /\ pc'["relay"] = pc["relay"]
        /\ UNCHANGED <<entry, epoch, slots, deviceConfig>>
    BY <1>0, <1>10
       DEF ApiConfigUnchanged, LoopBody, ConsumeSafetyLimitEvent,
           ConsumeSensorStaleEvent, ConsumeControllerDataChanges,
           PushControllerData, ServerAppliesChange, PublishSnapshot,
           LoopDelay, vars, controllerVars, tickVars
  <2> QED
    BY <2>1 DEF EntryInv
<1> QED
  BY <1>1, <1>2, <1>3, <1>4, <1>5, <1>6, <1>7, <1>8, <1>9, <1>10
     DEF Next, RelayTask, LoopTask

\* Whatever a step does, for a pump's slot it is one of those.
LEMMA StepOfPump ==
    ASSUME TypeOK, TickInv, EntryInv, [Next]_vars,
           deviceConfig'.relays = deviceConfig.relays,
           NEW s \in SlotNumbers, PumpSlot(s)
    PROVE  PumpStep(s)
<1> USE DEF Goto, Tasks
<1>0. /\ pc \in [Tasks -> Labels] /\ entry \in Nat \ {0} /\ s \in Nat \ {0}
      /\ s <= MAX_RELAY_SLOTS /\ MAX_RELAY_SLOTS \in Nat
      /\ deviceConfig \in Configs /\ slots \in [SlotNumbers -> SlotState]
      /\ pin \in [Pins -> Percent] /\ RelayPin(s) \in Pins
  BY SizeAssumption DEF TypeOK, SlotNumbers, Pins, RelayPin
<1>a. ASSUME pin'[RelayPin(s)] = pin[RelayPin(s)], slots'[s] = slots[s],
             epoch' = epoch, Clock(s)' = Clock(s),
             \/ Phase(s)' = Phase(s)
             \/ Phase(s) = "idle" /\ Phase(s)' = "begin"
             \/ Phase(s) = "off" /\ Phase(s)' = "sleep",
             ~TimePasses
      PROVE  PumpStep(s)
  BY <1>a DEF Rests, PumpStep, IsOn, Stamps
<1>b. ASSUME pc'["relay"] = pc["relay"],
             UNCHANGED <<pin, slots, epoch, now, entry>>
      PROVE  PumpStep(s)
  BY <1>a, <1>b DEF Phase, Clock, TimePasses
<1>1. CASE RelayCheckEnabled
  <2>1. /\ UNCHANGED <<pin, slots, epoch, now, entry>>
        /\ pc["relay"] = "check" /\ pc'["relay"] \in {"snapshot", "forceOff"}
    BY <1>0, <1>1 DEF RelayCheckEnabled, controllerVars, tickVars
  <2> QED
    BY <1>a, <2>1 DEF Phase, Clock, TimePasses, Judging
<1>2. CASE RelaySnapshotGet
  <2>1. /\ UNCHANGED <<pin, slots, epoch, entry>> /\ now' = epoch
        /\ pc["relay"] = "snapshot" /\ pc'["relay"] = "begin"
    BY <1>0, <1>2 DEF RelaySnapshotGet, controllerVars
  <2> QED
    BY <1>a, <2>1 DEF Phase, Clock, TimePasses, Judging
<1>3. CASE InitController
  <2>1. pc["relay"] = "begin" /\ UNCHANGED epoch /\ LockFree
    BY <1>3 DEF InitController
  <2>2. Remapped[s].type = "WaterPump"
    BY RemappedStamps DEF PumpSlot
  <2>3. CASE deviceConfig.emergencyStop \/ ~deviceConfig.relayEnabled
    <3>1. /\ DriveEveryAssignedRelayOff(Remapped)
          /\ pc'["relay"] = "recordOff"
      BY <1>0, <1>3, <2>3 DEF InitController
    <3>2. PICK e \in Entries(deviceConfig) :
             e.slot = s /\ RelayPin(s) \in RestPins(e)
      BY <1>0, PumpSlotEntry
    <3>3. ~IsOn(s)'
      BY <1>0, <3>1, <3>2, RelayForcedOff
    <3>4. slots'[s] = ForcedOff(Remapped[s])
      BY <3>1, <3>2 DEF DriveEveryAssignedRelayOff
    <3>5. Remapped[s] \in SlotState
      BY <1>0, RemappedType
    <3>6. Reassigned(s)
      BY <1>0, <2>2, <3>4, <3>5, RemappedStamps
         DEF Reassigned, Stamps, ForcedOff, SlotState, PumpSlot
    <3>7. OutputsForced /\ ~TimePasses
      BY <2>1, <3>1 DEF OutputsForced, TimePasses
    <3>8. Phase(s) = "begin" /\ Phase(s)' = "off"
      BY <2>1, <3>1 DEF Phase
    <3> QED
      BY <2>1, <3>3, <3>6, <3>7, <3>8 DEF PumpStep, Forces
  <2>4. CASE ~(deviceConfig.emergencyStop \/ ~deviceConfig.relayEnabled)
    <3>1. /\ slots' = Remapped /\ UNCHANGED <<pin, now>>
          /\ pc'["relay"] = "decide"
      BY <1>0, <1>3, <2>4 DEF InitController, tickVars
    <3>2. Reassigned(s)
      BY <2>2, <3>1, RemappedStamps DEF Reassigned, Stamps, PumpSlot
    <3>3. Phase(s) = "begin" /\ Phase(s)' = "open" /\ ~TimePasses
      BY <2>1, <3>1 DEF Phase, TimePasses
    <3>4. UNCHANGED Clock(s)
      BY <3>1, <3>3 DEF Clock, Judging
    <3>5. UNCHANGED IsOn(s)
      BY <3>1 DEF IsOn
    <3> QED
      BY <2>1, <3>2, <3>3, <3>4, <3>5 DEF PumpStep, Opens
  <2> QED
    BY <2>3, <2>4
<1>4. CASE DecideFunction
  <2>1. /\ UNCHANGED <<pin, slots, epoch, now, entry>>
        /\ pc["relay"] = "decide" /\ pc'["relay"] \in {"decide", "dispatch"}
    BY <1>0, <1>4 DEF DecideFunction
  <2> QED
    BY <1>a, <2>1 DEF Phase, Clock, TimePasses, Judging
<1>5. CASE DispatchSlot
  <2>1. UNCHANGED Stamps(s)
    BY <1>5, DispatchKeeps
  <2>2. pc["relay"] = "dispatch" /\ UNCHANGED <<pc, epoch, now>>
    BY <1>5 DEF DispatchSlot
  <2>3. /\ Phase(s) = "open" /\ Phase(s)' = "open" /\ ~TimePasses
    BY <2>2 DEF Phase, TimePasses
  <2>4. UNCHANGED Clock(s)
    BY <2>2, <2>3 DEF Clock, Judging
  <2> QED
    BY <2>1, <2>2, <2>3, <2>4 DEF PumpStep, Writes
<1>6. CASE RecordFunction
  <2>1. /\ UNCHANGED <<pin, slots, epoch, now>>
        /\ pc["relay"] = "dispatch" /\ pc'["relay"] = "decide"
    BY <1>0, <1>6 DEF RecordFunction
  <2> QED
    BY <1>a, <2>1 DEF Phase, Clock, TimePasses, Judging
<1>7. CASE BeginSafetyPass
  <2>1. /\ UNCHANGED <<pin, slots, epoch, now, entry>> /\ entry = 1
        /\ pc["relay"] = "decide" /\ pc'["relay"] = "pumpWrite"
    BY <1>0, <1>7 DEF BeginSafetyPass, controllerVars, tickVars, EntryInv
  <2>2. entry <= s
    BY <1>0, <2>1
  <2> QED
    BY <1>a, <2>1, <2>2 DEF Phase, Clock, TimePasses, Judging
<1>8. CASE PumpWrite
  <2>1. /\ UNCHANGED <<slots, epoch, now>> /\ pc["relay"] = "pumpWrite"
        /\ pc'["relay"] \in {"pumpWrite", "pumpLimits"}
    BY <1>0, <1>8 DEF PumpWrite, controllerVars
  <2>2. ~TimePasses
    BY <2>1 DEF TimePasses
  <2>3. CASE entry = s
    <3>1. UNCHANGED entry
      BY <1>8, <2>3 DEF PumpWrite
    <3>2. Phase(s) = "open" /\ Phase(s)' = "open"
      BY <1>0, <2>1, <2>3, <3>1 DEF Phase
    <3>3. UNCHANGED Clock(s)
      BY <2>1, <3>2 DEF Clock, Judging
    <3>4. UNCHANGED Stamps(s)
      BY <2>1 DEF Stamps
    <3> QED
      BY <2>1, <2>2, <3>2, <3>3, <3>4 DEF PumpStep, Writes
  <2>4. CASE entry # s
    <3>1. pin'[RelayPin(s)] = pin[RelayPin(s)]
      BY <1>0, <1>8, <2>4 DEF PumpWrite, RelayPin
    <3>2. (entry <= s) <=> (entry' <= s)
      BY <1>0, <1>8, <2>4 DEF PumpWrite
    <3>3. UNCHANGED Phase(s)
      BY <2>1, <3>2 DEF Phase
    <3>4. UNCHANGED Clock(s)
      BY <2>1, <3>3 DEF Clock
    <3> QED
      BY <1>a, <2>1, <2>2, <3>1, <3>3, <3>4
  <2> QED
    BY <2>3, <2>4
<1>9. CASE ApplyWaterPumpSafetyLimits
  <2>1. /\ UNCHANGED <<epoch, now>> /\ pc["relay"] = "pumpLimits"
        /\ pc'["relay"] = "pumpWrite" /\ entry' = entry + 1
    BY <1>0, <1>9 DEF ApplyWaterPumpSafetyLimits
  <2>2. ~TimePasses
    BY <2>1 DEF TimePasses
  <2> DEFINE st == slots[entry]
             v == PumpVerdict(st, pin[<<"relay", entry>>] > 0)
             stopping == ~v.on /\ v.onSince # 0
             on == IF stopping THEN 0 ELSE v.onSince
             off == IF stopping THEN now ELSE st.pumpOffSince
             level == IF v.on THEN 100 ELSE 0
             after == [st EXCEPT !.pumpOnSince = on, !.pumpOffSince = off,
                                 !.applied = level]
  <2>3. slots' = [slots EXCEPT ![entry] = after]
    BY <1>9 DEF ApplyWaterPumpSafetyLimits
  <2>4. pin' = [pin EXCEPT ![<<"relay", entry>>] = level]
    BY <1>9 DEF ApplyWaterPumpSafetyLimits
  <2>5. CASE entry = s
    <3>1. Phase(s) = "open" /\ Phase(s)' = "done"
      BY <1>0, <2>1, <2>5 DEF Phase
    <3>2. UNCHANGED Clock(s)
      BY <2>1, <3>1 DEF Clock, Judging
    <3>3. IsOn(s)' = v.on
      <4>1. pin'[RelayPin(s)] = level
        BY <1>0, <2>4, <2>5 DEF RelayPin
      <4>2. v.on \in BOOLEAN
        BY DEF PumpVerdict
      <4> HIDE DEF v
      <4> QED
        BY <4>1, <4>2 DEF IsOn
    <3>4. v = PumpVerdict(slots[s], IsOn(s)) /\ st = slots[s]
      BY <2>5 DEF IsOn, RelayPin
    <3>5. slots'[s] = after
      BY <1>0, <2>3, <2>5
    <3>6. /\ after.type = st.type /\ after.pumpOnSince = on
          /\ after.pumpOffSince = off
      <4>1. st \in SlotState
        BY <1>0, <2>5
      <4> HIDE DEF st, on, off, level
      <4> QED
        BY <4>1 DEF SlotState
    <3>7. Judges(s)
      BY <2>1, <3>1, <3>2, <3>3, <3>4, <3>5, <3>6 DEF Judges
    <3> QED
      BY <2>2, <3>7 DEF PumpStep
  <2>6. CASE entry # s
    <3> HIDE DEF after, level
    <3>1. pin'[RelayPin(s)] = pin[RelayPin(s)] /\ slots'[s] = slots[s]
      BY <1>0, <2>3, <2>4, <2>6 DEF RelayPin
    <3>2. (entry <= s) <=> (entry' <= s)
      BY <1>0, <2>1, <2>6
    <3>3. UNCHANGED Phase(s)
      BY <2>1, <3>2 DEF Phase
    <3>4. UNCHANGED Clock(s)
      BY <2>1, <3>3 DEF Clock
    <3> QED
      BY <1>a, <2>1, <2>2, <3>1, <3>3, <3>4
  <2> QED
    BY <2>5, <2>6
<1>10. CASE FinishTick
  <2>1. /\ UNCHANGED <<pin, slots, epoch>> /\ pc["relay"] = "pumpWrite"
        /\ pc'["relay"] = "sleep" /\ ~(entry <= s)
    BY <1>0, <1>10 DEF FinishTick
  <2>2. Phase(s) = "done" /\ Phase(s)' = "sleep" /\ ~TimePasses
    BY <2>1 DEF Phase, TimePasses
  <2>3. UNCHANGED IsOn(s) /\ UNCHANGED Stamps(s)
    BY <2>1 DEF IsOn, Stamps
  <2> QED
    BY <2>1, <2>2, <2>3 DEF PumpStep, Ends
<1>11. CASE RelayDelay
  <2>1. /\ UNCHANGED <<pin, slots>> /\ pc["relay"] = "sleep"
        /\ pc'["relay"] = "check"
        /\ epoch' = IF epoch < MaxEpoch THEN epoch + 1 ELSE epoch
    BY <1>0, <1>11 DEF RelayDelay, controllerVars
  <2>2. Phase(s) = "sleep" /\ Phase(s)' = "idle"
    BY <2>1 DEF Phase
  <2>3. TimePasses <=> epoch < MaxEpoch
    BY <2>1 DEF TimePasses
  <2>4. UNCHANGED IsOn(s) /\ UNCHANGED Stamps(s)
    BY <2>1 DEF IsOn, Stamps
  <2> QED
    BY <2>1, <2>2, <2>3, <2>4 DEF PumpStep, Passes
<1>12. ASSUME NEW t \in Tasks, ForceAllRelaysOff(t)
       PROVE  PumpStep(s)
  <2>1. /\ UNCHANGED <<epoch, now, entry>> /\ pc[t] = "forceOff" /\ LockFree
        /\ DriveEveryAssignedRelayOff(slots) /\ pc'[t] = "recordOff"
        /\ t # "relay" => pc'["relay"] = pc["relay"]
    BY <1>0, <1>12 DEF ForceAllRelaysOff, tickVars
  <2>2. pc["relay"] \notin Critical
    BY <2>1 DEF LockFree
  <2>3. PICK e \in Entries(deviceConfig) :
           e.slot = s /\ RelayPin(s) \in RestPins(e)
    BY <1>0, PumpSlotEntry
  <2>4. ~IsOn(s)'
    BY <1>0, <2>1, <2>3, RelayForcedOff
  <2>5. slots'[s] = ForcedOff(slots[s])
    BY <2>1, <2>3 DEF DriveEveryAssignedRelayOff
  <2>6. UNCHANGED Stamps(s)
    <3>1. slots[s] \in SlotState
      BY <1>0
    <3> QED
      BY <2>5, <3>1 DEF Stamps, ForcedOff, SlotState
  <2>7. OutputsForced /\ ~TimePasses
    BY <2>1 DEF OutputsForced, TimePasses
  <2>8. /\ Phase(s) \in {"idle", "begin", "sleep"}
        /\ \/ Phase(s)' = Phase(s)
           \/ Phase(s) = "idle" /\ Phase(s)' = "off"
    BY <2>1, <2>2 DEF Phase, Critical
  <2>9. UNCHANGED Clock(s)
    BY <2>1, <2>8 DEF Clock, Judging
  <2> QED
    BY <2>1, <2>4, <2>6, <2>7, <2>8, <2>9 DEF PumpStep, Forces
<1>13. ASSUME NEW t \in Tasks, RecordOff(t) \/ FinishForcedOff(t)
       PROVE  PumpStep(s)
  <2>1. /\ UNCHANGED <<pin, slots, epoch, now, entry>>
        /\ \/ pc'["relay"] = pc["relay"]
           \/ pc["relay"] = "recordOff" /\ pc'["relay"] = "sleep"
    BY <1>0, <1>13 DEF RecordOff, FinishForcedOff, controllerVars, tickVars
  <2>2. CASE pc'["relay"] = pc["relay"]
    BY <1>b, <2>1, <2>2
  <2>3. CASE pc["relay"] = "recordOff" /\ pc'["relay"] = "sleep"
    BY <1>a, <2>1, <2>3 DEF Phase, Clock, TimePasses, Judging
  <2> QED
    BY <2>1, <2>2, <2>3
<1>14. CASE SetClock
  <2>1. UNCHANGED <<pin, slots, now, entry, pc>>
    BY <1>14 DEF SetClock, controllerVars, tickVars
  <2>2. UNCHANGED IsOn(s) /\ UNCHANGED Stamps(s) /\ UNCHANGED Phase(s)
        /\ ~TimePasses
    BY <2>1 DEF IsOn, Stamps, Phase, TimePasses
  <2>3. Clock(s)' = IF Phase(s) \in Judging THEN Clock(s) ELSE epoch'
    BY <2>1, <2>2 DEF Clock
  <2> QED
    BY <2>2, <2>3 DEF PumpStep, SetsClock
<1>15. CASE \/ ApiConfigCommit
            \/ \E wait \in BOOLEAN : ApiConfigUnchanged(wait)
            \/ LoopBody \/ ConsumeSafetyLimitEvent \/ ConsumeSensorStaleEvent
            \/ ConsumeControllerDataChanges \/ PushControllerData
            \/ ServerAppliesChange \/ PublishSnapshot \/ LoopDelay
            \/ UNCHANGED vars
  <2>1. /\ pc'["relay"] = pc["relay"]
        /\ UNCHANGED <<pin, slots, epoch, now, entry>>
    BY <1>0, <1>15
       DEF ApiConfigCommit, ApiConfigUnchanged, LoopBody,
           ConsumeSafetyLimitEvent, ConsumeSensorStaleEvent,
           ConsumeControllerDataChanges, PushControllerData,
           ServerAppliesChange, PublishSnapshot, LoopDelay, vars,
           controllerVars, tickVars
  <2> QED
    BY <1>b, <2>1
<1> QED
  BY <1>1, <1>2, <1>3, <1>4, <1>5, <1>6, <1>7, <1>8, <1>9, <1>10, <1>11,
     <1>12, <1>13, <1>14, <1>15 DEF Next, RelayTask, LoopTask

-----------------------------------------------------------------------------
(* The inductive invariant of a pump *)

Seen(s) == runs[s].marks \cup runs[s].recent

\* The marks that leave a run's length, or a pause's, to be counted.
Steady(marks) == \A m \in {"remap", "back"} : m \notin marks
Uncut(marks) == \A m \in {"boot", "cut", "ahead", "remap"} : m \notin marks

\* The tick's time is the clock's, unless the clock was set meanwhile; a
\* slot that is judged is a pump's; and what was forced off is off.
TickTime(s) ==
    /\ Phase(s) \in Judging =>
          /\ "ahead" \in runs[s].recent \/ epoch <= now
          /\ "back" \in runs[s].recent \/ now <= epoch
    /\ Phase(s) \in {"open", "done"} => slots[s].type = "WaterPump"
    /\ Phase(s) = "off" => ~IsOn(s)

\* A relay that is on, outside the part of a tick that may still revoke it,
\* is stamped.  A stamp without a relay that is on is left by a forced-off.
StampInv(s) ==
    LET r == runs[s]
        onSince == slots[s].pumpOnSince
    IN  /\ Phase(s) # "open" /\ IsOn(s) => onSince # 0
        /\ Phase(s) # "open" /\ ~IsOn(s) /\ onSince # 0 =>
              "cut" \in IF r.on THEN r.recent ELSE Seen(s)
        /\ onSince # 0 =>
              \/ onSince <= Clock(s)
              \/ "back" \in r.recent
              \/ "back" \in r.marks /\ (r.on \/ "cut" \in Seen(s))

\* What the configurations allow a run of n samples, or a pause.
RoomLeft(n) == \E c \in Configs : \/ c.waterPumpMaxRunSeconds = 0
                                  \/ n < c.waterPumpMaxRunSeconds
WithinCeiling(n) == \E c \in Configs : \/ c.waterPumpMaxRunSeconds = 0
                                       \/ n <= c.waterPumpMaxRunSeconds
CooledDown(n) == \E c \in Configs : n >= c.waterPumpCooldownSeconds

\* A run began no later than its stamp says, and the ceiling that was judged
\* last leaves room for one more sample.
RunInv(s) ==
    LET r == runs[s]
        onSince == slots[s].pumpOnSince
    IN  r.on /\ Steady(Seen(s)) =>
          /\ onSince # 0 => onSince + r.n <= Clock(s) \/ epoch = MaxEpoch
          /\ onSince = 0 => Phase(s) \in {"done", "sleep"} \/ epoch = MaxEpoch
          /\ Phase(s) \in {"done", "sleep"} /\ IsOn(s) =>
                epoch = MaxEpoch \/ RoomLeft(r.n)
          /\ WithinCeiling(r.n)

\* A pause is as long as its stamp says, so a relay that is on again has
\* passed the cooldown.
RestInv(s) ==
    LET r == runs[s]
        offSince == slots[s].pumpOffSince
    IN  /\ ~r.on /\ Uncut(Seen(s)) =>
              /\ offSince # 0
              /\ Clock(s) <= offSince + r.n \/ r.n = HistoryCap
              /\ Phase(s) \in {"done", "sleep"} /\ IsOn(s) =>
                    CooledDown(r.n)
        /\ r.on /\ Uncut(r.recent) /\ slots[s].pumpOnSince = 0 =>
              offSince # 0 /\ Clock(s) <= offSince

PumpInv(s) ==
    /\ TickTime(s)
    /\ slots[s].type = "WaterPump" => StampInv(s) /\ RunInv(s) /\ RestInv(s)

RunsType == runs \in [SlotNumbers -> Run]

\* The history counts within its bounds.
LEMMA StepRuns ==
    ASSUME RunsType, HistoryStep
    PROVE  RunsType'
<1>1. 0 \in 0..HistoryCap /\ 1 \in 0..HistoryCap
  BY HistoryAssumption
<1>2. ASSUME NEW r \in Run, NEW on \in BOOLEAN
      PROVE  Sampled(r, on) \in Run
  <2>1. Capped(r.n) \in 0..HistoryCap
    BY HistoryAssumption DEF Run, Capped
  <2>2. Inherited(r) \subseteq Marks
    BY DEF Inherited, Run
  <2> QED
    BY <1>1, <2>1, <2>2 DEF Run, Sampled
<1>3. ASSUME NEW s \in SlotNumbers
      PROVE  MarksOf(s) \subseteq Marks
  BY DEF MarksOf, Marks
<1>4. ASSUME NEW r \in Run, NEW M \in SUBSET Marks
      PROVE  [r EXCEPT !.recent = @ \cup M] \in Run
  BY DEF Run
<1>5. \A s \in SlotNumbers : IsOn(s) \in BOOLEAN
  BY DEF IsOn
<1> QED
  BY <1>2, <1>3, <1>4, <1>5 DEF RunsType, HistoryStep

\* A step in which no time passes keeps what was counted, and adds its marks.
LEMMA Unsampled ==
    ASSUME RunsType, HistoryStep, ~TimePasses, NEW s \in SlotNumbers
    PROVE  /\ runs'[s].on = runs[s].on /\ runs'[s].n = runs[s].n
           /\ runs'[s].marks = runs[s].marks
           /\ runs'[s].recent = runs[s].recent \cup MarksOf(s)
<1>1. runs'[s] = [runs[s] EXCEPT !.recent = @ \cup MarksOf(s)]
  BY DEF HistoryStep
<1>2. runs[s] \in Run
  BY DEF RunsType
<1> QED
  BY <1>1, <1>2 DEF Run

\* A sample takes over the recent marks.
LEMMA SampledSame ==
    ASSUME RunsType, HistoryStep, TimePasses, NEW s \in SlotNumbers,
           runs[s].on = IsOn(s)
    PROVE  /\ runs'[s].on = runs[s].on /\ runs'[s].n = Capped(runs[s].n)
           /\ runs'[s].marks = Seen(s) /\ runs'[s].recent = {}
<1>1. runs'[s] = Sampled(runs[s], IsOn(s))
  BY DEF HistoryStep
<1>2. runs[s] \in Run
  BY DEF RunsType
<1> QED
  BY <1>1, <1>2 DEF Run, Sampled, Seen

\* A sample that finds the other level starts a new count.
LEMMA SampledSwitch ==
    ASSUME RunsType, HistoryStep, TimePasses, NEW s \in SlotNumbers,
           runs[s].on # IsOn(s)
    PROVE  /\ runs'[s].on = IsOn(s) /\ runs'[s].n = 1
           /\ runs'[s].marks = runs[s].recent \cup Inherited(runs[s])
           /\ runs'[s].recent = {}
<1>1. runs'[s] = Sampled(runs[s], IsOn(s))
  BY DEF HistoryStep
<1>2. runs[s] \in Run
  BY DEF RunsType
<1> QED
  BY <1>1, <1>2 DEF Run, Sampled

\* What the marks of a step stand for.
LEMMA MarksMean ==
    ASSUME TypeOK, NEW s \in SlotNumbers
    PROVE  /\ epoch \in Nat
           /\ epoch' > epoch <=> "ahead" \in MarksOf(s)
           /\ epoch' < epoch <=> "back" \in MarksOf(s)
           /\ slots'[s].type # slots[s].type <=> "remap" \in MarksOf(s)
           /\ OutputsForced /\ PumpSlot(s) /\ IsOn(s) => "cut" \in MarksOf(s)
           /\ "boot" \notin MarksOf(s)
           /\ "cut" \in MarksOf(s) => IsOn(s) /\ OutputsForced
<1>1. deviceConfig \in Configs /\ epoch \in Nat
  BY DEF TypeOK
<1>2. OutputsForced /\ PumpSlot(s) /\ IsOn(s) => "cut" \in MarksOf(s)
  BY <1>1, PumpSlotEntry DEF MarksOf
<1> QED
  BY <1>1, <1>2 DEF MarksOf

-----------------------------------------------------------------------------
(* Every kind of step keeps it *)

\* A step in which no time passes, seen from the pump's slot.
Quiet(s) ==
    /\ runs'[s].on = runs[s].on /\ runs'[s].n = runs[s].n
    /\ runs'[s].marks = runs[s].marks
    /\ runs[s].recent \subseteq runs'[s].recent
    /\ Seen(s) \subseteq Seen(s)'
    /\ epoch' > epoch => "ahead" \in runs'[s].recent
    /\ epoch' < epoch => "back" \in runs'[s].recent
    /\ slots'[s].type # slots[s].type => "remap" \in runs'[s].recent
    /\ OutputsForced /\ IsOn(s) => "cut" \in runs'[s].recent

LEMMA QuietStep ==
    ASSUME TypeOK, RunsType, HistoryStep, ~TimePasses, NEW s \in SlotNumbers,
           PumpSlot(s)
    PROVE  Quiet(s)
<1>1. /\ runs'[s].on = runs[s].on /\ runs'[s].n = runs[s].n
      /\ runs'[s].marks = runs[s].marks
      /\ runs'[s].recent = runs[s].recent \cup MarksOf(s)
  BY Unsampled
<1>2. Seen(s)' = Seen(s) \cup MarksOf(s)
  BY <1>1 DEF Seen
<1> QED
  BY <1>1, <1>2, MarksMean DEF Quiet

\* The types the arithmetic below needs.
PumpTypes(s) ==
    /\ epoch \in Nat /\ now \in Nat \ {0} /\ Clock(s) \in Nat
    /\ slots[s].pumpOnSince \in Nat /\ slots[s].pumpOffSince \in Nat
    /\ runs[s].n \in Nat /\ runs[s].n <= HistoryCap /\ HistoryCap \in Nat
    /\ runs[s].on \in BOOLEAN

LEMMA PumpTyped ==
    ASSUME TypeOK, RunsType, NEW s \in SlotNumbers
    PROVE  PumpTypes(s)
<1>1. slots[s] \in SlotState /\ runs[s] \in Run
      /\ epoch \in Nat /\ now \in Nat \ {0}
  BY DEF TypeOK, RunsType
<1> QED
  BY <1>1, HistoryAssumption DEF PumpTypes, SlotState, Run, Clock

\* One lemma per kind of step.
LEMMA RestsKeeps ==
    ASSUME NEW s, PumpInv(s), Quiet(s), Rests(s), PumpTypes(s), PumpTypes(s)'
    PROVE  PumpInv(s)'
<1>1. /\ IsOn(s)' = IsOn(s) /\ epoch' = epoch /\ Clock(s)' = Clock(s)
      /\ slots'[s].type = slots[s].type
      /\ slots'[s].pumpOnSince = slots[s].pumpOnSince
      /\ slots'[s].pumpOffSince = slots[s].pumpOffSince
  BY DEF Rests, Stamps
<1>2. \/ Phase(s)' = Phase(s)
      \/ Phase(s) = "idle" /\ Phase(s)' = "begin"
      \/ Phase(s) = "off" /\ Phase(s)' = "sleep"
  BY DEF Rests
<1>3. TickTime(s)'
  BY <1>1, <1>2 DEF PumpInv, TickTime, Quiet, PumpTypes, Clock, Judging
<1>4. slots[s].type = "WaterPump" => StampInv(s)'
  BY <1>1, <1>2 DEF PumpInv, StampInv, Quiet, PumpTypes
<1>5. slots[s].type = "WaterPump" => RunInv(s)'
  BY <1>1, <1>2 DEF PumpInv, RunInv, Quiet, PumpTypes, Steady, TickTime
<1>6. slots[s].type = "WaterPump" => RestInv(s)'
  BY <1>1, <1>2 DEF PumpInv, RestInv, Quiet, PumpTypes, Uncut, TickTime
<1> QED
  BY <1>1, <1>3, <1>4, <1>5, <1>6 DEF PumpInv

LEMMA OpensKeeps ==
    ASSUME NEW s, PumpInv(s), Quiet(s), Opens(s), PumpTypes(s), PumpTypes(s)'
    PROVE  PumpInv(s)'
<1>1. /\ IsOn(s)' = IsOn(s) /\ epoch' = epoch /\ Clock(s)' = Clock(s)
      /\ Phase(s) = "begin" /\ Phase(s)' = "open"
      /\ slots'[s].type = "WaterPump"
  BY DEF Opens, Reassigned
<1>2. now' = now
  BY <1>1 DEF Clock, Judging
<1>3. \/ /\ slots[s].type = "WaterPump"
         /\ slots'[s].pumpOnSince = slots[s].pumpOnSince
         /\ slots'[s].pumpOffSince = slots[s].pumpOffSince
      \/ /\ "remap" \in runs'[s].recent /\ "remap" \in Seen(s)'
         /\ slots'[s].pumpOnSince = 0
  BY DEF Opens, Reassigned, Stamps, Quiet, Seen
<1>4. TickTime(s)'
  BY <1>1, <1>2 DEF PumpInv, TickTime, Quiet, Judging
<1>5. StampInv(s)'
  BY <1>1, <1>3 DEF PumpInv, StampInv, Quiet, PumpTypes
<1>6. RunInv(s)'
  BY <1>1, <1>3 DEF PumpInv, RunInv, Quiet, PumpTypes, Steady
<1>7. RestInv(s)'
  BY <1>1, <1>3 DEF PumpInv, RestInv, Quiet, PumpTypes, Uncut
<1> QED
  BY <1>4, <1>5, <1>6, <1>7 DEF PumpInv

LEMMA WritesKeeps ==
    ASSUME NEW s, PumpInv(s), Quiet(s), Writes(s), PumpTypes(s), PumpTypes(s)'
    PROVE  PumpInv(s)'
<1>1. /\ epoch' = epoch /\ Clock(s)' = Clock(s)
      /\ Phase(s) = "open" /\ Phase(s)' = "open"
      /\ slots'[s].type = slots[s].type
      /\ slots'[s].pumpOnSince = slots[s].pumpOnSince
      /\ slots'[s].pumpOffSince = slots[s].pumpOffSince
  BY DEF Writes, Stamps
<1>2. now' = now
  BY <1>1 DEF Clock, Judging
<1>4. TickTime(s)'
  BY <1>1, <1>2 DEF PumpInv, TickTime, Quiet, Judging
<1>5. slots[s].type = "WaterPump" => StampInv(s)'
  BY <1>1 DEF PumpInv, StampInv, Quiet, PumpTypes
<1>6. slots[s].type = "WaterPump" => RunInv(s)'
  BY <1>1 DEF PumpInv, RunInv, Quiet, PumpTypes, Steady
<1>7. slots[s].type = "WaterPump" => RestInv(s)'
  BY <1>1 DEF PumpInv, RestInv, Quiet, PumpTypes, Uncut
<1> QED
  BY <1>1, <1>4, <1>5, <1>6, <1>7 DEF PumpInv

LEMMA EndsKeeps ==
    ASSUME NEW s, PumpInv(s), Quiet(s), Ends(s), PumpTypes(s), PumpTypes(s)'
    PROVE  PumpInv(s)'
<1>1. /\ IsOn(s)' = IsOn(s) /\ epoch' = epoch
      /\ Phase(s) = "done" /\ Phase(s)' = "sleep"
      /\ slots'[s].type = slots[s].type
      /\ slots'[s].pumpOnSince = slots[s].pumpOnSince
      /\ slots'[s].pumpOffSince = slots[s].pumpOffSince
  BY DEF Ends, Stamps
<1>2. Clock(s) = now /\ Clock(s)' = epoch
  BY <1>1 DEF Clock, Judging
<1>3. /\ "ahead" \in runs[s].recent \/ Clock(s)' <= Clock(s)
      /\ "back" \in runs[s].recent \/ Clock(s) <= Clock(s)'
  BY <1>1, <1>2 DEF PumpInv, TickTime, Judging
<1>4. TickTime(s)'
  BY <1>1 DEF TickTime, Judging
<1>5. slots[s].type = "WaterPump" => StampInv(s)'
  BY <1>1, <1>3 DEF PumpInv, StampInv, Quiet, PumpTypes
<1>6. slots[s].type = "WaterPump" => RunInv(s)'
  BY <1>1, <1>3 DEF PumpInv, RunInv, Quiet, PumpTypes, Steady, Seen
<1>7. slots[s].type = "WaterPump" => RestInv(s)'
  BY <1>1, <1>3 DEF PumpInv, RestInv, Quiet, PumpTypes, Uncut, Seen
<1> QED
  BY <1>1, <1>4, <1>5, <1>6, <1>7 DEF PumpInv

LEMMA SetsClockKeeps ==
    ASSUME NEW s, PumpInv(s), Quiet(s), SetsClock(s), epoch' <= MaxEpoch,
           epoch <= MaxEpoch, PumpTypes(s), PumpTypes(s)'
    PROVE  PumpInv(s)'
<1>1. /\ IsOn(s)' = IsOn(s) /\ Phase(s)' = Phase(s)
      /\ slots'[s].type = slots[s].type
      /\ slots'[s].pumpOnSince = slots[s].pumpOnSince
      /\ slots'[s].pumpOffSince = slots[s].pumpOffSince
  BY DEF SetsClock, Stamps
<1>2. Clock(s)' = IF Phase(s) \in Judging THEN Clock(s) ELSE epoch'
  BY DEF SetsClock
<1>3. MaxEpoch \in Nat
  BY EpochAssumption
<1>4. /\ Clock(s)' > Clock(s) => "ahead" \in runs'[s].recent
      /\ Clock(s)' < Clock(s) => "back" \in runs'[s].recent
      /\ epoch = MaxEpoch /\ epoch' # MaxEpoch => "back" \in runs'[s].recent
      /\ Phase(s) \in Judging => Clock(s)' = Clock(s)
  BY <1>2, <1>3 DEF Quiet, Clock, PumpTypes
<1>5. TickTime(s)'
  <2>1. Phase(s) \in Judging => now' = now
    BY <1>1, <1>4 DEF Clock
  <2> QED
    BY <1>1, <2>1 DEF PumpInv, TickTime, Quiet, PumpTypes
<1>6. slots[s].type = "WaterPump" => StampInv(s)'
  BY <1>1, <1>4 DEF PumpInv, StampInv, Quiet, PumpTypes
<1>7. slots[s].type = "WaterPump" => RunInv(s)'
  BY <1>1, <1>4 DEF PumpInv, RunInv, Quiet, PumpTypes, Steady, Seen
<1>8. slots[s].type = "WaterPump" => RestInv(s)'
  BY <1>1, <1>4 DEF PumpInv, RestInv, Quiet, PumpTypes, Uncut, Seen
<1> QED
  BY <1>1, <1>5, <1>6, <1>7, <1>8 DEF PumpInv

LEMMA ForcesKeeps ==
    ASSUME NEW s, PumpInv(s), Quiet(s), Forces(s), PumpTypes(s), PumpTypes(s)'
    PROVE  PumpInv(s)'
<1>1. ~IsOn(s)' /\ epoch' = epoch
      /\ (IsOn(s) => "cut" \in runs'[s].recent)
  BY DEF Forces, Quiet
<1>2. CASE /\ Phase(s) \in {"idle", "begin", "sleep"}
           /\ \/ Phase(s)' = Phase(s)
              \/ Phase(s) = "idle" /\ Phase(s)' = "off"
           /\ UNCHANGED <<Stamps(s), Clock(s)>>
  <2>1. /\ slots'[s].type = slots[s].type /\ Clock(s)' = Clock(s)
        /\ slots'[s].pumpOnSince = slots[s].pumpOnSince
        /\ slots'[s].pumpOffSince = slots[s].pumpOffSince
    BY <1>2 DEF Stamps
  <2>2. Phase(s)' \in Judging => Phase(s)' = Phase(s) /\ now' = now
    BY <1>2, <2>1 DEF Clock, Judging
  <2>3. TickTime(s)'
    BY <1>1, <1>2, <2>1, <2>2 DEF PumpInv, TickTime, Quiet, Judging
  <2>4. slots[s].type = "WaterPump" => StampInv(s)'
    BY <1>1, <1>2, <2>1 DEF PumpInv, StampInv, Quiet, PumpTypes, Seen
  <2>5. slots[s].type = "WaterPump" => RunInv(s)'
    BY <1>1, <1>2, <2>1 DEF PumpInv, RunInv, Quiet, PumpTypes, Steady, Seen
  <2>6. slots[s].type = "WaterPump" => RestInv(s)'
    BY <1>1, <1>2, <2>1 DEF PumpInv, RestInv, Quiet, PumpTypes, Uncut, Seen
  <2> QED
    BY <2>1, <2>3, <2>4, <2>5, <2>6 DEF PumpInv
<1>3. CASE Phase(s) = "begin" /\ Phase(s)' = "off" /\ Reassigned(s)
  <2>1. \/ /\ slots[s].type = "WaterPump"
           /\ slots'[s].pumpOnSince = slots[s].pumpOnSince
           /\ slots'[s].pumpOffSince = slots[s].pumpOffSince
        \/ /\ "remap" \in runs'[s].recent /\ "remap" \in Seen(s)'
           /\ slots'[s].pumpOnSince = 0
    BY <1>3 DEF Reassigned, Stamps, Quiet, Seen
  <2>2. Clock(s) = now /\ Clock(s)' = epoch
    BY <1>1, <1>3 DEF Clock, Judging
  <2>3. /\ "ahead" \in runs[s].recent \/ Clock(s)' <= Clock(s)
        /\ "back" \in runs[s].recent \/ Clock(s) <= Clock(s)'
    BY <1>3, <2>2 DEF PumpInv, TickTime, Judging
  <2>4. TickTime(s)'
    BY <1>1, <1>3 DEF TickTime, Judging
  <2>5. StampInv(s)'
    BY <1>1, <1>3, <2>1, <2>3 DEF PumpInv, StampInv, Quiet, PumpTypes, Seen
  <2>6. RunInv(s)'
    BY <1>1, <1>3, <2>1, <2>3
       DEF PumpInv, RunInv, Quiet, PumpTypes, Steady, Seen
  <2>7. RestInv(s)'
    BY <1>1, <1>3, <2>1, <2>3
       DEF PumpInv, RestInv, Quiet, PumpTypes, Uncut, Seen
  <2> QED
    BY <2>4, <2>5, <2>6, <2>7 DEF PumpInv
<1> QED
  BY <1>2, <1>3 DEF Forces

LEMMA JudgesKeeps ==
    ASSUME NEW s, PumpInv(s), Quiet(s), Judges(s), PumpTypes(s), PumpTypes(s)',
           deviceConfig \in Configs
    PROVE  PumpInv(s)'
<1> DEFINE st == slots[s]
           v == PumpVerdict(st, IsOn(s))
           stopping == ~v.on /\ v.onSince # 0
           max == deviceConfig.waterPumpMaxRunSeconds
           cooldown == deviceConfig.waterPumpCooldownSeconds
<1>1. /\ epoch' = epoch /\ Clock(s)' = Clock(s)
      /\ Phase(s) = "open" /\ Phase(s)' = "done"
      /\ slots'[s].type = st.type
      /\ IsOn(s)' = v.on
      /\ slots'[s].pumpOnSince = IF stopping THEN 0 ELSE v.onSince
      /\ slots'[s].pumpOffSince = IF stopping THEN now ELSE st.pumpOffSince
  BY DEF Judges
<1>2. Clock(s) = now /\ now' = now
  BY <1>1 DEF Clock, Judging
<1>3. max \in Nat /\ cooldown \in Nat /\ cooldown <= HistoryCap
  BY EntryType, HistoryAssumption DEF DeviceConfig
<1>4. /\ v.on \in BOOLEAN
      /\ v.on => /\ v.onSince = IF st.pumpOnSince = 0 THEN now
                                ELSE st.pumpOnSince
                 /\ ~runTimeCeilingHit(now, v.onSince, max)
                 /\ ~cooldownActive(now, st.pumpOffSince, cooldown)
      /\ v.onSince \in {st.pumpOnSince, now}
      /\ st.pumpOnSince # 0 => v.onSince = st.pumpOnSince
  BY DEF PumpVerdict
<1> HIDE DEF v
<1>5. TickTime(s)'
  BY <1>1, <1>2 DEF PumpInv, TickTime, Quiet, Judging
<1>6. ASSUME st.type = "WaterPump"  PROVE StampInv(s)'
  BY <1>1, <1>2, <1>4, <1>6
     DEF PumpInv, StampInv, Quiet, PumpTypes, Seen
<1>7. ASSUME st.type = "WaterPump"  PROVE RunInv(s)'
  <2>1. SUFFICES ASSUME runs[s].on, Steady(Seen(s)')
                 PROVE  RunInv(s)'
    BY DEF RunInv, Quiet
  <2>2. Steady(Seen(s))
    BY <2>1 DEF Steady, Quiet
  <2>3. /\ st.pumpOnSince # 0 => \/ st.pumpOnSince + runs[s].n <= now
                                 \/ epoch = MaxEpoch
        /\ st.pumpOnSince = 0 => epoch = MaxEpoch
        /\ WithinCeiling(runs[s].n)
    BY <1>1, <1>2, <1>7, <2>1, <2>2 DEF PumpInv, RunInv
  <2>4. v.on => epoch = MaxEpoch \/ RoomLeft(runs[s].n)
    <3>1. SUFFICES ASSUME v.on, epoch # MaxEpoch
                   PROVE  RoomLeft(runs[s].n)
      OBVIOUS
    <3>2. st.pumpOnSince # 0 /\ v.onSince = st.pumpOnSince
          /\ st.pumpOnSince + runs[s].n <= now
      BY <1>4, <2>3, <3>1
    <3>3. max = 0 \/ runs[s].n < max
      BY <1>3, <1>4, <3>1, <3>2 DEF runTimeCeilingHit, PumpTypes
    <3> QED
      BY <3>3 DEF RoomLeft
  <2>5. slots'[s].pumpOnSince # 0 =>
          slots'[s].pumpOnSince + runs[s].n <= now \/ epoch = MaxEpoch
    BY <1>1, <1>4, <2>3
  <2> QED
    BY <1>1, <1>2, <2>3, <2>4, <2>5 DEF RunInv, Quiet
<1>8. ASSUME st.type = "WaterPump"  PROVE RestInv(s)'
  <2>1. ASSUME ~runs[s].on, Uncut(Seen(s)')
        PROVE  /\ slots'[s].pumpOffSince # 0
               /\ now <= slots'[s].pumpOffSince + runs[s].n
                    \/ runs[s].n = HistoryCap
               /\ v.on => CooledDown(runs[s].n)
    <3>1. Uncut(Seen(s))
      BY <2>1 DEF Uncut, Quiet
    <3>2. /\ st.pumpOffSince # 0
          /\ now <= st.pumpOffSince + runs[s].n \/ runs[s].n = HistoryCap
      BY <1>1, <1>2, <1>8, <2>1, <3>1 DEF PumpInv, RestInv
    <3>3. v.on => runs[s].n >= cooldown
      BY <1>3, <1>4, <3>2 DEF cooldownActive, PumpTypes
    <3>4. v.on => CooledDown(runs[s].n)
      BY <3>3 DEF CooledDown
    <3>5. slots'[s].pumpOffSince \in {st.pumpOffSince, now}
      BY <1>1
    <3>6. slots'[s].pumpOffSince = now => now # 0
      BY <1>1, <1>4, <3>2 DEF PumpTypes
    <3> QED
      BY <3>2, <3>4, <3>5, <3>6 DEF PumpTypes
  <2>2. ASSUME runs[s].on, Uncut(runs'[s].recent), slots'[s].pumpOnSince = 0
        PROVE  slots'[s].pumpOffSince # 0 /\ now <= slots'[s].pumpOffSince
    <3>1. Uncut(runs[s].recent)
      BY <2>2 DEF Uncut, Quiet
    <3>2. st.pumpOnSince = 0 => st.pumpOffSince # 0 /\ now <= st.pumpOffSince
      BY <1>1, <1>2, <1>8, <2>2, <3>1 DEF PumpInv, RestInv
    <3> QED
      BY <1>1, <1>4, <2>2, <3>2 DEF PumpTypes
  <2> QED
    BY <1>1, <1>2, <2>1, <2>2 DEF RestInv, Quiet
<1> QED
  BY <1>1, <1>5, <1>6, <1>7, <1>8 DEF PumpInv

LEMMA PassesKeeps ==
    ASSUME TypeOK, RunsType, HistoryStep, NEW s \in SlotNumbers, PumpSlot(s),
           PumpInv(s), Passes(s), PumpTypes(s), PumpTypes(s)',
           epoch <= MaxEpoch
    PROVE  PumpInv(s)'
<1>1. /\ IsOn(s)' = IsOn(s)
      /\ Phase(s) = "sleep" /\ Phase(s)' = "idle"
      /\ slots'[s].type = slots[s].type
      /\ slots'[s].pumpOnSince = slots[s].pumpOnSince
      /\ slots'[s].pumpOffSince = slots[s].pumpOffSince
  BY DEF Passes, Stamps
<1>2. Clock(s) = epoch /\ Clock(s)' = epoch'
  BY <1>1 DEF Clock, Judging
<1>3. TickTime(s)'
  BY <1>1 DEF TickTime, Judging
<1>4. CASE ~TimePasses
  <2>1. MaxEpoch \in Nat
    BY EpochAssumption
  <2>2. epoch' = epoch /\ epoch = MaxEpoch
    BY <1>4, <2>1 DEF Passes, PumpTypes
  <2>3. Quiet(s)
    BY <1>4, QuietStep
  <2>4. slots[s].type = "WaterPump" => StampInv(s)'
    BY <1>1, <1>2, <2>2, <2>3 DEF PumpInv, StampInv, Quiet, PumpTypes
  <2>5. slots[s].type = "WaterPump" => RunInv(s)'
    BY <1>1, <1>2, <2>2, <2>3 DEF PumpInv, RunInv, Quiet, PumpTypes, Steady
  <2>6. slots[s].type = "WaterPump" => RestInv(s)'
    BY <1>1, <1>2, <2>2, <2>3 DEF PumpInv, RestInv, Quiet, PumpTypes, Uncut
  <2> QED
    BY <1>1, <1>3, <2>4, <2>5, <2>6 DEF PumpInv
<1>5. CASE TimePasses /\ runs[s].on = IsOn(s)
  <2>1. /\ runs'[s].on = runs[s].on /\ runs'[s].n = Capped(runs[s].n)
        /\ runs'[s].marks = Seen(s) /\ runs'[s].recent = {}
    BY <1>5, SampledSame
  <2>2. Seen(s)' = Seen(s) /\ epoch < MaxEpoch /\ epoch' = epoch + 1
    BY <1>5, <2>1 DEF Seen, Passes
  <2>3. /\ runs'[s].n <= runs[s].n + 1
        /\ runs[s].n < HistoryCap => runs'[s].n = runs[s].n + 1
        /\ runs[s].n = HistoryCap => runs'[s].n = HistoryCap
    BY <2>1 DEF Capped, PumpTypes
  <2>4. slots[s].type = "WaterPump" => StampInv(s)'
    BY <1>1, <1>2, <1>5, <2>1, <2>2 DEF PumpInv, StampInv, PumpTypes, Seen
  <2>5. ASSUME slots[s].type = "WaterPump"  PROVE RunInv(s)'
    <3>1. SUFFICES ASSUME runs[s].on, Steady(Seen(s))
                   PROVE  RunInv(s)'
      BY <2>1, <2>2 DEF RunInv
    <3>2. /\ slots[s].pumpOnSince # 0
          /\ slots[s].pumpOnSince + runs[s].n <= epoch
          /\ RoomLeft(runs[s].n)
      BY <1>1, <1>2, <1>5, <2>2, <2>5, <3>1
         DEF PumpInv, StampInv, RunInv, PumpTypes
    <3>3. WithinCeiling(runs'[s].n)
      <4>1. PICK c \in Configs : \/ c.waterPumpMaxRunSeconds = 0
                                 \/ runs[s].n < c.waterPumpMaxRunSeconds
        BY <3>2 DEF RoomLeft
      <4>2. c.waterPumpMaxRunSeconds \in Nat
        BY <4>1, ConfigAssumption DEF DeviceConfig
      <4>3. \/ c.waterPumpMaxRunSeconds = 0
            \/ runs'[s].n <= c.waterPumpMaxRunSeconds
        BY <2>3, <4>1, <4>2 DEF PumpTypes
      <4> QED
        BY <4>1, <4>3 DEF WithinCeiling
    <3> QED
      BY <1>1, <1>2, <2>2, <2>3, <3>2, <3>3 DEF RunInv, PumpTypes
  <2>6. slots[s].type = "WaterPump" => RestInv(s)'
    BY <1>1, <1>2, <1>5, <2>1, <2>2, <2>3
       DEF PumpInv, RestInv, PumpTypes, StampInv, Uncut
  <2> QED
    BY <1>1, <1>3, <2>4, <2>5, <2>6 DEF PumpInv
<1>6. CASE TimePasses /\ runs[s].on # IsOn(s)
  <2>1. /\ runs'[s].on = IsOn(s) /\ runs'[s].n = 1
        /\ runs'[s].marks = runs[s].recent \cup Inherited(runs[s])
        /\ runs'[s].recent = {}
    BY <1>6, SampledSwitch
  <2>2. Seen(s)' = runs[s].recent \cup Inherited(runs[s])
        /\ epoch < MaxEpoch /\ epoch' = epoch + 1
    BY <1>6, <2>1 DEF Seen, Passes
  <2>3. /\ "cut" \in Seen(s) /\ "back" \in runs[s].marks => "back" \in Seen(s)'
        /\ runs[s].recent \subseteq Seen(s)'
    BY <2>2 DEF Seen, Inherited
  <2>a. IsOn(s) <=> ~runs[s].on
    BY <1>6 DEF PumpTypes, IsOn
  <2>4. slots[s].type = "WaterPump" => StampInv(s)'
    BY <1>1, <1>2, <2>1, <2>2, <2>3, <2>a
       DEF PumpInv, StampInv, PumpTypes, Seen
  <2>5. ASSUME slots[s].type = "WaterPump"  PROVE RunInv(s)'
    <3>1. SUFFICES ASSUME ~runs[s].on, IsOn(s), Steady(Seen(s)')
                   PROVE  RunInv(s)'
      BY <1>6, <2>1 DEF RunInv, PumpTypes
    <3>2. slots[s].pumpOnSince # 0 /\ slots[s].pumpOnSince <= epoch
      BY <1>1, <1>2, <2>3, <2>5, <3>1
         DEF PumpInv, StampInv, Steady
    <3>3. WithinCeiling(1)
      <4>1. deviceConfig \in Configs
        BY DEF TypeOK
      <4>2. deviceConfig.waterPumpMaxRunSeconds \in Nat
        BY <4>1, ConfigAssumption DEF DeviceConfig
      <4>3. \/ deviceConfig.waterPumpMaxRunSeconds = 0
            \/ 1 <= deviceConfig.waterPumpMaxRunSeconds
        BY <4>2
      <4> QED
        BY <4>1, <4>3 DEF WithinCeiling
    <3> QED
      BY <1>1, <1>2, <2>1, <2>2, <3>2, <3>3 DEF RunInv, PumpTypes
  <2>6. ASSUME slots[s].type = "WaterPump"  PROVE RestInv(s)'
    <3>1. ASSUME runs[s].on, ~IsOn(s), Uncut(Seen(s)')
          PROVE  slots[s].pumpOffSince # 0 /\ epoch <= slots[s].pumpOffSince
      <4>1. Uncut(runs[s].recent)
        BY <2>3, <3>1 DEF Uncut
      <4>2. slots[s].pumpOnSince = 0
        BY <1>1, <2>6, <3>1, <4>1 DEF PumpInv, StampInv, Uncut
      <4> QED
        BY <1>2, <2>6, <3>1, <4>1, <4>2 DEF PumpInv, RestInv
    <3>2. IsOn(s) <=> ~runs[s].on
      BY <1>6 DEF PumpTypes, IsOn
    <3> QED
      BY <1>1, <1>2, <2>1, <2>2, <2>6, <3>1, <3>2
         DEF RestInv, PumpInv, StampInv, PumpTypes
  <2> QED
    BY <1>1, <1>3, <2>4, <2>5, <2>6 DEF PumpInv
<1>7. runs[s].on = IsOn(s) \/ runs[s].on # IsOn(s)
  OBVIOUS
<1> QED
  BY <1>4, <1>5, <1>6, <1>7

-----------------------------------------------------------------------------
(* The ceiling and the cooldown *)

\* The inductive invariant of an installation.
PumpsInv ==
    /\ TypeOK /\ TickInv /\ RunsType /\ EntryInv
    /\ \A s \in SlotNumbers : PumpSlot(s) => PumpInv(s)

LEMMA InitPumps == HInit => PumpsInv
<1> SUFFICES ASSUME HInit
             PROVE  PumpsInv
  OBVIOUS
<1>1. Init
  BY DEF HInit
<1>2. TypeOK /\ TickInv
  BY <1>1, InitType DEF Init, TickInv, InTick, Tasks
<1>3. RunsType
  BY HistoryAssumption DEF HInit, RunsType, Run, Marks
<1>4. pc["relay"] = "check" /\ epoch = BootEpoch /\ entry = 1
  BY <1>1 DEF Init, Tasks
<1>5. EntryInv
  BY <1>4, EpochAssumption DEF EntryInv, InTick
<1>6. ASSUME NEW s \in SlotNumbers  PROVE PumpInv(s)
  <2>1. slots[s].type = "None"
    BY <1>1 DEF Init
  <2>2. Phase(s) = "idle"
    BY <1>4 DEF Phase
  <2> QED
    BY <2>1, <2>2 DEF PumpInv, TickTime, Judging
<1> QED
  BY <1>2, <1>3, <1>5, <1>6 DEF PumpsInv

LEMMA StepPumps == PumpsInv /\ [InstallationNext]_hvars => PumpsInv'
<1> SUFFICES ASSUME PumpsInv, [InstallationNext]_hvars
             PROVE  PumpsInv'
  OBVIOUS
<1>1. CASE UNCHANGED hvars
  <2>1. /\ UNCHANGED <<vars, history>>
        /\ UNCHANGED <<deviceConfig, epoch, pin, slots, pc, entry, now, runs>>
    BY <1>1 DEF hvars, vars, history, controllerVars, tickVars
  <2>2. [Next]_vars
    BY <2>1
  <2>3. TypeOK' /\ TickInv' /\ EntryInv'
    BY <2>2, StepType, StepTick, StepEntry DEF PumpsInv
  <2>4. RunsType'
    BY <2>1 DEF PumpsInv, RunsType
  <2>5. ASSUME NEW s \in SlotNumbers, PumpInv(s)  PROVE PumpInv(s)'
    <3>1. Phase(s)' = Phase(s)
      BY <2>1 DEF Phase
    <3>2. Clock(s)' = Clock(s)
      BY <2>1, <3>1 DEF Clock
    <3>3. /\ IsOn(s)' = IsOn(s) /\ Seen(s)' = Seen(s)
          /\ UNCHANGED <<epoch, now, slots, runs>>
      BY <2>1 DEF IsOn, Seen
    <3> QED
      BY <2>5, <3>1, <3>2, <3>3
         DEF PumpInv, TickTime, StampInv, RunInv, RestInv
  <2>6. \A s \in SlotNumbers : PumpSlot(s)' <=> PumpSlot(s)
    BY <2>1, PumpSlotStays
  <2> QED
    BY <2>3, <2>4, <2>5, <2>6 DEF PumpsInv
<1>2. CASE InstallationNext
  <2>1. /\ [Next]_vars /\ HistoryStep
        /\ deviceConfig'.relays = deviceConfig.relays
    BY <1>2 DEF InstallationNext, HNext
  <2>2. TypeOK' /\ TickInv' /\ EntryInv'
    BY <2>1, StepType, StepTick, StepEntry DEF PumpsInv
  <2>3. RunsType'
    BY <2>1, StepRuns DEF PumpsInv
  <2>4. ASSUME NEW s \in SlotNumbers, PumpSlot(s)'
        PROVE  PumpInv(s)'
    <3>1. PumpSlot(s) /\ PumpInv(s)
      BY <2>1, <2>4, PumpSlotStays DEF PumpsInv
    <3>2. PumpTypes(s)
      BY PumpTyped DEF PumpsInv
    <3>3. PumpTypes(s)'
      <4>1. epoch' \in Nat /\ now' \in Nat \ {0} /\ slots'[s] \in SlotState
            /\ runs'[s] \in Run
        BY <2>2, <2>3 DEF TypeOK, RunsType
      <4> QED
        BY <4>1, HistoryAssumption DEF PumpTypes, SlotState, Run, Clock
    <3>4. PumpStep(s)
      BY <2>1, <3>1, StepOfPump DEF PumpsInv
    <3>5. CASE Passes(s)
      BY <2>1, <3>1, <3>2, <3>3, <3>5, PassesKeeps DEF PumpsInv, EntryInv
    <3>6. CASE ~TimePasses
      <4>1. Quiet(s)
        BY <2>1, <3>1, <3>6, QuietStep DEF PumpsInv
      <4>2. epoch <= MaxEpoch /\ epoch' <= MaxEpoch /\ deviceConfig \in Configs
        BY <2>2 DEF PumpsInv, EntryInv, TypeOK
      <4> QED
        BY <3>1, <3>2, <3>3, <3>4, <3>5, <4>1, <4>2, RestsKeeps, OpensKeeps,
           WritesKeeps, JudgesKeeps, EndsKeeps, ForcesKeeps, SetsClockKeeps
           DEF PumpStep
    <3> QED
      BY <3>4, <3>5, <3>6 DEF PumpStep
  <2> QED
    BY <2>2, <2>3, <2>4 DEF PumpsInv
<1> QED
  BY <1>1, <1>2

\* In one installation no run of a pump's relay is longer, in real ticks,
\* than a run-time ceiling allows, for every number of slots, every set of
\* configurations and every interleaving (applyWaterPumpSafetyLimits).
THEOREM PumpCeiling == InstallationSpec => []PumpRunCeiling
<1>1. PumpsInv => PumpRunCeiling
  <2> SUFFICES ASSUME PumpsInv, NEW s \in SlotNumbers, PumpSlot(s),
                      slots[s].type = "WaterPump", runs[s].on,
                      (runs[s].marks \cup runs[s].recent)
                         \cap {"remap", "back"} = {}
               PROVE  \E c \in Configs :
                         \/ c.waterPumpMaxRunSeconds = 0
                         \/ runs[s].n <= c.waterPumpMaxRunSeconds
    BY DEF PumpRunCeiling
  <2>1. Steady(Seen(s))
    BY DEF Steady, Seen
  <2>2. WithinCeiling(runs[s].n)
    BY <2>1 DEF PumpsInv, PumpInv, RunInv
  <2> QED
    BY <2>2 DEF WithinCeiling
<1> QED
  BY <1>1, InitPumps, StepPumps, PTL DEF InstallationSpec

\* In one installation a pump that stopped rests for a whole cooldown, in
\* real ticks, before its relay is on again (applyWaterPumpSafetyLimits).
THEOREM PumpRests == InstallationSpec => PumpCooldown
<1> DEFINE Rested(s) ==
             (/\ PumpSlot(s) /\ slots[s].type = "WaterPump"
              /\ Switches(s) /\ ~runs[s].on
              /\ (runs[s].marks \cup runs[s].recent)
                   \cap {"boot", "cut", "ahead", "remap"} = {}) =>
                 \E c \in Configs : runs[s].n >= c.waterPumpCooldownSeconds
<1>1. PumpsInv /\ [InstallationNext]_hvars =>
        [\A s \in SlotNumbers : Rested(s)]_hvars
  <2> SUFFICES ASSUME PumpsInv, NEW s \in SlotNumbers, PumpSlot(s),
                      slots[s].type = "WaterPump", Switches(s), ~runs[s].on,
                      (runs[s].marks \cup runs[s].recent)
                        \cap {"boot", "cut", "ahead", "remap"} = {}
               PROVE  \E c \in Configs :
                         runs[s].n >= c.waterPumpCooldownSeconds
    OBVIOUS
  <2>1. Uncut(Seen(s))
    BY DEF Uncut, Seen
  <2>2. IsOn(s) /\ Phase(s) = "sleep"
    BY DEF Switches, TimePasses, Phase, IsOn, PumpsInv, RunsType, Run
  <2>3. CooledDown(runs[s].n)
    BY <2>1, <2>2 DEF PumpsInv, PumpInv, RestInv
  <2> QED
    BY <2>3 DEF CooledDown
<1> QED
  BY <1>1, InitPumps, StepPumps, PTL DEF InstallationSpec, PumpCooldown

-----------------------------------------------------------------------------
(* The time and the slots of a safety pass *)

\* The safety pass judges the slots of pumps on a plain relay only.
LimitsInv == pc["relay"] = "pumpLimits" => PumpSlot(entry)

\* No other step touches the slot the pass is judging.
LEMMA StepLimits ==
    ASSUME TypeOK, LimitsInv, [Next]_vars
    PROVE  LimitsInv'
<1> USE DEF Goto, Tasks
<1>0. pc \in [Tasks -> Labels]
  BY DEF TypeOK
<1>1. SUFFICES ASSUME pc'["relay"] = "pumpLimits"
               PROVE  /\ UNCHANGED <<entry, deviceConfig>>
                      /\ PumpSlot(entry)
  BY DEF LimitsInv, PumpSlot
<1>2. CASE PumpWrite
  BY <1>0, <1>1, <1>2 DEF PumpWrite
<1>3. CASE \/ RelayCheckEnabled \/ RelaySnapshotGet \/ InitController
           \/ DecideFunction \/ DispatchSlot \/ RecordFunction
           \/ BeginSafetyPass \/ ApplyWaterPumpSafetyLimits
           \/ FinishTick \/ RelayDelay
  BY <1>0, <1>1, <1>3
     DEF RelayCheckEnabled, RelaySnapshotGet, InitController, DecideFunction,
         DispatchSlot, RecordFunction, BeginSafetyPass,
         ApplyWaterPumpSafetyLimits, FinishTick, RelayDelay
<1>4. CASE \E t \in Tasks :
              ForceAllRelaysOff(t) \/ RecordOff(t) \/ FinishForcedOff(t)
  <2>1. /\ UNCHANGED <<entry, deviceConfig>>
        /\ pc["relay"] = "pumpLimits"
    BY <1>0, <1>1, <1>4
       DEF ForceAllRelaysOff, RecordOff, FinishForcedOff, tickVars
  <2> QED
    BY <2>1 DEF LimitsInv
<1>5. CASE ApiConfigCommit
  BY <1>0, <1>1, <1>5 DEF ApiConfigCommit, LockFree, Critical
<1>6. CASE \/ \E wait \in BOOLEAN : ApiConfigUnchanged(wait)
           \/ LoopBody \/ ConsumeSafetyLimitEvent \/ ConsumeSensorStaleEvent
           \/ ConsumeControllerDataChanges \/ PushControllerData
           \/ ServerAppliesChange \/ PublishSnapshot \/ LoopDelay
           \/ SetClock \/ UNCHANGED vars
  <2>1. /\ pc'["relay"] = pc["relay"] /\ UNCHANGED <<entry, deviceConfig>>
    BY <1>0, <1>6
       DEF ApiConfigUnchanged, LoopBody, ConsumeSafetyLimitEvent,
           ConsumeSensorStaleEvent, ConsumeControllerDataChanges,
           PushControllerData, ServerAppliesChange, PublishSnapshot,
           LoopDelay, SetClock, vars, controllerVars, tickVars
  <2> QED
    BY <1>1, <2>1 DEF LimitsInv
<1> QED
  BY <1>2, <1>3, <1>4, <1>5, <1>6 DEF Next, RelayTask, LoopTask

-----------------------------------------------------------------------------
(* The time the controller counts in *)

InCycle == {"begin"} \cup InTick
Time == IF pc["relay"] \in InCycle THEN now ELSE epoch

\* The tick's time is not behind the clock's, unless that was set forwards.
TimeInv(s) == pc["relay"] \in InCycle =>
                 "ahead" \in runs[s].recent \/ epoch <= now

\* Time goes forwards with the samples only, unless the clock is set.
LEMMA StepTime ==
    ASSUME TypeOK, RunsType, HistoryStep, [Next]_vars, NEW s \in SlotNumbers,
           TimeInv(s)
    PROVE  /\ TimeInv(s)'
           /\ ~TimePasses => Time' <= Time \/ "ahead" \in runs'[s].recent
           /\ TimePasses => Time' = Time + 1
<1> USE DEF Goto, Tasks
<1>0. /\ pc \in [Tasks -> Labels] /\ epoch \in Nat /\ now \in Nat
  BY DEF TypeOK
<1>1. ~TimePasses => /\ runs[s].recent \subseteq runs'[s].recent
                     /\ epoch' > epoch => "ahead" \in runs'[s].recent
  BY Unsampled, MarksMean
<1>a. ASSUME pc["relay"] \in InCycle <=> pc'["relay"] \in InCycle,
             UNCHANGED <<epoch, now>>, ~TimePasses
      PROVE  /\ TimeInv(s)'
             /\ Time' = Time
  BY <1>1, <1>a DEF TimeInv, Time
<1>2. CASE RelaySnapshotGet
  BY <1>0, <1>2
     DEF RelaySnapshotGet, TimeInv, Time, InCycle, InTick, TimePasses
<1>3. CASE InitController
  <2>1. /\ pc["relay"] = "begin" /\ UNCHANGED epoch
        /\ \/ pc'["relay"] = "decide" /\ UNCHANGED now
           \/ pc'["relay"] = "recordOff"
    BY <1>0, <1>3 DEF InitController, tickVars
  <2> QED
    BY <1>0, <1>1, <2>1 DEF TimeInv, Time, InCycle, InTick, TimePasses
<1>4. CASE FinishTick
  <2>1. /\ pc["relay"] = "pumpWrite" /\ UNCHANGED epoch
        /\ pc'["relay"] = "sleep"
    BY <1>0, <1>4 DEF FinishTick
  <2> QED
    BY <1>0, <1>1, <2>1 DEF TimeInv, Time, InCycle, InTick, TimePasses
<1>5. CASE RelayDelay
  <2>1. /\ pc["relay"] = "sleep" /\ pc'["relay"] = "check"
        /\ epoch' = IF epoch < MaxEpoch THEN epoch + 1 ELSE epoch
    BY <1>0, <1>5 DEF RelayDelay
  <2> QED
    BY <1>0, <2>1 DEF TimeInv, Time, InCycle, InTick, TimePasses
<1>6. CASE SetClock
  <2>1. UNCHANGED <<pc, now>> /\ epoch' \in Int
    BY <1>0, <1>6, EpochAssumption, ClockAssumption DEF SetClock, tickVars
  <2>2. ~TimePasses
    BY <2>1 DEF TimePasses
  <2> QED
    BY <1>0, <1>1, <2>1, <2>2 DEF TimeInv, Time
<1>7. CASE \/ RelayCheckEnabled \/ DecideFunction \/ DispatchSlot
           \/ RecordFunction \/ BeginSafetyPass \/ PumpWrite
           \/ ApplyWaterPumpSafetyLimits
  <2>1. /\ pc["relay"] \in InCycle <=> pc'["relay"] \in InCycle
        /\ UNCHANGED <<epoch, now>> /\ ~TimePasses
    BY <1>0, <1>7
       DEF RelayCheckEnabled, DecideFunction, DispatchSlot, RecordFunction,
           BeginSafetyPass, PumpWrite, ApplyWaterPumpSafetyLimits, tickVars,
           InCycle, InTick, TimePasses
  <2> QED
    BY <1>0, <1>a, <2>1 DEF Time
<1>8. CASE \/ \E t \in Tasks :
                 ForceAllRelaysOff(t) \/ RecordOff(t) \/ FinishForcedOff(t)
  <2>1. /\ UNCHANGED <<epoch, now>>
        /\ \/ pc'["relay"] = pc["relay"]
           \/ pc["relay"] = "forceOff" /\ pc'["relay"] = "recordOff"
           \/ pc["relay"] = "recordOff" /\ pc'["relay"] = "sleep"
    BY <1>0, <1>8 DEF ForceAllRelaysOff, RecordOff, FinishForcedOff, tickVars
  <2>2. /\ pc["relay"] \in InCycle <=> pc'["relay"] \in InCycle
        /\ ~TimePasses
    BY <2>1 DEF InCycle, InTick, TimePasses
  <2> QED
    BY <1>0, <1>a, <2>1, <2>2 DEF Time
<1>9. CASE \/ ApiConfigCommit
           \/ \E wait \in BOOLEAN : ApiConfigUnchanged(wait)
           \/ LoopBody \/ ConsumeSafetyLimitEvent \/ ConsumeSensorStaleEvent
           \/ ConsumeControllerDataChanges \/ PushControllerData
           \/ ServerAppliesChange \/ PublishSnapshot \/ LoopDelay
           \/ UNCHANGED vars
  <2>1. /\ pc'["relay"] = pc["relay"] /\ UNCHANGED <<epoch, now>>
    BY <1>0, <1>9
       DEF ApiConfigCommit, ApiConfigUnchanged, LoopBody,
           ConsumeSafetyLimitEvent, ConsumeSensorStaleEvent,
           ConsumeControllerDataChanges, PushControllerData,
           ServerAppliesChange, PublishSnapshot, LoopDelay, vars, tickVars
  <2>2. ~TimePasses
    BY <2>1 DEF TimePasses
  <2> QED
    BY <1>0, <1>a, <2>1, <2>2 DEF Time
<1> QED
  BY <1>2, <1>3, <1>4, <1>5, <1>6, <1>7, <1>8, <1>9
     DEF Next, RelayTask, LoopTask

-----------------------------------------------------------------------------
(* What a step is to an entry of the configuration *)

\* What a slot's state says of the output that is tracked in it.
Track(st) == <<st.applied, st.onSince, st.offSince, st.dispatched,
               st.position, st.direction, st.dead>>

\* What a step may be to the outputs of an entry of its own.
Stays(e) ==
    /\ Track(slots'[e.slot]) = Track(slots[e.slot])
    /\ \A s \in UsedSlots(e) : pin'[RelayPin(s)] = pin[RelayPin(s)]

PutToRest(e) ==
    /\ OutputsForced /\ ~TimePasses
    /\ Track(slots'[e.slot]) = Track(ForcedOff(slots[e.slot]))
    /\ \A s \in UsedSlots(e) : /\ IsOn(s)' => IsOn(s)
                               /\ RelayPin(s) \in RestPins(e) => ~IsOn(s)'

\* The board has the pins dispatchSlot needs.
Driven(e) == Needed(e) \subseteq Wired

\* dispatchSlot's outcome for the tick's target
Outcomes(e) == Dispatched(e, slots[e.slot], targetPercent,
                          slots[e.slot].dispatched = 0,
                          Elapsed(slots[e.slot]))

\* ... and the dispatch itself
Drives(e) ==
    /\ pc["relay"] = "dispatch"
    /\ UNCHANGED <<pc, epoch, now>>
    /\ IF Driven(e)
       THEN /\ slots'[e.slot] = [Stamped(slots[e.slot], Outcomes(e).st)
                                    EXCEPT !.dispatched = now]
            /\ \A s \in UsedSlots(e) : RelayPin(s) \in OutputPins(e) =>
                  pin'[RelayPin(s)] = Outcomes(e).levels[RelayPin(s)]
       ELSE /\ slots'[e.slot] = [slots[e.slot] EXCEPT !.dispatched = now]
            /\ \A s \in UsedSlots(e) : pin'[RelayPin(s)] = pin[RelayPin(s)]

\* The entries whose outputs dispatchSlot drives, the pump's relay excepted
Plainly(e) == /\ e.kind \in {"relay", "pair"}
              /\ e.kind = "relay" => e.fn # "WaterPump"

\* No other entry's outputs, and no pump's slot, are an entry's own.
LEMMA OtherEntry ==
    ASSUME deviceConfig \in Configs, Separate(deviceConfig),
           NEW e \in Entries(deviceConfig), NEW d \in Entries(deviceConfig),
           d # e
    PROVE  /\ d.slot # e.slot
           /\ \A s \in UsedSlots(e) : RelayPin(s) \notin OutputPins(d)
<1>1. UsedSlots(d) \cap UsedSlots(e) = {}
  BY DEF Separate
<1>2. d.slot \in UsedSlots(d) /\ e.slot \in UsedSlots(e)
  BY DEF UsedSlots
<1>3. ASSUME NEW s, RelayPin(s) \in OutputPins(d)
      PROVE  s \in UsedSlots(d)
  BY <1>3 DEF OutputPins, RelayPin, UsedSlots
<1> QED
  BY <1>1, <1>2, <1>3

\* A pump's slot is the slot of its own entry, so no plain entry's.
LEMMA PumpsEntry ==
    ASSUME deviceConfig \in Configs, Separate(deviceConfig),
           NEW e \in Entries(deviceConfig), Plainly(e),
           NEW s, PumpSlot(s)
    PROVE  s \notin UsedSlots(e)
<1> DEFINE Last(i) == IsConfigured(deviceConfig, i, s)
           i == CHOOSE i \in DOMAIN deviceConfig.relays : Last(i)
<1>1. \E j \in DOMAIN deviceConfig.relays : Last(j)
  BY DEF PumpSlot, configuredType
<1>2. i \in DOMAIN deviceConfig.relays /\ Last(i)
  BY <1>1
<1>3. deviceConfig.relays[i].kind = "relay"
      /\ deviceConfig.relays[i].fn = "WaterPump"
  BY <1>1 DEF PumpSlot, configuredOutputKind, configuredType
<1> HIDE DEF i
<1>4. /\ deviceConfig.relays[i] \in Entries(deviceConfig)
      /\ deviceConfig.relays[i].slot = s /\ deviceConfig.relays[i] # e
  BY <1>2, <1>3 DEF IsConfigured, Entries, Plainly
<1>5. s \in UsedSlots(deviceConfig.relays[i])
  BY <1>4 DEF UsedSlots
<1> QED
  BY <1>4, <1>5 DEF Separate

\* Whatever the tasks do, an entry's outputs stay, are forced off, or are
\* dispatched: no other entry's dispatch and no pump's limits reach them.
LEMMA StepOfEntry ==
    ASSUME TypeOK, TickInv, LimitsInv, [Next]_vars,
           Separate(deviceConfig), NEW e \in Entries(deviceConfig), Plainly(e)
    PROVE  Stays(e) \/ PutToRest(e) \/ Drives(e)
<1> USE DEF Goto, Tasks
<1>0. /\ pc \in [Tasks -> Labels] /\ entry \in Nat \ {0}
      /\ deviceConfig \in Configs /\ slots \in [SlotNumbers -> SlotState]
      /\ pin \in [Pins -> Percent] /\ e \in RelaySlot
      /\ e.slot \in SlotNumbers /\ e.slot \in UsedSlots(e)
      /\ UsedSlots(e) \subseteq SlotNumbers
  BY EntryType DEF TypeOK, RelaySlot, UsedSlots
<1>1. \A s \in SlotNumbers : RelayPin(s) \in Pins
  BY DEF RelayPin, Pins
<1>2. ASSUME NEW before \in [SlotNumbers -> SlotState],
             Track(before[e.slot]) = Track(slots[e.slot]),
             DriveEveryAssignedRelayOff(before), OutputsForced, ~TimePasses
      PROVE  PutToRest(e)
  <2>1. slots'[e.slot] = ForcedOff(before[e.slot])
    BY <1>0, <1>2 DEF DriveEveryAssignedRelayOff
  <2>2. Track(ForcedOff(before[e.slot])) = Track(ForcedOff(slots[e.slot]))
    <3>1. before[e.slot] \in SlotState /\ slots[e.slot] \in SlotState
      BY <1>0, <1>2
    <3> QED
      BY <1>2, <3>1 DEF Track, ForcedOff, SlotState
  <2>3. ASSUME NEW s \in UsedSlots(e)
        PROVE  /\ IsOn(s)' => IsOn(s)
               /\ RelayPin(s) \in RestPins(e) => ~IsOn(s)'
    <3>1. RelayPin(s) \in Pins /\ RelayPin(s)[1] = "relay" /\ s \in SlotNumbers
      BY <1>0, <1>1, <2>3 DEF RelayPin
    <3>2. pin'[RelayPin(s)] <= pin[RelayPin(s)]
      BY <1>0, <1>2, <3>1, DriveOffLowers
    <3>3. RelayPin(s) \in RestPins(e) => ~IsOn(s)'
      BY <1>0, <1>2, <3>1, RelayForcedOff
    <3>4. pin[RelayPin(s)] \in Int
      BY <1>0, <3>1 DEF Percent
    <3>5. pin'[RelayPin(s)] \in Int
      <4>1. pin' \in [Pins -> Percent]
        BY <1>0, <1>2, DriveOffType
      <4> QED
        BY <3>1, <4>1 DEF Percent
    <3> QED
      BY <3>2, <3>3, <3>4, <3>5 DEF IsOn
  <2> QED
    BY <1>2, <2>1, <2>2, <2>3 DEF PutToRest
<1>3. CASE InitController
  <2>1. Remapped \in [SlotNumbers -> SlotState]
    BY <1>0, RemappedType
  <2>2. Track(Remapped[e.slot]) = Track(slots[e.slot])
    <3>1. slots[e.slot] \in SlotState
      BY <1>0
    <3> QED
      BY <1>0, <3>1 DEF Remapped, Track, SlotState
  <2>3. CASE deviceConfig.emergencyStop \/ ~deviceConfig.relayEnabled
    <3>1. /\ DriveEveryAssignedRelayOff(Remapped)
          /\ pc["relay"] = "begin" /\ pc'["relay"] = "recordOff"
      BY <1>0, <1>3, <2>3 DEF InitController
    <3> QED
      BY <1>2, <2>1, <2>2, <3>1 DEF OutputsForced, TimePasses
  <2>4. CASE ~(deviceConfig.emergencyStop \/ ~deviceConfig.relayEnabled)
    BY <1>3, <2>2, <2>4 DEF InitController, Stays
  <2> QED
    BY <2>3, <2>4
<1>4. CASE DispatchSlot
  <2> DEFINE d == deviceConfig.relays[entry]
  <2>1. d \in Entries(deviceConfig)
    <3>1. deviceConfig.relays \in Seq(RelaySlot)
      BY <1>0, EntryType DEF DeviceConfig
    <3>2. entry <= Len(deviceConfig.relays)
      BY <1>4 DEF DispatchSlot
    <3>3. entry \in DOMAIN deviceConfig.relays
      BY <1>0, <3>1, <3>2
    <3> QED
      BY <3>3 DEF Entries
  <2>2. d \in RelaySlot /\ d.slot \in SlotNumbers
        /\ OutputPins(d) \subseteq Pins
    BY <1>0, <2>1, EntryType DEF RelaySlot
  <2>3. CASE d # e
    <3>1. /\ d.slot # e.slot
          /\ \A s \in UsedSlots(e) : RelayPin(s) \notin OutputPins(d)
      BY <1>0, <2>1, <2>3, OtherEntry
    <3>2. slots'[e.slot] = slots[e.slot]
      BY <1>0, <1>4, <2>2, <3>1 DEF DispatchSlot
    <3>3. \A s \in UsedSlots(e) : pin'[RelayPin(s)] = pin[RelayPin(s)]
      BY <1>0, <1>1, <1>4, <3>1 DEF DispatchSlot
    <3> QED
      BY <3>2, <3>3 DEF Stays
  <2>4. CASE d = e
    <3>1. pc["relay"] = "dispatch" /\ UNCHANGED <<pc, epoch, now>>
      BY <1>4 DEF DispatchSlot
    <3>2. CASE e.fn # FunctionOrder[fn["relay"]]
      BY <1>4, <2>4, <3>2 DEF DispatchSlot, Stays
    <3>3. CASE e.fn = FunctionOrder[fn["relay"]] /\ ~Driven(e)
      <4>1. /\ slots' = [slots EXCEPT ![e.slot].dispatched = now]
            /\ UNCHANGED pin
        BY <1>4, <2>4, <3>3 DEF DispatchSlot, Plainly, Driven
      <4> QED
        BY <1>0, <3>1, <3>3, <4>1 DEF Drives
    <3>4. CASE e.fn = FunctionOrder[fn["relay"]] /\ Driven(e)
      <4>1. /\ slots' = [slots EXCEPT ![e.slot] =
                           [Stamped(slots[e.slot], Outcomes(e).st)
                              EXCEPT !.dispatched = now]]
            /\ pin' = [p \in Pins |->
                         IF p \in OutputPins(e) THEN Outcomes(e).levels[p]
                         ELSE pin[p]]
        BY <1>4, <2>4, <3>4 DEF DispatchSlot, Plainly, Driven, Outcomes
      <4>2. slots'[e.slot] = [Stamped(slots[e.slot], Outcomes(e).st)
                                EXCEPT !.dispatched = now]
        BY <1>0, <4>1
      <4>3. \A s \in UsedSlots(e) : RelayPin(s) \in OutputPins(e) =>
               pin'[RelayPin(s)] = Outcomes(e).levels[RelayPin(s)]
        BY <1>0, <1>1, <4>1
      <4> QED
        BY <3>1, <3>4, <4>2, <4>3 DEF Drives
    <3> QED
      BY <3>2, <3>3, <3>4
  <2> QED
    BY <2>3, <2>4
<1>5. CASE PumpWrite
  <2>1. CASE PumpSlot(entry)
    <3>1. entry \notin UsedSlots(e)
      BY <1>0, <2>1, PumpsEntry
    <3>2. slots' = slots
          /\ pin' = [pin EXCEPT ![<<"relay", entry>>] =
                       IF pumpTarget > 0 THEN 100 ELSE 0]
      BY <1>5, <2>1 DEF PumpWrite, controllerVars
    <3>3. \A s \in UsedSlots(e) : pin'[RelayPin(s)] = pin[RelayPin(s)]
      BY <1>0, <1>1, <3>1, <3>2 DEF RelayPin
    <3> QED
      BY <3>2, <3>3 DEF Stays
  <2>2. CASE ~PumpSlot(entry)
    BY <1>5, <2>2 DEF PumpWrite, controllerVars, Stays
  <2> QED
    BY <2>1, <2>2
<1>6. CASE ApplyWaterPumpSafetyLimits
  <2>1. entry \notin UsedSlots(e)
    BY <1>0, <1>6, PumpsEntry DEF ApplyWaterPumpSafetyLimits, LimitsInv
  <2>2. PICK st, level : /\ slots' = [slots EXCEPT ![entry] = st]
                         /\ pin' = [pin EXCEPT ![<<"relay", entry>>] = level]
    BY <1>6, Zenon DEF ApplyWaterPumpSafetyLimits
  <2>3. \A s \in UsedSlots(e) : pin'[RelayPin(s)] = pin[RelayPin(s)]
    BY <1>0, <1>1, <2>1, <2>2 DEF RelayPin
  <2>4. slots'[e.slot] = slots[e.slot]
    BY <1>0, <2>1, <2>2
  <2> QED
    BY <2>3, <2>4 DEF Stays
<1>7. ASSUME NEW t \in Tasks, ForceAllRelaysOff(t)
      PROVE  PutToRest(e)
  <2>1. DriveEveryAssignedRelayOff(slots)
    BY <1>7 DEF ForceAllRelaysOff
  <2>2. OutputsForced
    BY <1>0, <1>7 DEF ForceAllRelaysOff, OutputsForced
  <2>3. ~TimePasses
    BY <1>0, <1>7 DEF ForceAllRelaysOff, TimePasses
  <2> QED
    BY <1>0, <1>2, <2>1, <2>2, <2>3
<1>8. CASE \/ RelayCheckEnabled \/ RelaySnapshotGet \/ DecideFunction
           \/ RecordFunction \/ BeginSafetyPass \/ FinishTick \/ RelayDelay
           \/ \E t \in Tasks : RecordOff(t) \/ FinishForcedOff(t)
           \/ ApiConfigCommit
           \/ \E wait \in BOOLEAN : ApiConfigUnchanged(wait)
           \/ LoopBody \/ ConsumeSafetyLimitEvent \/ ConsumeSensorStaleEvent
           \/ ConsumeControllerDataChanges \/ PushControllerData
           \/ ServerAppliesChange \/ PublishSnapshot \/ LoopDelay
           \/ SetClock \/ UNCHANGED vars
  <2>1. UNCHANGED <<slots, pin>>
    BY <1>8
       DEF RelayCheckEnabled, RelaySnapshotGet, DecideFunction,
           RecordFunction, BeginSafetyPass, FinishTick, RelayDelay,
           RecordOff, FinishForcedOff, ApiConfigCommit, ApiConfigUnchanged,
           LoopBody, ConsumeSafetyLimitEvent, ConsumeSensorStaleEvent,
           ConsumeControllerDataChanges, PushControllerData,
           ServerAppliesChange, PublishSnapshot, LoopDelay, SetClock, vars,
           controllerVars
  <2> QED
    BY <2>1 DEF Stays
<1> QED
  BY <1>3, <1>4, <1>5, <1>6, <1>7, <1>8 DEF Next, RelayTask, LoopTask

-----------------------------------------------------------------------------
(* A relay and its minimum times *)

\* No mark that exempts a relay from its minimum times, or adds to them.
Plain(marks) == \A m \in {"boot", "cut", "idled", "ahead"} : m \notin marks

\* The time elapsed since a stamp has been sampled.
Passed(from, n) == Time <= from + n \/ n = HistoryCap

\* What a relay's stamps say of the samples it was on, or off, for
MinInv(e) ==
    LET s == e.slot
        st == slots[s]
        r == runs[s]
    IN  /\ st.applied > 0 <=> IsOn(s)
        /\ Plain(Seen(s)) /\ r.on =>
              IF IsOn(s) THEN st.onSince # 0 /\ Passed(st.onSince, r.n)
              ELSE r.n >= e.minOnSeconds
        /\ Plain(Seen(s)) /\ ~r.on =>
              IF IsOn(s) THEN r.n >= e.minOffSeconds
              ELSE st.offSince # 0 /\ Passed(st.offSince, r.n)
        /\ Plain(r.recent) /\ IsOn(s) /\ ~r.on =>
              st.onSince # 0 /\ Time <= st.onSince
        /\ Plain(r.recent) /\ ~IsOn(s) /\ r.on =>
              st.offSince # 0 /\ Time <= st.offSince

\* The types the arithmetic below needs.
EntryTypes(e) ==
    /\ slots[e.slot] \in SlotState
    /\ Time \in Nat /\ now \in Nat \ {0}
    /\ e.minOnSeconds \in 0..HistoryCap /\ e.minOffSeconds \in 0..HistoryCap
    /\ e.deadTimeSeconds \in 0..HistoryCap
    /\ \A s \in UsedSlots(e) : runs[s] \in Run

\* A step in which no time passes, as the history of a slot sees it.
Unseen(s) ==
    /\ runs'[s].on = runs[s].on /\ runs'[s].n = runs[s].n
    /\ runs'[s].marks = runs[s].marks
    /\ runs[s].recent \subseteq runs'[s].recent
    /\ Seen(s) \subseteq Seen(s)'
    /\ Time' <= Time \/ "ahead" \in runs'[s].recent

\* A relay that follows the decision at once
Untimed(e) == /\ e.minOnSeconds = 0 /\ e.minOffSeconds = 0
              /\ e.proportioningPeriod = 0

\* A relay's dispatch ends on or off; a minimum time refuses a change.
LEMMA RelayOutcome ==
    ASSUME NEW e \in RelaySlot, e.kind = "relay"
    PROVE  LET st == slots[e.slot]
               p == RelayPin(e.slot)
           IN  \E on \in BOOLEAN :
                  /\ Outcomes(e).st =
                        [st EXCEPT !.applied = IF on THEN 100 ELSE 0]
                  /\ Outcomes(e).levels[p] =
                        IF st.dispatched = 0 \/ on # (st.applied > 0)
                        THEN IF on THEN 100 ELSE 0 ELSE pin[p]
                  /\ on /\ ~(st.applied > 0) =>
                        ~cooldownActive(now, st.offSince, e.minOffSeconds)
                  /\ ~on /\ st.applied > 0 =>
                        ~minOnTimeBlocksOff(now, st.onSince, e.minOnSeconds)
                  /\ Untimed(e) => (on <=> targetPercent > 0)
<1> DEFINE st == slots[e.slot]
           previousOn == st.applied > 0
           wantsOn == IF e.proportioningPeriod > 0
                      THEN computeTimeProportioningState(targetPercent,
                               e.proportioningPeriod, now)
                      ELSE targetPercent > 0
           blockedOn == /\ wantsOn /\ ~previousOn
                        /\ cooldownActive(now, st.offSince, e.minOffSeconds)
           blockedOff == /\ ~wantsOn /\ previousOn
                         /\ minOnTimeBlocksOff(now, st.onSince, e.minOnSeconds)
           finalOn == (wantsOn /\ ~blockedOn) \/ blockedOff
           level == IF finalOn THEN 100 ELSE 0
           p == RelayPin(e.slot)
<1>1. Outcomes(e) =
        Outcome(st, level, IF st.dispatched = 0 \/ finalOn # previousOn
                           THEN [q \in OutputPins(e) |-> level]
                           ELSE [q \in OutputPins(e) |-> pin[q]])
  BY DEF Outcomes, Dispatched, DispatchRelay
<1>2. p \in OutputPins(e)
  BY DEF OutputPins, RelayPin
<1>3. finalOn \in BOOLEAN
  OBVIOUS
<1>4. /\ finalOn /\ ~previousOn =>
            ~cooldownActive(now, st.offSince, e.minOffSeconds)
      /\ ~finalOn /\ previousOn =>
            ~minOnTimeBlocksOff(now, st.onSince, e.minOnSeconds)
  OBVIOUS
<1>a. Untimed(e) => (finalOn <=> targetPercent > 0)
  BY DEF Untimed, cooldownActive, minOnTimeBlocksOff
<1> HIDE DEF finalOn
<1>5. /\ Outcomes(e).st = [st EXCEPT !.applied = level]
      /\ Outcomes(e).levels[p] =
           IF st.dispatched = 0 \/ finalOn # previousOn THEN level ELSE pin[p]
  BY <1>1, <1>2 DEF Outcome
<1> QED
  BY <1>3, <1>4, <1>a, <1>5

\* What dispatchSlot does to a relay, its minimum times and its stamps.
LEMMA DrivenRelay ==
    ASSUME NEW e \in RelaySlot, e.kind = "relay", Driven(e), Drives(e),
           slots[e.slot] \in SlotState, now \in Nat \ {0},
           slots[e.slot].applied > 0 <=> IsOn(e.slot)
    PROVE  LET st == slots[e.slot]
               new == slots'[e.slot]
           IN  /\ new.applied > 0 <=> IsOn(e.slot)'
               /\ IsOn(e.slot)' /\ ~IsOn(e.slot) =>
                     /\ ~cooldownActive(now, st.offSince, e.minOffSeconds)
                     /\ new.onSince = now
               /\ ~IsOn(e.slot)' /\ IsOn(e.slot) =>
                     /\ ~minOnTimeBlocksOff(now, st.onSince, e.minOnSeconds)
                     /\ new.offSince = now
               /\ (IsOn(e.slot)' <=> IsOn(e.slot)) =>
                     new.onSince = st.onSince /\ new.offSince = st.offSince
               /\ Untimed(e) => (IsOn(e.slot)' <=> targetPercent > 0)
<1> DEFINE st == slots[e.slot]
           o == Outcomes(e)
           p == RelayPin(e.slot)
<1>1. PICK on \in BOOLEAN :
         /\ o.st = [st EXCEPT !.applied = IF on THEN 100 ELSE 0]
         /\ o.levels[p] = IF st.dispatched = 0 \/ on # (st.applied > 0)
                          THEN IF on THEN 100 ELSE 0 ELSE pin[p]
         /\ on /\ ~(st.applied > 0) =>
               ~cooldownActive(now, st.offSince, e.minOffSeconds)
         /\ ~on /\ st.applied > 0 =>
               ~minOnTimeBlocksOff(now, st.onSince, e.minOnSeconds)
         /\ Untimed(e) => (on <=> targetPercent > 0)
  BY RelayOutcome
<1>2. slots'[e.slot] = [Stamped(st, o.st) EXCEPT !.dispatched = now]
      /\ pin'[p] = o.levels[p]
  BY DEF Drives, UsedSlots, OutputPins, RelayPin
<1>3. on <=> IsOn(e.slot)'
  <2>1. CASE st.dispatched = 0 \/ on # (st.applied > 0)
    <3>1. pin'[p] = IF on THEN 100 ELSE 0
      BY <1>1, <1>2, <2>1
    <3> QED
      BY <3>1 DEF IsOn
  <2>2. CASE ~(st.dispatched = 0 \/ on # (st.applied > 0))
    <3>1. pin'[p] = pin[p] /\ (on <=> st.applied > 0)
      BY <1>1, <1>2, <2>2
    <3> QED
      BY <3>1 DEF IsOn
  <2> QED
    BY <2>1, <2>2
<1>4. st \in SlotState
  OBVIOUS
<1> HIDE DEF st, o
<1>5. o.st \in SlotState /\ o.st.applied = (IF on THEN 100 ELSE 0)
      /\ o.st.onSince = st.onSince /\ o.st.offSince = st.offSince
  BY <1>1, <1>4 DEF SlotState, Percent
<1>6. /\ slots'[e.slot].applied = o.st.applied
      /\ slots'[e.slot].onSince =
           IF o.st.applied > 0 /\ st.applied = 0 THEN now
           ELSE IF o.st.applied = 0 /\ st.applied > 0 THEN 0 ELSE st.onSince
      /\ slots'[e.slot].offSince =
           IF o.st.applied > 0 /\ st.applied = 0 THEN 0
           ELSE IF o.st.applied = 0 /\ st.applied > 0 THEN now
           ELSE st.offSince
  BY <1>2, <1>4, <1>5 DEF Stamped, SlotState
<1>7. st.applied \in Nat
  BY <1>4 DEF SlotState, Percent
<1>8. st.applied > 0 <=> IsOn(e.slot)
  BY DEF st
<1> QED
  BY <1>1, <1>3, <1>5, <1>6, <1>7, <1>8 DEF st

\* One lemma per kind of step: it keeps what the minimum times rest on.
LEMMA MinStays ==
    ASSUME NEW e, UsedSlots(e) = {e.slot}, MinInv(e), EntryTypes(e),
           EntryTypes(e)', Stays(e), Unseen(e.slot)
    PROVE  MinInv(e)'
<1>1. /\ IsOn(e.slot)' = IsOn(e.slot)
      /\ slots'[e.slot].applied = slots[e.slot].applied
      /\ slots'[e.slot].onSince = slots[e.slot].onSince
      /\ slots'[e.slot].offSince = slots[e.slot].offSince
  BY DEF Stays, Track, IsOn
<1>2. /\ slots[e.slot].onSince \in Nat /\ slots[e.slot].offSince \in Nat
      /\ runs[e.slot].n \in Nat /\ Time \in Nat /\ Time' \in Nat
      /\ runs[e.slot].on \in BOOLEAN
  BY DEF EntryTypes, SlotState, Run
<1>3. /\ Plain(Seen(e.slot)') => Plain(Seen(e.slot)) /\ Time' <= Time
      /\ Plain(runs'[e.slot].recent) =>
            Plain(runs[e.slot].recent) /\ Time' <= Time
  BY DEF Plain, Unseen, Seen
<1>4. runs'[e.slot].on = runs[e.slot].on /\ runs'[e.slot].n = runs[e.slot].n
  BY DEF Unseen
<1> QED
  BY <1>1, <1>2, <1>3, <1>4 DEF MinInv, Passed

\* A forced-off is marked, so it is exempt.
LEMMA MinPutToRest ==
    ASSUME NEW e, UsedSlots(e) = {e.slot}, MinInv(e), EntryTypes(e),
           PutToRest(e), RelayPin(e.slot) \in RestPins(e), Unseen(e.slot),
           IF IsOn(e.slot) THEN "cut" \in runs'[e.slot].recent
           ELSE "idled" \in runs'[e.slot].recent
    PROVE  MinInv(e)'
<1>1. ~IsOn(e.slot)' /\ slots'[e.slot].applied = 0
  BY DEF PutToRest, Track, ForcedOff, EntryTypes, SlotState
<1>2. ~Plain(runs'[e.slot].recent) /\ ~Plain(Seen(e.slot)')
  BY DEF Plain, Seen
<1> QED
  BY <1>1, <1>2 DEF MinInv

\* A dispatch changes the level only when the stamps say it may, and they
\* are never later than the samples are.
LEMMA MinDrives ==
    ASSUME NEW e \in RelaySlot, e.kind = "relay", Driven(e), Drives(e),
           MinInv(e), EntryTypes(e), EntryTypes(e)', Unseen(e.slot)
    PROVE  MinInv(e)'
<1> DEFINE st == slots[e.slot]
           new == slots'[e.slot]
           r == runs[e.slot]
<1>0. /\ st.onSince \in Nat /\ st.offSince \in Nat /\ now \in Nat \ {0}
      /\ r.n \in Nat /\ r.on \in BOOLEAN
      /\ e.minOnSeconds \in 0..HistoryCap /\ e.minOffSeconds \in 0..HistoryCap
      /\ HistoryCap \in Nat
  BY HistoryAssumption DEF EntryTypes, SlotState, Run, UsedSlots
<1>1. /\ new.applied > 0 <=> IsOn(e.slot)'
      /\ IsOn(e.slot)' /\ ~IsOn(e.slot) =>
            /\ ~cooldownActive(now, st.offSince, e.minOffSeconds)
            /\ new.onSince = now
      /\ ~IsOn(e.slot)' /\ IsOn(e.slot) =>
            /\ ~minOnTimeBlocksOff(now, st.onSince, e.minOnSeconds)
            /\ new.offSince = now
      /\ (IsOn(e.slot)' <=> IsOn(e.slot)) =>
            new.onSince = st.onSince /\ new.offSince = st.offSince
  BY DrivenRelay DEF MinInv, EntryTypes
<1>2. Time = now /\ Time' = now
  BY DEF Drives, Time, InCycle, InTick
<1>3. /\ Plain(Seen(e.slot)') => Plain(Seen(e.slot))
      /\ Plain(runs'[e.slot].recent) => Plain(r.recent)
  BY DEF Plain, Unseen
<1>4. runs'[e.slot].on = r.on /\ runs'[e.slot].n = r.n
  BY DEF Unseen
<1> HIDE DEF st, new, r
<1>5. CASE IsOn(e.slot)' <=> IsOn(e.slot)
  <2>1. new.onSince = st.onSince /\ new.offSince = st.offSince
    BY <1>1, <1>5
  <2> QED
    BY <1>1, <1>2, <1>3, <1>4, <1>5, <2>1 DEF MinInv, Passed, st, new, r
<1>6. CASE IsOn(e.slot)' /\ ~IsOn(e.slot)
  <2>1. new.onSince = now
    BY <1>1, <1>6
  <2>2. Plain(Seen(e.slot)) /\ ~r.on => r.n >= e.minOffSeconds
    <3>1. SUFFICES ASSUME Plain(Seen(e.slot)), ~r.on
                   PROVE  r.n >= e.minOffSeconds
      OBVIOUS
    <3>2. st.offSince # 0 /\ (now <= st.offSince + r.n \/ r.n = HistoryCap)
      BY <1>2, <1>6, <3>1 DEF MinInv, Passed, st, r
    <3>3. ~cooldownActive(now, st.offSince, e.minOffSeconds)
      BY <1>1, <1>6
    <3> QED
      BY <1>0, <3>2, <3>3 DEF cooldownActive
  <2> QED
    BY <1>0, <1>1, <1>2, <1>3, <1>4, <1>6, <2>1, <2>2
       DEF MinInv, Passed, st, new, r
<1>7. CASE ~IsOn(e.slot)' /\ IsOn(e.slot)
  <2>1. new.offSince = now
    BY <1>1, <1>7
  <2>2. Plain(Seen(e.slot)) /\ r.on => r.n >= e.minOnSeconds
    <3>1. SUFFICES ASSUME Plain(Seen(e.slot)), r.on
                   PROVE  r.n >= e.minOnSeconds
      OBVIOUS
    <3>2. st.onSince # 0 /\ (now <= st.onSince + r.n \/ r.n = HistoryCap)
      BY <1>2, <1>7, <3>1 DEF MinInv, Passed, st, r
    <3>3. ~minOnTimeBlocksOff(now, st.onSince, e.minOnSeconds)
      BY <1>1, <1>7
    <3> QED
      BY <1>0, <3>2, <3>3 DEF minOnTimeBlocksOff
  <2> QED
    BY <1>0, <1>1, <1>2, <1>3, <1>4, <1>7, <2>1, <2>2
       DEF MinInv, Passed, st, new, r
<1> QED
  BY <1>5, <1>6, <1>7

\* A sample counts up with the clock.
LEMMA MinPasses ==
    ASSUME RunsType, HistoryStep, TimePasses, NEW e, e.slot \in SlotNumbers,
           UsedSlots(e) = {e.slot}, MinInv(e), EntryTypes(e), EntryTypes(e)',
           Stays(e), Time' = Time + 1
    PROVE  MinInv(e)'
<1> DEFINE s == e.slot
           st == slots[s]
           r == runs[s]
<1>0. /\ st.onSince \in Nat /\ st.offSince \in Nat /\ Time \in Nat
      /\ r.n \in 0..HistoryCap /\ r.on \in BOOLEAN
      /\ e.minOnSeconds \in 0..HistoryCap /\ e.minOffSeconds \in 0..HistoryCap
      /\ HistoryCap \in Nat \ {0}
  BY HistoryAssumption DEF EntryTypes, SlotState, Run
<1>1. /\ IsOn(s)' = IsOn(s)
      /\ slots'[s].applied = st.applied
      /\ slots'[s].onSince = st.onSince
      /\ slots'[s].offSince = st.offSince
  BY DEF Stays, Track, IsOn
<1>2. CASE r.on = IsOn(s)
  <2>1. /\ runs'[s].on = r.on /\ runs'[s].n = Capped(r.n)
        /\ runs'[s].marks = Seen(s) /\ runs'[s].recent = {}
    BY <1>2, SampledSame
  <2>2. Seen(s)' = Seen(s)
    BY <2>1 DEF Seen
  <2>3. /\ r.n < HistoryCap => runs'[s].n = r.n + 1
        /\ r.n = HistoryCap => runs'[s].n = HistoryCap
    BY <1>0, <2>1 DEF Capped
  <2> QED
    BY <1>0, <1>1, <1>2, <2>1, <2>2, <2>3 DEF MinInv, Passed
<1>3. CASE r.on # IsOn(s)
  <2>1. /\ runs'[s].on = IsOn(s) /\ runs'[s].n = 1
        /\ runs'[s].marks = r.recent \cup Inherited(r)
        /\ runs'[s].recent = {}
    BY <1>3, SampledSwitch
  <2>2. Plain(Seen(s)') => Plain(r.recent)
    BY <2>1 DEF Seen, Plain
  <2>3. IsOn(s) <=> ~r.on
    BY <1>0, <1>3 DEF IsOn
  <2> QED
    BY <1>0, <1>1, <2>1, <2>2, <2>3 DEF MinInv, Passed
<1> QED
  BY <1>2, <1>3

-----------------------------------------------------------------------------
(* A motor and its dead time *)

\* No mark that lets a winding be energised before the dead time has passed.
Timely(marks) == \A m \in {"boot", "ahead"} : m \notin marks

\* A winding that is off has been sampled off for the part of the dead time
\* that is over, also for the part since the slot's last dispatch.
Rested(e, s) ==
    LET r == runs[s]
        st == slots[e.slot]
        n == IF r.on THEN 0 ELSE r.n
    IN  /\ ~IsOn(s)
        /\ Timely(IF r.on THEN r.recent ELSE Seen(s)) =>
              \/ n = HistoryCap
              \/ /\ e.deadTimeSeconds <= n + st.dead
                 /\ st.dispatched # 0 =>
                       e.deadTimeSeconds + Time <= n + st.dead + st.dispatched

\* The winding that drives the motor the other way
Opposite(e, direction) == IF direction = "open" THEN e.pairSlot ELSE e.slot

\* Not energised since boot
NeverOn(s) == ~IsOn(s) /\ ~runs[s].on /\ "boot" \in runs[s].marks

\* What a motor's direction and dead time say of its windings
PairInv(e) ==
    LET st == slots[e.slot]
    IN  /\ st.direction = "none" => NeverOn(e.slot) /\ NeverOn(e.pairSlot)
        /\ IsOn(e.slot) => st.direction = "open" /\ st.dead = 0
        /\ IsOn(e.pairSlot) => st.direction = "close" /\ st.dead = 0
        /\ st.direction # "none" => Rested(e, Opposite(e, st.direction))

\* What is left of the dead time at a dispatch
DeadLeft(st) ==
    IF Elapsed(st) > 0 /\ st.dead > 0
    THEN IF st.dead > Elapsed(st) THEN st.dead - Elapsed(st) ELSE 0
    ELSE st.dead

\* computeRelayPairStep holds, reverses or moves.
PairMoves(d, direction, dead, pause, elapsed) ==
    LET left == IF elapsed > 0 /\ dead > 0
                THEN IF dead > elapsed THEN dead - elapsed ELSE 0
                ELSE dead
    IN  \/ /\ d.direction = direction /\ d.dead = left
           /\ ~d.open /\ ~d.close
        \/ /\ direction # "none" /\ pause > 0
           /\ d.direction \in {"open", "close"} \ {direction}
           /\ d.dead = pause /\ ~d.open /\ ~d.close
        \/ /\ d.direction \in {"open", "close"}
           /\ \/ d.direction = direction
              \/ direction = "none"
              \/ pause = 0
           /\ left = 0 /\ d.dead = 0
           /\ d.open <=> d.direction = "open"
           /\ d.close <=> d.direction = "close"

LEMMA PairOutcome ==
    ASSUME NEW direction \in Directions, NEW dead \in Nat,
           NEW current \in Percent, NEW target \in Percent,
           NEW travel \in Nat, NEW pause \in Nat, NEW elapsed \in Int
    PROVE  PairMoves(computeRelayPairStep(
                         [direction |-> direction, dead |-> dead],
                         current, target, travel, pause, elapsed),
                     direction, dead, pause, elapsed)
<1> DEFINE t == clamp(target)
           c == clamp(current)
           left == IF elapsed > 0 /\ dead > 0
                   THEN IF dead > elapsed THEN dead - elapsed ELSE 0
                   ELSE dead
           holding == travel <= 0 \/ elapsed <= 0 \/ c = t \/ left > 0
           desired == IF t > c THEN "open" ELSE "close"
           reversal == pause > 0 /\ direction # "none" /\ desired # direction
           raw == (elapsed * 100) \div travel
           step == IF raw < 1 THEN 1 ELSE raw
           moved == IF desired = "open"
                    THEN IF c + step > t THEN t ELSE c + step
                    ELSE IF c - step < t THEN t ELSE c - step
           d == computeRelayPairStep(
                    [direction |-> direction, dead |-> dead],
                    current, target, travel, pause, elapsed)
<1>1. d = IF holding
          THEN [direction |-> direction, dead |-> left, position |-> c,
                open |-> FALSE, close |-> FALSE]
          ELSE IF reversal
          THEN [direction |-> desired, dead |-> pause, position |-> c,
                open |-> FALSE, close |-> FALSE]
          ELSE [direction |-> desired, dead |-> left, position |-> moved,
                open |-> desired = "open", close |-> desired = "close"]
  BY DEF computeRelayPairStep
<1>2. desired \in {"open", "close"} /\ left \in Nat
  OBVIOUS
<1>3. ~holding => left = 0
  BY <1>2
<1>4. ~reversal => desired = direction \/ direction = "none" \/ pause = 0
  OBVIOUS
<1>5. SUFFICES PairMoves(d, direction, dead, pause, elapsed)
  OBVIOUS
<1>6. PairMoves(d, direction, dead, pause, elapsed) <=>
        \/ /\ d.direction = direction /\ d.dead = left
           /\ ~d.open /\ ~d.close
        \/ /\ direction # "none" /\ pause > 0
           /\ d.direction \in {"open", "close"} \ {direction}
           /\ d.dead = pause /\ ~d.open /\ ~d.close
        \/ /\ d.direction \in {"open", "close"}
           /\ \/ d.direction = direction
              \/ direction = "none"
              \/ pause = 0
           /\ left = 0 /\ d.dead = 0
           /\ d.open <=> d.direction = "open"
           /\ d.close <=> d.direction = "close"
  BY Zenon DEF PairMoves
<1> HIDE DEF moved, desired, left, holding, c, t, d
<1>7. CASE holding
  BY <1>1, <1>6, <1>7
<1>8. CASE ~holding /\ reversal
  BY <1>1, <1>2, <1>6, <1>8
<1>9. CASE ~holding /\ ~reversal
  <2>1. /\ d.direction = desired /\ d.dead = left
        /\ d.open <=> desired = "open"
        /\ d.close <=> desired = "close"
    BY <1>1, <1>9
  <2> QED
    BY <1>2, <1>3, <1>4, <1>6, <1>9, <2>1
<1> QED
  BY <1>7, <1>8, <1>9

\* What computeRelayPairStep makes of a motor's state
PairStep(e) ==
    computeRelayPairStep([direction |-> slots[e.slot].direction,
                          dead |-> slots[e.slot].dead],
                         slots[e.slot].position, targetPercent,
                         e.travelSeconds, e.deadTimeSeconds,
                         Elapsed(slots[e.slot]))

\* dispatchSlot books it and switches the windings accordingly.
LEMMA PairDispatch ==
    ASSUME TypeOK, NEW e \in RelaySlot, e.kind = "pair", Driven(e), Drives(e),
           e.slot # e.pairSlot, e.slot \in SlotNumbers
    PROVE  LET d == PairStep(e)
               new == slots'[e.slot]
           IN  /\ new.direction = d.direction /\ new.dead = d.dead
               /\ new.position = d.position /\ new.dispatched = now
               /\ IsOn(e.slot)' <=> d.open
               /\ IsOn(e.pairSlot)' <=> d.close
<1> DEFINE st == slots[e.slot]
           d == PairStep(e)
           after == [[st EXCEPT !.direction = d.direction, !.dead = d.dead,
                                !.position = d.position]
                       EXCEPT !.applied = d.position]
           a == RelayPin(e.slot)
           b == RelayPin(e.pairSlot)
<1>1. /\ st \in SlotState /\ now \in Nat /\ targetPercent \in Percent
      /\ e.travelSeconds \in Nat /\ e.deadTimeSeconds \in Nat
  BY DEF TypeOK, RelaySlot
<1>2. Elapsed(st) \in Int
  BY <1>1 DEF Elapsed, SlotState
<1>3. /\ d.direction \in Directions /\ d.dead \in Nat
      /\ d.position \in Percent
  BY <1>1, <1>2, PairStepType DEF SlotState, PairStep
<1>4. Outcomes(e) = DispatchPair(e, st, targetPercent, Elapsed(st))
  BY DEF Outcomes, Dispatched
<1>5. /\ Outcomes(e).st = after
      /\ Outcomes(e).levels = [p \in OutputPins(e) |->
            IF \/ d.open /\ p = <<"relay", e.slot>>
               \/ d.close /\ p = <<"relay", e.pairSlot>>
            THEN 100 ELSE 0]
  BY <1>4 DEF DispatchPair, Outcome, PairStep
<1>6. OutputPins(e) = {a, b} /\ a # b /\ e.slot \in UsedSlots(e)
      /\ e.pairSlot \in UsedSlots(e)
  BY DEF OutputPins, RelayPin, UsedSlots
<1>7. /\ slots'[e.slot] = [Stamped(st, after) EXCEPT !.dispatched = now]
      /\ pin'[a] = Outcomes(e).levels[a] /\ pin'[b] = Outcomes(e).levels[b]
  <2> HIDE DEF d
  <2> QED
    BY <1>5, <1>6 DEF Drives
<1> HIDE DEF d
<1>8. /\ IsOn(e.slot)' <=> d.open
      /\ IsOn(e.pairSlot)' <=> d.close
  <2>1. a = <<"relay", e.slot>> /\ b = <<"relay", e.pairSlot>>
    BY DEF RelayPin
  <2>2. /\ pin'[a] = IF d.open THEN 100 ELSE 0
        /\ pin'[b] = IF d.close THEN 100 ELSE 0
    BY <1>5, <1>6, <1>7, <2>1
  <2> QED
    BY <2>2 DEF IsOn
<1>9. after \in SlotState /\ after.direction = d.direction
      /\ after.dead = d.dead /\ after.position = d.position
  BY <1>1, <1>3 DEF SlotState
<1> HIDE DEF after, st
<1>10. /\ slots'[e.slot].dispatched = now
       /\ slots'[e.slot].direction = d.direction
       /\ slots'[e.slot].dead = d.dead
       /\ slots'[e.slot].position = d.position
  BY <1>1, <1>7, <1>9 DEF Stamped, SlotState
<1> QED
  BY <1>8, <1>10 DEF d

\* What dispatchSlot does to a motor and its dead time.
LEMMA DrivenPair ==
    ASSUME TypeOK, NEW e \in RelaySlot, e.kind = "pair", Driven(e), Drives(e),
           e.slot # e.pairSlot, e.slot \in SlotNumbers
    PROVE  LET st == slots[e.slot]
               new == slots'[e.slot]
           IN  /\ new.dispatched = now
               /\ \/ /\ new.direction = st.direction
                     /\ new.dead = DeadLeft(st)
                     /\ ~IsOn(e.slot)' /\ ~IsOn(e.pairSlot)'
                  \/ /\ st.direction # "none"
                     /\ new.direction \in {"open", "close"} \ {st.direction}
                     /\ new.dead = e.deadTimeSeconds
                     /\ ~IsOn(e.slot)' /\ ~IsOn(e.pairSlot)'
                  \/ /\ new.direction \in {"open", "close"}
                     /\ \/ new.direction = st.direction
                        \/ st.direction = "none"
                        \/ e.deadTimeSeconds = 0
                     /\ DeadLeft(st) = 0 /\ new.dead = 0
                     /\ IsOn(e.slot)' <=> new.direction = "open"
                     /\ IsOn(e.pairSlot)' <=> new.direction = "close"
<1> DEFINE st == slots[e.slot]
           d == PairStep(e)
<1>1. /\ st.direction \in Directions /\ st.dead \in Nat
      /\ st.position \in Percent /\ targetPercent \in Percent
      /\ e.travelSeconds \in Nat /\ e.deadTimeSeconds \in Nat
      /\ Elapsed(st) \in Int
  <2>1. /\ st \in SlotState /\ now \in Nat /\ targetPercent \in Percent
        /\ e.travelSeconds \in Nat /\ e.deadTimeSeconds \in Nat
    BY DEF TypeOK, RelaySlot
  <2>2. Elapsed(st) \in Int
    BY <2>1 DEF Elapsed, SlotState
  <2> QED
    BY <2>1, <2>2 DEF SlotState
<1>2. PairMoves(d, st.direction, st.dead, e.deadTimeSeconds, Elapsed(st))
  BY <1>1, PairOutcome DEF PairStep
<1>3. /\ slots'[e.slot].direction = d.direction
      /\ slots'[e.slot].dead = d.dead /\ slots'[e.slot].dispatched = now
      /\ IsOn(e.slot)' <=> d.open
      /\ IsOn(e.pairSlot)' <=> d.close
  BY PairDispatch
<1> HIDE DEF d, st
<1>4. \/ /\ d.direction = st.direction /\ d.dead = DeadLeft(st)
         /\ ~d.open /\ ~d.close
      \/ /\ st.direction # "none"
         /\ d.direction \in {"open", "close"} \ {st.direction}
         /\ d.dead = e.deadTimeSeconds /\ ~d.open /\ ~d.close
      \/ /\ d.direction \in {"open", "close"}
         /\ \/ d.direction = st.direction
            \/ st.direction = "none"
            \/ e.deadTimeSeconds = 0
         /\ DeadLeft(st) = 0 /\ d.dead = 0
         /\ d.open <=> d.direction = "open"
         /\ d.close <=> d.direction = "close"
  BY ONLY <1>2 DEF PairMoves, DeadLeft
<1> QED
  BY <1>3, <1>4 DEF st

\* A pair that has its two slot numbers for itself
PairTypes(e) ==
    /\ e.slot # e.pairSlot
    /\ UsedSlots(e) = {e.slot, e.pairSlot}
    /\ EntryTypes(e)

\* The types the dead time's arithmetic needs.
LEMMA PairTyped ==
    ASSUME NEW e, PairTypes(e)
    PROVE  /\ slots[e.slot].dead \in Nat /\ slots[e.slot].dispatched \in Nat
           /\ slots[e.slot].direction \in Directions
           /\ Time \in Nat /\ now \in Nat
           /\ HistoryCap \in Nat \ {0} /\ e.deadTimeSeconds \in 0..HistoryCap
           /\ \A s \in {e.slot, e.pairSlot} :
                 /\ runs[s].n \in 0..HistoryCap /\ runs[s].on \in BOOLEAN
                 /\ IsOn(s) \in BOOLEAN
BY HistoryAssumption DEF PairTypes, EntryTypes, SlotState, Run, IsOn

\* A winding that rests is not disturbed by what leaves it off.
LEMMA RestedStays ==
    ASSUME NEW e, PairTypes(e), PairTypes(e)', NEW s \in {e.slot, e.pairSlot},
           Rested(e, s), Unseen(s), ~IsOn(s)',
           slots'[e.slot].dead = slots[e.slot].dead,
           slots'[e.slot].dispatched \in {0, slots[e.slot].dispatched}
    PROVE  Rested(e, s)'
<1>1. /\ slots[e.slot].dead \in Nat /\ slots[e.slot].dispatched \in Nat
      /\ Time \in Nat /\ e.deadTimeSeconds \in Nat /\ runs[s].n \in Nat
      /\ runs[s].on \in BOOLEAN
  BY PairTyped
<1>2. Time' \in Nat
  BY DEF PairTypes, EntryTypes
<1>3. /\ Timely(runs'[s].recent) => Timely(runs[s].recent) /\ Time' <= Time
      /\ Timely(Seen(s)') => Timely(Seen(s)) /\ Time' <= Time
  BY DEF Timely, Unseen, Seen
<1>4. runs'[s].on = runs[s].on /\ runs'[s].n = runs[s].n
  BY DEF Unseen
<1> QED
  BY <1>1, <1>2, <1>3, <1>4 DEF Rested

\* A winding that was never on stays so while it is not energised.
LEMMA NeverOnStays ==
    ASSUME NEW s, NeverOn(s), Unseen(s), ~IsOn(s)'
    PROVE  NeverOn(s)'
BY DEF NeverOn, Unseen

\* A winding that was never on rests, whatever is left of the dead time.
LEMMA NeverOnRests ==
    ASSUME NEW e, NEW s, NeverOn(s)
    PROVE  Rested(e, s)
BY DEF NeverOn, Rested, Timely, Seen

\* One lemma per kind of step: it keeps what the dead time rests on.
LEMMA PairStays ==
    ASSUME NEW e, PairTypes(e), PairTypes(e)', PairInv(e), Stays(e),
           \A s \in UsedSlots(e) : Unseen(s)
    PROVE  PairInv(e)'
<1> DEFINE st == slots[e.slot]
<1>1. UsedSlots(e) = {e.slot, e.pairSlot}
  BY DEF PairTypes
<1>2. /\ slots'[e.slot].direction = st.direction
      /\ slots'[e.slot].dead = st.dead
      /\ slots'[e.slot].dispatched = st.dispatched
      /\ \A s \in UsedSlots(e) : IsOn(s)' = IsOn(s)
  BY DEF Stays, Track, IsOn
<1>3. st.direction = "none" => NeverOn(e.slot)' /\ NeverOn(e.pairSlot)'
  BY <1>1, <1>2, NeverOnStays DEF PairInv, NeverOn
<1>4. st.direction # "none" => Rested(e, Opposite(e, st.direction))'
  <2>1. Opposite(e, st.direction) \in {e.slot, e.pairSlot}
    BY DEF Opposite
  <2>2. SUFFICES ASSUME NEW s \in {e.slot, e.pairSlot}, Rested(e, s)
                 PROVE  Rested(e, s)'
    BY <1>2, <2>1 DEF PairInv, Opposite
  <2>3. ~IsOn(s)' /\ Unseen(s)
    BY <1>1, <1>2, <2>2 DEF Rested
  <2> QED
    BY <1>2, <2>2, <2>3, RestedStays
<1> QED
  BY <1>1, <1>2, <1>3, <1>4 DEF PairInv, Opposite

\* A forced-off stops the count, but keeps what is left of it.
LEMMA PairPutToRest ==
    ASSUME NEW e, PairTypes(e), PairTypes(e)', PairInv(e), PutToRest(e),
           \A s \in UsedSlots(e) : Unseen(s)
    PROVE  PairInv(e)'
<1> DEFINE st == slots[e.slot]
<1>1. UsedSlots(e) = {e.slot, e.pairSlot} /\ st \in SlotState
  BY DEF PairTypes, EntryTypes
<1>2. /\ slots'[e.slot].direction = st.direction
      /\ slots'[e.slot].dead = st.dead
      /\ slots'[e.slot].dispatched = 0
      /\ \A s \in UsedSlots(e) : IsOn(s)' => IsOn(s)
  BY <1>1 DEF PutToRest, Track, ForcedOff, SlotState
<1>3. st.direction = "none" => NeverOn(e.slot)' /\ NeverOn(e.pairSlot)'
  BY <1>1, <1>2, NeverOnStays DEF PairInv, NeverOn
<1>4. st.direction # "none" => Rested(e, Opposite(e, st.direction))'
  <2>1. Opposite(e, st.direction) \in {e.slot, e.pairSlot}
    BY DEF Opposite
  <2>2. SUFFICES ASSUME NEW s \in {e.slot, e.pairSlot}, Rested(e, s)
                 PROVE  Rested(e, s)'
    BY <1>2, <2>1 DEF PairInv, Opposite
  <2>3. ~IsOn(s)' /\ Unseen(s)
    BY <1>1, <1>2, <2>2 DEF Rested
  <2> QED
    BY <1>2, <2>2, <2>3, RestedStays
<1> QED
  BY <1>1, <1>2, <1>3, <1>4 DEF PairInv, Opposite

\* A dispatch counts the dead time down by the time it finds elapsed.
LEMMA RestedDispatch ==
    ASSUME NEW e, PairTypes(e), NEW s \in {e.slot, e.pairSlot},
           Rested(e, s), Unseen(s), ~IsOn(s)', Time = now, Time' = now,
           slots'[e.slot].dispatched = now,
           slots'[e.slot].dead = DeadLeft(slots[e.slot])
    PROVE  Rested(e, s)'
<1> DEFINE st == slots[e.slot]
           n == IF runs[s].on THEN 0 ELSE runs[s].n
           D == e.deadTimeSeconds
<1>1. /\ st.dead \in Nat /\ st.dispatched \in Nat /\ now \in Nat
      /\ D \in Nat /\ n \in Nat /\ runs[s].on \in BOOLEAN
  BY PairTyped
<1>2. /\ Timely(runs'[s].recent) => Timely(runs[s].recent)
      /\ Timely(Seen(s)') => Timely(Seen(s))
  BY DEF Timely, Unseen, Seen
<1>3. runs'[s].on = runs[s].on /\ runs'[s].n = runs[s].n
  BY DEF Unseen
<1>4. ASSUME D <= n + st.dead, st.dispatched # 0 =>
                D + now <= n + st.dead + st.dispatched
      PROVE  D <= n + DeadLeft(st)
  BY <1>1, <1>4 DEF DeadLeft, Elapsed
<1>5. DeadLeft(st) \in Nat
  BY <1>1 DEF DeadLeft, Elapsed
<1>6. Timely(IF runs[s].on THEN runs[s].recent ELSE Seen(s)) =>
         n = HistoryCap \/ D <= n + DeadLeft(st)
  BY <1>4 DEF Rested
<1>7. Timely(IF runs[s].on THEN runs'[s].recent ELSE Seen(s)') =>
         Timely(IF runs[s].on THEN runs[s].recent ELSE Seen(s))
  BY <1>2
<1> HIDE DEF n, D, st
<1>8. D <= n + DeadLeft(st) => D + now <= n + DeadLeft(st) + now
  BY <1>1, <1>5
<1>9. (IF runs[s].on THEN 0 ELSE runs[s].n) = n
  BY DEF n
<1> QED
  BY <1>3, <1>6, <1>7, <1>8, <1>9 DEF Rested, D, st

\* A reversal starts a whole dead time.
LEMMA RestedReversal ==
    ASSUME NEW e, PairTypes(e), NEW s \in {e.slot, e.pairSlot},
           ~IsOn(s)', Unseen(s), Time' = now,
           slots'[e.slot].dispatched = now,
           slots'[e.slot].dead = e.deadTimeSeconds
    PROVE  Rested(e, s)'
<1> DEFINE n == IF runs[s].on THEN 0 ELSE runs[s].n
           D == e.deadTimeSeconds
<1>1. D \in Nat /\ n \in Nat /\ now \in Nat
  BY PairTyped
<1>2. runs'[s].on = runs[s].on /\ runs'[s].n = runs[s].n
  BY DEF Unseen
<1> HIDE DEF n, D
<1>3. D <= n + D /\ D + now <= n + D + now
  BY <1>1
<1> QED
  BY <1>2, <1>3 DEF Rested, n, D

\* A dispatch holds, reverses, or moves when nothing is left to wait for.
LEMMA PairDrives ==
    ASSUME TypeOK, NEW e \in RelaySlot, e.kind = "pair", Driven(e), Drives(e),
           e.slot \in SlotNumbers, PairTypes(e), PairTypes(e)', PairInv(e),
           \A s \in UsedSlots(e) : Unseen(s)
    PROVE  PairInv(e)'
<1> DEFINE st == slots[e.slot]
           new == slots'[e.slot]
<1>1. /\ UsedSlots(e) = {e.slot, e.pairSlot} /\ st.direction \in Directions
      /\ e.slot # e.pairSlot
  BY PairTyped DEF PairTypes
<1>2. Time = now /\ Time' = now
  BY DEF Drives, Time, InCycle, InTick
<1>3. /\ new.dispatched = now
      /\ \/ /\ new.direction = st.direction
            /\ new.dead = DeadLeft(st)
            /\ ~IsOn(e.slot)' /\ ~IsOn(e.pairSlot)'
         \/ /\ st.direction # "none"
            /\ new.direction \in {"open", "close"} \ {st.direction}
            /\ new.dead = e.deadTimeSeconds
            /\ ~IsOn(e.slot)' /\ ~IsOn(e.pairSlot)'
         \/ /\ new.direction \in {"open", "close"}
            /\ \/ new.direction = st.direction
               \/ st.direction = "none"
               \/ e.deadTimeSeconds = 0
            /\ DeadLeft(st) = 0 /\ new.dead = 0
            /\ IsOn(e.slot)' <=> new.direction = "open"
            /\ IsOn(e.pairSlot)' <=> new.direction = "close"
  BY <1>1, DrivenPair
<1>4. /\ Unseen(e.slot) /\ Unseen(e.pairSlot)
      /\ \A d \in Directions : Opposite(e, d) \in {e.slot, e.pairSlot}
  BY <1>1 DEF Opposite
<1>5. /\ st.direction = "none" => NeverOn(e.slot) /\ NeverOn(e.pairSlot)
      /\ st.direction # "none" => Rested(e, Opposite(e, st.direction))
  BY DEF PairInv
<1>6. /\ ~IsOn(e.slot)' /\ st.direction = "none" => NeverOn(e.slot)'
      /\ ~IsOn(e.pairSlot)' /\ st.direction = "none" => NeverOn(e.pairSlot)'
  BY <1>4, <1>5, NeverOnStays
<1>7. \A d : Opposite(e, d)' = Opposite(e, d)
  BY DEF Opposite
<1>8. CASE /\ new.direction = st.direction
           /\ new.dead = DeadLeft(st)
           /\ ~IsOn(e.slot)' /\ ~IsOn(e.pairSlot)'
  <2>1. ASSUME st.direction # "none"
        PROVE  Rested(e, Opposite(e, st.direction))'
    <3>1. SUFFICES ASSUME NEW s \in {e.slot, e.pairSlot}, Rested(e, s)
                   PROVE  Rested(e, s)'
      BY <1>1, <1>4, <1>5, <1>8, <2>1 DEF Opposite
    <3> QED
      BY <1>2, <1>3, <1>4, <1>8, <3>1, RestedDispatch
  <2> QED
    BY <1>6, <1>7, <1>8, <2>1 DEF PairInv, Opposite
<1>9. CASE /\ st.direction # "none"
           /\ new.direction \in {"open", "close"} \ {st.direction}
           /\ new.dead = e.deadTimeSeconds
           /\ ~IsOn(e.slot)' /\ ~IsOn(e.pairSlot)'
  <2>1. \A s \in {e.slot, e.pairSlot} : Rested(e, s)'
    BY <1>2, <1>3, <1>4, <1>9, RestedReversal
  <2> QED
    BY <1>9, <2>1 DEF PairInv, Opposite
<1>10. CASE /\ new.direction \in {"open", "close"}
            /\ \/ new.direction = st.direction
               \/ st.direction = "none"
               \/ e.deadTimeSeconds = 0
            /\ DeadLeft(st) = 0 /\ new.dead = 0
            /\ IsOn(e.slot)' <=> new.direction = "open"
            /\ IsOn(e.pairSlot)' <=> new.direction = "close"
  <2>1. ASSUME NEW d \in {"open", "close"}, new.direction = d,
               ~IsOn(Opposite(e, d))'
        PROVE  Rested(e, Opposite(e, d))'
    <3>1. SUFFICES ASSUME NEW s \in {e.slot, e.pairSlot},
                          s = Opposite(e, d), ~IsOn(s)'
                   PROVE  Rested(e, s)'
      BY <2>1 DEF Opposite
    <3>2. Unseen(s)
      BY <1>4, <3>1
    <3>3. CASE st.direction = "none"
      <4>1. NeverOn(s)'
        BY <1>5, <3>1, <3>2, <3>3, NeverOnStays
      <4> QED
        BY <4>1 DEF NeverOn, Rested, Timely, Seen
    <3>4. CASE d = st.direction /\ st.direction # "none"
      <4>1. Rested(e, s)
        BY <1>5, <3>1, <3>4
      <4> QED
        BY <1>2, <1>3, <1>10, <3>1, <3>2, <4>1, RestedDispatch
    <3>5. CASE e.deadTimeSeconds = 0
      BY <1>2, <1>3, <1>10, <3>1, <3>2, <3>5, RestedReversal
    <3> QED
      BY <1>10, <2>1, <3>3, <3>4, <3>5
  <2>2. CASE new.direction = "open"
    <3>1. ~IsOn(e.pairSlot)' /\ Opposite(e, "open") = e.pairSlot
      BY <1>10, <2>2 DEF Opposite
    <3>2. Rested(e, e.pairSlot)'
      BY <2>1, <2>2, <3>1 DEF Opposite
    <3> QED
      BY <1>10, <2>2, <3>1, <3>2 DEF PairInv, Opposite
  <2>3. CASE new.direction = "close"
    <3>1. ~IsOn(e.slot)' /\ Opposite(e, "close") = e.slot
      BY <1>10, <2>3 DEF Opposite
    <3>2. Rested(e, e.slot)'
      BY <2>1, <2>3, <3>1 DEF Opposite
    <3> QED
      BY <1>10, <2>3, <3>1, <3>2 DEF PairInv, Opposite
  <2> QED
    BY <1>10, <2>2, <2>3
<1> QED
  BY <1>3, <1>8, <1>9, <1>10

\* A sample counts the winding's rest.
LEMMA PairPasses ==
    ASSUME RunsType, HistoryStep, TimePasses, NEW e \in RelaySlot,
           UsedSlots(e) \subseteq SlotNumbers,
           PairTypes(e), PairTypes(e)', PairInv(e),
           Stays(e), Time' = Time + 1
    PROVE  PairInv(e)'
<1> DEFINE st == slots[e.slot]
<1>1. UsedSlots(e) = {e.slot, e.pairSlot}
      /\ {e.slot, e.pairSlot} \subseteq SlotNumbers
  BY DEF PairTypes
<1>2. /\ slots'[e.slot].direction = st.direction
      /\ slots'[e.slot].dead = st.dead
      /\ slots'[e.slot].dispatched = st.dispatched
      /\ \A s \in UsedSlots(e) : IsOn(s)' = IsOn(s)
  BY DEF Stays, Track, IsOn
<1>3. ASSUME NEW s \in {e.slot, e.pairSlot}, NeverOn(s)
      PROVE  NeverOn(s)'
  <2>1. runs[s].on = IsOn(s)
    BY <1>1, <1>3, PairTyped DEF NeverOn, IsOn
  <2>2. runs'[s].on = runs[s].on /\ runs'[s].marks = Seen(s)
    BY <1>1, <2>1, SampledSame
  <2> QED
    BY <1>1, <1>2, <1>3, <2>2 DEF NeverOn, Seen
<1>4. ASSUME NEW s \in {e.slot, e.pairSlot}, Rested(e, s)
      PROVE  Rested(e, s)'
  <2> DEFINE r == runs[s]
             D == e.deadTimeSeconds
  <2>1. /\ st.dead \in Nat /\ st.dispatched \in Nat /\ Time \in Nat
        /\ HistoryCap \in Nat \ {0} /\ D \in Nat
        /\ r.n \in 0..HistoryCap /\ r.on \in BOOLEAN
    BY PairTyped
  <2>2. ~IsOn(s) /\ ~IsOn(s)'
    BY <1>1, <1>2, <1>4 DEF Rested
  <2>3. CASE ~r.on
    <3>1. r.on = IsOn(s)
      BY <2>1, <2>2, <2>3 DEF IsOn
    <3>2. /\ runs'[s].on = r.on /\ runs'[s].n = Capped(r.n)
          /\ runs'[s].marks = Seen(s) /\ runs'[s].recent = {}
      BY <1>1, <3>1, SampledSame
    <3>3. Seen(s)' = Seen(s)
      BY <3>2 DEF Seen
    <3>4. /\ r.n < HistoryCap => runs'[s].n = r.n + 1
          /\ r.n = HistoryCap => runs'[s].n = HistoryCap
      BY <2>1, <3>2 DEF Capped
    <3> QED
      BY <1>2, <1>4, <2>1, <2>2, <2>3, <3>2, <3>3, <3>4 DEF Rested
  <2>4. CASE r.on
    <3>1. r.on # IsOn(s)
      BY <2>1, <2>2, <2>4 DEF IsOn
    <3>2. /\ runs'[s].on = IsOn(s) /\ runs'[s].n = 1
          /\ runs'[s].marks = r.recent \cup Inherited(r)
      BY <1>1, <3>1, SampledSwitch
    <3>3. Timely(Seen(s)') => Timely(r.recent)
      BY <3>2 DEF Timely, Seen
    <3>4. ~runs'[s].on
      BY <2>2, <3>2
    <3> QED
      BY <1>2, <1>4, <2>1, <2>2, <2>4, <3>2, <3>3, <3>4 DEF Rested
  <2> QED
    BY <2>3, <2>4
<1>5. st.direction = "none" => NeverOn(e.slot)' /\ NeverOn(e.pairSlot)'
  BY <1>3 DEF PairInv
<1>6. st.direction # "none" => Rested(e, Opposite(e, st.direction))'
  <2>1. Opposite(e, st.direction) \in {e.slot, e.pairSlot}
    BY DEF Opposite
  <2>2. SUFFICES ASSUME NEW s \in {e.slot, e.pairSlot}, Rested(e, s)
                 PROVE  Rested(e, s)'
    BY <1>2, <2>1 DEF PairInv, Opposite
  <2> QED
    BY <1>4, <2>2
<1> QED
  BY <1>1, <1>2, <1>5, <1>6 DEF PairInv, Opposite

\* An output the board does not have stays off.
NotWired(e) == \A s \in UsedSlots(e) : ~IsOn(s) /\ ~runs[s].on

\* dispatchSlot skips an entry whose pins the board does not have.
LEMMA NotWiredKeeps ==
    ASSUME RunsType, HistoryStep, NEW e \in RelaySlot,
           UsedSlots(e) \subseteq SlotNumbers, NotWired(e), ~Driven(e),
           Stays(e) \/ PutToRest(e) \/ Drives(e)
    PROVE  NotWired(e)'
<1> SUFFICES ASSUME NEW s \in UsedSlots(e)
             PROVE  ~IsOn(s)' /\ ~runs'[s].on
  BY DEF NotWired, UsedSlots
<1>1. s \in SlotNumbers /\ ~IsOn(s) /\ ~runs[s].on /\ runs[s] \in Run
  BY DEF NotWired, RunsType
<1>2. ~IsOn(s)'
  BY <1>1 DEF Stays, PutToRest, Drives, IsOn
<1>3. CASE TimePasses
  <2>1. runs[s].on = IsOn(s)
    BY <1>1 DEF Run, IsOn
  <2> QED
    BY <1>1, <1>2, <1>3, <2>1, SampledSame
<1>4. CASE ~TimePasses
  BY <1>1, <1>2, <1>4, Unsampled
<1> QED
  BY <1>3, <1>4

\* An entry's slots see a step in which no time passes.
LEMMA UnseenStep ==
    ASSUME TypeOK, RunsType, HistoryStep, ~TimePasses, NEW s \in SlotNumbers,
           Time' <= Time \/ "ahead" \in runs'[s].recent
    PROVE  Unseen(s)
BY Unsampled DEF Unseen, Seen

\* A forced-off leaves its mark with every relay of the configuration.
LEMMA RestMarks ==
    ASSUME RunsType, HistoryStep, OutputsForced, ~TimePasses,
           NEW e \in Entries(deviceConfig), e.slot \in SlotNumbers
    PROVE  IF IsOn(e.slot) THEN "cut" \in runs'[e.slot].recent
           ELSE "idled" \in runs'[e.slot].recent
<1>1. runs'[e.slot].recent = runs[e.slot].recent \cup MarksOf(e.slot)
  BY Unsampled
<1>2. IF IsOn(e.slot) THEN "cut" \in MarksOf(e.slot)
      ELSE "idled" \in MarksOf(e.slot)
  BY DEF MarksOf
<1> QED
  BY <1>1, <1>2

-----------------------------------------------------------------------------
(* The inductive invariant of all entries *)

\* A plain entry, by what the board has of its outputs
EntryKept(e) ==
    /\ \A s \in UsedSlots(e) : TimeInv(s)
    /\ ~Driven(e) => NotWired(e)
    /\ Driven(e) /\ e.kind = "relay" => MinInv(e)
    /\ Driven(e) /\ e.kind = "pair" => PairInv(e)

\* What a plain entry is.
LEMMA EntryTyped ==
    ASSUME TypeOK, RunsType, Separate(deviceConfig),
           NEW e \in Entries(deviceConfig), Plainly(e)
    PROVE  /\ e \in RelaySlot /\ UsedSlots(e) \subseteq SlotNumbers
           /\ e.slot \in UsedSlots(e) /\ e.slot \in SlotNumbers
           /\ EntryTypes(e)
           /\ e.kind = "relay" => UsedSlots(e) = {e.slot}
           /\ e.kind = "pair" => PairTypes(e)
<1>1. /\ deviceConfig \in Configs /\ slots \in [SlotNumbers -> SlotState]
      /\ now \in Nat \ {0} /\ epoch \in Nat
  BY DEF TypeOK
<1>2. e \in RelaySlot
  BY <1>1, EntryType
<1>3. /\ UsedSlots(e) \subseteq SlotNumbers /\ e.slot \in UsedSlots(e)
      /\ e.slot \in SlotNumbers
  BY <1>2 DEF UsedSlots, RelaySlot
<1>4. {e.minOnSeconds, e.minOffSeconds, e.deadTimeSeconds}
        \subseteq 0..HistoryCap
  BY <1>1, HistoryAssumption
<1>5. EntryTypes(e)
  BY <1>1, <1>3, <1>4 DEF EntryTypes, Time, RunsType
<1> QED
  BY <1>2, <1>3, <1>5 DEF Separate, PairTypes, UsedSlots

\* Every step of the system keeps every entry's invariant.
LEMMA StepEntryKept ==
    ASSUME TypeOK, TypeOK', TickInv, RunsType, RunsType', LimitsInv,
           [Next]_vars, HistoryStep,
           deviceConfig'.relays = deviceConfig.relays,
           Separate(deviceConfig),
           NEW e \in Entries(deviceConfig), Plainly(e), EntryKept(e)
    PROVE  EntryKept(e)'
<1>1. /\ e \in RelaySlot /\ UsedSlots(e) \subseteq SlotNumbers
      /\ e.slot \in UsedSlots(e) /\ e.slot \in SlotNumbers
      /\ EntryTypes(e)
      /\ e.kind = "relay" => UsedSlots(e) = {e.slot}
      /\ e.kind = "pair" => PairTypes(e)
  BY EntryTyped
<1>2. Entries(deviceConfig') = Entries(deviceConfig)
  BY DEF Entries
<1>3. EntryTypes(e)' /\ (e.kind = "pair" => PairTypes(e)')
  <2>1. /\ slots' \in [SlotNumbers -> SlotState] /\ epoch' \in Nat
        /\ now' \in Nat \ {0} /\ runs' \in [SlotNumbers -> Run]
    BY DEF TypeOK, RunsType
  <2>2. EntryTypes(e)'
    BY <1>1, <2>1 DEF EntryTypes, Time, UsedSlots
  <2> QED
    BY <1>1, <2>2 DEF PairTypes, UsedSlots
<1>4. Stays(e) \/ PutToRest(e) \/ Drives(e)
  BY StepOfEntry
<1>5. \A s \in UsedSlots(e) :
         /\ TimeInv(s)'
         /\ ~TimePasses => Time' <= Time \/ "ahead" \in runs'[s].recent
         /\ TimePasses => Time' = Time + 1
  BY <1>1, StepTime DEF EntryKept
<1>6. ~TimePasses => \A s \in UsedSlots(e) : Unseen(s)
  BY <1>1, <1>5, UnseenStep
<1>7. TimePasses => Stays(e) /\ Time' = Time + 1
  BY <1>1, <1>4, <1>5 DEF PutToRest, Drives, TimePasses
<1>8. ~Driven(e) => NotWired(e)'
  BY <1>1, <1>4, NotWiredKeeps DEF EntryKept
<1>9. ASSUME Driven(e), e.kind = "relay"
      PROVE  MinInv(e)'
  <2>1. MinInv(e) /\ UsedSlots(e) = {e.slot}
    BY <1>1, <1>9 DEF EntryKept
  <2>2. CASE TimePasses
    BY <1>1, <1>3, <1>7, <2>1, <2>2, MinPasses
  <2>3. CASE ~TimePasses /\ Stays(e)
    BY <1>1, <1>3, <1>6, <2>1, <2>3, MinStays
  <2>4. CASE ~TimePasses /\ PutToRest(e)
    <3>1. RelayPin(e.slot) \in RestPins(e)
      BY <1>9 DEF Driven, Needed, RestPins, OutputPins, RelayPin
    <3>2. IF IsOn(e.slot) THEN "cut" \in runs'[e.slot].recent
          ELSE "idled" \in runs'[e.slot].recent
      BY <1>1, <2>4, RestMarks DEF PutToRest
    <3> QED
      BY <1>1, <1>3, <1>6, <2>1, <2>4, <3>1, <3>2, MinPutToRest
  <2>5. CASE ~TimePasses /\ Drives(e)
    BY <1>1, <1>3, <1>6, <1>9, <2>1, <2>5, MinDrives
  <2> QED
    BY <1>4, <2>2, <2>3, <2>4, <2>5
<1>10. ASSUME Driven(e), e.kind = "pair"
       PROVE  PairInv(e)'
  <2>1. PairInv(e) /\ PairTypes(e) /\ PairTypes(e)'
    BY <1>1, <1>3, <1>10 DEF EntryKept
  <2>2. CASE TimePasses
    BY <1>1, <1>7, <2>1, <2>2, PairPasses
  <2>3. CASE ~TimePasses /\ Stays(e)
    BY <1>6, <2>1, <2>3, PairStays
  <2>4. CASE ~TimePasses /\ PutToRest(e)
    BY <1>6, <2>1, <2>4, PairPutToRest
  <2>5. CASE ~TimePasses /\ Drives(e)
    BY <1>1, <1>6, <1>10, <2>1, <2>5, PairDrives
  <2> QED
    BY <1>4, <2>2, <2>3, <2>4, <2>5
<1> QED
  BY <1>5, <1>8, <1>9, <1>10 DEF EntryKept, Driven, UsedSlots

\* Every entry of the configuration the properties below speak of
EntriesInv ==
    /\ TypeOK /\ TickInv /\ RunsType /\ LimitsInv
    /\ \A e \in Entries(deviceConfig) : Plainly(e) => EntryKept(e)

\* At boot everything is off and nothing has been counted.
LEMMA InitEntries == HInit => EntriesInv
<1> SUFFICES ASSUME HInit
             PROVE  EntriesInv
  OBVIOUS
<1>1. Init
  BY DEF HInit
<1>2. TypeOK /\ TickInv /\ RunsType
  BY InitPumps DEF PumpsInv
<1>3. pc["relay"] = "check"
  BY <1>1 DEF Init, Tasks
<1>4. LimitsInv
  BY <1>3 DEF LimitsInv
<1>5. ASSUME NEW s \in SlotNumbers
      PROVE  /\ ~IsOn(s) /\ runs[s].on = FALSE /\ runs[s].n = 0
             /\ runs[s].marks = {"boot"} /\ runs[s].recent = {}
             /\ slots[s].applied = 0 /\ slots[s].direction = "none"
             /\ Seen(s) = {"boot"} /\ TimeInv(s)
  <2>1. runs[s] = [on |-> FALSE, n |-> 0, marks |-> {"boot"}, recent |-> {}]
    BY DEF HInit
  <2>2. RelayPin(s) \in Pins
    BY DEF RelayPin, Pins
  <2>3. pin[RelayPin(s)] = 0
    BY <1>1, <2>2 DEF Init
  <2>4. slots[s].applied = 0 /\ slots[s].direction = "none"
    BY <1>1 DEF Init
  <2> QED
    BY <1>3, <2>1, <2>3, <2>4 DEF IsOn, Seen, TimeInv, InCycle, InTick
<1>6. ASSUME NEW e \in Entries(deviceConfig), Plainly(e)
      PROVE  EntryKept(e)
  <2>1. e \in RelaySlot
    BY <1>2, EntryType DEF TypeOK
  <2>2. UsedSlots(e) \subseteq SlotNumbers /\ e.slot \in UsedSlots(e)
    BY <2>1 DEF UsedSlots, RelaySlot
  <2>3. NotWired(e)
    BY <1>5, <2>2 DEF NotWired
  <2>4. MinInv(e)
    <3>1. /\ ~IsOn(e.slot) /\ runs[e.slot].on = FALSE
          /\ "boot" \in Seen(e.slot) /\ slots[e.slot].applied = 0
      BY <1>5, <2>2
    <3> QED
      BY <3>1 DEF MinInv, Plain
  <2>5. e.kind = "pair" => PairInv(e)
    <3>1. SUFFICES ASSUME e.kind = "pair"
                   PROVE  PairInv(e)
      OBVIOUS
    <3>2. e.slot \in SlotNumbers /\ e.pairSlot \in SlotNumbers
      BY <2>1 DEF RelaySlot
    <3>3. \A s \in {e.slot, e.pairSlot} : NeverOn(s) /\ ~IsOn(s)
      BY <1>5, <3>2 DEF NeverOn
    <3>4. slots[e.slot].direction = "none"
      BY <1>5, <3>2
    <3> QED
      BY <3>3, <3>4 DEF PairInv
  <2> QED
    BY <1>5, <2>2, <2>3, <2>4, <2>5 DEF EntryKept
<1> QED
  BY <1>2, <1>4, <1>6 DEF EntriesInv

\* It is inductive where no two entries share an output or a slot.
LEMMA StepEntries ==
    ASSUME \A c \in Configs : Separate(c)
    PROVE  EntriesInv /\ [InstallationNext]_hvars => EntriesInv'
<1> SUFFICES ASSUME EntriesInv, [InstallationNext]_hvars
             PROVE  EntriesInv'
  OBVIOUS
<1>1. Separate(deviceConfig)
  BY DEF EntriesInv, TypeOK
<1>2. CASE UNCHANGED hvars
  <2>1. UNCHANGED vars
        /\ UNCHANGED <<deviceConfig, epoch, pin, slots, pc, entry, now, runs>>
    BY <1>2 DEF hvars, vars, history, controllerVars, tickVars
  <2>2. TypeOK' /\ TickInv' /\ LimitsInv'
    BY <2>1, StepType, StepTick, StepLimits DEF EntriesInv
  <2>3. RunsType'
    BY <2>1 DEF EntriesInv, RunsType
  <2>4. Entries(deviceConfig)' = Entries(deviceConfig)
    BY <2>1
  <2>5. ASSUME NEW e \in Entries(deviceConfig), EntryKept(e)
        PROVE  EntryKept(e)'
    <3>1. /\ \A s : (IsOn(s)' <=> IsOn(s)) /\ Seen(s)' = Seen(s)
          /\ Time' = Time
          /\ \A s : TimeInv(s)' <=> TimeInv(s)
      BY <2>1 DEF IsOn, Seen, Time, TimeInv
    <3>2. MinInv(e) => MinInv(e)'
      BY <2>1, <3>1 DEF MinInv, Passed
    <3>3. PairInv(e) => PairInv(e)'
      BY <2>1, <3>1 DEF PairInv, NeverOn, Rested, Opposite
    <3>4. NotWired(e) => NotWired(e)'
      BY <2>1, <3>1 DEF NotWired, UsedSlots
    <3> QED
      BY <2>1, <2>5, <3>1, <3>2, <3>3, <3>4 DEF EntryKept, UsedSlots, Driven
  <2> QED
    BY <2>2, <2>3, <2>4, <2>5 DEF EntriesInv, Plainly
<1>3. CASE InstallationNext
  <2>1. /\ [Next]_vars /\ HistoryStep
        /\ deviceConfig'.relays = deviceConfig.relays
    BY <1>3 DEF InstallationNext, HNext
  <2>2. TypeOK' /\ TickInv' /\ LimitsInv'
    BY <2>1, StepType, StepTick, StepLimits DEF EntriesInv
  <2>3. RunsType'
    BY <2>1, StepRuns DEF EntriesInv
  <2>4. Entries(deviceConfig)' = Entries(deviceConfig)
    BY <2>1 DEF Entries
  <2>5. ASSUME NEW e \in Entries(deviceConfig), Plainly(e), EntryKept(e)
        PROVE  EntryKept(e)'
    BY <1>1, <2>1, <2>2, <2>3, <2>5, StepEntryKept DEF EntriesInv
  <2> QED
    BY <2>2, <2>3, <2>4, <2>5 DEF EntriesInv, Plainly
<1> QED
  BY <1>2, <1>3

\* In one installation whose entries share no output, a relay switched by
\* its rules has been on, or off, for its minimum time, counted in real
\* ticks, under every interleaving of the two tasks (dispatchSlot).
THEOREM MinTimes ==
    ASSUME \A c \in Configs : Separate(c)
    PROVE  InstallationSpec => MinTimesHonoured
<1> DEFINE Honoured(e) ==
             (/\ e.kind = "relay" /\ e.fn # "WaterPump" /\ Switches(e.slot)
              /\ (runs[e.slot].marks \cup runs[e.slot].recent)
                   \cap {"boot", "cut", "idled", "ahead"} = {}) =>
                 runs[e.slot].n >= IF runs[e.slot].on THEN e.minOnSeconds
                                   ELSE e.minOffSeconds
<1>1. EntriesInv /\ [InstallationNext]_hvars =>
        [\A e \in Entries(deviceConfig) : Honoured(e)]_hvars
  <2> SUFFICES ASSUME EntriesInv, NEW e \in Entries(deviceConfig),
                      e.kind = "relay", e.fn # "WaterPump", Switches(e.slot),
                      (runs[e.slot].marks \cup runs[e.slot].recent)
                        \cap {"boot", "cut", "idled", "ahead"} = {}
               PROVE  runs[e.slot].n >= IF runs[e.slot].on THEN e.minOnSeconds
                                        ELSE e.minOffSeconds
    OBVIOUS
  <2>1. Plain(Seen(e.slot))
    BY DEF Plain, Seen
  <2>2. e.slot \in UsedSlots(e) /\ EntryKept(e) /\ runs[e.slot] \in Run
    <3>1. Plainly(e) /\ Separate(deviceConfig)
      BY DEF Plainly, EntriesInv, TypeOK
    <3> QED
      BY <3>1, EntryTyped DEF EntriesInv, RunsType
  <2>3. IsOn(e.slot) # runs[e.slot].on /\ runs[e.slot].on \in BOOLEAN
        /\ IsOn(e.slot) \in BOOLEAN
    BY <2>2 DEF Switches, Run, IsOn
  <2>4. Driven(e)
    BY <2>2, <2>3 DEF EntryKept, NotWired
  <2> QED
    BY <2>1, <2>2, <2>3, <2>4 DEF EntryKept, MinInv
<1> QED
  BY <1>1, InitEntries, StepEntries, PTL DEF InstallationSpec, MinTimesHonoured

\* In one installation whose entries share no output, a motor's windings are
\* never energised together, and one only after the other has rested for
\* the dead time (computeRelayPairStep, driveEveryAssignedRelayOff).
THEOREM MotorsRest ==
    ASSUME \A c \in Configs : Separate(c)
    PROVE  InstallationSpec => DeadTime
<1> DEFINE Kept(e) == e.kind = "pair" =>
          /\ ~(IsOn(e.slot) /\ IsOn(e.pairSlot))
          /\ \A w \in {<<e.slot, e.pairSlot>>, <<e.pairSlot, e.slot>>} :
                (/\ Switches(w[1]) /\ ~runs[w[1]].on
                 /\ e.deadTimeSeconds > 0
                 /\ (runs[w[2]].marks \cup runs[w[2]].recent)
                      \cap {"boot", "ahead"} = {}) =>
                    ~runs[w[2]].on /\ runs[w[2]].n >= e.deadTimeSeconds
<1>1. EntriesInv /\ [InstallationNext]_hvars =>
        [\A e \in Entries(deviceConfig) : Kept(e)]_hvars
  <2> SUFFICES ASSUME EntriesInv, NEW e \in Entries(deviceConfig),
                      e.kind = "pair"
               PROVE  Kept(e)
    OBVIOUS
  <2>1. /\ EntryKept(e) /\ PairTypes(e)
        /\ UsedSlots(e) = {e.slot, e.pairSlot}
    <3>1. Plainly(e) /\ Separate(deviceConfig)
      BY DEF Plainly, EntriesInv, TypeOK
    <3> QED
      BY <3>1, EntryTyped DEF EntriesInv, PairTypes
  <2>2. ~Driven(e) => ~IsOn(e.slot) /\ ~IsOn(e.pairSlot)
    BY <2>1 DEF EntryKept, NotWired
  <2>3. Driven(e) => PairInv(e)
    BY <2>1 DEF EntryKept
  <2>4. ~(IsOn(e.slot) /\ IsOn(e.pairSlot))
    BY <2>2, <2>3 DEF PairInv
  <2>5. ASSUME NEW a \in {e.slot, e.pairSlot}, NEW b \in {e.slot, e.pairSlot},
               a # b, Switches(a), ~runs[a].on, e.deadTimeSeconds > 0,
               (runs[b].marks \cup runs[b].recent) \cap {"boot", "ahead"} = {}
        PROVE  ~runs[b].on /\ runs[b].n >= e.deadTimeSeconds
    <3>1. /\ runs[a].on \in BOOLEAN /\ IsOn(a) \in BOOLEAN
          /\ runs[b].on \in BOOLEAN /\ runs[b].n \in 0..HistoryCap
          /\ HistoryCap \in Nat \ {0} /\ e.deadTimeSeconds \in 0..HistoryCap
      BY <2>1, PairTyped
    <3>2. IsOn(a) /\ Driven(e) /\ PairInv(e)
      BY <2>2, <2>3, <2>5, <3>1 DEF Switches
    <3>3. slots[e.slot].dead = 0 /\ Rested(e, b)
      BY <2>1, <2>5, <3>2 DEF PairInv, Opposite, PairTypes
    <3>4. Timely(IF runs[b].on THEN runs[b].recent ELSE Seen(b))
      BY <2>5 DEF Timely, Seen
    <3> QED
      BY <2>5, <3>1, <3>3, <3>4 DEF Rested
  <2>6. e.slot # e.pairSlot
    BY <2>1 DEF PairTypes
  <2> QED
    BY <2>4, <2>5, <2>6
<1> QED
  BY <1>1, InitEntries, StepEntries, PTL DEF InstallationSpec, DeadTime

-----------------------------------------------------------------------------
(* What a tick has reported so far *)

\* A plain relay that is wired and not timed: it follows its function at once.
Direct(e) == e.kind = "relay" /\ RelayPin(e.slot) \in Wired /\ Untimed(e)

\* This tick has decided function f, and reported the decision.
Decided(f) ==
    /\ f # "WaterPump"
    /\ \E i \in DOMAIN FunctionOrder :
          /\ FunctionOrder[i] = f
          /\ pc["relay"] \in {"decide", "dispatch"} => i < fn["relay"]
    /\ pc["relay"] = "dispatch" => f # FunctionOrder[fn["relay"]]

\* The controller's lock keeps the two tasks apart.
Alone == pc["relay"] \in Critical => pc["loop"] \notin Critical

\* A tick starts with the first function.
FromFirst == pc["relay"] \notin {"decide", "dispatch", "recordOff"} =>
                fn["relay"] = 1

\* What is decided so far is on as reported, while the buffer has room.
Recorded ==
    (pc["relay"] \in InTick /\ Len(pending) < MAX_REPORTED_FUNCTIONS) =>
        \A e \in Entries(deviceConfig) : Direct(e) /\ Decided(e.fn) =>
            (IsOn(e.slot) <=> reported[e.fn].on)

\* The entries of the current function that were dispatched follow it.
Follows(e) ==
    (/\ Direct(e)
     /\ e.fn = FunctionOrder[fn["relay"]] /\ e.fn # "WaterPump") =>
        (IsOn(e.slot) <=> shouldBeOn)

\* The dispatch of a function, up to its current entry
Deciding ==
    pc["relay"] = "dispatch" =>
        /\ shouldBeOn <=> targetPercent > 0
        /\ \A i \in DOMAIN deviceConfig.relays :
              i < entry => Follows(deviceConfig.relays[i])

\* The pumps the safety pass has judged are tracked as they are.
Judged ==
    pc["relay"] \in {"pumpWrite", "pumpLimits"} =>
        \A s \in SlotNumbers : s < entry /\ PumpSlot(s) =>
            (slots[s].applied > 0 <=> IsOn(s))

\* The inductive invariant of the reports
ReportInv == Alone /\ FromFirst /\ Recorded /\ Deciding /\ Judged

\* The lock: no two tasks are in a critical section.
LEMMA StepAlone ==
    ASSUME TypeOK, Alone, [Next]_vars
    PROVE  Alone'
<1> USE DEF Goto, Tasks, Critical, LockFree
<1>0. pc \in [Tasks -> Labels]
  BY DEF TypeOK
<1>1. CASE RelayTask
  <2>1. pc'["loop"] = pc["loop"]
    BY <1>0, <1>1
       DEF RelayTask, RelayCheckEnabled, RelaySnapshotGet, InitController,
           DecideFunction, DispatchSlot, RecordFunction, BeginSafetyPass,
           PumpWrite, ApplyWaterPumpSafetyLimits, FinishTick, RelayDelay,
           ForceAllRelaysOff, RecordOff, FinishForcedOff
  <2>2. \/ pc["relay"] \in Critical \/ pc'["relay"] \notin Critical
        \/ LockFree
    BY <1>0, <1>1
       DEF RelayTask, RelayCheckEnabled, RelaySnapshotGet, InitController,
           DecideFunction, DispatchSlot, RecordFunction, BeginSafetyPass,
           PumpWrite, ApplyWaterPumpSafetyLimits, FinishTick, RelayDelay,
           ForceAllRelaysOff, RecordOff, FinishForcedOff
  <2> QED
    BY <2>1, <2>2 DEF Alone
<1>2. CASE LoopTask \/ SetClock \/ UNCHANGED vars
  <2>1. pc'["relay"] = pc["relay"]
    BY <1>0, <1>2
       DEF LoopTask, ApiConfigCommit, ApiConfigUnchanged, LoopBody,
           ConsumeSafetyLimitEvent, ConsumeSensorStaleEvent,
           ConsumeControllerDataChanges, PushControllerData,
           ServerAppliesChange, PublishSnapshot, LoopDelay, ForceAllRelaysOff,
           RecordOff, FinishForcedOff, SetClock, vars
  <2>2. \/ pc["loop"] \in Critical \/ pc'["loop"] \notin Critical
        \/ LockFree
    BY <1>0, <1>2
       DEF LoopTask, ApiConfigCommit, ApiConfigUnchanged, LoopBody,
           ConsumeSafetyLimitEvent, ConsumeSensorStaleEvent,
           ConsumeControllerDataChanges, PushControllerData,
           ServerAppliesChange, PublishSnapshot, LoopDelay, ForceAllRelaysOff,
           RecordOff, FinishForcedOff, SetClock, vars
  <2> QED
    BY <2>1, <2>2 DEF Alone
<1> QED
  BY <1>1, <1>2 DEF Next

\* A tick that decides is not disturbed by the loop task.
LEMMA TickAlone ==
    ASSUME TypeOK, Alone, pc["relay"] \in InTick,
           LoopTask \/ SetClock \/ UNCHANGED vars
    PROVE  /\ UNCHANGED <<deviceConfig, pin, slots, reported, pending, entry,
                          shouldBeOn, targetPercent>>
           /\ pc'["relay"] = pc["relay"] /\ fn'["relay"] = fn["relay"]
<1> USE DEF Goto, Tasks
<1>0. pc \in [Tasks -> Labels] /\ fn \in [Tasks -> Nat \ {0}]
  BY DEF TypeOK
<1>1. ~LockFree /\ pc["loop"] \notin Critical
  BY DEF Alone, InTick, Critical, LockFree
<1>2. CASE LoopTask
  <2>1. /\ ~ApiConfigCommit /\ ~ConsumeSafetyLimitEvent
        /\ ~ConsumeSensorStaleEvent /\ ~ConsumeControllerDataChanges
        /\ ~PublishSnapshot /\ ~ForceAllRelaysOff("loop")
    BY <1>1
       DEF ApiConfigCommit, ConsumeSafetyLimitEvent, ConsumeSensorStaleEvent,
           ConsumeControllerDataChanges, PublishSnapshot, ForceAllRelaysOff
  <2>2. ~RecordOff("loop") /\ ~FinishForcedOff("loop")
    BY <1>1 DEF RecordOff, FinishForcedOff, Critical
  <2>3. \/ \E wait \in BOOLEAN : ApiConfigUnchanged(wait)
        \/ LoopBody \/ PushControllerData \/ ServerAppliesChange \/ LoopDelay
    BY <1>2, <2>1, <2>2 DEF LoopTask
  <2> QED
    BY <1>0, <2>3
       DEF ApiConfigUnchanged, LoopBody, PushControllerData,
           ServerAppliesChange, LoopDelay, controllerVars, tickVars
<1>3. CASE SetClock \/ UNCHANGED vars
  BY <1>0, <1>3 DEF SetClock, vars, controllerVars, tickVars
<1> QED
  BY <1>2, <1>3

\* Outside the loops over the functions, the index is at the first.
LEMMA StepFromFirst ==
    ASSUME TypeOK, Alone, FromFirst, [Next]_vars
    PROVE  FromFirst'
<1> USE DEF Goto, Tasks
<1>0. pc \in [Tasks -> Labels] /\ fn \in [Tasks -> Nat \ {0}]
  BY DEF TypeOK
<1>1. CASE RelayTask
  BY <1>0, <1>1
     DEF FromFirst, RelayTask, RelayCheckEnabled, RelaySnapshotGet,
         InitController, DecideFunction, DispatchSlot, RecordFunction,
         BeginSafetyPass, PumpWrite, ApplyWaterPumpSafetyLimits, FinishTick,
         RelayDelay, ForceAllRelaysOff, RecordOff, FinishForcedOff
<1>2. CASE LoopTask \/ SetClock \/ UNCHANGED vars
  <2>1. pc'["relay"] = pc["relay"] /\ fn'["relay"] = fn["relay"]
    BY <1>0, <1>2
       DEF LoopTask, ApiConfigCommit, ApiConfigUnchanged, LoopBody,
           ConsumeSafetyLimitEvent, ConsumeSensorStaleEvent,
           ConsumeControllerDataChanges, PushControllerData,
           ServerAppliesChange, PublishSnapshot, LoopDelay, ForceAllRelaysOff,
           RecordOff, FinishForcedOff, SetClock, vars
  <2> QED
    BY <2>1 DEF FromFirst
<1> QED
  BY <1>1, <1>2 DEF Next

\* A report that the buffer takes leaves the function reported as decided.
LEMMA RecordOne ==
    ASSUME TypeOK, NEW f \in Functions, NEW on \in BOOLEAN, NEW percent,
           recordControllerState(f, on, percent)
    PROVE  /\ Len(pending') < MAX_REPORTED_FUNCTIONS =>
                 Len(pending) < MAX_REPORTED_FUNCTIONS
           /\ Len(pending) < MAX_REPORTED_FUNCTIONS => reported'[f].on = on
           /\ \A g \in Functions : g # f => reported'[g] = reported[g]
<1>1. pending \in Seq(Changes) /\ reported \in [Functions -> States]
  BY DEF TypeOK
<1>2. State(on, percent).on = on
  BY DEF State
<1>3. MAX_REPORTED_FUNCTIONS \in Nat /\ Len(pending) \in Nat
  BY <1>1, SizeAssumption DEF MAX_REPORTED_FUNCTIONS
<1>4. CASE Len(pending) >= MAX_REPORTED_FUNCTIONS
           \/ reported[f] = State(on, percent)
  <2>1. UNCHANGED <<reported, pending>>
    BY <1>4 DEF recordControllerState
  <2>2. Len(pending) < MAX_REPORTED_FUNCTIONS =>
           reported[f] = State(on, percent)
    BY <1>3, <1>4
  <2> QED
    BY <1>2, <2>1, <2>2
<1>5. CASE ~(Len(pending) >= MAX_REPORTED_FUNCTIONS
             \/ reported[f] = State(on, percent))
  <2>1. reported' = [reported EXCEPT ![f] = State(on, percent)]
    BY <1>5 DEF recordControllerState
  <2>2. Len(pending) < MAX_REPORTED_FUNCTIONS
    BY <1>3, <1>5
  <2> QED
    BY <1>1, <1>2, <2>1, <2>2
<1> QED
  BY <1>4, <1>5

\* The entry a dispatch looks at
LEMMA CurrentEntry ==
    ASSUME TypeOK, DispatchSlot
    PROVE  /\ entry \in DOMAIN deviceConfig.relays
           /\ deviceConfig.relays[entry] \in Entries(deviceConfig)
<1>1. deviceConfig.relays \in Seq(RelaySlot)
  BY EntryType DEF TypeOK, DeviceConfig
<1>2. entry <= Len(deviceConfig.relays) /\ entry \in Nat \ {0}
  BY DEF DispatchSlot, TypeOK
<1>3. entry \in DOMAIN deviceConfig.relays
  BY <1>1, <1>2
<1> QED
  BY <1>3 DEF Entries

\* Dispatching one entry leaves the relays of the others alone.
LEMMA DispatchOthers ==
    ASSUME TypeOK, Separate(deviceConfig), DispatchSlot,
           NEW d \in Entries(deviceConfig), d.kind = "relay",
           \/ d # deviceConfig.relays[entry]
           \/ d.fn # FunctionOrder[fn["relay"]]
           \/ d.fn = "WaterPump"
    PROVE  IsOn(d.slot)' = IsOn(d.slot)
<1> DEFINE e == deviceConfig.relays[entry]
<1>1. e \in Entries(deviceConfig) /\ deviceConfig \in Configs
  BY CurrentEntry DEF TypeOK
<1>2. d.slot \in UsedSlots(d) /\ d.slot \in SlotNumbers
  BY <1>1, EntryType DEF UsedSlots, RelaySlot
<1>3. RelayPin(d.slot) \in Pins /\ pin \in [Pins -> Percent]
  BY <1>2 DEF RelayPin, Pins, TypeOK
<1>4. CASE d # e
  <2>1. RelayPin(d.slot) \notin OutputPins(e)
    BY <1>1, <1>2, <1>4, OtherEntry
  <2>2. pin'[RelayPin(d.slot)] = pin[RelayPin(d.slot)]
    BY <1>3, <2>1 DEF DispatchSlot
  <2> QED
    BY <2>2 DEF IsOn
<1>5. CASE d = e
  <2>1. UNCHANGED pin
    BY <1>5 DEF DispatchSlot
  <2> QED
    BY <2>1 DEF IsOn
<1> QED
  BY <1>4, <1>5

\* What a dispatch does to its own relay
LEMMA DispatchDrives ==
    ASSUME TypeOK, DispatchSlot, NEW e, e = deviceConfig.relays[entry],
           e.kind = "relay", Driven(e),
           e.fn = FunctionOrder[fn["relay"]], e.fn # "WaterPump"
    PROVE  Drives(e)
<1>1. /\ e \in Entries(deviceConfig) /\ deviceConfig \in Configs
      /\ slots \in [SlotNumbers -> SlotState]
  BY CurrentEntry DEF TypeOK
<1>2. e \in RelaySlot /\ e.slot \in SlotNumbers /\ UsedSlots(e) = {e.slot}
  BY <1>1, EntryType DEF RelaySlot, UsedSlots
<1>3. /\ slots' = [slots EXCEPT ![e.slot] =
                     [Stamped(slots[e.slot], Outcomes(e).st)
                        EXCEPT !.dispatched = now]]
      /\ pin' = [p \in Pins |->
                   IF p \in OutputPins(e) THEN Outcomes(e).levels[p]
                   ELSE pin[p]]
  BY <1>2 DEF DispatchSlot, Driven, Outcomes
<1>4. pc["relay"] = "dispatch" /\ UNCHANGED <<pc, epoch, now>>
  BY DEF DispatchSlot
<1>5. RelayPin(e.slot) \in Pins
  BY <1>2 DEF RelayPin, Pins
<1>6. slots'[e.slot] = [Stamped(slots[e.slot], Outcomes(e).st)
                          EXCEPT !.dispatched = now]
  BY <1>1, <1>2, <1>3
<1>7. \A s \in UsedSlots(e) : RelayPin(s) \in OutputPins(e) =>
         pin'[RelayPin(s)] = Outcomes(e).levels[RelayPin(s)]
  BY <1>2, <1>3, <1>5
<1> QED
  BY <1>4, <1>6, <1>7 DEF Drives

\* It switches its own relay as decided.
LEMMA DispatchCurrent ==
    ASSUME TypeOK, Separate(deviceConfig), DispatchSlot,
           NEW e, e = deviceConfig.relays[entry], Direct(e), EntryKept(e),
           e.fn = FunctionOrder[fn["relay"]], e.fn # "WaterPump"
    PROVE  IsOn(e.slot)' <=> targetPercent > 0
<1>1. e \in RelaySlot /\ slots[e.slot] \in SlotState /\ now \in Nat \ {0}
  BY CurrentEntry, EntryType DEF TypeOK, RelaySlot
<1>2. Driven(e) /\ e.kind = "relay" /\ Untimed(e)
  BY DEF Direct, Driven, Needed, OutputPins, RelayPin
<1>3. slots[e.slot].applied > 0 <=> IsOn(e.slot)
  BY <1>2 DEF EntryKept, MinInv
<1>4. Drives(e)
  BY <1>2, DispatchDrives
<1> QED
  BY <1>1, <1>2, <1>3, <1>4, DrivenRelay

\* The tick in progress, as its own steps find it
TickTypes ==
    /\ pc \in [Tasks -> Labels] /\ fn \in [Tasks -> Nat \ {0}]
    /\ entry \in Nat \ {0} /\ deviceConfig \in Configs
    /\ pin \in [Pins -> Percent] /\ slots \in [SlotNumbers -> SlotState]
    /\ shouldBeOn \in BOOLEAN /\ targetPercent \in Percent
    /\ FunctionOrder \in Seq(Functions)

\* The type invariant, for the variables of a tick
LEMMA TickTyped == ASSUME TypeOK PROVE TickTypes
BY SizeAssumption DEF TickTypes, TypeOK

\* A dispatch keeps what is reported, and makes one more entry follow.
LEMMA DispatchReports ==
    ASSUME TypeOK, Separate(deviceConfig), DispatchSlot, Recorded, Deciding,
           \A e \in Entries(deviceConfig) : Plainly(e) => EntryKept(e)
    PROVE  Recorded' /\ Deciding'
<1>1. /\ pc["relay"] = "dispatch" /\ entry' = entry + 1
      /\ UNCHANGED <<deviceConfig, reported, pending, pc, fn, shouldBeOn,
                     targetPercent>>
  BY DEF DispatchSlot
<1>2. TickTypes
  BY TickTyped
<1>3. Recorded'
  <2> SUFFICES ASSUME Len(pending) < MAX_REPORTED_FUNCTIONS,
                      NEW d \in Entries(deviceConfig), Direct(d), Decided(d.fn)
               PROVE  IsOn(d.slot)' <=> reported[d.fn].on
    BY <1>1 DEF Recorded, Decided
  <2>1. IsOn(d.slot) <=> reported[d.fn].on
    BY <1>1 DEF Recorded, InTick
  <2>2. IsOn(d.slot)' = IsOn(d.slot)
    BY <1>1, DispatchOthers DEF Decided, Direct
  <2> QED
    BY <2>1, <2>2
<1>4. Deciding'
  <2>1. ASSUME NEW i \in DOMAIN deviceConfig.relays, i < entry + 1,
               NEW d, d = deviceConfig.relays[i], Direct(d),
               d.fn = FunctionOrder[fn["relay"]], d.fn # "WaterPump"
        PROVE  IsOn(d.slot)' <=> shouldBeOn
    <3>1. d \in Entries(deviceConfig) /\ d.kind = "relay"
      BY <2>1 DEF Entries, Direct
    <3>2. CASE d = deviceConfig.relays[entry]
      <4>1. EntryKept(d)
        BY <2>1, <3>1 DEF Plainly
      <4>2. IsOn(d.slot)' <=> targetPercent > 0
        BY <2>1, <3>2, <4>1, DispatchCurrent
      <4> QED
        BY <1>1, <4>2 DEF Deciding
    <3>3. CASE d # deviceConfig.relays[entry]
      <4>1. i \in Nat
        <5>1. deviceConfig.relays \in Seq(RelaySlot)
          BY <1>2, EntryType DEF TickTypes, DeviceConfig
        <5> QED
          BY <5>1
      <4>2. entry \in Nat /\ i # entry
        BY <1>2, <2>1, <3>3 DEF TickTypes
      <4>3. i < entry
        BY <2>1, <4>1, <4>2
      <4>4. IsOn(d.slot) <=> shouldBeOn
        BY <1>1, <2>1, <4>3 DEF Deciding, Follows
      <4>5. IsOn(d.slot)' = IsOn(d.slot)
        BY <3>1, <3>3, DispatchOthers
      <4> QED
        BY <4>4, <4>5
    <3> QED
      BY <3>2, <3>3
  <2>2. ASSUME NEW i \in DOMAIN deviceConfig.relays, i < entry + 1
        PROVE  Follows(deviceConfig.relays[i])'
    <3>1. PICK d : d = deviceConfig.relays[i]
      OBVIOUS
    <3>2. Follows(d)'
      BY <1>1, <2>1, <2>2, <3>1 DEF Follows, Direct
    <3> QED
      BY <1>1, <3>1, <3>2 DEF Follows
  <2> QED
    BY <1>1, <2>2 DEF Deciding
<1> QED
  BY <1>3, <1>4

\* The report of a function follows the dispatch of all its entries.
LEMMA RecordReports ==
    ASSUME TypeOK, TickInv, RecordFunction, Recorded, Deciding
    PROVE  Recorded'
<1> DEFINE f == FunctionOrder[fn["relay"]]
<1>1. TickTypes
  BY TickTyped
<1>2. /\ pc["relay"] = "dispatch" /\ pc'["relay"] = "decide"
      /\ fn'["relay"] = fn["relay"] + 1 /\ entry > Len(deviceConfig.relays)
      /\ UNCHANGED <<deviceConfig, pin>>
      /\ IF f = "WaterPump" THEN UNCHANGED <<reported, pending>>
         ELSE recordControllerState(f, shouldBeOn, targetPercent)
  BY <1>1 DEF RecordFunction, Goto, Tasks, TickTypes
<1>3. fn["relay"] \in DOMAIN FunctionOrder /\ f \in Functions
  BY <1>1, <1>2 DEF TickInv, TickTypes, Tasks, Functions
<1>4. \A s : IsOn(s)' = IsOn(s)
  BY <1>2 DEF IsOn
<1>5. SUFFICES ASSUME Len(pending') < MAX_REPORTED_FUNCTIONS,
                      NEW d \in Entries(deviceConfig), Direct(d),
                      Decided(d.fn)'
               PROVE  IsOn(d.slot) <=> reported'[d.fn].on
  BY <1>2, <1>4 DEF Recorded
<1>6. Len(pending) < MAX_REPORTED_FUNCTIONS
  BY <1>1, <1>2, <1>3, <1>5, RecordOne DEF TickTypes
<1>7. d.fn # "WaterPump" /\ d \in RelaySlot /\ d.fn \in Functions
  <2>1. d \in RelaySlot
    BY <1>1, EntryType DEF TickTypes
  <2> QED
    BY <1>5, <2>1 DEF Decided, RelaySlot
<1>8. CASE d.fn = f
  <2>1. PICK i \in DOMAIN deviceConfig.relays : deviceConfig.relays[i] = d
    BY DEF Entries
  <2>2. i < entry
    <3>1. deviceConfig.relays \in Seq(RelaySlot)
      BY <1>1, EntryType DEF TickTypes, DeviceConfig
    <3> QED
      BY <1>1, <1>2, <2>1, <3>1 DEF TickTypes
  <2>3. IsOn(d.slot) <=> shouldBeOn
    BY <1>2, <1>5, <1>7, <1>8, <2>1, <2>2 DEF Deciding, Follows
  <2>4. reported'[f].on = shouldBeOn
    BY <1>1, <1>2, <1>3, <1>6, <1>7, <1>8, RecordOne DEF TickTypes
  <2> QED
    BY <1>8, <2>3, <2>4
<1>9. CASE d.fn # f
  <2>1. Decided(d.fn)
    <3>1. PICK i \in DOMAIN FunctionOrder :
             FunctionOrder[i] = d.fn /\ i < fn["relay"] + 1
      BY <1>2, <1>5 DEF Decided
    <3>2. i < fn["relay"]
      BY <1>1, <1>9, <3>1 DEF TickTypes, Tasks
    <3> QED
      BY <1>2, <1>7, <1>9, <3>1, <3>2 DEF Decided
  <2>2. IsOn(d.slot) <=> reported[d.fn].on
    BY <1>2, <1>5, <1>6, <2>1 DEF Recorded, InTick
  <2>3. reported'[d.fn] = reported[d.fn]
    BY <1>1, <1>2, <1>3, <1>7, <1>9, RecordOne DEF TickTypes
  <2> QED
    BY <2>2, <2>3
<1> QED
  BY <1>8, <1>9

\* A decision opens the dispatch of its function, from the first entry on.
LEMMA DecideReports ==
    ASSUME TypeOK, TickInv, EntryInv, DecideFunction, Recorded
    PROVE  Recorded' /\ Deciding' /\ Judged'
<1> DEFINE f == FunctionOrder[fn["relay"]]
           assigned == \E e \in Entries(deviceConfig) : e.fn = f
<1>1. TickTypes /\ TickTypes'
  <2>1. TypeOK'
    BY StepType DEF Next, RelayTask
  <2> QED
    BY <2>1, TickTyped DEF TickTypes, TypeOK
<1>2. /\ pc["relay"] = "decide" /\ entry = 1
      /\ UNCHANGED <<deviceConfig, pin, reported, pending, entry>>
      /\ \/ assigned /\ pc'["relay"] = "dispatch" /\ fn' = fn
         \/ /\ ~assigned /\ pc' = pc /\ fn'["relay"] = fn["relay"] + 1
  BY <1>1 DEF DecideFunction, EntryInv, Goto, Tasks, TickTypes
<1>3. \A s : IsOn(s)' = IsOn(s)
  BY <1>2 DEF IsOn
<1>4. Recorded'
  <2> SUFFICES ASSUME Len(pending) < MAX_REPORTED_FUNCTIONS,
                      NEW d \in Entries(deviceConfig), Direct(d),
                      Decided(d.fn)'
               PROVE  IsOn(d.slot) <=> reported[d.fn].on
    BY <1>2, <1>3 DEF Recorded
  <2>1. Decided(d.fn)
    <3>1. PICK i \in DOMAIN FunctionOrder :
             FunctionOrder[i] = d.fn /\ i < fn'["relay"]
      BY <1>2 DEF Decided
    <3>2. i < fn["relay"]
      <4>1. CASE assigned
        BY <1>2, <3>1, <4>1
      <4>2. CASE ~assigned
        <5>1. i < fn["relay"] + 1 /\ i \in Nat /\ fn["relay"] \in Nat
          BY <1>1, <1>2, <3>1, <4>2 DEF TickTypes, Tasks
        <5>2. i # fn["relay"]
          BY <3>1, <4>2
        <5> QED
          BY <5>1, <5>2
      <4> QED
        BY <4>1, <4>2
    <3> QED
      BY <1>2, <3>1, <3>2 DEF Decided
  <2> QED
    BY <1>2, <2>1 DEF Recorded, InTick
<1>5. Deciding'
  <2> SUFFICES ASSUME pc'["relay"] = "dispatch"
               PROVE  /\ shouldBeOn' <=> targetPercent' > 0
                      /\ \A i \in DOMAIN deviceConfig.relays : ~(i < entry)
    BY <1>2 DEF Deciding
  <2>1. \A i \in DOMAIN deviceConfig.relays : ~(i < entry)
    <3>1. deviceConfig.relays \in Seq(RelaySlot)
      BY <1>1, EntryType DEF TickTypes, DeviceConfig
    <3> QED
      BY <1>2, <3>1
  <2>2. PICK demand : /\ shouldBeOn' = Decision(f, demand)
                      /\ targetPercent' =
                            Reconciled(Decision(f, demand), demand)
    BY <1>2 DEF DecideFunction
  <2>3. targetPercent' = IF ~shouldBeOn' THEN 0
                         ELSE IF demand = 0 THEN 100 ELSE demand
    BY <2>2 DEF Reconciled
  <2>4. targetPercent' \in Percent
    BY <1>1 DEF TickTypes
  <2> QED
    BY <2>1, <2>3, <2>4 DEF Percent
<1>6. Judged'
  BY <1>2 DEF Judged
<1> QED
  BY <1>4, <1>5, <1>6

\* The safety pass begins when every function is decided.
LEMMA BeginReports ==
    ASSUME TypeOK, EntryInv, BeginSafetyPass, Recorded
    PROVE  Recorded' /\ Deciding' /\ Judged'
<1>1. TickTypes
  BY TickTyped
<1>2. /\ pc["relay"] = "decide" /\ pc'["relay"] = "pumpWrite" /\ entry' = 1
      /\ fn["relay"] > Len(FunctionOrder)
      /\ UNCHANGED <<deviceConfig, pin, reported, pending>>
  BY <1>1
     DEF BeginSafetyPass, EntryInv, Goto, Tasks, TickTypes, controllerVars,
         tickVars
<1>3. \A f : Decided(f)' => Decided(f)
  <2>1. \A i \in DOMAIN FunctionOrder : i < fn["relay"]
    BY <1>1, <1>2 DEF TickTypes, Tasks
  <2> QED
    BY <1>2, <2>1 DEF Decided
<1>4. Recorded'
  BY <1>2, <1>3 DEF Recorded, InTick, IsOn
<1>5. \A s \in SlotNumbers : ~(s < 1)
  BY SizeAssumption DEF SlotNumbers
<1> QED
  BY <1>2, <1>4, <1>5 DEF Deciding, Judged

\* The safety pass leaves alone the relays of the other functions.
LEMMA PassOthers ==
    ASSUME TypeOK, Separate(deviceConfig), PumpSlot(entry),
           NEW level, pin' = [pin EXCEPT ![<<"relay", entry>>] = level],
           NEW d \in Entries(deviceConfig), Direct(d), d.fn # "WaterPump"
    PROVE  IsOn(d.slot)' = IsOn(d.slot)
<1>1. deviceConfig \in Configs /\ pin \in [Pins -> Percent]
  BY DEF TypeOK
<1>2. d.slot \in UsedSlots(d) /\ d.slot \in SlotNumbers
  BY <1>1, EntryType DEF UsedSlots, RelaySlot
<1>3. entry # d.slot
  BY <1>1, <1>2, PumpsEntry DEF Plainly, Direct
<1>4. pin'[RelayPin(d.slot)] = pin[RelayPin(d.slot)]
  BY <1>1, <1>3 DEF RelayPin
<1> QED
  BY <1>4 DEF IsOn

\* It writes the pin of a pump before it judges the pump.
LEMMA WriteReports ==
    ASSUME TypeOK, Separate(deviceConfig), PumpWrite, Recorded, Judged
    PROVE  Recorded' /\ Deciding' /\ Judged'
<1>1. TickTypes
  BY TickTyped
<1>2. /\ pc["relay"] = "pumpWrite"
      /\ pc'["relay"] \in {"pumpWrite", "pumpLimits"}
      /\ UNCHANGED <<deviceConfig, reported, pending, slots>>
      /\ entry <= MAX_RELAY_SLOTS
      /\ \/ /\ PumpSlot(entry) /\ entry' = entry
            /\ \E level : pin' = [pin EXCEPT ![<<"relay", entry>>] = level]
         \/ ~PumpSlot(entry) /\ entry' = entry + 1 /\ pin' = pin
  BY <1>1 DEF PumpWrite, Goto, Tasks, TickTypes, controllerVars
<1>3. \A f : Decided(f)' => Decided(f)
  BY <1>2 DEF Decided
<1>4. Recorded'
  <2> SUFFICES ASSUME Len(pending) < MAX_REPORTED_FUNCTIONS,
                      NEW d \in Entries(deviceConfig), Direct(d), Decided(d.fn)
               PROVE  IsOn(d.slot)' <=> reported[d.fn].on
    BY <1>2, <1>3 DEF Recorded
  <2>1. IsOn(d.slot) <=> reported[d.fn].on
    BY <1>2 DEF Recorded, InTick
  <2>2. IsOn(d.slot)' = IsOn(d.slot)
    <3>1. CASE PumpSlot(entry)
      BY <1>2, <3>1, PassOthers DEF Decided
    <3>2. CASE ~PumpSlot(entry)
      BY <1>2, <3>2 DEF IsOn
    <3> QED
      BY <3>1, <3>2
  <2> QED
    BY <2>1, <2>2
<1>5. Judged'
  <2> SUFFICES ASSUME NEW s \in SlotNumbers, s < entry', PumpSlot(s)
               PROVE  slots[s].applied > 0 <=> IsOn(s)'
    BY <1>2 DEF Judged, PumpSlot
  <2>1. s \in Nat /\ entry \in Nat /\ RelayPin(s) \in Pins
    BY <1>1, SizeAssumption DEF TickTypes, SlotNumbers, RelayPin, Pins
  <2>2. CASE PumpSlot(entry)
    <3>1. s < entry
      BY <1>2, <2>2
    <3>2. pin'[RelayPin(s)] = pin[RelayPin(s)]
      BY <1>1, <1>2, <2>1, <2>2, <3>1 DEF RelayPin, TickTypes
    <3> QED
      BY <1>2, <3>1, <3>2 DEF Judged, IsOn
  <2>3. CASE ~PumpSlot(entry)
    <3>1. s < entry + 1 /\ s # entry /\ pin' = pin
      BY <1>2, <2>3
    <3>2. s < entry
      BY <2>1, <3>1
    <3> QED
      BY <1>2, <3>1, <3>2 DEF Judged, IsOn
  <2> QED
    BY <2>2, <2>3
<1> QED
  BY <1>2, <1>4, <1>5 DEF Deciding

\* A pump it has judged is tracked as its pin is.
LEMMA LimitReports ==
    ASSUME TypeOK, TickInv, LimitsInv, Separate(deviceConfig),
           ApplyWaterPumpSafetyLimits, Recorded, Judged
    PROVE  Recorded' /\ Deciding' /\ Judged'
<1>1. TickTypes
  BY TickTyped
<1>2. PICK st \in SlotState, level \in {0, 100} :
         /\ slots' = [slots EXCEPT ![entry] = st]
         /\ pin' = [pin EXCEPT ![<<"relay", entry>>] = level]
         /\ st.applied = level
  <2>1. PICK v : /\ slots' = [slots EXCEPT ![entry] =
                      [slots[entry] EXCEPT
                         !.pumpOnSince = IF ~v.on /\ v.onSince # 0 THEN 0
                                         ELSE v.onSince,
                         !.pumpOffSince = IF ~v.on /\ v.onSince # 0 THEN now
                                          ELSE @,
                         !.applied = IF v.on THEN 100 ELSE 0]]
                 /\ pin' = [pin EXCEPT ![<<"relay", entry>>] =
                              IF v.on THEN 100 ELSE 0]
    BY DEF ApplyWaterPumpSafetyLimits
  <2>2. slots' \in [SlotNumbers -> SlotState] /\ entry \in SlotNumbers
    <3>1. TypeOK'
      BY StepType DEF Next, RelayTask
    <3> QED
      BY <1>1, <3>1, SizeAssumption
         DEF TypeOK, TickInv, TickTypes, SlotNumbers,
             ApplyWaterPumpSafetyLimits
  <2>3. slots[entry] \in SlotState /\ slots'[entry] \in SlotState
    BY <1>1, <2>2 DEF TickTypes
  <2>4. slots' = [slots EXCEPT ![entry] = slots'[entry]]
        /\ slots'[entry].applied = IF v.on THEN 100 ELSE 0
    BY <1>1, <2>1, <2>2, <2>3 DEF TickTypes, SlotState
  <2> QED
    BY <2>1, <2>3, <2>4
<1>3. /\ pc["relay"] = "pumpLimits" /\ pc'["relay"] = "pumpWrite"
      /\ UNCHANGED <<deviceConfig, reported, pending>> /\ entry' = entry + 1
  BY <1>1 DEF ApplyWaterPumpSafetyLimits, Goto, Tasks, TickTypes
<1>4. PumpSlot(entry)
  BY <1>3 DEF LimitsInv
<1>5. \A f : Decided(f)' => Decided(f)
  BY <1>3 DEF Decided
<1>6. Recorded'
  <2> SUFFICES ASSUME Len(pending) < MAX_REPORTED_FUNCTIONS,
                      NEW d \in Entries(deviceConfig), Direct(d), Decided(d.fn)
               PROVE  IsOn(d.slot)' <=> reported[d.fn].on
    BY <1>3, <1>5 DEF Recorded
  <2>1. IsOn(d.slot) <=> reported[d.fn].on
    BY <1>3 DEF Recorded, InTick
  <2>2. IsOn(d.slot)' = IsOn(d.slot)
    BY <1>2, <1>4, PassOthers DEF Decided
  <2> QED
    BY <2>1, <2>2
<1>7. Judged'
  <2> SUFFICES ASSUME NEW s \in SlotNumbers, s < entry + 1, PumpSlot(s)
               PROVE  slots'[s].applied > 0 <=> IsOn(s)'
    BY <1>3 DEF Judged, PumpSlot
  <2>1. s \in Nat /\ entry \in Nat /\ RelayPin(s) \in Pins
    BY <1>1, SizeAssumption DEF TickTypes, SlotNumbers, RelayPin, Pins
  <2>2. CASE s = entry
    <3>1. slots'[s] = st /\ pin'[RelayPin(s)] = level
      BY <1>1, <1>2, <2>1, <2>2 DEF RelayPin, TickTypes
    <3> QED
      BY <1>2, <3>1 DEF IsOn
  <2>3. CASE s # entry
    <3>1. s < entry
      BY <2>1, <2>3
    <3>2. slots'[s] = slots[s] /\ pin'[RelayPin(s)] = pin[RelayPin(s)]
      BY <1>1, <1>2, <2>1, <2>3 DEF RelayPin, TickTypes
    <3> QED
      BY <1>3, <3>1, <3>2 DEF Judged, IsOn
  <2> QED
    BY <2>2, <2>3
<1> QED
  BY <1>3, <1>6, <1>7 DEF Deciding

\* A slot with a wired pump entry is one of the pump's slots.
LEMMA PumpEntrySlot ==
    ASSUME deviceConfig \in Configs, Separate(deviceConfig),
           NEW e \in Entries(deviceConfig), e.fn = "WaterPump", Direct(e)
    PROVE  PumpSlot(e.slot)
<1> DEFINE n == Len(deviceConfig.relays)
           I == {i \in 1..n : deviceConfig.relays[i].slot = e.slot}
           Last(i) == IsConfigured(deviceConfig, i, e.slot)
           k == CHOOSE i \in DOMAIN deviceConfig.relays : Last(i)
<1>1. deviceConfig.relays \in Seq(RelaySlot)
  BY EntryType DEF DeviceConfig
<1>2. n \in Nat /\ DOMAIN deviceConfig.relays = 1..n
  BY <1>1
<1>3. I \in SUBSET (1..n) /\ I # {}
  BY <1>2 DEF Entries
<1>4. PICK i \in I : \A j \in I : j <= i
  <2> HIDE DEF I, n
  <2> QED
    BY <1>2, <1>3, LastIndex
<1>5. i \in DOMAIN deviceConfig.relays /\ Last(i)
  BY <1>2, <1>4 DEF IsConfigured
<1>6. k \in DOMAIN deviceConfig.relays /\ Last(k)
  BY <1>5
<1>7. configuredType(deviceConfig, e.slot) = deviceConfig.relays[k].fn
      /\ configuredOutputKind(deviceConfig, e.slot)
           = deviceConfig.relays[k].kind
  BY <1>5 DEF configuredType, configuredOutputKind
<1> HIDE DEF k
<1>8. deviceConfig.relays[k] \in Entries(deviceConfig)
      /\ deviceConfig.relays[k].slot = e.slot
  BY <1>6 DEF IsConfigured, Entries
<1>9. deviceConfig.relays[k] = e
  <2>1. e.slot \in UsedSlots(e) /\ e.slot \in UsedSlots(deviceConfig.relays[k])
    BY <1>8 DEF UsedSlots
  <2> QED
    BY <1>8, <2>1 DEF Separate
<1> QED
  BY <1>7, <1>9 DEF PumpSlot, Direct, RelayPin

\* The only pump entry answers for the function.
LEMMA PumpAnswers ==
    ASSUME deviceConfig \in Configs, OnePump(deviceConfig),
           NEW e \in Entries(deviceConfig), e.fn = "WaterPump"
    PROVE  isRelayOn("WaterPump") <=> slots[e.slot].applied > 0
<1> DEFINE n == Len(deviceConfig.relays)
           I == {i \in 1..n : deviceConfig.relays[i].fn = "WaterPump"}
<1>1. deviceConfig.relays \in Seq(RelaySlot)
  BY EntryType DEF DeviceConfig
<1>2. n \in Nat /\ DOMAIN deviceConfig.relays = 1..n
  BY <1>1
<1>3. I \in SUBSET (1..n) /\ I # {}
  BY <1>2 DEF Entries
<1>4. PICK i \in I : \A j \in I : i <= j
  <2> HIDE DEF I, n
  <2> QED
    BY <1>2, <1>3, FirstIndex
<1>5. \A j \in DOMAIN deviceConfig.relays :
         deviceConfig.relays[j].fn = "WaterPump" => deviceConfig.relays[j] = e
  BY DEF OnePump, Entries
<1> QED
  BY <1>2, <1>4, <1>5 DEF isRelayOn

\* The end of a tick: the pump is reported last, as it is tracked.
LEMMA FinishReports ==
    ASSUME TypeOK, Separate(deviceConfig), OnePump(deviceConfig), FinishTick,
           Recorded, Judged, Len(pending) < MAX_REPORTED_FUNCTIONS,
           NEW e \in Entries(deviceConfig), Direct(e)
    PROVE  IsOn(e.slot) <=> reported'[e.fn].on
<1>1. TickTypes
  BY TickTyped
<1>2. e \in RelaySlot /\ e.fn \in Functions /\ e.slot \in SlotNumbers
  BY <1>1, EntryType DEF TickTypes, RelaySlot
<1>3. pc["relay"] = "pumpWrite" /\ entry > MAX_RELAY_SLOTS
      /\ IF "WaterPump" \in Functions
         THEN recordControllerState("WaterPump", isRelayOn("WaterPump"), 0)
         ELSE UNCHANGED <<reported, pending>>
  BY DEF FinishTick
<1>4. isRelayOn("WaterPump") \in BOOLEAN
  BY DEF isRelayOn
<1>5. CASE e.fn # "WaterPump"
  <2>1. Decided(e.fn)
    BY <1>2, <1>3, <1>5 DEF Decided, Functions
  <2>2. IsOn(e.slot) <=> reported[e.fn].on
    BY <1>3, <2>1 DEF Recorded, InTick
  <2>3. reported'[e.fn] = reported[e.fn]
    BY <1>2, <1>3, <1>4, <1>5, RecordOne
  <2> QED
    BY <2>2, <2>3
<1>6. CASE e.fn = "WaterPump"
  <2>1. reported'[e.fn].on = isRelayOn("WaterPump")
    BY <1>2, <1>3, <1>4, <1>6, RecordOne
  <2>2. PumpSlot(e.slot)
    BY <1>1, <1>6, PumpEntrySlot DEF TickTypes
  <2>3. e.slot < entry
    BY <1>1, <1>2, <1>3, SizeAssumption DEF TickTypes, SlotNumbers
  <2>4. slots[e.slot].applied > 0 <=> IsOn(e.slot)
    BY <1>2, <1>3, <2>2, <2>3 DEF Judged
  <2>5. isRelayOn("WaterPump") <=> slots[e.slot].applied > 0
    BY <1>1, <1>6, PumpAnswers DEF TickTypes
  <2> QED
    BY <2>1, <2>4, <2>5
<1> QED
  BY <1>5, <1>6

\* Every step keeps the reports true, relays and lock included.
LEMMA StepReports ==
    ASSUME EntriesInv, EntryInv, ReportInv, [Next]_vars,
           Separate(deviceConfig)
    PROVE  ReportInv'
<1>1. TypeOK /\ TickInv /\ LimitsInv
      /\ \A e \in Entries(deviceConfig) : Plainly(e) => EntryKept(e)
  BY DEF EntriesInv
<1>2. Alone /\ FromFirst /\ Recorded /\ Deciding /\ Judged
  BY DEF ReportInv
<1>3. Alone' /\ FromFirst'
  BY <1>1, <1>2, StepAlone, StepFromFirst
<1>4. SUFFICES Recorded' /\ Deciding' /\ Judged'
  BY <1>3 DEF ReportInv
<1>5. ASSUME pc'["relay"] \notin InTick
      PROVE  Recorded' /\ Deciding' /\ Judged'
  BY <1>5 DEF Recorded, Deciding, Judged, InTick
<1>6. pc \in [Tasks -> Labels]
  BY <1>1 DEF TypeOK
<1>7. CASE InitController
  <2>1. CASE pc'["relay"] = "decide"
    <3>1. fn'["relay"] = 1
      BY <1>2, <1>7 DEF InitController, FromFirst
    <3>2. \A f : ~Decided(f)'
      <4>1. \A i \in DOMAIN FunctionOrder : ~(i < 1)
        BY SizeAssumption
      <4> QED
        BY <2>1, <3>1, <4>1 DEF Decided
    <3> QED
      BY <2>1, <3>2 DEF Recorded, Deciding, Judged
  <2>2. CASE pc'["relay"] # "decide"
    <3>1. pc'["relay"] = "recordOff"
      BY <1>6, <1>7, <2>2 DEF InitController, Goto, Tasks
    <3> QED
      BY <1>5, <3>1 DEF InTick
  <2> QED
    BY <2>1, <2>2
<1>8. CASE DecideFunction
  BY <1>1, <1>2, <1>8, DecideReports
<1>9. CASE DispatchSlot
  <2>1. Judged'
    BY <1>9 DEF DispatchSlot, Judged
  <2> QED
    BY <1>1, <1>2, <1>9, <2>1, DispatchReports
<1>10. CASE RecordFunction
  <2>1. pc'["relay"] = "decide"
    BY <1>6, <1>10 DEF RecordFunction, Goto, Tasks
  <2> QED
    BY <1>1, <1>2, <1>10, <2>1, RecordReports DEF Deciding, Judged
<1>11. CASE BeginSafetyPass
  BY <1>1, <1>2, <1>11, BeginReports
<1>12. CASE PumpWrite
  BY <1>1, <1>2, <1>12, WriteReports
<1>13. CASE ApplyWaterPumpSafetyLimits
  BY <1>1, <1>2, <1>13, LimitReports
<1>14. CASE \/ RelayCheckEnabled \/ RelaySnapshotGet \/ FinishTick
            \/ RelayDelay \/ ForceAllRelaysOff("relay")
            \/ RecordOff("relay") \/ FinishForcedOff("relay")
  <2>1. pc'["relay"] \notin InTick
    BY <1>6, <1>14
       DEF RelayCheckEnabled, RelaySnapshotGet, FinishTick, RelayDelay,
           ForceAllRelaysOff, RecordOff, FinishForcedOff, Goto, Tasks, InTick
  <2> QED
    BY <1>5, <2>1
<1>15. CASE LoopTask \/ SetClock \/ UNCHANGED vars
  <2>1. CASE pc["relay"] \in InTick
    <3>1. /\ UNCHANGED <<deviceConfig, pin, slots, reported, pending, entry,
                         shouldBeOn, targetPercent>>
          /\ pc'["relay"] = pc["relay"] /\ fn'["relay"] = fn["relay"]
      BY <1>1, <1>2, <1>15, <2>1, TickAlone
    <3>2. /\ \A f : Decided(f)' <=> Decided(f)
          /\ \A s : IsOn(s)' <=> IsOn(s)
          /\ \A s : PumpSlot(s)' <=> PumpSlot(s)
      BY <3>1 DEF Decided, IsOn, PumpSlot
    <3>3. Recorded'
      BY <1>2, <3>1, <3>2 DEF Recorded
    <3>4. Deciding'
      BY <1>2, <3>1, <3>2 DEF Deciding, Follows
    <3>5. Judged'
      BY <1>2, <3>1, <3>2 DEF Judged
    <3> QED
      BY <3>3, <3>4, <3>5
  <2>2. CASE pc["relay"] \notin InTick
    <3>1. pc'["relay"] = pc["relay"]
      BY <1>6, <1>15
         DEF LoopTask, ApiConfigCommit, ApiConfigUnchanged, LoopBody,
             ConsumeSafetyLimitEvent, ConsumeSensorStaleEvent,
             ConsumeControllerDataChanges, PushControllerData,
             ServerAppliesChange, PublishSnapshot, LoopDelay,
             ForceAllRelaysOff, RecordOff, FinishForcedOff, SetClock, vars,
             Goto, Tasks
    <3> QED
      BY <1>5, <2>2, <3>1
  <2> QED
    BY <2>1, <2>2
<1> QED
  BY <1>7, <1>8, <1>9, <1>10, <1>11, <1>12, <1>13, <1>14, <1>15
     DEF Next, RelayTask

\* In one installation whose entries share no output, and which has one
\* pump, a relay without minimum times is on when a tick ends exactly if its
\* function is reported on, unless the full buffer refused the report
\* (dispatchSlot, applyWaterPumpSafetyLimits, recordControllerState).
THEOREM ReportsMatch ==
    ASSUME \A c \in Configs : Separate(c) /\ OnePump(c)
    PROVE  InstallationSpec => ReportsMatchRelays
<1> DEFINE Inv == EntriesInv /\ EntryInv /\ ReportInv
           Match == (TickEnds /\ Len(pending) < MAX_REPORTED_FUNCTIONS) =>
                       \A e \in Entries(deviceConfig) :
                          (/\ e.kind = "relay" /\ RelayPin(e.slot) \in Wired
                           /\ e.minOnSeconds = 0 /\ e.minOffSeconds = 0
                           /\ e.proportioningPeriod = 0) =>
                              (IsOn(e.slot) <=> reported'[e.fn].on)
<1>1. HInit => Inv
  <2> SUFFICES ASSUME HInit
               PROVE  Inv
    OBVIOUS
  <2>1. EntriesInv /\ EntryInv
    BY InitEntries, InitPumps DEF PumpsInv
  <2>2. /\ pc["relay"] = "check" /\ pc["loop"] = "config"
        /\ fn["relay"] = 1
    BY DEF HInit, Init, Tasks
  <2>3. ReportInv
    BY <2>2 DEF ReportInv, Alone, FromFirst, Recorded, Deciding, Judged,
                Critical, InTick
  <2> QED
    BY <2>1, <2>3
<1>2. Inv /\ [InstallationNext]_hvars => Inv'
  <2> SUFFICES ASSUME Inv, [InstallationNext]_hvars
               PROVE  Inv'
    OBVIOUS
  <2>1. [Next]_vars
    BY DEF InstallationNext, HNext, hvars
  <2>2. TypeOK /\ TickInv /\ Separate(deviceConfig)
    BY DEF EntriesInv, TypeOK
  <2>3. EntriesInv'
    BY StepEntries
  <2>4. EntryInv' /\ ReportInv'
    BY <2>1, <2>2, StepEntry, StepReports
  <2> QED
    BY <2>3, <2>4
<1>3. Inv /\ [InstallationNext]_hvars => [Match]_vars
  <2> SUFFICES ASSUME Inv, [InstallationNext]_hvars, TickEnds,
                      Len(pending) < MAX_REPORTED_FUNCTIONS,
                      NEW e \in Entries(deviceConfig), Direct(e)
               PROVE  IsOn(e.slot) <=> reported'[e.fn].on
    BY DEF Direct, Untimed
  <2>1. [Next]_vars
    BY DEF InstallationNext, HNext, hvars
  <2>2. TypeOK /\ Separate(deviceConfig) /\ OnePump(deviceConfig)
    BY DEF EntriesInv, TypeOK
  <2>3. pc["relay"] = "pumpWrite" /\ pc'["relay"] = "sleep"
        /\ pc \in [Tasks -> Labels]
    BY <2>2 DEF TickEnds, TypeOK
  <2>4. FinishTick
    <3>1. ~(LoopTask \/ SetClock \/ UNCHANGED vars)
      <4>1. Alone /\ pc["relay"] \in InTick
        BY <2>3 DEF ReportInv, InTick
      <4> QED
        BY <2>2, <2>3, <4>1, TickAlone
    <3> QED
      BY <2>1, <2>3, <3>1
         DEF Next, RelayTask, RelayCheckEnabled, RelaySnapshotGet,
             InitController, DecideFunction, DispatchSlot, RecordFunction,
             BeginSafetyPass, PumpWrite, ApplyWaterPumpSafetyLimits,
             RelayDelay, ForceAllRelaysOff, RecordOff, FinishForcedOff, Goto,
             Tasks
  <2> QED
    BY <2>2, <2>4, FinishReports DEF ReportInv
<1> QED
  BY <1>1, <1>2, <1>3, PTL DEF InstallationSpec, ReportsMatchRelays

-----------------------------------------------------------------------------
(* The tracked position of a motor *)

\* The positions the tracking of a motor can reach
Reach(e) == IF Divides(e) THEN OnStep(e) ELSE Percent

\* A step is at least 1 percent.  The steps of a full way come to no more than
\* 100 percent, unless a step is less than 1 and taken for 1.
LEMMA StepSize ==
    ASSUME NEW e, e.travelSeconds \in Nat \ {0}
    PROVE  LET s == StepOf(e)
               travel == e.travelSeconds
           IN  /\ s \in Nat \ {0}
               /\ travel <= 100 => /\ s * travel = 100 - (100 % travel)
                                   /\ 100 % travel \in 0..travel - 1
               /\ travel > 100 => s = 1
<1> DEFINE travel == e.travelSeconds
           s == StepOf(e)
           q == 100 \div travel
           r == 100 % travel
<1>1. q \in Int /\ r \in 0..travel - 1 /\ 100 = travel * q + r
  OBVIOUS
<1>2. s = IF q < 1 THEN 1 ELSE q
  BY DEF StepOf
<1>3. travel \in Nat \ {0}
  OBVIOUS
<1> HIDE DEF q, r, s, travel
<1> DEFINE sized == s \in Nat \ {0}
           near == s * travel = 100 - r /\ r \in 0..travel - 1
           far == s = 1
<1>4. ASSUME q < 1
      PROVE  sized /\ (travel <= 100 => near) /\ (travel > 100 => far)
  <2>1. travel * q <= 0
    BY <1>1, <1>3, <1>4
  <2>2. travel > 100
    BY <1>1, <1>3, <2>1
  <2>3. sized /\ far /\ ~(travel <= 100)
    BY <1>2, <1>3, <1>4, <2>2
  <2> QED
    BY <2>3
<1>5. ASSUME q >= 1
      PROVE  sized /\ (travel <= 100 => near) /\ (travel > 100 => far)
  <2>1. travel * q >= travel
    BY <1>1, <1>3, <1>5
  <2>2. travel <= 100 /\ q * travel = 100 - r
    BY <1>1, <1>3, <2>1
  <2>3. sized /\ near
    BY <1>1, <1>2, <1>5, <2>2
  <2>4. ~(travel > 100)
    BY <1>3, <2>2
  <2> QED
    BY <2>3, <2>4
<1>6. q < 1 \/ q >= 1
  BY <1>1
<1>7. sized /\ (travel <= 100 => near) /\ (travel > 100 => far)
  <2> HIDE DEF sized, near, far
  <2> QED
    BY <1>4, <1>5, <1>6
<1> QED
  BY <1>7 DEF travel, r, s

\* The steps of a full way come to no more than it.
LEMMA StepLimit ==
    ASSUME NEW e, e.travelSeconds \in Nat \ {0}
    PROVE  /\ StepOf(e) \in Nat \ {0}
           /\ e.travelSeconds <= 100 => StepOf(e) * e.travelSeconds <= 100
           /\ e.travelSeconds > 100 => StepOf(e) = 1
<1> DEFINE travel == e.travelSeconds
           s == StepOf(e)
<1>1. travel <= 100 => s * travel = 100 - (100 % travel) /\ 100 % travel >= 0
  BY StepSize
<1>2. s \in Nat \ {0} /\ (travel > 100 => s = 1)
  BY StepSize
<1>3. \A r \in Int : r >= 0 => 100 - r <= 100
  OBVIOUS
<1>4. travel <= 100 => 100 % travel \in Int
  BY StepSize
<1> HIDE DEF s
<1>5. travel <= 100 => s * travel <= 100
  BY <1>1, <1>3, <1>4
<1> QED
  BY <1>2, <1>5 DEF s

\* Between two multiples of a step there is room for one.
LEMMA Multiples ==
    ASSUME NEW s \in Nat \ {0}, NEW k \in Int, NEW j \in Int, k * s < j * s
    PROVE  /\ k + 1 <= j
           /\ (k + 1) * s = k * s + s /\ (k + 1) * s <= j * s
           /\ (j - 1) * s = j * s - s /\ k * s <= (j - 1) * s
<1>1. k + 1 <= j
  <2>1. SUFFICES ASSUME j <= k
                 PROVE  FALSE
    OBVIOUS
  <2>2. j * s <= k * s
    BY <2>1
  <2> QED
    BY <2>2
<1>2. (k + 1) * s = k * s + s /\ (j - 1) * s = j * s - s
  OBVIOUS
<1>3. (k + 1) * s <= j * s
  BY <1>1
<1> QED
  BY <1>1, <1>2, <1>3

\* Where a step ends that is not cut short by the target
LEMMA WholeStep ==
    ASSUME NEW e, e.travelSeconds \in Nat \ {0}, NEW c \in Reach(e),
           NEW t \in Stops(e)
    PROVE  LET s == StepOf(e)
           IN  /\ t > c => /\ (IF c + s > t THEN t ELSE c + s) = clamp(c + s)
                           /\ clamp(c + s) \in Reach(e)
               /\ t < c => /\ (IF c - s < t THEN t ELSE c - s) = clamp(c - s)
                           /\ clamp(c - s) \in Reach(e)
<1> DEFINE s == StepOf(e)
<1>1. s \in Nat \ {0}
  BY StepSize
<1> HIDE DEF s
<1>2. CASE ~Divides(e)
  <2>1. Reach(e) = Percent /\ t \in {0, 100}
    BY <1>2 DEF Reach, Stops
  <2>2. c \in 0..100
    BY <2>1 DEF Percent
  <2>3. /\ t > c => (IF c + s > t THEN t ELSE c + s) = clamp(c + s)
        /\ t < c => (IF c - s < t THEN t ELSE c - s) = clamp(c - s)
    BY <1>1, <2>1, <2>2 DEF clamp
  <2>4. clamp(c + s) \in Percent /\ clamp(c - s) \in Percent
    BY <1>1, <2>2 DEF clamp, Percent
  <2> QED
    BY <2>1, <2>3, <2>4 DEF s
<1>3. CASE Divides(e)
  <2>1. PICK m \in Percent : m * s = 100
    BY <1>3 DEF Divides, s
  <2>2. /\ c \in Percent
        /\ \E k \in Percent : c = k * s
    BY <1>3 DEF Reach, OnStep, s
  <2>3. PICK k \in Percent : c = k * s
    BY <2>2
  <2>4. t \in Percent /\ \E j \in Percent : t = j * s
    <3>1. 0 = 0 * s /\ 0 \in Percent /\ 100 \in Percent
      BY <1>1 DEF Percent
    <3>2. CASE t = 0
      BY <3>1, <3>2
    <3>3. CASE t = 100
      BY <2>1, <3>1, <3>3
    <3>4. CASE t \in OnStep(e)
      BY <3>4 DEF OnStep, s
    <3> QED
      BY <3>2, <3>3, <3>4 DEF Stops
  <2>5. PICK j \in Percent : t = j * s
    BY <2>4
  <2>6. k \in 0..100 /\ j \in 0..100 /\ c \in 0..100 /\ t \in 0..100
    BY <2>2, <2>4 DEF Percent
  <2>7. ASSUME t > c
        PROVE  /\ (IF c + s > t THEN t ELSE c + s) = clamp(c + s)
               /\ clamp(c + s) \in Reach(e)
    <3>1. k + 1 <= j /\ (k + 1) * s = c + s /\ c + s <= t
      BY <1>1, <2>3, <2>5, <2>6, <2>7, Multiples
    <3>2. clamp(c + s) = c + s /\ c + s \in 0..100
      BY <1>1, <2>6, <3>1 DEF clamp
    <3>3. k + 1 \in Percent /\ c + s \in Percent
      BY <2>6, <3>1, <3>2 DEF Percent
    <3>4. c + s \in Reach(e)
      BY <1>3, <3>1, <3>3 DEF Reach, OnStep, s
    <3> QED
      BY <1>1, <2>6, <3>1, <3>2, <3>4
  <2>8. ASSUME t < c
        PROVE  /\ (IF c - s < t THEN t ELSE c - s) = clamp(c - s)
               /\ clamp(c - s) \in Reach(e)
    <3>1. j + 1 <= k /\ (k - 1) * s = c - s /\ t <= c - s
      BY <1>1, <2>3, <2>5, <2>6, <2>8, Multiples
    <3>2. clamp(c - s) = c - s /\ c - s \in 0..100
      BY <1>1, <2>6, <3>1 DEF clamp
    <3>3. k - 1 \in Percent /\ c - s \in Percent
      BY <2>6, <3>1, <3>2 DEF Percent
    <3>4. c - s \in Reach(e)
      BY <1>3, <3>1, <3>3 DEF Reach, OnStep, s
    <3> QED
      BY <1>1, <2>6, <3>1, <3>2, <3>4
  <2> QED
    BY <2>7, <2>8 DEF s
<1> QED
  BY <1>2, <1>3

\* A motor is on its way for what is booked, or rests where it is.
LEMMA BookedStep ==
    ASSUME NEW e, e.travelSeconds \in Nat \ {0}, NEW c \in Reach(e),
           NEW t \in Stops(e), NEW direction \in Directions,
           NEW dead \in Nat, NEW pause \in Nat, NEW elapsed \in {0, 1}
    PROVE  LET d == computeRelayPairStep(
                        [direction |-> direction, dead |-> dead],
                        c, t, e.travelSeconds, pause, elapsed)
           IN  /\ d.position \in Reach(e)
               /\ d.position = clamp(c + (IF d.open THEN StepOf(e) ELSE 0)
                                       - (IF d.close THEN StepOf(e) ELSE 0))
               /\ ~(d.open /\ d.close)
               /\ d.open => c < 100
               /\ d.close => c > 0
<1> DEFINE travel == e.travelSeconds
           s == StepOf(e)
           left == IF elapsed > 0 /\ dead > 0
                   THEN IF dead > elapsed THEN dead - elapsed ELSE 0
                   ELSE dead
           holding == travel <= 0 \/ elapsed <= 0 \/ c = t \/ left > 0
           desired == IF t > c THEN "open" ELSE "close"
           reversal == pause > 0 /\ direction # "none" /\ desired # direction
           moved == IF desired = "open"
                    THEN IF c + s > t THEN t ELSE c + s
                    ELSE IF c - s < t THEN t ELSE c - s
           d == computeRelayPairStep(
                    [direction |-> direction, dead |-> dead],
                    c, t, travel, pause, elapsed)
<1>1. c \in 0..100 /\ t \in 0..100
  BY DEF Reach, OnStep, Stops, Percent
<1>2. s \in Nat \ {0}
  BY StepSize
<1>3. clamp(t) = t /\ clamp(c) = c
  BY <1>1 DEF clamp
<1>4. elapsed = 1 => elapsed * 100 = 100
  OBVIOUS
<1>5. elapsed = 1 => (IF (elapsed * 100) \div travel < 1 THEN 1
                      ELSE (elapsed * 100) \div travel) = s
  BY <1>4, Zenon DEF StepOf
<1>6. CASE holding
  <2>1. d.position = c /\ ~d.open /\ ~d.close
    BY <1>3, <1>6 DEF computeRelayPairStep
  <2> QED
    BY <1>1, <1>2, <1>3, <2>1
<1>7. CASE ~holding /\ reversal
  <2>1. d.position = c /\ ~d.open /\ ~d.close
    BY <1>3, <1>7 DEF computeRelayPairStep
  <2> QED
    BY <1>1, <1>2, <1>3, <2>1
<1>8. CASE ~holding /\ ~reversal
  <2>1. elapsed = 1 /\ c # t
    BY <1>8
  <2>2. /\ d.position = moved
        /\ d.open <=> desired = "open"
        /\ d.close <=> desired = "close"
    <3> HIDE DEF s
    <3> QED
      BY <1>3, <1>5, <1>8, <2>1 DEF computeRelayPairStep
  <2> HIDE DEF d, s
  <2>3. CASE t > c
    <3>1. moved = clamp(c + s) /\ clamp(c + s) \in Reach(e)
      BY <2>3, WholeStep DEF s
    <3> QED
      BY <1>1, <1>2, <2>2, <2>3, <3>1 DEF s, d
  <2>4. CASE t < c
    <3>1. moved = clamp(c - s) /\ clamp(c - s) \in Reach(e)
      BY <1>1, <2>4, WholeStep DEF s
    <3> QED
      BY <1>1, <1>2, <2>2, <2>4, <3>1 DEF s, d
  <2> QED
    BY <1>1, <2>1, <2>3, <2>4
<1> QED
  BY <1>6, <1>7, <1>8

\* A tick of opening: neither end is further from where it is booked to be.
LEMMA Opened ==
    ASSUME NEW travel \in Nat \ {0}, NEW s \in Nat \ {0}, s * travel <= 100,
           NEW m \in 0..100 * travel, NEW p \in 0..100,
           m * s <= 100 * p, (100 * travel - m) * s <= 100 * (100 - p)
    PROVE  LET n == IF m + 100 > 100 * travel THEN 100 * travel ELSE m + 100
               q == IF p + s > 100 THEN 100 ELSE p + s
           IN  /\ n \in 0..100 * travel
               /\ n * s <= 100 * q
               /\ (100 * travel - n) * s <= 100 * (100 - q)
<1> DEFINE way == 100 * travel
           n == IF m + 100 > way THEN way ELSE m + 100
           q == IF p + s > 100 THEN 100 ELSE p + s
<1>1. way \in Nat /\ way * s = 100 * (s * travel) /\ s * travel \in Nat
  OBVIOUS
<1>2. (m + 100) * s = m * s + 100 * s /\ m * s \in Nat
  OBVIOUS
<1>3. (way - (m + 100)) * s = (way - m) * s - 100 * s /\ (way - m) * s \in Int
  BY <1>1
<1>4. way * s <= 10000
  BY <1>1
<1>5. m \in 0..way /\ (way - m) * s <= 100 * (100 - p)
  OBVIOUS
<1> HIDE DEF way
<1>6. n \in 0..way /\ n <= m + 100
  BY <1>1, <1>5
<1>7. n * s <= way * s /\ n * s <= (m + 100) * s
  <2>1. \A a, b \in Int : a <= b => a * s <= b * s
    OBVIOUS
  <2> QED
    BY <1>1, <1>6, <2>1
<1>8. n * s \in Nat
  BY <1>1, <1>6
<1>9. n * s <= 100 * q
  <2> DEFINE ns == n * s
             ms == m * s
             es == (m + 100) * s
             ws == way * s
  <2>1. /\ ns \in Nat /\ ms \in Nat /\ es = ms + 100 * s /\ ms <= 100 * p
        /\ ns <= ws /\ ns <= es /\ ws <= 10000 /\ ws \in Int
    BY <1>1, <1>2, <1>4, <1>7, <1>8
  <2> HIDE DEF ns, ms, es, ws, n
  <2>2. ns <= 100 * q
    BY <2>1
  <2> QED
    BY <2>2 DEF ns
<1>10. (way - n) * s <= 100 * (100 - q)
  <2>1. q \in 0..100 /\ q <= p + s
    OBVIOUS
  <2>2. CASE n = way
    <3>1. (way - n) * s = 0
      BY <1>1, <2>2
    <3> HIDE DEF n, q
    <3> QED
      BY <2>1, <3>1
  <2>3. CASE n = m + 100
    <3> DEFINE d == (way - m) * s
    <3>1. (way - n) * s = d - 100 * s /\ d \in Int /\ d <= 100 * (100 - p)
      BY <1>3, <1>5, <2>3
    <3> HIDE DEF n, q, d
    <3> QED
      BY <2>1, <3>1
  <2> QED
    BY <2>2, <2>3
<1> QED
  BY <1>6, <1>9, <1>10 DEF way

\* A tick of closing is one of opening seen from the other end.
LEMMA Closed ==
    ASSUME NEW travel \in Nat \ {0}, NEW s \in Nat \ {0}, s * travel <= 100,
           NEW m \in 0..100 * travel, NEW p \in 0..100,
           m * s <= 100 * p, (100 * travel - m) * s <= 100 * (100 - p)
    PROVE  LET n == IF m - 100 < 0 THEN 0 ELSE m - 100
               q == IF p - s < 0 THEN 0 ELSE p - s
           IN  /\ n \in 0..100 * travel
               /\ n * s <= 100 * q
               /\ (100 * travel - n) * s <= 100 * (100 - q)
<1> DEFINE way == 100 * travel
           x == way - m
           y == 100 - p
           n == IF m - 100 < 0 THEN 0 ELSE m - 100
           q == IF p - s < 0 THEN 0 ELSE p - s
           u == IF x + 100 > way THEN way ELSE x + 100
           v == IF y + s > 100 THEN 100 ELSE y + s
<1>1. way \in Nat /\ m \in 0..way
  OBVIOUS
<1>2. x \in 0..way /\ y \in 0..100 /\ way - x = m /\ 100 - y = p
  BY <1>1
<1>3. x * s <= 100 * y /\ (way - x) * s <= 100 * (100 - y)
  BY <1>2
<1>4. /\ u \in 0..way /\ u * s <= 100 * v
      /\ (way - u) * s <= 100 * (100 - v)
  <2> HIDE DEF x, y
  <2> QED
    BY <1>2, <1>3, Opened
<1>5. u = way - n /\ v = 100 - q /\ n \in 0..way /\ q \in 0..100
  <2> HIDE DEF way
  <2> QED
    BY <1>1
<1>6. way - u = n /\ 100 - v = q
  <2> HIDE DEF way, n, q, u, v
  <2> QED
    BY <1>1, <1>5
<1> HIDE DEF u, v, n, q
<1>7. n * s <= 100 * q /\ (way - n) * s <= 100 * (100 - q)
  BY <1>4, <1>5, <1>6
<1> QED
  BY <1>5, <1>7 DEF n, q

\* How far the motor can be ahead of where it is booked to be
LEMMA Ahead ==
    ASSUME NEW travel \in Nat \ {0}, NEW s \in Nat \ {0}, NEW r \in Nat,
           s * travel = 100 - r,
           NEW m \in 0..100 * travel, NEW p \in 0..100, m * s <= 100 * p
    PROVE  m - p * travel <= travel * r
<1>1. (m * s) * travel <= (100 * p) * travel
  <2>1. \A a, b \in Int : a <= b => a * travel <= b * travel
    OBVIOUS
  <2>2. m * s \in Int /\ 100 * p \in Int
    OBVIOUS
  <2> QED
    BY <2>1, <2>2
<1>2. (m * s) * travel = m * (s * travel)
  OBVIOUS
<1>3. m * (100 - r) = 100 * m - m * r
  OBVIOUS
<1>4. m * r <= (100 * travel) * r
  OBVIOUS
<1>5. (100 * p) * travel = 100 * (p * travel)
  OBVIOUS
<1>6. (100 * travel) * r = 100 * (travel * r)
  OBVIOUS
<1> DEFINE mr == m * r
           pt == p * travel
           tr == travel * r
<1>7. mr \in Int /\ pt \in Int /\ tr \in Int /\ m \in Int
  OBVIOUS
<1>8. m * (s * travel) = 100 * m - mr
  BY <1>3
<1>9. 100 * m - mr <= 100 * pt
  BY <1>1, <1>2, <1>5, <1>8
<1>10. mr <= 100 * tr
  BY <1>4, <1>6
<1> HIDE DEF mr, pt, tr
<1>11. m - pt <= tr
  BY <1>7, <1>9, <1>10
<1> QED
  BY <1>11 DEF pt, tr

\* A motor is where it is booked to be, but for the rounding of its steps: over
\* the part of its way that is booked, or is left, it has done no fewer ticks,
\* or not more, than were booked for it.
Tracks(e, p, m) ==
    LET s == StepOf(e)
        travel == e.travelSeconds
    IN  /\ m \in 0..100 * travel
        /\ IF travel <= 100
           THEN /\ m * s <= 100 * p
                /\ (100 * travel - m) * s <= 100 * (100 - p)
           ELSE m = 100 * p

\* A motor booked as closed, and closed, is where it is booked to be.
LEMMA Shut ==
    ASSUME NEW e, e.travelSeconds \in Nat \ {0}
    PROVE  Tracks(e, 0, 0)
<1> DEFINE travel == e.travelSeconds
           s == StepOf(e)
<1>1. travel \in Nat \ {0} /\ s \in Nat \ {0}
  BY StepLimit
<1>2. travel <= 100 => s * travel <= 100
  BY StepLimit
<1> DEFINE st == s * travel
<1>3. 100 * travel \in Nat /\ st \in Nat /\ 0 * s = 0
      /\ (100 * travel - 0) * s = 100 * st
  BY <1>1
<1>4. 0 \in 0..100 * travel
  BY <1>3
<1>5. travel <= 100 => /\ 0 * s <= 100 * 0
                       /\ (100 * travel - 0) * s <= 100 * (100 - 0)
  <2> HIDE DEF s, travel, st
  <2>1. travel <= 100 => st <= 100
    BY <1>2 DEF st
  <2> QED
    BY <1>3, <2>1
<1>6. 0 = 100 * 0
  OBVIOUS
<1> QED
  BY <1>4, <1>5, <1>6, Zenon DEF Tracks

\* What the windings make of it in a tick
After(e, m, open, close) ==
    LET n == m + (IF open THEN 100 ELSE 0) - (IF close THEN 100 ELSE 0)
        way == 100 * e.travelSeconds
    IN  IF n < 0 THEN 0 ELSE IF n > way THEN way ELSE n

\* A tick's travel keeps to what is booked for it.
LEMMA TickTracks ==
    ASSUME NEW e, e.travelSeconds \in Nat \ {0}, NEW p \in Percent, NEW m,
           Tracks(e, p, m)
    PROVE  /\ Tracks(e, p, After(e, m, FALSE, FALSE))
           /\ p < 100 =>
                 Tracks(e, clamp(p + StepOf(e)), After(e, m, TRUE, FALSE))
           /\ p > 0 =>
                 Tracks(e, clamp(p - StepOf(e)), After(e, m, FALSE, TRUE))
<1> DEFINE travel == e.travelSeconds
           s == StepOf(e)
<1>1. /\ travel \in Nat \ {0} /\ s \in Nat \ {0} /\ p \in 0..100
      /\ travel <= 100 => s * travel <= 100
      /\ travel > 100 => s = 1
  BY StepLimit DEF Percent
<1>2. m \in 0..100 * travel
  BY DEF Tracks
<1>3. /\ After(e, m, FALSE, FALSE) = m
      /\ After(e, m, TRUE, FALSE) =
            IF m + 100 > 100 * travel THEN 100 * travel ELSE m + 100
      /\ After(e, m, FALSE, TRUE) = IF m - 100 < 0 THEN 0 ELSE m - 100
  BY <1>1, <1>2 DEF After
<1>4. /\ clamp(p + s) = IF p + s > 100 THEN 100 ELSE p + s
      /\ clamp(p - s) = IF p - s < 0 THEN 0 ELSE p - s
  <2> HIDE DEF s
  <2> QED
    BY <1>1 DEF clamp
<1>5. CASE travel <= 100
  <2>1. m * s <= 100 * p /\ (100 * travel - m) * s <= 100 * (100 - p)
    BY <1>5 DEF Tracks
  <2> DEFINE n == IF m + 100 > 100 * travel THEN 100 * travel ELSE m + 100
             q == IF p + s > 100 THEN 100 ELSE p + s
             k == IF m - 100 < 0 THEN 0 ELSE m - 100
             l == IF p - s < 0 THEN 0 ELSE p - s
  <2>2. /\ n \in 0..100 * travel /\ n * s <= 100 * q
        /\ (100 * travel - n) * s <= 100 * (100 - q)
    <3> HIDE DEF s, travel
    <3> QED
      BY <1>1, <1>2, <1>5, <2>1, Opened
  <2>3. /\ k \in 0..100 * travel /\ k * s <= 100 * l
        /\ (100 * travel - k) * s <= 100 * (100 - l)
    <3> HIDE DEF s, travel
    <3> QED
      BY <1>1, <1>2, <1>5, <2>1, Closed
  <2> HIDE DEF n, q, k, l
  <2>4. Tracks(e, q, n) /\ Tracks(e, l, k)
    BY <1>5, <2>2, <2>3 DEF Tracks
  <2> QED
    BY <1>3, <1>4, <2>4 DEF n, q, k, l
<1>6. CASE travel > 100
  <2>1. s = 1 /\ m = 100 * p /\ ~(travel <= 100)
    BY <1>1, <1>6 DEF Tracks
  <2>2. 100 * travel > 10000
    BY <1>1, <1>6
  <2> HIDE DEF s, travel
  <2>3. ASSUME p < 100
        PROVE  /\ clamp(p + s) = p + 1
               /\ After(e, m, TRUE, FALSE) = 100 * (p + 1)
    <3>1. p + s = p + 1 /\ m + 100 = 100 * (p + 1)
      BY <1>1, <2>1
    <3>2. ~(p + s > 100) /\ ~(m + 100 > 100 * travel)
      BY <1>1, <2>1, <2>2, <2>3
    <3>3. clamp(p + s) = p + s /\ After(e, m, TRUE, FALSE) = m + 100
      BY <1>3, <1>4, <3>2, Zenon
    <3> QED
      BY <3>1, <3>3, Zenon
  <2>4. p > 0 => /\ clamp(p - s) = p - 1
                 /\ After(e, m, FALSE, TRUE) = 100 * (p - 1)
    <3>1. p > 0 => /\ p - s = p - 1 /\ m - 100 = 100 * (p - 1)
                   /\ ~(p - s < 0) /\ ~(m - 100 < 0)
      BY <1>1, <2>1
    <3> QED
      BY <1>3, <1>4, <3>1
  <2>5. \A x \in 0..100 : Tracks(e, x, 100 * x)
    <3> DEFINE way == 100 * travel
    <3>1. \A x \in 0..100 : 100 * x \in 0..way
      <4>1. way \in Nat /\ way > 10000
        BY <1>1, <2>2
      <4> HIDE DEF way
      <4> QED
        BY <4>1
    <3>2. \A x, y : /\ ~(travel <= 100)
                    /\ y \in 0..way /\ y = 100 * x
                    => Tracks(e, x, y)
      BY Zenon DEF Tracks, travel
    <3> HIDE DEF way
    <3> QED
      BY <2>1, <3>1, <3>2
  <2>6. (p < 100 => p + 1 \in 0..100) /\ (p > 0 => p - 1 \in 0..100)
    BY <1>1
  <2> QED
    BY <1>3, <2>3, <2>4, <2>5, <2>6 DEF s
<1>7. travel <= 100 \/ travel > 100
  BY <1>1
<1> QED
  BY <1>5, <1>6, <1>7

\* What the rounding may cost.
LEMMA DriftBounds ==
    ASSUME NEW e, e.travelSeconds \in Nat \ {0}, NEW p \in Percent, NEW m,
           Tracks(e, p, m)
    PROVE  /\ m - p * e.travelSeconds \in -Drift(e)..Drift(e)
           /\ p = 0 => m = 0
           /\ p = 100 /\ e.travelSeconds <= 100 => m = 100 * e.travelSeconds
<1> DEFINE travel == e.travelSeconds
           s == StepOf(e)
           r == 100 % travel
           way == 100 * travel
<1>1. travel \in Nat \ {0} /\ p \in 0..100 /\ way \in Nat
  BY DEF Percent
<1>2. m \in 0..way
  BY DEF Tracks
<1>3. s \in Nat \ {0}
  BY StepSize
<1>4. CASE travel <= 100
  <2>1. m * s <= 100 * p /\ (way - m) * s <= 100 * (100 - p)
    BY <1>4 DEF Tracks
  <2>2. s * travel = 100 - r /\ r \in 0..travel - 1
    BY <1>4, StepSize
  <2>3. Drift(e) = travel * r
    BY <1>4 DEF Drift
  <2> HIDE DEF s, r
  <2>4. r \in Nat
    BY <1>1, <2>2
  <2>5. m - p * travel <= travel * r
    <3> HIDE DEF travel
    <3> QED
      BY <1>1, <1>2, <1>3, <2>1, <2>2, <2>4, Ahead DEF way
  <2>6. (way - m) - (100 - p) * travel <= travel * r
    <3> DEFINE x == way - m
               y == 100 - p
    <3>1. x \in 0..way /\ y \in 0..100 /\ x * s <= 100 * y
      <4> HIDE DEF way
      <4> QED
        BY <1>1, <1>2, <2>1
    <3> HIDE DEF travel, x, y
    <3>2. x - y * travel <= travel * r
      BY <1>1, <1>3, <2>2, <2>4, <3>1, Ahead DEF way
    <3> QED
      BY <3>2 DEF x, y
  <2>7. (100 - p) * travel = way - p * travel
    BY <1>1
  <2> DEFINE pt == p * travel
             tr == travel * r
  <2>8. pt \in Int /\ tr \in Int
    BY <1>1, <2>4
  <2>9. m - pt \in -tr..tr
    <3> HIDE DEF way, pt, tr
    <3>1. m - pt <= tr /\ (way - m) - (way - pt) <= tr
      BY <2>5, <2>6, <2>7 DEF pt, tr
    <3> QED
      BY <1>1, <1>2, <2>8, <3>1
  <2>10. p = 0 => m = 0
    <3>1. ASSUME m > 0 PROVE m * s > 0
      BY <1>1, <1>2, <1>3, <3>1
    <3> QED
      BY <1>1, <1>2, <1>3, <2>1, <3>1
  <2>11. p = 100 => m = way
    <3> DEFINE x == way - m
    <3>1. x \in Nat /\ (p = 100 => x * s <= 0)
      <4> HIDE DEF way
      <4> QED
        BY <1>1, <1>2, <2>1
    <3> HIDE DEF x
    <3>2. ASSUME x > 0 PROVE x * s > 0
      BY <1>3, <3>1, <3>2
    <3>3. x * s \in Int
      BY <1>3, <3>1
    <3>4. p = 100 => x = 0
      BY <3>1, <3>2, <3>3
    <3> HIDE DEF way
    <3> QED
      BY <1>1, <1>2, <3>4 DEF x
  <2> QED
    BY <2>3, <2>9, <2>10, <2>11
<1>5. CASE travel > 100
  <2>1. m = 100 * p /\ ~(travel <= 100)
    BY <1>1, <1>5 DEF Tracks
  <2>2. Drift(e) = 100 * (travel - 100)
    BY <2>1 DEF Drift
  <2> DEFINE d == travel - 100
  <2>3. d \in Nat /\ p * travel = 100 * p + p * d
    BY <1>1, <1>5
  <2>4. p * d \in 0..100 * d
    <3> HIDE DEF d
    <3> QED
      BY <1>1, <2>3
  <2> HIDE DEF d
  <2>5. m - p * travel = -(p * d)
    BY <1>1, <2>1, <2>3
  <2>6. m - p * travel \in -(100 * d)..100 * d
    BY <2>3, <2>4, <2>5
  <2> QED
    BY <1>1, <2>1, <2>2, <2>6 DEF d
<1>6. travel <= 100 \/ travel > 100
  BY <1>1
<1> QED
  BY <1>4, <1>5, <1>6
\* Nothing was forced off, and the clock only ticked.
Calm == ~disturbed /\ epoch < MaxEpoch

\* This tick has not come to the entry yet.
Due(e) ==
    \/ pc["relay"] \in {"check", "snapshot", "begin", "forceOff"}
    \/ /\ pc["relay"] \in {"decide", "dispatch"}
       /\ \E i \in DOMAIN FunctionOrder :
             FunctionOrder[i] = e.fn /\ i > fn["relay"]
    \/ /\ pc["relay"] = "decide"
       /\ \E i \in DOMAIN FunctionOrder :
             FunctionOrder[i] = e.fn /\ i = fn["relay"]
    \/ /\ pc["relay"] = "dispatch"
       /\ FunctionOrder[fn["relay"]] = e.fn
       /\ \E j \in DOMAIN deviceConfig.relays :
             deviceConfig.relays[j] = e /\ j >= entry

\* A motor is asked for one of its stops.
TargetInv(e) ==
    pc["relay"] = "dispatch" /\ FunctionOrder[fn["relay"]] = e.fn =>
        targetPercent \in Stops(e)

\* A motor travels by the winding that is energised.
LEMMA OwnTravel ==
    ASSUME Separate(deviceConfig),
           NEW e \in Entries(deviceConfig), e.kind = "pair"
    PROVE  Moved(e.slot) = After(e, motor[e.slot],
                                 IsOn(e.slot), IsOn(e.pairSlot))
<1> DEFINE Own(d) == d.kind = "pair" /\ d.slot = e.slot
           f == CHOOSE d \in Entries(deviceConfig) : Own(d)
<1>1. f \in Entries(deviceConfig) /\ Own(f)
  OBVIOUS
<1>2. f = e
  <2>1. f.slot \in UsedSlots(f) /\ e.slot \in UsedSlots(e)
    BY DEF UsedSlots
  <2> HIDE DEF f
  <2> QED
    BY <1>1, <2>1 DEF Separate
<1>3. Moved(e.slot) = After(f, motor[e.slot], IsOn(e.slot), IsOn(f.pairSlot))
  BY <1>1 DEF Moved, After
<1> QED
  BY <1>2, <1>3

\* A motor is asked for what its rules or its PID loop may ask for.
LEMMA DecidedTarget ==
    ASSUME TypeOK, WholeSteps(deviceConfig), DecideFunction,
           NEW e \in Entries(deviceConfig), e.kind = "pair",
           e.fn = FunctionOrder[fn["relay"]]
    PROVE  targetPercent' \in Stops(e)
<1> DEFINE f == FunctionOrder[fn["relay"]]
<1>1. /\ \A r \in deviceConfig.rules : r.fn = f => r.percent \in Stops(e)
      /\ (\E m \in Metrics : <<f, m>> \in deviceConfig.pid) =>
            PidOutputs \subseteq Stops(e)
  BY DEF WholeSteps
<1>2. 0 \in Stops(e) /\ 100 \in Stops(e)
  BY DEF Stops
<1>3. RuleDemand(f) \in Stops(e)
  <2> DEFINE S == {r.percent : r \in
                     {q \in RulesFor(f) : evaluateRule(q, reported[f].on)}}
             isMax(p) == \A q \in S : q <= p
  <2>1. S \subseteq Stops(e)
    BY <1>1 DEF RulesFor
  <2>2. RuleDemand(f) = foldTargetPercent(S)
    BY DEF RuleDemand
  <2> HIDE DEF S
  <2>3. foldTargetPercent(S) \in S \cup {0}
    <3>1. CASE \E p \in S : isMax(p)
      <4>1. (CHOOSE p \in S : isMax(p)) \in S
        BY <3>1
      <4> QED
        BY <3>1, <4>1 DEF foldTargetPercent
    <3>2. CASE ~\E p \in S : isMax(p)
      BY <3>2 DEF foldTargetPercent
    <3> QED
      BY <3>1, <3>2
  <2> QED
    BY <1>2, <2>1, <2>2, <2>3
<1>4. PidMetrics(f) # {} => PidDemands(f) \subseteq Stops(e)
  <2>1. PidMetrics(f) # {} => PidOutputs \subseteq Stops(e)
    BY <1>1 DEF PidMetrics
  <2> QED
    BY <1>2, <2>1 DEF PidDemands
<1>5. PICK demand \in IF PidMetrics(f) # {} THEN PidDemands(f)
                      ELSE {RuleDemand(f)} :
         targetPercent' = Reconciled(Decision(f, demand), demand)
  BY DEF DecideFunction
<1>6. demand \in Stops(e)
  BY <1>3, <1>4, <1>5
<1> QED
  BY <1>2, <1>5, <1>6 DEF Reconciled

\* It is asked for nothing else until the next decision.
LEMMA StepTarget ==
    ASSUME TypeOK, Alone, EntryInv, [Next]_vars, WholeSteps(deviceConfig),
           NEW e \in Entries(deviceConfig), e.kind = "pair", TargetInv(e)
    PROVE  TargetInv(e)'
<1> USE DEF Goto, Tasks
<1>0. pc \in [Tasks -> Labels] /\ fn \in [Tasks -> Nat \ {0}]
  BY DEF TypeOK
<1>1. SUFFICES ASSUME pc'["relay"] = "dispatch",
                      FunctionOrder[fn'["relay"]] = e.fn
               PROVE  targetPercent' \in Stops(e)
  BY DEF TargetInv
<1>2. CASE DecideFunction
  <2>1. fn' = fn
    BY <1>0, <1>1, <1>2 DEF DecideFunction
  <2> QED
    BY <1>1, <1>2, <2>1, DecidedTarget
<1>3. CASE DispatchSlot
  BY <1>1, <1>3 DEF DispatchSlot, TargetInv
<1>4. CASE \/ RelayCheckEnabled \/ RelaySnapshotGet \/ InitController
           \/ RecordFunction \/ BeginSafetyPass
           \/ PumpWrite \/ ApplyWaterPumpSafetyLimits
           \/ FinishTick \/ RelayDelay
           \/ ForceAllRelaysOff("relay") \/ RecordOff("relay")
           \/ FinishForcedOff("relay")
  BY <1>0, <1>1, <1>4
     DEF RelayCheckEnabled, RelaySnapshotGet, InitController,
         RecordFunction, BeginSafetyPass, PumpWrite,
         ApplyWaterPumpSafetyLimits, FinishTick, RelayDelay,
         ForceAllRelaysOff, RecordOff, FinishForcedOff
<1>5. CASE LoopTask \/ SetClock \/ UNCHANGED vars
  <2>1. pc'["relay"] = pc["relay"]
    BY <1>0, <1>5
       DEF LoopTask, ApiConfigCommit, ApiConfigUnchanged, LoopBody,
           ConsumeSafetyLimitEvent, ConsumeSensorStaleEvent,
           ConsumeControllerDataChanges, PushControllerData,
           ServerAppliesChange, PublishSnapshot, LoopDelay,
           ForceAllRelaysOff, RecordOff, FinishForcedOff, SetClock, vars
  <2>2. pc["relay"] \in InTick
    BY <1>1, <2>1 DEF InTick
  <2>3. UNCHANGED targetPercent /\ fn'["relay"] = fn["relay"]
    BY <1>5, <2>2, TickAlone
  <2> QED
    BY <1>1, <2>1, <2>3 DEF TargetInv
<1> QED
  BY <1>2, <1>3, <1>4, <1>5 DEF Next, RelayTask

\* What a step is to the next dispatch of an entry
Awaits(e) == Stays(e) /\ (Due(e)' <=> Due(e)) /\ ~TimePasses
Booked(e) == /\ Drives(e) /\ FunctionOrder[fn["relay"]] = e.fn
             /\ Due(e) /\ ~Due(e)' /\ ~TimePasses
Renewed(e) == Stays(e) /\ ~Due(e) /\ Due(e)' /\ TimePasses

\* The first function's turn is every entry's.
LEMMA AllDue ==
    ASSUME NEW e \in RelaySlot
    PROVE  \E i \in DOMAIN FunctionOrder :
              FunctionOrder[i] = e.fn /\ i >= 1
<1>1. e.fn \in Functions /\ FunctionOrder \in Seq(Functions)
  BY SizeAssumption DEF RelaySlot
<1> QED
  BY <1>1 DEF Functions

\* A dispatch comes to an entry once a tick.
LEMMA DispatchDue ==
    ASSUME TypeOK, TickInv, LimitsInv, DispatchSlot, Separate(deviceConfig),
           ListedOnce(deviceConfig),
           NEW e \in Entries(deviceConfig), e.kind = "pair"
    PROVE  Awaits(e) \/ Booked(e)
<1> DEFINE d == deviceConfig.relays[entry]
           f == FunctionOrder[fn["relay"]]
           Rest(n) == \E j \in DOMAIN deviceConfig.relays :
                         deviceConfig.relays[j] = e /\ j >= n
<1>1. /\ pc["relay"] = "dispatch" /\ UNCHANGED <<pc, fn, deviceConfig>>
      /\ UNCHANGED <<epoch, now>>
      /\ entry' = entry + 1 /\ entry <= Len(deviceConfig.relays)
  BY DEF DispatchSlot
<1>2. /\ entry \in Nat \ {0} /\ slots \in [SlotNumbers -> SlotState]
      /\ deviceConfig \in Configs /\ pin \in [Pins -> Percent]
      /\ e \in RelaySlot /\ e.slot \in SlotNumbers
      /\ deviceConfig.relays \in Seq(RelaySlot)
  BY EntryType DEF TypeOK, RelaySlot, DeviceConfig
<1>3. entry \in DOMAIN deviceConfig.relays /\ d \in Entries(deviceConfig)
  <2>1. entry \in DOMAIN deviceConfig.relays
    BY <1>1, <1>2
  <2> QED
    BY <2>1 DEF Entries
<1>4. ~TimePasses
  BY <1>1 DEF TimePasses
<1>5. CASE d = e /\ e.fn = f
  <2>1. Drives(e)
    <3>1. \A s \in UsedSlots(e) : s \in SlotNumbers /\ RelayPin(s) \in Pins
      BY <1>2, <1>5 DEF UsedSlots, RelaySlot, RelayPin, Pins
    <3>2. CASE ~Driven(e)
      <4>1. /\ slots' = [slots EXCEPT ![e.slot].dispatched = now]
            /\ UNCHANGED pin
        BY <1>5, <3>2 DEF DispatchSlot, Driven
      <4> QED
        BY <1>1, <1>2, <3>2, <4>1 DEF Drives
    <3>3. CASE Driven(e)
      <4>1. /\ slots' = [slots EXCEPT ![e.slot] =
                           [Stamped(slots[e.slot], Outcomes(e).st)
                              EXCEPT !.dispatched = now]]
            /\ pin' = [p \in Pins |->
                         IF p \in OutputPins(e) THEN Outcomes(e).levels[p]
                         ELSE pin[p]]
        BY <1>5, <3>3 DEF DispatchSlot, Driven, Outcomes
      <4>2. slots'[e.slot] = [Stamped(slots[e.slot], Outcomes(e).st)
                                EXCEPT !.dispatched = now]
        BY <1>2, <4>1
      <4>3. \A s \in UsedSlots(e) : RelayPin(s) \in OutputPins(e) =>
               pin'[RelayPin(s)] = Outcomes(e).levels[RelayPin(s)]
        BY <3>1, <4>1
      <4> QED
        BY <1>1, <3>3, <4>2, <4>3 DEF Drives
    <3> QED
      BY <3>2, <3>3
  <2>2. Due(e)
    <3>1. Rest(entry)
      BY <1>2, <1>3, <1>5
    <3> QED
      BY <1>1, <1>5, <3>1 DEF Due
  <2>3. ~Due(e)'
    <3>1. \A i \in DOMAIN FunctionOrder :
             FunctionOrder[i] = e.fn => ~(i > fn["relay"])
      <4>1. /\ fn["relay"] \in Nat \ {0} /\ fn["relay"] <= Len(FunctionOrder)
            /\ FunctionOrder \in Seq(Functions)
        BY <1>1, SizeAssumption DEF TypeOK, TickInv, Tasks
      <4>2. fn["relay"] \in DOMAIN FunctionOrder
        BY <4>1
      <4> QED
        BY <1>5, <4>1, <4>2 DEF ListedOnce
    <3>2. ~Rest(entry + 1)
      <4>1. \A j \in DOMAIN deviceConfig.relays :
               deviceConfig.relays[j] = e => j = entry
        BY <1>3, <1>5 DEF ListedOnce
      <4> QED
        BY <1>2, <4>1
    <3> QED
      BY <1>1, <3>1, <3>2 DEF Due
  <2> QED
    BY <1>4, <1>5, <2>1, <2>2, <2>3 DEF Booked
<1>6. CASE ~(d = e /\ e.fn = f)
  <2>1. Stays(e)
    <3>1. CASE d # e
      <4>1. Stays(e) \/ Drives(e) \/ PutToRest(e)
        BY StepOfEntry DEF Plainly, Next, RelayTask
      <4>2. /\ d.slot # e.slot
            /\ \A s \in UsedSlots(e) : RelayPin(s) \notin OutputPins(d)
        BY <1>2, <1>3, <3>1, OtherEntry
      <4>3. \A s \in UsedSlots(e) : RelayPin(s) \in Pins
        BY <1>2 DEF UsedSlots, RelaySlot, RelayPin, Pins
      <4>4. d \in RelaySlot
        BY <1>2, <1>3, EntryType
      <4>5. slots'[e.slot] = slots[e.slot]
        BY <1>2, <4>2, <4>4 DEF DispatchSlot, RelaySlot
      <4>6. \A s \in UsedSlots(e) : pin'[RelayPin(s)] = pin[RelayPin(s)]
        BY <4>2, <4>3 DEF DispatchSlot
      <4> QED
        BY <4>5, <4>6 DEF Stays
    <3>2. CASE d = e /\ e.fn # f
      BY <3>2 DEF DispatchSlot, Stays
    <3> QED
      BY <1>6, <3>1, <3>2
  <2>2. Due(e)' <=> Due(e)
    <3>1. e.fn = f => (Rest(entry + 1) <=> Rest(entry))
      BY <1>2, <1>6
    <3> QED
      BY <1>1, <3>1 DEF Due
  <2> QED
    BY <1>4, <2>1, <2>2 DEF Awaits
<1> QED
  BY <1>5, <1>6

\* What a calm step does to the clock.
LEMMA CalmStep ==
    ASSUME TypeOK, epoch <= MaxEpoch, [Next]_vars, HistoryStep, Calm'
    PROVE  /\ Calm /\ ~OutputsForced
           /\ ~TimePasses => epoch' = epoch
           /\ TimePasses => epoch' = epoch + 1
<1> USE DEF Goto, Tasks
<1>1. /\ ~disturbed /\ ~OutputsForced
      /\ ~TimePasses => epoch' = epoch
  BY DEF Calm, HistoryStep
<1>2. TimePasses => epoch' = epoch + 1
  <2>1. SUFFICES ASSUME TimePasses
                 PROVE  epoch' = epoch + 1
    OBVIOUS
  <2>2. /\ pc["relay"] = "sleep" /\ pc'["relay"] = "check"
        /\ epoch < MaxEpoch /\ pc \in [Tasks -> Labels]
    BY <2>1 DEF TimePasses, TypeOK
  <2>3. CASE RelayDelay
    BY <2>2, <2>3 DEF RelayDelay
  <2>4. CASE RelayTask /\ ~RelayDelay
    BY <2>2, <2>4
       DEF RelayTask, RelayCheckEnabled, RelaySnapshotGet, InitController,
           DecideFunction, DispatchSlot, RecordFunction, BeginSafetyPass,
           PumpWrite, ApplyWaterPumpSafetyLimits, FinishTick,
           ForceAllRelaysOff, RecordOff, FinishForcedOff
  <2>5. CASE LoopTask \/ SetClock \/ UNCHANGED vars
    BY <2>2, <2>5
       DEF LoopTask, ApiConfigCommit, ApiConfigUnchanged, LoopBody,
           ConsumeSafetyLimitEvent, ConsumeSensorStaleEvent,
           ConsumeControllerDataChanges, PushControllerData,
           ServerAppliesChange, PublishSnapshot, LoopDelay,
           ForceAllRelaysOff, RecordOff, FinishForcedOff, SetClock, vars
  <2> QED
    BY <2>3, <2>4, <2>5 DEF Next
<1> QED
  BY <1>1, <1>2 DEF Calm, TimePasses

\* The next dispatch of an entry is the same, or done, or the next tick's.
LEMMA StepAwait ==
    ASSUME TypeOK, TickInv, LimitsInv, EntryInv, Alone, FromFirst,
           [Next]_vars, ~OutputsForced, Separate(deviceConfig),
           ListedOnce(deviceConfig), epoch < MaxEpoch,
           deviceConfig'.relays = deviceConfig.relays,
           pc["relay"] # "recordOff",
           NEW e \in Entries(deviceConfig), e.kind = "pair"
    PROVE  Awaits(e) \/ Booked(e) \/ Renewed(e)
<1> USE DEF Goto, Tasks
<1>0. /\ pc \in [Tasks -> Labels] /\ fn \in [Tasks -> Nat \ {0}]
      /\ entry \in Nat \ {0} /\ deviceConfig \in Configs
      /\ e \in RelaySlot /\ deviceConfig.relays \in Seq(RelaySlot)
      /\ FunctionOrder \in Seq(Functions)
  BY EntryType, SizeAssumption DEF TypeOK, DeviceConfig
<1>1. Stays(e) \/ Drives(e)
  BY StepOfEntry DEF Plainly, PutToRest
<1>2. pc["relay"] # "dispatch" \/ pc'["relay"] # "dispatch" => Stays(e)
  BY <1>0, <1>1 DEF Drives
<1>3. \E i \in DOMAIN FunctionOrder : FunctionOrder[i] = e.fn /\ i >= 1
  BY <1>0, AllDue
<1>4. CASE RelayCheckEnabled
  BY <1>0, <1>2, <1>4 DEF RelayCheckEnabled, Awaits, Due, TimePasses
<1>5. CASE RelaySnapshotGet
  BY <1>0, <1>2, <1>5 DEF RelaySnapshotGet, Awaits, Due, TimePasses
<1>6. CASE InitController
  <2>1. pc'["relay"] # "recordOff"
    BY <1>0, <1>6 DEF InitController, OutputsForced
  <2>2. /\ pc["relay"] = "begin" /\ pc'["relay"] = "decide"
        /\ fn' = fn
    BY <1>0, <1>6, <2>1 DEF InitController
  <2>3. fn["relay"] = 1
    BY <2>2 DEF FromFirst
  <2>4. Due(e) /\ Due(e)'
    <3>1. PICK i \in DOMAIN FunctionOrder : FunctionOrder[i] = e.fn
      BY <1>3
    <3>2. i > 1 \/ i = 1
      BY <1>0, <3>1
    <3> QED
      BY <2>2, <2>3, <3>1, <3>2 DEF Due
  <2> QED
    BY <1>2, <2>2, <2>4 DEF Awaits, TimePasses
<1>7. CASE DecideFunction
  <2> DEFINE f == FunctionOrder[fn["relay"]]
             assigned == \E d \in Entries(deviceConfig) : d.fn = f
  <2>1. /\ pc["relay"] = "decide" /\ entry = 1
        /\ fn["relay"] \in DOMAIN FunctionOrder
        /\ UNCHANGED <<deviceConfig, entry>>
        /\ \/ assigned /\ pc'["relay"] = "dispatch" /\ fn' = fn
           \/ /\ ~assigned /\ pc' = pc /\ fn'["relay"] = fn["relay"] + 1
    BY <1>0, <1>7 DEF DecideFunction, EntryInv
  <2>2. CASE assigned
    <3>1. \E j \in DOMAIN deviceConfig.relays :
             deviceConfig.relays[j] = e /\ j >= entry
      BY <1>0, <2>1 DEF Entries
    <3>2. Due(e)' <=> Due(e)
      BY <2>1, <2>2, <3>1 DEF Due
    <3> QED
      BY <1>2, <2>1, <2>2, <3>2 DEF Awaits, TimePasses
  <2>3. CASE ~assigned
    <3>1. e.fn # f
      BY <2>3
    <3>2. \A i \in DOMAIN FunctionOrder : FunctionOrder[i] = e.fn =>
             (i > fn["relay"] <=> i > fn'["relay"] \/ i = fn'["relay"])
             /\ i # fn["relay"]
      BY <1>0, <2>1, <2>3, <3>1
    <3>3. Due(e)' <=> Due(e)
      BY <2>1, <2>3, <3>2 DEF Due
    <3> QED
      BY <1>2, <2>1, <2>3, <3>3 DEF Awaits, TimePasses
  <2> QED
    BY <2>2, <2>3
<1>8. CASE DispatchSlot
  BY <1>8, DispatchDue
<1>9. CASE RecordFunction
  <2>1. /\ pc["relay"] = "dispatch" /\ pc'["relay"] = "decide"
        /\ entry > Len(deviceConfig.relays)
        /\ fn'["relay"] = fn["relay"] + 1
    BY <1>0, <1>9 DEF RecordFunction
  <2>2. \A i \in DOMAIN FunctionOrder :
           i > fn["relay"] <=> i > fn'["relay"] \/ i = fn'["relay"]
    BY <1>0, <2>1
  <2>3. ~\E j \in DOMAIN deviceConfig.relays : j >= entry
    BY <1>0, <2>1
  <2>4. Due(e)' <=> Due(e)
    BY <2>1, <2>2, <2>3 DEF Due
  <2> QED
    BY <1>2, <2>1, <2>4 DEF Awaits, TimePasses
<1>10. CASE BeginSafetyPass
  <2>1. /\ pc["relay"] = "decide" /\ pc'["relay"] = "pumpWrite"
        /\ fn["relay"] > Len(FunctionOrder)
    BY <1>0, <1>10 DEF BeginSafetyPass
  <2>2. \A i \in DOMAIN FunctionOrder : ~(i > fn["relay"] \/ i = fn["relay"])
    BY <1>0, <2>1
  <2>3. ~Due(e) /\ ~Due(e)'
    BY <2>1, <2>2 DEF Due
  <2> QED
    BY <1>2, <2>1, <2>3 DEF Awaits, TimePasses
<1>11. CASE PumpWrite \/ ApplyWaterPumpSafetyLimits \/ FinishTick
  <2>1. /\ pc["relay"] \in {"pumpWrite", "pumpLimits"}
        /\ pc'["relay"] \in {"pumpWrite", "pumpLimits", "sleep"}
    BY <1>0, <1>11 DEF PumpWrite, ApplyWaterPumpSafetyLimits, FinishTick
  <2> QED
    BY <1>2, <2>1 DEF Awaits, Due, TimePasses
<1>12. CASE RelayDelay
  <2>1. pc["relay"] = "sleep" /\ pc'["relay"] = "check"
    BY <1>0, <1>12 DEF RelayDelay
  <2> QED
    BY <1>2, <2>1 DEF Renewed, Due, TimePasses
<1>13. CASE \/ ForceAllRelaysOff("relay") \/ RecordOff("relay")
            \/ FinishForcedOff("relay")
  BY <1>0, <1>13
     DEF ForceAllRelaysOff, RecordOff, FinishForcedOff, OutputsForced
<1>14. CASE LoopTask \/ SetClock \/ UNCHANGED vars
  <2>1. pc'["relay"] = pc["relay"] /\ fn'["relay"] = fn["relay"]
    BY <1>0, <1>14
       DEF LoopTask, ApiConfigCommit, ApiConfigUnchanged, LoopBody,
           ConsumeSafetyLimitEvent, ConsumeSensorStaleEvent,
           ConsumeControllerDataChanges, PushControllerData,
           ServerAppliesChange, PublishSnapshot, LoopDelay,
           ForceAllRelaysOff, RecordOff, FinishForcedOff, SetClock, vars
  <2>2. ~TimePasses
    BY <2>1 DEF TimePasses
  <2>3. CASE pc["relay"] = "dispatch"
    <3>1. UNCHANGED <<deviceConfig, pin, slots, entry>>
      BY <1>14, <2>3, TickAlone DEF InTick
    <3>2. Due(e)' <=> Due(e)
      BY <2>1, <3>1 DEF Due
    <3> QED
      BY <2>2, <3>1, <3>2 DEF Awaits, Stays
  <2>4. CASE pc["relay"] # "dispatch"
    <3>1. Due(e)' <=> Due(e)
      BY <2>1, <2>4 DEF Due
    <3> QED
      BY <1>2, <2>2, <2>4, <3>1 DEF Awaits
  <2> QED
    BY <2>3, <2>4
<1> QED
  BY <1>4, <1>5, <1>6, <1>7, <1>8, <1>9, <1>10, <1>11, <1>12, <1>13, <1>14
     DEF Next, RelayTask

\* A calm tick's time is the clock's, and no task is about to report a
\* forced-off.
Ticking == /\ pc["relay"] # "recordOff"
           /\ pc["relay"] \in InCycle => now = epoch

\* A calm step keeps it so.
LEMMA StepTicking ==
    ASSUME TypeOK, [Next]_vars, ~OutputsForced, Ticking,
           ~TimePasses => epoch' = epoch
    PROVE  Ticking'
<1> USE DEF Goto, Tasks
<1>0. pc \in [Tasks -> Labels]
  BY DEF TypeOK
<1>1. pc'["relay"] # "recordOff"
  BY DEF OutputsForced, Ticking
<1>2. SUFFICES ASSUME pc'["relay"] \in InCycle
               PROVE  now' = epoch'
  BY <1>1 DEF Ticking
<1>3. epoch' = epoch
  BY <1>2 DEF TimePasses, InCycle, InTick
<1>4. CASE RelaySnapshotGet
  BY <1>4 DEF RelaySnapshotGet
<1>5. CASE InitController
  <2>1. pc["relay"] = "begin" /\ now' = now
    BY <1>0, <1>1, <1>5 DEF InitController, tickVars
  <2> QED
    BY <1>3, <2>1 DEF Ticking, InCycle
<1>6. CASE \/ DecideFunction \/ DispatchSlot \/ RecordFunction
           \/ BeginSafetyPass \/ PumpWrite \/ ApplyWaterPumpSafetyLimits
  <2>1. pc["relay"] \in InTick /\ now' = now
    BY <1>6
       DEF DecideFunction, DispatchSlot, RecordFunction, BeginSafetyPass,
           PumpWrite, ApplyWaterPumpSafetyLimits, tickVars, InTick
  <2> QED
    BY <1>3, <2>1 DEF Ticking, InCycle
<1>7. CASE \/ RelayCheckEnabled \/ FinishTick \/ RelayDelay
           \/ ForceAllRelaysOff("relay") \/ RecordOff("relay")
           \/ FinishForcedOff("relay")
  BY <1>0, <1>2, <1>7
     DEF RelayCheckEnabled, FinishTick, RelayDelay, ForceAllRelaysOff,
         RecordOff, FinishForcedOff, InCycle, InTick
<1>8. CASE LoopTask \/ SetClock \/ UNCHANGED vars
  <2>1. pc'["relay"] = pc["relay"] /\ now' = now
    BY <1>0, <1>8
       DEF LoopTask, ApiConfigCommit, ApiConfigUnchanged, LoopBody,
           ConsumeSafetyLimitEvent, ConsumeSensorStaleEvent,
           ConsumeControllerDataChanges, PushControllerData,
           ServerAppliesChange, PublishSnapshot, LoopDelay,
           ForceAllRelaysOff, RecordOff, FinishForcedOff, SetClock, vars,
           tickVars
  <2> QED
    BY <1>2, <1>3, <2>1 DEF Ticking
<1> QED
  BY <1>4, <1>5, <1>6, <1>7, <1>8 DEF Next, RelayTask

\* Where the motor is at the next sample
AtSample(e) == After(e, motor[e.slot], IsOn(e.slot), IsOn(e.pairSlot))

\* The position booked is where the motor is, or will be after this tick.
MotorInv(e) ==
    LET st == slots[e.slot]
    IN  /\ st.position \in Reach(e)
        /\ IF Due(e)
           THEN /\ Tracks(e, st.position, motor[e.slot])
                /\ st.dispatched \in {0, epoch - 1}
           ELSE /\ Tracks(e, st.position, AtSample(e))
                /\ st.dispatched = epoch

\* A dispatch books the way of one tick.
LEMMA MotorBooked ==
    ASSUME TypeOK, RunsType, Separate(deviceConfig),
           WholeSteps(deviceConfig), HistoryStep, Ticking, epoch' = epoch,
           NEW e \in Entries(deviceConfig), e.kind = "pair", EntryKept(e),
           MotorInv(e), Booked(e), TargetInv(e)
    PROVE  MotorInv(e)'
<1> DEFINE st == slots[e.slot]
           d == PairStep(e)
<1>1. /\ e \in RelaySlot /\ e.slot \in SlotNumbers /\ PairTypes(e)
      /\ e.slot # e.pairSlot /\ UsedSlots(e) = {e.slot, e.pairSlot}
  BY EntryTyped DEF Plainly, PairTypes
<1>2. /\ pc["relay"] = "dispatch" /\ now = epoch /\ epoch \in Nat
      /\ Drives(e) /\ Due(e) /\ ~Due(e)' /\ ~TimePasses
      /\ FunctionOrder[fn["relay"]] = e.fn
  BY DEF Booked, Drives, Ticking, InCycle, InTick, TypeOK
<1>3. motor' = motor
  BY <1>2 DEF HistoryStep
<1>4. /\ st.position \in Reach(e)
      /\ Tracks(e, st.position, motor[e.slot])
      /\ st.dispatched \in {0, epoch - 1} /\ st \in SlotState
  BY <1>1, <1>2 DEF MotorInv, TypeOK
<1>5. st.position \in Percent
  BY <1>4 DEF SlotState
<1>6. e.travelSeconds \in Nat \ {0}
  BY <1>1 DEF WholeSteps, RelaySlot
<1>7. CASE Driven(e)
  <2>1. /\ slots'[e.slot].position = d.position
        /\ slots'[e.slot].dispatched = now
        /\ IsOn(e.slot)' <=> d.open
        /\ IsOn(e.pairSlot)' <=> d.close
    BY <1>1, <1>2, <1>7, PairDispatch
  <2>2. /\ d.position \in Reach(e)
        /\ d.position = clamp(st.position
                                + (IF d.open THEN StepOf(e) ELSE 0)
                                - (IF d.close THEN StepOf(e) ELSE 0))
        /\ ~(d.open /\ d.close)
        /\ d.open => st.position < 100
        /\ d.close => st.position > 0
    <3>1. Elapsed(st) \in {0, 1}
      BY <1>2, <1>4 DEF Elapsed
    <3>2. /\ targetPercent \in Stops(e)
          /\ st.direction \in Directions /\ st.dead \in Nat
          /\ e.deadTimeSeconds \in Nat
      BY <1>1, <1>2, <1>4 DEF TargetInv, SlotState, RelaySlot
    <3> QED
      BY <1>4, <1>6, <3>1, <3>2, BookedStep DEF PairStep
  <2> DEFINE p == st.position
             m == motor[e.slot]
             sz == StepOf(e)
  <2>3. /\ p \in 0..100 /\ sz \in Nat
        /\ clamp(p) = p
    BY <1>5, <1>6, StepSize DEF Percent, clamp
  <2>4. Tracks(e, d.position, After(e, m, d.open, d.close))
    <3>1. /\ Tracks(e, p, After(e, m, FALSE, FALSE))
          /\ p < 100 => Tracks(e, clamp(p + sz), After(e, m, TRUE, FALSE))
          /\ p > 0 => Tracks(e, clamp(p - sz), After(e, m, FALSE, TRUE))
      BY <1>4, <1>5, <1>6, TickTracks
    <3>2. p + 0 - 0 = p /\ p + sz - 0 = p + sz /\ p + 0 - sz = p - sz
      BY <2>3
    <3> HIDE DEF d, st, p, m, sz
    <3>3. /\ ~d.open /\ ~d.close => d.position = p
          /\ d.open /\ ~d.close => d.position = clamp(p + sz)
          /\ ~d.open /\ d.close => d.position = clamp(p - sz)
      BY <2>2, <2>3, <3>2, Zenon DEF p, sz
    <3>4. CASE ~d.open /\ ~d.close
      <4>1. After(e, m, d.open, d.close) = After(e, m, FALSE, FALSE)
        BY <3>4, Zenon DEF After
      <4> QED
        BY <3>1, <3>3, <3>4, <4>1, Zenon
    <3>5. CASE d.open /\ ~d.close
      <4>1. After(e, m, d.open, d.close) = After(e, m, TRUE, FALSE)
        BY <3>5, Zenon DEF After
      <4>2. p < 100
        BY <2>2, <3>5 DEF p
      <4> QED
        BY <3>1, <3>3, <3>5, <4>1, <4>2, Zenon
    <3>6. CASE ~d.open /\ d.close
      <4>1. After(e, m, d.open, d.close) = After(e, m, FALSE, TRUE)
        BY <3>6, Zenon DEF After
      <4>2. p > 0
        BY <2>2, <3>6 DEF p
      <4> QED
        BY <3>1, <3>3, <3>6, <4>1, <4>2, Zenon
    <3> QED
      BY <2>2, <3>4, <3>5, <3>6, Zenon
  <2>5. AtSample(e)' = After(e, m, d.open, d.close)
    <3> HIDE DEF d, st
    <3> QED
      BY <1>3, <2>1, Zenon DEF AtSample, After
  <2> HIDE DEF d, st
  <2> QED
    BY <1>2, <1>3, <2>1, <2>2, <2>4, <2>5 DEF MotorInv
<1>8. CASE ~Driven(e)
  <2>1. /\ slots'[e.slot].position = st.position
        /\ slots'[e.slot].dispatched = now
        /\ \A s \in UsedSlots(e) : pin'[RelayPin(s)] = pin[RelayPin(s)]
    BY <1>2, <1>4, <1>8 DEF Drives, SlotState
  <2>2. ~IsOn(e.slot) /\ ~IsOn(e.pairSlot)
    BY <1>1, <1>8 DEF EntryKept, NotWired
  <2>3. AtSample(e)' = After(e, motor[e.slot], FALSE, FALSE)
    BY <1>1, <1>3, <2>1, <2>2 DEF AtSample, After, IsOn
  <2>4. Tracks(e, st.position, After(e, motor[e.slot], FALSE, FALSE))
    BY <1>4, <1>5, <1>6, TickTracks
  <2> QED
    BY <1>2, <1>3, <1>4, <2>1, <2>3, <2>4 DEF MotorInv
<1> QED
  BY <1>7, <1>8

\* Every calm step keeps the motor where it is booked.
LEMMA StepMotor ==
    ASSUME TypeOK, RunsType, Separate(deviceConfig),
           WholeSteps(deviceConfig), HistoryStep, Ticking,
           ~TimePasses => epoch' = epoch, TimePasses => epoch' = epoch + 1,
           NEW e \in Entries(deviceConfig), e.kind = "pair", EntryKept(e),
           MotorInv(e), TargetInv(e),
           Awaits(e) \/ Booked(e) \/ Renewed(e)
    PROVE  MotorInv(e)'
<1>1. /\ e \in RelaySlot /\ e.slot \in SlotNumbers /\ epoch \in Nat
      /\ UsedSlots(e) = {e.slot, e.pairSlot} /\ slots[e.slot] \in SlotState
  BY EntryTyped DEF Plainly, PairTypes, TypeOK
<1>2. Stays(e) => /\ slots'[e.slot].position = slots[e.slot].position
                  /\ slots'[e.slot].dispatched = slots[e.slot].dispatched
                  /\ IsOn(e.slot)' <=> IsOn(e.slot)
                  /\ IsOn(e.pairSlot)' <=> IsOn(e.pairSlot)
  BY <1>1 DEF Stays, Track, IsOn
<1>3. CASE Awaits(e)
  <2>1. motor' = motor /\ epoch' = epoch
    BY <1>3 DEF HistoryStep, Awaits
  <2>2. AtSample(e)' = AtSample(e)
    BY <1>2, <1>3, <2>1 DEF AtSample, After, Awaits
  <2> QED
    BY <1>2, <1>3, <2>1, <2>2 DEF MotorInv, Awaits
<1>4. CASE Booked(e)
  BY <1>4, MotorBooked DEF Booked
<1>5. CASE Renewed(e)
  <2>1. /\ Tracks(e, slots[e.slot].position, AtSample(e))
        /\ slots[e.slot].dispatched = epoch
        /\ slots[e.slot].position \in Reach(e)
        /\ TimePasses /\ Stays(e) /\ Due(e)'
    BY <1>5 DEF MotorInv, Renewed
  <2>2. motor'[e.slot] = Moved(e.slot)
    BY <1>1, <2>1 DEF HistoryStep
  <2>3. motor'[e.slot] = AtSample(e)
    BY <2>2, OwnTravel DEF AtSample
  <2>4. epoch' - 1 = epoch
    BY <1>1, <2>1
  <2> QED
    BY <1>2, <2>1, <2>3, <2>4 DEF MotorInv
<1> QED
  BY <1>3, <1>4, <1>5

\* The inductive invariant of the motors
MotorsInv ==
    /\ Calm => Ticking
    /\ \A e \in Entries(deviceConfig) : e.kind = "pair" =>
          TargetInv(e) /\ (Calm => MotorInv(e))

\* In one installation whose entries share no output, are listed once and
\* are asked for whole steps only, the tracked position of a motor is where
\* the motor is, as long as nothing was forced off and the clock was not set
\* (computeRelayPairStep, dispatchSlot).
THEOREM PositionKept ==
    ASSUME \A c \in Configs : Separate(c) /\ ListedOnce(c) /\ WholeSteps(c)
    PROVE  InstallationSpec => []PositionTracked
<1> DEFINE Inv == EntriesInv /\ EntryInv /\ Alone /\ FromFirst /\ MotorsInv
<1>1. HInit => Inv
  <2> SUFFICES ASSUME HInit
               PROVE  Inv
    OBVIOUS
  <2>1. EntriesInv /\ EntryInv
    BY InitEntries, InitPumps DEF PumpsInv
  <2>2. /\ pc["relay"] = "check" /\ pc["loop"] = "config"
        /\ fn["relay"] = 1
    BY DEF HInit, Init, Tasks
  <2>3. Alone /\ FromFirst /\ Ticking
    BY <2>2 DEF Alone, FromFirst, Ticking, Critical, InCycle, InTick
  <2>4. ASSUME NEW e \in Entries(deviceConfig), e.kind = "pair"
        PROVE  TargetInv(e) /\ MotorInv(e)
    <3>1. e \in RelaySlot
      BY <2>1, EntryType DEF EntriesInv, TypeOK
    <3>2. /\ slots[e.slot].position = 0 /\ slots[e.slot].dispatched = 0
          /\ motor[e.slot] = 0
      BY <3>1 DEF HInit, Init, RelaySlot
    <3>3. e.travelSeconds \in Nat \ {0}
      <4>1. WholeSteps(deviceConfig)
        BY <2>1 DEF EntriesInv, TypeOK
      <4> QED
        BY <2>4, <3>1, <4>1 DEF WholeSteps, RelaySlot
    <3>4. 0 \in Reach(e)
      <4>1. StepOf(e) \in Nat
        BY <3>3, StepSize
      <4>2. 0 = 0 * StepOf(e) /\ 0 \in Percent
        BY <4>1 DEF Percent
      <4> QED
        BY <4>2 DEF Reach, OnStep
    <3>5. Due(e)
      BY <2>2 DEF Due
    <3>6. Tracks(e, 0, 0)
      <4>1. StepOf(e) \in Nat /\ 100 * e.travelSeconds \in Nat
            /\ (e.travelSeconds <= 100 =>
                  StepOf(e) * e.travelSeconds <= 100)
        BY <3>3, StepLimit
      <4> QED
        BY <3>3, <4>1, Shut
    <3> QED
      BY <2>2, <3>2, <3>4, <3>5, <3>6 DEF TargetInv, MotorInv
  <2> QED
    BY <2>1, <2>3, <2>4 DEF MotorsInv
<1>2. Inv /\ [InstallationNext]_hvars => Inv'
  <2> SUFFICES ASSUME Inv, [InstallationNext]_hvars
               PROVE  Inv'
    OBVIOUS
  <2>1. [Next]_vars /\ deviceConfig'.relays = deviceConfig.relays
    BY DEF InstallationNext, HNext, hvars, vars
  <2>2. /\ TypeOK /\ TickInv /\ RunsType /\ LimitsInv
        /\ Separate(deviceConfig) /\ ListedOnce(deviceConfig)
        /\ WholeSteps(deviceConfig)
    BY DEF EntriesInv, TypeOK
  <2>3. EntriesInv'
    BY StepEntries
  <2>4. EntryInv' /\ Alone' /\ FromFirst'
    BY <2>1, <2>2, StepEntry, StepAlone, StepFromFirst
  <2>5. Entries(deviceConfig)' = Entries(deviceConfig)
    BY <2>1 DEF Entries
  <2>6. ASSUME NEW e \in Entries(deviceConfig), e.kind = "pair"
        PROVE  TargetInv(e)'
    BY <2>1, <2>2, <2>6, StepTarget DEF MotorsInv
  <2>7. ASSUME Calm'
        PROVE  /\ Ticking'
               /\ \A e \in Entries(deviceConfig) : e.kind = "pair" =>
                     MotorInv(e)'
    <3>1. CASE UNCHANGED hvars
      <4>1. UNCHANGED <<deviceConfig, epoch, pin, slots, pc, fn, entry, now,
                        motor, disturbed>>
        BY <3>1 DEF hvars, vars, history, controllerVars, tickVars
      <4>2. Calm /\ Ticking /\ Ticking'
        BY <2>7, <4>1 DEF Calm, MotorsInv, Ticking
      <4>3. ASSUME NEW e, MotorInv(e)
            PROVE  MotorInv(e)'
        <5>1. (Due(e)' <=> Due(e)) /\ AtSample(e)' = AtSample(e)
          BY <4>1 DEF Due, AtSample, After, IsOn
        <5> QED
          BY <4>1, <4>3, <5>1 DEF MotorInv
      <4> QED
        BY <4>2, <4>3 DEF MotorsInv
    <3>2. CASE InstallationNext
      <4>1. HistoryStep
        BY <3>2 DEF InstallationNext, HNext
      <4>2. /\ Calm /\ ~OutputsForced
            /\ ~TimePasses => epoch' = epoch
            /\ TimePasses => epoch' = epoch + 1
        BY <2>1, <2>2, <2>7, <4>1, CalmStep DEF EntryInv
      <4>3. Ticking /\ Ticking'
        BY <2>1, <2>2, <4>2, StepTicking DEF MotorsInv
      <4>4. ASSUME NEW e \in Entries(deviceConfig), e.kind = "pair"
            PROVE  MotorInv(e)'
        <5>1. EntryKept(e) /\ MotorInv(e) /\ TargetInv(e)
          BY <4>2, <4>4 DEF EntriesInv, MotorsInv, Plainly
        <5>2. Awaits(e) \/ Booked(e) \/ Renewed(e)
          <6>1. epoch < MaxEpoch /\ pc["relay"] # "recordOff"
            BY <4>2, <4>3 DEF Calm, Ticking
          <6> QED
            BY <2>1, <2>2, <4>2, <4>4, <6>1, StepAwait
        <5> QED
          BY <2>2, <4>1, <4>2, <4>3, <4>4, <5>1, <5>2, StepMotor
      <4> QED
        BY <4>3, <4>4
    <3> QED
      BY <3>1, <3>2
  <2> QED
    BY <2>3, <2>4, <2>5, <2>6, <2>7 DEF MotorsInv
<1>3. Inv => PositionTracked
  <2> SUFFICES ASSUME Inv, Calm,
                      pc["relay"] \in {"check", "snapshot", "begin",
                                        "forceOff"},
                      NEW e \in Entries(deviceConfig), e.kind = "pair"
               PROVE  LET p == slots[e.slot].position
                          m == motor[e.slot]
                      IN  /\ m - p * e.travelSeconds \in -Drift(e)..Drift(e)
                          /\ p = 0 => m = 0
                          /\ p = 100 /\ e.travelSeconds <= 100 =>
                                m = 100 * e.travelSeconds
    BY DEF PositionTracked, Calm
  <2>1. e \in RelaySlot /\ e.travelSeconds \in Nat \ {0}
    <3>1. e \in RelaySlot
      BY EntryType DEF EntriesInv, TypeOK
    <3>2. WholeSteps(deviceConfig)
      BY DEF EntriesInv, TypeOK
    <3> QED
      BY <3>1, <3>2 DEF WholeSteps, RelaySlot
  <2>2. Tracks(e, slots[e.slot].position, motor[e.slot])
    BY DEF MotorsInv, MotorInv, Due
  <2>3. slots[e.slot].position \in Percent
    BY <2>1 DEF EntriesInv, TypeOK, RelaySlot, SlotState
  <2> QED
    BY <2>1, <2>2, <2>3, DriftBounds
<1> QED
  BY <1>1, <1>2, <1>3, PTL DEF InstallationSpec

-----------------------------------------------------------------------------
(* The outputs of a disabled device *)

\* The outputs the configuration lists are off, or closed.
AtRest == \A e \in Entries(deviceConfig) : e.kind # "servo" =>
             \A p \in RestPins(e) : pin[p] = 0

\* Between the relay task's forced-off and the report of it nothing is
\* driven; and afterwards the task's way leads through the test of enabled.
DisabledInv ==
    /\ pc["relay"] = "recordOff" => AtRest
    /\ rested =>
          /\ ~deviceConfig.enabled /\ AtRest
          /\ pc["relay"] \in {"sleep", "check", "forceOff", "recordOff"}

\* Of a bank that is not the servos', the last entry's level is 0 as well.
LEMMA DrivenOff ==
    ASSUME TypeOK, NEW before, DriveEveryAssignedRelayOff(before),
           UNCHANGED deviceConfig
    PROVE  AtRest'
<1>1. deviceConfig \in Configs /\ deviceConfig.relays \in Seq(RelaySlot)
  BY EntryType DEF TypeOK, DeviceConfig
<1>2. SUFFICES ASSUME NEW e \in Entries(deviceConfig), e.kind # "servo",
                      NEW p \in RestPins(e)
               PROVE  pin'[p] = 0
  BY DEF AtRest
<1>3. p \in OutputPins(e) /\ p \in Pins /\ p[1] # "servo"
  <2>1. e \in RelaySlot
    BY <1>1, EntryType
  <2> QED
    BY <1>2, <2>1 DEF RestPins, OutputPins, Pins, RelaySlot, Kinds
<1> DEFINE I == {i \in DOMAIN deviceConfig.relays :
                    p \in RestPins(deviceConfig.relays[i])}
           i == CHOOSE i \in DOMAIN deviceConfig.relays : RestsLast(i, p)
<1>4. \E j \in DOMAIN deviceConfig.relays : RestsLast(j, p)
  <2>1. PICK j \in DOMAIN deviceConfig.relays : deviceConfig.relays[j] = e
    BY DEF Entries
  <2>2. I \in SUBSET (1..Len(deviceConfig.relays)) /\ I # {}
        /\ Len(deviceConfig.relays) \in Nat
    BY <1>1, <1>2, <2>1
  <2>3. PICK k \in I : \A j2 \in I : j2 <= k
    BY <2>2, LastIndex
  <2> QED
    BY <2>3 DEF RestsLast
<1>5. i \in DOMAIN deviceConfig.relays /\ RestsLast(i, p)
  BY <1>4
<1>6. pin'[p] = RestLevel(deviceConfig.relays[i])
  BY <1>3, <1>4 DEF DriveEveryAssignedRelayOff
<1> HIDE DEF i
<1>7. deviceConfig.relays[i].kind # "servo"
  <2>1. p \in OutputPins(deviceConfig.relays[i])
    BY <1>5 DEF RestsLast, RestPins
  <2> QED
    BY <1>3, <2>1 DEF OutputPins
<1> QED
  BY <1>6, <1>7 DEF RestLevel

\* Every step keeps it: a new configuration waits for the lock, and one that
\* enables the device ends what is claimed.
LEMMA StepDisabled ==
    ASSUME TypeOK, DisabledInv, HNext
    PROVE  DisabledInv'
<1> USE DEF Goto, Tasks
<1>0. pc \in [Tasks -> Labels]
  BY DEF TypeOK
<1>1. /\ Next
      /\ rested' = /\ ~deviceConfig'.enabled /\ UNCHANGED deviceConfig
                   /\ rested \/ OffPassEnds
  BY DEF HNext, HistoryStep
<1>2. rested' =>
        /\ ~deviceConfig'.enabled /\ UNCHANGED deviceConfig
        /\ rested \/ OffPassEnds
  BY <1>1
<1>3. ASSUME AtRest', rested => pc'["relay"] \in
                {"sleep", "check", "forceOff", "recordOff"}
      PROVE  DisabledInv'
  BY <1>2, <1>3 DEF DisabledInv, OffPassEnds
<1>4. rested =>
         pc'["relay"] \in {"sleep", "check", "forceOff", "recordOff"}
  BY <1>1, DisabledWay DEF DisabledInv
<1>5. CASE \/ InitController /\ pc'["relay"] = "recordOff"
           \/ \E t \in Tasks : ForceAllRelaysOff(t)
  <2>1. UNCHANGED deviceConfig
        /\ \E before : DriveEveryAssignedRelayOff(before)
    BY <1>0, <1>5 DEF InitController, ForceAllRelaysOff
  <2> QED
    BY <1>3, <1>4, <2>1, DrivenOff
<1>6. CASE \E t \in Tasks : RecordOff(t) \/ FinishForcedOff(t)
  <2>1. /\ UNCHANGED <<deviceConfig, pin>>
        /\ \/ pc'["relay"] = pc["relay"]
           \/ pc["relay"] = "recordOff" /\ pc'["relay"] = "sleep"
    BY <1>0, <1>6 DEF RecordOff, FinishForcedOff
  <2>2. AtRest' <=> AtRest
    BY <2>1 DEF AtRest
  <2> QED
    BY <1>2, <2>1, <2>2 DEF DisabledInv, OffPassEnds
<1>7. CASE ApiConfigCommit
  <2>1. UNCHANGED pin /\ pc'["relay"] = pc["relay"]
        /\ pc["relay"] # "recordOff"
    BY <1>0, <1>7 DEF ApiConfigCommit, LockFree, Critical
  <2>2. UNCHANGED deviceConfig => (AtRest' <=> AtRest)
    BY <2>1 DEF AtRest
  <2> QED
    BY <1>2, <2>1, <2>2 DEF DisabledInv, OffPassEnds
<1>8. CASE \/ RelayCheckEnabled \/ RelaySnapshotGet \/ RelayDelay
           \/ \E wait \in BOOLEAN : ApiConfigUnchanged(wait)
           \/ LoopBody \/ ConsumeSafetyLimitEvent \/ ConsumeSensorStaleEvent
           \/ ConsumeControllerDataChanges \/ PushControllerData
           \/ ServerAppliesChange \/ PublishSnapshot \/ LoopDelay \/ SetClock
  <2>1. /\ UNCHANGED <<deviceConfig, pin>>
        /\ \/ pc'["relay"] = pc["relay"]
           \/ pc["relay"] # "recordOff" /\ pc'["relay"] # "recordOff"
    BY <1>0, <1>8
       DEF RelayCheckEnabled, RelaySnapshotGet, RelayDelay,
           ApiConfigUnchanged, LoopBody, ConsumeSafetyLimitEvent,
           ConsumeSensorStaleEvent, ConsumeControllerDataChanges,
           PushControllerData, ServerAppliesChange, PublishSnapshot,
           LoopDelay, SetClock
  <2>2. AtRest' <=> AtRest
    BY <2>1 DEF AtRest
  <2> QED
    BY <1>2, <1>4, <2>1, <2>2 DEF DisabledInv, OffPassEnds
<1>9. CASE \/ InitController /\ pc'["relay"] # "recordOff"
           \/ DecideFunction \/ DispatchSlot \/ RecordFunction
           \/ BeginSafetyPass \/ PumpWrite \/ ApplyWaterPumpSafetyLimits
           \/ FinishTick
  <2>1. /\ pc["relay"] \in InTick \cup {"begin"}
        /\ pc'["relay"] # "recordOff"
    BY <1>0, <1>9
       DEF InitController, DecideFunction, DispatchSlot, RecordFunction,
           BeginSafetyPass, PumpWrite, ApplyWaterPumpSafetyLimits, FinishTick,
           InTick
  <2>2. ~rested /\ ~OffPassEnds
    BY <2>1 DEF DisabledInv, OffPassEnds, InTick
  <2> QED
    BY <1>2, <2>1, <2>2 DEF DisabledInv
<1> QED
  BY <1>1, <1>5, <1>6, <1>7, <1>8, <1>9 DEF Next, RelayTask, LoopTask

\* Once the relay task has made a pass since the configuration that disabled
\* the device, its outputs are at rest and stay so while it is in force,
\* for every configuration and every interleaving (forceAllRelaysOff).
THEOREM RestsWhenDisabled == HSpec => []DisabledAtRest
<1>1. HInit => DisabledInv
  BY DEF HInit, Init, DisabledInv, Tasks
<1>2. TypeOK /\ DisabledInv /\ [HNext]_hvars => DisabledInv'
  <2>1. ASSUME DisabledInv, UNCHANGED hvars
        PROVE  DisabledInv'
    <3>1. UNCHANGED <<deviceConfig, pin, pc, rested>>
      BY <2>1 DEF hvars, vars, history
    <3> QED
      BY <2>1, <3>1 DEF DisabledInv, AtRest
  <2> QED
    BY <2>1, StepDisabled
<1>3. DisabledInv => DisabledAtRest
  BY DEF DisabledInv, DisabledAtRest, AtRest
<1> QED
  BY <1>1, <1>2, <1>3, HistoryOfSpec, PTL DEF HSpec

-----------------------------------------------------------------------------
(* A heater without a temperature *)

\* What is assumed of the clock: once plausible it is never set back.
ForwardClock == ClockSteps \subseteq Nat

\* The entries whose relays the property counts
Heater(e) == e.fn = "Heating" /\ e.kind = "relay"

Blind == view["temperature"] = NaN

\* The clock only goes on, and the tick's time is not ahead of it.
ClockInv ==
    /\ epoch <= MaxEpoch /\ now <= MaxEpoch
    /\ pc["relay"] \in InCycle => now <= epoch

\* What the tick decides on came from the drivers, or is the absence of it.
ViewInv == {snapshot, reading, view} \subseteq Readings \cup {NoReading}

\* The streak began at least as many ticks ago as the heater has been on
\* without a temperature.
Streak(time) == /\ heatingSensorStaleSinceEpoch # 0
                /\ heatingSensorStaleSinceEpoch + blindTicks <= time

\* ... and not so long ago that the hold is over.
Holding == /\ Streak(now)
           /\ now - heatingSensorStaleSinceEpoch
                < MAX_HEATING_SENSOR_STALE_SECONDS

\* Between ticks; the tick whose delay has not passed yet is counted.
StreakInv ==
    (pc["relay"] \notin InTick /\ Time < MaxEpoch /\ blindTicks > 0) =>
        Streak(Time + IF pc["relay"] = "sleep" THEN 1 ELSE 0)

\* In a tick that finds no temperature
BlindTick == pc["relay"] \in InTick /\ now < MaxEpoch /\ Blind

\* ... the streak goes on, unless the policy has no hold,
StreakKept ==
    (blindTicks > 0 /\ deviceConfig.heatingFailSafePolicy # "scheduleOnly") =>
        Streak(now)

\* ... a heater stays on by the hold only, once heating has been decided,
HeldDecided == Decided("Heating") /\ HeaterOn => Holding

\* ... and while it is dispatched, entry by entry.
HeldDispatch ==
    (pc["relay"] = "dispatch" /\ FunctionOrder[fn["relay"]] = "Heating") =>
        /\ shouldBeOn => Holding
        /\ \A i \in DOMAIN deviceConfig.relays :
              (/\ i < entry /\ Heater(deviceConfig.relays[i])
               /\ IsOn(deviceConfig.relays[i].slot)) => shouldBeOn

\* The inductive invariant of the hold
HeatInv ==
    /\ ClockInv /\ ViewInv /\ heatingSensorStaleSinceEpoch <= Time
    /\ blindTicks \in 0..MAX_HEATING_SENSOR_STALE_SECONDS
    /\ StreakInv
    /\ BlindTick => StreakKept /\ HeldDecided /\ HeldDispatch

\* Time never goes back.
LEMMA StepClock ==
    ASSUME ForwardClock, TypeOK, [Next]_vars, ClockInv
    PROVE  ClockInv' /\ Time <= Time'
<1> USE DEF Goto, Tasks
<1>0. /\ pc \in [Tasks -> Labels] /\ epoch \in Nat /\ now \in Nat \ {0}
      /\ MaxEpoch \in Nat /\ BootEpoch \in Nat /\ BootEpoch <= MaxEpoch
  BY EpochAssumption DEF TypeOK
<1>1. CASE RelaySnapshotGet
  BY <1>0, <1>1
     DEF RelaySnapshotGet, ClockInv, Time, InCycle, InTick
<1>2. CASE InitController
  <2>1. /\ pc["relay"] = "begin" /\ UNCHANGED epoch
        /\ \/ pc'["relay"] = "decide" /\ UNCHANGED now
           \/ pc'["relay"] = "recordOff" /\ now' = BootEpoch
    BY <1>0, <1>2 DEF InitController, tickVars, EndOfTick
  <2> QED
    BY <1>0, <2>1 DEF ClockInv, Time, InCycle, InTick
<1>3. CASE FinishTick
  <2>1. /\ pc["relay"] = "pumpWrite" /\ UNCHANGED epoch
        /\ pc'["relay"] = "sleep" /\ now' = BootEpoch
    BY <1>0, <1>3 DEF FinishTick, EndOfTick
  <2> QED
    BY <1>0, <2>1 DEF ClockInv, Time, InCycle, InTick
<1>4. CASE RelayDelay
  <2>1. /\ pc["relay"] = "sleep" /\ pc'["relay"] = "check" /\ UNCHANGED now
        /\ epoch' = IF epoch < MaxEpoch THEN epoch + 1 ELSE epoch
    BY <1>0, <1>4 DEF RelayDelay, tickVars
  <2> QED
    BY <1>0, <2>1 DEF ClockInv, Time, InCycle, InTick
<1>5. CASE SetClock
  <2>1. UNCHANGED <<pc, now>>
    BY <1>5 DEF SetClock, tickVars
  <2>2. epoch' \in Nat /\ epoch <= epoch' /\ epoch' <= MaxEpoch
    <3>1. \A e \in ClockSyncs : e \in MIN_PLAUSIBLE_EPOCH..MaxEpoch
      BY EpochAssumption
    <3>2. MIN_PLAUSIBLE_EPOCH \in Nat
      BY ClockAssumption
    <3>3. CASE epoch < MIN_PLAUSIBLE_EPOCH /\ \E e \in ClockSyncs : epoch' = e
      BY <1>0, <3>1, <3>2, <3>3
    <3>4. CASE \E d \in ClockSteps : /\ epoch + d
                                          \in MIN_PLAUSIBLE_EPOCH..MaxEpoch
                                     /\ epoch' = epoch + d
      BY <1>0, <3>2, <3>4 DEF ForwardClock
    <3> QED
      BY <1>5, <3>3, <3>4 DEF SetClock
  <2> QED
    BY <1>0, <2>1, <2>2 DEF ClockInv, Time
<1>6. CASE \/ RelayCheckEnabled \/ DecideFunction \/ DispatchSlot
           \/ RecordFunction \/ BeginSafetyPass \/ PumpWrite
           \/ ApplyWaterPumpSafetyLimits
  <2>1. /\ pc["relay"] \in InCycle <=> pc'["relay"] \in InCycle
        /\ UNCHANGED <<epoch, now>>
    BY <1>0, <1>6
       DEF RelayCheckEnabled, DecideFunction, DispatchSlot, RecordFunction,
           BeginSafetyPass, PumpWrite, ApplyWaterPumpSafetyLimits, tickVars,
           InCycle, InTick
  <2> QED
    BY <1>0, <2>1 DEF ClockInv, Time
<1>7. CASE \E t \in Tasks :
              ForceAllRelaysOff(t) \/ RecordOff(t) \/ FinishForcedOff(t)
  <2>1. /\ UNCHANGED <<epoch, now>>
        /\ \/ pc'["relay"] = pc["relay"]
           \/ pc["relay"] = "forceOff" /\ pc'["relay"] = "recordOff"
           \/ pc["relay"] = "recordOff" /\ pc'["relay"] = "sleep"
    BY <1>0, <1>7 DEF ForceAllRelaysOff, RecordOff, FinishForcedOff, tickVars
  <2>2. pc["relay"] \in InCycle <=> pc'["relay"] \in InCycle
    BY <2>1 DEF InCycle, InTick
  <2> QED
    BY <1>0, <2>1, <2>2 DEF ClockInv, Time
<1>8. CASE \/ ApiConfigCommit
           \/ \E wait \in BOOLEAN : ApiConfigUnchanged(wait)
           \/ LoopBody \/ ConsumeSafetyLimitEvent \/ ConsumeSensorStaleEvent
           \/ ConsumeControllerDataChanges \/ PushControllerData
           \/ ServerAppliesChange \/ PublishSnapshot \/ LoopDelay
           \/ UNCHANGED vars
  <2>1. /\ pc'["relay"] = pc["relay"] /\ UNCHANGED <<epoch, now>>
    BY <1>0, <1>8
       DEF ApiConfigCommit, ApiConfigUnchanged, LoopBody,
           ConsumeSafetyLimitEvent, ConsumeSensorStaleEvent,
           ConsumeControllerDataChanges, PushControllerData,
           ServerAppliesChange, PublishSnapshot, LoopDelay, vars, tickVars
  <2> QED
    BY <1>0, <2>1 DEF ClockInv, Time
<1> QED
  BY <1>1, <1>2, <1>3, <1>4, <1>5, <1>6, <1>7, <1>8
     DEF Next, RelayTask, LoopTask

\* Readings are only handed on.
LEMMA StepView ==
    ASSUME ViewInv, [Next]_vars
    PROVE  ViewInv'
<1>1. /\ reading' \in {reading, NoReading} \cup Readings
      /\ snapshot' \in {snapshot, reading}
      /\ view' \in {view, snapshot, NoReading}
  <2>1. CASE RelayTask
    BY <2>1
       DEF RelayTask, RelayCheckEnabled, RelaySnapshotGet, InitController,
           DecideFunction, DispatchSlot, RecordFunction, BeginSafetyPass,
           PumpWrite, ApplyWaterPumpSafetyLimits, FinishTick, RelayDelay,
           ForceAllRelaysOff, RecordOff, FinishForcedOff, tickVars, loopVars,
           EndOfTick
  <2>2. CASE LoopTask \/ SetClock \/ UNCHANGED vars
    BY <2>2
       DEF LoopTask, ApiConfigCommit, ApiConfigUnchanged, LoopBody,
           ConsumeSafetyLimitEvent, ConsumeSensorStaleEvent,
           ConsumeControllerDataChanges, PushControllerData,
           ServerAppliesChange, PublishSnapshot, LoopDelay, ForceAllRelaysOff,
           RecordOff, FinishForcedOff, SetClock, vars, tickVars, loopVars
  <2> QED
    BY <2>1, <2>2 DEF Next
<1> QED
  BY <1>1 DEF ViewInv
\* Without a temperature only a rule under the hold policy, within the
\* ceiling of the streak, asks for heating.
LEMMA BlindDemand ==
    ASSUME TypeOK, ClockInv, ViewInv, HeatsByTemperature(deviceConfig), Blind
    PROVE  /\ Overriding("Heating") = {}
           /\ PidMetrics("Heating") # {} => PidDemands("Heating") = {0}
           /\ RuleDemand("Heating") > 0 =>
                 /\ RulesFor("Heating") # {}
                 /\ deviceConfig.heatingFailSafePolicy = "hold"
                 /\ ~runTimeCeilingHit(now, staleSince,
                                       MAX_HEATING_SENSOR_STALE_SECONDS)
<1> DEFINE c == deviceConfig
<1>0. /\ now \in 1..MaxEpoch /\ view \in Readings \cup {NoReading}
      /\ readingForTargetMetric("temperature") = NaN
  BY EpochAssumption
     DEF TypeOK, ClockInv, ViewInv, Blind, readingForTargetMetric
<1>1. Overriding("Heating") = {}
  <2>1. \A i \in DOMAIN c.overrides : c.overrides[i].fn = "Heating" =>
           c.overrides[i].mode = "target"
           /\ readingForTargetMetric(c.overrides[i].metric) = NaN
    BY <1>0 DEF HeatsByTemperature
  <2> QED
    BY <2>1 DEF Overriding
<1>2. PidMetrics("Heating") # {} => PidDemands("Heating") = {0}
  <2>1. PidMetrics("Heating") # {} => "temperature" \in PidMetrics("Heating")
    BY ReadingAssumption DEF HeatsByTemperature, PidMetrics
  <2> QED
    BY <1>0, <2>1 DEF PidDemands
<1>3. ASSUME RuleDemand("Heating") > 0
      PROVE  /\ RulesFor("Heating") # {}
             /\ c.heatingFailSafePolicy = "hold"
             /\ ~runTimeCeilingHit(now, staleSince,
                                   MAX_HEATING_SENSOR_STALE_SECONDS)
  <2>1. PICK r \in RulesFor("Heating") :
               evaluateRule(r, reported["Heating"].on)
    <3> DEFINE S == {r.percent : r \in {q \in RulesFor("Heating") :
                         evaluateRule(q, reported["Heating"].on)}}
    <3>1. RuleDemand("Heating") = foldTargetPercent(S)
      BY DEF RuleDemand
    <3>2. S # {}
      <4> HIDE DEF S
      <4>1. S = {} => foldTargetPercent(S) = 0
        BY DEF foldTargetPercent
      <4> QED
        BY <1>3, <3>1, <4>1
    <3> QED
      BY <3>2
  <2>2. r \in c.rules /\ r.fn = "Heating"
    BY <2>1 DEF RulesFor
  <2>3. HeatingStale("Heating") =>
          /\ c.heatingFailSafePolicy = "hold"
          /\ ~runTimeCeilingHit(now, staleSince,
                                MAX_HEATING_SENSOR_STALE_SECONDS)
    BY <2>1, <2>2 DEF evaluateRule
  <2>4. HeatingStale("Heating")
    <3>1. SUFFICES ASSUME ~HeatingStale("Heating")
                   PROVE  FALSE
      OBVIOUS
    <3>2. /\ r.nodes # <<>>
          /\ evaluateNode(r.nodes, 1, reported["Heating"].on, view, now,
                          now + c.utcOffsetSeconds)
      BY <2>1, <2>2, <3>1 DEF evaluateRule
    <3>3. reported["Heating"].on \in BOOLEAN
      <4>1. r \in Rule
        BY <2>2, EntryType DEF TypeOK, DeviceConfig
      <4> QED
        BY <2>2, <4>1 DEF TypeOK, States, Rule
    <3> QED
      BY <1>0, <2>2, <3>2, <3>3 DEF HeatsByTemperature, Blind
  <2> QED
    BY <2>1, <2>3, <2>4
<1> QED
  BY <1>1, <1>2, <1>3

\* So heating decided without a temperature is a hold of the streak.
LEMMA HeatDecided ==
    ASSUME TypeOK, HeatInv, HeatsByTemperature(deviceConfig), BlindTick,
           DecideFunction, FunctionOrder[fn["relay"]] = "Heating",
           pc'["relay"] = "dispatch", UNCHANGED blindTicks
    PROVE  StreakKept' /\ (shouldBeOn' => Holding')
<1> DEFINE S == heatingSensorStaleSinceEpoch
           M == MAX_HEATING_SENSOR_STALE_SECONDS
           hold == deviceConfig.heatingFailSafePolicy = "hold"
           isPid == PidMetrics("Heating") # {}
<1>0. /\ now \in Nat \ {0} /\ S \in Nat /\ blindTicks \in Nat /\ S <= now
      /\ M \in Nat \ {0} /\ UNCHANGED <<now, deviceConfig>>
  BY EpochAssumption
     DEF TypeOK, HeatInv, BlindTick, Time, InCycle, DecideFunction
<1>1. StreakKept
  BY DEF HeatInv
<1>2. /\ \E demand \in IF isPid THEN PidDemands("Heating")
                       ELSE {RuleDemand("Heating")} :
            shouldBeOn' = Decision("Heating", demand)
      /\ RuleSideEffects("Heating", ~isPid)
  <2>1. pc \in [Tasks -> Labels] /\ pc["relay"] = "decide"
    BY DEF TypeOK, DecideFunction
  <2>2. \E e \in Entries(deviceConfig) : e.fn = "Heating"
    BY <2>1 DEF DecideFunction
  <2> QED
    BY <2>2 DEF DecideFunction
<1>3. HeatingStale("Heating") <=>
        deviceConfig.heatingFailSafePolicy # "scheduleOnly"
  BY DEF HeatingStale, BlindTick, Blind
<1>4. staleSince \in Nat \ {0} /\ staleSince <= now
      /\ (blindTicks > 0 /\ deviceConfig.heatingFailSafePolicy # "scheduleOnly"
            => staleSince = S /\ staleSince + blindTicks <= now)
  BY <1>0, <1>1 DEF staleSince, StreakKept, Streak
<1>5. deviceConfig.heatingFailSafePolicy # "scheduleOnly" =>
         S' = S \/ S' = staleSince
  BY <1>2, <1>3 DEF RuleSideEffects
<1>6. StreakKept'
  <2>1. SUFFICES ASSUME blindTicks > 0,
                        deviceConfig.heatingFailSafePolicy # "scheduleOnly"
                 PROVE  S' # 0 /\ S' + blindTicks <= now
    BY <1>0 DEF StreakKept, Streak
  <2> QED
    BY <1>4, <1>5, <2>1
<1>7. ASSUME shouldBeOn'
      PROVE  Holding'
  <2>1. RuleDemand("Heating") > 0 /\ ~isPid
    BY <1>2, <1>7, BlindDemand DEF Decision, HeatInv, BlindTick
  <2>2. /\ RulesFor("Heating") # {} /\ hold
        /\ ~runTimeCeilingHit(now, staleSince, M)
    BY <2>1, BlindDemand DEF HeatInv, BlindTick
  <2>3. S' = staleSince
    BY <1>2, <1>3, <2>1, <2>2 DEF RuleSideEffects
  <2>4. now - staleSince < M
    BY <1>0, <1>4, <2>2 DEF runTimeCeilingHit
  <2>5. staleSince + blindTicks <= now
    BY <1>0, <1>4, <2>2
  <2> QED
    BY <1>0, <1>4, <2>3, <2>4, <2>5 DEF Holding, Streak
<1> QED
  BY <1>6, <1>7

\* A relay without a minimum on-time is off where nothing is asked of it.
LEMMA DrivenIdle ==
    ASSUME NEW e \in RelaySlot, e.kind = "relay", e.minOnSeconds = 0,
           Driven(e), Drives(e), targetPercent = 0, now \in Nat,
           slots[e.slot] \in SlotState,
           slots[e.slot].applied > 0 <=> IsOn(e.slot)
    PROVE  ~IsOn(e.slot)'
<1> DEFINE st == slots[e.slot]
           p == RelayPin(e.slot)
           wantsOn == IF e.proportioningPeriod > 0
                      THEN computeTimeProportioningState(targetPercent,
                               e.proportioningPeriod, now)
                      ELSE targetPercent > 0
           blockedOn == /\ wantsOn /\ ~(st.applied > 0)
                        /\ cooldownActive(now, st.offSince, e.minOffSeconds)
           blockedOff == /\ ~wantsOn /\ st.applied > 0
                         /\ minOnTimeBlocksOff(now, st.onSince,
                                               e.minOnSeconds)
           finalOn == (wantsOn /\ ~blockedOn) \/ blockedOff
           level == IF finalOn THEN 100 ELSE 0
<1>1. ~wantsOn
  <2>1. ASSUME e.proportioningPeriod > 0
        PROVE  ~computeTimeProportioningState(0, e.proportioningPeriod, now)
    <3>1. e.proportioningPeriod \in Nat \ {0}
      BY <2>1 DEF RelaySlot
    <3>2. (e.proportioningPeriod * 0) \div 100 = 0
      BY <3>1
    <3>3. now % e.proportioningPeriod >= 0
      BY <3>1
    <3> QED
      BY <3>1, <3>2, <3>3 DEF computeTimeProportioningState, clamp
  <2> QED
    BY <2>1
<1>2. ~finalOn
  BY <1>1 DEF minOnTimeBlocksOff
<1>3. Outcomes(e) =
        Outcome(st, level, IF st.dispatched = 0 \/ finalOn # (st.applied > 0)
                           THEN [q \in OutputPins(e) |-> level]
                           ELSE [q \in OutputPins(e) |-> pin[q]])
  BY DEF Outcomes, Dispatched, DispatchRelay
<1>4. p \in OutputPins(e)
  BY DEF OutputPins, RelayPin
<1> HIDE DEF finalOn
<1>5. Outcomes(e).levels[p] =
        IF st.dispatched = 0 \/ finalOn # (st.applied > 0) THEN 0 ELSE pin[p]
  BY <1>2, <1>3, <1>4 DEF Outcome
<1>6. pin'[p] = Outcomes(e).levels[p]
  BY <1>4 DEF Drives, UsedSlots
<1>7. CASE st.dispatched = 0 \/ finalOn # (st.applied > 0)
  <2>1. pin'[p] = 0
    BY <1>5, <1>6, <1>7
  <2> QED
    BY <2>1 DEF IsOn
<1>8. CASE ~(st.dispatched = 0 \/ finalOn # (st.applied > 0))
  <2>1. pin'[p] = pin[p] /\ ~(st.applied > 0)
    BY <1>2, <1>5, <1>6, <1>8
  <2> QED
    BY <2>1 DEF IsOn
<1> QED
  BY <1>7, <1>8

\* The streak and the hold read the tick's own state only.
LEMMA HeldSame ==
    ASSUME UNCHANGED <<heatingSensorStaleSinceEpoch, blindTicks, now,
                       deviceConfig>>
    PROVE  (StreakKept' <=> StreakKept) /\ (Holding' <=> Holding)
BY DEF StreakKept, Holding, Streak

\* A heater's dispatch leaves it on only if heating was decided on.
LEMMA HeatDispatched ==
    ASSUME TypeOK, Separate(deviceConfig), HeatsByTemperature(deviceConfig),
           Deciding,
           \A e \in Entries(deviceConfig) : Plainly(e) => EntryKept(e),
           DispatchSlot, HeldDecided, HeldDispatch, UNCHANGED blindTicks
    PROVE  HeldDecided' /\ HeldDispatch'
<1>1. /\ pc["relay"] = "dispatch" /\ entry' = entry + 1
      /\ UNCHANGED <<deviceConfig, pc, fn, now, shouldBeOn, targetPercent,
                     heatingSensorStaleSinceEpoch>>
  BY DEF DispatchSlot
<1>2. TickTypes
  BY TickTyped
<1>3. Holding' <=> Holding
  BY <1>1, HeldSame
<1>4. HeldDecided'
  <2>1. SUFFICES ASSUME Decided("Heating"), HeaterOn'
                 PROVE  HeaterOn
    BY <1>1, <1>3 DEF HeldDecided, Decided
  <2>2. PICK d \in Entries(deviceConfig) : Heater(d) /\ IsOn(d.slot)'
    BY <1>1, <2>1 DEF HeaterOn, Heater
  <2>3. IsOn(d.slot)' = IsOn(d.slot)
    BY <1>1, <2>1, <2>2, DispatchOthers DEF Decided, Heater
  <2> QED
    BY <2>2, <2>3 DEF HeaterOn, Heater
<1>5. HeldDispatch'
  <2>1. SUFFICES ASSUME FunctionOrder[fn["relay"]] = "Heating",
                        NEW i \in DOMAIN deviceConfig.relays, i < entry + 1,
                        NEW d, d = deviceConfig.relays[i], Heater(d),
                        IsOn(d.slot)'
                 PROVE  shouldBeOn
    <3>1. FunctionOrder[fn["relay"]] = "Heating" =>
             (shouldBeOn => Holding)
      BY <1>1 DEF HeldDispatch
    <3> QED
      BY <1>1, <1>3, <3>1 DEF HeldDispatch
  <2>2. d \in Entries(deviceConfig) /\ d.kind = "relay" /\ d.fn = "Heating"
        /\ d \in RelaySlot
    BY <1>2, <2>1, EntryType DEF Entries, Heater, TickTypes
  <2>3. EntryKept(d) /\ d.minOnSeconds = 0
    BY <2>2 DEF Plainly, HeatsByTemperature
  <2>4. CASE d = deviceConfig.relays[entry]
    <3>1. CASE Driven(d)
      <4>1. Drives(d)
        BY <2>1, <2>2, <2>4, <3>1, DispatchDrives
      <4>2. slots[d.slot].applied > 0 <=> IsOn(d.slot)
        BY <2>2, <2>3, <3>1 DEF EntryKept, MinInv
      <4>3. slots[d.slot] \in SlotState /\ now \in Nat
        BY <2>2 DEF TypeOK, RelaySlot
      <4>4. targetPercent # 0
        BY <2>1, <2>2, <2>3, <3>1, <4>1, <4>2, <4>3, DrivenIdle
      <4>5. targetPercent > 0
        BY <1>2, <4>4 DEF TickTypes, Percent
      <4> QED
        BY <1>1, <4>5 DEF Deciding
    <3>2. CASE ~Driven(d)
      <4>1. ~IsOn(d.slot)
        BY <2>3, <3>2 DEF EntryKept, NotWired, UsedSlots
      <4>2. UNCHANGED pin
        BY <2>1, <2>2, <2>4, <3>2 DEF DispatchSlot, Driven
      <4> QED
        BY <2>1, <4>1, <4>2 DEF IsOn
    <3> QED
      BY <3>1, <3>2
  <2>5. CASE d # deviceConfig.relays[entry]
    <3>1. i \in Nat /\ entry \in Nat
      <4>1. deviceConfig.relays \in Seq(RelaySlot)
        BY <1>2, EntryType DEF TickTypes, DeviceConfig
      <4> QED
        BY <1>2, <4>1 DEF TickTypes
    <3>2. i < entry
      BY <2>1, <2>5, <3>1
    <3>3. IsOn(d.slot)' = IsOn(d.slot)
      BY <2>2, <2>5, DispatchOthers
    <3> QED
      BY <1>1, <2>1, <3>2, <3>3 DEF HeldDispatch
  <2> QED
    BY <2>4, <2>5
<1> QED
  BY <1>4, <1>5

\* A step that dispatches nothing switches no heater on.
LEMMA HeatersStay ==
    ASSUME EntriesInv, [Next]_vars, Separate(deviceConfig),
           UNCHANGED deviceConfig,
           ~(pc["relay"] = "dispatch" /\ UNCHANGED pc), HeaterOn'
    PROVE  HeaterOn
<1>1. PICK e \in Entries(deviceConfig) : Heater(e) /\ IsOn(e.slot)'
  BY DEF HeaterOn, Heater
<1>2. Plainly(e) /\ e.slot \in UsedSlots(e)
  BY <1>1 DEF Plainly, Heater, UsedSlots
<1>3. Stays(e) \/ PutToRest(e)
  BY <1>2, StepOfEntry DEF EntriesInv, Drives
<1>4. IsOn(e.slot)
  BY <1>1, <1>2, <1>3 DEF Stays, PutToRest, IsOn
<1> QED
  BY <1>1, <1>4 DEF HeaterOn, Heater

\* When every heater has been dispatched, heating has been decided.
LEMMA HeatRecorded ==
    ASSUME TypeOK, TickInv, RecordFunction, HeldDecided, HeldDispatch,
           UNCHANGED blindTicks
    PROVE  HeldDecided' /\ HeldDispatch'
<1>1. TickTypes
  BY TickTyped
<1>2. /\ pc["relay"] = "dispatch" /\ pc'["relay"] = "decide"
      /\ fn'["relay"] = fn["relay"] + 1
      /\ entry > Len(deviceConfig.relays)
      /\ UNCHANGED <<deviceConfig, pin, now, heatingSensorStaleSinceEpoch>>
  BY <1>1 DEF RecordFunction, Goto, Tasks, TickTypes
<1>3. (HeaterOn' <=> HeaterOn) /\ (Holding' <=> Holding)
  BY <1>2, HeldSame DEF HeaterOn, IsOn
<1>4. SUFFICES ASSUME Decided("Heating")', HeaterOn
               PROVE  Holding
  BY <1>2, <1>3 DEF HeldDecided, HeldDispatch
<1>5. CASE FunctionOrder[fn["relay"]] = "Heating"
  <2>1. PICK i \in DOMAIN deviceConfig.relays :
                Heater(deviceConfig.relays[i])
                /\ IsOn(deviceConfig.relays[i].slot)
    BY <1>4 DEF HeaterOn, Heater, Entries
  <2>2. i < entry
    <3>1. deviceConfig.relays \in Seq(RelaySlot)
      BY <1>1, EntryType DEF TickTypes, DeviceConfig
    <3>2. i \in 1..Len(deviceConfig.relays) /\ entry \in Nat
          /\ Len(deviceConfig.relays) \in Nat
      BY <1>1, <3>1 DEF TickTypes
    <3> QED
      BY <1>2, <3>2
  <2> QED
    BY <1>2, <1>5, <2>1, <2>2 DEF HeldDispatch
<1>6. CASE FunctionOrder[fn["relay"]] # "Heating"
  <2>1. PICK i \in DOMAIN FunctionOrder :
                FunctionOrder[i] = "Heating" /\ i < fn["relay"] + 1
    BY <1>2, <1>4 DEF Decided
  <2>2. i < fn["relay"]
    <3>1. i \in Nat /\ fn["relay"] \in Nat /\ i # fn["relay"]
      BY <1>1, <1>6, <2>1 DEF TickTypes, Tasks
    <3> QED
      BY <2>1, <3>1
  <2>3. Decided("Heating")
    BY <1>2, <1>6, <2>1, <2>2 DEF Decided
  <2> QED
    BY <1>4, <2>3 DEF HeldDecided
<1> QED
  BY <1>5, <1>6

\* A decision, of heating or of another function, keeps the hold bounded.
LEMMA HeatDecides ==
    ASSUME TypeOK, EntryInv, HeatInv, HeatsByTemperature(deviceConfig),
           BlindTick, DecideFunction, UNCHANGED blindTicks
    PROVE  StreakKept' /\ HeldDecided' /\ HeldDispatch'
<1> DEFINE f == FunctionOrder[fn["relay"]]
           assigned == \E e \in Entries(deviceConfig) : e.fn = f
<1>1. TickTypes
  BY TickTyped
<1>2. /\ pc["relay"] = "decide" /\ entry = 1
      /\ UNCHANGED <<deviceConfig, pin, now, entry>>
      /\ \/ assigned /\ pc'["relay"] = "dispatch" /\ fn' = fn
         \/ /\ ~assigned /\ pc' = pc /\ fn'["relay"] = fn["relay"] + 1
            /\ UNCHANGED heatingSensorStaleSinceEpoch
  BY <1>1 DEF DecideFunction, EntryInv, Goto, Tasks, TickTypes
<1>3. HeaterOn' <=> HeaterOn
  BY <1>2 DEF HeaterOn, IsOn
<1>4. StreakKept /\ HeldDecided
  BY DEF HeatInv
<1>5. CASE assigned /\ f = "Heating"
  <2>1. pc'["relay"] = "dispatch" /\ fn' = fn
    BY <1>2, <1>5
  <2>2. StreakKept' /\ (shouldBeOn' => Holding')
    BY <1>5, <2>1, HeatDecided
  <2>3. HeldDecided'
    BY <1>5, <2>1 DEF HeldDecided, Decided
  <2>4. \A i \in DOMAIN deviceConfig.relays : ~(i < entry)
    <3>1. deviceConfig.relays \in Seq(RelaySlot)
      BY <1>1, EntryType DEF TickTypes, DeviceConfig
    <3> QED
      BY <1>2, <3>1
  <2> QED
    BY <1>2, <2>2, <2>3, <2>4 DEF HeldDispatch
<1>6. CASE assigned /\ f # "Heating"
  <2>1. UNCHANGED heatingSensorStaleSinceEpoch
    BY <1>6 DEF DecideFunction, RuleSideEffects
  <2>2. pc'["relay"] = "dispatch" /\ fn' = fn
    BY <1>2, <1>6
  <2>3. (StreakKept' <=> StreakKept) /\ (Holding' <=> Holding)
    BY <1>2, <2>1, HeldSame
  <2>4. Decided("Heating")' => Decided("Heating")
    BY <1>2, <2>2 DEF Decided
  <2> QED
    BY <1>3, <1>4, <1>6, <2>2, <2>3, <2>4 DEF HeldDecided, HeldDispatch
<1>7. CASE ~assigned
  <2>1. /\ UNCHANGED heatingSensorStaleSinceEpoch /\ pc' = pc
        /\ fn'["relay"] = fn["relay"] + 1
    BY <1>2, <1>7
  <2>2. (StreakKept' <=> StreakKept) /\ (Holding' <=> Holding)
    BY <1>2, <2>1, HeldSame
  <2>3. Decided("Heating")' /\ HeaterOn => Decided("Heating")
    <3>1. SUFFICES ASSUME Decided("Heating")', HeaterOn
                   PROVE  Decided("Heating")
      OBVIOUS
    <3>2. f # "Heating"
      BY <1>7, <3>1 DEF HeaterOn
    <3>3. PICK i \in DOMAIN FunctionOrder :
                  FunctionOrder[i] = "Heating" /\ i < fn["relay"] + 1
      BY <1>2, <2>1, <3>1 DEF Decided
    <3>4. i \in Nat /\ fn["relay"] \in Nat /\ i # fn["relay"]
      BY <1>1, <3>2, <3>3 DEF TickTypes, Tasks
    <3>5. i < fn["relay"]
      BY <3>3, <3>4
    <3> QED
      BY <1>2, <3>3, <3>5 DEF Decided
  <2> QED
    BY <1>2, <1>3, <1>4, <2>1, <2>2, <2>3 DEF HeldDecided, HeldDispatch
<1> QED
  BY <1>5, <1>6, <1>7

\* What a step inside a tick leaves alone.
LEMMA TickFrame ==
    ASSUME TypeOK, Alone, [Next]_vars, pc["relay"] \in InTick, ~FinishTick
    PROVE  /\ UNCHANGED <<deviceConfig, now, view>> /\ pc'["relay"] \in InTick
           /\ ~DecideFunction => UNCHANGED heatingSensorStaleSinceEpoch
<1> USE DEF Goto, Tasks
<1>0. pc \in [Tasks -> Labels]
  BY DEF TypeOK
<1>1. CASE RelayTask
  BY <1>0, <1>1
     DEF InTick, RelayTask, RelayCheckEnabled, RelaySnapshotGet,
         InitController, DecideFunction, DispatchSlot, RecordFunction,
         BeginSafetyPass, PumpWrite, ApplyWaterPumpSafetyLimits, RelayDelay,
         ForceAllRelaysOff, RecordOff, FinishForcedOff, tickVars,
         controllerVars
<1>2. CASE LoopTask \/ SetClock \/ UNCHANGED vars
  <2>1. UNCHANGED deviceConfig /\ pc'["relay"] = pc["relay"]
    BY <1>2, TickAlone
  <2>2. UNCHANGED <<now, view, heatingSensorStaleSinceEpoch>>
    BY <1>2
       DEF LoopTask, ApiConfigCommit, ApiConfigUnchanged, LoopBody,
           ConsumeSafetyLimitEvent, ConsumeSensorStaleEvent,
           ConsumeControllerDataChanges, PushControllerData,
           ServerAppliesChange, PublishSnapshot, LoopDelay,
           ForceAllRelaysOff, RecordOff, FinishForcedOff, SetClock, vars,
           controllerVars, tickVars
  <2> QED
    BY <2>1, <2>2
<1> QED
  BY <1>1, <1>2 DEF Next

\* The facts the step lemmas share
HeatFacts ==
    /\ EntriesInv /\ EntryInv /\ ReportInv /\ HeatInv
    /\ Separate(deviceConfig) /\ HeatsByTemperature(deviceConfig)

\* A step inside a tick that does not end it
LEMMA HeatInside ==
    ASSUME ForwardClock, HeatFacts, [Next]_vars, pc["relay"] \in InTick,
           ~FinishTick, UNCHANGED blindTicks
    PROVE  HeatInv'
<1>0. /\ TypeOK /\ TickInv /\ Alone /\ Deciding /\ HeatInv /\ EntryInv
      /\ \A e \in Entries(deviceConfig) : Plainly(e) => EntryKept(e)
      /\ Separate(deviceConfig) /\ HeatsByTemperature(deviceConfig)
  BY DEF HeatFacts, EntriesInv, ReportInv
<1>1. /\ UNCHANGED <<deviceConfig, now, view>> /\ pc'["relay"] \in InTick
      /\ ~DecideFunction => UNCHANGED heatingSensorStaleSinceEpoch
  BY <1>0, TickFrame
<1>2. ClockInv' /\ ViewInv'
  BY <1>0, StepClock, StepView DEF HeatInv
<1>3. StreakInv'
  BY <1>1 DEF StreakInv
<1>4. heatingSensorStaleSinceEpoch' <= Time'
  <2>1. Time = now /\ Time' = now
    BY <1>1 DEF Time, InCycle
  <2>2. heatingSensorStaleSinceEpoch'
           \in {heatingSensorStaleSinceEpoch, now, 0}
    BY <1>1 DEF DecideFunction, RuleSideEffects, staleSince
  <2> QED
    BY <1>0, <2>1, <2>2 DEF HeatInv, TypeOK
<1>5. ASSUME BlindTick'
      PROVE  StreakKept' /\ HeldDecided' /\ HeldDispatch'
  <2>1. BlindTick
    BY <1>1, <1>5 DEF BlindTick, Blind
  <2>2. StreakKept /\ HeldDecided /\ HeldDispatch
    BY <1>0, <2>1 DEF HeatInv
  <2>3. CASE DecideFunction
    BY <1>0, <2>1, <2>3, HeatDecides
  <2>4. ASSUME ~DecideFunction
        PROVE  (StreakKept' <=> StreakKept) /\ (Holding' <=> Holding)
    BY <1>1, <2>4, HeldSame
  <2>5. CASE DispatchSlot
    <3>1. ~DecideFunction
      BY <2>5 DEF DispatchSlot, DecideFunction
    <3> QED
      BY <1>0, <2>2, <2>4, <2>5, <3>1, HeatDispatched
  <2>6. CASE RecordFunction
    <3>1. ~DecideFunction
      BY <2>6 DEF RecordFunction, DecideFunction
    <3> QED
      BY <1>0, <2>2, <2>4, <2>6, <3>1, HeatRecorded
  <2>7. CASE BeginSafetyPass \/ PumpWrite \/ ApplyWaterPumpSafetyLimits
    <3>1. /\ pc["relay"] # "dispatch"
          /\ pc'["relay"] \in {"pumpWrite", "pumpLimits"}
          /\ \/ pc["relay"] \in {"pumpWrite", "pumpLimits"}
             \/ /\ pc["relay"] = "decide"
                /\ fn["relay"] > Len(FunctionOrder)
      BY <1>0, <2>7
         DEF TypeOK, BeginSafetyPass, PumpWrite, ApplyWaterPumpSafetyLimits,
             Goto, Tasks
    <3>2. ~DecideFunction
      BY <1>0, <3>1, TickTyped DEF DecideFunction, TickTypes, Tasks
    <3>3. Decided("Heating")' => Decided("Heating")
      <4>1. pc["relay"] = "decide" =>
               \A i \in DOMAIN FunctionOrder : i < fn["relay"]
        BY <1>0, <3>1, TickTyped DEF TickTypes, Tasks
      <4> QED
        BY <3>1, <4>1 DEF Decided
    <3>4. HeaterOn' => HeaterOn
      BY <1>0, <1>1, <3>1, HeatersStay DEF HeatFacts
    <3> QED
      BY <2>2, <2>4, <3>1, <3>2, <3>3, <3>4 DEF HeldDecided, HeldDispatch
  <2>8. CASE LoopTask \/ SetClock \/ UNCHANGED vars
    <3>1. /\ UNCHANGED <<deviceConfig, pin, entry, shouldBeOn>>
          /\ pc'["relay"] = pc["relay"] /\ fn'["relay"] = fn["relay"]
      BY <1>0, <2>8, TickAlone
    <3>2. UNCHANGED heatingSensorStaleSinceEpoch
      BY <2>8
         DEF LoopTask, ApiConfigCommit, ApiConfigUnchanged, LoopBody,
             ConsumeSafetyLimitEvent, ConsumeSensorStaleEvent,
             ConsumeControllerDataChanges, PushControllerData,
             ServerAppliesChange, PublishSnapshot, LoopDelay,
             ForceAllRelaysOff, RecordOff, FinishForcedOff, SetClock, vars,
             controllerVars
    <3>3. (StreakKept' <=> StreakKept) /\ (Holding' <=> Holding)
      BY <1>1, <3>2, HeldSame
    <3>4. HeaterOn' <=> HeaterOn
      BY <3>1 DEF HeaterOn, IsOn
    <3>5. Decided("Heating")' <=> Decided("Heating")
      BY <3>1 DEF Decided
    <3> QED
      BY <2>2, <3>1, <3>3, <3>4, <3>5 DEF HeldDecided, HeldDispatch, IsOn
  <2>9. ~(\/ RelayCheckEnabled \/ RelaySnapshotGet \/ InitController
          \/ RelayDelay \/ ForceAllRelaysOff("relay") \/ RecordOff("relay")
          \/ FinishForcedOff("relay"))
    BY DEF InTick, RelayCheckEnabled, RelaySnapshotGet, InitController,
           RelayDelay, ForceAllRelaysOff, RecordOff, FinishForcedOff
  <2> QED
    BY <2>3, <2>5, <2>6, <2>7, <2>8, <2>9 DEF Next, RelayTask
<1> QED
  BY <1>0, <1>2, <1>3, <1>4, <1>5 DEF HeatInv

\* The tick that ends adds to the count only what the hold has room for.
LEMMA HeatFinish ==
    ASSUME ForwardClock, HeatFacts, FinishTick, HistoryStep
    PROVE  HeatInv'
<1> DEFINE S == heatingSensorStaleSinceEpoch
           M == MAX_HEATING_SENSOR_STALE_SECONDS
<1>0. /\ TypeOK /\ HeatInv /\ [Next]_vars
  BY DEF HeatFacts, EntriesInv, Next, RelayTask
<1>1. /\ pc["relay"] = "pumpWrite" /\ pc'["relay"] = "sleep" /\ TickEnds
      /\ UNCHANGED <<epoch, heatingSensorStaleSinceEpoch>>
  BY <1>0 DEF FinishTick, TypeOK, Goto, Tasks, TickEnds
<1>2. /\ epoch \in Nat /\ now \in Nat /\ S \in Nat /\ M \in Nat \ {0}
      /\ MaxEpoch \in Nat /\ blindTicks \in 0..M /\ now <= epoch /\ S <= now
  BY <1>0, <1>1, EpochAssumption
     DEF TypeOK, HeatInv, ClockInv, Time, InCycle, InTick
<1>3. ClockInv' /\ ViewInv'
  BY <1>0, StepClock, StepView DEF HeatInv
<1>4. blindTicks' = IF now >= MaxEpoch THEN blindTicks
                    ELSE IF Blind /\ HeaterOn THEN Capped(blindTicks) ELSE 0
  BY <1>1 DEF HistoryStep, Blind
<1>5. Capped(blindTicks) \in {blindTicks, blindTicks + 1}
  BY <1>2, HistoryAssumption DEF Capped
<1>6. ASSUME now < MaxEpoch, Blind, HeaterOn
      PROVE  /\ S # 0 /\ S + blindTicks <= now /\ now - S < M
  <2>1. Decided("Heating")
    <3>1. PICK e \in Entries(deviceConfig) : e.fn = "Heating"
      BY <1>6 DEF HeaterOn
    <3>2. "Heating" \in Functions
      BY <1>0, <3>1, EntryType DEF TypeOK, RelaySlot
    <3> QED
      BY <1>1, <3>2 DEF Decided, Functions
  <2> QED
    BY <1>0, <1>1, <1>6, <2>1
       DEF HeatInv, BlindTick, InTick, HeldDecided, Holding, Streak
<1>7. blindTicks' \in 0..M
  BY <1>2, <1>4, <1>5, <1>6
<1>8. Time' = epoch /\ S' = S
  BY <1>1 DEF Time, InCycle, InTick
<1>9. StreakInv'
  <2>1. SUFFICES ASSUME epoch < MaxEpoch, blindTicks' > 0
                 PROVE  S # 0 /\ S + blindTicks' <= epoch + 1
    BY <1>1, <1>8 DEF StreakInv, Streak
  <2>2. now < MaxEpoch /\ Blind /\ HeaterOn
    BY <1>2, <1>4, <2>1
  <2> QED
    BY <1>2, <1>4, <1>5, <1>6, <2>2
<1>10. ~BlindTick'
  BY <1>1 DEF BlindTick, InTick
<1> QED
  BY <1>2, <1>3, <1>7, <1>8, <1>9, <1>10 DEF HeatInv

\* A step outside a tick, up to the lock
LEMMA HeatOutside ==
    ASSUME ForwardClock, HeatFacts, [Next]_vars, pc["relay"] \notin InTick,
           UNCHANGED blindTicks
    PROVE  HeatInv'
<1> USE DEF Goto, Tasks
<1> DEFINE S == heatingSensorStaleSinceEpoch
<1>0. TypeOK /\ HeatInv /\ FromFirst /\ pc \in [Tasks -> Labels]
  BY DEF HeatFacts, EntriesInv, ReportInv, TypeOK
<1>1. ClockInv' /\ ViewInv' /\ Time <= Time'
  BY <1>0, StepClock, StepView DEF HeatInv
<1>2. UNCHANGED S
  <2>1. CASE RelayTask
    BY <2>1
       DEF InTick, RelayTask, RelayCheckEnabled, RelaySnapshotGet,
           InitController, DecideFunction, DispatchSlot, RecordFunction,
           BeginSafetyPass, PumpWrite, ApplyWaterPumpSafetyLimits,
           FinishTick, RelayDelay, ForceAllRelaysOff, RecordOff,
           FinishForcedOff, controllerVars
  <2>2. CASE LoopTask \/ SetClock \/ UNCHANGED vars
    BY <2>2
       DEF LoopTask, ApiConfigCommit, ApiConfigUnchanged, LoopBody,
           ConsumeSafetyLimitEvent, ConsumeSensorStaleEvent,
           ConsumeControllerDataChanges, PushControllerData,
           ServerAppliesChange, PublishSnapshot, LoopDelay,
           ForceAllRelaysOff, RecordOff, FinishForcedOff, SetClock, vars,
           controllerVars
  <2> QED
    BY <2>1, <2>2 DEF Next
<1>3. /\ S \in Nat /\ S <= Time /\ Time \in Nat /\ Time' \in Nat
      /\ MaxEpoch \in Nat
      /\ blindTicks \in 0..MAX_HEATING_SENSOR_STALE_SECONDS
      /\ MAX_HEATING_SENSOR_STALE_SECONDS \in Nat
  <2>1. TypeOK'
    BY StepType DEF HeatFacts, EntriesInv
  <2> QED
    BY <1>0, <2>1, EpochAssumption DEF HeatInv, TypeOK, Time
<1>4. CASE pc'["relay"] \in InTick
  <2>1. /\ pc["relay"] = "begin" /\ pc'["relay"] = "decide"
        /\ UNCHANGED <<now, deviceConfig>> /\ fn'["relay"] = fn["relay"]
    <3>1. CASE InitController
      BY <1>0, <1>4, <3>1 DEF InitController, InTick, tickVars
    <3>2. CASE RelayTask /\ ~InitController
      BY <1>0, <1>4, <3>2
         DEF InTick, RelayTask, RelayCheckEnabled, RelaySnapshotGet,
             DecideFunction, DispatchSlot, RecordFunction, BeginSafetyPass,
             PumpWrite, ApplyWaterPumpSafetyLimits, FinishTick, RelayDelay,
             ForceAllRelaysOff, RecordOff, FinishForcedOff
    <3>3. CASE LoopTask \/ SetClock \/ UNCHANGED vars
      <4>1. pc'["relay"] = pc["relay"]
        BY <1>0, <3>3
           DEF LoopTask, ApiConfigCommit, ApiConfigUnchanged, LoopBody,
               ConsumeSafetyLimitEvent, ConsumeSensorStaleEvent,
               ConsumeControllerDataChanges, PushControllerData,
               ServerAppliesChange, PublishSnapshot, LoopDelay,
               ForceAllRelaysOff, RecordOff, FinishForcedOff, SetClock, vars
      <4> QED
        BY <1>4, <4>1
    <3> QED
      BY <3>1, <3>2, <3>3 DEF Next
  <2>2. Time = now /\ fn'["relay"] = 1
    BY <1>0, <2>1 DEF Time, InCycle, FromFirst
  <2>3. ~Decided("Heating")'
    <3>1. \A i \in DOMAIN FunctionOrder : ~(i < 1)
      BY SizeAssumption
    <3> QED
      BY <2>1, <2>2, <3>1 DEF Decided
  <2>4. BlindTick' => StreakKept'
    <3>1. SUFFICES ASSUME now < MaxEpoch, blindTicks > 0
                   PROVE  Streak(now)
      BY <1>2, <2>1 DEF BlindTick, StreakKept, Streak
    <3>2. Streak(Time + 0)
      BY <1>0, <2>1, <2>2, <3>1 DEF HeatInv, StreakInv, InTick
    <3> QED
      BY <1>3, <2>2, <3>2
  <2>5. StreakInv' /\ HeldDecided' /\ HeldDispatch'
    BY <1>4, <2>1, <2>3 DEF StreakInv, HeldDecided, HeldDispatch
  <2> QED
    BY <1>1, <1>2, <1>3, <2>4, <2>5 DEF HeatInv
<1>5. CASE pc'["relay"] \notin InTick
  <2>1. ~BlindTick'
    BY <1>5 DEF BlindTick
  <2>2. StreakInv'
    <3>1. SUFFICES ASSUME Time' < MaxEpoch, blindTicks > 0
                   PROVE  Streak(Time'
                             + IF pc'["relay"] = "sleep" THEN 1 ELSE 0)
      BY <1>2 DEF StreakInv, Streak
    <3>2. Streak(Time + IF pc["relay"] = "sleep" THEN 1 ELSE 0)
      BY <1>0, <1>1, <1>3, <3>1 DEF HeatInv, StreakInv
    <3>3. CASE pc["relay"] # "sleep" \/ pc'["relay"] = "sleep"
      <4> DEFINE m == IF pc["relay"] = "sleep" THEN 1 ELSE 0
                 n == IF pc'["relay"] = "sleep" THEN 1 ELSE 0
      <4>1. m \in Nat /\ n \in Nat /\ m <= n
        <5>1. CASE pc["relay"] # "sleep"
          BY <5>1
        <5>2. CASE pc'["relay"] = "sleep"
          BY <5>2
        <5> QED
          BY <3>3, <5>1, <5>2
      <4>2. Streak(Time + m)
        BY <3>2
      <4>3. Time <= Time' /\ blindTicks \in Nat
        BY <1>1, <1>3
      <4> HIDE DEF m, n
      <4>4. Streak(Time' + n)
        <5>1. S # 0 /\ S + blindTicks <= Time + m
          BY <4>2 DEF Streak
        <5>2. S + blindTicks \in Nat
          BY <1>3, <4>3
        <5>3. \A k, a, b, p, q \in Nat :
                (k <= a + p /\ a <= b /\ p <= q) => k <= b + q
          OBVIOUS
        <5>4. Time \in Nat /\ Time' \in Nat
          BY <1>3
        <5>5. S + blindTicks <= Time' + n
          BY <4>1, <4>3, <5>1, <5>2, <5>3, <5>4
        <5> QED
          BY <5>1, <5>5 DEF Streak
      <4> QED
        BY <4>4 DEF n
    <3>4. CASE pc["relay"] = "sleep" /\ pc'["relay"] # "sleep"
      <4>1. CASE RelayDelay
        <5>1. /\ pc'["relay"] = "check"
              /\ epoch' = IF epoch < MaxEpoch THEN epoch + 1 ELSE epoch
          BY <1>0, <4>1 DEF RelayDelay
        <5>2. Time = epoch /\ Time' = epoch'
          BY <3>4, <5>1 DEF Time, InCycle, InTick
        <5>3. Time' = Time + 1
          BY <1>3, <3>1, <5>1, <5>2
        <5> QED
          BY <1>3, <3>2, <3>4, <5>3 DEF Streak
      <4>2. CASE RelayTask /\ ~RelayDelay
        BY <3>4, <4>2
           DEF RelayTask, RelayCheckEnabled, RelaySnapshotGet,
               InitController, DecideFunction, DispatchSlot, RecordFunction,
               BeginSafetyPass, PumpWrite, ApplyWaterPumpSafetyLimits,
               FinishTick, ForceAllRelaysOff, RecordOff, FinishForcedOff
      <4>3. CASE LoopTask \/ SetClock \/ UNCHANGED vars
        <5>1. pc'["relay"] = pc["relay"]
          BY <1>0, <4>3
             DEF LoopTask, ApiConfigCommit, ApiConfigUnchanged, LoopBody,
                 ConsumeSafetyLimitEvent, ConsumeSensorStaleEvent,
                 ConsumeControllerDataChanges, PushControllerData,
                 ServerAppliesChange, PublishSnapshot, LoopDelay,
                 ForceAllRelaysOff, RecordOff, FinishForcedOff, SetClock,
                 vars
        <5> QED
          BY <3>4, <5>1
      <4> QED
        BY <4>1, <4>2, <4>3 DEF Next
    <3> QED
      BY <3>3, <3>4
  <2> QED
    BY <1>1, <1>2, <1>3, <2>1, <2>2 DEF HeatInv
<1> QED
  BY <1>4, <1>5

\* In one installation whose entries share no output and whose heaters need
\* the temperature, a heater is on without one for no more than
\* MAX_HEATING_SENSOR_STALE_SECONDS ticks, whatever becomes of the sensor,
\* the fail-safe policies and the forced-off periods in between, if the
\* clock is not set back (evaluateRule).
THEOREM HeatingBounded ==
    ASSUME ForwardClock,
           \A c \in Configs : Separate(c) /\ HeatsByTemperature(c)
    PROVE  InstallationSpec => []HeatingHoldBounded
<1> DEFINE Inv == EntriesInv /\ EntryInv /\ ReportInv /\ HeatInv
<1>1. HInit => Inv
  <2> SUFFICES ASSUME HInit
               PROVE  Inv
    OBVIOUS
  <2>1. EntriesInv /\ EntryInv
    BY InitEntries, InitPumps DEF PumpsInv
  <2>2. /\ pc["relay"] = "check" /\ pc["loop"] = "config"
        /\ fn["relay"] = 1
    BY DEF HInit, Init, Tasks
  <2>3. ReportInv
    BY <2>2 DEF ReportInv, Alone, FromFirst, Recorded, Deciding, Judged,
                Critical, InTick
  <2>4. HeatInv
    <3>1. /\ epoch = BootEpoch /\ now = BootEpoch /\ blindTicks = 0
          /\ heatingSensorStaleSinceEpoch = 0
          /\ snapshot = NoReading /\ reading = NoReading /\ view = NoReading
      BY DEF HInit, Init
    <3> QED
      BY <2>2, <3>1, EpochAssumption
         DEF HeatInv, ClockInv, ViewInv, StreakInv, BlindTick, Time, InCycle,
             InTick
  <2> QED
    BY <2>1, <2>3, <2>4
<1>2. Inv /\ [InstallationNext]_hvars => Inv'
  <2> SUFFICES ASSUME Inv, [InstallationNext]_hvars
               PROVE  Inv'
    OBVIOUS
  <2>1. [Next]_vars
    BY DEF InstallationNext, HNext, hvars
  <2>2. TypeOK /\ TickInv /\ HeatFacts
    BY DEF EntriesInv, TypeOK, HeatFacts
  <2>3. EntriesInv'
    BY StepEntries
  <2>4. EntryInv' /\ ReportInv'
    BY <2>1, <2>2, StepEntry, StepReports DEF HeatFacts
  <2>5. CASE FinishTick
    <3>1. HistoryStep
      <4>1. pc'["relay"] # pc["relay"]
        BY <2>2, <2>5 DEF FinishTick, TypeOK, Goto, Tasks
      <4>2. ~UNCHANGED hvars
        BY <4>1 DEF hvars, vars
      <4> QED
        BY <4>2 DEF InstallationNext, HNext
    <3> QED
      BY <2>2, <2>3, <2>4, <2>5, <3>1, HeatFinish
  <2>6. CASE ~FinishTick
    <3>1. UNCHANGED blindTicks
      <4>1. CASE UNCHANGED hvars
        BY <4>1 DEF hvars, history
      <4>2. CASE InstallationNext
        <5>1. pc["relay"] \in InTick => pc'["relay"] \in InTick
          BY <2>1, <2>2, <2>6, TickFrame DEF HeatFacts, ReportInv
        <5>2. ~TickEnds
          BY <5>1 DEF TickEnds, InTick
        <5> QED
          BY <4>2, <5>2 DEF InstallationNext, HNext, HistoryStep
      <4> QED
        BY <4>1, <4>2
    <3>2. HeatInv'
      BY <2>1, <2>2, <2>6, <3>1, HeatInside, HeatOutside
    <3> QED
      BY <2>3, <2>4, <3>2
  <2> QED
    BY <2>5, <2>6
<1>3. Inv => HeatingHoldBounded
  BY EpochAssumption DEF HeatInv, HeatingHoldBounded
<1> QED
  BY <1>1, <1>2, <1>3, PTL DEF InstallationSpec

=============================================================================
