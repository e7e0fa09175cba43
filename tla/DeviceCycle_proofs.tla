------------------------- MODULE DeviceCycle_proofs -------------------------
(***************************************************************************)
(* Proofs about DeviceCycle: the device keeps to NetworkTask, so what is   *)
(* proved there holds of it; and no answer that comes back without WiFi is *)
(* taken for a delivery, because of two waits of one length the one that   *)
(* began first ends first; and in a steady outage both tasks feed the      *)
(* watchdog in time, because nothing they wait for is longer than what is  *)
(* left of it.                                                             *)
(***************************************************************************)
EXTENDS DeviceOutage, NetworkTask_proofs

Phases == {"first", "auth", "check", "again"}

LoopType == /\ site \in Sites /\ phase \in Phases /\ asked \in BOOLEAN
            /\ backlog \in 0..BacklogMax
            /\ idle \in Nat
WdtType == fed \subseteq Watched \cup Callers /\ wdt \in 0..WDT_TIMEOUT

\* A replay that has been asked for has a file, which its success removes
\* (flushBufferedSensorData).
ReplayHasFile == asked /\ site \in Replays => backlog > 0

LoopInv == LoopType /\ ReplayHasFile
DeviceInv == NetworkInv /\ LoopInv /\ WdtType

-----------------------------------------------------------------------------
(* The order of the requests *)

\* Every request but the idle wait has a place before it (loop).
LEMMA PositionBefore ==
    ASSUME NEW s \in Sites \ {"idle"}
    PROVE  Position(s) \in 1..18
  BY DEF Position, Sites, KindOf, Order

\* So there is a next one.
LEMMA AfterType ==
    ASSUME NEW s \in Sites \ {"idle"}
    PROVE  After(s) \in Sites
<1> DEFINE later == {i \in DOMAIN Order :
                        /\ i > Position(s)
                        /\ Order[i] \notin Optional \ Happening}
<1>1. DOMAIN Order = 1..19 /\ Order[19] = "idle"
  BY DEF Order
<1>2. later \subseteq 1..19 /\ 19 \in later
  BY <1>1, PositionBefore DEF Optional
<1>3. \A i \in 1..19 : Order[i] \in Sites
  BY DEF Order, Sites, KindOf
<1> HIDE DEF later
<1>4. \E i \in later : \A j \in later : i <= j
  BY <1>2
<1>5. (CHOOSE i \in later : \A j \in later : i <= j) \in later
  BY <1>4
<1> QED
  BY <1>2, <1>3, <1>5 DEF After, later
-----------------------------------------------------------------------------
(* The watchdog *)

\* Whoever feeds it, the watchdog counts down from its timeout.
LEMMA FedByType ==
    ASSUME WdtType, NEW tasks \in SUBSET (Watched \cup Callers),
           NEW otherwise \in 0..WDT_TIMEOUT, FedBy(tasks, otherwise)
    PROVE  WdtType'
<1>1. WDT_TIMEOUT \in 0..WDT_TIMEOUT
  BY DeviceAssumption
<1>2. CASE Watched \subseteq fed \cup tasks
  BY <1>1, <1>2 DEF FedBy, WdtType
<1>3. CASE ~(Watched \subseteq fed \cup tasks)
  BY <1>3 DEF FedBy, WdtType
<1> QED
  BY <1>2, <1>3

\* So does a task that feeds it without letting time pass.
LEMMA FeedType ==
    ASSUME WdtType, NEW task \in Callers, Feed(task)
    PROVE  WdtType'
<1>1. wdt \in 0..WDT_TIMEOUT /\ {task} \in SUBSET (Watched \cup Callers)
  BY DEF WdtType
<1> QED
  BY <1>1, FedByType DEF Feed

-----------------------------------------------------------------------------
(* Steps of the loop task that leave the network alone *)

\* Where the loop task goes on to another request (Leave).
LEMMA LeaveStep ==
    ASSUME LoopInv, WdtType, NEW s \in Sites, Leave(s)
    PROVE  LoopInv' /\ WdtType' /\ UNCHANGED networkVars
<1>1. "loop" \in Callers
  BY DeviceAssumption DEF Callers
<1>2. /\ site' = s /\ phase' = "first" /\ asked' = FALSE
      /\ UNCHANGED <<backlog, idle>> /\ UNCHANGED networkVars
  BY DEF Leave, GoTo
<1>3. LoopInv'
  BY <1>2 DEF LoopInv, LoopType, ReplayHasFile, Phases
<1>4. Feed("loop") \/ UNCHANGED wdtVars
  BY DEF Leave
<1>5. WdtType'
  BY <1>1, <1>4, FeedType DEF wdtVars, WdtType
<1> QED
  BY <1>2, <1>3, <1>5

\* Every step of the loop task but its calls, its share of a facade and what
\* becomes of an update.
OwnStep == \/ Reauthenticate \/ SkipOptional \/ Disabled
           \/ Configured \/ Reported
           \/ ReplayEmpty \/ Replayed \/ ReplayBroken
           \/ Pushed \/ KeptInRam \/ Spilled \/ Discarded
           \/ StartIdle \/ NextCycle

\* They move the loop task, the backlog and the watchdog only.
LEMMA LoopTaskStep ==
    ASSUME LoopInv, WdtType, OwnStep
    PROVE  LoopInv' /\ WdtType' /\ UNCHANGED networkVars
<1>1. {"connect", "otaFailed", "discard", "config", "idle", "executed"}
          \subseteq Sites
  BY DEF Sites, KindOf
<1>2. "loop" \in Callers
  BY DeviceAssumption DEF Callers
<1>3. CASE Reauthenticate
  <2>1. /\ phase' \in Phases /\ asked' = FALSE /\ UNCHANGED site
        /\ UNCHANGED <<backlog, idle>>
        /\ UNCHANGED networkVars /\ UNCHANGED wdtVars
    BY <1>3 DEF Reauthenticate, ToPhase, Phases
  <2> QED
    BY <2>1 DEF LoopInv, LoopType, ReplayHasFile, WdtType, wdtVars
<1>4. ASSUME NEW X \in SUBSET (Sites \ {"idle"}), site \in X,
             Leave(After(site))
      PROVE  LoopInv' /\ WdtType' /\ UNCHANGED networkVars
  BY <1>4, AfterType, LeaveStep
<1>5. CASE SkipOptional
  <2>1. Optional \ {"connect"} \in SUBSET (Sites \ {"idle"})
    BY DEF Optional, Sites, KindOf
  <2> QED
    BY <1>4, <1>5, <2>1 DEF SkipOptional
<1>6. CASE Disabled
  BY <1>1, <1>6, LeaveStep DEF Disabled
<1>7. CASE Configured
  <2>1. {"config", "executed"} \in SUBSET (Sites \ {"idle"})
    BY <1>1
  <2>2. PICK s \in {"connect", After("config"), After("executed")} : Leave(s)
    BY <1>7, Zenon DEF Configured
  <2> QED
    BY <1>1, <2>1, <2>2, AfterType, LeaveStep
<1>9. CASE Reported
  <2>1. (Optional \cup {"otaFailed", "discard"}) \ {"ota", "connect"}
            \in SUBSET (Sites \ {"idle"})
    BY DEF Optional, Sites, KindOf
  <2> QED
    BY <1>4, <1>9, <2>1 DEF Reported
<1>10. Replays \in SUBSET (Sites \ {"idle"})
  BY DEF Replays, Sites, KindOf
<1>11. CASE ReplayEmpty
  BY <1>4, <1>10, <1>11 DEF ReplayEmpty
<1>12. CASE Replayed
  <2>1. /\ site \in Replays /\ asked = TRUE /\ backlog' = backlog - 1
        /\ site' = site /\ phase' = "first" /\ asked' = FALSE
        /\ UNCHANGED idle /\ UNCHANGED networkVars
        /\ Feed("loop")
    BY <1>12 DEF Replayed, Settled, Back, GoTo, LoopInv, LoopType
  <2>2. backlog > 0 /\ backlog \in 0..BacklogMax /\ BacklogMax \in Nat
    BY <2>1, DeviceAssumption, Zenon DEF LoopInv, LoopType, ReplayHasFile
  <2>3. backlog' \in 0..BacklogMax
    BY <2>1, <2>2
  <2>4. LoopInv'
    BY <2>1, <2>3, Zenon DEF LoopInv, LoopType, ReplayHasFile, Phases
  <2> QED
    BY <1>2, <2>1, <2>4, FeedType
<1>13. CASE ReplayBroken
  <2>1. {"flush"} \in SUBSET (Sites \ {"idle"})
    BY DEF Sites, KindOf
  <2> QED
    BY <1>4, <1>13, <2>1 DEF ReplayBroken
<1>14. CASE Pushed \/ KeptInRam \/ Discarded
  <2>1. Leave("connect") \/ Leave("discard")
    BY <1>14 DEF Pushed, KeptInRam, Discarded
  <2> QED
    BY <1>1, <2>1, LeaveStep
<1>15. CASE Spilled
  <2>1. /\ backlog < BacklogMax /\ backlog' = backlog + 1
        /\ site' = "connect" /\ phase' = "first" /\ asked' = FALSE
        /\ UNCHANGED idle /\ UNCHANGED networkVars
        /\ Feed("loop")
    BY <1>15 DEF Spilled, GoTo
  <2>2. backlog \in 0..BacklogMax /\ BacklogMax \in Nat
    BY DeviceAssumption, Zenon DEF LoopInv, LoopType
  <2>3. backlog' \in 0..BacklogMax
    BY <2>1, <2>2
  <2>4. LoopInv'
    BY <1>1, <2>1, <2>3, Zenon DEF LoopInv, LoopType, ReplayHasFile, Phases
  <2> QED
    BY <1>2, <2>1, <2>4, FeedType
<1>16. CASE StartIdle
  BY <1>1, <1>16, DeviceAssumption DEF StartIdle, GoTo, LoopInv, LoopType,
     ReplayHasFile, Phases, WdtType, wdtVars
<1>17. CASE NextCycle
  BY <1>1, <1>17, LeaveStep DEF NextCycle
<1> QED
  BY <1>3, <1>5, <1>6, <1>7, <1>9, <1>11, <1>12, <1>13, <1>14, <1>15,
     <1>16, <1>17 DEF OwnStep
-----------------------------------------------------------------------------
(* The device keeps to the network task *)

\* Every phase of every request is a call that the network task knows.
LEMMA PhaseKindType ==
    ASSUME site \in Sites \ {"idle"}, phase \in Phases
    PROVE  PhaseKind \in Kinds
<1>1. KindOf[site] \in Kinds
  BY DEF Sites, KindOf, Kinds
<1>2. "post" \in Kinds /\ "get" \in Kinds
  BY DEF Kinds
<1> QED
  BY <1>1, <1>2 DEF PhaseKind, Phases

\* A reboot, with or without the readings on flash.
LEMMA RebootStep ==
    ASSUME LoopInv, WdtType, Reboot, backlog' \in {0, backlog}
    PROVE  LoopInv' /\ WdtType' /\ NetworkReboot
<1>1. /\ NetworkReboot
      /\ site' = "boot" /\ phase' = "first" /\ asked' = FALSE /\ idle' = 0
      /\ fed' = {} /\ wdt' = WDT_TIMEOUT
  BY DEF Reboot, GoTo
<1>2. "boot" \in Sites
  BY DEF Sites, KindOf
<1>3. backlog \in 0..BacklogMax /\ 0 \in 0..BacklogMax
      /\ WDT_TIMEOUT \in 0..WDT_TIMEOUT /\ 0 \in Nat
  <2>1. backlog \in 0..BacklogMax
    BY Zenon DEF LoopInv, LoopType
  <2> QED
    BY <2>1, DeviceAssumption
<1>4. LoopInv'
  BY <1>1, <1>2, <1>3, Zenon DEF LoopInv, LoopType, ReplayHasFile, Phases
<1> QED
  BY <1>1, <1>3, <1>4 DEF WdtType

\* While time passes, the loop task, a download and setup() may feed.
LEMMA TickStep ==
    ASSUME LoopInv, WdtType, DeviceTick
    PROVE  LoopInv' /\ WdtType' /\ Tick
<1>1. /\ wdt > 0 /\ idle' = (IF idle > 0 THEN idle - 1 ELSE 0)
      /\ FedBy(FedMeanwhile, wdt - 1)
      /\ UNCHANGED <<site, phase, asked, backlog>>
  BY Zenon DEF DeviceTick, loopVars
<1>2. FedMeanwhile \in SUBSET (Watched \cup Callers)
  BY DeviceAssumption DEF FedMeanwhile, Callers
<1>3. wdt - 1 \in 0..WDT_TIMEOUT
  <2>1. wdt \in 0..WDT_TIMEOUT
    BY DEF WdtType
  <2> QED
    BY <1>1, <2>1, DeviceAssumption
<1>4. WdtType'
  BY <1>1, <1>2, <1>3, FedByType
<1>5. idle' \in Nat
  <2>1. idle \in Nat
    BY Zenon DEF LoopInv, LoopType
  <2> QED
    BY <1>1, <2>1
<1>6. LoopInv'
  BY <1>1, <1>5, Zenon DEF LoopInv, LoopType, ReplayHasFile
<1> QED
  BY <1>4, <1>6 DEF DeviceTick

\* Each step of the device is a step of the network task or leaves it alone.
LEMMA DeviceStep ==
    ASSUME LoopInv, WdtType, [Next]_vars
    PROVE  LoopInv' /\ WdtType' /\ [NetworkNext]_networkVars
<1>1. "loop" \in Clients /\ "loop" \in Callers /\ "network" \in Callers
  BY DeviceAssumption DEF Callers
<1>2. ASSUME UNCHANGED <<site, phase, asked, backlog, idle>>
      PROVE  LoopInv'
  BY <1>2, Zenon DEF LoopInv, LoopType, ReplayHasFile
<1>3. ASSUME UNCHANGED wdtVars
      PROVE  WdtType'
  BY <1>3 DEF WdtType, wdtVars
<1>4. CASE Ask
  <2>1. /\ site # "idle" /\ Call("loop", PhaseKind) /\ asked' = TRUE
        /\ (site \in Replays => backlog > 0)
        /\ UNCHANGED <<site, phase, backlog, idle>>
        /\ UNCHANGED work /\ UNCHANGED wdtVars
    BY <1>4 DEF Ask
  <2>2. site \in Sites \ {"idle"} /\ phase \in Phases
    BY <2>1 DEF LoopInv, LoopType
  <2>3. ClientCall("loop")
    BY <2>1, <2>2, PhaseKindType DEF ClientCall
  <2>4. LoopInv'
    BY <2>1, Zenon DEF LoopInv, LoopType, ReplayHasFile
  <2> QED
    BY <1>1, <1>3, <2>1, <2>3, <2>4 DEF NetworkNext
<1>5. CASE Facade("loop") /\ UNCHANGED <<loopVars, backlog, idle, wdtVars>>
  BY <1>1, <1>2, <1>3, <1>5 DEF NetworkNext, loopVars
<1>6. CASE OwnStep
  BY <1>6, LoopTaskStep
<1>7. ASSUME Reboot, backlog' \in {0, backlog}
      PROVE  LoopInv' /\ WdtType' /\ [NetworkNext]_networkVars
  BY <1>7, RebootStep DEF NetworkNext
<1>8. CASE Updated
  <2>1. Leave("otaFailed") \/ (Reboot /\ UNCHANGED backlog)
    BY <1>8 DEF Updated
  <2>2. "otaFailed" \in Sites
    BY DEF Sites, KindOf
  <2> QED
    BY <1>7, <2>1, <2>2, LeaveStep
<1>9. CASE HardReset \/ ConfigReboots \/ DeepSleep \/ WatchdogReboot
  <2>1. Reboot /\ backlog' \in {0, backlog}
    BY <1>9 DEF HardReset, ConfigReboots, DeepSleep, WatchdogReboot
  <2> QED
    BY <1>7, <2>1
<1>10. CASE DeviceNetwork
  <2>1. /\ NetworkLoop
        /\ Feed("network") \/ UNCHANGED wdtVars
        /\ UNCHANGED <<site, phase, asked, backlog, idle>>
    BY <1>10 DEF DeviceNetwork, NetworkLoop, loopVars
  <2> QED
    BY <1>1, <1>2, <1>3, <2>1, FeedType DEF NetworkNext
<1>11. CASE DeviceTick
  BY <1>11, TickStep DEF NetworkNext
<1>12. CASE WifiChanges
  BY <1>2, <1>3, <1>12 DEF WifiChanges, NetworkNext, loopVars
<1>13. CASE UNCHANGED vars
  BY <1>2, <1>3, <1>13 DEF vars, networkVars, wdtVars
<1>14. DeviceLoop => Ask \/ Updated
                     \/ (Facade("loop")
                         /\ UNCHANGED <<loopVars, backlog, idle, wdtVars>>)
                     \/ OwnStep
  BY Zenon DEF DeviceLoop, OwnStep
<1> QED
  BY <1>4, <1>5, <1>6, <1>8, <1>9, <1>10, <1>11, <1>12, <1>13, <1>14 DEF Next

\* At power-on the watchdog is full and nothing has been asked for.
LEMMA DeviceInvInit == Init => DeviceInv
<1> SUFFICES ASSUME Init PROVE DeviceInv
  OBVIOUS
<1>1. NetworkInv
  BY NetworkInvInit DEF Init
<1>2. LoopInv
  BY DEF Init, LoopInv, LoopType, ReplayHasFile, Phases, Sites, KindOf
<1>3. WdtType
  BY DeviceAssumption DEF Init, WdtType
<1> QED
  BY <1>1, <1>2, <1>3 DEF DeviceInv

\* The invariant of the network task is kept because the device keeps to it.
LEMMA DeviceInvStep == DeviceInv /\ [Next]_vars => DeviceInv'
  BY DeviceStep, NetworkInvStep DEF DeviceInv

-----------------------------------------------------------------------------
(* The event about WiFi *)

\* The network task works on the request the loop task waits for.
OwnServed == /\ stage["loop"] = "wait" /\ TimesOut("loop")
             /\ serving = handle["loop"]

\* While it does, its own event about WiFi finds room in the queue and is
\* waited for no less long than the loop task waits: so no answer without WiFi
\* gets back to a POST (requestPostSync, requestPost).
EventInv ==
    /\ Len(queue) <= NETWORK_QUEUE_LENGTH
    /\ left["loop"] <= NETWORK_REQUEST_TIMEOUT
    /\ stage["network"] # "idle" =>
          work = "event" /\ ~heap[handle["network"]].done
    /\ OwnServed =>
          /\ stage["network"] # "wait" => Len(queue) < NETWORK_QUEUE_LENGTH
          /\ stage["network"] = "wait" => left["loop"] <= left["network"]
          /\ work = "event" => stage["network"] # "idle"
    /\ stage["loop"] # "idle" /\ heap[handle["loop"]].kind \in {"poll", "post"}
          => heap[handle["loop"]].answer # "noWifi"

\* What is used of the invariant of the network task
LEMMA EventFacts ==
    ASSUME NetworkInv
    PROVE  /\ "loop" # "network" /\ Callers = {"loop", "network"}
           /\ heap \in [Requests -> NetworkRequest] /\ queue \in Seq(Requests)
           /\ handle \in [Callers -> Requests \cup {NoRequest}]
           /\ stage \in [Callers -> {"idle", "enqueue", "wait"}]
           /\ left \in [Callers -> Nat] /\ outcome \in [Callers -> Outcomes]
           /\ \A t \in Callers : stage[t] # "idle" =>
                 /\ handle[t] \in Requests /\ handle[t] # NoRequest
                 /\ Live(handle[t])
           /\ stage["loop"] # "idle" /\ stage["network"] # "idle" =>
                 handle["loop"] # handle["network"]
           /\ work # "receive" => serving \in Requests
           /\ stage["loop"] = "enqueue" => handle["loop"] # serving
           /\ work # "receive" /\ stage["loop"] # "idle"
                 /\ handle["loop"] = serving => heap[serving].released # 1
<1>1. /\ Callers = {"loop", "network"} /\ "loop" # "network"
      /\ NoRequest \notin Requests
  BY DeviceAssumption, NetworkAssumption DEF Callers
<1>2. \A t \in Callers : stage[t] # "idle" =>
         handle[t] \in Requests /\ Live(handle[t])
  BY DEF NetworkInv, OneHolder, RequestsOwned, CallerHolds
<1>3. work # "receive" /\ stage["loop"] # "idle" /\ handle["loop"] = serving
         => heap[serving].released # 1
  BY <1>1 DEF NetworkInv, OneHolder, RequestsOwned, CallerHolds, NetworkHolds
<1> QED
  BY <1>1, <1>2, <1>3 DEF NetworkInv, NetworkTypeOK, OneHolder

\* What releasing keeps of a request
LEMMA ReleasedKeeps ==
    ASSUME NEW r \in Requests, NEW q \in Requests,
           heap \in [Requests -> NetworkRequest]
    PROVE  q = r /\ heap[r].released # 1 =>
              /\ Released(r)[q].kind = heap[q].kind
              /\ Released(r)[q].answer = heap[q].answer
              /\ Released(r)[q].done = heap[q].done
  BY DEF Released, networkRequestReleaseShouldFree, NetworkRequest

\* A step of the loop task in a facade
LEMMA LoopFacade ==
    ASSUME NetworkInv, EventInv,
           (\E kind \in Kinds : Call("loop", kind) /\ UNCHANGED work)
               \/ Facade("loop")
    PROVE  EventInv'
<1>0. /\ "loop" # "network" /\ Callers = {"loop", "network"}
      /\ NETWORK_REQUEST_TIMEOUT \in Nat /\ NETWORK_QUEUE_LENGTH \in Nat
  BY EventFacts, NetworkAssumption
<1>1. CASE \E kind \in Kinds : Call("loop", kind) /\ UNCHANGED work
  <2>1. PICK kind \in Kinds : Call("loop", kind) /\ UNCHANGED work
    BY <1>1
  <2>2. PICK r \in Requests : /\ ~Live(r)
                              /\ heap' = [heap EXCEPT ![r] = NewRequest(kind)]
                              /\ handle' = [handle EXCEPT !["loop"] = r]
    BY <2>1 DEF Call
  <2>3. /\ stage' = [stage EXCEPT !["loop"] = "enqueue"]
        /\ UNCHANGED <<queue, left, work>>
    BY <2>1 DEF Call
  <2>4. heap'[r].answer = "none" /\ handle'["loop"] = r
    BY <1>0, <2>2, EventFacts DEF NewRequest
  <2>5. stage["network"] # "idle" => handle["network"] # r
    BY <1>0, <2>2, EventFacts
  <2>6. stage'["network"] # "idle" =>
           work' = "event" /\ ~heap'[handle'["network"]].done
    BY <1>0, <2>2, <2>3, <2>5, EventFacts DEF EventInv
  <2> QED
    BY <1>0, <2>3, <2>4, <2>6, EventFacts DEF EventInv, OwnServed
<1>2. CASE Enqueue("loop")
  <2>1. /\ stage["loop"] = "enqueue"
        /\ stage' = [stage EXCEPT !["loop"] = "wait"]
        /\ left' = [left EXCEPT !["loop"] = NETWORK_REQUEST_TIMEOUT]
        /\ Len(queue) < NETWORK_QUEUE_LENGTH
        /\ queue' = Append(queue, handle["loop"])
        /\ UNCHANGED <<heap, handle, work, serving>>
    BY <1>2 DEF Enqueue, TimeoutOf
  <2>2. ~OwnServed'
    BY <2>1, EventFacts DEF OwnServed
  <2>3. Len(queue') <= NETWORK_QUEUE_LENGTH
    BY <1>0, <2>1, EventFacts
  <2>4. /\ left'["loop"] = NETWORK_REQUEST_TIMEOUT
        /\ stage'["network"] = stage["network"]
    BY <1>0, <2>1, EventFacts
  <2> QED
    BY <1>0, <2>1, <2>2, <2>3, <2>4 DEF EventInv
<1>3. ASSUME NEW h \in Requests, NEW o, Return("loop", o),
             UNCHANGED <<queue, work, serving>>,
             h = handle["loop"], stage["loop"] # "idle",
             \A q \in Requests : q # h => heap'[q] = heap[q]
      PROVE  EventInv'
  <2>1. /\ stage'["loop"] = "idle" /\ left'["loop"] = 0
        /\ stage'["network"] = stage["network"]
        /\ handle'["network"] = handle["network"]
    BY <1>0, <1>3, EventFacts DEF Return
  <2>2. stage["network"] # "idle" =>
           heap'[handle["network"]] = heap[handle["network"]]
    BY <1>0, <1>3, EventFacts
  <2> QED
    BY <1>0, <1>3, <2>1, <2>2 DEF EventInv, OwnServed
<1>4. ASSUME stage["loop"] # "idle"
      PROVE  /\ handle["loop"] \in Requests
             /\ \A q \in Requests : q # handle["loop"] =>
                   Released(handle["loop"])[q] = heap[q]
  BY <1>0, <1>4, EventFacts, ReleasedCell DEF NetworkInv
<1>5. CASE EnqueueFails("loop")
  <2>1. /\ stage["loop"] # "idle" /\ Return("loop", "full")
        /\ UNCHANGED <<queue, work, serving>>
        /\ heap' = [heap EXCEPT ![handle["loop"]] = FreeCell]
    BY <1>5 DEF EnqueueFails
  <2>2. \A q \in Requests : q # handle["loop"] => heap'[q] = heap[q]
    BY <2>1, EventFacts
  <2> QED
    BY <1>3, <1>4, <2>1, <2>2
<1>6. CASE Answered("loop")
  <2>1. /\ stage["loop"] # "idle"
        /\ Return("loop", heap[handle["loop"]].answer)
        /\ UNCHANGED <<queue, work, serving>>
        /\ heap' = Released(handle["loop"])
    BY <1>6 DEF Answered
  <2> QED
    BY <1>3, <1>4, <2>1
<1>7. CASE TimedOut("loop")
  <2>1. /\ stage["loop"] # "idle" /\ Return("loop", "timeout")
        /\ UNCHANGED <<queue, work, serving>>
        /\ heap' = Released(handle["loop"])
    BY <1>7 DEF TimedOut
  <2> QED
    BY <1>3, <1>4, <2>1
<1> QED
  BY <1>1, <1>2, <1>5, <1>6, <1>7 DEF Facade

\* A step of the network task in its own facade
LEMMA NetworkFacade ==
    ASSUME NetworkInv, EventInv, Facade("network")
    PROVE  EventInv'
<1>0. /\ "loop" # "network" /\ Callers = {"loop", "network"}
      /\ NETWORK_REQUEST_TIMEOUT \in Nat /\ NETWORK_QUEUE_LENGTH \in Nat
  BY EventFacts, NetworkAssumption
<1>1. CASE Enqueue("network")
  <2>1. /\ stage["network"] = "enqueue"
        /\ stage' = [stage EXCEPT !["network"] = "wait"]
        /\ left' = [left EXCEPT !["network"] = NETWORK_REQUEST_TIMEOUT]
        /\ Len(queue) < NETWORK_QUEUE_LENGTH
        /\ queue' = Append(queue, handle["network"])
        /\ UNCHANGED <<heap, handle, work, serving>>
    BY <1>1 DEF Enqueue, TimeoutOf
  <2>2. Len(queue') <= NETWORK_QUEUE_LENGTH
    BY <1>0, <2>1, EventFacts
  <2>3. /\ left'["network"] = NETWORK_REQUEST_TIMEOUT
        /\ left'["loop"] = left["loop"] /\ stage'["loop"] = stage["loop"]
        /\ stage'["network"] = "wait"
    BY <1>0, <2>1, EventFacts
  <2>4. OwnServed' => OwnServed
    BY <2>1, <2>3 DEF OwnServed, TimesOut
  <2> QED
    BY <1>0, <2>1, <2>2, <2>3, <2>4 DEF EventInv
<1>2. ASSUME NEW o, Return("network", o), UNCHANGED <<queue, work, serving>>,
             NEW h \in Requests, h = handle["network"],
             stage["network"] # "idle",
             \A q \in Requests : q # h => heap'[q] = heap[q],
             OwnServed => FALSE
      PROVE  EventInv'
  <2>1. /\ stage'["network"] = "idle" /\ left'["loop"] = left["loop"]
        /\ stage'["loop"] = stage["loop"] /\ handle'["loop"] = handle["loop"]
    BY <1>0, <1>2, EventFacts DEF Return
  <2>2. stage["loop"] # "idle" =>
           heap'[handle["loop"]] = heap[handle["loop"]]
    BY <1>0, <1>2, EventFacts
  <2>3. ~OwnServed'
    BY <1>2, <2>1, <2>2 DEF OwnServed, TimesOut
  <2> QED
    BY <1>0, <1>2, <2>1, <2>2, <2>3 DEF EventInv
<1>3. ASSUME stage["network"] # "idle"
      PROVE  /\ handle["network"] \in Requests
             /\ \A q \in Requests : q # handle["network"] =>
                   Released(handle["network"])[q] = heap[q]
  BY <1>0, <1>3, EventFacts, ReleasedCell DEF NetworkInv
<1>4. CASE EnqueueFails("network")
  <2>1. /\ stage["network"] = "enqueue" /\ Return("network", "full")
        /\ UNCHANGED <<queue, work, serving>>
        /\ heap' = [heap EXCEPT ![handle["network"]] = FreeCell]
        /\ Len(queue) >= NETWORK_QUEUE_LENGTH
    BY <1>4 DEF EnqueueFails
  <2>2. \A q \in Requests : q # handle["network"] => heap'[q] = heap[q]
    BY <2>1, EventFacts
  <2>3. OwnServed => FALSE
    BY <1>0, <2>1, EventFacts DEF EventInv
  <2> QED
    BY <1>2, <1>3, <2>1, <2>2, <2>3
<1>5. CASE Answered("network")
  BY <1>5 DEF Answered, EventInv
<1>6. CASE TimedOut("network")
  <2>1. /\ stage["network"] = "wait" /\ Return("network", "timeout")
        /\ UNCHANGED <<queue, work, serving>>
        /\ heap' = Released(handle["network"])
        /\ left["network"] = 0 /\ ~OwnerExpires
    BY <1>6 DEF TimedOut
  <2>2. OwnServed => FALSE
    <3>1. SUFFICES ASSUME OwnServed PROVE FALSE
      OBVIOUS
    <3>2. left["loop"] <= 0 /\ left["loop"] \in Nat
      BY <1>0, <2>1, <3>1, EventFacts DEF EventInv
    <3>3. OwnerExpires
      BY <3>1, <3>2, DeviceAssumption DEF OwnServed, OwnerExpires
    <3> QED
      BY <2>1, <3>3
  <2> QED
    BY <1>2, <1>3, <2>1, <2>2
<1> QED
  BY <1>1, <1>4, <1>5, <1>6 DEF Facade

\* A step of networkTaskLoop outside its facade that moves neither queue nor
\* callers, and notes nothing in a request that the loop task waits for but an
\* answer it may have.
LEMMA ServedStep ==
    ASSUME NetworkInv, EventInv, stage["network"] = "idle",
           UNCHANGED <<queue, stage, handle, left>>,
           serving' = serving \/ serving' = NoRequest,
           work' # "event",
           stage["loop"] # "idle" =>
              /\ heap'[handle["loop"]].kind = heap[handle["loop"]].kind
              /\ \/ heap'[handle["loop"]].answer = heap[handle["loop"]].answer
                 \/ heap'[handle["loop"]].kind \notin {"poll", "post"}
                 \/ heap'[handle["loop"]].answer # "noWifi"
    PROVE  EventInv'
<1>1. handle["loop"] # NoRequest \/ stage["loop"] = "idle"
  BY EventFacts
<1>2. OwnServed' => OwnServed
  BY <1>1 DEF OwnServed, TimesOut
<1> QED
  BY <1>2, EventFacts DEF EventInv

\* An answer is noted in one request only.
LEMMA AnswerNoted ==
    ASSUME NetworkInv, work # "receive", NEW a, Answer(a)
    PROVE  stage["loop"] # "idle" =>
              /\ heap'[handle["loop"]].kind = heap[handle["loop"]].kind
              /\ handle["loop"] = serving => heap'[handle["loop"]].answer = a
              /\ handle["loop"] # serving =>
                    heap'[handle["loop"]].answer = heap[handle["loop"]].answer
  BY EventFacts DEF Answer, NetworkRequest

\* A step of networkTaskLoop outside its facade
LEMMA NetworkOwnStep ==
    ASSUME NetworkInv, EventInv, NetworkLoop, ~Facade("network")
    PROVE  EventInv'
<1>0. /\ "loop" # "network" /\ Callers = {"loop", "network"}
      /\ NETWORK_REQUEST_TIMEOUT \in Nat /\ NETWORK_QUEUE_LENGTH \in Nat
  BY EventFacts, NetworkAssumption
<1>1. work # "event" => stage["network"] = "idle"
  BY EventFacts DEF EventInv
<1>2. CASE Receive
  <2>1. /\ work = "receive" /\ queue # <<>> /\ queue' = Tail(queue)
        /\ work' = "check"
        /\ UNCHANGED <<heap, stage, handle, left>>
    BY <1>2 DEF Receive
  <2>2. Len(queue') < NETWORK_QUEUE_LENGTH
    BY <1>0, <2>1, EventFacts DEF EventInv
  <2> QED
    BY <1>0, <1>1, <2>1, <2>2 DEF EventInv, OwnServed
<1>3. CASE BeginIo
  BY <1>1, <1>3, ServedStep DEF BeginIo
<1>4. CASE FinishIo
  <2>1. /\ work = "io" /\ work' = "give"
        /\ UNCHANGED <<queue, stage, handle, left, serving>>
        /\ \/ Answer("failed")
           \/ \E a \in Answers(heap[serving].kind) : Answer(a)
    BY <1>4 DEF FinishIo
  <2>2. PICK a : /\ Answer(a)
                 /\ a = "failed" \/ a \in Answers(heap[serving].kind)
    BY <2>1
  <2>3. a # "noWifi"
    BY <2>2 DEF Answers
  <2> QED
    BY <1>1, <2>1, <2>2, <2>3, AnswerNoted, ServedStep
<1>5. CASE NoWifi
  <2>1. /\ work = "check" /\ work' = "give"
        /\ UNCHANGED <<queue, stage, handle, left, serving>>
        /\ heap[serving].kind \notin {"poll", "post"}
    BY <1>5 DEF NoWifi
  <2>2. PICK a : Answer(a)
    BY <1>5 DEF NoWifi
  <2> QED
    BY <1>1, <2>1, <2>2, AnswerNoted, ServedStep
<1>6. CASE NoWifiEvent
  <2>1. /\ work = "check" /\ work' = "event"
        /\ Call("network", "event")
    BY <1>6 DEF NoWifiEvent
  <2>2. PICK r \in Requests :
           /\ ~Live(r)
           /\ heap' = [heap EXCEPT ![r] = NewRequest("event")]
           /\ handle' = [handle EXCEPT !["network"] = r]
    BY <2>1 DEF Call
  <2>3. /\ stage' = [stage EXCEPT !["network"] = "enqueue"]
        /\ UNCHANGED <<queue, left, serving>>
        /\ stage["network"] = "idle"
    BY <2>1 DEF Call
  <2>4. /\ stage'["network"] = "enqueue" /\ stage'["loop"] = stage["loop"]
        /\ handle'["loop"] = handle["loop"] /\ handle'["network"] = r
    BY <1>0, <2>2, <2>3, EventFacts
  <2>5. stage["loop"] # "idle" => handle["loop"] # r
    BY <1>0, <2>2, EventFacts
  <2>6. stage["loop"] # "idle" =>
           heap'[handle["loop"]] = heap[handle["loop"]]
    BY <1>0, <2>2, <2>5, EventFacts
  <2>7. ~heap'[r].done
    BY <2>2, EventFacts DEF NewRequest
  <2>8. OwnServed' => OwnServed
    BY <2>3, <2>4, <2>6 DEF OwnServed, TimesOut
  <2> QED
    BY <2>1, <2>3, <2>4, <2>6, <2>7, <2>8 DEF EventInv
<1>7. CASE NoWifiEventDone
  <2>1. /\ work = "event" /\ work' = "give" /\ stage["network"] = "idle"
        /\ UNCHANGED <<queue, stage, handle, left, serving>>
        /\ Answer("noWifi")
    BY <1>7 DEF NoWifiEventDone
  <2>2. ~OwnServed
    BY <2>1 DEF EventInv
  <2>3. stage["loop"] # "idle" /\ handle["loop"] = serving =>
           heap[handle["loop"]].kind = "ota"
    BY <1>0, <2>2, EventFacts DEF OwnServed, TimesOut
  <2> QED
    BY <2>1, <2>3, AnswerNoted, ServedStep
<1>8. CASE Give
  <2>1. /\ work = "give" /\ work' = "release"
        /\ UNCHANGED <<queue, stage, handle, left, serving>>
        /\ heap' = [heap EXCEPT ![serving].done = TRUE]
    BY <1>8 DEF Give
  <2>2. stage["loop"] # "idle" =>
           /\ heap'[handle["loop"]].kind = heap[handle["loop"]].kind
           /\ heap'[handle["loop"]].answer = heap[handle["loop"]].answer
    BY <1>0, <2>1, EventFacts DEF NetworkRequest
  <2> QED
    BY <1>1, <2>1, <2>2, ServedStep
<1>9. CASE Release
  <2>1. /\ work = "release" /\ work' = "receive" /\ serving' = NoRequest
        /\ UNCHANGED <<queue, stage, handle, left>>
        /\ heap' = Released(serving)
    BY <1>9 DEF Release
  <2>2. stage["loop"] # "idle" /\ handle["loop"] # serving =>
           heap'[handle["loop"]] = heap[handle["loop"]]
    BY <1>0, <2>1, EventFacts, ReleasedCell DEF NetworkInv
  <2>3. stage["loop"] # "idle" /\ handle["loop"] = serving =>
           /\ heap'[handle["loop"]].kind = heap[handle["loop"]].kind
           /\ heap'[handle["loop"]].answer = heap[handle["loop"]].answer
    BY <1>0, <2>1, EventFacts, ReleasedKeeps
  <2> QED
    BY <1>1, <2>1, <2>2, <2>3, ServedStep
<1> QED
  BY <1>2, <1>3, <1>4, <1>5, <1>6, <1>7, <1>8, <1>9 DEF NetworkLoop

\* Every step keeps EventInv: time runs for both waits alike.
LEMMA EventStep ==
    ASSUME NetworkInv, EventInv, [NetworkNext]_networkVars
    PROVE  EventInv'
<1>0. /\ "loop" # "network" /\ Callers = {"loop", "network"}
      /\ NETWORK_REQUEST_TIMEOUT \in Nat /\ NETWORK_QUEUE_LENGTH \in Nat
  BY EventFacts, NetworkAssumption
<1>1. CASE Tick
  <2>1. /\ left' = [t \in Callers |-> IF left[t] > 0 THEN left[t] - 1 ELSE 0]
        /\ UNCHANGED <<heap, queue, stage, handle, work, serving>>
    BY <1>1 DEF Tick
  <2>2. left["loop"] \in Nat /\ left["network"] \in Nat
    BY <1>0, EventFacts
  <2>3. /\ left'["loop"] = IF left["loop"] > 0 THEN left["loop"] - 1 ELSE 0
        /\ left'["network"] = IF left["network"] > 0
                              THEN left["network"] - 1 ELSE 0
    BY <1>0, <2>1
  <2>4. /\ left'["loop"] <= left["loop"]
        /\ left["loop"] <= left["network"] => left'["loop"] <= left'["network"]
    BY <2>2, <2>3
  <2>5. left'["loop"] <= NETWORK_REQUEST_TIMEOUT
    BY <1>0, <2>2, <2>3, <2>4 DEF EventInv
  <2>6. OwnServed' <=> OwnServed
    BY <2>1 DEF OwnServed, TimesOut
  <2> QED
    BY <2>1, <2>4, <2>5, <2>6 DEF EventInv
<1>2. CASE NetworkReboot
  <2>1. /\ queue' = <<>> /\ stage'["loop"] = "idle" /\ left'["loop"] = 0
        /\ stage'["network"] = "idle"
    BY <1>0, <1>2 DEF NetworkReboot
  <2> QED
    BY <1>0, <2>1 DEF EventInv, OwnServed
<1>3. CASE SetWifi \/ UNCHANGED networkVars
  BY <1>3 DEF SetWifi, networkVars, EventInv, OwnServed, TimesOut
<1>4. CASE \E t \in Clients : ClientCall(t) \/ Facade(t)
  BY <1>4, LoopFacade, DeviceAssumption DEF ClientCall
<1>5. CASE NetworkLoop
  BY <1>5, NetworkFacade, NetworkOwnStep
<1> QED
  BY <1>1, <1>2, <1>3, <1>4, <1>5 DEF NetworkNext

-----------------------------------------------------------------------------
(* What the loop task gets to know of a request *)

\* The idle wait asks nothing; a call in progress is the one the phase asks
\* for, and its result is not the one a POST never gets.
ReplyInv ==
    /\ site = "idle" => ~asked
    /\ ~asked => stage["loop"] = "idle"
    /\ asked /\ stage["loop"] # "idle" =>
          heap[handle["loop"]].kind = PhaseKind
    /\ asked /\ stage["loop"] = "idle" /\ PhaseKind \in {"poll", "post"} =>
          Result # "noWifi"

\* A step of the network task leaves the loop task's call as it is.
LEMMA CallKept ==
    ASSUME NetworkInv, NetworkLoop
    PROVE  /\ stage'["loop"] = stage["loop"]
           /\ outcome'["loop"] = outcome["loop"]
           /\ stage["loop"] # "idle" =>
                 heap'[handle'["loop"]].kind = heap[handle["loop"]].kind
<1>0. "loop" # "network" /\ Callers = {"loop", "network"}
  BY EventFacts
<1>1. CASE Receive \/ BeginIo
  BY <1>1 DEF Receive, BeginIo
<1>2. CASE \/ FinishIo \/ NoWifi
           \/ NoWifiEventDone
  <2>1. /\ work # "receive" /\ \E a : Answer(a)
        /\ UNCHANGED <<stage, handle>>
        /\ outcome' = outcome
           \/ outcome' = [outcome EXCEPT !["network"] = "none"]
    BY <1>2 DEF FinishIo, NoWifi, NoWifiEventDone
  <2>2. outcome'["loop"] = outcome["loop"]
    BY <1>0, <2>1, EventFacts
  <2> QED
    BY <2>1, <2>2, AnswerNoted
<1>3. CASE NoWifiEvent
  <2>1. PICK r \in Requests :
           /\ ~Live(r)
           /\ heap' = [heap EXCEPT ![r] = NewRequest("event")]
           /\ handle' = [handle EXCEPT !["network"] = r]
    BY <1>3 DEF NoWifiEvent, Call
  <2>2. /\ stage' = [stage EXCEPT !["network"] = "enqueue"]
        /\ outcome' = [outcome EXCEPT !["network"] = "none"]
    BY <1>3 DEF NoWifiEvent, Call
  <2>3. stage["loop"] # "idle" =>
           heap'[handle["loop"]] = heap[handle["loop"]]
    BY <1>0, <2>1, EventFacts
  <2> QED
    BY <1>0, <2>1, <2>2, <2>3, EventFacts
<1>4. CASE Give
  BY <1>0, <1>4, EventFacts DEF Give, NetworkRequest
<1>5. CASE Release
  <2>1. /\ work = "release" /\ heap' = Released(serving)
        /\ UNCHANGED <<stage, handle, outcome>>
    BY <1>5 DEF Release
  <2>2. CASE handle["loop"] = serving
    BY <1>0, <2>1, <2>2, EventFacts, ReleasedKeeps
  <2>3. CASE handle["loop"] # serving
    BY <1>0, <2>1, <2>3, EventFacts, ReleasedCell DEF NetworkInv
  <2> QED
    BY <2>1, <2>2, <2>3
<1>6. CASE Facade("network")
  <2>1. /\ stage["network"] # "idle" /\ handle["network"] \in Requests
        /\ \/ heap' = heap /\ UNCHANGED <<outcome, handle>>
              /\ \E s : stage' = [stage EXCEPT !["network"] = s]
           \/ /\ \/ heap' = [heap EXCEPT ![handle["network"]] = FreeCell]
                 \/ heap' = Released(handle["network"])
              /\ \E o : Return("network", o)
    BY <1>6, EventFacts, <1>0 DEF Facade, Enqueue, EnqueueFails, Answered,
       TimedOut
  <2>2. /\ stage'["loop"] = stage["loop"] /\ outcome'["loop"] = outcome["loop"]
        /\ handle'["loop"] = handle["loop"]
    BY <1>0, <2>1, EventFacts DEF Return
  <2>3. stage["loop"] # "idle" =>
           heap'[handle["loop"]] = heap[handle["loop"]]
    BY <1>0, <2>1, EventFacts, ReleasedCell DEF NetworkInv
  <2> QED
    BY <2>2, <2>3
<1> QED
  BY <1>1, <1>2, <1>3, <1>4, <1>5, <1>6 DEF NetworkLoop

\* The result of a call is noted with the phase that made it.
LEMMA ReplyStep ==
    ASSUME DeviceInv, EventInv, ReplyInv, [Next]_vars
    PROVE  ReplyInv'
<1>0. NetworkInv /\ "loop" # "network" /\ Callers = {"loop", "network"}
  BY EventFacts DEF DeviceInv
<1>1. ASSUME asked' = FALSE, stage'["loop"] = "idle"
      PROVE  ReplyInv'
  BY <1>1 DEF ReplyInv
<1>2. CASE Ask
  <2>1. /\ site # "idle" /\ asked' = TRUE /\ Call("loop", PhaseKind)
        /\ UNCHANGED <<site, phase>>
    BY <1>2 DEF Ask
  <2>2. PICK r \in Requests :
           /\ heap' = [heap EXCEPT ![r] = NewRequest(PhaseKind)]
           /\ handle' = [handle EXCEPT !["loop"] = r]
    BY <2>1 DEF Call
  <2>3. stage' = [stage EXCEPT !["loop"] = "enqueue"]
    BY <2>1 DEF Call
  <2>4. /\ heap'[handle'["loop"]].kind = PhaseKind
        /\ stage'["loop"] = "enqueue"
    BY <1>0, <2>2, <2>3, EventFacts DEF NewRequest
  <2>5. PhaseKind' = PhaseKind
    BY <2>1 DEF PhaseKind
  <2> QED
    BY <2>1, <2>4, <2>5 DEF ReplyInv
<1>3. CASE OwnStep \/ Updated
  <2>1. \/ asked' = FALSE /\ UNCHANGED networkVars
        \/ Reboot
    BY <1>3 DEF OwnStep, Updated, Reauthenticate, ToPhase, SkipOptional,
       Disabled, Configured, Reported, ReplayEmpty, Replayed, ReplayBroken,
       Pushed, KeptInRam, Spilled, Discarded, StartIdle, NextCycle, Leave,
       GoTo
  <2>2. site = "idle" \/ ~asked \/ Back \/ Reboot
    BY <1>3 DEF OwnStep, Updated, Reauthenticate, SkipOptional, Disabled,
       Configured, Reported, ReplayEmpty, Replayed, ReplayBroken, Pushed,
       PushFailed, KeptInRam, Spilled, Discarded, StartIdle, NextCycle, Settled
  <2>3. stage["loop"] = "idle" \/ Reboot
    BY <2>2 DEF Back, ReplyInv
  <2>4. Reboot => asked' = FALSE /\ stage'["loop"] = "idle"
    BY <1>0 DEF Reboot, NetworkReboot, GoTo
  <2> QED
    BY <1>1, <2>1, <2>3, <2>4 DEF networkVars
<1>4. CASE HardReset \/ ConfigReboots \/ DeepSleep \/ WatchdogReboot
  <2>1. Reboot
    BY <1>4 DEF HardReset, ConfigReboots, DeepSleep, WatchdogReboot
  <2> QED
    BY <1>0, <1>1, <2>1 DEF Reboot, NetworkReboot, GoTo
<1>5. CASE Facade("loop") /\ UNCHANGED <<loopVars, backlog, idle, wdtVars>>
  <2>1. /\ UNCHANGED <<site, phase, asked>> /\ PhaseKind' = PhaseKind
    BY <1>5 DEF loopVars, PhaseKind
  <2>2. CASE Enqueue("loop")
    <3>1. /\ stage["loop"] # "idle" /\ UNCHANGED <<heap, handle>>
          /\ stage' = [stage EXCEPT !["loop"] = "wait"]
      BY <2>2 DEF Enqueue
    <3>2. stage'["loop"] = "wait"
      BY <1>0, <3>1, EventFacts
    <3> QED
      BY <2>1, <3>1, <3>2 DEF ReplyInv
  <2>3. ASSUME NEW o, Return("loop", o), stage["loop"] # "idle",
               heap[handle["loop"]].kind \in {"poll", "post"} => o # "noWifi"
        PROVE  ReplyInv'
    <3>1. stage'["loop"] = "idle" /\ outcome'["loop"] = o
      BY <1>0, <2>3, EventFacts DEF Return
    <3>2. asked => heap[handle["loop"]].kind = PhaseKind
      BY <2>3 DEF ReplyInv
    <3> QED
      BY <2>1, <2>3, <3>1, <3>2 DEF ReplyInv, Result
  <2>4. CASE EnqueueFails("loop")
    BY <2>3, <2>4 DEF EnqueueFails
  <2>5. CASE Answered("loop")
    BY <2>3, <2>5 DEF Answered, EventInv
  <2>6. CASE TimedOut("loop")
    BY <2>3, <2>6 DEF TimedOut
  <2> QED
    BY <1>5, <2>2, <2>4, <2>5, <2>6 DEF Facade
<1>6. CASE DeviceNetwork
  <2>1. NetworkLoop /\ UNCHANGED <<site, phase, asked>>
    BY <1>6 DEF DeviceNetwork, NetworkLoop, loopVars
  <2>2. PhaseKind' = PhaseKind
    BY <2>1 DEF PhaseKind
  <2> QED
    BY <1>0, <2>1, <2>2, CallKept DEF ReplyInv, Result
<1>7. CASE DeviceTick \/ WifiChanges \/ UNCHANGED vars
  <2>1. UNCHANGED <<site, phase, asked, heap, stage, handle, outcome>>
    BY <1>7 DEF DeviceTick, Tick, WifiChanges, SetWifi, vars, networkVars,
       loopVars
  <2>2. PhaseKind' = PhaseKind
    BY <2>1 DEF PhaseKind
  <2> QED
    BY <2>1, <2>2 DEF ReplyInv, Result
<1>8. DeviceLoop => Ask \/ Updated
                     \/ (Facade("loop")
                         /\ UNCHANGED <<loopVars, backlog, idle, wdtVars>>)
                     \/ OwnStep
  BY Zenon DEF DeviceLoop, OwnStep
<1> QED
  BY <1>2, <1>3, <1>4, <1>5, <1>6, <1>7, <1>8 DEF Next

\* Only a request that the server took removes a file.
LEMMA OnlyTaken ==
    ASSUME DeviceInv, ReplyInv, Next, backlog' < backlog
    PROVE  Result = "ok"
<1>0. backlog \in Nat
  BY DeviceAssumption DEF DeviceInv, LoopInv, LoopType
<1>1. backlog' # backlog /\ backlog' # backlog + 1
  BY <1>0
<1>2. Replayed \/ HardReset
  BY <1>1 DEF Next, DeviceLoop, DeviceNetwork, DeviceTick, WifiChanges,
     ConfigReboots, DeepSleep, WatchdogReboot, Ask, Reauthenticate,
     SkipOptional, Disabled, Configured, Updated, Reported, ReplayEmpty,
     ReplayBroken, Pushed, KeptInRam, Spilled, Discarded, StartIdle,
     NextCycle, Leave
<1>3. CASE Replayed
  <2>1. /\ site \in Replays /\ Settled /\ ~IsError(Result)
    BY <1>3 DEF Replayed
  <2>2. asked /\ stage["loop"] = "idle" /\ phase \in {"again", "first"}
    BY <2>1 DEF Settled, Back, Replays
  <2>3. PhaseKind = "post"
    BY <2>1, <2>2 DEF PhaseKind, KindOf, Replays
  <2> QED
    BY <2>1, <2>2, <2>3 DEF ReplyInv, IsError
<1> QED
  BY <1>2, <1>3 DEF HardReset

\* The invariants of a cycle, with or without an outage
LEMMA CycleInvInit == Init => DeviceInv /\ EventInv /\ ReplyInv
<1> SUFFICES ASSUME Init PROVE EventInv /\ ReplyInv
  BY DeviceInvInit
<1>1. /\ "loop" \in Callers /\ "network" \in Callers
      /\ NETWORK_REQUEST_TIMEOUT \in Nat /\ NETWORK_QUEUE_LENGTH \in Nat
  BY NetworkAssumption, DeviceAssumption DEF Callers
<1> QED
  BY <1>1 DEF Init, NetworkInit, EventInv, ReplyInv, OwnServed

LEMMA CycleInvStep ==
    DeviceInv /\ EventInv /\ ReplyInv /\ [Next]_vars
        => DeviceInv' /\ EventInv' /\ ReplyInv'
  BY DeviceInvStep, DeviceStep, EventStep, ReplyStep DEF DeviceInv

-----------------------------------------------------------------------------
(* Two lemmas about the queue, and one about releasing *)

\* Queueing a request adds it and nothing else.
LEMMA QueueGrows ==
    ASSUME NetworkInv, NEW t \in Callers, Enqueue(t)
    PROVE  /\ \A q : InQueue(q)' <=> InQueue(q) \/ q = handle[t]
           /\ queue' # <<>>
<1>1. queue \in Seq(Requests) /\ handle[t] \in Requests
  BY DEF NetworkInv, NetworkTypeOK, OneHolder, Enqueue
<1>2. queue' = Append(queue, handle[t])
  BY DEF Enqueue
<1>3. /\ queue' \in Seq(Requests) /\ Len(queue') = Len(queue) + 1
      /\ \A i \in 1..Len(queue) : queue'[i] = queue[i]
      /\ queue'[Len(queue) + 1] = handle[t]
  BY <1>1, <1>2, AppendProperties
<1>4. \A q : InQueue(q)' <=> InQueue(q) \/ q = handle[t]
  BY <1>1, <1>3 DEF InQueue
<1> QED
  BY <1>1, <1>2, <1>4

\* Receiving takes the first out.
LEMMA QueueShrinks ==
    ASSUME NetworkInv, Receive
    PROVE  /\ InQueue(serving') /\ ~InQueue(serving)'
           /\ \A q : InQueue(q)' => InQueue(q)
           /\ \A q : InQueue(q) => InQueue(q)' \/ q = serving'
<1>1. queue \in Seq(Requests) /\ queue # <<>> /\ queue' = Tail(queue)
      /\ serving' = Head(queue)
  BY DEF NetworkInv, NetworkTypeOK, Receive
<1>2. /\ Len(queue') = Len(queue) - 1 /\ Len(queue) \in Nat \ {0}
      /\ \A i \in 1..Len(queue') : queue'[i] = queue[i + 1]
      /\ serving' = queue[1]
      /\ DOMAIN queue = 1..Len(queue) /\ DOMAIN queue' = 1..Len(queue')
  BY <1>1, HeadTailProperties, EmptySeq
<1>3. \A q : InQueue(q)' => InQueue(q)
  BY <1>2 DEF InQueue
<1>4. \A q : InQueue(q) => InQueue(q)' \/ q = serving'
  <2>1. \A i \in 1..Len(queue) :
           i = 1 \/ (i - 1 \in 1..Len(queue') /\ queue'[i - 1] = queue[i])
    BY <1>2
  <2> QED
    BY <1>2, <2>1 DEF InQueue
<1>5. InQueue(serving')
  BY <1>2 DEF InQueue
<1>6. ~InQueue(serving)'
  BY ReceiveStep DEF NetworkInv, OneHolder
<1> QED
  BY <1>3, <1>4, <1>5, <1>6

\* A caller that lets go of its request changes nothing else of a request that
\* the network task holds.
LEMMA LetGoKeeps ==
    ASSUME NetworkInv, NEW t \in Callers, stage[t] # "idle",
           \/ heap' = Released(handle[t])
           \/ /\ stage[t] = "enqueue"
              /\ heap' = [heap EXCEPT ![handle[t]] = FreeCell],
           NEW q \in Requests, InQueue(q) \/ serving = q
    PROVE  /\ heap'[q].kind = heap[q].kind
           /\ heap'[q].done = heap[q].done
           /\ heap'[q].answer = heap[q].answer
<1>1. PICK r \in Requests : r = handle[t]
  BY DEF NetworkInv, OneHolder
<1>2. heap \in [Requests -> NetworkRequest]
  BY DEF NetworkInv, NetworkTypeOK
<1>3. CASE q # r
  BY <1>1, <1>2, <1>3, ReleasedCell DEF NetworkInv
<1>4. CASE q = r
  <2>1. stage[t] # "enqueue"
    BY <1>1, <1>4 DEF NetworkInv, OneHolder
  <2>2. heap[r].released # 1
    BY <1>1, <1>4 DEF NetworkInv, RequestsOwned, CallerHolds, NetworkHolds
  <2> QED
    BY <1>1, <1>2, <1>4, <2>1, <2>2, ReleasedKeeps
<1> QED
  BY <1>3, <1>4

-----------------------------------------------------------------------------
(* An outage *)

\* Done, but not yet released, is only the request the network task gives back.
Undone ==
    /\ \A r \in Requests : InQueue(r) => ~heap[r].done
    /\ work \notin {"receive", "release"} => ~heap[serving].done
    /\ work = "release" => heap[serving].done
    /\ stage["loop"] = "enqueue" => ~heap[handle["loop"]].done
    /\ stage["loop"] = "wait" =>
          \/ InQueue(handle["loop"]) \/ serving = handle["loop"]
          \/ heap[handle["loop"]].done

Posts == {"poll", "post"}

\* Without WiFi, the network task waits for its event only as long as the loop
\* task waits for the POST it is about, and the event stays behind.
InStep ==
    /\ work # "io"
    /\ \A r \in Requests : InQueue(r) /\ heap[r].kind \in Posts =>
          /\ stage["loop"] = "wait" /\ handle["loop"] = r
          /\ left["loop"] = NETWORK_REQUEST_TIMEOUT
    /\ work = "check" /\ heap[serving].kind \in Posts =>
          OwnServed /\ left["loop"] = NETWORK_REQUEST_TIMEOUT
    /\ work = "event" =>
          /\ heap[serving].kind \in Posts
          /\ stage["network"] = "enqueue" =>
                OwnServed /\ left["loop"] = NETWORK_REQUEST_TIMEOUT
          /\ stage["network"] = "wait" =>
                \/ left["network"] = 0
                \/ OwnServed /\ left["loop"] = left["network"]
          /\ stage["network"] # "enqueue" => queue # <<>>
    /\ work \in {"give", "release"} /\ heap[serving].kind \in Posts =>
          queue # <<>>
    /\ stage["network"] # "idle" => heap[handle["network"]].kind = "event"

OutageInv == NetworkInv /\ EventInv /\ Undone /\ InStep /\ ~wifi

\* The loop task makes a call.
LEMMA OutageCall ==
    ASSUME OutageInv, NEW kind \in Kinds, Call("loop", kind), UNCHANGED work
    PROVE  Undone' /\ InStep'
<1>0. /\ "loop" # "network" /\ Callers = {"loop", "network"}
      /\ NetworkInv
  BY EventFacts DEF OutageInv
<1>1. PICK r \in Requests : /\ ~Live(r)
                            /\ heap' = [heap EXCEPT ![r] = NewRequest(kind)]
                            /\ handle' = [handle EXCEPT !["loop"] = r]
  BY DEF Call
<1>2. /\ stage' = [stage EXCEPT !["loop"] = "enqueue"]
      /\ stage["loop"] = "idle"
      /\ UNCHANGED <<queue, left, serving, work>>
  BY DEF Call
<1>3. /\ stage'["loop"] = "enqueue" /\ stage'["network"] = stage["network"]
      /\ handle'["loop"] = r /\ handle'["network"] = handle["network"]
      /\ ~heap'[r].done
  BY <1>0, <1>1, <1>2, EventFacts DEF NewRequest
<1>4. \A q \in Requests : /\ InQueue(q)' <=> InQueue(q)
                          /\ InQueue(q) \/ serving = q => q # r
                          /\ q # r => heap'[q] = heap[q]
  BY <1>0, <1>1, <1>2, EventFacts DEF InQueue, NetworkInv, RequestsOwned,
     NetworkHolds
<1>5. stage["network"] # "idle" =>
         handle["network"] # r /\ handle["network"] \in Requests
  BY <1>0, <1>1, EventFacts
<1>6. work # "receive" => serving \in Requests
  BY <1>0, EventFacts
<1>7. ~OwnServed
  BY <1>2 DEF OwnServed
<1>8. Undone'
  BY <1>2, <1>3, <1>4, <1>6 DEF OutageInv, Undone
<1>9. InStep'
  BY <1>2, <1>3, <1>4, <1>5, <1>6, <1>7 DEF OutageInv, InStep
<1> QED
  BY <1>8, <1>9

\* The loop task queues its request.
LEMMA OutageEnqueue ==
    ASSUME OutageInv, Enqueue("loop")
    PROVE  Undone' /\ InStep'
<1>0. /\ "loop" # "network" /\ Callers = {"loop", "network"}
      /\ NetworkInv
  BY EventFacts DEF OutageInv
<1>1. /\ stage["loop"] = "enqueue"
      /\ stage' = [stage EXCEPT !["loop"] = "wait"]
      /\ left' = [left EXCEPT !["loop"] = NETWORK_REQUEST_TIMEOUT]
      /\ UNCHANGED <<heap, handle, work, serving>>
  BY DEF Enqueue, TimeoutOf
<1>2. /\ stage'["loop"] = "wait" /\ stage'["network"] = stage["network"]
      /\ left'["loop"] = NETWORK_REQUEST_TIMEOUT
      /\ left'["network"] = left["network"]
  BY <1>0, <1>1, EventFacts
<1>3. /\ \A q : InQueue(q)' <=> InQueue(q) \/ q = handle["loop"]
      /\ queue' # <<>>
  BY <1>0, QueueGrows
<1>4. ~OwnServed /\ ~heap[handle["loop"]].done
  BY <1>1 DEF OwnServed, OutageInv, Undone
<1>5. \A r \in Requests : InQueue(r) => heap[r].kind \notin Posts
  BY <1>1 DEF OutageInv, InStep
<1>6. Undone'
  BY <1>1, <1>2, <1>3, <1>4 DEF OutageInv, Undone
<1>7. InStep'
  BY <1>1, <1>2, <1>3, <1>4, <1>5 DEF OutageInv, InStep
<1> QED
  BY <1>6, <1>7

\* The loop task's call returns.
LEMMA OutageReturn ==
    ASSUME OutageInv, NETWORK_REQUEST_TIMEOUT > 0,
           EnqueueFails("loop") \/ Answered("loop") \/ TimedOut("loop")
    PROVE  Undone' /\ InStep'
<1>0. /\ "loop" # "network" /\ Callers = {"loop", "network"}
      /\ NetworkInv /\ NETWORK_REQUEST_TIMEOUT \in Nat
  BY EventFacts, NetworkAssumption DEF OutageInv
<1>1. PICK o : Return("loop", o)
  BY DEF EnqueueFails, Answered, TimedOut
<1>2. /\ stage["loop"] # "idle"
      /\ UNCHANGED <<queue, work, serving>>
      /\ \/ heap' = Released(handle["loop"])
         \/ /\ stage["loop"] = "enqueue"
            /\ heap' = [heap EXCEPT ![handle["loop"]] = FreeCell]
  BY DEF EnqueueFails, Answered, TimedOut
<1>3. /\ stage'["loop"] = "idle" /\ stage'["network"] = stage["network"]
      /\ left'["network"] = left["network"]
      /\ handle'["network"] = handle["network"]
  BY <1>0, <1>1, EventFacts DEF Return
<1>4. \A q \in Requests : InQueue(q) \/ serving = q =>
         /\ heap'[q].kind = heap[q].kind
         /\ heap'[q].done = heap[q].done
  BY <1>0, <1>2, LetGoKeeps
<1>5. \A q : InQueue(q)' <=> InQueue(q)
  BY <1>2 DEF InQueue
<1>6. work # "receive" => serving \in Requests
  BY <1>0, EventFacts
<1>7. stage["network"] # "idle" =>
         heap'[handle["network"]] = heap[handle["network"]]
  <2>1. SUFFICES ASSUME stage["network"] # "idle"
                 PROVE  heap'[handle["network"]] = heap[handle["network"]]
    OBVIOUS
  <2>2. /\ handle["network"] # handle["loop"]
        /\ handle["network"] \in Requests /\ handle["loop"] \in Requests
    BY <1>0, <1>2, <2>1, EventFacts
  <2> QED
    BY <1>0, <1>2, <2>2, EventFacts, ReleasedCell DEF NetworkInv
<1>8. \/ stage["loop"] = "enqueue"
      \/ heap[handle["loop"]].done
      \/ left["loop"] = 0 /\ heap[handle["loop"]].kind # "ota"
  BY DEF EnqueueFails, Answered, TimedOut, TimesOut
<1>9. \A r \in Requests : InQueue(r) => heap[r].kind \notin Posts
  <2>1. SUFFICES ASSUME NEW r \in Requests, InQueue(r), heap[r].kind \in Posts
                 PROVE  FALSE
    OBVIOUS
  <2>2. /\ stage["loop"] = "wait" /\ handle["loop"] = r
        /\ left["loop"] = NETWORK_REQUEST_TIMEOUT /\ ~heap[r].done
    BY <2>1 DEF OutageInv, InStep, Undone
  <2> QED
    BY <1>0, <1>8, <2>2
<1>10. OwnServed /\ left["loop"] = NETWORK_REQUEST_TIMEOUT =>
          heap[serving].done
  BY <1>0, <1>8 DEF OwnServed
<1>11. Undone'
  BY <1>2, <1>3, <1>4, <1>5, <1>6 DEF OutageInv, Undone
<1>12. /\ work' = "check" => heap'[serving'].kind \notin Posts
       /\ work' = "event" => stage'["network"] # "enqueue"
  BY <1>2, <1>3, <1>4, <1>6, <1>10 DEF OutageInv, InStep, Undone
<1>13. work = "event" /\ stage["network"] = "wait" => left["network"] = 0
  BY <1>8 DEF OutageInv, InStep, Undone, OwnServed
<1>14. InStep'
  BY <1>2, <1>3, <1>4, <1>5, <1>6, <1>7, <1>9, <1>12, <1>13
     DEF OutageInv, InStep
<1> QED
  BY <1>11, <1>14

\* A step of the network task that moves no caller, and of the requests
\* changes only the answer of the one it works on.
LEMMA OutageAnswer ==
    ASSUME OutageInv, NetworkLoop,
           ~Facade("network"), ~Receive, ~NoWifiEvent
    PROVE  Undone' /\ InStep'
<1>0. /\ "loop" # "network" /\ Callers = {"loop", "network"}
      /\ NetworkInv /\ ~InQueue(serving)
  BY EventFacts DEF OutageInv, NetworkInv, OneHolder
<1>1. /\ UNCHANGED <<queue, stage, handle, left>>
      /\ \A q : InQueue(q)' <=> InQueue(q)
      /\ OwnServed' => TimesOut("loop")'
  BY DEF NetworkLoop, BeginIo, FinishIo, NoWifi, NoWifiEventDone, Give,
     Release, InQueue, OwnServed
<1>2. \A r \in Requests : InQueue(r) => r # serving
  BY <1>0
<1>3. stage["loop"] = "enqueue" =>
         handle["loop"] \in Requests /\ handle["loop"] # serving
  BY <1>0, EventFacts
<1>4. stage["network"] # "idle" => work = "event"
  BY DEF OutageInv, EventInv
<1>5. stage["loop"] = "wait" => handle["loop"] \in Requests
  BY <1>0, EventFacts
<1>6. CASE NoWifi \/ NoWifiEventDone
  <2>1. /\ work # "receive" /\ work' = "give" /\ UNCHANGED serving
        /\ \E a : Answer(a)
        /\ stage["network"] = "idle"
        /\ heap[serving].kind \in Posts => queue # <<>>
    BY <1>4, <1>6 DEF NoWifi, NoWifiEventDone, Posts, OutageInv, InStep
  <2>2. \A q \in Requests : /\ heap'[q].kind = heap[q].kind
                            /\ heap'[q].done = heap[q].done
    BY <1>0, <2>1, EventFacts DEF Answer, NetworkRequest
  <2>3. serving \in Requests
    BY <1>0, <2>1, EventFacts
  <2>4. ~heap[serving].done
    BY <1>6 DEF NoWifi, NoWifiEventDone, OutageInv, Undone
  <2>5. Undone'
    BY <1>1, <1>3, <1>5, <2>1, <2>2, <2>3, <2>4 DEF OutageInv, Undone
  <2> QED
    BY <1>1, <2>1, <2>2, <2>3, <2>5 DEF OutageInv, InStep
<1>7. CASE Give
  <2>1. /\ work = "give" /\ work' = "release" /\ UNCHANGED serving
        /\ heap' = [heap EXCEPT ![serving].done = TRUE]
    BY <1>7 DEF Give
  <2>2. serving \in Requests
    BY <1>0, <2>1, EventFacts
  <2>3. /\ \A q \in Requests : q # serving => heap'[q] = heap[q]
        /\ heap'[serving].kind = heap[serving].kind
        /\ heap'[serving].done
    BY <1>0, <2>1, <2>2, EventFacts DEF NetworkRequest
  <2>4. stage["network"] = "idle"
    BY <1>4, <2>1
  <2>5. Undone'
    BY <1>1, <1>2, <1>3, <1>5, <2>1, <2>2, <2>3 DEF OutageInv, Undone
  <2>6. \A q \in Requests : heap'[q].kind = heap[q].kind
    BY <2>3
  <2> QED
    BY <1>1, <2>1, <2>2, <2>4, <2>5, <2>6 DEF OutageInv, InStep
<1>8. CASE Release
  <2>1. /\ work = "release" /\ work' = "receive" /\ serving' = NoRequest
        /\ heap' = Released(serving)
    BY <1>8 DEF Release
  <2>2. serving \in Requests
    BY <1>0, <2>1, EventFacts
  <2>3. \A q \in Requests : q # serving => heap'[q] = heap[q]
    BY <1>0, <2>1, <2>2, ReleasedCell DEF NetworkInv
  <2>4. stage["network"] = "idle"
    BY <1>4, <2>1
  <2>5. stage["loop"] = "wait" /\ handle["loop"] = serving =>
           heap'[handle["loop"]].done
    BY <1>0, <2>1, <2>2, EventFacts, ReleasedKeeps DEF OutageInv, Undone
  <2>6. Undone'
    BY <1>1, <1>2, <1>3, <1>5, <2>1, <2>2, <2>3, <2>5
       DEF OutageInv, Undone
  <2> QED
    BY <1>1, <1>2, <2>1, <2>3, <2>4, <2>6 DEF OutageInv, InStep
<1>9. ~BeginIo /\ ~FinishIo
  BY DEF BeginIo, FinishIo, OutageInv, InStep
<1> QED
  BY <1>6, <1>7, <1>8, <1>9 DEF NetworkLoop

\* The network task takes up a request.
LEMMA OutageReceive ==
    ASSUME OutageInv, Receive
    PROVE  Undone' /\ InStep'
<1>0. NetworkInv /\ "loop" # "network"
  BY EventFacts DEF OutageInv
<1>1. /\ work = "receive" /\ work' = "check"
      /\ UNCHANGED <<heap, stage, handle, left>>
  BY DEF Receive
<1>2. /\ serving = NoRequest /\ stage["network"] = "idle"
      /\ serving' \in Requests
  BY <1>0, <1>1, ReceiveStep DEF OutageInv, EventInv, NetworkInv, OneHolder
<1>3. /\ InQueue(serving')
      /\ \A q : InQueue(q)' => InQueue(q)
      /\ \A q : InQueue(q) => InQueue(q)' \/ q = serving'
  BY <1>0, QueueShrinks
<1>4. stage["loop"] = "wait" => handle["loop"] # serving
  BY <1>0, <1>2, EventFacts
<1>5. Undone'
  BY <1>1, <1>2, <1>3, <1>4 DEF OutageInv, Undone
<1>6. heap'[serving'].kind \in Posts =>
         OwnServed' /\ left'["loop"] = NETWORK_REQUEST_TIMEOUT
  BY <1>1, <1>2, <1>3 DEF OutageInv, InStep, OwnServed, TimesOut, Posts
<1> QED
  BY <1>1, <1>2, <1>3, <1>5, <1>6 DEF OutageInv, InStep

\* The network task reports that WiFi is down.
LEMMA OutageEvent ==
    ASSUME OutageInv, NoWifiEvent
    PROVE  Undone' /\ InStep'
<1>0. /\ "loop" # "network" /\ Callers = {"loop", "network"}
      /\ NetworkInv
  BY EventFacts DEF OutageInv
<1>1. PICK r \in Requests :
         /\ ~Live(r)
         /\ heap' = [heap EXCEPT ![r] = NewRequest("event")]
         /\ handle' = [handle EXCEPT !["network"] = r]
  BY DEF NoWifiEvent, Call
<1>2. /\ stage' = [stage EXCEPT !["network"] = "enqueue"]
      /\ work = "check" /\ work' = "event"
      /\ UNCHANGED <<queue, left, serving>>
      /\ heap[serving].kind \in Posts
  BY DEF NoWifiEvent, Call, Posts
<1>3. /\ stage'["network"] = "enqueue" /\ stage'["loop"] = stage["loop"]
      /\ handle'["network"] = r /\ handle'["loop"] = handle["loop"]
      /\ heap'[r].kind = "event"
  BY <1>0, <1>1, <1>2, EventFacts DEF NewRequest
<1>4. \A q \in Requests : /\ InQueue(q)' <=> InQueue(q)
                          /\ InQueue(q) \/ serving = q => q # r
                          /\ q # r => heap'[q] = heap[q]
  BY <1>0, <1>1, <1>2, EventFacts DEF InQueue, NetworkInv, RequestsOwned,
     NetworkHolds
<1>5. serving \in Requests
  BY <1>0, <1>2, EventFacts
<1>6. stage["loop"] # "idle" =>
         /\ handle["loop"] \in Requests
         /\ heap'[handle["loop"]] = heap[handle["loop"]]
  BY <1>0, <1>1, EventFacts
<1>7. OwnServed' /\ left'["loop"] = NETWORK_REQUEST_TIMEOUT
  BY <1>2, <1>3, <1>6 DEF OutageInv, InStep, OwnServed, TimesOut
<1>8. Undone'
  BY <1>2, <1>3, <1>4, <1>5, <1>6 DEF OutageInv, Undone
<1> QED
  BY <1>2, <1>3, <1>4, <1>5, <1>7, <1>8 DEF OutageInv, InStep

\* The network task in its own facade: its event finds room and is given up,
\* for nobody answers it.
LEMMA OutageFacade ==
    ASSUME OutageInv, Facade("network")
    PROVE  Undone' /\ InStep'
<1>0. /\ "loop" # "network" /\ Callers = {"loop", "network"}
      /\ NetworkInv /\ NETWORK_REQUEST_TIMEOUT \in Nat
      /\ NETWORK_QUEUE_LENGTH \in Nat
  BY EventFacts, NetworkAssumption DEF OutageInv
<1>1. /\ stage["network"] # "idle" /\ work = "event"
      /\ heap[handle["network"]].kind = "event"
      /\ ~heap[handle["network"]].done
      /\ handle["network"] \in Requests /\ serving \in Requests
  <2>1. stage["network"] # "idle"
    BY DEF Facade, Enqueue, EnqueueFails, Answered, TimedOut
  <2>2. work = "event"
    BY <2>1 DEF OutageInv, EventInv
  <2> QED
    BY <1>0, <2>1, <2>2, EventFacts DEF OutageInv, EventInv, InStep
<1>2. CASE Enqueue("network")
  <2>1. /\ stage["network"] = "enqueue"
        /\ stage' = [stage EXCEPT !["network"] = "wait"]
        /\ left' = [left EXCEPT !["network"] = NETWORK_REQUEST_TIMEOUT]
        /\ UNCHANGED <<heap, handle, work, serving>>
    BY <1>2 DEF Enqueue, TimeoutOf
  <2>2. /\ stage'["network"] = "wait" /\ stage'["loop"] = stage["loop"]
        /\ left'["network"] = NETWORK_REQUEST_TIMEOUT
        /\ left'["loop"] = left["loop"]
    BY <1>0, <2>1, EventFacts
  <2>3. /\ \A q : InQueue(q)' <=> InQueue(q) \/ q = handle["network"]
        /\ queue' # <<>>
    BY <1>0, <1>2, QueueGrows
  <2>4. OwnServed' /\ left["loop"] = NETWORK_REQUEST_TIMEOUT
    BY <1>1, <2>1, <2>2 DEF OutageInv, InStep, OwnServed, TimesOut
  <2>5. Undone'
    BY <1>1, <2>1, <2>2, <2>3 DEF OutageInv, Undone
  <2> QED
    BY <1>1, <2>1, <2>2, <2>3, <2>4, <2>5 DEF OutageInv, InStep, Posts
<1>3. ~EnqueueFails("network")
  <2>1. SUFFICES ASSUME EnqueueFails("network") PROVE FALSE
    OBVIOUS
  <2>2. stage["network"] = "enqueue" /\ Len(queue) >= NETWORK_QUEUE_LENGTH
    BY <2>1 DEF EnqueueFails
  <2>3. OwnServed
    BY <1>1, <2>2 DEF OutageInv, InStep
  <2>4. Len(queue) < NETWORK_QUEUE_LENGTH
    BY <2>2, <2>3 DEF OutageInv, EventInv
  <2>5. Len(queue) \in Nat
    BY <1>0, EventFacts
  <2> QED
    BY <1>0, <2>2, <2>4, <2>5
<1>4. ~Answered("network")
  BY <1>1 DEF Answered
<1>5. CASE TimedOut("network")
  <2>1. /\ stage["network"] = "wait" /\ Return("network", "timeout")
        /\ UNCHANGED <<queue, work, serving>>
        /\ heap' = Released(handle["network"])
    BY <1>5 DEF TimedOut
  <2>2. /\ stage'["network"] = "idle" /\ stage'["loop"] = stage["loop"]
        /\ handle'["loop"] = handle["loop"] /\ left'["loop"] = left["loop"]
    BY <1>0, <2>1, EventFacts DEF Return
  <2>3. \A q \in Requests : InQueue(q) \/ serving = q =>
           /\ heap'[q].kind = heap[q].kind
           /\ heap'[q].done = heap[q].done
    BY <1>0, <1>1, <2>1, LetGoKeeps
  <2>4. \A q : InQueue(q)' <=> InQueue(q)
    BY <2>1 DEF InQueue
  <2>5. stage["loop"] # "idle" =>
           /\ handle["loop"] \in Requests
           /\ heap'[handle["loop"]] = heap[handle["loop"]]
    BY <1>0, <1>1, <2>1, EventFacts, ReleasedCell DEF NetworkInv
  <2>6. Undone'
    BY <1>1, <2>1, <2>2, <2>3, <2>4, <2>5 DEF OutageInv, Undone
  <2> QED
    BY <1>1, <2>1, <2>2, <2>3, <2>4, <2>6 DEF OutageInv, InStep
<1> QED
  BY <1>2, <1>3, <1>4, <1>5 DEF Facade

\* Time passes.
LEMMA OutageTick ==
    ASSUME OutageInv, Tick
    PROVE  Undone' /\ InStep'
<1>0. /\ "loop" # "network" /\ Callers = {"loop", "network"}
      /\ NetworkInv
  BY EventFacts DEF OutageInv
<1>1. /\ UNCHANGED <<heap, queue, stage, handle, work, serving>>
      /\ left' = [t \in Callers |-> IF left[t] > 0 THEN left[t] - 1 ELSE 0]
      /\ AllBlocked
  BY DEF Tick
<1>2. /\ left["loop"] \in Nat /\ left["network"] \in Nat
      /\ left'["loop"] = IF left["loop"] > 0 THEN left["loop"] - 1 ELSE 0
      /\ left'["network"] = IF left["network"] > 0
                            THEN left["network"] - 1 ELSE 0
  BY <1>0, <1>1, EventFacts
<1>3. /\ \A q : InQueue(q)' <=> InQueue(q)
      /\ OwnServed' <=> OwnServed
  BY <1>1 DEF InQueue, OwnServed, TimesOut
<1>4. Undone'
  BY <1>1, <1>3 DEF OutageInv, Undone
<1>5. /\ \/ work = "receive" /\ queue = <<>>
         \/ work = "event" /\ stage["network"] = "wait"
      /\ stage["network"] = "wait" => left["network"] > 0
  <2>1. work # "io"
    BY DEF OutageInv, InStep
  <2>2. stage["network"] = "wait" => TimesOut("network")
    BY DEF OutageInv, InStep, TimesOut
  <2> QED
    BY <1>0, <1>1, <2>1, <2>2 DEF AllBlocked
<1>6. stage["network"] = "wait" /\ work = "event" =>
         OwnServed /\ left["loop"] = left["network"]
  BY <1>5 DEF OutageInv, InStep
<1>7. \A r \in Requests : InQueue(r) => heap[r].kind \notin Posts
  <2>1. queue = <<>> => \A r : ~InQueue(r)
    BY DEF InQueue
  <2>2. SUFFICES ASSUME NEW r \in Requests, InQueue(r), heap[r].kind \in Posts
                 PROVE  FALSE
    OBVIOUS
  <2>3. OwnServed /\ handle["loop"] = r
    BY <1>5, <1>6, <2>1, <2>2 DEF OutageInv, InStep
  <2> QED
    BY <1>0, <2>2, <2>3 DEF OwnServed, NetworkInv, OneHolder
<1> QED
  BY <1>1, <1>2, <1>3, <1>4, <1>5, <1>6, <1>7 DEF OutageInv, InStep

\* Every step of an outage keeps OutageInv.
LEMMA OutageStep ==
    ASSUME OutageInv, NETWORK_REQUEST_TIMEOUT > 0,
           [NetworkNext]_networkVars, ~wifi'
    PROVE  OutageInv'
<1>1. SUFFICES Undone' /\ InStep'
  BY NetworkInvStep, EventStep DEF OutageInv
<1>2. CASE \E t \in Clients : ClientCall(t) \/ Facade(t)
  BY <1>2, OutageCall, OutageEnqueue, OutageReturn, DeviceAssumption
     DEF ClientCall, Facade
<1>3. CASE NetworkLoop
  BY <1>3, OutageFacade, OutageReceive, OutageEvent, OutageAnswer
<1>4. CASE Tick
  BY <1>4, OutageTick
<1>5. CASE NetworkReboot
  <2>1. /\ queue' = <<>> /\ stage' = [t \in Callers |-> "idle"]
        /\ work' = "receive"
    BY <1>5 DEF NetworkReboot
  <2>2. stage'["loop"] = "idle" /\ stage'["network"] = "idle"
    BY <2>1, EventFacts DEF OutageInv
  <2>3. \A r : ~InQueue(r)'
    BY <2>1 DEF InQueue
  <2> QED
    BY <2>1, <2>2, <2>3 DEF Undone, InStep
<1>6. CASE SetWifi
  BY <1>6 DEF SetWifi, OutageInv, NetworkInv, NetworkTypeOK
<1>7. CASE UNCHANGED networkVars
  BY <1>7 DEF networkVars, OutageInv, Undone, InStep, InQueue, OwnServed,
     TimesOut
<1> QED
  BY <1>2, <1>3, <1>4, <1>5, <1>6, <1>7 DEF NetworkNext

-----------------------------------------------------------------------------
(* What the loop task hears in an outage, and where it goes *)

\* No server answers: every request fails at its first attempt.
Bad == {"ok", "denied", "wait"}
Unheard == /\ Result \notin Bad
           /\ \A r \in Requests : heap[r].answer \notin Bad

\* No step brings an answer without WiFi.
LEMMA UnheardStep ==
    ASSUME OutageInv, Unheard, [NetworkNext]_networkVars
    PROVE  Unheard'
<1>0. /\ "loop" # "network" /\ Callers = {"loop", "network"}
      /\ NetworkInv /\ heap \in [Requests -> NetworkRequest]
      /\ outcome \in [Callers -> Outcomes]
  BY EventFacts DEF OutageInv
<1>1. FreeCell.answer \notin Bad /\ \A k : NewRequest(k).answer \notin Bad
  BY DEF FreeCell, NewRequest, Bad
<1>2. \A r \in Requests : \A q \in Requests :
         Released(r)[q].answer \notin Bad
  BY <1>0, <1>1 DEF Released, Unheard, NetworkRequest
<1>3. ASSUME NEW t \in Callers, NEW o, o \notin Bad,
             outcome' = [outcome EXCEPT ![t] = o]
      PROVE  Result' \notin Bad
  BY <1>0, <1>3 DEF Result, Unheard
<1>4. ASSUME NEW t \in Callers, NEW kind, Call(t, kind)
      PROVE  Unheard'
  <2>1. PICK r \in Requests : heap' = [heap EXCEPT ![r] = NewRequest(kind)]
    BY <1>4 DEF Call
  <2>2. outcome' = [outcome EXCEPT ![t] = "none"]
    BY <1>4 DEF Call
  <2>3. Result' \notin Bad
    BY <1>3, <2>2 DEF Bad
  <2> QED
    BY <1>0, <1>1, <2>1, <2>3 DEF Unheard
<1>5. ASSUME NEW t \in Callers, Facade(t)
      PROVE  Unheard'
  <2>1. stage[t] # "idle"
    BY <1>5 DEF Facade, Enqueue, EnqueueFails, Answered, TimedOut
  <2>2. PICK h \in Requests : h = handle[t]
    BY <1>0, <2>1 DEF NetworkInv, OneHolder
  <2>3. \/ UNCHANGED <<heap, outcome>>
        \/ /\ heap' = Released(h) \/ heap' = [heap EXCEPT ![h] = FreeCell]
           /\ \E o : o \notin Bad /\ outcome' = [outcome EXCEPT ![t] = o]
    BY <1>5, <2>2 DEF Facade, Enqueue, EnqueueFails, Answered, TimedOut,
       Return, Unheard, Bad
  <2>4. \A q \in Requests : heap'[q].answer \notin Bad
    BY <1>0, <1>1, <1>2, <2>3 DEF Unheard
  <2>5. Result' \notin Bad
    BY <1>3, <2>3 DEF Unheard, Result
  <2> QED
    BY <2>4, <2>5 DEF Unheard
<1>6. CASE NetworkLoop /\ ~Facade("network")
  <2>1. CASE NoWifiEvent
    BY <1>0, <1>4, <2>1 DEF NoWifiEvent
  <2>2. CASE NoWifi \/ NoWifiEventDone
    <3>1. /\ \E a : a \notin Bad /\ Answer(a)
          /\ \/ outcome' = outcome
             \/ outcome' = [outcome EXCEPT !["network"] = "none"]
      BY <2>2 DEF NoWifi, NoWifiEventDone, Bad
    <3>2. \A q \in Requests : heap'[q].answer \notin Bad
      BY <1>0, <3>1 DEF Answer, Unheard, NetworkRequest
    <3>3. Result' \notin Bad
      BY <1>0, <3>1 DEF Unheard, Result
    <3> QED
      BY <3>2, <3>3 DEF Unheard
  <2>3. CASE Receive \/ Give
    BY <1>0, <2>3 DEF Receive, Give, Unheard, Result, NetworkRequest
  <2>4. CASE Release
    <3>1. serving \in Requests /\ heap' = Released(serving)
          /\ UNCHANGED outcome
      BY <1>0, <2>4, EventFacts DEF Release
    <3> QED
      BY <1>2, <3>1 DEF Unheard, Result
  <2>5. ~BeginIo /\ ~FinishIo
    BY DEF BeginIo, FinishIo, OutageInv, InStep
  <2> QED
    BY <1>6, <2>1, <2>2, <2>3, <2>4, <2>5 DEF NetworkLoop
<1>7. CASE NetworkReboot
  BY <1>0, <1>1, <1>7 DEF NetworkReboot, Unheard, Result, Bad
<1>8. CASE Tick \/ SetWifi \/ UNCHANGED networkVars
  BY <1>8 DEF Tick, SetWifi, networkVars, Unheard, Result
<1>9. \A t \in Clients : t \in Callers
  BY DEF Callers
<1> QED
  BY <1>0, <1>4, <1>5, <1>6, <1>7, <1>8, <1>9
     DEF NetworkNext, ClientCall, NetworkLoop

\* Where the loop task goes next, up to a request it always comes to.
LEMMA AfterPlace ==
    ASSUME NEW s \in Sites \ {"idle"}
    PROVE  \E k \in 1..18 :
              /\ After(s) = Order[k] \/ s = "connect"
              /\ k > Position(s) \/ s = "connect"
              /\ \A m \in {3, 9, 16, 17, 18} : m > Position(s) => k <= m
<1> DEFINE later == {i \in DOMAIN Order :
                        /\ i > Position(s)
                        /\ Order[i] \notin Optional \ Happening}
           k == CHOOSE i \in later : \A j \in later : i <= j
<1>1. CASE s = "connect"
  <2>1. Position(s) = 18
    BY <1>1 DEF Position, Order
  <2> QED
    BY <1>1, <2>1
<1>2. CASE s # "connect"
  <2>1. DOMAIN Order = 1..19
    BY DEF Order
  <2>2. Position(s) \in 1..17
    BY <1>2 DEF Position, Sites, KindOf, Order
  <2>3. \A m \in {3, 9, 16, 17, 18} : Order[m] \notin Optional \ Happening
    BY DeviceAssumption DEF Order, Optional
  <2>4. /\ later \subseteq 1..19
        /\ \A m \in {3, 9, 16, 17, 18} : m > Position(s) => m \in later
        /\ \A i \in later : i > Position(s)
        /\ After(s) = Order[k]
    BY <2>1, <2>3 DEF After
  <2> HIDE DEF later
  <2>5. 18 \in later
    BY <2>2, <2>4
  <2>6. \E i \in later : \A j \in later : i <= j
    BY <2>4, <2>5
  <2>7. k \in later /\ \A j \in later : k <= j
    BY <2>6
  <2> HIDE DEF k
  <2>8. k \in 1..18
    BY <2>4, <2>5, <2>7
  <2> QED
    BY <2>4, <2>7, <2>8
<1> QED
  BY <1>1, <1>2

\* So the requests of a cycle come in groups that it passes in order.
Late == {"missing", "publish", "safety", "fault", "stale"}
Early == {"ota", "applied", "rejected"}
LEMMA AfterGroup ==
    /\ \A s \in {"boot", "outcome"} : After(s) \in {"outcome", "config"}
    /\ \A s \in Early \cup {"executed", "otaFailed"} :
          After(s) \in Early \cup {"flush"}
    /\ \A s \in Late \cup {"flush"} :
          After(s) \in Late \cup {"changes", "drain"}
    /\ After("outcome") = "config"
    /\ After("changes") = "drain" /\ After("drain") = "push"
    /\ After("discard") = "connect"
<1>1. \A s \in {"boot", "outcome"} : After(s) \in {"outcome", "config"}
  <2>1. SUFFICES ASSUME NEW s \in {"boot", "outcome"}
                 PROVE  After(s) \in {"outcome", "config"}
    OBVIOUS
  <2>2. s \in Sites \ {"idle"} /\ Position(s) \in 1..2
    BY DEF Position, Sites, KindOf, Order
  <2>3. \E k \in 2..3 : After(s) = Order[k]
    BY <2>2, AfterPlace
  <2> QED
    BY <2>3 DEF Order
<1>2. \A s \in Early \cup {"executed", "otaFailed"} :
         After(s) \in Early \cup {"flush"}
  <2>1. SUFFICES ASSUME NEW s \in Early \cup {"executed", "otaFailed"}
                 PROVE  After(s) \in Early \cup {"flush"}
    OBVIOUS
  <2>2. s \in Sites \ {"idle"} /\ Position(s) \in 5..8
    BY DEF Position, Sites, KindOf, Order, Early
  <2>3. \E k \in 6..9 : After(s) = Order[k]
    BY <2>2, AfterPlace DEF Early
  <2> QED
    BY <2>3 DEF Order, Early
<1>3. \A s \in Late \cup {"flush"} :
         After(s) \in Late \cup {"changes", "drain"}
  <2>1. SUFFICES ASSUME NEW s \in Late \cup {"flush"}
                 PROVE  After(s) \in Late \cup {"changes", "drain"}
    OBVIOUS
  <2>2. s \in Sites \ {"idle"} /\ Position(s) \in 9..14
    BY DEF Position, Sites, KindOf, Order, Late
  <2>3. \E k \in 10..16 : After(s) = Order[k]
    BY <2>2, AfterPlace DEF Late
  <2> QED
    BY <2>3 DEF Order, Late
<1>4. After("changes") = "drain"
  <2>1. "changes" \in Sites \ {"idle"} /\ Position("changes") = 15
    BY DEF Position, Sites, KindOf, Order
  <2>2. After("changes") = Order[16]
    BY <2>1, AfterPlace
  <2> QED
    BY <2>2 DEF Order
<1>5. After("drain") = "push"
  <2>1. "drain" \in Sites \ {"idle"} /\ Position("drain") = 16
    BY DEF Position, Sites, KindOf, Order
  <2>2. After("drain") = Order[17]
    BY <2>1, AfterPlace
  <2> QED
    BY <2>2 DEF Order
<1>6. After("discard") = "connect"
  <2>1. "discard" \in Sites \ {"idle"} /\ Position("discard") = 17
    BY DEF Position, Sites, KindOf, Order
  <2>2. After("discard") = Order[18]
    BY <2>1, AfterPlace
  <2> QED
    BY <2>2 DEF Order
<1>7. After("outcome") = "config"
  <2>1. "outcome" \in Sites \ {"idle"} /\ Position("outcome") = 2
    BY DEF Position, Sites, KindOf, Order
  <2>2. After("outcome") = Order[3]
    BY <2>1, AfterPlace
  <2> QED
    BY <2>2 DEF Order
<1> QED
  BY <1>1, <1>2, <1>3, <1>4, <1>5, <1>6, <1>7

-----------------------------------------------------------------------------
(* The deadlines that the loop task may still have to wait out before it
   feeds the watchdog *)

\* From each request on; a request that has been made has begun its own.
Owed(s) ==
    IF s \in Early \cup {"otaFailed", "flush"} THEN 3 * NETWORK_REQUEST_TIMEOUT
    ELSE IF s \in Late \cup {"changes"} THEN 2 * NETWORK_REQUEST_TIMEOUT
    ELSE IF s \in {"drain", "push"} THEN NETWORK_REQUEST_TIMEOUT
    ELSE IF s = "discard" THEN 0
    ELSE 4 * NETWORK_REQUEST_TIMEOUT

PostSites == {"boot", "config", "ack", "flush", "changes", "drain", "push"}

Debt(s, made, where, rest) ==
    IF ~made \/ s \notin PostSites THEN Owed(s)
    ELSE Owed(s) - NETWORK_REQUEST_TIMEOUT
         + (IF where = "enqueue" THEN NETWORK_REQUEST_TIMEOUT
            ELSE IF where = "wait" THEN rest ELSE 0)
LoopDebt == Debt(site, asked, stage["loop"], left["loop"])

\* It is never more than four deadlines.
LEMMA DebtBound ==
    /\ \A s : Owed(s) \in 0..4 * NETWORK_REQUEST_TIMEOUT
    /\ \A s \in PostSites : Owed(s) >= NETWORK_REQUEST_TIMEOUT
    /\ \A s, made, where : \A rest \in 0..NETWORK_REQUEST_TIMEOUT :
          Debt(s, made, where, rest) \in 0..4 * NETWORK_REQUEST_TIMEOUT
<1>0. NETWORK_REQUEST_TIMEOUT \in Nat
  BY NetworkAssumption
<1>1. \A s : Owed(s) \in 0..4 * NETWORK_REQUEST_TIMEOUT
  BY <1>0 DEF Owed
<1>2. \A s \in PostSites : Owed(s) >= NETWORK_REQUEST_TIMEOUT
  BY <1>0 DEF Owed, PostSites, Early, Late
<1>3. \A s, made, where : \A rest \in 0..NETWORK_REQUEST_TIMEOUT :
         Debt(s, made, where, rest) \in 0..4 * NETWORK_REQUEST_TIMEOUT
  BY <1>0, <1>1, <1>2 DEF Debt
<1> QED
  BY <1>1, <1>2, <1>3

\* What is left of a wait is no longer than the deadline.
LEMMA DebtType ==
    ASSUME OutageInv
    PROVE  /\ LoopDebt \in 0..4 * NETWORK_REQUEST_TIMEOUT
           /\ left["loop"] \in 0..NETWORK_REQUEST_TIMEOUT
<1>1. left["loop"] \in 0..NETWORK_REQUEST_TIMEOUT
  BY EventFacts, NetworkAssumption DEF OutageInv, EventInv
<1> QED
  BY <1>1, DebtBound DEF LoopDebt

\* Without an answer the loop task comes to no command, and retries nothing.
Unanswered == Unheard /\ phase = "first" /\ site \notin {"ack", "executed"}

\* A step of the loop task on its own owes no more, or feeds the watchdog.
LoopMove ==
    /\ UNCHANGED networkVars
    /\ phase' = "first" /\ asked' = FALSE
    /\ \/ UNCHANGED wdtVars /\ Owed(site') <= LoopDebt
       \/ UNCHANGED wdtVars /\ site \in {"boot", "outcome"}
       \/ Feed("loop")
    /\ site' \in {"boot", "outcome"} => site \in {"boot", "outcome"}
    /\ site' \notin {"ack", "executed"}
    /\ IF site' = "idle" THEN site = "connect" /\ idle' \in IdleTimes
       ELSE idle' = idle
    /\ site = "idle" => site' = "config"
    /\ site = "config" => asked /\ stage["loop"] = "idle"

\* Every such step is one of these, or ends in a reboot.
LEMMA LoopMoves ==
    ASSUME DeviceInv, ReplyInv, Unanswered, OwnStep \/ Updated
    PROVE  LoopMove \/ Reboot
<1>0. NETWORK_REQUEST_TIMEOUT \in Nat
  BY NetworkAssumption
<1>1. Result \notin {"ok", "denied", "wait"} /\ phase = "first"
      /\ site \notin {"ack", "executed"}
  BY DEF Unanswered, Unheard, Bad
<1>2. ~asked => LoopDebt = Owed(site)
  BY DEF LoopDebt, Debt
<1>3. Back => /\ asked /\ stage["loop"] = "idle"
              /\ LoopDebt = IF site \in PostSites
                            THEN Owed(site) - NETWORK_REQUEST_TIMEOUT
                            ELSE Owed(site)
  <2>1. \A s : Owed(s) \in Nat
    BY <1>0 DEF Owed
  <2> QED
    BY <1>0, <2>1 DEF Back, LoopDebt, Debt
<1>4. ASSUME NEW s, Leave(s),
             s \notin {"boot", "idle", "ack", "executed"},
             s = "outcome" => site = "boot",
             \/ s = "connect" \/ Owed(s) <= LoopDebt
             \/ site \in {"boot", "outcome"},
             site = "config" => asked /\ stage["loop"] = "idle",
             site = "idle" => s = "config"
      PROVE  LoopMove
  BY <1>4 DEF LoopMove, Leave, GoTo
<1>5. CASE Reauthenticate
  BY <1>1, <1>5 DEF Reauthenticate
<1>6. CASE SkipOptional
  <2>1. /\ site \in Early \cup Late \cup {"boot", "outcome", "changes"}
        /\ ~asked /\ Leave(After(site))
    BY <1>1, <1>6 DEF SkipOptional, Optional, Early, Late
  <2>2. CASE site \in {"boot", "outcome"}
    <3>1. After(site) \in {"outcome", "config"}
      BY <2>2, AfterGroup
    <3>2. After(site) = "outcome" => site = "boot"
      BY <2>1, <2>2, <3>1, AfterGroup
    <3> QED
      BY <1>4, <2>1, <2>2, <3>1, <3>2
  <2>3. CASE site \in Early
    <3>1. After(site) \in Early \cup {"flush"}
      BY <2>3, AfterGroup
    <3>2. Owed(After(site)) <= Owed(site)
      BY <1>0, <2>3, <3>1 DEF Owed
    <3> QED
      BY <1>2, <1>4, <2>1, <2>3, <3>1, <3>2 DEF Early
  <2>4. CASE site \in Late
    <3>1. After(site) \in Late \cup {"changes", "drain"}
      BY <2>4, AfterGroup
    <3>2. Owed(After(site)) <= Owed(site)
      BY <1>0, <2>4, <3>1 DEF Owed, Early, Late
    <3> QED
      BY <1>2, <1>4, <2>1, <2>4, <3>1, <3>2 DEF Late
  <2>5. CASE site = "changes"
    <3>1. Owed("drain") <= Owed("changes")
      BY <1>0 DEF Owed, Early, Late
    <3> QED
      BY <1>2, <1>4, <2>1, <2>5, <3>1, AfterGroup
  <2> QED
    BY <2>1, <2>2, <2>3, <2>4, <2>5
<1>7. CASE Disabled
  BY <1>4, <1>7 DEF Disabled
<1>8. CASE Configured
  <2>1. /\ site = "config" /\ Back /\ Leave(After("executed"))
    BY <1>1, <1>8 DEF Configured, Settled
  <2>2. After("executed") \in Early \cup {"flush"}
    BY AfterGroup
  <2>3. Owed(After("executed")) <= LoopDebt
    BY <1>0, <1>3, <2>1, <2>2 DEF Owed, PostSites, Early, Late
  <2> QED
    BY <1>3, <1>4, <2>1, <2>2, <2>3 DEF Early
<1>9. CASE Updated
  <2>1. site = "ota" /\ Back /\ (Leave("otaFailed") \/ Reboot)
    BY <1>9 DEF Updated, Settled
  <2>2. Owed("otaFailed") <= LoopDebt
    BY <1>0, <1>3, <2>1 DEF Owed, PostSites, Early, Late
  <2> QED
    BY <1>4, <2>1, <2>2
<1>10. CASE Reported
  <2>1. /\ site \in Early \cup Late
              \cup {"boot", "outcome", "changes", "otaFailed", "discard"}
        /\ Back /\ Leave(After(site))
    BY <1>1, <1>10 DEF Reported, Optional, Settled, Early, Late
  <2>2. CASE site \in {"boot", "outcome"}
    <3>1. After(site) \in {"outcome", "config"}
      BY <2>2, AfterGroup
    <3>2. After(site) = "outcome" => site = "boot"
      BY <2>1, <2>2, <3>1, AfterGroup
    <3> QED
      BY <1>4, <2>1, <2>2, <3>1, <3>2
  <2>3. CASE site \in Early \cup {"otaFailed"}
    <3>1. After(site) \in Early \cup {"flush"}
      BY <2>3, AfterGroup
    <3>2. Owed(After(site)) <= LoopDebt
      BY <1>0, <1>3, <2>1, <2>3, <3>1 DEF Owed, PostSites, Early, Late
    <3> QED
      BY <1>4, <2>1, <2>3, <3>1, <3>2 DEF Early
  <2>4. CASE site \in Late
    <3>1. After(site) \in Late \cup {"changes", "drain"}
      BY <2>4, AfterGroup
    <3>2. Owed(After(site)) <= LoopDebt
      BY <1>0, <1>3, <2>1, <2>4, <3>1 DEF Owed, PostSites, Early, Late
    <3> QED
      BY <1>4, <2>1, <2>4, <3>1, <3>2 DEF Late
  <2>5. CASE site = "changes"
    <3>1. Owed("drain") <= LoopDebt
      BY <1>0, <1>3, <2>1, <2>5 DEF Owed, PostSites, Early, Late
    <3> QED
      BY <1>4, <2>1, <2>5, <3>1, AfterGroup
  <2>6. CASE site = "discard"
    BY <1>4, <2>1, <2>6, AfterGroup
  <2> QED
    BY <2>1, <2>2, <2>3, <2>4, <2>5, <2>6
<1>11. CASE ReplayEmpty \/ ReplayBroken
  <2>1. /\ site = "flush" \/ (site = "drain" /\ ~asked)
        /\ ~asked \/ Back
        /\ Leave(After(site))
    BY <1>11 DEF ReplayEmpty, ReplayBroken, Replays, Settled
  <2>2. CASE site = "flush"
    <3>1. After(site) \in Late \cup {"changes", "drain"}
      BY <2>2, AfterGroup
    <3>2. Owed(After(site)) <= LoopDebt
      BY <1>0, <1>2, <1>3, <2>1, <2>2, <3>1 DEF Owed, PostSites, Early, Late
    <3> QED
      BY <1>4, <2>1, <2>2, <3>1, <3>2 DEF Late
  <2>3. CASE site = "drain" /\ ~asked
    <3>1. Owed("push") <= LoopDebt
      BY <1>0, <1>2, <2>3 DEF Owed, PostSites, Early, Late
    <3> QED
      BY <1>4, <2>1, <2>3, <3>1, AfterGroup
  <2> QED
    BY <2>1, <2>2, <2>3
<1>12. CASE Replayed
  BY <1>12 DEF Replayed, Replays, GoTo, LoopMove
<1>13. CASE Pushed \/ KeptInRam
  BY <1>4, <1>13 DEF Pushed, KeptInRam, PushFailed
<1>14. CASE Spilled
  BY <1>14 DEF Spilled, PushFailed, GoTo, LoopMove
<1>15. CASE Discarded
  <2>1. site \in {"push", "drain"} /\ Back /\ Leave("discard")
    BY <1>15 DEF Discarded, PushFailed, Settled
  <2>2. Owed("discard") <= LoopDebt
    BY <1>0, <1>3, <2>1 DEF Owed, PostSites, Early, Late
  <2> QED
    BY <1>4, <2>1, <2>2
<1>16. CASE StartIdle
  <2>1. /\ site = "connect" /\ site' = "idle" /\ idle' \in IdleTimes
        /\ phase' = "first" /\ asked' = FALSE
        /\ UNCHANGED networkVars /\ UNCHANGED wdtVars
    BY <1>16 DEF StartIdle, GoTo
  <2>2. Owed("idle") <= LoopDebt
    BY <1>0, <2>1 DEF Owed, LoopDebt, Debt, PostSites, Early, Late
  <2> QED
    BY <2>1, <2>2 DEF LoopMove
<1>17. CASE NextCycle
  <2>1. site = "idle" /\ Leave("config") /\ ~asked
    BY <1>17 DEF NextCycle, ReplyInv
  <2>2. Owed("config") <= LoopDebt
    BY <1>0, <1>2, <2>1 DEF Owed, Early, Late
  <2> QED
    BY <1>4, <2>1, <2>2
<1> QED
  BY <1>5, <1>6, <1>7, <1>8, <1>9, <1>10, <1>11, <1>12, <1>13, <1>14,
     <1>15, <1>16, <1>17 DEF OwnStep

-----------------------------------------------------------------------------
(* The watchdog in an outage *)

\* While it reports WiFi, the network task picks nothing up for as long.
Reporting == work = "event" \/ (work = "check" /\ heap[serving].kind \in Posts)
ReportDebt ==
    IF work = "check" \/ stage["network"] = "enqueue"
    THEN NETWORK_REQUEST_TIMEOUT
    ELSE IF stage["network"] = "wait" THEN left["network"] ELSE 0

\* Else it does so at once, or when the poll after the idle wait is queued.
Polling == site = "config" /\ (~asked \/ stage["loop"] = "enqueue")
NetworkPaid ==
    /\ Reporting => wdt > ReportDebt
    /\ ~Reporting /\ queue = <<>> =>
          /\ site = "idle" => wdt > idle
          /\ site # "idle" /\ ~Polling => \A i \in IdleTimes : wdt > i

\* Whoever has not fed the watchdog since it was restarted does so in time.
InTime ==
    /\ wdt > 0 /\ idle < WDT_TIMEOUT
    /\ site \in {"boot", "outcome"} => wdt = WDT_TIMEOUT
    /\ "loop" \in Watched \ fed => wdt > LoopDebt
    /\ "network" \in Watched \ fed => NetworkPaid

\* That wait is no longer than the deadline either.
LEMMA ReportType ==
    /\ OutageInv => ReportDebt \in Int
    /\ OutageInv' => ReportDebt' \in Int
<1>1. NETWORK_REQUEST_TIMEOUT \in Nat /\ "network" \in Callers
  BY NetworkAssumption DEF Callers
<1> QED
  BY <1>1 DEF OutageInv, NetworkInv, NetworkTypeOK, ReportDebt

\* Only the requests of PostSites are POSTs that are reported.
LEMMA SiteKinds ==
    \A s \in Sites \ {"idle"} : KindOf[s] \in Posts => s \in PostSites
  BY DEF Sites, KindOf, Posts, PostSites

\* The same of the debt after a step
LEMMA DebtPrimed == OutageInv' => LoopDebt' \in Int
<1>1. /\ NETWORK_REQUEST_TIMEOUT \in Nat /\ "loop" \in Callers
  BY NetworkAssumption, DeviceAssumption DEF Callers
<1>2. OutageInv' => left'["loop"] \in 0..NETWORK_REQUEST_TIMEOUT
  BY <1>1 DEF OutageInv, EventInv, NetworkInv, NetworkTypeOK
<1> QED
  BY <1>1, <1>2, DebtBound DEF LoopDebt

\* A restarted watchdog outlasts all of this.
LEMMA Restarted ==
    ASSUME EnoughTime, OutageInv', DeviceInv', wdt' = WDT_TIMEOUT,
           idle' < WDT_TIMEOUT
    PROVE  InTime'
<1>0. /\ NETWORK_REQUEST_TIMEOUT \in Nat /\ WDT_TIMEOUT \in Nat
      /\ 4 * NETWORK_REQUEST_TIMEOUT < WDT_TIMEOUT
      /\ 0 < NETWORK_REQUEST_TIMEOUT
      /\ \A i \in IdleTimes : i < WDT_TIMEOUT
      /\ "loop" \in Callers /\ "network" \in Callers
  BY NetworkAssumption, DeviceAssumption DEF EnoughTime, Callers
<1>1. /\ left'["loop"] \in 0..NETWORK_REQUEST_TIMEOUT
      /\ left'["network"] \in Nat
  BY <1>0 DEF OutageInv, EventInv, NetworkInv, NetworkTypeOK
<1>2. WDT_TIMEOUT > LoopDebt'
  <2>1. LoopDebt' \in 0..4 * NETWORK_REQUEST_TIMEOUT
    BY <1>1, DebtBound DEF LoopDebt
  <2> QED
    BY <1>0, <2>1
<1>3. Reporting' => WDT_TIMEOUT > ReportDebt'
  <2>1. CASE work' = "event" /\ stage'["network"] = "wait"
    <3>1. left'["network"] <= NETWORK_REQUEST_TIMEOUT
      BY <1>0, <1>1, <2>1 DEF OutageInv, InStep
    <3> QED
      BY <1>0, <1>1, <2>1, <3>1 DEF ReportDebt
  <2>2. CASE ~(work' = "event" /\ stage'["network"] = "wait")
    BY <1>0, <2>2 DEF Reporting, ReportDebt
  <2> QED
    BY <2>1, <2>2
<1> QED
  BY <1>0, <1>2, <1>3 DEF InTime, NetworkPaid

\* Whoever feeds it, the watchdog is restarted or what is left of it stays.
LEMMA FeedCases ==
    ASSUME NEW task, Feed(task)
    PROVE  \/ wdt' = WDT_TIMEOUT
           \/ wdt' = wdt /\ fed' = fed \cup {task}
  BY DEF Feed, FedBy

\* The loop task goes on.
LEMMA MoveInTime ==
    ASSUME EnoughTime, OutageInv, DeviceInv, OutageInv', DeviceInv', InTime,
           LoopMove
    PROVE  InTime'
<1>0. /\ UNCHANGED <<work, heap, serving, stage, left, queue>>
      /\ asked' = FALSE
  BY DEF LoopMove, networkVars
<1>1. idle' < WDT_TIMEOUT
  BY DEF LoopMove, InTime, EnoughTime
<1>2. \/ wdt' = WDT_TIMEOUT
      \/ /\ wdt' = wdt /\ Watched \ fed' \subseteq Watched \ fed
         /\ "loop" \in Watched \ fed' => Owed(site') <= LoopDebt
  BY FeedCases DEF LoopMove, wdtVars, InTime
<1>3. CASE wdt' = WDT_TIMEOUT
  BY <1>1, <1>3, Restarted
<1>4. CASE /\ wdt' = wdt /\ Watched \ fed' \subseteq Watched \ fed
           /\ "loop" \in Watched \ fed' => Owed(site') <= LoopDebt
  <2>1. LoopDebt' = Owed(site')
    BY <1>0 DEF LoopDebt, Debt
  <2>2. "loop" \in Watched \ fed' => wdt' > LoopDebt'
    <3>1. SUFFICES ASSUME "loop" \in Watched \ fed'
                   PROVE  wdt > Owed(site')
      BY <1>4, <2>1
    <3>2. wdt > LoopDebt /\ Owed(site') <= LoopDebt
      BY <1>4, <3>1 DEF InTime
    <3>3. /\ Owed(site') \in 0..4 * NETWORK_REQUEST_TIMEOUT
          /\ wdt \in 0..WDT_TIMEOUT
      BY DebtBound DEF DeviceInv, WdtType
    <3>4. LoopDebt \in Int
      BY DebtBound, DebtType
    <3> QED
      BY <3>2, <3>3, <3>4, NetworkAssumption
  <2>3. Reporting' = Reporting /\ ReportDebt' = ReportDebt
    BY <1>0 DEF Reporting, ReportDebt
  <2>4. "network" \in Watched \ fed' => NetworkPaid'
    <3>1. SUFFICES ASSUME NetworkPaid PROVE NetworkPaid'
      BY <1>4 DEF InTime
    <3>2. CASE site' = "idle"
      <4>1. site = "connect" /\ idle' \in IdleTimes
        BY <3>2 DEF LoopMove
      <4> QED
        BY <1>0, <1>4, <2>3, <3>1, <3>2, <4>1 DEF NetworkPaid, Polling
    <3>3. CASE site' # "idle"
      <4>1. site = "idle" => Polling'
        BY <1>0 DEF LoopMove, Polling
      <4>2. ~Polling
        BY DEF LoopMove, Polling
      <4> QED
        BY <1>0, <1>4, <2>3, <3>1, <3>3, <4>1, <4>2 DEF NetworkPaid
    <3> QED
      BY <3>2, <3>3
  <2>5. site' \in {"boot", "outcome"} => wdt' = WDT_TIMEOUT
    BY <1>4 DEF LoopMove, InTime
  <2> QED
    BY <1>1, <1>4, <2>2, <2>4, <2>5 DEF InTime
<1> QED
  BY <1>2, <1>3, <1>4

\* A step in which neither the watchdog nor the idle wait moves.
LEMMA StillInTime ==
    ASSUME OutageInv, DeviceInv, InTime, UNCHANGED <<site, idle, fed, wdt>>,
           LoopDebt' <= LoopDebt, LoopDebt' \in Int,
           Reporting' => Reporting /\ ReportDebt' <= ReportDebt,
           ReportDebt' \in Int /\ ReportDebt \in Int,
           ~Reporting' /\ queue' = <<>> =>
              ~Reporting /\ queue = <<>> /\ (Polling => Polling')
    PROVE  InTime'
<1>1. wdt \in Int /\ LoopDebt \in Int
  BY DebtType DEF DeviceInv, WdtType
<1>2. "loop" \in Watched \ fed' => wdt' > LoopDebt'
  BY <1>1 DEF InTime
<1>3. NetworkPaid => NetworkPaid'
  <2>1. Reporting' /\ NetworkPaid => wdt' > ReportDebt'
    BY <1>1 DEF NetworkPaid
  <2> QED
    BY <2>1 DEF NetworkPaid
<1> QED
  BY <1>2, <1>3 DEF InTime

\* The loop task makes a call.
LEMMA AskInTime ==
    ASSUME OutageInv, DeviceInv, OutageInv', ReplyInv, InTime, Ask, Unanswered
    PROVE  InTime'
<1>0. /\ "loop" # "network" /\ Callers = {"loop", "network"}
      /\ NetworkInv /\ NETWORK_REQUEST_TIMEOUT \in Nat
  BY EventFacts, NetworkAssumption DEF OutageInv
<1>1. /\ Call("loop", PhaseKind) /\ asked' = TRUE /\ ~asked
      /\ UNCHANGED <<site, idle, fed, wdt, work>>
  BY DEF Ask, wdtVars
<1>2. PICK r \in Requests :
         /\ ~Live(r)
         /\ heap' = [heap EXCEPT ![r] = NewRequest(PhaseKind)]
  BY <1>1 DEF Call
<1>3. /\ stage' = [stage EXCEPT !["loop"] = "enqueue"]
      /\ UNCHANGED <<queue, left, serving>>
  BY <1>1 DEF Call
<1>4. /\ stage'["loop"] = "enqueue" /\ stage'["network"] = stage["network"]
  BY <1>0, <1>3, EventFacts
<1>5. work # "receive" => heap'[serving] = heap[serving]
  BY <1>0, <1>2, EventFacts DEF NetworkInv, RequestsOwned, NetworkHolds
<1>6. Reporting' = Reporting /\ ReportDebt' = ReportDebt
  BY <1>1, <1>3, <1>4, <1>5 DEF Reporting, ReportDebt
<1>7. LoopDebt' = LoopDebt
  <2>1. Owed(site) \in Nat
    BY <1>0, DebtBound
  <2> QED
    BY <1>0, <1>1, <1>4, <2>1 DEF LoopDebt, Debt
<1>8. Polling => Polling'
  BY <1>1, <1>4 DEF Polling
<1> QED
  BY <1>1, <1>3, <1>6, <1>7, <1>8, DebtType, ReportType, StillInTime

\* The loop task in its facade
LEMMA FacadeInTime ==
    ASSUME EnoughTime, OutageInv, DeviceInv, OutageInv', ReplyInv, InTime,
           Facade("loop"), UNCHANGED <<loopVars, backlog, idle, wdtVars>>
    PROVE  InTime'
<1>0. /\ "loop" # "network" /\ Callers = {"loop", "network"}
      /\ NetworkInv /\ NETWORK_REQUEST_TIMEOUT \in Nat
      /\ left["loop"] \in Nat
  BY EventFacts, NetworkAssumption DEF OutageInv
<1>1. UNCHANGED <<site, asked, idle, fed, wdt>>
  BY DEF loopVars, wdtVars
<1>2. stage["loop"] # "idle" /\ asked
  BY DEF ReplyInv, Facade, Enqueue, EnqueueFails, Answered, TimedOut
<1>3. CASE Enqueue("loop")
  <2>1. /\ stage["loop"] = "enqueue"
        /\ stage' = [stage EXCEPT !["loop"] = "wait"]
        /\ left' = [left EXCEPT !["loop"] = NETWORK_REQUEST_TIMEOUT]
        /\ UNCHANGED <<heap, work, serving>>
    BY <1>3 DEF Enqueue, TimeoutOf
  <2>2. /\ stage'["loop"] = "wait" /\ stage'["network"] = stage["network"]
        /\ left'["loop"] = NETWORK_REQUEST_TIMEOUT
        /\ left'["network"] = left["network"]
    BY <1>0, <2>1, EventFacts
  <2>3. queue' # <<>>
    BY <1>0, <1>3, QueueGrows
  <2>4. Reporting' = Reporting /\ ReportDebt' = ReportDebt
    BY <2>1, <2>2 DEF Reporting, ReportDebt
  <2>5. LoopDebt' = LoopDebt
    BY <1>1, <2>1, <2>2 DEF LoopDebt, Debt
  <2> QED
    BY <1>1, <2>3, <2>4, <2>5, DebtType, ReportType, StillInTime
<1>4. CASE EnqueueFails("loop") \/ Answered("loop") \/ TimedOut("loop")
  <2>1. PICK o : Return("loop", o)
    BY <1>4 DEF EnqueueFails, Answered, TimedOut
  <2>2. /\ UNCHANGED <<queue, work, serving>>
        /\ \/ heap' = Released(handle["loop"])
           \/ /\ stage["loop"] = "enqueue"
              /\ heap' = [heap EXCEPT ![handle["loop"]] = FreeCell]
    BY <1>4 DEF EnqueueFails, Answered, TimedOut
  <2>3. /\ stage'["loop"] = "idle" /\ stage'["network"] = stage["network"]
        /\ left'["loop"] = 0 /\ left'["network"] = left["network"]
    BY <1>0, <2>1, EventFacts DEF Return
  <2>4. work # "receive" => heap'[serving].kind = heap[serving].kind
    BY <1>0, <1>2, <2>2, EventFacts, LetGoKeeps
  <2>5. Reporting' = Reporting /\ ReportDebt' = ReportDebt
    BY <2>2, <2>3, <2>4 DEF Reporting, ReportDebt
  <2>6. LoopDebt' <= LoopDebt /\ LoopDebt' \in Int
    <3>1. Owed(site) \in Nat
      BY <1>0, DebtBound
    <3> QED
      BY <1>0, <1>1, <1>2, <2>3, <3>1, EventFacts DEF LoopDebt, Debt
  <2>7. queue' = <<>> => ~Polling
    <3>1. EnqueueFails("loop") => queue # <<>>
      <4>1. EnqueueFails("loop") => Len(queue) >= NETWORK_QUEUE_LENGTH
        BY DEF EnqueueFails
      <4>2. NETWORK_QUEUE_LENGTH \in Nat /\ NETWORK_QUEUE_LENGTH > 0
            /\ Len(<<>>) = 0
        BY NetworkAssumption DEF EnoughTime
      <4> QED
        BY <4>1, <4>2
    <3>2. stage["loop"] = "enqueue" => EnqueueFails("loop")
      BY <1>4 DEF Answered, TimedOut
    <3> QED
      BY <1>2, <2>2, <3>1, <3>2 DEF Polling
  <2> QED
    BY <1>1, <2>2, <2>5, <2>6, <2>7, DebtType, ReportType, StillInTime
<1> QED
  BY <1>3, <1>4 DEF Facade

\* The network task goes on with a request.
LEMMA NetworkMoves ==
    ASSUME OutageInv, OutageInv', NetworkLoop, ~Receive
    PROVE  /\ stage'["loop"] = stage["loop"] /\ left'["loop"] = left["loop"]
           /\ Reporting' => Reporting /\ ReportDebt' <= ReportDebt
           /\ ~Reporting' /\ queue' = <<>> => ~Reporting /\ queue = <<>>
<1>0. /\ "loop" # "network" /\ Callers = {"loop", "network"}
      /\ NetworkInv /\ NETWORK_REQUEST_TIMEOUT \in Nat
      /\ left["network"] \in Nat
  BY EventFacts, NetworkAssumption DEF OutageInv
<1>1. stage["network"] # "idle" => work = "event"
  BY DEF OutageInv, EventInv
<1>2. ReportDebt \in Int
  BY ReportType
<1>3. CASE NoWifi
  BY <1>3 DEF NoWifi, Reporting, Posts
<1>4. CASE NoWifiEvent
  <2>1. /\ work = "check" /\ work' = "event" /\ UNCHANGED <<queue, left>>
        /\ heap[serving].kind \in Posts
        /\ stage' = [stage EXCEPT !["network"] = "enqueue"]
    BY <1>4 DEF NoWifiEvent, Call, Posts
  <2>2. stage'["network"] = "enqueue" /\ stage'["loop"] = stage["loop"]
    BY <1>0, <2>1, EventFacts
  <2> QED
    BY <1>0, <2>1, <2>2 DEF Reporting, ReportDebt
<1>5. CASE NoWifiEventDone
  <2>1. /\ work = "event" /\ work' = "give" /\ stage["network"] = "idle"
        /\ UNCHANGED <<queue, stage, left>>
    BY <1>5 DEF NoWifiEventDone
  <2> QED
    BY <2>1 DEF Reporting, OutageInv, InStep
<1>6. CASE Give \/ Release
  BY <1>6 DEF Give, Release, Reporting
<1>7. ~BeginIo /\ ~FinishIo
  BY DEF BeginIo, FinishIo, OutageInv, InStep
<1>8. CASE Facade("network")
  <2>1. stage["network"] # "idle" /\ work = "event" /\ UNCHANGED work
    BY <1>1, <1>8 DEF Facade, Enqueue, EnqueueFails, Answered, TimedOut
  <2>2. CASE Enqueue("network")
    <3>1. /\ stage["network"] = "enqueue"
          /\ stage' = [stage EXCEPT !["network"] = "wait"]
          /\ left' = [left EXCEPT !["network"] = NETWORK_REQUEST_TIMEOUT]
      BY <2>2 DEF Enqueue, TimeoutOf
    <3>2. /\ stage'["network"] = "wait" /\ stage'["loop"] = stage["loop"]
          /\ left'["network"] = NETWORK_REQUEST_TIMEOUT
          /\ left'["loop"] = left["loop"]
      BY <1>0, <3>1, EventFacts
    <3> QED
      BY <1>0, <2>1, <3>1, <3>2 DEF Reporting, ReportDebt
  <2>3. ASSUME NEW o, Return("network", o)
        PROVE  /\ stage'["network"] = "idle" /\ stage'["loop"] = stage["loop"]
               /\ left'["loop"] = left["loop"]
    BY <1>0, <2>3, EventFacts DEF Return
  <2>4. CASE EnqueueFails("network") \/ Answered("network")
             \/ TimedOut("network")
    <3>1. /\ stage'["network"] = "idle" /\ stage'["loop"] = stage["loop"]
          /\ left'["loop"] = left["loop"]
      BY <2>3, <2>4 DEF EnqueueFails, Answered, TimedOut
    <3>2. ReportDebt' = 0 /\ 0 <= ReportDebt
      BY <1>0, <2>1, <3>1 DEF ReportDebt
    <3> QED
      BY <2>1, <3>1, <3>2 DEF Reporting
  <2> QED
    BY <1>8, <2>2, <2>4 DEF Facade
<1> QED
  BY <1>3, <1>4, <1>5, <1>6, <1>7, <1>8 DEF NetworkLoop

\* The network task feeds where it picks a request up.
LEMMA NetworkInTime ==
    ASSUME EnoughTime, OutageInv, DeviceInv, OutageInv', DeviceInv', InTime,
           DeviceNetwork
    PROVE  InTime'
<1>1. UNCHANGED <<site, asked, idle>>
  BY DEF DeviceNetwork, loopVars
<1>2. CASE Receive /\ Feed("network")
  <2>1. UNCHANGED <<stage, left>>
    BY <1>2 DEF Receive
  <2>2. LoopDebt' = LoopDebt
    BY <1>1, <2>1 DEF LoopDebt
  <2>3. CASE wdt' = WDT_TIMEOUT
    BY <1>1, <2>3, Restarted DEF InTime
  <2>4. CASE wdt' = wdt /\ fed' = fed \cup {"network"}
    BY <1>1, <2>2, <2>4 DEF InTime
  <2> QED
    BY <1>2, <2>3, <2>4, FeedCases
<1>3. CASE NetworkLoop /\ ~Receive /\ UNCHANGED wdtVars
  <2>1. LoopDebt' = LoopDebt /\ (Polling => Polling')
    BY <1>1, <1>3, NetworkMoves DEF LoopDebt, Polling
  <2> QED
    BY <1>1, <1>3, <2>1, NetworkMoves, DebtType, ReportType, StillInTime
       DEF wdtVars
<1> QED
  BY <1>2, <1>3 DEF DeviceNetwork

\* Time passes only in the idle wait, or while both tasks wait for one POST.
LEMMA TickCases ==
    ASSUME OutageInv, DeviceInv, ReplyInv, Unanswered, DeviceTick
    PROVE  /\ UNCHANGED <<heap, queue, stage, work, serving, site, asked>>
           /\ left'["loop"] = IF left["loop"] > 0 THEN left["loop"] - 1 ELSE 0
           /\ left'["network"] = IF left["network"] > 0
                                 THEN left["network"] - 1 ELSE 0
           /\ \/ /\ site = "idle" /\ idle > 0 /\ ~Reporting /\ queue = <<>>
              \/ /\ site \in PostSites /\ asked
                 /\ stage["loop"] = "wait" /\ left["loop"] > 0
                 /\ work = "event" /\ stage["network"] = "wait"
                 /\ left["network"] > 0
<1>0. /\ "loop" # "network" /\ Callers = {"loop", "network"}
      /\ NetworkInv
  BY EventFacts DEF OutageInv
<1>1. /\ UNCHANGED <<heap, queue, stage, handle, work, serving, site, asked>>
      /\ left' = [t \in Callers |-> IF left[t] > 0 THEN left[t] - 1 ELSE 0]
      /\ AllBlocked
      /\ IF site = "idle" THEN idle > 0 ELSE stage["loop"] = "wait"
  BY DEF DeviceTick, Tick, loopVars
<1>2. work # "io"
  BY DEF OutageInv, InStep
<1>3. CASE work = "event" /\ stage["network"] = "wait"
  <2>1. left["network"] > 0
    BY <1>0, <1>1, <1>3 DEF AllBlocked, OutageInv, InStep, TimesOut
  <2>2. /\ OwnServed /\ left["loop"] = left["network"]
        /\ heap[serving].kind \in Posts
    BY <1>3, <2>1 DEF OutageInv, InStep
  <2>3. /\ stage["loop"] = "wait" /\ heap[handle["loop"]].kind \in Posts
    BY <2>2 DEF OwnServed
  <2>4. asked /\ site # "idle" /\ KindOf[site] \in Posts
    BY <2>3 DEF ReplyInv, PhaseKind, Unanswered
  <2>5. site \in PostSites
    BY <2>4, SiteKinds DEF DeviceInv, LoopInv, LoopType
  <2> QED
    BY <1>0, <1>1, <1>3, <2>1, <2>2, <2>3, <2>4, <2>5
<1>4. CASE work = "receive" /\ queue = <<>>
  <2>1. stage["loop"] # "wait"
    <3>1. SUFFICES ASSUME stage["loop"] = "wait" PROVE FALSE
      OBVIOUS
    <3>2. ~InQueue(handle["loop"]) /\ serving # handle["loop"]
      BY <1>0, <1>4, <3>1, EventFacts DEF InQueue, NetworkInv, OneHolder
    <3>3. ~heap[handle["loop"]].done
      BY <1>0, <1>1, <3>1 DEF AllBlocked
    <3> QED
      BY <3>1, <3>2, <3>3 DEF OutageInv, Undone
  <2> QED
    BY <1>0, <1>1, <1>4, <2>1 DEF Reporting
<1> QED
  BY <1>1, <1>2, <1>3, <1>4 DEF AllBlocked

\* Time is taken off the watchdog and off what it waits for alike.
LEMMA TickInTime ==
    ASSUME EnoughTime, OutageInv, DeviceInv, OutageInv', DeviceInv', ReplyInv,
           Unanswered, InTime, DeviceTick
    PROVE  InTime'
<1>0. /\ wdt \in Int /\ idle \in Nat /\ NETWORK_REQUEST_TIMEOUT \in Nat
      /\ left["loop"] \in Nat /\ left["network"] \in Nat
      /\ WDT_TIMEOUT \in Nat /\ Watched \subseteq {"loop", "network"}
  BY EventFacts, NetworkAssumption, DeviceAssumption
     DEF OutageInv, DeviceInv, LoopInv, LoopType, WdtType
<1>1. /\ idle' = (IF idle > 0 THEN idle - 1 ELSE 0)
      /\ FedBy(FedMeanwhile, wdt - 1)
  BY DEF DeviceTick
<1>2. idle' < WDT_TIMEOUT
  BY <1>0, <1>1 DEF InTime
<1>3. CASE wdt' = WDT_TIMEOUT
  BY <1>2, <1>3, Restarted
<1>4. CASE wdt' # WDT_TIMEOUT
  <2>1. /\ wdt' = wdt - 1 /\ fed' = fed \cup FedMeanwhile
        /\ ~(Watched \subseteq fed \cup FedMeanwhile)
    BY <1>1, <1>4 DEF FedBy
  <2>2. /\ site \notin {"boot", "outcome"}
        /\ site = "idle" => "loop" \in fed'
    BY <2>1 DEF FedMeanwhile
  <2>3. UNCHANGED <<heap, queue, stage, work, serving, site, asked>>
    BY TickCases
  <2>4. "loop" \in Watched \ fed' => wdt' > LoopDebt' /\ LoopDebt' >= 0
    <3>1. SUFFICES ASSUME "loop" \in Watched \ fed'
                   PROVE  wdt' > LoopDebt' /\ LoopDebt' >= 0
      OBVIOUS
    <3>2. wdt > LoopDebt /\ site # "idle"
      BY <2>1, <2>2, <3>1 DEF InTime
    <3>3. /\ site \in PostSites /\ asked /\ stage["loop"] = "wait"
          /\ left["loop"] > 0 /\ left'["loop"] = left["loop"] - 1
      BY <3>2, TickCases
    <3>4. /\ LoopDebt = Owed(site) - NETWORK_REQUEST_TIMEOUT + left["loop"]
          /\ LoopDebt' = Owed(site) - NETWORK_REQUEST_TIMEOUT + left'["loop"]
      BY <2>3, <3>3 DEF LoopDebt, Debt
    <3>5. Owed(site) \in Nat /\ Owed(site) >= NETWORK_REQUEST_TIMEOUT
      BY <1>0, <3>3, DebtBound
    <3> QED
      BY <1>0, <2>1, <3>2, <3>3, <3>4, <3>5
  <2>5. "network" \in Watched \ fed' => NetworkPaid' /\ wdt' > 0
    <3>1. SUFFICES ASSUME "network" \in Watched \ fed'
                   PROVE  NetworkPaid' /\ wdt' > 0
      OBVIOUS
    <3>2. NetworkPaid
      BY <2>1, <3>1 DEF InTime
    <3>3. Reporting' = Reporting
      BY <2>3 DEF Reporting
    <3>4. CASE site = "idle" /\ idle > 0 /\ ~Reporting /\ queue = <<>>
      <4>1. wdt > idle /\ idle' = idle - 1
        BY <1>1, <3>2, <3>4 DEF NetworkPaid
      <4>2. wdt' > idle' /\ wdt' > 0
        BY <1>0, <2>1, <3>4, <4>1
      <4> QED
        BY <2>3, <3>3, <3>4, <4>2 DEF NetworkPaid
    <3>5. CASE /\ work = "event" /\ stage["network"] = "wait"
               /\ left["network"] > 0
      <4>1. wdt > left["network"]
        BY <3>2, <3>5 DEF NetworkPaid, Reporting, ReportDebt
      <4>2. left'["network"] = left["network"] - 1
        BY <3>5, TickCases
      <4>3. Reporting' /\ ReportDebt' = left'["network"]
        BY <2>3, <3>5 DEF Reporting, ReportDebt
      <4> QED
        BY <1>0, <2>1, <3>5, <4>1, <4>2, <4>3 DEF NetworkPaid
    <3> QED
      BY <3>4, <3>5, TickCases
  <2>6. wdt' > 0
    <3>1. "loop" \in Watched \ fed' \/ "network" \in Watched \ fed'
      BY <1>0, <2>1
    <3>2. wdt' \in Int
      BY <1>0, <2>1
    <3>3. "loop" \in Watched \ fed' => LoopDebt' \in Int
      BY DebtPrimed
    <3> QED
      BY <2>4, <2>5, <3>1, <3>2, <3>3
  <2> QED
    BY <1>2, <2>2, <2>3, <2>4, <2>5, <2>6 DEF InTime
<1> QED
  BY <1>3, <1>4

-----------------------------------------------------------------------------
(* The invariant of an outage *)

DownInv == OutageInv /\ Unanswered /\ InTime

\* It holds from the boot on.
LEMMA DownInit ==
    ASSUME EnoughTime, Init, ~wifi
    PROVE  DownInv
<1>0. /\ "loop" \in Callers /\ "network" \in Callers /\ "loop" # "network"
      /\ NETWORK_REQUEST_TIMEOUT \in Nat /\ NETWORK_QUEUE_LENGTH \in Nat
      /\ WDT_TIMEOUT \in Nat \ {0}
  BY NetworkAssumption, DeviceAssumption DEF Callers
<1>1. NetworkInv
  BY NetworkInvInit DEF Init
<1>2. /\ queue = <<>> /\ work = "receive" /\ wdt = WDT_TIMEOUT /\ idle = 0
      /\ site = "boot" /\ phase = "first" /\ ~asked
      /\ stage["loop"] = "idle" /\ stage["network"] = "idle"
      /\ left["loop"] = 0 /\ outcome["loop"] = "none"
      /\ \A r \in Requests : heap[r] = FreeCell
  BY <1>0 DEF Init, NetworkInit
<1>3. EventInv
  BY <1>0, <1>2 DEF EventInv, OwnServed
<1>4. \A r : ~InQueue(r)
  BY <1>2 DEF InQueue
<1>5. Undone /\ InStep
  BY <1>2, <1>4 DEF Undone, InStep
<1>6. Unanswered
  BY <1>2 DEF Unanswered, Unheard, Result, Bad, FreeCell, NewRequest
<1>7. LoopDebt = 4 * NETWORK_REQUEST_TIMEOUT
  BY <1>2 DEF LoopDebt, Debt, Owed, Early, Late
<1>8. NetworkPaid
  BY <1>2 DEF NetworkPaid, Reporting, EnoughTime
<1>9. InTime
  BY <1>0, <1>2, <1>7, <1>8 DEF InTime, EnoughTime
<1> QED
  BY <1>1, <1>3, <1>5, <1>6, <1>9 DEF DownInv, OutageInv

\* Every step without WiFi keeps it.
LEMMA DownStep ==
    ASSUME EnoughTime, DeviceInv, ReplyInv, DownInv, [Next]_vars, ~wifi'
    PROVE  DownInv'
<1>0. OutageInv /\ Unanswered /\ InTime
  BY DEF DownInv
<1>1. [NetworkNext]_networkVars
  BY DeviceStep DEF DeviceInv
<1>2. OutageInv' /\ Unheard'
  BY <1>0, <1>1, OutageStep, UnheardStep DEF EnoughTime, Unanswered
<1>3. DeviceInv'
  BY DeviceInvStep
<1>4. SUFFICES phase' = "first" /\ site' \notin {"ack", "executed"} /\ InTime'
  BY <1>2 DEF DownInv, Unanswered
<1>5. CASE UNCHANGED <<site, phase>> /\ InTime'
  BY <1>0, <1>5 DEF Unanswered
<1>6. CASE Reboot
  BY <1>2, <1>3, <1>6, DeviceAssumption, Restarted DEF Reboot, GoTo
<1>7. CASE OwnStep \/ Updated
  BY <1>0, <1>2, <1>3, <1>6, <1>7, LoopMoves, MoveInTime DEF LoopMove
<1>8. CASE Ask
  BY <1>0, <1>2, <1>5, <1>8, AskInTime DEF Ask
<1>9. CASE Facade("loop") /\ UNCHANGED <<loopVars, backlog, idle, wdtVars>>
  BY <1>0, <1>2, <1>5, <1>9, FacadeInTime DEF loopVars
<1>10. CASE DeviceNetwork
  BY <1>0, <1>2, <1>3, <1>5, <1>10, NetworkInTime DEF DeviceNetwork, loopVars
<1>11. CASE DeviceTick
  BY <1>0, <1>2, <1>3, <1>5, <1>11, TickInTime DEF DeviceTick, loopVars
<1>12. CASE HardReset \/ ConfigReboots \/ DeepSleep \/ WatchdogReboot
  BY <1>6, <1>12 DEF HardReset, ConfigReboots, DeepSleep, WatchdogReboot
<1>13. ~WifiChanges
  BY <1>0 DEF WifiChanges, SetWifi, OutageInv
<1>14. CASE UNCHANGED vars
  <2>1. UNCHANGED <<site, asked, idle, fed, wdt, work, heap, serving, stage,
                    left, queue>>
    BY <1>14 DEF vars, networkVars, wdtVars
  <2>2. /\ LoopDebt' = LoopDebt /\ Reporting' = Reporting
        /\ ReportDebt' = ReportDebt /\ Polling' = Polling
    BY <2>1 DEF LoopDebt, Reporting, ReportDebt, Polling
  <2> QED
    BY <1>0, <1>5, <1>14, <2>1, <2>2 DEF InTime, NetworkPaid, vars
<1>15. DeviceLoop => Ask \/ Updated
                      \/ (Facade("loop")
                          /\ UNCHANGED <<loopVars, backlog, idle, wdtVars>>)
                      \/ OwnStep
  BY Zenon DEF DeviceLoop, OwnStep
<1> QED
  BY <1>7, <1>8, <1>9, <1>10, <1>11, <1>12, <1>13, <1>14, <1>15 DEF Next

-----------------------------------------------------------------------------
(* Theorems *)

\* The device uses the network task as any of its callers may: whichever
\* requests a cycle makes, across reboots and resets (loop, AgrumyClient).
THEOREM DeviceImplements == Spec => NetworkSpec
<1>1. Init => NetworkInit
  BY DEF Init
<1>2. DeviceInv /\ [Next]_vars => [NetworkNext]_networkVars
  BY DeviceStep DEF DeviceInv
<1> QED
  BY <1>1, <1>2, DeviceInvInit, DeviceInvStep, PTL DEF Spec, NetworkSpec

\* So on the device, too, every request is freed exactly once, by the last
\* of its two parties (releaseNetworkRequest).
THEOREM DeviceOwned == Spec => []RequestsOwned
  BY DeviceImplements, NetworkOwned, PTL

\* Every variable has its type, whatever the lengths of the buffers, the
\* wait and the timeouts: the backlog never leaves its cap, though a replay
\* takes a file from it long after it looked for one.
THEOREM DeviceTypeCorrect == Spec => []TypeOK
<1>1. DeviceInv => TypeOK
  BY Zenon DEF DeviceInv, NetworkInv, LoopInv, LoopType, WdtType, TypeOK,
     Phases
<1> QED
  BY <1>1, DeviceInvInit, DeviceInvStep, PTL DEF Spec

\* A buffered file is taken for delivered only when it was: no answer without
\* WiFi ever passes for a success (flushBufferedSensorData, requestPostSync).
THEOREM FilesKept == Spec => DataKept
<1>1. Init => DeviceInv /\ EventInv /\ ReplyInv
  BY CycleInvInit
<1>2. DeviceInv /\ EventInv /\ ReplyInv /\ [Next]_vars
         => DeviceInv' /\ EventInv' /\ ReplyInv'
  BY CycleInvStep
<1>3. DeviceInv /\ ReplyInv /\ [Next]_vars
         => [backlog' < backlog => Result = "ok"]_vars
  BY OnlyTaken
<1> QED
  BY <1>1, <1>2, <1>3, PTL DEF Spec, DataKept

\* In a steady outage no task misses the watchdog, whichever requests a cycle
\* makes and however many: four deadlines in a row, and one idle wait, are the
\* most that lies between two feeds (loop, networkTaskLoop, requestPostSync).
THEOREM FedWithoutWifi ==
    ASSUME EnoughTime
    PROVE  OutageSpec => []FedInOutage
<1> DEFINE Inv == /\ DeviceInv /\ EventInv /\ ReplyInv
                  /\ (outage => DownInv)
<1>1. OutageInit => Inv
  <2>1. SUFFICES ASSUME OutageInit PROVE Inv
    OBVIOUS
  <2>2. DeviceInv /\ EventInv /\ ReplyInv
    BY <2>1, CycleInvInit DEF OutageInit
  <2>3. outage => DownInv
    BY <2>1, DownInit DEF OutageInit
  <2> QED
    BY <2>1, <2>2, <2>3 DEF OutageInit
<1>2. Inv /\ [OutageNext]_<<vars, outage>> => Inv'
  <2>1. SUFFICES ASSUME Inv, [OutageNext]_<<vars, outage>> PROVE Inv'
    OBVIOUS
  <2>2. [Next]_vars /\ outage' = outage /\ (outage => ~wifi')
    BY <2>1 DEF OutageNext, vars, networkVars, DownInv, OutageInv
  <2>3. DeviceInv' /\ EventInv' /\ ReplyInv'
    BY <2>1, <2>2, CycleInvStep
  <2>4. outage => DownInv'
    BY <2>1, <2>2, DownStep
  <2> QED
    BY <2>1, <2>2, <2>3, <2>4
<1>3. Inv => FedInOutage
  BY DEF FedInOutage, FedInTime, DownInv, InTime
<1> QED
  BY <1>1, <1>2, <1>3, PTL DEF OutageSpec
=============================================================================
