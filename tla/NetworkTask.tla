---------------------------- MODULE NetworkTask ----------------------------
(***************************************************************************)
(* AgrumyClient: every network round trip of the firmware is a request on  *)
(* the heap that a calling task puts into the queue of the one network     *)
(* task, and on whose semaphore it then waits with a deadline.  A caller   *)
(* that gives up leaves the request to the network task: whoever releases  *)
(* it second frees it.  The network task is a caller of its own queue, when *)
(* it reports that WiFi is down.                                           *)
(*                                                                         *)
(* Time passes in units far longer than any computation: a Tick happens    *)
(* only when every task is blocked.  The 200 ms a full queue is waited for *)
(* are less than a unit.                                                   *)
(***************************************************************************)
EXTENDS Naturals, Sequences

CONSTANTS
    Clients,            \* tasks that call, the network task excluded
    Requests,           \* heap cells for NetworkRequest
    NoRequest,          \* the null pointer
    NETWORK_QUEUE_LENGTH,
    NETWORK_REQUEST_TIMEOUT,
    IoMax               \* bound: the longest a round trip takes, in units

ASSUME NetworkAssumption ==
    /\ "network" \notin Clients
    /\ NoRequest \notin Requests
    /\ NETWORK_QUEUE_LENGTH \in Nat
    /\ NETWORK_REQUEST_TIMEOUT \in Nat
    /\ IoMax \in Nat

VARIABLES
    heap,       \* the requests
    queue,      \* networkQueue
    stage,      \* per caller: where in the facade it is
    handle,     \* per caller: the request of the call in progress
    left,       \* per caller: time left until it gives up
    outcome,    \* per caller: the result of its last call, until the next
    work,       \* where in networkTaskLoop the network task is
    serving,    \* the request it works on
    busy,       \* units the round trip in progress has taken
    wifi        \* WiFi.status() == WL_CONNECTED

networkVars == <<heap, queue, stage, handle, left, outcome, work, serving,
                 busy, wifi>>

Callers == Clients \cup {"network"}

\* "poll": requestPost to apiConfig, the one whose 429 is looked at;
\* "post": any other requestPost, on either body; "event": requestPost to apiEvent;
\* "get": requestGet; "mqtt": mqttPublish and mqttConnectPersistent;
\* "ota": firmwareUpdate
Kinds == {"poll", "post", "event", "get", "mqtt", "ota"}

\* What the server, or its absence, answers.  "noWifi" is errorCode 1000
\* with error = false, the default of EventLog.
Answers(kind) ==
    CASE kind = "poll"             -> {"ok", "denied", "wait", "failed"}
      [] kind \in {"post", "event"} -> {"ok", "denied", "failed"}
      [] OTHER                     -> {"ok", "failed"}
Outcomes == {"none", "ok", "denied", "wait", "failed", "noWifi", "full",
             "timeout"}

\* The callers look at error, or at the result of the Sync method.
IsError(o) == o \notin {"ok", "noWifi"}

NetworkRequest == [kind : Kinds \cup {"free"}, released : 0..1,
                   done : BOOLEAN, answer : Outcomes]
NewRequest(kind) == [kind |-> kind, released |-> 0, done |-> FALSE,
                     answer |-> "none"]
FreeCell == NewRequest("free")
Live(r) == heap[r].kind # "free"

InQueue(r) == \E i \in DOMAIN queue : queue[i] = r

-----------------------------------------------------------------------------
(* releaseNetworkRequest *)

\* (mutant) the first release frees the request
MutReleaseShouldFree(count) == count = 0

networkRequestReleaseShouldFree(count) == count = 1

Released(r) ==
    [heap EXCEPT ![r] = IF networkRequestReleaseShouldFree(@.released)
                        THEN FreeCell ELSE [@ EXCEPT !.released = 1]]

-----------------------------------------------------------------------------
(* The facades: requestPost, requestGet, firmwareUpdate, mqttPublish, ... *)

\* (mutant) the network task waits for its own event without a deadline
MutTimesOut(t) == t # "network" /\ heap[handle[t]].kind # "ota"

\* firmwareUpdate polls its semaphore for as long as it takes.
TimesOut(t) == heap[handle[t]].kind # "ota"

\* (mutant) the event about WiFi is hardly waited for
MutTimeoutOf(t) == IF t = "network" THEN 0 ELSE NETWORK_REQUEST_TIMEOUT

TimeoutOf(t) == NETWORK_REQUEST_TIMEOUT

Call(t, kind) ==
    /\ stage[t] = "idle"
    /\ \E r \in Requests : ~Live(r)
    /\ LET r == CHOOSE q \in Requests : ~Live(q)
       IN /\ heap' = [heap EXCEPT ![r] = NewRequest(kind)]
          /\ handle' = [handle EXCEPT ![t] = r]
    /\ stage' = [stage EXCEPT ![t] = "enqueue"]
    /\ outcome' = [outcome EXCEPT ![t] = "none"]
    /\ UNCHANGED <<queue, left, serving, busy, wifi>>

Enqueue(t) ==
    /\ stage[t] = "enqueue"
    /\ Len(queue) < NETWORK_QUEUE_LENGTH
    /\ queue' = Append(queue, handle[t])
    /\ stage' = [stage EXCEPT ![t] = "wait"]
    /\ left' = [left EXCEPT ![t] = TimeoutOf(t)]
    /\ UNCHANGED <<heap, handle, outcome, work, serving, busy, wifi>>

Return(t, o) == /\ stage' = [stage EXCEPT ![t] = "idle"]
                /\ handle' = [handle EXCEPT ![t] = NoRequest]
                /\ left' = [left EXCEPT ![t] = 0]
                /\ outcome' = [outcome EXCEPT ![t] = o]

\* The queue stayed full: the request is freed at once.
EnqueueFails(t) ==
    /\ stage[t] = "enqueue"
    /\ Len(queue) >= NETWORK_QUEUE_LENGTH
    /\ heap' = [heap EXCEPT ![handle[t]] = FreeCell]
    /\ Return(t, "full")
    /\ UNCHANGED <<queue, work, serving, busy, wifi>>

Answered(t) ==
    /\ stage[t] = "wait"
    /\ heap[handle[t]].done
    /\ Return(t, heap[handle[t]].answer)
    /\ heap' = Released(handle[t])
    /\ UNCHANGED <<queue, work, serving, busy, wifi>>

\* The owner of the request the network task works on began to wait before
\* the network task did: of two waits of one length it ends the first.  (An
\* assumption about time: between xQueueSend and xSemaphoreTake of the owner
\* the network task does not get as far as its own xSemaphoreTake.)
OwnerExpires == \E c \in Clients : /\ stage[c] = "wait" /\ left[c] = 0
                                   /\ handle[c] = serving

TimedOut(t) ==
    /\ stage[t] = "wait"
    /\ TimesOut(t)
    /\ left[t] = 0
    /\ ~heap[handle[t]].done
    /\ t = "network" => ~OwnerExpires
    /\ Return(t, "timeout")
    /\ heap' = Released(handle[t])
    /\ UNCHANGED <<queue, work, serving, busy, wifi>>

Facade(t) == Enqueue(t) \/ EnqueueFails(t) \/ Answered(t) \/ TimedOut(t)

-----------------------------------------------------------------------------
(* networkTaskLoop *)

Receive ==
    /\ work = "receive"
    /\ queue # <<>>
    /\ serving' = Head(queue)
    /\ queue' = Tail(queue)
    /\ work' = "check"
    /\ UNCHANGED <<heap, stage, handle, left, outcome, busy, wifi>>

\* The Sync methods look at WiFi once, before the round trip.
BeginIo ==
    /\ work = "check" /\ wifi
    /\ work' = "io" /\ busy' = 0
    /\ UNCHANGED <<heap, queue, stage, handle, left, outcome, serving, wifi>>

Answer(a) == heap' = [heap EXCEPT ![serving].answer = a]

\* Nobody will read what an abandoned request is answered.
FinishIo ==
    /\ work = "io"
    /\ IF heap[serving].released = 1 THEN Answer("failed")
       ELSE \E a \in Answers(heap[serving].kind) : Answer(a)
    /\ work' = "give" /\ busy' = 0
    /\ UNCHANGED <<queue, stage, handle, left, outcome, serving, wifi>>

\* An event or a GET is answered with errorCode 1000; MQTT and an update
\* simply fail.
NoWifi ==
    /\ work = "check" /\ ~wifi
    /\ heap[serving].kind \notin {"poll", "post"}
    /\ Answer(IF heap[serving].kind \in {"event", "get"} THEN "noWifi"
              ELSE "failed")
    /\ work' = "give"
    /\ UNCHANGED <<queue, stage, handle, left, outcome, serving, busy, wifi>>

\* A POST is reported through the network task's own queue first.
NoWifiEvent ==
    /\ work = "check" /\ ~wifi
    /\ heap[serving].kind \in {"poll", "post"}
    /\ Call("network", "event")
    /\ work' = "event"

\* What became of the event is not looked at.
NoWifiEventDone ==
    /\ work = "event"
    /\ stage["network"] = "idle"
    /\ outcome' = [outcome EXCEPT !["network"] = "none"]
    /\ Answer("noWifi")
    /\ work' = "give"
    /\ UNCHANGED <<queue, stage, handle, left, serving, busy, wifi>>

Give ==
    /\ work = "give"
    /\ heap' = [heap EXCEPT ![serving].done = TRUE]
    /\ work' = "release"
    /\ UNCHANGED <<queue, stage, handle, left, outcome, serving, busy, wifi>>

Release ==
    /\ work = "release"
    /\ heap' = Released(serving)
    /\ serving' = NoRequest
    /\ work' = "receive"
    /\ UNCHANGED <<queue, stage, handle, left, outcome, busy, wifi>>

NetworkLoop == \/ Receive \/ BeginIo \/ FinishIo \/ NoWifi \/ NoWifiEvent
               \/ NoWifiEventDone \/ Give \/ Release \/ Facade("network")

-----------------------------------------------------------------------------
(* The environment *)

SetWifi == /\ wifi' = ~wifi
           /\ UNCHANGED <<heap, queue, stage, handle, left, outcome, work,
                          serving, busy>>

\* Every task is blocked, and not by something that has happened already.
AllBlocked ==
    /\ \A t \in Callers :
          /\ stage[t] # "enqueue"
          /\ stage[t] = "wait" => /\ ~heap[handle[t]].done
                                  /\ TimesOut(t) => left[t] > 0
    /\ \/ work = "receive" /\ queue = <<>>
       \/ work = "io" /\ busy < IoMax
       \/ work = "event" /\ stage["network"] = "wait"

Tick ==
    /\ AllBlocked
    /\ left' = [t \in Callers |-> IF left[t] > 0 THEN left[t] - 1 ELSE 0]
    /\ busy' = IF work = "io" THEN busy + 1 ELSE 0
    /\ UNCHANGED <<heap, queue, stage, handle, outcome, work, serving, wifi>>

NetworkInit ==
    /\ heap = [r \in Requests |-> FreeCell]
    /\ queue = <<>>
    /\ stage = [t \in Callers |-> "idle"]
    /\ handle = [t \in Callers |-> NoRequest]
    /\ left = [t \in Callers |-> 0]
    /\ outcome = [t \in Callers |-> "none"]
    /\ work = "receive"
    /\ serving = NoRequest
    /\ busy = 0
    /\ wifi \in BOOLEAN

\* A reboot: nothing in RAM survives.
NetworkReboot ==
    /\ heap' = [r \in Requests |-> FreeCell]
    /\ queue' = <<>>
    /\ stage' = [t \in Callers |-> "idle"]
    /\ handle' = [t \in Callers |-> NoRequest]
    /\ left' = [t \in Callers |-> 0]
    /\ outcome' = [t \in Callers |-> "none"]
    /\ work' = "receive"
    /\ serving' = NoRequest
    /\ busy' = 0
    /\ UNCHANGED wifi

ClientCall(t) == \E kind \in Kinds : Call(t, kind) /\ UNCHANGED work

NetworkNext == \/ \E t \in Clients : ClientCall(t) \/ Facade(t)
               \/ NetworkLoop \/ SetWifi \/ Tick \/ NetworkReboot

NetworkSpec == NetworkInit /\ [][NetworkNext]_networkVars

-----------------------------------------------------------------------------
(* Properties *)

NetworkTypeOK ==
    /\ heap \in [Requests -> NetworkRequest]
    /\ queue \in Seq(Requests)
    /\ stage \in [Callers -> {"idle", "enqueue", "wait"}]
    /\ handle \in [Callers -> Requests \cup {NoRequest}]
    /\ left \in [Callers -> Nat] /\ busy \in Nat
    /\ outcome \in [Callers -> Outcomes]
    /\ work \in {"receive", "check", "io", "event", "give", "release"}
    /\ serving \in Requests \cup {NoRequest}
    /\ wifi \in BOOLEAN

\* The two parties of a request: the caller inside its facade, and the
\* network task with its queue (until the request is queued, the caller).
CallerHolds(r) == \E t \in Callers : stage[t] # "idle" /\ handle[t] = r
NetworkHolds(r) ==
    \/ InQueue(r)
    \/ serving = r
    \/ \E t \in Callers : stage[t] = "enqueue" /\ handle[t] = r

\* A request lives exactly as long as one of its parties holds it, and its
\* count says how many have let go: whatever order a time-out, an answer
\* and the network task's own call come in, no freed request is touched and
\* none leaks (releaseNetworkRequest, networkRequestReleaseShouldFree).
RequestsOwned ==
    \A r \in Requests :
        /\ Live(r) <=> CallerHolds(r) \/ NetworkHolds(r)
        /\ (Live(r) /\ heap[r].released = 0) =>
               CallerHolds(r) /\ NetworkHolds(r)
        /\ heap[r].released = 1 => ~(CallerHolds(r) /\ NetworkHolds(r))
=============================================================================
