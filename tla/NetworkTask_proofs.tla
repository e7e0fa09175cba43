------------------------- MODULE NetworkTask_proofs -------------------------
(***************************************************************************)
(* Proofs about NetworkTask, for any number of callers and heap cells, any *)
(* queue length and any deadline.                                          *)
(***************************************************************************)
EXTENDS NetworkTask, SequenceTheorems, TLAPS

\* Each party holds a request in one place only: a request is the handle of
\* at most one call and is at most once in the queue, served or about to be
\* queued (requestPost, networkTaskLoop).
OneHolder ==
    /\ \A t \in Callers : stage[t] # "idle" => handle[t] \in Requests
    /\ \A t, u \in Callers :
          (stage[t] # "idle" /\ stage[u] # "idle" /\ handle[t] = handle[u]) =>
              t = u
    /\ \A i, j \in DOMAIN queue : queue[i] = queue[j] => i = j
    /\ ~InQueue(serving)
    /\ \A t \in Callers : stage[t] = "enqueue" =>
          handle[t] # serving /\ ~InQueue(handle[t])
    /\ work = "receive" => serving = NoRequest
    /\ work # "receive" => serving \in Requests

NetworkInv == NetworkTypeOK /\ OneHolder /\ RequestsOwned

-----------------------------------------------------------------------------
(* What releasing does to the heap *)

\* The first release counts, the second frees, and no other request changes
\* (releaseNetworkRequest).
LEMMA ReleasedCell ==
    ASSUME NetworkTypeOK, NEW r \in Requests
    PROVE  /\ Released(r) \in [Requests -> NetworkRequest]
           /\ \A q \in Requests \ {r} : Released(r)[q] = heap[q]
           /\ heap[r].released = 1 => Released(r)[r] = FreeCell
           /\ heap[r].released = 0 =>
                  /\ Released(r)[r].kind = heap[r].kind
                  /\ Released(r)[r].released = 1
<1>1. heap \in [Requests -> NetworkRequest] /\ heap[r] \in NetworkRequest
  BY DEF NetworkTypeOK
<1>2. FreeCell \in NetworkRequest
  BY DEF FreeCell, NewRequest, NetworkRequest, Outcomes
<1>3. [heap[r] EXCEPT !.released = 1] \in NetworkRequest
  BY <1>1 DEF NetworkRequest
<1> QED
  BY <1>1, <1>2, <1>3 DEF Released, networkRequestReleaseShouldFree,
     NetworkRequest, FreeCell, NewRequest

-----------------------------------------------------------------------------
(* Steps that move no request *)

\* A step that leaves queue, callers and the served request alone, and the
\* kind and count of every request, preserves who holds what.
LEMMA HoldersKept ==
    ASSUME OneHolder, RequestsOwned,
           UNCHANGED <<queue, stage, handle, serving>>,
           work = "receive" <=> work' = "receive",
           \A r \in Requests : /\ heap'[r].kind = heap[r].kind
                               /\ heap'[r].released = heap[r].released
    PROVE  OneHolder' /\ RequestsOwned'
<1>1. OneHolder'
  BY DEF OneHolder, InQueue
<1>2. \A r \in Requests : /\ CallerHolds(r)' <=> CallerHolds(r)
                          /\ NetworkHolds(r)' <=> NetworkHolds(r)
                          /\ Live(r)' <=> Live(r)
  BY DEF CallerHolds, NetworkHolds, InQueue, Live
<1> QED
  BY <1>1, <1>2 DEF RequestsOwned

\* Noting an answer changes no kind and no count.
LEMMA AnswerKeeps ==
    ASSUME NetworkTypeOK, serving \in Requests, NEW a \in Outcomes, Answer(a)
    PROVE  /\ heap' \in [Requests -> NetworkRequest]
           /\ \A r \in Requests : /\ heap'[r].kind = heap[r].kind
                                  /\ heap'[r].released = heap[r].released
<1>1. heap \in [Requests -> NetworkRequest] /\ heap[serving] \in NetworkRequest
  BY DEF NetworkTypeOK
<1>2. heap' = [heap EXCEPT ![serving] = [heap[serving] EXCEPT !.answer = a]]
  BY <1>1 DEF Answer
<1>3. [heap[serving] EXCEPT !.answer = a] \in NetworkRequest
  BY <1>1 DEF NetworkRequest
<1> QED
  BY <1>1, <1>2, <1>3 DEF NetworkRequest

\* What a server may answer is an outcome a caller knows.
LEMMA AnswersAreOutcomes ==
    ASSUME NEW kind, NEW a \in Answers(kind)
    PROVE  a \in Outcomes
  BY DEF Answers, Outcomes

-----------------------------------------------------------------------------
(* Steps of a caller *)

\* A new request belongs to its caller alone, which is also about to queue it.
LEMMA CallStep ==
    ASSUME NetworkInv, NEW t \in Callers, NEW kind \in Kinds, Call(t, kind),
           work = "receive" <=> work' = "receive",
           work' \in {"receive", "check", "io", "event", "give", "release"}
    PROVE  NetworkInv'
<1>1. PICK r \in Requests :
          /\ ~Live(r)
          /\ heap' = [heap EXCEPT ![r] = NewRequest(kind)]
          /\ handle' = [handle EXCEPT ![t] = r]
  BY DEF Call
<1>2. /\ stage' = [stage EXCEPT ![t] = "enqueue"]
      /\ stage[t] = "idle"
      /\ outcome' = [outcome EXCEPT ![t] = "none"]
      /\ UNCHANGED <<queue, left, serving, busy, wifi>>
  BY DEF Call
<1>3. /\ NewRequest(kind) \in NetworkRequest
      /\ NewRequest(kind).kind = kind /\ NewRequest(kind).released = 0
      /\ kind # "free"
  BY DEF NewRequest, NetworkRequest, Outcomes, Kinds
<1>4. NetworkTypeOK'
  BY <1>1, <1>2, <1>3 DEF NetworkInv, NetworkTypeOK, Outcomes
<1>5. ~CallerHolds(r) /\ ~NetworkHolds(r)
  BY <1>1 DEF NetworkInv, RequestsOwned
<1>6. OneHolder'
  BY <1>1, <1>2, <1>5 DEF NetworkInv, NetworkTypeOK, OneHolder, CallerHolds,
     NetworkHolds, InQueue
<1>7. ASSUME NEW q \in Requests, q # r
      PROVE  /\ CallerHolds(q)' <=> CallerHolds(q)
             /\ NetworkHolds(q)' <=> NetworkHolds(q)
             /\ heap'[q] = heap[q]
  BY <1>1, <1>2, <1>7 DEF NetworkInv, NetworkTypeOK, OneHolder, CallerHolds,
     NetworkHolds, InQueue
<1>8. /\ CallerHolds(r)' /\ NetworkHolds(r)'
      /\ heap'[r].kind = kind /\ heap'[r].released = 0
  BY <1>1, <1>2, <1>3 DEF NetworkInv, NetworkTypeOK, CallerHolds,
     NetworkHolds
<1>9. RequestsOwned'
  <2>1. ASSUME NEW q \in Requests, q # r
        PROVE  Live(q)' <=> Live(q)
    BY <1>7, <2>1 DEF Live
  <2>2. Live(r)'
    BY <1>3, <1>8 DEF Live
  <2> QED
    BY <1>7, <1>8, <2>1, <2>2 DEF NetworkInv, RequestsOwned
<1> QED
  BY <1>4, <1>6, <1>9 DEF NetworkInv

\* Queueing hands one of the caller's two holds to the network task.
LEMMA EnqueueStep ==
    ASSUME NetworkInv, NEW t \in Callers, Enqueue(t)
    PROVE  NetworkInv'
<1> DEFINE r == handle[t]
<1>1. /\ stage[t] = "enqueue"
      /\ queue' = Append(queue, r)
      /\ stage' = [stage EXCEPT ![t] = "wait"]
      /\ left' = [left EXCEPT ![t] = TimeoutOf(t)]
      /\ UNCHANGED <<heap, handle, outcome, work, serving, busy, wifi>>
  BY DEF Enqueue
<1>2. r \in Requests /\ r # serving /\ ~InQueue(r)
  BY <1>1 DEF NetworkInv, OneHolder
<1>3. /\ queue \in Seq(Requests) /\ stage \in [Callers -> {"idle", "enqueue", "wait"}]
      /\ handle \in [Callers -> Requests \cup {NoRequest}]
  BY DEF NetworkInv, NetworkTypeOK
<1>4. /\ queue' \in Seq(Requests)
      /\ Len(queue') = Len(queue) + 1
      /\ \A i \in 1..Len(queue) : queue'[i] = queue[i]
      /\ queue'[Len(queue) + 1] = r
  BY <1>1, <1>2, <1>3, AppendProperties
<1>5. NetworkTypeOK'
  BY <1>1, <1>4, NetworkAssumption DEF NetworkInv, NetworkTypeOK, TimeoutOf
<1>6. \A q : InQueue(q)' <=> InQueue(q) \/ q = r
  BY <1>3, <1>4 DEF InQueue
<1>7. \A i, j \in DOMAIN queue' : queue'[i] = queue'[j] => i = j
  BY <1>2, <1>3, <1>4 DEF NetworkInv, OneHolder, InQueue
<1>8. OneHolder'
  BY <1>1, <1>2, <1>3, <1>6, <1>7 DEF NetworkInv, OneHolder
<1>9. \A q \in Requests : /\ CallerHolds(q)' <=> CallerHolds(q)
                          /\ NetworkHolds(q)' <=> NetworkHolds(q)
  BY <1>1, <1>3, <1>6 DEF CallerHolds, NetworkHolds
<1>10. RequestsOwned'
  BY <1>1, <1>9 DEF NetworkInv, RequestsOwned, Live
<1> QED
  BY <1>5, <1>8, <1>10 DEF NetworkInv

\* A caller that stops waiting for its request, answered or not.
LEMMA LetGoStep ==
    ASSUME NetworkInv, NEW t \in Callers, NEW o \in Outcomes,
           stage[t] = "wait", Return(t, o),
           heap' = Released(handle[t]),
           UNCHANGED <<queue, work, serving, busy, wifi>>
    PROVE  NetworkInv'
<1>1. PICK r \in Requests : r = handle[t]
  BY DEF NetworkInv, OneHolder
<1>2. /\ stage' = [stage EXCEPT ![t] = "idle"]
      /\ handle' = [handle EXCEPT ![t] = NoRequest]
      /\ left' = [left EXCEPT ![t] = 0]
      /\ outcome' = [outcome EXCEPT ![t] = o]
  BY DEF Return
<1>3. /\ heap' \in [Requests -> NetworkRequest]
      /\ \A q \in Requests \ {r} : heap'[q] = heap[q]
      /\ heap[r].released = 1 => heap'[r] = FreeCell
      /\ heap[r].released = 0 => /\ heap'[r].kind = heap[r].kind
                                 /\ heap'[r].released = 1
  BY <1>1, ReleasedCell DEF NetworkInv
<1>4. NetworkTypeOK'
  BY <1>2, <1>3 DEF NetworkInv, NetworkTypeOK
<1>5. OneHolder'
  BY <1>2 DEF NetworkInv, NetworkTypeOK, OneHolder, InQueue
<1>6. /\ CallerHolds(r) /\ ~CallerHolds(r)'
      /\ NetworkHolds(r)' <=> NetworkHolds(r)
  BY <1>1, <1>2 DEF NetworkInv, NetworkTypeOK, OneHolder, CallerHolds,
     NetworkHolds, InQueue
<1>7. ASSUME NEW q \in Requests, q # r
      PROVE  /\ CallerHolds(q)' <=> CallerHolds(q)
             /\ NetworkHolds(q)' <=> NetworkHolds(q)
             /\ heap'[q] = heap[q]
  BY <1>1, <1>2, <1>3, <1>7, NetworkAssumption DEF NetworkInv, NetworkTypeOK,
     OneHolder, CallerHolds, NetworkHolds, InQueue
<1>8. Live(r) /\ heap[r].released \in 0..1
  BY <1>6 DEF NetworkInv, RequestsOwned, NetworkTypeOK, NetworkRequest
<1>9. CASE heap[r].released = 0
  <2>1. NetworkHolds(r) /\ Live(r)' /\ heap'[r].released = 1
    BY <1>3, <1>8, <1>9 DEF NetworkInv, RequestsOwned, Live
  <2> QED
    BY <1>4, <1>5, <1>6, <1>7, <2>1 DEF NetworkInv, RequestsOwned, Live
<1>10. CASE heap[r].released = 1
  <2>1. ~NetworkHolds(r) /\ ~Live(r)'
    BY <1>3, <1>6, <1>10 DEF NetworkInv, RequestsOwned, Live, FreeCell,
       NewRequest
  <2>2. RequestsOwned'
    BY <1>6, <1>7, <2>1 DEF NetworkInv, RequestsOwned, Live
  <2> QED
    BY <1>4, <1>5, <2>2 DEF NetworkInv
<1> QED
  BY <1>8, <1>9, <1>10

\* A request that was never queued has one party only, which frees it.
LEMMA EnqueueFailsStep ==
    ASSUME NetworkInv, NEW t \in Callers, EnqueueFails(t)
    PROVE  NetworkInv'
<1>1. PICK r \in Requests : r = handle[t]
  BY DEF NetworkInv, OneHolder, EnqueueFails
<1>2. /\ stage[t] = "enqueue"
      /\ heap' = [heap EXCEPT ![r] = FreeCell]
      /\ stage' = [stage EXCEPT ![t] = "idle"]
      /\ handle' = [handle EXCEPT ![t] = NoRequest]
      /\ left' = [left EXCEPT ![t] = 0]
      /\ outcome' = [outcome EXCEPT ![t] = "full"]
      /\ UNCHANGED <<queue, work, serving, busy, wifi>>
  BY <1>1 DEF EnqueueFails, Return
<1>3. FreeCell \in NetworkRequest /\ FreeCell.kind = "free"
  BY DEF FreeCell, NewRequest, NetworkRequest, Outcomes
<1>4. NetworkTypeOK'
  BY <1>2, <1>3 DEF NetworkInv, NetworkTypeOK, Outcomes
<1>5. OneHolder'
  BY <1>2 DEF NetworkInv, NetworkTypeOK, OneHolder, InQueue
<1>6. ~CallerHolds(r)' /\ ~NetworkHolds(r)' /\ ~Live(r)'
  BY <1>1, <1>2, <1>3 DEF NetworkInv, NetworkTypeOK, OneHolder, CallerHolds,
     NetworkHolds, InQueue, Live
<1>7. ASSUME NEW q \in Requests, q # r
      PROVE  /\ CallerHolds(q)' <=> CallerHolds(q)
             /\ NetworkHolds(q)' <=> NetworkHolds(q)
             /\ heap'[q] = heap[q]
  BY <1>1, <1>2, <1>7, NetworkAssumption DEF NetworkInv, NetworkTypeOK,
     OneHolder, CallerHolds, NetworkHolds, InQueue
<1>8. RequestsOwned'
  BY <1>6, <1>7 DEF NetworkInv, RequestsOwned, Live
<1> QED
  BY <1>4, <1>5, <1>8 DEF NetworkInv

\* So every step of a caller keeps the invariant.
LEMMA FacadeStep ==
    ASSUME NetworkInv, NEW t \in Callers, Facade(t)
    PROVE  NetworkInv'
<1>1. CASE Enqueue(t)
  BY <1>1, EnqueueStep
<1>2. CASE EnqueueFails(t)
  BY <1>2, EnqueueFailsStep
<1>3. CASE Answered(t)
  <2>1. heap[handle[t]].answer \in Outcomes
    BY <1>3 DEF Answered, NetworkInv, OneHolder, NetworkTypeOK, NetworkRequest
  <2> QED
    BY <1>3, <2>1, LetGoStep DEF Answered
<1>4. CASE TimedOut(t)
  <2>1. "timeout" \in Outcomes
    BY DEF Outcomes
  <2> QED
    BY <1>4, <2>1, LetGoStep DEF TimedOut
<1> QED
  BY <1>1, <1>2, <1>3, <1>4 DEF Facade

-----------------------------------------------------------------------------
(* Steps of networkTaskLoop *)

\* The request at the head of the queue becomes the one that is served.
LEMMA ReceiveStep ==
    ASSUME NetworkInv, Receive
    PROVE  NetworkInv'
<1>1. /\ work = "receive" /\ serving = NoRequest
      /\ queue \in Seq(Requests) /\ queue # <<>>
      /\ queue' = Tail(queue) /\ serving' = Head(queue)
      /\ work' = "check"
      /\ UNCHANGED <<heap, stage, handle, left, outcome, busy, wifi>>
  BY DEF Receive, NetworkInv, NetworkTypeOK, OneHolder
<1>2. /\ queue' \in Seq(Requests)
      /\ Len(queue') = Len(queue) - 1
      /\ \A i \in 1..Len(queue') : queue'[i] = queue[i + 1]
      /\ serving' = queue[1] /\ serving' \in Requests
      /\ Len(queue) \in Nat \ {0}
  BY <1>1, HeadTailProperties, EmptySeq
<1>3. NetworkTypeOK'
  BY <1>1, <1>2 DEF NetworkInv, NetworkTypeOK
<1>4. DOMAIN queue = 1..Len(queue) /\ DOMAIN queue' = 1..Len(queue')
  BY <1>1, <1>2
<1>5. \A q : InQueue(q)' => InQueue(q)
  BY <1>2, <1>4 DEF InQueue
<1>6. \A q : InQueue(q) => InQueue(q)' \/ q = serving'
  <2>1. ASSUME NEW i \in 1..Len(queue)
        PROVE  i = 1 \/ (i - 1 \in 1..Len(queue') /\ queue'[i - 1] = queue[i])
    BY <1>2, <2>1
  <2> QED
    BY <1>2, <1>4, <2>1 DEF InQueue
<1>7. InQueue(serving') /\ ~InQueue(serving)'
  <2>1. ASSUME NEW i \in DOMAIN queue'
        PROVE  queue'[i] # serving'
    BY <1>2, <1>4, <2>1 DEF NetworkInv, OneHolder
  <2>2. queue[1] = serving' /\ 1 \in DOMAIN queue
    BY <1>2, <1>4
  <2> QED
    BY <2>1, <2>2 DEF InQueue
<1>8. \A i, j \in DOMAIN queue' : queue'[i] = queue'[j] => i = j
  <2>1. ASSUME NEW i \in DOMAIN queue', NEW j \in DOMAIN queue',
               queue'[i] = queue'[j]
        PROVE  i = j
    <3>1. /\ i + 1 \in DOMAIN queue /\ j + 1 \in DOMAIN queue
          /\ queue[i + 1] = queue[j + 1]
      BY <1>2, <1>4, <2>1
    <3>2. i + 1 = j + 1
      BY <3>1 DEF NetworkInv, OneHolder
    <3> QED
      BY <1>2, <1>4, <3>2
  <2> QED
    BY <2>1
<1>9. OneHolder'
  BY <1>1, <1>2, <1>5, <1>7, <1>8 DEF NetworkInv, OneHolder
<1>10. \A q \in Requests : /\ CallerHolds(q)' <=> CallerHolds(q)
                           /\ NetworkHolds(q)' <=> NetworkHolds(q)
  BY <1>1, <1>5, <1>6, <1>7, NetworkAssumption DEF CallerHolds, NetworkHolds
<1>11. RequestsOwned'
  BY <1>1, <1>10 DEF NetworkInv, RequestsOwned, Live
<1> QED
  BY <1>3, <1>9, <1>11 DEF NetworkInv

\* The network task lets go of the request it has served.
LEMMA ReleaseStep ==
    ASSUME NetworkInv, Release
    PROVE  NetworkInv'
<1>1. PICK r \in Requests : r = serving
  BY DEF Release, NetworkInv, OneHolder
<1>2. /\ heap' = Released(r) /\ serving' = NoRequest /\ work' = "receive"
      /\ UNCHANGED <<queue, stage, handle, left, outcome, busy, wifi>>
  BY <1>1 DEF Release
<1>3. /\ heap' \in [Requests -> NetworkRequest]
      /\ \A q \in Requests \ {r} : heap'[q] = heap[q]
      /\ heap[r].released = 1 => heap'[r] = FreeCell
      /\ heap[r].released = 0 => /\ heap'[r].kind = heap[r].kind
                                 /\ heap'[r].released = 1
  BY <1>2, ReleasedCell DEF NetworkInv
<1>4. NetworkTypeOK'
  BY <1>2, <1>3 DEF NetworkInv, NetworkTypeOK
<1>5. ~InQueue(NoRequest)
  BY NetworkAssumption DEF NetworkInv, NetworkTypeOK, InQueue
<1>6. OneHolder'
  BY <1>2, <1>5, NetworkAssumption DEF NetworkInv, OneHolder, InQueue
<1>7. /\ NetworkHolds(r) /\ ~NetworkHolds(r)'
      /\ CallerHolds(r)' <=> CallerHolds(r)
  BY <1>1, <1>2, NetworkAssumption DEF NetworkInv, OneHolder, CallerHolds,
     NetworkHolds, InQueue
<1>8. ASSUME NEW q \in Requests, q # r
      PROVE  /\ CallerHolds(q)' <=> CallerHolds(q)
             /\ NetworkHolds(q)' <=> NetworkHolds(q)
             /\ heap'[q] = heap[q]
  BY <1>1, <1>2, <1>3, <1>8, NetworkAssumption DEF CallerHolds, NetworkHolds,
     InQueue
<1>9. Live(r) /\ heap[r].released \in 0..1
  BY <1>7 DEF NetworkInv, RequestsOwned, NetworkTypeOK, NetworkRequest
<1>10. CASE heap[r].released = 0
  <2>1. CallerHolds(r) /\ Live(r)' /\ heap'[r].released = 1
    BY <1>3, <1>9, <1>10 DEF NetworkInv, RequestsOwned, Live
  <2>2. RequestsOwned'
    BY <1>7, <1>8, <2>1 DEF NetworkInv, RequestsOwned, Live
  <2> QED
    BY <1>4, <1>6, <2>2 DEF NetworkInv
<1>11. CASE heap[r].released = 1
  <2>1. ~CallerHolds(r) /\ ~Live(r)'
    BY <1>3, <1>7, <1>11 DEF NetworkInv, RequestsOwned, Live, FreeCell,
       NewRequest
  <2>2. RequestsOwned'
    BY <1>7, <1>8, <2>1 DEF NetworkInv, RequestsOwned, Live
  <2> QED
    BY <1>4, <1>6, <2>2 DEF NetworkInv
<1> QED
  BY <1>9, <1>10, <1>11

\* The steps in between write the answer of the request that is served.
LEMMA ServeStep ==
    ASSUME NetworkInv, work # "receive", work' # "receive",
           work' \in {"receive", "check", "io", "event", "give", "release"},
           busy' \in Nat, outcome' \in [Callers -> Outcomes],
           NEW a \in Outcomes, Answer(a),
           UNCHANGED <<queue, stage, handle, left, serving, wifi>>
    PROVE  NetworkInv'
<1>1. serving \in Requests
  BY DEF NetworkInv, OneHolder
<1>2. /\ heap' \in [Requests -> NetworkRequest]
      /\ \A r \in Requests : /\ heap'[r].kind = heap[r].kind
                             /\ heap'[r].released = heap[r].released
  BY <1>1, AnswerKeeps DEF NetworkInv
<1>3. NetworkTypeOK'
  BY <1>2 DEF NetworkInv, NetworkTypeOK
<1>4. OneHolder' /\ RequestsOwned'
  BY <1>2, HoldersKept DEF NetworkInv
<1> QED
  BY <1>3, <1>4 DEF NetworkInv

\* xSemaphoreGive changes no hold.
LEMMA GiveStep ==
    ASSUME NetworkInv, Give
    PROVE  NetworkInv'
<1>1. /\ heap \in [Requests -> NetworkRequest] /\ serving \in Requests
      /\ heap[serving] \in NetworkRequest
      /\ work = "give" /\ work' = "release"
      /\ heap' = [heap EXCEPT ![serving] =
                     [heap[serving] EXCEPT !.done = TRUE]]
      /\ UNCHANGED <<queue, stage, handle, left, outcome, serving, busy, wifi>>
  BY DEF Give, NetworkInv, NetworkTypeOK, OneHolder
<1>2. [heap[serving] EXCEPT !.done = TRUE] \in NetworkRequest
  BY <1>1 DEF NetworkRequest
<1>3. NetworkTypeOK'
  BY <1>1, <1>2 DEF NetworkInv, NetworkTypeOK
<1>4. \A r \in Requests : /\ heap'[r].kind = heap[r].kind
                          /\ heap'[r].released = heap[r].released
  BY <1>1 DEF NetworkRequest
<1>5. OneHolder' /\ RequestsOwned'
  BY <1>1, <1>4, HoldersKept DEF NetworkInv
<1> QED
  BY <1>3, <1>5 DEF NetworkInv

\* So every step of networkTaskLoop keeps the invariant.
LEMMA LoopStep ==
    ASSUME NetworkInv, NetworkLoop
    PROVE  NetworkInv'
<1> USE DEF NetworkInv
<1>1. CASE BeginIo
  <2>1. NetworkTypeOK'
    BY <1>1 DEF BeginIo, NetworkTypeOK
  <2>2. OneHolder' /\ RequestsOwned'
    BY <1>1, HoldersKept DEF BeginIo
  <2> QED
    BY <2>1, <2>2
<1>2. CASE FinishIo
  <2>1. PICK a \in Outcomes : Answer(a)
    <3>1. "failed" \in Outcomes
      BY DEF Outcomes
    <3> QED
      BY <1>2, <3>1, AnswersAreOutcomes DEF FinishIo
  <2> QED
    BY <1>2, <2>1, ServeStep DEF FinishIo, NetworkTypeOK
<1>3. CASE NoWifi
  <2>1. PICK a \in Outcomes : Answer(a)
    BY <1>3 DEF NoWifi, Outcomes
  <2> QED
    BY <1>3, <2>1, ServeStep DEF NoWifi, NetworkTypeOK
<1>4. CASE NoWifiEvent
  <2>1. "network" \in Callers /\ "event" \in Kinds
    BY DEF Callers, Kinds
  <2>2. Call("network", "event") /\ work = "check" /\ work' = "event"
    BY <1>4 DEF NoWifiEvent
  <2> QED
    BY <2>1, <2>2, CallStep
<1>5. CASE NoWifiEventDone
  <2>1. "noWifi" \in Outcomes /\ "none" \in Outcomes
    BY DEF Outcomes
  <2>2. outcome' \in [Callers -> Outcomes]
    BY <1>5, <2>1 DEF NoWifiEventDone, NetworkTypeOK
  <2> QED
    BY <1>5, <2>1, <2>2, ServeStep DEF NoWifiEventDone, NetworkTypeOK
<1>6. CASE Facade("network")
  BY <1>6, FacadeStep DEF Callers
<1> QED
  BY <1>1, <1>2, <1>3, <1>4, <1>5, <1>6, ReceiveStep, GiveStep, ReleaseStep
     DEF NetworkLoop

-----------------------------------------------------------------------------
(* The invariant *)

\* Without requests nobody holds any.
LEMMA EmptyHolds ==
    ASSUME heap \in [Requests -> {FreeCell}], queue = <<>>,
           \A t \in Callers : stage[t] = "idle",
           work = "receive", serving = NoRequest
    PROVE  OneHolder /\ RequestsOwned
<1>1. \A r \in Requests : /\ ~Live(r) /\ ~CallerHolds(r) /\ ~NetworkHolds(r)
                          /\ heap[r].released = 0
  BY NetworkAssumption DEF Live, CallerHolds, NetworkHolds, InQueue, FreeCell,
     NewRequest
<1> QED
  BY <1>1 DEF OneHolder, InQueue, RequestsOwned

\* At power-on there is no request.
LEMMA NetworkInvInit == NetworkInit => NetworkInv
<1> SUFFICES ASSUME NetworkInit PROVE NetworkInv
  OBVIOUS
<1>1. NetworkTypeOK
  BY DEF NetworkInit, NetworkTypeOK, FreeCell, NewRequest, NetworkRequest,
     Outcomes
<1>2. OneHolder /\ RequestsOwned
  BY EmptyHolds DEF NetworkInit
<1> QED
  BY <1>1, <1>2 DEF NetworkInv

\* A reboot leaves no request behind.
LEMMA EmptyHoldsNext ==
    ASSUME heap' \in [Requests -> {FreeCell}], queue' = <<>>,
           \A t \in Callers : stage'[t] = "idle",
           work' = "receive", serving' = NoRequest
    PROVE  OneHolder' /\ RequestsOwned'
<1>1. \A r \in Requests :
          /\ ~Live(r)' /\ ~CallerHolds(r)' /\ ~NetworkHolds(r)'
          /\ heap'[r].released = 0
  BY NetworkAssumption DEF Live, CallerHolds, NetworkHolds, InQueue, FreeCell,
     NewRequest
<1> QED
  BY <1>1 DEF OneHolder, InQueue, RequestsOwned

\* The invariant is inductive.
LEMMA NetworkInvStep == NetworkInv /\ [NetworkNext]_networkVars => NetworkInv'
<1> SUFFICES ASSUME NetworkInv, [NetworkNext]_networkVars
             PROVE  NetworkInv'
  OBVIOUS
<1>1. CASE \E t \in Clients : ClientCall(t) \/ Facade(t)
  <2>1. PICK t \in Callers : ClientCall(t) \/ Facade(t)
    BY <1>1 DEF Callers
  <2>2. CASE ClientCall(t)
    BY <2>2, CallStep DEF ClientCall, NetworkInv, NetworkTypeOK
  <2> QED
    BY <2>1, <2>2, FacadeStep
<1>2. CASE NetworkLoop
  BY <1>2, LoopStep
<1>3. CASE SetWifi
  <2>1. NetworkTypeOK'
    BY <1>3 DEF SetWifi, NetworkInv, NetworkTypeOK
  <2>2. OneHolder' /\ RequestsOwned'
    BY <1>3, HoldersKept DEF SetWifi, NetworkInv
  <2> QED
    BY <2>1, <2>2 DEF NetworkInv
<1>4. CASE Tick
  <2>1. NetworkTypeOK'
    BY <1>4 DEF Tick, NetworkInv, NetworkTypeOK
  <2>2. OneHolder' /\ RequestsOwned'
    BY <1>4, HoldersKept DEF Tick, NetworkInv
  <2> QED
    BY <2>1, <2>2 DEF NetworkInv
<1>5. CASE NetworkReboot
  <2>1. NetworkTypeOK'
    BY <1>5 DEF NetworkReboot, NetworkInv, NetworkTypeOK, FreeCell,
       NewRequest, NetworkRequest, Outcomes
  <2>2. OneHolder' /\ RequestsOwned'
    BY <1>5, EmptyHoldsNext DEF NetworkReboot
  <2> QED
    BY <2>1, <2>2 DEF NetworkInv
<1>6. CASE UNCHANGED networkVars
  <2>1. NetworkTypeOK'
    BY <1>6 DEF networkVars, NetworkInv, NetworkTypeOK
  <2>2. OneHolder' /\ RequestsOwned'
    BY <1>6, HoldersKept DEF networkVars, NetworkInv
  <2> QED
    BY <2>1, <2>2 DEF NetworkInv
<1> QED
  BY <1>1, <1>2, <1>3, <1>4, <1>5, <1>6 DEF NetworkNext

\* Every request is freed exactly once, by the last of its two parties, for
\* any number of calling tasks, cells and queue places and any deadline
\* (AgrumyClient).
THEOREM NetworkOwned == NetworkSpec => []RequestsOwned
<1>1. NetworkSpec => []NetworkInv
  BY NetworkInvInit, NetworkInvStep, PTL DEF NetworkSpec
<1>2. NetworkInv => RequestsOwned
  BY DEF NetworkInv
<1> QED
  BY <1>1, <1>2, PTL
=============================================================================
