-------------------------- MODULE LoRaLink_proofs --------------------------
(***************************************************************************)
(* What holds of a LoRa node and the gateway's radio board, whatever they  *)
(* and the channel do.  The node keeps the promises of StoreAndForward:    *)
(* each uplink is sent, oldest first, or lost in a mishap; and without a   *)
(* mishap nothing that was sent waits in RTC memory.  An acknowledged      *)
(* uplink is with the board, but for one at each of its restarts.  And the *)
(* board sends the downlinks written to it as they were, until a byte is   *)
(* lost.                                                                   *)
(***************************************************************************)
EXTENDS LoRaLink, FiniteSetTheorems, TLAPS

USE DEF radioVars, loraFlash, loraHistory

\* What a step of the link is to the node: one of its own, or none.
NodeVars == <<node, rtc, radioVars, loraFlash, radiated, loraHistory>>
NodeStep == LoRaNext \/ UNCHANGED NodeVars

LEMMA LinkIsNodeStep == [LinkNext]_linkVars => NodeStep
  BY DEF LinkNext, linkVars, loraVars, NodeStep, NodeVars

-----------------------------------------------------------------------------
(* The invariant *)

NodeTyped ==
    /\ node \in Nodes
    /\ rtc \in SUBSET Nat /\ uplink \in SUBSET Nat /\ sent \in SUBSET Nat
    /\ loraFiles \in SUBSET LoRaFile /\ loraOrphans \in SUBSET Nat
    /\ radiated \in SUBSET Nat /\ made \in Nat

\* Files are in the order of their names, older than what is in RTC memory,
\* which is older than this cycle's uplink.
NodeLine ==
    /\ \A f, g \in loraFiles :
          /\ f # g => f.name # g.name
          /\ f.name < g.name => \A i \in f.items : \A j \in g.items : i < j
    /\ \A f \in loraFiles : \A i \in f.items :
          i <= made /\ \A j \in rtc \cup uplink : i < j
    /\ \A i \in rtc : i <= made /\ \A j \in uplink : i < j
    /\ \A i \in uplink \cup radiated : i <= made

\* What the node has in hand where it is, and what of it has been sent.
NodePlace ==
    /\ uplink # {} => node \in {"send", "buffer", "listen"}
    /\ \A i, j \in uplink : i = j
    /\ sent # {} => node \in {"disk", "drain"}
    /\ node = "disk" =>
          \A i \in sent : \E f \in loraFiles : OldestFile(f) /\ i \in f.items
    /\ node = "drain" => sent \subseteq rtc /\ loraFiles = {}
    /\ node = "send" \/ (node = "uplink" /\ backlogClear) =>
          rtc = {} /\ loraFiles = {}
    /\ node \in {"send", "buffer"} => uplink \cap radiated = {}
    /\ node = "listen" => uplink \subseteq radiated
    /\ sent \subseteq radiated
    /\ safe => rtc \cap radiated \subseteq sent

\* What a flush has sent is older than all else.
SentFirst == \A i \in sent : \A j \in Queued : j < i => j \in sent

NodeInv == NodeTyped /\ NodeLine /\ NodePlace /\ SentFirst

LEMMA InitNodeInv == LinkInit => NodeInv
  BY DEF LinkInit, LoRaInit, NodeInv, NodeTyped, NodeLine, NodePlace, SentFirst,
     Nodes, Queued, OnDisk

LEMMA NodeTypedStep == NodeInv /\ NodeStep => NodeTyped'
<1> SUFFICES ASSUME NodeInv, NodeStep PROVE NodeTyped'
  OBVIOUS
<1> USE DEF NodeInv, NodeTyped, Nodes
<1>1. CASE BeginReady \/ BeginFails \/ DiskSendFails \/ FileSent \/ DiskClear
           \/ NoUplink \/ TransmitFails \/ WindowPasses \/ Heard \/ DeepSleep
  BY <1>1 DEF BeginReady, BeginFails, DiskSendFails, SendFails, FileSent,
     DiskClear, NoUplink, TransmitFails, WindowPasses, Heard, DeepSleep, Fresh
<1>2. CASE FileDropped \/ RtcSendFails \/ Drained \/ PowerFails \/ WatchdogBites
  BY <1>2 DEF FileDropped, RtcSendFails, SendFails, Drained, Compacted,
     PowerFails, WatchdogBites, Reset, Fresh
<1>3. CASE BuildUplink
  BY <1>3 DEF BuildUplink
<1>4. ToSend \in SUBSET Nat
  <2>1. \A f \in loraFiles : f.items \in SUBSET Nat
    BY DEF LoRaFile
  <2> QED
    BY <2>1 DEF ToSend
<1>5. CASE FlushSends \/ Transmit
  BY <1>4, <1>5 DEF FlushSends, Transmit, Sends, Oldest
<1>6. CASE Appended
  BY <1>6 DEF Appended, Buffered
<1>61. CASE SpillFails
  <2>1. loraOrphans' \in SUBSET Nat
    <3>1. \A n \in 1..MaxUplinks : loraOrphans \cup {n} \in SUBSET Nat
      BY LoRaAssumption DEF LoRaAssumption
    <3> QED
      BY <1>61, <3>1 DEF SpillFails
  <2> QED
    BY <1>61, <2>1 DEF SpillFails, Buffered
<1>7. CASE SpillSaved
  <2>1. \A n \in 1..MaxUplinks : [name |-> n, items |-> rtc] \in LoRaFile
    BY LoRaAssumption DEF LoRaAssumption, LoRaFile
  <2> QED
    BY <1>7, <2>1 DEF SpillSaved, Buffered
<1>8. CASE UNCHANGED NodeVars
  BY <1>8 DEF NodeVars
<1> QED
  BY <1>1, <1>2, <1>3, <1>5, <1>6, <1>61, <1>7, <1>8
     DEF NodeStep, LoRaNext

LEMMA ToSendQueued == ToSend \subseteq Queued
  BY DEF ToSend, Queued, OnDisk

\* The steps that only drop things.
LEMMA LessInLine ==
    ASSUME NodeTyped, NodeLine,
           rtc' \subseteq rtc, uplink' \subseteq uplink,
           loraFiles' \subseteq loraFiles, radiated' = radiated, made' = made
    PROVE  NodeLine'
  BY DEF NodeLine

LEMMA NodeLineStep == NodeInv /\ NodeStep => NodeLine'
<1> SUFFICES ASSUME NodeInv, NodeStep PROVE NodeLine'
  OBVIOUS
<1> USE DEF NodeInv
<1>1. CASE BeginReady \/ BeginFails \/ DiskSendFails \/ FileSent \/ DiskClear
           \/ NoUplink \/ TransmitFails \/ WindowPasses \/ Heard \/ DeepSleep
  BY <1>1, LessInLine
     DEF BeginReady, BeginFails, DiskSendFails, SendFails, FileSent,
     DiskClear, NoUplink, TransmitFails, WindowPasses, Heard, DeepSleep, Fresh
<1>2. CASE FileDropped \/ RtcSendFails \/ Drained \/ PowerFails \/ WatchdogBites
           \/ UNCHANGED NodeVars
  BY <1>2, LessInLine
     DEF FileDropped, RtcSendFails, SendFails, Drained, Compacted,
     PowerFails, WatchdogBites, Reset, Fresh, NodeVars
<1>3. CASE BuildUplink
  BY <1>3 DEF BuildUplink, NodeLine, NodeTyped, LoRaFile
<1>4. CASE FlushSends \/ Transmit
  <2>1. PICK i \in Queued : radiated' = radiated \cup {i}
    BY <1>4, ToSendQueued DEF FlushSends, Transmit, Sends, Oldest, Queued
  <2>2. i <= made
    BY <2>1 DEF Queued, OnDisk, NodeLine
  <2>3. UNCHANGED <<rtc, uplink, loraFiles, made>>
    BY <1>4 DEF FlushSends, Transmit
  <2> QED
    BY <2>1, <2>2, <2>3 DEF NodeLine
<1>5. CASE Appended \/ SpillFails
  <2>1. /\ rtc' \subseteq rtc \cup uplink /\ uplink' = {}
        /\ UNCHANGED <<loraFiles, radiated, made>>
    BY <1>5 DEF Appended, SpillFails, Buffered
  <2> QED
    BY <2>1 DEF NodeLine
<1>6. CASE SpillSaved
  <2> DEFINE new(n) == [name |-> n, items |-> rtc]
  <2>1. PICK n \in 1..MaxUplinks :
          NextName(n) /\ loraFiles' = loraFiles \cup {new(n)}
    BY <1>6 DEF SpillSaved
  <2>2. rtc' = uplink /\ uplink' = {} /\ UNCHANGED <<radiated, made>>
    BY <1>6 DEF SpillSaved, Buffered
  <2>3. n \in Nat /\ new(n).name = n /\ new(n).items = rtc
    BY LoRaAssumption DEF LoRaAssumption
  <2>4. \A f \in loraFiles : f.name \in Nat /\ f.name < n
    BY <2>1 DEF NextName, Names, NodeTyped, LoRaFile
  <2>5. \A f \in loraFiles' : f \in loraFiles \/ f = new(n)
    BY <2>1
  <2> HIDE DEF new
  <2>6. (\A f, g \in loraFiles :
           /\ f # g => f.name # g.name
           /\ f.name < g.name =>
                 \A i \in f.items : \A j \in g.items : i < j)'
    BY <2>3, <2>4, <2>5 DEF NodeLine
  <2>7. (\A f \in loraFiles : \A i \in f.items :
           i <= made /\ \A j \in rtc \cup uplink : i < j)'
    BY <2>2, <2>3, <2>5 DEF NodeLine
  <2>8. (/\ \A i \in rtc : i <= made /\ \A j \in uplink : i < j
         /\ \A i \in uplink \cup radiated : i <= made)'
    BY <2>2 DEF NodeLine
  <2> QED
    BY <2>6, <2>7, <2>8 DEF NodeLine
<1> QED
  BY <1>1, <1>2, <1>3, <1>4, <1>5, <1>6 DEF NodeStep, LoRaNext

-----------------------------------------------------------------------------
(* The oldest file *)

LEMMA OldestAlone ==
    ASSUME NodeTyped, NodeLine, NEW f, NEW g, OldestFile(f), OldestFile(g)
    PROVE  f = g
<1>1. /\ f \in loraFiles /\ g \in loraFiles
      /\ f.name <= g.name /\ g.name <= f.name
  BY DEF OldestFile
<1>2. f.name \in Nat /\ g.name \in Nat
  BY <1>1 DEF NodeTyped, LoRaFile
<1> QED
  BY <1>1, <1>2 DEF NodeLine

LEMMA ToSendOfFile ==
    ASSUME NodeTyped, NodeLine, node = "disk", NEW f, OldestFile(f)
    PROVE  ToSend = f.items \ sent
<1>1. {g \in loraFiles : OldestFile(g)} = {f}
  BY OldestAlone DEF OldestFile
<1>2. ToSend = UNION {g.items \ sent : g \in {f}}
  BY <1>1 DEF ToSend
<1> QED
  BY <1>2

\* Of the files only the oldest has frames to send, and of a frame to send
\* there is one.
LEMMA ToSendHasFile ==
    ASSUME node = "disk", NEW i \in ToSend
    PROVE  \E f \in loraFiles : OldestFile(f) /\ i \in f.items \ sent
  BY DEF ToSend

\* A frame the flush sends: what is older than it has been sent.
LEMMA OldestFirst ==
    ASSUME NodeInv, NEW i \in Oldest(ToSend)
    PROVE  \A j \in Queued : j < i => j \in sent
<1> SUFFICES ASSUME NEW j \in Queued, j < i, j \notin sent PROVE FALSE
  OBVIOUS
<1> USE DEF NodeInv
<1>1. i \in ToSend /\ \A k \in ToSend : i <= k
  BY DEF Oldest
<1>2. i \in Nat /\ j \in Nat
  <2>1. Queued \in SUBSET Nat
    BY DEF Queued, OnDisk, NodeTyped, LoRaFile
  <2> QED
    BY <1>1, <2>1, ToSendQueued
<1>3. CASE node = "disk"
  <2>1. PICK f \in loraFiles : OldestFile(f) /\ i \in f.items
    BY <1>1, <1>3, ToSendHasFile
  <2>2. j \notin f.items
    BY <1>1, <1>2, <1>3, <2>1, ToSendOfFile
  <2>3. \A g \in loraFiles : j \notin g.items
    <3> SUFFICES ASSUME NEW g \in loraFiles, j \in g.items PROVE FALSE
      OBVIOUS
    <3>1. f # g /\ f.name \in Nat /\ g.name \in Nat /\ f.name <= g.name
      BY <2>1, <2>2 DEF OldestFile, NodeTyped, LoRaFile
    <3>2. f.name < g.name
      BY <3>1 DEF NodeLine
    <3> QED
      BY <1>2, <2>1, <3>2 DEF NodeLine
  <2>4. j \in rtc \cup uplink
    BY <2>3 DEF Queued, OnDisk
  <2> QED
    BY <1>2, <2>1, <2>4 DEF NodeLine
<1>4. CASE node = "drain"
  <2>1. i \in rtc /\ j \in rtc \cup uplink
    BY <1>1, <1>4 DEF ToSend, Queued, OnDisk, NodePlace
  <2>2. j \notin rtc
    BY <1>1, <1>2, <1>4 DEF ToSend
  <2> QED
    BY <1>2, <2>1, <2>2 DEF NodeLine
<1>5. CASE node = "send"
  <2>1. j \in uplink /\ ToSend = uplink
    BY <1>5 DEF ToSend, Queued, OnDisk, NodePlace
  <2> QED
    BY <1>1, <1>2, <2>1
<1> QED
  BY <1>1, <1>3, <1>4, <1>5 DEF ToSend

-----------------------------------------------------------------------------
(* The rest of the invariant *)

LEMMA SentFirstStep == NodeInv /\ NodeStep => SentFirst'
<1> SUFFICES ASSUME NodeInv, NodeStep PROVE SentFirst'
  OBVIOUS
<1>1. CASE BeginReady \/ BeginFails \/ DiskClear \/ NoUplink \/ TransmitFails
           \/ UNCHANGED NodeVars
  BY <1>1 DEF BeginReady, BeginFails, DiskClear, NoUplink, TransmitFails,
     NodeVars, NodeInv, SentFirst, Queued, OnDisk
<1>2. CASE DiskSendFails \/ FileSent \/ FileDropped \/ RtcSendFails \/ Drained
           \/ DeepSleep \/ PowerFails \/ WatchdogBites
  BY <1>2 DEF DiskSendFails, FileSent, FileDropped, RtcSendFails, Drained,
     Compacted, DeepSleep, PowerFails, WatchdogBites, Reset, Fresh, SentFirst
<1>3. CASE FlushSends
  <2>1. PICK i \in Oldest(ToSend) : sent' = sent \cup {i}
    BY <1>3 DEF FlushSends, Sends
  <2>2. Queued' = Queued
    BY <1>3 DEF FlushSends, Queued, OnDisk
  <2> QED
    BY <2>1, <2>2, OldestFirst DEF NodeInv, SentFirst
<1>4. CASE BuildUplink \/ Transmit \/ Appended \/ SpillSaved \/ SpillFails
           \/ WindowPasses \/ Heard
  <2>1. sent = {} /\ sent' = sent
    BY <1>4 DEF BuildUplink, Transmit, Appended, SpillSaved, SpillFails,
       Buffered, WindowPasses, Heard, NodeInv, NodePlace
  <2> QED
    BY <2>1 DEF SentFirst
<1> QED
  BY <1>1, <1>2, <1>3, <1>4 DEF NodeStep, LoRaNext

LEMMA NodePlaceStep == NodeInv /\ NodeStep => NodePlace'
<1> SUFFICES ASSUME NodeInv, NodeStep PROVE NodePlace'
  OBVIOUS
<1> USE DEF NodeInv
<1>1. CASE BeginReady \/ BeginFails \/ NoUplink \/ TransmitFails
  BY <1>1 DEF BeginReady, BeginFails, NoUplink, TransmitFails, SendFails,
     NodePlace
<1>10. CASE DiskClear
  BY <1>10 DEF DiskClear, NodePlace
<1>11. CASE UNCHANGED NodeVars
  BY <1>11 DEF NodeVars, NodePlace, OldestFile
<1>2. CASE DeepSleep \/ PowerFails \/ WatchdogBites
  BY <1>2 DEF DeepSleep, PowerFails, WatchdogBites, Reset, Fresh, Unlucky,
     NodePlace
<1>3. CASE DiskSendFails \/ FileSent \/ FileDropped
  <2>1. /\ sent' = {} /\ UNCHANGED <<rtc, uplink, radiated>> /\ uplink = {}
        /\ node = "disk" /\ node' \in {"disk", "uplink"}
        /\ node' = "uplink" => ~backlogClear'
        /\ safe' => safe
    BY <1>3 DEF DiskSendFails, SendFails, FileSent, FileDropped, Unlucky,
       NodePlace
  <2>2. safe => sent \cap rtc = {}
    <3>1. ASSUME NEW i \in sent PROVE i \notin rtc
      <4>1. PICK f \in loraFiles : i \in f.items
        BY <2>1, <3>1 DEF NodePlace
      <4>2. i \in Nat
        BY <3>1 DEF NodeTyped
      <4> QED
        BY <4>1, <4>2 DEF NodeLine
    <3> QED
      BY <3>1
  <2> QED
    BY <2>1, <2>2 DEF NodePlace
<1>4. CASE FlushSends
  <2>1. PICK i \in ToSend :
          sent' = sent \cup {i} /\ radiated' = radiated \cup {i}
    BY <1>4 DEF FlushSends, Sends
  <2>2. UNCHANGED <<node, rtc, uplink, backlogClear, loraFiles, safe>>
    BY <1>4 DEF FlushSends
  <2>3. node = "disk" =>
          \E f \in loraFiles : OldestFile(f) /\ i \in f.items
    BY <2>1, ToSendHasFile
  <2>4. node = "drain" => i \in rtc
    BY <2>1 DEF ToSend
  <2> QED
    BY <1>4, <2>1, <2>2, <2>3, <2>4 DEF FlushSends, NodePlace, OldestFile
<1>5. CASE RtcSendFails \/ Drained
  <2>1. /\ rtc' = rtc \ sent /\ sent' = {} /\ loraFiles = {}
        /\ UNCHANGED <<uplink, loraFiles, radiated, safe>> /\ uplink = {}
        /\ node = "drain" /\ node' = "uplink"
    BY <1>5 DEF RtcSendFails, SendFails, Drained, Compacted, NodePlace
  <2>2. backlogClear' => rtc' = {}
    BY <1>5, <2>1 DEF RtcSendFails, Drained, ToSend
  <2> QED
    BY <2>1, <2>2 DEF NodePlace
<1>6. CASE BuildUplink
  <2>1. made + 1 \notin radiated
    BY DEF NodeLine, NodeTyped
  <2> QED
    BY <1>6, <2>1 DEF BuildUplink, NodePlace
<1>7. CASE Transmit
  <2>1. PICK i \in uplink : radiated' = radiated \cup {i} /\ i \in Oldest(ToSend)
    BY <1>7 DEF Transmit, Sends
  <2>2. \A j \in uplink : j \in radiated'
    BY <2>1 DEF NodePlace
  <2> QED
    BY <1>7, <2>1, <2>2 DEF Transmit, NodePlace
<1>8. CASE Appended \/ SpillSaved \/ SpillFails
  <2>1. /\ sent = {} /\ sent' = {} /\ node' = "sleep" /\ uplink' = {}
        /\ radiated' = radiated /\ uplink \cap radiated = {}
        /\ rtc' \subseteq rtc \cup uplink
        /\ safe' => safe
    BY <1>8 DEF Appended, SpillSaved, SpillFails, Buffered, Unlucky, NodePlace
  <2> QED
    BY <2>1 DEF NodePlace
<1>9. CASE WindowPasses \/ Heard
  BY <1>9 DEF WindowPasses, Heard, NodePlace
<1> QED
  BY <1>1, <1>2, <1>3, <1>4, <1>5, <1>6, <1>7, <1>8, <1>9,
     <1>10, <1>11
     DEF NodeStep, LoRaNext

LEMMA NodeInvStep == NodeInv /\ [LinkNext]_linkVars => NodeInv'
  BY LinkIsNodeStep, NodeTypedStep, NodeLineStep, SentFirstStep, NodePlaceStep
     DEF NodeInv

-----------------------------------------------------------------------------
(* Each step of the node is one of StoreAndForward *)

LEMMA Apart ==
    ASSUME NodeTyped, NodeLine
    PROVE  /\ rtc \cap OnDisk = {} /\ uplink \cap OnDisk = {}
           /\ rtc \cap uplink = {}
<1>1. \A f \in loraFiles : \A i \in f.items : i \notin rtc \cup uplink
  <2> SUFFICES ASSUME NEW f \in loraFiles, NEW i \in f.items,
                      i \in rtc \cup uplink
               PROVE  FALSE
    OBVIOUS
  <2>1. i < i /\ i \in Nat
    BY DEF NodeTyped, NodeLine
  <2> QED
    BY <2>1
<1>2. \A i \in rtc : i \notin uplink
  <2> SUFFICES ASSUME NEW i \in rtc, i \in uplink PROVE FALSE
    OBVIOUS
  <2>1. i < i /\ i \in Nat
    BY DEF NodeTyped, NodeLine
  <2> QED
    BY <2>1
<1> QED
  BY <1>1, <1>2 DEF OnDisk

\* A file that goes takes its own frames with it, and no others.
LEMMA FileGoes ==
    ASSUME NodeTyped, NodeLine, NEW f \in loraFiles,
           loraFiles' = loraFiles \ {f}
    PROVE  OnDisk' = OnDisk \ f.items /\ f.items \subseteq OnDisk
<1>1. ASSUME NEW g \in loraFiles, g # f PROVE g.items \cap f.items = {}
  <2> SUFFICES ASSUME NEW i \in g.items, i \in f.items PROVE FALSE
    OBVIOUS
  <2>1. f.name \in Nat /\ g.name \in Nat /\ f.items \subseteq Nat
    BY DEF NodeTyped, LoRaFile
  <2>2. f.name < g.name \/ g.name < f.name
    BY <1>1, <2>1 DEF NodeLine
  <2>3. i < i /\ i \in Nat
    BY <2>1, <2>2 DEF NodeLine
  <2> QED
    BY <2>3
<1>2. f.items \subseteq OnDisk
  BY DEF OnDisk
<1>3. OnDisk' \subseteq OnDisk \ f.items
  BY <1>1 DEF OnDisk
<1>4. OnDisk \ f.items \subseteq OnDisk'
  BY DEF OnDisk
<1> QED
  BY <1>2, <1>3, <1>4

LEMMA FileComes ==
    ASSUME NEW f, loraFiles' = loraFiles \cup {f}
    PROVE  OnDisk' = OnDisk \cup f.items
  BY DEF OnDisk

\* (abbreviation) What StoreAndForward sees does not change.
Rests == made' = made /\ Queued' = Queued /\ radiated' = radiated
         /\ lost' = lost /\ safe' = safe

LEMMA StepSimulated ==
    NodeInv /\ NodeStep => LoRaLine!Next \/ Rests
<1> SUFFICES ASSUME NodeInv, NodeStep PROVE LoRaLine!Next \/ Rests
  OBVIOUS
<1> USE DEF NodeInv
<1>0. /\ Queued = rtc \cup OnDisk \cup uplink
      /\ Queued' = rtc' \cup OnDisk' \cup uplink'
      /\ loraFiles' = loraFiles => OnDisk' = OnDisk
  BY DEF Queued, OnDisk
<1>1. CASE BeginReady \/ BeginFails \/ DiskSendFails \/ DiskClear
           \/ NoUplink \/ TransmitFails
  BY <1>0, <1>1 DEF BeginReady, BeginFails, DiskSendFails, SendFails,
     DiskClear, NoUplink, TransmitFails, Rests
<1>2. CASE UNCHANGED NodeVars
  BY <1>0, <1>2 DEF NodeVars, Rests
<1>3. CASE FlushSends
  <2>1. PICK i \in Oldest(ToSend) :
          sent' = sent \cup {i} /\ radiated' = radiated \cup {i}
    BY <1>3 DEF FlushSends, Sends
  <2>2. UNCHANGED <<rtc, uplink, loraFiles, made, lost, safe>>
    BY <1>3 DEF FlushSends
  <2> DEFINE S == sent \cup {i}
  <2>3. sent \subseteq Queued /\ i \in Queued
    <3>1. sent \subseteq Queued
      BY <1>3 DEF FlushSends, NodePlace, Queued, OnDisk
    <3> QED
      BY <2>1, <3>1, ToSendQueued DEF Oldest
  <2>4. \A k \in S : \A j \in Queued : j < k => j \in S
    BY <2>1, OldestFirst DEF SentFirst
  <2>5. radiated' = radiated \cup S
    BY <2>1 DEF NodePlace
  <2>6. LoRaLine!HandOver(S)
    BY <1>0, <2>2, <2>3, <2>4, <2>5 DEF LoRaLine!HandOver
  <2> QED
    BY <2>3, <2>6 DEF LoRaLine!Next
<1>4. CASE Transmit
  <2>1. PICK i \in uplink :
          i \in Oldest(ToSend) /\ radiated' = radiated \cup {i}
    BY <1>4 DEF Transmit, Sends
  <2>2. UNCHANGED <<rtc, uplink, loraFiles, made, lost, safe>>
    BY <1>4 DEF Transmit
  <2>3. Queued = {i} /\ Queued' = Queued
    BY <1>0, <1>4, <2>1, <2>2 DEF Transmit, NodePlace, OnDisk
  <2>4. LoRaLine!HandOver({i})
    BY <2>1, <2>2, <2>3 DEF LoRaLine!HandOver
  <2> QED
    BY <2>3, <2>4 DEF LoRaLine!Next
<1>5. ASSUME NEW S \in SUBSET Queued, S \subseteq radiated,
             Queued' = Queued \ S,
             UNCHANGED <<made, radiated, lost, safe>>
      PROVE  LoRaLine!Next
  BY <1>5 DEF LoRaLine!Next, LoRaLine!Release
<1>6. ASSUME NEW S \in SUBSET Queued, Mishap(S), Queued' = Queued \ S,
             ~safe', made' = made, radiated' = radiated
      PROVE  LoRaLine!Next
  <2>1. safe' = FALSE
    BY <1>6
  <2> QED
    BY <1>6, <2>1 DEF LoRaLine!Next, LoRaLine!Mishap, Mishap
<1>7. CASE FileSent \/ FileDropped
  <2>1. PICK f \in loraFiles :
          /\ OldestFile(f) /\ loraFiles' = loraFiles \ {f}
          /\ FileDropped => Mishap(f.items)
    BY <1>7 DEF FileSent, FileDropped
  <2>2. /\ UNCHANGED <<rtc, uplink, radiated, made>> /\ node = "disk"
    BY <1>7 DEF FileSent, FileDropped
  <2>3. Queued' = Queued \ f.items /\ f.items \in SUBSET Queued
    BY <1>0, <2>1, <2>2, Apart, FileGoes
  <2>4. CASE FileSent
    <3>1. f.items \subseteq radiated
      BY <2>1, <2>2, <2>4, ToSendOfFile DEF FileSent, NodePlace
    <3> QED
      BY <1>5, <2>2, <2>3, <2>4, <3>1 DEF FileSent
  <2>5. CASE FileDropped
    BY <1>6, <2>1, <2>2, <2>3, <2>5 DEF FileDropped, Unlucky
  <2> QED
    BY <1>7, <2>4, <2>5
<1>8. CASE RtcSendFails \/ Drained
  <2>1. /\ rtc' = rtc \ sent /\ sent \subseteq rtc
        /\ UNCHANGED <<uplink, loraFiles, radiated, made, lost, safe>>
        /\ sent \subseteq radiated
    BY <1>8 DEF RtcSendFails, SendFails, Drained, Compacted, NodePlace
  <2>2. Queued' = Queued \ sent /\ sent \in SUBSET Queued
    BY <1>0, <2>1, Apart
  <2> QED
    BY <1>5, <2>1, <2>2
<1>9. CASE BuildUplink
  <2>1. uplink = {} /\ uplink' = {made'} /\ made' = made + 1
        /\ UNCHANGED <<rtc, loraFiles, radiated, lost, safe>>
    BY <1>9 DEF BuildUplink, NodePlace
  <2>2. Queued' = Queued \cup {made'}
    BY <1>0, <2>1
  <2> QED
    BY <2>1, <2>2 DEF LoRaLine!Next, LoRaLine!Make
<1>10. CASE Appended
  BY <1>0, <1>10 DEF Appended, Buffered, Rests
<1>11. CASE SpillSaved
  <2>1. OnDisk' = OnDisk \cup rtc
    <3>1. PICK n \in 1..MaxUplinks :
            loraFiles' = loraFiles \cup {[name |-> n, items |-> rtc]}
      BY <1>11 DEF SpillSaved
    <3> DEFINE f == [name |-> n, items |-> rtc]
    <3>2. f.items = rtc
      OBVIOUS
    <3>3. loraFiles' = loraFiles \cup {f}
      BY <3>1
    <3> HIDE DEF f
    <3> QED
      BY <3>2, <3>3, FileComes
  <2> QED
    BY <1>0, <1>11, <2>1 DEF SpillSaved, Buffered, Rests
<1>12. CASE SpillFails
  <2>1. /\ rtc' = uplink /\ uplink' = {} /\ Mishap(rtc) /\ ~safe'
        /\ UNCHANGED <<loraFiles, radiated, made>>
    BY <1>12 DEF SpillFails, Buffered, Unlucky
  <2>2. Queued' = Queued \ rtc /\ rtc \in SUBSET Queued
    BY <1>0, <2>1, Apart
  <2> QED
    BY <1>6, <2>1, <2>2
<1>13. CASE WindowPasses \/ Heard
  <2>1. /\ UNCHANGED <<rtc, loraFiles, radiated, made, lost, safe>>
        /\ uplink' = uplink \/ uplink' = {}
        /\ uplink \subseteq radiated
    BY <1>13 DEF WindowPasses, Heard, NodePlace
  <2>2. CASE uplink' = uplink
    BY <1>0, <2>1, <2>2 DEF Rests
  <2>3. CASE uplink' = {}
    <3>1. Queued' = Queued \ uplink /\ uplink \in SUBSET Queued
      BY <1>0, <2>1, <2>3, Apart
    <3> QED
      BY <1>5, <2>1, <3>1
  <2> QED
    BY <2>1, <2>2, <2>3
<1>14. CASE DeepSleep
  BY <1>0, <1>14 DEF DeepSleep, Fresh, NodePlace, Rests
<1>15. CASE PowerFails \/ WatchdogBites
  <2>1. /\ UNCHANGED <<loraFiles, radiated, made>> /\ uplink' = {} /\ ~safe'
    BY <1>15 DEF PowerFails, WatchdogBites, Reset, Fresh, Unlucky
  <2>2. \/ rtc' = rtc /\ Mishap(uplink)
        \/ rtc' = {} /\ Mishap(rtc \cup uplink)
    BY <1>15 DEF PowerFails, WatchdogBites
  <2>3. CASE rtc' = rtc /\ Mishap(uplink)
    <3>1. Queued' = Queued \ uplink /\ uplink \in SUBSET Queued
      BY <1>0, <2>1, <2>3, Apart
    <3> QED
      BY <1>6, <2>1, <2>3, <3>1
  <2>4. CASE rtc' = {} /\ Mishap(rtc \cup uplink)
    <3> DEFINE S == rtc \cup uplink
    <3>1. Queued' = Queued \ S /\ S \in SUBSET Queued
      BY <1>0, <2>1, <2>4, Apart
    <3> QED
      BY <1>6, <2>1, <2>4, <3>1
  <2> QED
    BY <2>2, <2>3, <2>4
<1> QED
  BY <1>1, <1>2, <1>3, <1>4, <1>7, <1>8, <1>9, <1>10, <1>11, <1>12, <1>13,
     <1>14, <1>15 DEF NodeStep, LoRaNext

-----------------------------------------------------------------------------
(* Acknowledgements *)

\* The uplink whose acknowledgement is on its way
Answered == IF air.kind = "ack" THEN {air.item} ELSE {}

\* Every uplink acknowledged, or about to be, is in the board or behind it,
\* but for one at most at each restart of the board.
AckInv ==
    /\ IsFiniteSet(acked) /\ bridgeResets \in Nat
    /\ bridge \notin {"ack", "forward"} => heard = {}
    /\ \A i, j \in heard : i = j
    /\ IsFiniteSet((acked \cup Answered) \ (forwarded \cup heard))
    /\ Cardinality((acked \cup Answered) \ (forwarded \cup heard))
          <= bridgeResets

\* Part of a finite set is finite, and no larger.
LEMMA SmallerSet ==
    ASSUME NEW S, IsFiniteSet(S), NEW n \in Nat, Cardinality(S) <= n,
           NEW T, T \subseteq S
    PROVE  IsFiniteSet(T) /\ Cardinality(T) <= n
<1>1. IsFiniteSet(T) /\ Cardinality(T) <= Cardinality(S)
  BY FS_Subset
<1>2. Cardinality(S) \in Nat /\ Cardinality(T) \in Nat
  BY <1>1, FS_CardinalityType
<1> QED
  BY <1>1, <1>2

\* Only a restart between acknowledgement and forward loses one.
LEMMA AckStep == AckInv /\ [LinkNext]_linkVars => AckInv'
<1> SUFFICES ASSUME AckInv, [LinkNext]_linkVars PROVE AckInv'
  OBVIOUS
<1> DEFINE Owed == (acked \cup Answered) \ (forwarded \cup heard)
<1> USE DEF AckInv
<1>1. ASSUME acked' \cup Answered' \subseteq acked \cup Answered \cup heard,
             forwarded \cup heard \subseteq forwarded' \cup heard',
             UNCHANGED bridgeResets,
             bridge' \notin {"ack", "forward"} => heard' = {},
             \A i, j \in heard' : i = j
      PROVE  AckInv'
  <2>1. Owed' \subseteq Owed
    BY <1>1
  <2>2. IsFiniteSet(Owed') /\ Cardinality(Owed') <= bridgeResets
    BY <2>1, SmallerSet
  <2>3. IsFiniteSet(acked')
    <3>1. IsFiniteSet(heard)
      <4>1. CASE heard = {}
        BY <4>1, FS_EmptySet
      <4>2. CASE heard # {}
        <5>1. PICK i \in heard : heard = {i}
          BY <4>2
        <5> QED
          BY <5>1, FS_Singleton
      <4> QED
        BY <4>1, <4>2
    <3>2. IsFiniteSet(Answered)
      BY FS_EmptySet, FS_Singleton DEF Answered
    <3>3. IsFiniteSet(acked \cup Answered \cup heard)
      BY <3>1, <3>2, FS_Union
    <3> QED
      BY <1>1, <3>3, FS_Subset
  <2> QED
    BY <1>1, <2>2, <2>3
<1>2. CASE LoRaNext /\ UNCHANGED bridgeVars
  <2>1. acked' \subseteq acked \cup Answered
    BY <1>2 DEF LoRaNext, BeginReady, BeginFails, FlushSends, DiskSendFails,
       FileSent, FileDropped, DiskClear, RtcSendFails, Drained, BuildUplink,
       NoUplink, Transmit, TransmitFails, Appended, SpillSaved, SpillFails,
       Buffered, WindowPasses, Heard, isCounterAckV2, DeepSleep, PowerFails,
       WatchdogBites, Reset, Answered
  <2>2. air'.kind = "ack" => air' = air
    BY <1>2 DEF LoRaNext, BeginReady, BeginFails, FlushSends, DiskSendFails,
       FileSent, FileDropped, DiskClear, RtcSendFails, Drained, BuildUplink,
       NoUplink, Transmit, TransmitFails, Appended, SpillSaved, SpillFails,
       Buffered, WindowPasses, Heard, DeepSleep, PowerFails, Sends, SendFails,
       WatchdogBites, Reset, Fresh, Silence
  <2>3. UNCHANGED <<bridge, heard, forwarded, bridgeResets>>
    BY <1>2 DEF bridgeVars, uplinkVars
  <2> QED
    BY <1>1, <2>1, <2>2, <2>3 DEF Answered
<1>3. CASE BridgeNext /\ UNCHANGED loraVars
  <2>1. UNCHANGED <<acked, air>>
    BY <1>3 DEF loraVars
  <2>2. CASE BridgeRestarts
    <3>1. /\ heard' = {} /\ bridge' = "radio" /\ forwarded' = forwarded
          /\ bridgeResets' = bridgeResets + 1
      BY <2>2 DEF BridgeRestarts
    <3>2. Owed' \subseteq Owed \cup heard
      BY <2>1, <3>1 DEF Answered
    <3>3. IsFiniteSet(Owed') /\ Cardinality(Owed') <= bridgeResets + 1
      <4>1. CASE heard = {}
        <5>1. Cardinality(Owed) <= bridgeResets + 1
          BY FS_CardinalityType
        <5> QED
          BY <3>2, <4>1, <5>1, SmallerSet
      <4>2. CASE heard # {}
        <5>1. PICK i \in heard : heard = {i}
          BY <4>2
        <5>2. /\ IsFiniteSet(Owed \cup {i})
              /\ \/ Cardinality(Owed \cup {i}) = Cardinality(Owed)
                 \/ Cardinality(Owed \cup {i}) = Cardinality(Owed) + 1
          BY FS_AddElement
        <5>3. Cardinality(Owed \cup {i}) <= bridgeResets + 1
          BY <5>2, FS_CardinalityType
        <5> QED
          BY <3>2, <5>1, <5>2, <5>3, SmallerSet
      <4> QED
        BY <4>1, <4>2
    <3> QED
      BY <2>1, <3>1, <3>3
  <2>3. CASE ~BridgeRestarts
    <3>1. /\ UNCHANGED bridgeResets
          /\ forwarded \cup heard \subseteq forwarded' \cup heard'
          /\ heard' \subseteq heard
          /\ bridge' \notin {"ack", "forward"} => heard' = {}
      BY <1>3, <2>3 DEF BridgeNext, GatewayWrites, LineLoses, NothingHeard,
         Forwards, ReadSerial, Skips, WaitsForMore, uplinkVars
    <3> QED
      BY <1>1, <2>1, <3>1 DEF Answered
  <2> QED
    BY <2>2, <2>3
<1>4. CASE /\ BridgeHears \/ BridgeAcknowledges \/ BridgeSendsDownlink
           /\ UNCHANGED acked
  <2>1. CASE BridgeHears
    <3>1. PICK i : heard' = {i} /\ heard = {} /\ bridge' = "ack"
      BY <2>1 DEF BridgeHears, Hears
    <3>2. UNCHANGED <<forwarded, bridgeResets>> /\ Answered' = {}
      BY <2>1 DEF BridgeHears, Hears, Silence, Answered
    <3> QED
      BY <1>1, <1>4, <3>1, <3>2
  <2>2. CASE BridgeAcknowledges
    <3>1. /\ Answered' \subseteq heard /\ bridge' = "forward"
          /\ UNCHANGED <<heard, forwarded, bridgeResets>>
      BY <2>2 DEF BridgeAcknowledges, Acknowledges, Answered, uplinkVars
    <3> QED
      BY <1>1, <1>4, <3>1
  <2>3. CASE BridgeSendsDownlink
    <3>1. /\ Answered' = {}
          /\ UNCHANGED <<bridge, heard, forwarded, bridgeResets>>
      BY <2>3 DEF BridgeSendsDownlink, SendsDownlink, Answered, uplinkVars
    <3> QED
      BY <1>1, <1>4, <3>1
  <2> QED
    BY <1>4, <2>1, <2>2, <2>3
<1>5. CASE UNCHANGED linkVars
  BY <1>5 DEF linkVars, loraVars, bridgeVars, uplinkVars, Answered
<1> QED
  BY <1>2, <1>3, <1>4, <1>5 DEF LinkNext

-----------------------------------------------------------------------------
(* Types *)

\* What else is known of the node's flash
FlashTyped ==
    /\ IsFiniteSet(loraFiles) /\ IsFiniteSet(loraOrphans)
    /\ \A f \in loraFiles : f.items \subseteq 1..made

\* The types of the node: RTC memory and flash stay within their limits only
\* because each number is in one place.
NodeTypeInv == NodeInv /\ LoRaTypeOK /\ FlashTyped

\* One more element, while there is room for it
LEMMA OneMore ==
    ASSUME NEW S, IsFiniteSet(S), NEW n \in Nat, Cardinality(S) < n, NEW x
    PROVE  IsFiniteSet(S \cup {x}) /\ Cardinality(S \cup {x}) <= n
<1>1. IsFiniteSet(S \cup {x}) /\ Cardinality(S) \in Nat
  BY FS_AddElement, FS_CardinalityType
<1>2. \/ Cardinality(S \cup {x}) = Cardinality(S)
      \/ Cardinality(S \cup {x}) = Cardinality(S) + 1
  BY FS_AddElement
<1> QED
  BY <1>1, <1>2

\* RTC memory never holds more than fits it: a frame too many spills it.
LEMMA RtcFits ==
    ASSUME NodeTypeInv, NodeStep
    PROVE  rtc' \subseteq 1..made' /\ Cardinality(rtc') <= RtcFrames
<1> USE DEF NodeTypeInv, LoRaTypeOK
<1>0. /\ RtcFrames \in Nat \ {0} /\ made \in Nat /\ made' \in Nat
      /\ made <= made'
  <2>1. made' = made \/ (made' = made + 1 /\ made < MaxUplinks)
    BY DEF NodeStep, NodeVars, LoRaNext, BeginReady, BeginFails, FlushSends,
       DiskSendFails, FileSent, FileDropped, DiskClear, RtcSendFails, Drained,
       BuildUplink, NoUplink, Transmit, TransmitFails, Appended, SpillSaved,
       SpillFails, Buffered, WindowPasses, Heard, DeepSleep, PowerFails,
       WatchdogBites, Reset, Fresh
  <2> QED
    BY <2>1, LoRaAssumption DEF LoRaAssumption
<1>1. IsFiniteSet(rtc)
  <2>1. IsFiniteSet(1..made)
    BY <1>0, FS_Interval
  <2> QED
    BY <2>1, FS_Subset
<1>10. \A S : S \subseteq 1..made => S \subseteq 1..made'
  BY <1>0
<1>2. \/ rtc' \subseteq rtc
      \/ Appended
      \/ rtc' = uplink
  BY DEF NodeStep, NodeVars, LoRaNext, BeginReady, BeginFails, FlushSends,
     DiskSendFails, FileSent, FileDropped, DiskClear, RtcSendFails, Drained,
     Compacted, BuildUplink, NoUplink, Transmit, TransmitFails, SpillSaved,
     SpillFails, Buffered, WindowPasses, Heard, DeepSleep, PowerFails,
     WatchdogBites, Reset, Fresh
<1>3. CASE rtc' \subseteq rtc
  <2>1. Cardinality(rtc') <= RtcFrames
    BY <1>0, <1>1, <1>3, SmallerSet
  <2> QED
    BY <1>3, <1>10, <2>1
<1>4. uplink = {} \/ \E i \in uplink : uplink = {i}
  BY DEF NodeInv, NodePlace
<1>5. CASE Appended
  <2>1. rtc' = rtc \cup uplink /\ Cardinality(rtc) < RtcFrames
        /\ uplink \subseteq 1..made
    BY <1>5 DEF Appended, Buffered
  <2>2. CASE uplink = {}
    <3>1. rtc' = rtc
      BY <2>1, <2>2
    <3> QED
      BY <1>10, <3>1
  <2>3. CASE \E i \in uplink : uplink = {i}
    <3>1. PICK i \in uplink : rtc' = rtc \cup {i}
      BY <2>1, <2>3
    <3>2. Cardinality(rtc') <= RtcFrames
      BY <1>0, <1>1, <2>1, <3>1, OneMore
    <3>3. rtc' \subseteq 1..made
      BY <2>1
    <3> QED
      BY <1>10, <3>2, <3>3
  <2> QED
    BY <1>4, <2>2, <2>3
<1>6. CASE rtc' = uplink
  <2>1. Cardinality(uplink) \in {0, 1}
    BY <1>4, FS_EmptySet, FS_Singleton
  <2>2. Cardinality(rtc') <= RtcFrames
    BY <1>0, <1>6, <2>1
  <2> QED
    BY <1>6, <1>10, <2>2
<1> QED
  BY <1>2, <1>3, <1>5, <1>6

\* A spill is a new file, of numbers already made.
LEMMA FlashStep ==
    ASSUME NodeTypeInv, NodeStep
    PROVE  /\ FlashTyped' /\ Cardinality(loraFiles') <= MaxFiles
<1> USE DEF NodeTypeInv, LoRaTypeOK, FlashTyped
<1>0. MaxFiles \in Nat /\ MaxUplinks \in Nat /\ made \in Nat
  BY LoRaAssumption DEF LoRaAssumption
<1>1. CASE SpillSaved
  <2>1. PICK n \in 1..MaxUplinks :
           loraFiles' = loraFiles \cup {[name |-> n, items |-> rtc]}
    BY <1>1 DEF SpillSaved
  <2>2. UNCHANGED <<loraOrphans, made>> /\ ~Full
    BY <1>1 DEF SpillSaved, Buffered
  <2>3. Cardinality(loraFiles) < MaxFiles
    <3>1. Cardinality(loraFiles) \in Nat /\ Cardinality(loraOrphans) \in Nat
      BY FS_CardinalityType
    <3> QED
      BY <1>0, <2>2, <3>1 DEF Full
  <2>4. IsFiniteSet(loraFiles') /\ Cardinality(loraFiles') <= MaxFiles
    BY <1>0, <2>1, <2>3, OneMore
  <2>5. \A f \in loraFiles' : f \in loraFiles \/ f.items = rtc
    BY <2>1
  <2> QED
    BY <2>2, <2>4, <2>5
<1>2. CASE ~SpillSaved
  <2>1. /\ loraFiles' \subseteq loraFiles
        /\ made' = made \/ made' = made + 1
        /\ loraOrphans' = loraOrphans
           \/ \E n \in 1..MaxUplinks : loraOrphans' = loraOrphans \cup {n}
    BY <1>2 DEF NodeStep, NodeVars, LoRaNext, BeginReady, BeginFails,
       FlushSends, DiskSendFails, FileSent, FileDropped, DiskClear,
       RtcSendFails, Drained, BuildUplink, NoUplink, Transmit, TransmitFails,
       Appended, SpillFails, Buffered, WindowPasses, Heard, DeepSleep,
       PowerFails, WatchdogBites, Reset, Fresh
  <2>2. IsFiniteSet(loraFiles') /\ Cardinality(loraFiles') <= MaxFiles
    BY <1>0, <2>1, SmallerSet
  <2>3. IsFiniteSet(loraOrphans')
    BY <2>1, FS_AddElement
  <2>4. \A f \in loraFiles' : f.items \subseteq 1..made'
    BY <1>0, <2>1
  <2> QED
    BY <2>2, <2>3, <2>4
<1> QED
  BY <1>1, <1>2

\* The numbers, and what may go wrong
LEMMA CountsStep ==
    ASSUME NodeTypeInv, LoRaNext
    PROVE  /\ sinceFed' \in 0..FramesPerTimeout
           /\ backlogClear' \in BOOLEAN /\ window' \in 0..2
           /\ made' \in 0..MaxUplinks /\ uplink' \subseteq 1..made'
           /\ faults' \in 0..MaxFaults /\ safe' \in BOOLEAN
<1>0. /\ MaxUplinks \in Nat /\ MaxFaults \in Nat /\ FramesPerTimeout \in Nat
      /\ made \in 0..MaxUplinks /\ faults \in 0..MaxFaults
      /\ sinceFed \in 0..FramesPerTimeout /\ uplink \subseteq 1..made
      /\ window \in 0..2 /\ backlogClear \in BOOLEAN /\ safe \in BOOLEAN
  BY LoRaAssumption DEF LoRaAssumption, NodeTypeInv, LoRaTypeOK
<1>1. \/ sinceFed' = sinceFed \/ sinceFed' = 0
      \/ sinceFed < FramesPerTimeout /\ sinceFed' = sinceFed + 1
  BY DEF LoRaNext, BeginReady, BeginFails, FlushSends, DiskSendFails,
     SendFails, FileSent, FileDropped, DiskClear, RtcSendFails, Drained,
     BuildUplink, NoUplink, Transmit, TransmitFails, Appended, SpillSaved,
     SpillFails, Buffered, WindowPasses, Heard, DeepSleep, PowerFails,
     WatchdogBites, Reset, Fresh, Unlucky, Sends
<1>2. \/ made' = made /\ uplink' \subseteq uplink
      \/ made < MaxUplinks /\ made' = made + 1 /\ uplink' = {made'}
  BY DEF LoRaNext, BeginReady, BeginFails, FlushSends, DiskSendFails,
     SendFails, FileSent, FileDropped, DiskClear, RtcSendFails, Drained,
     BuildUplink, NoUplink, Transmit, TransmitFails, Appended, SpillSaved,
     SpillFails, Buffered, WindowPasses, Heard, DeepSleep, PowerFails,
     WatchdogBites, Reset, Fresh, Unlucky, Sends
<1>3. \/ faults' = faults
      \/ faults < MaxFaults /\ faults' = faults + 1
  BY DEF LoRaNext, BeginReady, BeginFails, FlushSends, DiskSendFails,
     SendFails, FileSent, FileDropped, DiskClear, RtcSendFails, Drained,
     BuildUplink, NoUplink, Transmit, TransmitFails, Appended, SpillSaved,
     SpillFails, Buffered, WindowPasses, Heard, DeepSleep, PowerFails,
     WatchdogBites, Reset, Fresh, Unlucky, Sends
<1>4. window' = window \/ window' \in {0, 1, 2}
  BY DEF LoRaNext, BeginReady, BeginFails, FlushSends, DiskSendFails,
     SendFails, FileSent, FileDropped, DiskClear, RtcSendFails, Drained,
     BuildUplink, NoUplink, Transmit, TransmitFails, Appended, SpillSaved,
     SpillFails, Buffered, WindowPasses, Heard, DeepSleep, PowerFails,
     WatchdogBites, Reset, Fresh, Unlucky, Sends
<1>5. backlogClear' = backlogClear \/ backlogClear' = TRUE
      \/ backlogClear' = FALSE
  BY DEF LoRaNext, BeginReady, BeginFails, FlushSends, DiskSendFails,
     SendFails, FileSent, FileDropped, DiskClear, RtcSendFails, Drained,
     BuildUplink, NoUplink, Transmit, TransmitFails, Appended, SpillSaved,
     SpillFails, Buffered, WindowPasses, Heard, DeepSleep, PowerFails,
     WatchdogBites, Reset, Fresh, Unlucky, Sends
<1>7. safe' = safe \/ safe' = FALSE
  BY DEF LoRaNext, BeginReady, BeginFails, FlushSends, DiskSendFails,
     SendFails, FileSent, FileDropped, DiskClear, RtcSendFails, Drained,
     BuildUplink, NoUplink, Transmit, TransmitFails, Appended, SpillSaved,
     SpillFails, Buffered, WindowPasses, Heard, DeepSleep, PowerFails,
     WatchdogBites, Reset, Fresh, Unlucky, Sends
<1>6. made' \in 0..MaxUplinks /\ uplink' \subseteq 1..made'
  <2>1. made' \in 0..MaxUplinks /\ made \in 0..made'
    BY <1>0, <1>2
  <2>2. \A i : i \in 1..made => i \in 1..made'
    BY <1>0, <2>1
  <2>3. made' = made + 1 => made' \in 1..made'
    BY <1>0, <2>1
  <2> QED
    BY <1>0, <1>2, <2>1, <2>2, <2>3
<1>8. sinceFed' \in 0..FramesPerTimeout /\ faults' \in 0..MaxFaults
  BY <1>0, <1>1, <1>3
<1>9. backlogClear' \in BOOLEAN /\ safe' \in BOOLEAN
  BY <1>0, <1>5, <1>7, Zenon
<1> QED
  BY <1>0, <1>4, <1>6, <1>8, <1>9

\* What a mishap takes had been made.
LEMMA LostStep ==
    ASSUME NodeTypeInv, LoRaNext
    PROVE  lost' \subseteq 1..made'
<1> USE LoRaAssumption DEF LoRaAssumption, NodeTypeInv, LoRaTypeOK, FlashTyped
<1>1. lost' = lost \/ \E S \in SUBSET (1..made) : Mishap(S)
  <2>1. CASE FileDropped
    BY <2>1 DEF FileDropped
  <2>2. CASE SpillFails \/ PowerFails \/ WatchdogBites
    BY <2>2 DEF SpillFails, PowerFails, WatchdogBites
  <2>3. CASE ~(FileDropped \/ SpillFails \/ PowerFails \/ WatchdogBites)
    BY <2>3 DEF LoRaNext, BeginReady, BeginFails, FlushSends, DiskSendFails,
       FileSent, DiskClear, RtcSendFails, Drained, BuildUplink, NoUplink,
       Transmit, TransmitFails, Appended, SpillSaved, Buffered, WindowPasses,
       Heard, DeepSleep
  <2> QED
    BY <2>1, <2>2, <2>3
<1>2. made' = made \/ made' = made + 1
  BY DEF LoRaNext, BeginReady, BeginFails, FlushSends,
     DiskSendFails, FileSent, FileDropped, DiskClear, RtcSendFails, Drained,
     BuildUplink, NoUplink, Transmit, TransmitFails, Appended, SpillSaved,
     SpillFails, Buffered, WindowPasses, Heard, DeepSleep, PowerFails,
     WatchdogBites, Reset, Fresh
<1>3. made \in Nat
  OBVIOUS
<1> HIDE LoRaAssumption DEF LoRaAssumption, NodeTypeInv, FlashTyped
<1>4. \A i : i \in 1..made => i \in 1..made'
  BY <1>2, <1>3
<1>5. lost' \subseteq 1..made
  BY <1>1 DEF Mishap, NodeTypeInv
<1> QED
  BY <1>4, <1>5

\* What is on the air; and an acknowledged uplink was sent.
LEMMA AirStep ==
    ASSUME NodeTypeInv, LoRaNext
    PROVE  air' \in Frame /\ acked' \subseteq radiated'
<1> USE DEF NodeTypeInv, LoRaTypeOK, Frame, Silence
<1>1. CASE FlushSends \/ Transmit
  <2>1. PICK i : Sends(i)
    BY <1>1 DEF FlushSends, Transmit
  <2>2. i \in Nat
    BY <2>1, ToSendQueued
       DEF Sends, Oldest, Queued, OnDisk, NodeInv, NodeTyped, LoRaFile
  <2>3. acked' = acked
    BY <1>1 DEF FlushSends, Transmit
  <2> QED
    BY <2>1, <2>2, <2>3 DEF Sends
<1>2. CASE Heard
  BY <1>2 DEF Heard, isCounterAckV2, NodeInv, NodePlace
<1>3. CASE ~(FlushSends \/ Transmit \/ Heard)
  BY <1>3 DEF LoRaNext, BeginReady, BeginFails, DiskSendFails, SendFails,
     FileSent, FileDropped, DiskClear, RtcSendFails, Drained, BuildUplink,
     NoUplink, TransmitFails, Appended, SpillSaved, SpillFails, Buffered,
     WindowPasses, DeepSleep, PowerFails, WatchdogBites, Reset, Fresh
<1> QED
  BY <1>1, <1>2, <1>3

-----------------------------------------------------------------------------
(* A frame of the serial line *)

\* The checksum of bytes is a byte.
LEMMA ChecksumType == ASSUME NEW s \in Seq(Byte) PROVE Checksum(s) \in Byte
<1> DEFINE set(bit) == {i \in DOMAIN s : (s[i] \div bit) % 2 = 1}
<1>1. DOMAIN s = 1..Len(s) /\ Len(s) \in Nat
  OBVIOUS
<1>2. IsFiniteSet(DOMAIN s)
  BY <1>1, FS_Interval
<1>3. \A bit \in {1, 2, 4} : Cardinality(set(bit)) % 2 \in {0, 1}
  <2> SUFFICES ASSUME NEW bit \in {1, 2, 4}
               PROVE  Cardinality(set(bit)) % 2 \in {0, 1}
    OBVIOUS
  <2>1. set(bit) \subseteq DOMAIN s
    OBVIOUS
  <2> HIDE DEF set
  <2>2. Cardinality(set(bit)) \in Nat
    BY <1>2, <2>1, FS_Subset, FS_CardinalityType
  <2> QED
    BY <2>2
<1>4. Checksum(s) = (Cardinality(set(1)) % 2) + 2 * (Cardinality(set(2)) % 2)
                    + 4 * (Cardinality(set(4)) % 2)
  BY DEF Checksum
<1> HIDE DEF set
<1> QED
  BY <1>3, <1>4 DEF Byte

\* What the checksum is taken of
Header(p) == <<MARKER, TYPE_DOWNLINK, 1, Len(p)>> \o p

\* The bytes of a header
LEMMA HeaderType ==
    ASSUME NEW p \in Payloads
    PROVE  /\ p \in Seq(Byte) /\ Len(p) \in Nat /\ Len(p) \in Byte
           /\ Header(p) \in Seq(Byte) /\ Len(Header(p)) = Len(p) + 4
           /\ Header(p)[1] = MARKER /\ Header(p)[2] = TYPE_DOWNLINK
           /\ Header(p)[4] = Len(p)
           /\ \A i \in 1..Len(p) : Header(p)[i + 4] = p[i]
<1>1. p \in Seq(Byte) /\ Len(p) \in Byte /\ Len(p) \in Nat
  BY BridgeAssumption DEF BridgeAssumption
<1>2. /\ <<MARKER, TYPE_DOWNLINK, 1, Len(p)>> \in Seq(Byte)
      /\ Len(<<MARKER, TYPE_DOWNLINK, 1, Len(p)>>) = 4
  BY <1>1 DEF MARKER, TYPE_DOWNLINK, Byte
<1>3. Header(p) \in Seq(Byte) /\ Len(Header(p)) = Len(p) + 4
  BY <1>1, <1>2 DEF Header
<1>4. /\ Header(p)[1] = MARKER /\ Header(p)[2] = TYPE_DOWNLINK
      /\ Header(p)[4] = Len(p)
  BY <1>1, <1>2 DEF Header
<1>5. \A i \in 1..Len(p) : Header(p)[i + 4] = p[i]
  BY <1>1, <1>2 DEF Header
<1> QED
  BY <1>1, <1>3, <1>4, <1>5

\* The bytes of a frame: it fits the board's buffer.
LEMMA EncodedType ==
    ASSUME NEW p \in Payloads
    PROVE  /\ Encoded(p) \in Seq(Byte) /\ Len(Encoded(p)) = Len(p) + 5
           /\ Len(p) + 5 <= Capacity /\ Capacity \in Nat
           /\ \A i \in 1..Len(p) + 4 : Encoded(p)[i] = Header(p)[i]
           /\ Encoded(p)[Len(p) + 5] = Checksum(Header(p))
<1>1. /\ Header(p) \in Seq(Byte) /\ Len(Header(p)) = Len(p) + 4
      /\ Len(p) \in Nat
  BY HeaderType
<1>2. Checksum(Header(p)) \in Byte
  BY <1>1, ChecksumType
<1>3. Encoded(p) = Append(Header(p), Checksum(Header(p)))
  BY DEF Encoded, Header
<1>4. Len(p) + 5 <= Capacity /\ Capacity \in Nat
  BY <1>1, BridgeAssumption DEF BridgeAssumption, HEADER_LENGTH
<1> QED
  BY <1>1, <1>2, <1>3, <1>4

\* How much is taken from the front is never more than there is.
LEMMA ConsumedType ==
    ASSUME NEW b \in Seq(Byte)
    PROVE  /\ Consumed(b) \in Nat /\ Consumed(b) <= Len(b)
           /\ Consumed(b) = 1 => b # <<>>
<1>1. CASE b = <<>>
  BY <1>1 DEF Consumed
<1>2. CASE b # <<>>
  <2>1. Len(b) \in Nat /\ Len(b) >= 1
    BY <1>2
  <2>2. \/ Consumed(b) \in {0, 1}
        \/ /\ Consumed(b) = FrameLength(b)
           /\ Len(b) >= 4 /\ ~(Len(b) < FrameLength(b))
    BY <1>2 DEF Consumed, HEADER_LENGTH
  <2>3. Len(b) >= 4 => b[4] \in Byte
    BY <2>1
  <2>4. Len(b) >= 4 => FrameLength(b) \in Nat
    BY <2>3 DEF FrameLength, HEADER_LENGTH, Byte
  <2> QED
    BY <1>2, <2>1, <2>2, <2>4
<1> QED
  BY <1>1, <1>2

-----------------------------------------------------------------------------
(* The types of the board *)

\* The types of the board, and of each fault's count
BridgeTyped == BridgeTypeOK /\ lostBytes \in Nat /\ bridgeResets \in Nat

\* The board writes nothing but bytes, and never past its buffer.
LEMMA BridgeTypedStep ==
    ASSUME BridgeTyped, air.item \in Nat, [LinkNext]_linkVars
    PROVE  BridgeTyped'
<1> USE DEF BridgeTyped, BridgeTypeOK
<1> USE BridgeAssumption DEF BridgeAssumption
<1>1. CASE GatewayWrites
  <2>1. PICK p \in Payloads : /\ downlinks' = Append(downlinks, p)
                              /\ line' = line \o Encoded(p)
    BY <1>1 DEF GatewayWrites
  <2>2. line' \in Seq(Byte) /\ downlinks' \in Seq(Payloads)
    BY <2>1, EncodedType
  <2> QED
    BY <1>1, <2>2 DEF GatewayWrites, uplinkVars
<1>2. CASE LineLoses
  <2>1. PICK n \in 1..Len(line) : line' = RemoveAt(line, n)
    BY <1>2 DEF LineLoses
  <2>2. line' \in Seq(Byte)
    BY <2>1 DEF RemoveAt
  <2>3. lostBytes' + bridgeResets' \in 0..MaxBridgeFaults
        /\ lostBytes' \in Nat /\ bridgeResets' \in Nat
    BY <1>2 DEF LineLoses
  <2> QED
    BY <1>2, <2>2, <2>3 DEF LineLoses, uplinkVars
<1>3. CASE NothingHeard \/ Forwards \/ WaitsForMore
  BY <1>3 DEF NothingHeard, Forwards, WaitsForMore, uplinkVars, serialVars
<1>4. CASE ReadSerial
  <2>1. PICK n \in 0..Len(line) :
          /\ Len(serialBuffer) + n <= Capacity
          /\ serialBuffer' = serialBuffer \o SubSeq(line, 1, n)
          /\ line' = SubSeq(line, n + 1, Len(line))
    BY <1>4 DEF ReadSerial
  <2>2. /\ SubSeq(line, 1, n) \in Seq(Byte) /\ Len(SubSeq(line, 1, n)) = n
        /\ line' \in Seq(Byte)
    BY <2>1
  <2>3. serialBuffer' \in Seq(Byte) /\ Len(serialBuffer') <= Capacity
    BY <2>1, <2>2
  <2> QED
    BY <1>4, <2>2, <2>3 DEF ReadSerial, uplinkVars
<1>5. CASE Skips
  <2>1. serialBuffer # <<>> /\ serialBuffer' = Tail(serialBuffer)
    BY <1>5, ConsumedType DEF Skips
  <2>2. serialBuffer' \in Seq(Byte) /\ Len(serialBuffer') <= Capacity
    BY <2>1
  <2> QED
    BY <1>5, <2>2 DEF Skips, uplinkVars
<1>6. CASE SendsDownlink
  <2> DEFINE c == Consumed(serialBuffer)
  <2>1. c \in Nat /\ c <= Len(serialBuffer)
        /\ serialBuffer' = SubSeq(serialBuffer, c + 1, Len(serialBuffer))
    BY <1>6, ConsumedType DEF SendsDownlink
  <2> HIDE DEF c
  <2>2. serialBuffer' \in Seq(Byte) /\ Len(serialBuffer') <= Capacity
    BY <2>1
  <2> QED
    BY <1>6, <2>2 DEF SendsDownlink, uplinkVars
<1>7. CASE BridgeRestarts
  BY <1>7 DEF BridgeRestarts
<1>8. CASE BridgeHears
  BY <1>8 DEF BridgeHears, Hears, serialVars
<1>9. CASE Acknowledges
  BY <1>9 DEF Acknowledges, uplinkVars, serialVars
<1>10. CASE UNCHANGED bridgeVars
  BY <1>10 DEF bridgeVars, uplinkVars, serialVars
<1> QED
  BY <1>1, <1>2, <1>3, <1>4, <1>5, <1>6, <1>7, <1>8, <1>9, <1>10
     DEF LinkNext, BridgeNext, BridgeAcknowledges, BridgeSendsDownlink,
         linkVars

\* The types of the link; with them, NodeInv is inductive.
LinkTyped == NodeTypeInv /\ BridgeTyped

\* Every step of the node, the board and the channel keeps the types.
LEMMA LinkTypedStep == LinkTyped /\ [LinkNext]_linkVars => LinkTyped'
<1> SUFFICES ASSUME LinkTyped, [LinkNext]_linkVars PROVE LinkTyped'
  OBVIOUS
<1>1. NodeTypeInv /\ BridgeTyped /\ air \in Frame
  BY DEF LinkTyped, NodeTypeInv, LoRaTypeOK
<1>2. BridgeTyped'
  BY <1>1, BridgeTypedStep DEF Frame
<1>3. NodeInv'
  BY <1>1, NodeInvStep DEF NodeTypeInv
<1>4. NodeStep
  BY LinkIsNodeStep
<1>5. /\ rtc' \subseteq 1..made' /\ Cardinality(rtc') <= RtcFrames
      /\ FlashTyped' /\ Cardinality(loraFiles') <= MaxFiles
  BY <1>1, <1>4, RtcFits, FlashStep
<1>6. /\ node' \in Nodes /\ sent' \subseteq Queued'
      /\ loraFiles' \subseteq LoRaFile /\ loraOrphans' \subseteq Nat
  BY <1>3 DEF NodeInv, NodeTyped, NodePlace, Queued, OnDisk
<1>7. CASE LoRaNext
  <2>1. /\ sinceFed' \in 0..FramesPerTimeout
        /\ backlogClear' \in BOOLEAN /\ window' \in 0..2
        /\ made' \in 0..MaxUplinks /\ uplink' \subseteq 1..made'
        /\ faults' \in 0..MaxFaults /\ safe' \in BOOLEAN
    BY <1>1, <1>7, CountsStep
  <2>2. /\ lost' \subseteq 1..made'
        /\ air' \in Frame /\ acked' \subseteq radiated'
    BY <1>1, <1>7, LostStep, AirStep
  <2>3. LoRaTypeOK'
    BY <1>5, <1>6, <2>1, <2>2, Zenon DEF LoRaTypeOK
  <2> QED
    BY <1>2, <1>3, <1>5, <2>3 DEF LinkTyped, NodeTypeInv
<1>8. CASE UNCHANGED <<NodeVars, acked>> /\ air' \in Frame
  <2>1. LoRaTypeOK'
    BY <1>1, <1>8 DEF NodeTypeInv, LoRaTypeOK, NodeVars, Queued, OnDisk
  <2> QED
    BY <1>2, <1>3, <1>5, <2>1 DEF LinkTyped, NodeTypeInv
<1>9. CASE ~LoRaNext
  <2>1. UNCHANGED <<NodeVars, acked>>
    BY <1>9 DEF LinkNext, linkVars, loraVars, NodeVars
  <2>2. air' \in Frame
    <3>1. heard \subseteq Nat
      BY <1>1 DEF BridgeTyped, BridgeTypeOK
    <3> QED
      BY <1>1, <1>9, <3>1
         DEF LinkNext, linkVars, loraVars, BridgeHears, BridgeAcknowledges,
             BridgeSendsDownlink, Silence, Frame
  <2> QED
    BY <1>8, <2>1, <2>2
<1> QED
  BY <1>2, <1>7, <1>9

-----------------------------------------------------------------------------
(* The serial line *)

\* What the board has yet to look at
Stream == serialBuffer \o line

\* The line has lost nothing, and the board has not restarted.
Undisturbed == lostBytes = 0 /\ bridgeResets = 0

\* The frame of downlink k ends at cut[k] of all that was written; what the
\* board has yet to look at is the frames of what it has yet to send.
Cuts(cut) ==
    /\ cut \in [0..Len(downlinks) -> Nat]
    /\ \A k \in 1..Len(downlinks) :
          cut[k] = cut[k - 1] + Len(downlinks[k]) + 5
    /\ \A k, l \in 0..Len(downlinks) : k <= l => cut[k] <= cut[l]
    /\ Len(serialBuffer) + Len(line)
          = cut[Len(downlinks)] - cut[Len(downSent)]
    /\ \A k \in Len(downSent) + 1..Len(downlinks) :
          \A j \in 1..Len(downlinks[k]) + 5 :
             Stream[cut[k - 1] - cut[Len(downSent)] + j]
                = Encoded(downlinks[k])[j]

\* What the board has sent is the beginning of what was written.
SentSoFar ==
    /\ downSent \in Seq(Payloads) /\ Len(downSent) <= Len(downlinks)
    /\ \A k \in 1..Len(downSent) : downSent[k] = downlinks[k]

\* Until something is lost, the stream is whole frames from where the board
\* cut it last; and outside ReadSerial and the decoder there is no whole one.
StreamInv ==
    Undisturbed =>
        /\ SentSoFar
        /\ \E cut : Cuts(cut)
        /\ bridge \notin {"serial", "decode"} => Consumed(serialBuffer) = 0

\* The buffer starts with as much of the frame of p as it holds.
Begins(b, p) ==
    \A j \in 1..Len(p) + 5 : j <= Len(b) => b[j] = Encoded(p)[j]

\* Where the payload of a frame lies
LEMMA PayloadPart ==
    ASSUME NEW b \in Seq(Byte), NEW n \in Nat, n + 5 <= Len(b)
    PROVE  /\ SubSeq(b, 5, n + 4) \in Seq(Byte)
           /\ Len(SubSeq(b, 5, n + 4)) = n
           /\ \A i \in 1..n : SubSeq(b, 5, n + 4)[i] = b[i + 4]
  OBVIOUS

\* Until the whole frame is there the decoder waits, and then it takes just it.
LEMMA WholeFrame ==
    ASSUME NEW b \in Seq(Byte), NEW p \in Payloads, Begins(b, p)
    PROVE  IF Len(b) < Len(p) + 5 THEN Consumed(b) = 0
           ELSE Consumed(b) = Len(p) + 5 /\ PayloadOf(b) = p
<1>1. /\ Len(p) \in Nat /\ p \in Seq(Byte) /\ Header(p) \in Seq(Byte)
      /\ Len(Header(p)) = Len(p) + 4 /\ Header(p)[1] = MARKER
      /\ Header(p)[2] = TYPE_DOWNLINK /\ Header(p)[4] = Len(p)
      /\ \A i \in 1..Len(p) : Header(p)[i + 4] = p[i]
  BY HeaderType
<1>2. /\ \A i \in 1..Len(p) + 4 : Encoded(p)[i] = Header(p)[i]
      /\ Encoded(p)[Len(p) + 5] = Checksum(Header(p))
  BY EncodedType
<1>3. Len(b) \in Nat
  OBVIOUS
<1>4. \A i \in 1..Len(p) + 4 : i <= Len(b) => b[i] = Header(p)[i]
  BY <1>1, <1>2 DEF Begins
<1>5. CASE Len(b) = 0
  <2>1. b = <<>>
    BY <1>5
  <2> QED
    BY <1>1, <1>5, <2>1 DEF Consumed
<1>6. CASE Len(b) \in 1..3
  <2>1. 1 \in 1..Len(p) + 4 /\ 1 <= Len(b) /\ Len(b) < 4
        /\ Len(b) < Len(p) + 5
    <3>1. \A k \in 1..3 : \A l \in Nat :
             1 \in 1..l + 4 /\ 1 <= k /\ k < 4 /\ k < l + 5
      OBVIOUS
    <3> QED
      BY <1>1, <1>6, <3>1
  <2>2. b[1] = MARKER
    BY <1>1, <1>4, <2>1
  <2>3. b # <<>>
    BY <2>1
  <2>4. Consumed(b) = 0
    BY <2>1, <2>2, <2>3 DEF Consumed, HEADER_LENGTH
  <2> QED
    BY <2>1, <2>4
<1>7. CASE Len(b) >= 4
  <2>1. /\ b # <<>> /\ b[1] = MARKER /\ b[2] = TYPE_DOWNLINK
        /\ b[4] = Len(p)
    BY <1>1, <1>3, <1>4, <1>7
  <2>2. FrameLength(b) = Len(p) + 5
    BY <1>1, <2>1 DEF FrameLength, HEADER_LENGTH
  <2>3. CASE Len(b) < Len(p) + 5
    BY <1>3, <1>7, <2>1, <2>2, <2>3 DEF Consumed, HEADER_LENGTH
  <2>4. CASE ~(Len(b) < Len(p) + 5)
    <3>1. SubSeq(b, 1, Len(p) + 4) = Header(p)
      <4> DEFINE front == SubSeq(b, 1, Len(p) + 4)
      <4>1. /\ front \in Seq(Byte) /\ Len(front) = Len(p) + 4
            /\ \A i \in 1..Len(p) + 4 : front[i] = b[i]
        BY <1>1, <1>3, <2>4
      <4>2. \A i \in 1..Len(p) + 4 : front[i] = Header(p)[i]
        BY <1>1, <1>3, <1>4, <2>4, <4>1
      <4> HIDE DEF front
      <4> QED
        BY <1>1, <4>1, <4>2
    <3>2. b[Len(p) + 5] = Checksum(Header(p))
      <4>1. Len(p) + 5 \in 1..Len(p) + 5 /\ Len(p) + 5 <= Len(b)
        BY <1>1, <1>3, <2>4
      <4>2. b[Len(p) + 5] = Encoded(p)[Len(p) + 5]
        BY <4>1 DEF Begins
      <4> QED
        BY <1>2, <4>2
    <3>3. Intact(b)
      <4>1. FrameLength(b) - 1 = Len(p) + 4
        BY <1>1, <2>2
      <4> QED
        BY <2>2, <3>1, <3>2, <4>1 DEF Intact
    <3>4. Consumed(b) = Len(p) + 5
      BY <1>1, <1>3, <1>7, <2>1, <2>2, <2>4, <3>3
         DEF Consumed, HEADER_LENGTH
    <3>5. PayloadOf(b) = SubSeq(b, 5, Len(p) + 4)
      BY <1>1, <2>2 DEF PayloadOf, HEADER_LENGTH
    <3>6. SubSeq(b, 5, Len(p) + 4) = p
      <4> DEFINE rest == SubSeq(b, 5, Len(p) + 4)
      <4>0. Len(p) \in Nat /\ Len(p) + 5 <= Len(b)
        BY <1>1, <1>3, <2>4
      <4>1. /\ rest \in Seq(Byte) /\ Len(rest) = Len(p)
            /\ \A i \in 1..Len(p) : rest[i] = b[i + 4]
        BY <4>0, PayloadPart, Zenon
      <4> HIDE DEF rest
      <4>2. ASSUME NEW i \in 1..Len(p)
            PROVE  rest[i] = p[i]
        <5>1. i + 4 \in 1..Len(p) + 4 /\ i + 4 <= Len(b)
          BY <1>3, <4>0
        <5>2. b[i + 4] = Header(p)[i + 4]
          BY <1>4, <5>1
        <5>3. Header(p)[i + 4] = p[i]
          BY <1>1
        <5> QED
          BY <4>1, <5>2, <5>3
      <4> QED
        BY <1>1, <4>1, <4>2
    <3> QED
      BY <2>4, <3>4, <3>5, <3>6
  <2> QED
    BY <2>3, <2>4
<1>8. Len(b) = 0 \/ Len(b) \in 1..3 \/ Len(b) >= 4
  <2>1. \A k \in Nat : k = 0 \/ k \in 1..3 \/ k >= 4
    OBVIOUS
  <2> QED
    BY <1>3, <2>1
<1> QED
  BY <1>5, <1>6, <1>7, <1>8

\* With nothing to send there is nothing to look at; otherwise the buffer
\* starts with the next frame.
LEMMA NextFrame ==
    ASSUME BridgeTyped, SentSoFar, NEW cut, Cuts(cut)
    PROVE  \/ /\ Len(downSent) = Len(downlinks)
              /\ serialBuffer = <<>> /\ line = <<>>
           \/ /\ Len(downSent) < Len(downlinks)
              /\ downlinks[Len(downSent) + 1] \in Payloads
              /\ Begins(serialBuffer, downlinks[Len(downSent) + 1])
              /\ cut[Len(downSent) + 1] = cut[Len(downSent)]
                    + Len(downlinks[Len(downSent) + 1]) + 5
              /\ Len(serialBuffer) + Len(line)
                    >= Len(downlinks[Len(downSent) + 1]) + 5
<1> DEFINE m == Len(downSent)
           n == Len(downlinks)
<1>1. /\ m \in Nat /\ n \in Nat /\ m <= n
      /\ serialBuffer \in Seq(Byte) /\ line \in Seq(Byte)
      /\ downlinks \in Seq(Payloads)
  BY DEF BridgeTyped, BridgeTypeOK, SentSoFar
<1>2. CASE m = n
  <2>1. cut[n] - cut[m] = 0
    BY <1>1, <1>2 DEF Cuts
  <2>2. Len(serialBuffer) + Len(line) = 0
    BY <2>1 DEF Cuts
  <2>3. Len(serialBuffer) = 0 /\ Len(line) = 0
    BY <1>1, <2>2
  <2> QED
    BY <1>1, <1>2, <2>3
<1>3. CASE m < n
  <2> DEFINE p == downlinks[m + 1]
  <2>1. p \in Payloads
    BY <1>1, <1>3
  <2>2. Len(p) \in Nat
    BY <2>1, HeaderType
  <2>3. /\ cut[m] \in Nat /\ cut[m + 1] \in Nat /\ cut[n] \in Nat
        /\ cut[m + 1] <= cut[n]
    BY <1>1, <1>3 DEF Cuts
  <2>4. cut[m + 1] = cut[m] + Len(p) + 5
    <3>1. m + 1 \in 1..n /\ (m + 1) - 1 = m
      BY <1>1, <1>3
    <3> QED
      BY <3>1 DEF Cuts
  <2>5. Len(serialBuffer) + Len(line) >= Len(p) + 5
    <3>1. Len(serialBuffer) + Len(line) = cut[n] - cut[m]
      BY Zenon DEF Cuts
    <3> QED
      BY <2>2, <2>3, <2>4, <3>1
  <2>6. \A j \in 1..Len(p) + 5 : Stream[j] = Encoded(p)[j]
    <3>1. m + 1 \in m + 1..n /\ (m + 1) - 1 = m
      BY <1>1, <1>3
    <3>2. \A j \in 1..Len(p) + 5 : cut[m] - cut[m] + j = j
      BY <2>2, <2>3
    <3> QED
      BY <3>1, <3>2 DEF Cuts
  <2>7. \A j \in 1..Len(serialBuffer) : Stream[j] = serialBuffer[j]
    BY <1>1 DEF Stream
  <2>8. Begins(serialBuffer, p)
    BY <1>1, <2>2, <2>6, <2>7 DEF Begins
  <2> QED
    BY <1>3, <2>1, <2>4, <2>5, <2>8
<1> QED
  BY <1>1, <1>2, <1>3

\* Two parts of the stream
LEMMA Joined ==
    ASSUME NEW s \in Seq(Byte), NEW t \in Seq(Byte)
    PROVE  /\ s \o t \in Seq(Byte) /\ Len(s) \in Nat /\ Len(t) \in Nat
           /\ Len(s \o t) = Len(s) + Len(t)
           /\ \A x \in 1..Len(s) : (s \o t)[x] = s[x]
           /\ \A x \in 1..Len(t) : (s \o t)[Len(s) + x] = t[x]
  OBVIOUS

\* Where byte j of a frame that starts after b is, counted from a
LEMMA InRange ==
    ASSUME NEW a \in Nat, NEW b \in Nat, NEW c \in Nat, NEW d \in Nat,
           a <= b, b + d <= c, NEW j \in 1..d
    PROVE  b - a + j \in 1..c - a
  OBVIOUS

\* The gateway process adds a frame at the end.
LEMMA WriteStream ==
    ASSUME BridgeTyped, SentSoFar, NEW cut, Cuts(cut), GatewayWrites
    PROVE  SentSoFar' /\ \E new : Cuts(new)'
<1>1. PICK p \in Payloads : /\ downlinks' = Append(downlinks, p)
                            /\ line' = line \o Encoded(p)
  BY DEF GatewayWrites
<1>2. PICK n, m, L : /\ n = Len(downlinks) /\ m = Len(downSent)
                     /\ L = Len(serialBuffer) + Len(line)
  OBVIOUS
<1>3. /\ n \in Nat /\ m \in Nat /\ m <= n /\ L \in Nat
      /\ serialBuffer \in Seq(Byte) /\ line \in Seq(Byte)
      /\ downlinks \in Seq(Payloads)
  BY <1>2 DEF BridgeTyped, BridgeTypeOK, SentSoFar
<1>4. /\ UNCHANGED <<serialBuffer, downSent>> /\ Len(p) \in Nat
      /\ Encoded(p) \in Seq(Byte) /\ Len(Encoded(p)) = Len(p) + 5
  BY EncodedType, HeaderType DEF GatewayWrites
<1>5. /\ Len(downlinks') = n + 1 /\ downlinks'[n + 1] = p
      /\ \A k \in 1..n : downlinks'[k] = downlinks[k]
  BY <1>1, <1>2, <1>3
<1>6. SentSoFar'
  BY <1>2, <1>3, <1>4, <1>5 DEF SentSoFar
<1>7. /\ Len(line') = Len(line) + Len(p) + 5
      /\ \A x \in 1..L : Stream'[x] = Stream[x]
      /\ \A j \in 1..Len(p) + 5 : Stream'[L + j] = Encoded(p)[j]
  <2>1. line' \in Seq(Byte) /\ Len(line') = Len(line) + Len(p) + 5
    <3>1. /\ line' \in Seq(Byte) /\ Len(line) \in Nat
          /\ Len(line') = Len(line) + Len(Encoded(p))
      BY <1>1, <1>3, <1>4, Joined
    <3> QED
      BY <1>4, <3>1
  <2>2. \A x \in 1..Len(line) : line'[x] = line[x]
    BY <1>1, <1>3, <1>4, Joined
  <2>3. \A j \in 1..Len(p) + 5 : line'[Len(line) + j] = Encoded(p)[j]
    BY <1>1, <1>3, <1>4, Joined
  <2>4. /\ \A x \in 1..Len(serialBuffer) :
              Stream[x] = serialBuffer[x] /\ Stream'[x] = serialBuffer[x]
        /\ \A x \in 1..Len(line) :
              Stream[Len(serialBuffer) + x] = line[x]
        /\ \A x \in 1..Len(line') :
              Stream'[Len(serialBuffer) + x] = line'[x]
    BY <1>3, <1>4, <2>1 DEF Stream
  <2>5. ASSUME NEW x \in 1..L PROVE Stream'[x] = Stream[x]
    <3>1. CASE x <= Len(serialBuffer)
      BY <1>3, <2>4, <3>1
    <3>2. CASE ~(x <= Len(serialBuffer))
      <4>1. PICK y \in 1..Len(line) : x = Len(serialBuffer) + y
        <5>1. /\ x - Len(serialBuffer) \in 1..Len(line)
              /\ x = Len(serialBuffer) + (x - Len(serialBuffer))
          BY <1>2, <1>3, <3>2
        <5> QED
          BY <5>1
      <4>2. y \in 1..Len(line')
        BY <1>3, <1>4, <2>1
      <4> QED
        BY <2>2, <2>4, <4>1, <4>2
    <3> QED
      BY <3>1, <3>2
  <2>6. ASSUME NEW j \in 1..Len(p) + 5
        PROVE  Stream'[L + j] = Encoded(p)[j]
    <3>1. /\ Len(line) + j \in 1..Len(line')
          /\ L + j = Len(serialBuffer) + (Len(line) + j)
      BY <1>2, <1>3, <1>4, <2>1
    <3> QED
      BY <2>3, <2>4, <3>1
  <2> QED
    BY <2>1, <2>5, <2>6
<1>8. /\ cut \in [0..n -> Nat] /\ L = cut[n] - cut[m]
      /\ \A k \in 1..n : cut[k] = cut[k - 1] + Len(downlinks[k]) + 5
      /\ \A k, l \in 0..n : k <= l => cut[k] <= cut[l]
      /\ \A k \in m + 1..n : \A j \in 1..Len(downlinks[k]) + 5 :
            Stream[cut[k - 1] - cut[m] + j] = Encoded(downlinks[k])[j]
  BY <1>2 DEF Cuts
<1>9. PICK new : new = [k \in 0..n + 1 |->
                          IF k <= n THEN cut[k] ELSE cut[n] + Len(p) + 5]
  OBVIOUS
<1>10. /\ new \in [0..n + 1 -> Nat] /\ new[n + 1] = cut[n] + Len(p) + 5
       /\ \A k \in 0..n : new[k] = cut[k]
  BY <1>3, <1>4, <1>8, <1>9
<1>11. \A k \in 1..n + 1 : new[k] = new[k - 1] + Len(downlinks'[k]) + 5
  <2> TAKE k \in 1..n + 1
  <2>1. CASE k = n + 1
    <3>1. k - 1 = n /\ n \in 0..n
      BY <1>3, <2>1
    <3> QED
      BY <1>5, <1>10, <2>1, <3>1
  <2>2. CASE k # n + 1
    <3>1. k \in 1..n /\ k \in 0..n /\ k - 1 \in 0..n
      BY <1>3, <2>2
    <3> QED
      BY <1>5, <1>8, <1>10, <3>1
  <2> QED
    BY <2>1, <2>2
<1>12. \A k, l \in 0..n + 1 : k <= l => new[k] <= new[l]
  <2> TAKE k, l \in 0..n + 1
  <2> HAVE k <= l
  <2>1. CASE l # n + 1
    <3>1. k \in 0..n /\ l \in 0..n
      BY <1>3, <2>1
    <3> QED
      BY <1>8, <1>10, <3>1
  <2>2. CASE l = n + 1 /\ k # n + 1
    <3>1. k \in 0..n /\ n \in 0..n /\ k <= n
      BY <1>3, <2>2
    <3>2. cut[k] <= cut[n] /\ cut[k] \in Nat /\ cut[n] \in Nat
      BY <1>8, <3>1
    <3> QED
      BY <1>4, <1>10, <2>2, <3>1, <3>2
  <2>3. CASE l = n + 1 /\ k = n + 1
    <3>1. new[n + 1] \in Nat
      BY <1>3, <1>10
    <3> QED
      BY <2>3, <3>1
  <2> QED
    BY <2>1, <2>2, <2>3
<1>13. Len(serialBuffer') + Len(line') = new[n + 1] - new[m]
  <2>1. new[m] = cut[m] /\ cut[m] \in Nat /\ cut[n] \in Nat
    <3>1. m \in 0..n /\ n \in 0..n
      BY <1>3
    <3> QED
      BY <1>8, <1>10, <3>1
  <2>2. Len(serialBuffer) \in Nat /\ Len(line) \in Nat
    BY <1>3
  <2>3. /\ serialBuffer' = serialBuffer /\ Len(line') = Len(line) + Len(p) + 5
        /\ Len(p) \in Nat /\ new[n + 1] = cut[n] + Len(p) + 5
        /\ Len(serialBuffer) + Len(line) = cut[n] - cut[m]
    BY <1>2, <1>4, <1>7, <1>8, <1>10
  <2> QED
    BY <2>1, <2>2, <2>3
<1>14. ASSUME NEW k \in m + 1..n + 1, NEW j \in 1..Len(downlinks'[k]) + 5
       PROVE  Stream'[new[k - 1] - new[m] + j] = Encoded(downlinks'[k])[j]
  <2>1. k - 1 \in 0..n /\ m \in 0..n /\ m <= k - 1
    BY <1>3
  <2>2. new[k - 1] = cut[k - 1] /\ new[m] = cut[m] /\ cut[m] <= cut[k - 1]
        /\ cut[m] \in Nat /\ cut[k - 1] \in Nat /\ cut[n] \in Nat
    <3>1. n \in 0..n
      BY <1>3
    <3>2. new[k - 1] = cut[k - 1] /\ new[m] = cut[m]
      BY <1>10, <2>1
    <3>3. cut[m] \in Nat /\ cut[k - 1] \in Nat /\ cut[n] \in Nat
      BY <1>8, <2>1, <3>1
    <3>4. cut[m] <= cut[k - 1]
      BY <1>8, <2>1
    <3> QED
      BY <3>2, <3>3, <3>4
  <2>3. CASE k = n + 1
    <3>1. cut[k - 1] - cut[m] = L
      BY <1>3, <1>8, <2>3
    <3> QED
      BY <1>5, <1>7, <2>2, <2>3, <3>1
  <2>4. CASE k # n + 1
    <3>1. k \in m + 1..n /\ k \in 1..n /\ k \in 0..n /\ n \in 0..n /\ k <= n
      BY <1>3, <2>4
    <3>2. downlinks'[k] = downlinks[k] /\ Len(downlinks[k]) \in Nat
      <4>1. downlinks'[k] = downlinks[k]
        BY <1>5, <3>1
      <4>2. downlinks[k] \in Payloads
        BY <1>2, <1>3, <3>1
      <4> QED
        BY <4>1, <4>2, HeaderType
    <3>3. cut[k] = cut[k - 1] + Len(downlinks[k]) + 5 /\ cut[k] <= cut[n]
      BY <1>8, <3>1
    <3>4. cut[k - 1] - cut[m] + j \in 1..L
      <4>1. /\ L = cut[n] - cut[m] /\ j \in 1..Len(downlinks[k]) + 5
            /\ cut[m] \in Nat /\ cut[k - 1] \in Nat /\ cut[n] \in Nat
            /\ cut[m] <= cut[k - 1] /\ Len(downlinks[k]) \in Nat
        BY <1>8, <2>2, <3>2
      <4>2. cut[k - 1] + (Len(downlinks[k]) + 5) <= cut[n]
        BY <3>3, <4>1
      <4>3. Len(downlinks[k]) + 5 \in Nat
        BY <4>1
      <4>4. cut[k - 1] - cut[m] + j \in 1..cut[n] - cut[m]
        BY <4>1, <4>2, <4>3, InRange
      <4> QED
        BY <4>1, <4>4
    <3>5. Stream[cut[k - 1] - cut[m] + j] = Encoded(downlinks[k])[j]
      BY <1>8, <3>1, <3>2
    <3> QED
      BY <1>7, <2>2, <3>2, <3>4, <3>5
  <2> QED
    BY <2>3, <2>4
<1>15. Cuts(new)'
  BY <1>2, <1>4, <1>5, <1>10, <1>11, <1>12, <1>13, <1>14 DEF Cuts
<1> QED
  BY <1>6, <1>15

\* The board reads some of the line into its buffer.
LEMMA ReadStream ==
    ASSUME BridgeTyped, SentSoFar, NEW cut, Cuts(cut), ReadSerial
    PROVE  SentSoFar' /\ Cuts(cut)'
<1>1. PICK n \in 0..Len(line) :
        /\ serialBuffer' = serialBuffer \o SubSeq(line, 1, n)
        /\ line' = SubSeq(line, n + 1, Len(line))
  BY DEF ReadSerial
<1>2. serialBuffer \in Seq(Byte) /\ line \in Seq(Byte)
  BY DEF BridgeTyped, BridgeTypeOK
<1>3. /\ SubSeq(line, 1, n) \in Seq(Byte) /\ Len(SubSeq(line, 1, n)) = n
      /\ line' \in Seq(Byte) /\ Len(line') = Len(line) - n
      /\ \A x \in 1..n : SubSeq(line, 1, n)[x] = line[x]
      /\ \A x \in 1..Len(line) - n : line'[x] = line[n + x]
  BY <1>1, <1>2
<1>4. /\ serialBuffer' \in Seq(Byte)
      /\ Len(serialBuffer') = Len(serialBuffer) + n
      /\ \A x \in 1..Len(serialBuffer) : serialBuffer'[x] = serialBuffer[x]
      /\ \A x \in 1..n : serialBuffer'[Len(serialBuffer) + x] = line[x]
  BY <1>1, <1>2, <1>3
<1>5. Len(serialBuffer') + Len(line') = Len(serialBuffer) + Len(line)
  <2>1. /\ Len(serialBuffer) \in Nat /\ Len(line) \in Nat /\ n \in Nat
        /\ Len(serialBuffer') = Len(serialBuffer) + n
        /\ Len(line') = Len(line) - n
    BY <1>2, <1>3, <1>4
  <2> QED
    BY <2>1
<1>6. Stream' = Stream
  <2>1. /\ Stream \in Seq(Byte) /\ Stream' \in Seq(Byte)
        /\ Len(Stream') = Len(Stream)
        /\ Len(Stream) = Len(serialBuffer) + Len(line)
    <3>1. /\ Len(Stream) = Len(serialBuffer) + Len(line)
          /\ Len(Stream') = Len(serialBuffer') + Len(line')
          /\ Stream \in Seq(Byte) /\ Stream' \in Seq(Byte)
      BY <1>2, <1>3, <1>4, Joined DEF Stream
    <3> QED
      BY <1>5, <3>1
  <2>2. /\ \A x \in 1..Len(serialBuffer) : Stream[x] = serialBuffer[x]
        /\ \A x \in 1..Len(line) : Stream[Len(serialBuffer) + x] = line[x]
        /\ \A x \in 1..Len(serialBuffer) + n : Stream'[x] = serialBuffer'[x]
        /\ \A x \in 1..Len(line) - n :
              Stream'[Len(serialBuffer) + n + x] = line'[x]
    BY <1>2, <1>3, <1>4, Joined DEF Stream
  <2>3. ASSUME NEW x \in 1..Len(Stream) PROVE Stream'[x] = Stream[x]
    <3>1. CASE x <= Len(serialBuffer)
      BY <1>2, <1>4, <2>2, <3>1
    <3>2. CASE Len(serialBuffer) < x /\ x <= Len(serialBuffer) + n
      <4>1. PICK y \in 1..n : x = Len(serialBuffer) + y
        <5>1. /\ x - Len(serialBuffer) \in 1..n
              /\ x = Len(serialBuffer) + (x - Len(serialBuffer))
          BY <1>2, <3>2
        <5> QED
          BY <5>1
      <4>2. y \in 1..Len(line) /\ x \in 1..Len(serialBuffer) + n
        BY <1>2, <3>2, <4>1
      <4> QED
        BY <1>4, <2>2, <4>1, <4>2
    <3>3. CASE Len(serialBuffer) + n < x
      <4>1. PICK y \in 1..Len(line) - n : x = Len(serialBuffer) + n + y
        <5> DEFINE z == x - (Len(serialBuffer) + n)
        <5>1. z \in 1..Len(line) - n /\ x = Len(serialBuffer) + n + z
          BY <1>2, <2>1, <3>3
        <5> QED
          BY <5>1
      <4>2. n + y \in 1..Len(line) /\ x = Len(serialBuffer) + (n + y)
        BY <1>2, <4>1
      <4> QED
        BY <1>3, <2>2, <4>1, <4>2
    <3> QED
      BY <1>2, <3>1, <3>2, <3>3
  <2> QED
    BY <2>1, <2>3
<1>7. UNCHANGED <<downlinks, downSent>>
  BY DEF ReadSerial
<1> QED
  BY <1>5, <1>6, <1>7 DEF SentSoFar, Cuts

\* The board takes the first frame out, and sends its payload.
LEMMA SendStream ==
    ASSUME BridgeTyped, SentSoFar, NEW cut, Cuts(cut), SendsDownlink
    PROVE  SentSoFar' /\ Cuts(cut)'
<1>1. PICK n, m, L, p : /\ n = Len(downlinks) /\ m = Len(downSent)
                        /\ p = downlinks[m + 1] /\ L = Len(p) + 5
  OBVIOUS
<1>2. /\ n \in Nat /\ m \in Nat /\ m <= n
      /\ serialBuffer \in Seq(Byte) /\ line \in Seq(Byte)
      /\ downlinks \in Seq(Payloads) /\ downSent \in Seq(Payloads)
  BY <1>1 DEF BridgeTyped, BridgeTypeOK, SentSoFar
<1>3. Consumed(serialBuffer) > 1
  BY DEF SendsDownlink, HasFrame
<1>4. /\ m < n /\ p \in Payloads /\ Begins(serialBuffer, p)
      /\ cut[m + 1] = cut[m] + L
  <2>1. serialBuffer = <<>> => Consumed(serialBuffer) = 0
    BY DEF Consumed
  <2>2. ~(Consumed(serialBuffer) = 0)
    BY <1>3
  <2> QED
    <3>1. \/ serialBuffer = <<>>
          \/ /\ Len(downSent) < Len(downlinks)
             /\ downlinks[Len(downSent) + 1] \in Payloads
             /\ Begins(serialBuffer, downlinks[Len(downSent) + 1])
             /\ cut[Len(downSent) + 1] = cut[Len(downSent)]
                   + Len(downlinks[Len(downSent) + 1]) + 5
      BY NextFrame
    <3>2. cut[m] \in Nat /\ (p \in Payloads => Len(p) \in Nat)
      <4>1. m \in 0..n /\ cut \in [0..n -> Nat]
        BY <1>1, <1>2 DEF Cuts
      <4> QED
        BY <4>1, HeaderType
    <3> QED
      BY <1>1, <2>1, <2>2, <3>1, <3>2
<1>5. L \in Nat /\ Len(p) \in Nat
  BY <1>1, <1>4, HeaderType
<1>6. /\ Len(serialBuffer) >= L /\ Consumed(serialBuffer) = L
      /\ PayloadOf(serialBuffer) = p
  <2>1. IF Len(serialBuffer) < L THEN Consumed(serialBuffer) = 0
        ELSE Consumed(serialBuffer) = L /\ PayloadOf(serialBuffer) = p
    BY <1>1, <1>2, <1>4, WholeFrame
  <2>2. ~(Len(serialBuffer) < L)
    BY <1>3, <2>1
  <2> QED
    BY <1>2, <1>5, <2>1, <2>2
<1>7. /\ downSent' = Append(downSent, p) /\ UNCHANGED <<line, downlinks>>
      /\ serialBuffer' = SubSeq(serialBuffer, L + 1, Len(serialBuffer))
  BY <1>6 DEF SendsDownlink
<1>8. SentSoFar' /\ Len(downSent') = m + 1
  <2>1. /\ downSent' \in Seq(Payloads) /\ Len(downSent') = m + 1
        /\ downSent'[m + 1] = p
        /\ \A k \in 1..m : downSent'[k] = downSent[k]
    BY <1>1, <1>2, <1>4, <1>7
  <2>2. \A k \in 1..m + 1 : k \in 1..m \/ k = m + 1
    BY <1>2
  <2>3. \A k \in 1..m : downSent[k] = downlinks[k]
    BY <1>1 DEF SentSoFar
  <2> QED
    BY <1>1, <1>2, <1>4, <1>7, <2>1, <2>2, <2>3 DEF SentSoFar
<1>9. /\ serialBuffer' \in Seq(Byte)
      /\ Len(serialBuffer') = Len(serialBuffer) - L
      /\ \A x \in 1..Len(serialBuffer) - L :
            serialBuffer'[x] = serialBuffer[x + L]
  BY <1>2, <1>5, <1>6, <1>7
<1>10. \A x \in 1..Len(serialBuffer) + Len(line) - L :
          Stream'[x] = Stream[x + L]
  <2>1. /\ \A x \in 1..Len(serialBuffer) : Stream[x] = serialBuffer[x]
        /\ \A x \in 1..Len(line) : Stream[Len(serialBuffer) + x] = line[x]
        /\ \A x \in 1..Len(serialBuffer) - L : Stream'[x] = serialBuffer'[x]
        /\ \A x \in 1..Len(line) :
              Stream'[Len(serialBuffer) - L + x] = line[x]
    <3>1. Stream' = serialBuffer' \o line
      BY <1>7 DEF Stream
    <3>2. /\ \A x \in 1..Len(serialBuffer') : Stream'[x] = serialBuffer'[x]
          /\ \A x \in 1..Len(line) :
                Stream'[Len(serialBuffer') + x] = line[x]
      BY <1>2, <1>9, <3>1, Joined
    <3>3. /\ \A x \in 1..Len(serialBuffer) : Stream[x] = serialBuffer[x]
          /\ \A x \in 1..Len(line) : Stream[Len(serialBuffer) + x] = line[x]
      BY <1>2, Joined DEF Stream
    <3> QED
      BY <1>9, <3>2, <3>3
  <2> TAKE x \in 1..Len(serialBuffer) + Len(line) - L
  <2>2. CASE x <= Len(serialBuffer) - L
    <3>1. x \in 1..Len(serialBuffer) - L /\ x + L \in 1..Len(serialBuffer)
      BY <1>2, <1>5, <1>6, <2>2
    <3> QED
      BY <1>9, <2>1, <3>1
  <2>3. CASE ~(x <= Len(serialBuffer) - L)
    <3>1. PICK y \in 1..Len(line) : x = Len(serialBuffer) - L + y
      <4> DEFINE z == x - (Len(serialBuffer) - L)
      <4>1. z \in 1..Len(line) /\ x = Len(serialBuffer) - L + z
        BY <1>2, <1>5, <1>6, <2>3
      <4> QED
        BY <4>1
    <3>2. x + L = Len(serialBuffer) + y
      BY <1>2, <1>5, <3>1
    <3> QED
      BY <2>1, <3>1, <3>2
  <2> QED
    BY <2>2, <2>3
<1>11. /\ cut \in [0..n -> Nat]
       /\ Len(serialBuffer) + Len(line) = cut[n] - cut[m]
       /\ \A k \in 1..n : cut[k] = cut[k - 1] + Len(downlinks[k]) + 5
       /\ \A k, l \in 0..n : k <= l => cut[k] <= cut[l]
       /\ \A k \in m + 1..n : \A j \in 1..Len(downlinks[k]) + 5 :
             Stream[cut[k - 1] - cut[m] + j] = Encoded(downlinks[k])[j]
  BY <1>1 DEF Cuts
<1>12. cut[m] \in Nat /\ cut[m + 1] \in Nat /\ cut[n] \in Nat
  BY <1>2, <1>4, <1>11
<1>13. Len(serialBuffer') + Len(line') = cut[n] - cut[m + 1]
  <2>1. /\ Len(serialBuffer) \in Nat /\ Len(line) \in Nat /\ L \in Nat
        /\ Len(serialBuffer') = Len(serialBuffer) - L /\ line' = line
        /\ Len(serialBuffer) + Len(line) = cut[n] - cut[m]
        /\ cut[m + 1] = cut[m] + L
    <3>1. Len(serialBuffer) \in Nat /\ Len(line) \in Nat
      BY <1>2
    <3>2. Len(serialBuffer) + Len(line) = cut[n] - cut[m]
      BY <1>11
    <3> QED
      BY <1>4, <1>5, <1>7, <1>9, <3>1, <3>2
  <2> QED
    BY <1>12, <2>1
<1>14. ASSUME NEW k \in m + 2..n, NEW j \in 1..Len(downlinks[k]) + 5
       PROVE  Stream'[cut[k - 1] - cut[m + 1] + j] = Encoded(downlinks[k])[j]
  <2>1. /\ k \in m + 1..n /\ k \in 1..n /\ k \in 0..n /\ k <= n
        /\ n \in 0..n /\ k - 1 \in 0..n /\ m + 1 \in 0..n /\ m + 1 <= k - 1
    BY <1>2, <1>4
  <2>2. Len(downlinks[k]) \in Nat
    BY <1>1, <1>2, <2>1, HeaderType
  <2>3. /\ cut[m + 1] <= cut[k - 1] /\ cut[k - 1] \in Nat /\ cut[k] <= cut[n]
        /\ cut[k] = cut[k - 1] + Len(downlinks[k]) + 5
    BY <1>11, <2>1
  <2>4. /\ cut[k - 1] - cut[m + 1] + j
              \in 1..Len(serialBuffer) + Len(line) - L
        /\ cut[k - 1] - cut[m + 1] + j + L = cut[k - 1] - cut[m] + j
    <3>1. Len(serialBuffer) + Len(line) = cut[n] - cut[m]
      BY <1>11
    <3>2. cut[m + 1] = cut[m] + L
      BY <1>4
    <3>3. Len(downlinks[k]) + 5 \in Nat
      BY <2>2
    <3>4. cut[k - 1] + (Len(downlinks[k]) + 5) <= cut[n]
      BY <2>2, <2>3
    <3>5. cut[k - 1] - cut[m + 1] + j \in 1..cut[n] - cut[m + 1]
      BY <1>12, <2>3, <3>3, <3>4, InRange
    <3>6. cut[n] - cut[m + 1] = Len(serialBuffer) + Len(line) - L
      BY <1>5, <1>12, <3>1, <3>2
    <3>7. j \in Nat
      BY <2>2
    <3>8. cut[k - 1] - cut[m + 1] + j + L = cut[k - 1] - cut[m] + j
      <4>1. \A a, b, d, l \in Nat : b - (a + l) + d + l = b - a + d
        OBVIOUS
      <4>2. cut[k - 1] \in Nat /\ cut[m] \in Nat /\ L \in Nat
        BY <1>5, <1>12, <2>3
      <4>3. cut[k - 1] - (cut[m] + L) + j + L = cut[k - 1] - cut[m] + j
        BY <3>7, <4>1, <4>2
      <4> QED
        BY <3>2, <4>3
    <3> QED
      BY <3>5, <3>6, <3>8
  <2>5. Stream[cut[k - 1] - cut[m] + j] = Encoded(downlinks[k])[j]
    BY <1>11, <2>1
  <2>6. PICK x : x = cut[k - 1] - cut[m + 1] + j
    OBVIOUS
  <2>7. Stream'[x] = Stream[x + L]
    BY <1>10, <2>4, <2>6
  <2> QED
    BY <2>4, <2>5, <2>6, <2>7
<1>15. Cuts(cut)'
  <2>1. \A k \in (m + 1) + 1..n : k \in m + 2..n
    BY <1>2
  <2> QED
    <3>1. /\ downlinks' = downlinks /\ Len(downlinks) = n
          /\ Len(downSent') = m + 1
      BY <1>1, <1>7, <1>8
    <3>2. \A k \in (m + 1) + 1..n : \A j \in 1..Len(downlinks[k]) + 5 :
             Stream'[cut[k - 1] - cut[m + 1] + j] = Encoded(downlinks[k])[j]
      BY <1>14, <2>1
    <3> QED
      BY <1>11, <1>13, <3>1, <3>2 DEF Cuts
<1> QED
  BY <1>8, <1>15

\* While no byte is lost, the decoder never has to resync.
LEMMA NoResync ==
    ASSUME BridgeTyped, SentSoFar, NEW cut, Cuts(cut)
    PROVE  ~Skips
<1>1. serialBuffer \in Seq(Byte)
  BY DEF BridgeTyped, BridgeTypeOK
<1>2. CASE serialBuffer = <<>>
  BY <1>2 DEF Skips, Consumed
<1>3. CASE ~(serialBuffer = <<>>)
  <2>1. PICK p \in Payloads : Begins(serialBuffer, p)
    BY <1>3, NextFrame
  <2>2. Len(p) \in Nat
    BY HeaderType
  <2>3. Consumed(serialBuffer) = 0 \/ Consumed(serialBuffer) = Len(p) + 5
    BY <1>1, <2>1, WholeFrame
  <2> QED
    BY <2>2, <2>3 DEF Skips
<1> QED
  BY <1>2, <1>3

\* Every step keeps the stream cut into frames.
LEMMA StreamStep ==
    ASSUME BridgeTyped, StreamInv, [LinkNext]_linkVars
    PROVE  StreamInv'
<1> SUFFICES ASSUME Undisturbed'
             PROVE  /\ SentSoFar' /\ \E cut : Cuts(cut)'
                    /\ bridge' \notin {"serial", "decode"} =>
                          Consumed(serialBuffer)' = 0
  BY DEF StreamInv
<1>0. lostBytes \in Nat /\ bridgeResets \in Nat
  BY DEF BridgeTyped
<1>1. ~LineLoses /\ ~BridgeRestarts
  BY <1>0 DEF Undisturbed, LineLoses, BridgeRestarts
<1> DEFINE Rest == UNCHANGED <<serialBuffer, line, downlinks, downSent,
                               lostBytes, bridgeResets>>
<1>2. \/ GatewayWrites \/ ReadSerial \/ Skips \/ SendsDownlink
      \/ /\ Rest
         /\ \/ NothingHeard \/ Forwards \/ WaitsForMore \/ BridgeHears
            \/ Acknowledges \/ UNCHANGED bridge
  BY <1>1
     DEF LinkNext, BridgeNext, linkVars, bridgeVars, uplinkVars, serialVars,
         NothingHeard, Forwards, WaitsForMore, BridgeHears, Hears,
         BridgeAcknowledges, Acknowledges, BridgeSendsDownlink
<1>3. Undisturbed
  BY <1>2 DEF Undisturbed, GatewayWrites, ReadSerial, Skips, SendsDownlink
<1>4. SentSoFar /\ \E cut : Cuts(cut)
  BY <1>3 DEF StreamInv
<1>5. PICK cut : Cuts(cut)
  BY <1>4
<1>6. CASE GatewayWrites
  <2>1. bridge' = "serial"
    BY <1>6 DEF GatewayWrites
  <2> QED
    BY <1>4, <1>5, <1>6, <2>1, WriteStream
<1>7. CASE ReadSerial
  <2>1. bridge' = "decode"
    BY <1>7 DEF ReadSerial
  <2> QED
    BY <1>4, <1>5, <1>7, <2>1, ReadStream
<1>8. CASE SendsDownlink
  <2>1. bridge' = "decode"
    BY <1>8 DEF SendsDownlink
  <2> QED
    BY <1>4, <1>5, <1>8, <2>1, SendStream
<1>9. CASE Rest
  <2>1. SentSoFar' /\ Cuts(cut)'
    BY <1>4, <1>5, <1>9 DEF SentSoFar, Cuts, Stream
  <2>2. Consumed(serialBuffer)' = Consumed(serialBuffer)
    BY <1>9
  <2>3. bridge' \notin {"serial", "decode"} => Consumed(serialBuffer) = 0
    <3>1. CASE WaitsForMore
      BY <3>1 DEF WaitsForMore
    <3>2. CASE NothingHeard \/ Forwards
      BY <3>2 DEF NothingHeard, Forwards
    <3>3. CASE BridgeHears \/ Acknowledges
      BY <1>3, <3>3 DEF BridgeHears, Hears, Acknowledges, StreamInv
    <3>4. CASE UNCHANGED bridge
      BY <1>3, <3>4 DEF StreamInv
    <3>5. \/ ~GatewayWrites /\ ~ReadSerial /\ ~SendsDownlink
          \/ bridge' \in {"serial", "decode"}
      BY DEF GatewayWrites, ReadSerial, SendsDownlink
    <3> QED
      BY <1>2, <1>4, <1>5, <3>1, <3>2, <3>3, <3>4, <3>5, NoResync
  <2> QED
    BY <2>1, <2>2, <2>3
<1> QED
  BY <1>2, <1>4, <1>5, <1>6, <1>7, <1>8, <1>9, NoResync

\* A board that waits for nothing has sent all it was given.
LEMMA AllSent ==
    ASSUME BridgeTyped, StreamInv, Undisturbed, line = <<>>, bridge = "radio"
    PROVE  Len(downSent) = Len(downlinks)
<1>1. SentSoFar /\ (\E cut : Cuts(cut)) /\ Consumed(serialBuffer) = 0
  BY DEF StreamInv
<1>2. PICK cut : Cuts(cut)
  BY <1>1
<1>3. serialBuffer \in Seq(Byte) /\ Len(line) = 0
  BY DEF BridgeTyped, BridgeTypeOK
<1>4. ASSUME NEW p \in Payloads, Begins(serialBuffer, p),
             Len(serialBuffer) + Len(line) >= Len(p) + 5
      PROVE  FALSE
  <2>1. Len(p) \in Nat /\ Len(serialBuffer) \in Nat
    BY <1>3, HeaderType
  <2>2. ~(Len(serialBuffer) < Len(p) + 5)
    BY <1>3, <1>4, <2>1
  <2>3. Consumed(serialBuffer) = Len(p) + 5
    BY <1>3, <1>4, <2>2, WholeFrame
  <2> QED
    BY <1>1, <2>1, <2>3
<1> QED
  BY <1>1, <1>2, <1>4, NextFrame

\* A stream of whole frames is what DownlinksIntact needs.
LEMMA StreamIntact == ASSUME BridgeTyped, StreamInv PROVE DownlinksIntact
<1> SUFFICES ASSUME Undisturbed
             PROVE  /\ IsPrefix(downSent, downlinks)
                    /\ line = <<>> /\ bridge = "radio" => downSent = downlinks
  BY DEF DownlinksIntact, Undisturbed
<1>1. /\ downSent \in Seq(Payloads) /\ Len(downSent) <= Len(downlinks)
      /\ \A k \in 1..Len(downSent) : downSent[k] = downlinks[k]
      /\ downlinks \in Seq(Payloads)
  BY DEF StreamInv, SentSoFar, BridgeTyped, BridgeTypeOK
<1>2. SubSeq(downSent, 1, Len(downSent)) = SubSeq(downlinks, 1, Len(downSent))
  <2> DEFINE s == SubSeq(downSent, 1, Len(downSent))
             d == SubSeq(downlinks, 1, Len(downSent))
  <2>1. /\ s \in Seq(Payloads) /\ Len(s) = Len(downSent)
        /\ \A k \in 1..Len(downSent) : s[k] = downSent[k]
    BY <1>1
  <2>2. /\ d \in Seq(Payloads) /\ Len(d) = Len(downSent)
        /\ \A k \in 1..Len(downSent) : d[k] = downlinks[k]
    BY <1>1
  <2> HIDE DEF s, d
  <2>3. s = d
    BY <1>1, <2>1, <2>2
  <2> QED
    BY <2>3 DEF s, d
<1>3. ASSUME line = <<>>, bridge = "radio" PROVE downSent = downlinks
  <2>1. Len(downSent) = Len(downlinks)
    BY <1>3, AllSent
  <2> QED
    BY <1>1, <2>1
<1> QED
  BY <1>1, <1>2, <1>3 DEF IsPrefix

\* The link starts with its types.
LEMMA InitLinkTyped == LinkInit => LinkTyped
<1> SUFFICES ASSUME LinkInit PROVE LinkTyped
  OBVIOUS
<1>1. NodeInv
  BY InitNodeInv
<1>2. Cardinality({}) = 0 /\ IsFiniteSet({})
  BY FS_EmptySet
<1>3. LoRaTypeOK
  <2>1. /\ MaxUplinks \in Nat /\ MaxFaults \in Nat /\ MaxFiles \in Nat
        /\ RtcFrames \in Nat /\ FramesPerTimeout \in Nat
    BY LoRaAssumption DEF LoRaAssumption
  <2>2. /\ node \in Nodes /\ air \in Frame /\ sent \subseteq Queued
        /\ backlogClear \in BOOLEAN /\ safe \in BOOLEAN
    BY DEF LinkInit, LoRaInit, Nodes, Frame, Silence
  <2>3. /\ rtc = {} /\ loraFiles = {} /\ loraOrphans = {} /\ uplink = {}
        /\ acked = {} /\ lost = {} /\ made = 0 /\ sinceFed = 0
        /\ window = 0 /\ faults = 0
    BY DEF LinkInit, LoRaInit
  <2>4. /\ Cardinality(rtc) <= RtcFrames
        /\ Cardinality(loraFiles) <= MaxFiles
    BY <1>2, <2>1, <2>3
  <2> QED
    BY <2>1, <2>2, <2>3, <2>4 DEF LoRaTypeOK
<1>4. FlashTyped
  BY <1>2 DEF LinkInit, LoRaInit, FlashTyped
<1>5. BridgeTyped
  BY BridgeAssumption
     DEF LinkInit, BridgeInit, BridgeTyped, BridgeTypeOK, BridgeAssumption
<1> QED
  BY <1>1, <1>3, <1>4, <1>5 DEF LinkTyped, NodeTypeInv

-----------------------------------------------------------------------------
(* Theorems *)

\* Whatever the board and the channel do, and for any bounds: each uplink of
\* the node is sent, oldest first, or lost in a mishap.
THEOREM LoRaLineImplemented == LinkSpec => ImplementsLoRaLine
<1>1. LinkInit => LoRaLine!Init
  BY DEF LinkInit, LoRaInit, LoRaLine!Init, Queued, OnDisk
<1>2. NodeInv /\ [LinkNext]_linkVars => [LoRaLine!Next]_(LoRaLine!vars)
  BY LinkIsNodeStep, StepSimulated DEF Rests, LoRaLine!vars
<1> QED
  BY InitNodeInv, NodeInvStep, <1>1, <1>2, PTL
     DEF LinkSpec, ImplementsLoRaLine, LoRaLine!Spec

\* A node that met no mishap sleeps with nothing in RTC memory that it sent.
THEOREM NothingSentWaits == LinkSpec => []RtcUnsent
<1>1. NodeInv => RtcUnsent
  BY DEF NodeInv, NodePlace, RtcUnsent
<1> QED
  BY InitNodeInv, NodeInvStep, <1>1, PTL DEF LinkSpec

\* The link's variables keep their types, whatever the bounds.
THEOREM LinkTypeCorrect == LinkSpec => []LinkTypeOK
<1>1. LinkTyped => LinkTypeOK
  BY DEF LinkTyped, NodeTypeInv, BridgeTyped, LinkTypeOK
<1> QED
  BY <1>1, InitLinkTyped, LinkTypedStep, PTL DEF LinkSpec

\* An uplink reported acknowledged is with the board or forwarded, but for
\* one at each restart of the board (isCounterAckV2, pollRadioForUplink).
THEOREM AckedForwarded == LinkSpec => []AckedIsForwarded
<1>1. LinkInit => AckInv
  <2> SUFFICES ASSUME LinkInit PROVE AckInv
    OBVIOUS
  <2>1. /\ acked = {} /\ Answered = {} /\ heard = {} /\ bridge = "radio"
        /\ bridgeResets = 0
        /\ (acked \cup Answered) \ (forwarded \cup heard) = {}
    BY DEF LinkInit, LoRaInit, BridgeInit, Silence, Answered
  <2> QED
    BY <2>1, FS_EmptySet DEF AckInv
<1>2. AckInv => AckedIsForwarded
  BY SmallerSet DEF AckInv, AckedIsForwarded
<1> QED
  BY <1>1, <1>2, AckStep, PTL DEF LinkSpec

\* If no byte is lost and the board does not restart, it sends exactly the
\* downlinks written to it, in order, however the bytes of the frames arrive
\* and whatever they are (tryDecodeAgrumySerialDownlink).
THEOREM DownlinksAreIntact == LinkSpec => []DownlinksIntact
<1>1. LinkInit => LinkTyped /\ StreamInv
  <2> SUFFICES ASSUME LinkInit PROVE LinkTyped /\ StreamInv
    OBVIOUS
  <2>1. LinkTyped
    BY InitLinkTyped
  <2>2. /\ downSent = <<>> /\ downlinks = <<>> /\ serialBuffer = <<>>
        /\ line = <<>> /\ bridge = "radio"
    BY DEF LinkInit, BridgeInit
  <2>3. PICK cut : cut = [k \in 0..0 |-> 0]
    OBVIOUS
  <2>4. SentSoFar /\ Cuts(cut)
    BY <2>2, <2>3 DEF SentSoFar, Cuts
  <2>5. Consumed(serialBuffer) = 0
    BY <2>2 DEF Consumed
  <2> QED
    BY <2>1, <2>4, <2>5 DEF StreamInv
<1>2. LinkTyped /\ StreamInv /\ [LinkNext]_linkVars => StreamInv'
  BY StreamStep DEF LinkTyped
<1>3. LinkTyped /\ StreamInv => DownlinksIntact
  BY StreamIntact DEF LinkTyped
<1> QED
  BY <1>1, <1>2, <1>3, LinkTypedStep, PTL DEF LinkSpec

-----------------------------------------------------------------------------
(* What the line inherits *)

LoRaPromise == INSTANCE StoreAndForward_proofs
    WITH Ordered <- TRUE, held <- Queued, got <- radiated

LEMMA LoRaPromises == ImplementsLoRaLine => LoRaPromise!Spec
  BY PTL
     DEF LoRaLine!Spec, LoRaPromise!Spec, LoRaLine!Init, LoRaPromise!Init,
         LoRaLine!Next, LoRaPromise!Next, LoRaLine!vars, LoRaPromise!vars,
         LoRaLine!Make, LoRaPromise!Make, LoRaLine!HandOver,
         LoRaPromise!HandOver, LoRaLine!Release, LoRaPromise!Release,
         LoRaLine!Mishap, LoRaPromise!Mishap,
         ImplementsLoRaLine

\* Every uplink the node made was radiated, is still with the node, or was lost
\* in a mishap (bufferFailedUplink, flushBufferedUplinks).
THEOREM UplinksAccounted == LinkSpec => []LoRaLine!Accounted
<1>1. LoRaPromise!Accounted => LoRaLine!Accounted
  BY DEF LoRaPromise!Accounted, LoRaLine!Accounted
<1>2. LoRaPromise!Spec => []LoRaPromise!Accounted
  BY LoRaPromise!EveryItemAccounted
<1> QED
  BY <1>1, <1>2, LoRaLineImplemented, LoRaPromises, PTL

\* An uplink radiated for the first time is younger than all that were,
\* whatever was buffered, spilled, cut short or sent again (the flush comes
\* first in the wake-up).
THEOREM UplinksInOrder == LinkSpec => LoRaLine!Chronological
<1>1. LoRaPromise!Spec => LoRaPromise!Chronological
  BY LoRaPromise!DeliveredInOrder
<1>2. LoRaPromise!Chronological => LoRaLine!Chronological
  BY PTL DEF LoRaPromise!Chronological, LoRaLine!Chronological,
             LoRaPromise!vars, LoRaLine!vars
<1> QED
  BY <1>1, <1>2, LoRaLineImplemented, LoRaPromises, PTL

=============================================================================
