------------------------------ MODULE LoRaNode ------------------------------
(***************************************************************************)
(* The battery-powered LoRa node (main.cpp, AGRUMY_PROFILE_LORA, with      *)
(* LoRaPrivateController).  It wakes from deep sleep into setup(), runs    *)
(* one cycle and sleeps again: only RTC memory and flash outlive a cycle,  *)
(* and of these only flash outlives any other reset.                       *)
(*                                                                         *)
(* An uplink is its number, which is also its bootNonce: a boot draws a    *)
(* nonce at random, taken never to repeat, and makes at most one uplink,   *)
(* so the counter of an uplink is always 1.  Encryption and the layout of  *)
(* a frame are left out.                                                   *)
(***************************************************************************)
EXTENDS Naturals, FiniteSets

CONSTANTS
    MaxUplinks,         \* bound: how many uplinks are made
    MaxFaults,          \* bound: how many mishaps happen by chance
    RtcFrames,          \* frames that fit LORA_BUFFER_SPILL_BYTES
    FramesPerTimeout,   \* frames the radio sends in LORA_WDT_TIMEOUT_SECONDS
    MaxFiles            \* files that make the partition 70 % full

ASSUME LoRaAssumption ==
    /\ MaxUplinks \in Nat /\ MaxFaults \in Nat /\ MaxFiles \in Nat
    /\ RtcFrames \in Nat \ {0} /\ FramesPerTimeout \in Nat \ {0}

VARIABLES
    node,           \* where the node is in its cycle
    rtc,            \* rtcUplinkBuffer
    loraFiles,      \* the files of /lorabuffer: a name and the frames in it
    loraOrphans,    \* names of .tmp files left there
    sent,           \* frames of the file, or of rtc, that this flush has sent
    sinceFed,       \* frames sent since the watchdog was fed
    uplink,         \* the uplink of this cycle, {} when there is none
    backlogClear,
    window,         \* the downlink window it listens in
    air,            \* the frame on the air
    acked,          \* uplinks reported acknowledged
    made, radiated, lost,   \* uplinks so far; sent; gone unsent
    faults, safe            \* chances taken; whether there was no mishap

radioVars == <<sent, sinceFed, uplink, backlogClear, window>>
loraFlash == <<loraFiles, loraOrphans>>
loraHistory == <<made, lost, faults, safe>>
loraVars == <<node, rtc, radioVars, loraFlash, air, acked, radiated,
              loraHistory>>

Nodes == {"begin", "disk", "drain", "uplink", "send", "buffer", "listen",
          "sleep"}
LoRaFile == [name : Nat, items : SUBSET Nat]
Frame == [kind : {"none", "uplink", "ack", "downlink"}, item : Nat]
Silence == [kind |-> "none", item |-> 0]

OnDisk == UNION {f.items : f \in loraFiles}
Queued == rtc \cup OnDisk \cup uplink

LoRaTypeOK ==
    /\ node \in Nodes
    /\ rtc \subseteq 1..made /\ Cardinality(rtc) <= RtcFrames
    /\ loraFiles \subseteq LoRaFile /\ loraOrphans \subseteq Nat
    /\ Cardinality(loraFiles) <= MaxFiles
    /\ sent \subseteq Queued
    /\ sinceFed \in 0..FramesPerTimeout
    /\ uplink \subseteq 1..made
    /\ backlogClear \in BOOLEAN
    /\ window \in 0..2
    /\ air \in Frame
    /\ acked \subseteq radiated
    /\ made \in 0..MaxUplinks
    /\ lost \subseteq 1..made
    /\ faults \in 0..MaxFaults
    /\ safe \in BOOLEAN

LoRaInit ==
    /\ node = "begin"
    /\ rtc = {} /\ loraFiles = {} /\ loraOrphans = {}
    /\ sent = {} /\ sinceFed = 0 /\ uplink = {} /\ backlogClear = FALSE
    /\ window = 0
    /\ air = Silence
    /\ acked = {}
    /\ made = 0 /\ radiated = {} /\ lost = {}
    /\ faults = 0 /\ safe = TRUE

-----------------------------------------------------------------------------
Oldest(S) == {i \in S : \A j \in S : i <= j}

Unlucky == faults < MaxFaults /\ faults' = faults + 1 /\ safe' = FALSE
Mishap(S) == lost' = lost \cup (S \ radiated)

\* What the flush sends next: the rest of the oldest file, or of rtc.
OldestFile(f) == f \in loraFiles /\ \A g \in loraFiles : f.name <= g.name
ToSend ==
    CASE node = "disk"  -> UNION {f.items \ sent : f \in {g \in loraFiles : OldestFile(g)}}
      [] node = "drain" -> rtc \ sent
      [] node = "send"  -> uplink
      [] OTHER          -> {}

\* transmit(), before the watchdog bites.  An error is taken at its word:
\* nothing went out.
Sends(i) ==
    /\ sinceFed < FramesPerTimeout
    /\ i \in Oldest(ToSend)
    /\ sinceFed' = sinceFed + 1
    /\ air' = [kind |-> "uplink", item |-> i]
    /\ radiated' = radiated \cup {i}
SendFails == ToSend # {} /\ UNCHANGED <<sinceFed, air, radiated>>

Starved == sinceFed = FramesPerTimeout /\ ToSend # {}

-----------------------------------------------------------------------------
(* setup(): begin() *)

BeginReady ==
    /\ node = "begin" /\ node' = "disk"
    /\ UNCHANGED <<rtc, radioVars, loraFlash, air, acked, radiated,
                   loraHistory>>

\* No key, a dead random generator or a radio that does not answer: sleep and
\* retry at the next boot.
BeginFails ==
    /\ node = "begin" /\ node' = "sleep"
    /\ UNCHANGED <<rtc, radioVars, loraFlash, air, acked, radiated,
                   loraHistory>>

-----------------------------------------------------------------------------
(* flushBufferedUplinks *)

FlushSends ==
    /\ node \in {"disk", "drain"}
    /\ \E i \in ToSend : Sends(i) /\ sent' = sent \cup {i}
    /\ UNCHANGED <<node, rtc, uplink, backlogClear, window, loraFlash, acked,
                   loraHistory>>

\* The whole file stays, what was sent of it included.
DiskSendFails ==
    /\ node = "disk" /\ node' = "uplink"
    /\ SendFails
    /\ sent' = {} /\ backlogClear' = FALSE
    /\ UNCHANGED <<rtc, uplink, window, loraFlash, acked, loraHistory>>

FileSent ==
    /\ node = "disk" /\ ToSend = {}
    /\ \E f \in loraFiles : OldestFile(f) /\ loraFiles' = loraFiles \ {f}
    /\ sent' = {} /\ sinceFed' = 0
    /\ UNCHANGED <<node, rtc, uplink, backlogClear, window, loraOrphans, air,
                   acked, radiated, loraHistory>>

\* The file cannot be read, or its tail is cut off: what is left is dropped.
FileDropped ==
    /\ node = "disk" /\ Unlucky
    /\ \E f \in loraFiles :
          OldestFile(f) /\ loraFiles' = loraFiles \ {f} /\ Mishap(f.items)
    /\ sent' = {} /\ sinceFed' = 0
    /\ UNCHANGED <<node, rtc, uplink, backlogClear, window, loraOrphans, air,
                   acked, radiated, made>>

DiskClear ==
    /\ node = "disk" /\ loraFiles = {}
    /\ node' = "drain"
    /\ UNCHANGED <<rtc, radioVars, loraFlash, air, acked, radiated,
                   loraHistory>>

\* (mutant) The frames sent are not taken out.
MutCompacted == rtc' = rtc /\ sent' = {}

\* What was sent leaves rtc, the rest moves to the front.
Compacted == rtc' = rtc \ sent /\ sent' = {}

RtcSendFails ==
    /\ node = "drain" /\ node' = "uplink"
    /\ SendFails
    /\ Compacted /\ backlogClear' = FALSE
    /\ UNCHANGED <<uplink, window, loraFlash, acked, loraHistory>>

Drained ==
    /\ node = "drain" /\ ToSend = {} /\ node' = "uplink"
    /\ Compacted /\ backlogClear' = TRUE
    /\ UNCHANGED <<sinceFed, uplink, window, loraFlash, air, acked, radiated,
                   loraHistory>>

-----------------------------------------------------------------------------
(* runCycleAndGetSleepSeconds *)

\* (mutant) The new uplink is sent although the backlog is not clear.
MutBuildUplink ==
    /\ node = "uplink" /\ made < MaxUplinks
    /\ made' = made + 1 /\ uplink' = {made'}
    /\ node' = "send"
    /\ UNCHANGED <<rtc, sent, sinceFed, backlogClear, window, loraFlash, air,
                   acked, radiated, lost, faults, safe>>

BuildUplink ==
    /\ node = "uplink" /\ made < MaxUplinks
    /\ made' = made + 1 /\ uplink' = {made'}
    /\ node' = IF backlogClear THEN "send" ELSE "buffer"
    /\ UNCHANGED <<rtc, sent, sinceFed, backlogClear, window, loraFlash, air,
                   acked, radiated, lost, faults, safe>>

\* Encryption failed: nothing to send in this cycle.  Nor is there once the
\* bound is reached.
NoUplink ==
    /\ node = "uplink" /\ node' = "sleep"
    /\ UNCHANGED <<rtc, radioVars, loraFlash, air, acked, radiated,
                   loraHistory>>

Transmit ==
    /\ node = "send" /\ node' = "listen" /\ window' = 1
    /\ \E i \in uplink : Sends(i)
    /\ UNCHANGED <<rtc, sent, uplink, backlogClear, loraFlash, acked,
                   loraHistory>>

TransmitFails ==
    /\ node = "send" /\ node' = "buffer"
    /\ SendFails
    /\ UNCHANGED <<rtc, sent, uplink, backlogClear, window, loraFlash, acked,
                   loraHistory>>

\* bufferFailedUplink
Buffered(kept) ==
    /\ node = "buffer" /\ node' = "sleep"
    /\ rtc' = kept \cup uplink /\ uplink' = {}
    /\ UNCHANGED <<sent, sinceFed, backlogClear, window, air, acked, radiated,
                   made>>

\* (mutant) One frame more than fits.
MutAppended ==
    /\ Cardinality(rtc) <= RtcFrames
    /\ Buffered(rtc)
    /\ UNCHANGED <<loraFlash, lost, faults, safe>>

Appended ==
    /\ Cardinality(rtc) < RtcFrames
    /\ Buffered(rtc)
    /\ UNCHANGED <<loraFlash, lost, faults, safe>>

\* spillRtcBufferToDisk, when the frame does not fit any more.  The name
\* follows the highest survivor: nextIndex is a static, which deep sleep
\* clears, so the folder is scanned at every spill.
Names == {f.name : f \in loraFiles} \cup loraOrphans
NextName(n) == (\A m \in Names : m < n) /\ (n = 1 \/ n - 1 \in Names)
Full == Cardinality(loraFiles) + Cardinality(loraOrphans) >= MaxFiles

SpillSaved ==
    /\ Cardinality(rtc) = RtcFrames /\ ~Full
    /\ \E n \in 1..MaxUplinks :
          /\ NextName(n)
          /\ loraFiles' = loraFiles \cup {[name |-> n, items |-> rtc]}
    /\ Buffered({})
    /\ UNCHANGED <<loraOrphans, lost, faults, safe>>

\* Reset either way: a failed spill is deliberate data loss.
SpillFails ==
    /\ Cardinality(rtc) = RtcFrames
    /\ \/ Full /\ safe' = FALSE /\ UNCHANGED <<faults, loraOrphans>>
       \/ /\ ~Full /\ Unlucky
          /\ \/ UNCHANGED loraOrphans
             \/ \E n \in 1..MaxUplinks :
                   NextName(n) /\ loraOrphans' = loraOrphans \cup {n}
    /\ Mishap(rtc)
    /\ Buffered({})
    /\ UNCHANGED loraFiles

-----------------------------------------------------------------------------
(* Listening *)

\* A window ends with nothing, an error or a frame for somebody else.
WindowPasses ==
    /\ node = "listen"
    /\ \/ window = 1 /\ window' = 2 /\ UNCHANGED <<node, uplink>>
       \/ window = 2 /\ window' = 0 /\ node' = "sleep" /\ uplink' = {}
    /\ UNCHANGED <<rtc, sent, sinceFed, backlogClear, loraFlash, air, acked,
                   radiated, loraHistory>>

\* The uplinks the frame on the air acknowledges: it echoes their nonce and
\* counter.
isCounterAckV2 == {i \in uplink : air = [kind |-> "ack", item |-> i]}

\* (mutant) Any frame for this node acknowledges its uplink.
MutHeard ==
    /\ node = "listen" /\ air.kind \in {"ack", "downlink"}
    /\ acked' = acked \cup uplink
    /\ air' = Silence
    /\ node' = "sleep" /\ uplink' = {} /\ window' = 0
    /\ UNCHANGED <<rtc, sent, sinceFed, backlogClear, loraFlash, radiated,
                   loraHistory>>

\* A frame for this node ends the listening.  The acknowledgement of its own
\* uplink is one; any other is taken for a command.
Heard ==
    /\ node = "listen" /\ air.kind \in {"ack", "downlink"}
    /\ acked' = acked \cup isCounterAckV2
    /\ air' = Silence
    /\ node' = "sleep" /\ uplink' = {} /\ window' = 0
    /\ UNCHANGED <<rtc, sent, sinceFed, backlogClear, loraFlash, radiated,
                   loraHistory>>

-----------------------------------------------------------------------------
(* Sleep and resets *)

\* Whatever comes up starts with fresh variables; only rtc is kept asleep.
\* What was on the air by then is gone.
Fresh ==
    /\ node' = "begin" /\ air' = Silence
    /\ sent' = {} /\ sinceFed' = 0 /\ uplink' = {} /\ backlogClear' = FALSE
    /\ window' = 0

DeepSleep ==
    /\ node = "sleep"
    /\ Fresh
    /\ UNCHANGED <<rtc, loraFlash, acked, radiated, loraHistory>>

Reset ==
    /\ Fresh
    /\ UNCHANGED <<loraFlash, acked, radiated, made>>

PowerFails ==
    /\ Unlucky
    /\ Reset
    /\ rtc' = {} /\ Mishap(rtc \cup uplink)

\* The flush feeds the watchdog once per file, and not at all in rtc.  The
\* source takes RTC memory to outlive a panic (DeviceController.cpp:24), the
\* platform promises it for deep sleep alone: it may or may not.
WatchdogBites ==
    /\ Starved
    /\ Reset
    /\ \/ rtc' = rtc /\ Mishap(uplink)
       \/ rtc' = {} /\ Mishap(rtc \cup uplink)
    /\ safe' = FALSE /\ UNCHANGED faults

-----------------------------------------------------------------------------
LoRaNext ==
    \/ BeginReady \/ BeginFails
    \/ FlushSends \/ DiskSendFails \/ FileSent \/ FileDropped \/ DiskClear
    \/ RtcSendFails \/ Drained
    \/ BuildUplink \/ NoUplink \/ Transmit \/ TransmitFails
    \/ Appended \/ SpillSaved \/ SpillFails
    \/ WindowPasses \/ Heard
    \/ DeepSleep \/ PowerFails \/ WatchdogBites

LoRaSpec == LoRaInit /\ [][LoRaNext]_loraVars

-----------------------------------------------------------------------------
LoRaLine == INSTANCE StoreAndForward
    WITH Ordered <- TRUE, held <- Queued, got <- radiated

\* The node keeps the promises of StoreAndForward, its receiver being the
\* air: everything it makes is sent, oldest first, or lost in a mishap.
ImplementsLoRaLine == LoRaLine!Spec

\* As long as nothing went wrong, nothing that was sent waits in RTC memory to
\* be sent once more.
RtcUnsent == node = "sleep" /\ safe => rtc \cap radiated = {}
=============================================================================
