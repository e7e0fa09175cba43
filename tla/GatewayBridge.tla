--------------------------- MODULE GatewayBridge ---------------------------
(***************************************************************************)
(* The LoRa gateway's radio board (LoRaGatewayBridgeController): one loop  *)
(* that listens to the radio for a second, acknowledges and forwards what  *)
(* it hears over USB serial, and then sends what the gateway process has   *)
(* written to the serial line (AgrumySerialFrameLogic).  In the radio's    *)
(* second the line goes on filling, and a receive buffer that overflows    *)
(* loses bytes.                                                            *)
(*                                                                         *)
(* A frame of the line is smaller than the real one: one byte each of      *)
(* address and length, no RSSI, and eight values for a byte.               *)
(***************************************************************************)
EXTENDS Naturals, FiniteSets, SequencesExt

CONSTANTS
    Payloads,           \* payloads of the downlinks
    MaxDownlinks,       \* bound: how many the gateway process writes
    MaxBridgeFaults,    \* bound: bytes the line loses, restarts of the board
    Capacity            \* SERIAL_BUFFER_CAPACITY

MARKER == 5
TYPE_DOWNLINK == 2
HEADER_LENGTH == 4
Byte == 0..7

ASSUME BridgeAssumption ==
    /\ Payloads \subseteq Seq(Byte)
    /\ \A p \in Payloads :
          Len(p) \in Byte /\ HEADER_LENGTH + Len(p) + 1 <= Capacity
    /\ {MaxDownlinks, MaxBridgeFaults, Capacity} \subseteq Nat

VARIABLES
    bridge,         \* where loop() is
    heard,          \* the uplink it just received, {} when there is none
    forwarded,      \* uplinks written to the serial line
    line,           \* bytes written by the gateway process, not yet read
    serialBuffer,
    downlinks,      \* what the gateway process has written
    downSent,       \* what the board has sent
    lostBytes, bridgeResets

uplinkVars == <<heard, forwarded>>
serialVars == <<line, serialBuffer, downlinks, downSent, lostBytes>>
bridgeVars == <<bridge, uplinkVars, serialVars, bridgeResets>>

BridgeTypeOK ==
    /\ bridge \in {"radio", "ack", "forward", "serial", "decode"}
    /\ heard \subseteq Nat /\ forwarded \subseteq Nat
    /\ line \in Seq(Byte)
    /\ serialBuffer \in Seq(Byte) /\ Len(serialBuffer) <= Capacity
    /\ downlinks \in Seq(Payloads)
    /\ lostBytes + bridgeResets \in 0..MaxBridgeFaults

BridgeInit ==
    /\ bridge = "radio" /\ heard = {} /\ forwarded = {}
    /\ line = <<>> /\ serialBuffer = <<>>
    /\ downlinks = <<>> /\ downSent = <<>>
    /\ lostBytes = 0 /\ bridgeResets = 0

-----------------------------------------------------------------------------
(* AgrumySerialFrameLogic *)

\* The XOR of the bytes: a bit is set when an odd number of them have it.
Checksum(s) ==
    LET odd(bit) == Cardinality({i \in DOMAIN s : (s[i] \div bit) % 2 = 1}) % 2
    IN  odd(1) + 2 * odd(2) + 4 * odd(4)

Encoded(p) ==
    LET head == <<MARKER, TYPE_DOWNLINK, 1, Len(p)>> \o p
    IN  Append(head, Checksum(head))

FrameLength(b) == HEADER_LENGTH + b[4] + 1
Intact(b) == Checksum(SubSeq(b, 1, FrameLength(b) - 1)) = b[FrameLength(b)]

\* Bytes to take from the front: 0 to wait for more, 1 to drop one and resync.
Consumed(b) ==
    CASE b = <<>>                  -> 0
      [] b # <<>> /\ b[1] # MARKER -> 1
      [] OTHER ->
           IF Len(b) < HEADER_LENGTH THEN 0
           ELSE IF b[2] # TYPE_DOWNLINK THEN 1
           ELSE IF Len(b) < FrameLength(b) THEN 0
           ELSE IF Intact(b) THEN FrameLength(b) ELSE 1

HasFrame(b) == Consumed(b) > 1
PayloadOf(b) == SubSeq(b, HEADER_LENGTH + 1, FrameLength(b) - 1)

-----------------------------------------------------------------------------
(* The other end of the line.  The board looks at it in ReadSerial only, so  *)
(* what happens to it is let happen just before.                           *)

GatewayWrites ==
    /\ bridge = "serial"
    /\ Len(downlinks) < MaxDownlinks
    /\ \E p \in Payloads :
          /\ downlinks' = Append(downlinks, p)
          /\ line' = line \o Encoded(p)
    /\ UNCHANGED <<bridge, uplinkVars, serialBuffer, downSent, lostBytes,
                   bridgeResets>>

LineLoses ==
    /\ bridge = "serial"
    /\ lostBytes + bridgeResets < MaxBridgeFaults
    /\ lostBytes' = lostBytes + 1
    /\ \E n \in 1..Len(line) : line' = RemoveAt(line, n)
    /\ UNCHANGED <<bridge, uplinkVars, serialBuffer, downlinks, downSent,
                   bridgeResets>>

-----------------------------------------------------------------------------
(* pollRadioForUplink *)

\* A time-out, an error, a frame too short or for another gateway.
NothingHeard ==
    /\ bridge = "radio" /\ bridge' = "serial"
    /\ UNCHANGED <<uplinkVars, serialVars, bridgeResets>>

Hears(i) ==
    /\ bridge = "radio" /\ bridge' = "ack"
    /\ heard' = {i}
    /\ UNCHANGED <<forwarded, serialVars, bridgeResets>>

\* The acknowledgement goes first: it has to reach the node's window.
Acknowledges ==
    /\ bridge = "ack" /\ bridge' = "forward"
    /\ UNCHANGED <<uplinkVars, serialVars, bridgeResets>>

Forwards ==
    /\ bridge = "forward" /\ bridge' = "serial"
    /\ forwarded' = forwarded \cup heard /\ heard' = {}
    /\ UNCHANGED <<serialVars, bridgeResets>>

-----------------------------------------------------------------------------
(* pollSerialForDownlink *)

\* What has arrived by now, and fits.
ReadSerial ==
    /\ bridge = "serial" /\ bridge' = "decode"
    /\ \E n \in 0..Len(line) :
          /\ Len(serialBuffer) + n <= Capacity
          /\ serialBuffer' = serialBuffer \o SubSeq(line, 1, n)
          /\ line' = SubSeq(line, n + 1, Len(line))
    /\ UNCHANGED <<uplinkVars, downlinks, downSent, lostBytes, bridgeResets>>

Skips ==
    /\ bridge = "decode" /\ Consumed(serialBuffer) = 1
    /\ serialBuffer' = Tail(serialBuffer)
    /\ UNCHANGED <<bridge, uplinkVars, line, downlinks, downSent, lostBytes,
                   bridgeResets>>

\* (mutant) The buffer is emptied after a frame.
MutSendsDownlink ==
    /\ bridge = "decode" /\ HasFrame(serialBuffer)
    /\ downSent' = Append(downSent, PayloadOf(serialBuffer))
    /\ serialBuffer' = <<>>
    /\ UNCHANGED <<bridge, uplinkVars, line, downlinks, lostBytes,
                   bridgeResets>>

SendsDownlink ==
    /\ bridge = "decode" /\ HasFrame(serialBuffer)
    /\ downSent' = Append(downSent, PayloadOf(serialBuffer))
    /\ serialBuffer' = SubSeq(serialBuffer, Consumed(serialBuffer) + 1,
                              Len(serialBuffer))
    /\ UNCHANGED <<bridge, uplinkVars, line, downlinks, lostBytes,
                   bridgeResets>>

WaitsForMore ==
    /\ bridge = "decode" /\ Consumed(serialBuffer) = 0
    /\ bridge' = "radio"
    /\ UNCHANGED <<uplinkVars, serialVars, bridgeResets>>

BridgeRestarts ==
    /\ lostBytes + bridgeResets < MaxBridgeFaults
    /\ bridgeResets' = bridgeResets + 1
    /\ bridge' = "radio" /\ heard' = {} /\ serialBuffer' = <<>>
    /\ UNCHANGED <<forwarded, line, downlinks, downSent, lostBytes>>

BridgeNext ==
    \/ GatewayWrites \/ LineLoses
    \/ NothingHeard \/ Forwards
    \/ ReadSerial \/ Skips \/ WaitsForMore
    \/ BridgeRestarts

-----------------------------------------------------------------------------
\* As long as no byte is lost, and none by a restart, the board sends exactly
\* what was written, in order, however the bytes arrive; and when it has read
\* all of it, it has sent all of it.
DownlinksIntact ==
    lostBytes = 0 /\ bridgeResets = 0 =>
        /\ IsPrefix(downSent, downlinks)
        /\ line = <<>> /\ bridge = "radio" => downSent = downlinks

\* AgrumySerialFrameLogic.h:24: one byte is dropped and the line resyncs past
\* a bad marker or checksum.  So the buffer always makes room again.
LineResyncs == bridge = "radio" => Len(serialBuffer) < Capacity
=============================================================================
