------------------------------ MODULE LoRaLink ------------------------------
(***************************************************************************)
(* A LoRa node and the gateway's radio board on one channel.  Neither      *)
(* waits for the other: a frame on the air reaches the board only if it    *)
(* listens at that time, and the board's answers reach the node only in    *)
(* its two windows after an uplink.  A frame is gone when the next one is  *)
(* sent.                                                                   *)
(***************************************************************************)
EXTENDS LoRaNode, GatewayBridge

CONSTANTS
    MaxMishaps,     \* bound: mishaps of the node and the board together
    MaxTraffic      \* bound: uplinks and downlinks, a downlink counting twice

\* The board hears the uplink on the air, or misses it.
BridgeHears ==
    /\ air.kind = "uplink" /\ air' = Silence
    /\ Hears(air.item)

\* The acknowledgement echoes the uplink's own nonce and counter.
BridgeAcknowledges ==
    /\ Acknowledges
    /\ \E i \in heard : air' = [kind |-> "ack", item |-> i]

BridgeSendsDownlink ==
    /\ SendsDownlink
    /\ air' = [kind |-> "downlink", item |-> 0]

LinkInit == LoRaInit /\ BridgeInit

LinkNext ==
    /\ \/ LoRaNext /\ UNCHANGED bridgeVars
       \/ BridgeNext /\ UNCHANGED loraVars
       \/ /\ BridgeHears \/ BridgeAcknowledges \/ BridgeSendsDownlink
          /\ UNCHANGED <<node, rtc, radioVars, loraFlash, acked, radiated,
                         loraHistory>>
    /\ faults' + lostBytes' + bridgeResets' <= MaxMishaps
    /\ made' + 2 * Len(downlinks') <= MaxTraffic

linkVars == <<loraVars, bridgeVars>>
LinkSpec == LinkInit /\ [][LinkNext]_linkVars

LinkTypeOK == LoRaTypeOK /\ BridgeTypeOK

\* An uplink the node reports acknowledged has reached the gateway, or is
\* about to: only a restart of the board between acknowledgement and forward
\* may lose it.
AckedIsForwarded ==
    Cardinality(acked \ (forwarded \cup heard)) <= bridgeResets
=============================================================================
