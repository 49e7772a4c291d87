---------------------------- MODULE PacketHandOff ----------------------------
(***************************************************************************)
(* What the inbound hand-off of the SPI stack promises (spec 3, C7): one   *)
(* packet buffer between the polling engine and the event loop.  The      *)
(* engine may stage a received packet only while the buffer is empty, the *)
(* event loop hands the staged packet to the dispatcher and empties the   *)
(* buffer: no staged packet is overwritten, lost or dispatched twice.      *)
(* Packets are numbered in the order they are received.                    *)
(***************************************************************************)
EXTENDS Naturals, Sequences

VARIABLES
    slot,        \* the staged packet: <<>> or <<p>>
    received,    \* number of packets the engine has staged so far
    dispatched   \* the packets given to the dispatcher, in order

handVars == <<slot, received, dispatched>>

HandInit ==
    /\ slot = <<>>
    /\ received = 0
    /\ dispatched = <<>>

(* The engine stages the next packet in the empty buffer.                  *)
Stage ==
    /\ slot = <<>>
    /\ received' = received + 1
    /\ slot' = <<received + 1>>
    /\ UNCHANGED dispatched

(* The event loop dispatches the staged packet and frees the buffer.       *)
Dispatch ==
    /\ slot # <<>>
    /\ dispatched' = Append(dispatched, Head(slot))
    /\ slot' = <<>>
    /\ UNCHANGED received

HandNext == Stage \/ Dispatch

HandSpec == HandInit /\ [][HandNext]_handVars
=============================================================================
