--------------------------- MODULE MC_RedStackSpi ---------------------------
(* A small instance of RedStackSpi for TLC: three slots, two tries per     *)
(* discovery phase, UIDs 1..4.  Slot 0 reports two UIDs, slot 1 one, slot  *)
(* 2 none; UID 4 is never reported, so requests for it are dropped.        *)
EXTENDS RedStackSpi

MCEnumResponse == [s \in 0 .. 2 |-> CASE s = 0 -> <<1, 2>>
                                      [] s = 1 -> <<3, 0>>
                                      [] s = 2 -> <<0, 4>>]

(* The answers of a slave that marks itself busy in a full frame and then  *)
(* reports "not busy" with properly framed empty frames (length 4).        *)
EmptyFree == [pre |-> PreambleValue, len |-> EmptySize, crcOk |-> TRUE, busy |-> FALSE]
FullBusy == [pre |-> PreambleValue, len |-> PacketSize, crcOk |-> TRUE, busy |-> TRUE]
MCBusyFrames == {EmptyFree, FullBusy}

(* FairSpec's scheduling, and a slave that, polled again and again, sooner *)
(* or later answers with a good empty "not busy" frame.                     *)
BusySlaveSpec ==
    /\ Spec
    /\ WF_vars(SpiThread)
    /\ WF_vars(DispatchFromSpi)
    /\ SF_vars(TickOn({EmptyFree}, {TRUE}))
=============================================================================
