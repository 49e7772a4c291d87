---------------------------- MODULE RequestChannel ----------------------------
(***************************************************************************)
(* What the outbound path of the SPI stack promises (spec 4.6, 4.8): the   *)
(* event loop accepts requests, each addressed to a slave and numbered in  *)
(* acceptance order, and the bus carries them first in, first out, each    *)
(* once; a broadcast is accepted as one batch of items.  Nothing is        *)
(* dropped once accepted and nothing is carried that was not accepted.     *)
(***************************************************************************)
EXTENDS Naturals, Sequences

CONSTANTS
    Slot,     \* the slave addresses
    MaxReq    \* bound: number of items accepted

VARIABLES
    pending,  \* accepted items not yet carried, oldest first: [slave, id]
    carried,  \* ids of the items the bus carried, in order
    count     \* number of items accepted so far

chanVars == <<pending, carried, count>>

ChanInit ==
    /\ pending = <<>>
    /\ carried = <<>>
    /\ count = 0

(* A batch of n items for the slaves t[1], ..., t[n] is accepted and       *)
(* numbered after the ones before it.                                      *)
Accept ==
    \E n \in 0 .. MaxReq - count :
      \E t \in [1 .. n -> Slot] :
        /\ pending' = pending \o [i \in 1 .. n |-> [slave |-> t[i], id |-> count + i]]
        /\ count' = count + n
        /\ UNCHANGED carried

(* The oldest pending item goes out on the bus.                            *)
Carry ==
    /\ pending # <<>>
    /\ carried' = Append(carried, Head(pending).id)
    /\ pending' = Tail(pending)
    /\ UNCHANGED count

ChanNext == Accept \/ Carry

ChanSpec == ChanInit /\ [][ChanNext]_chanVars
=============================================================================
