-------------------------- MODULE RedStackSpiProofs --------------------------
(***************************************************************************)
(* Proofs about RedStackSpi for every value of the constants: the type     *)
(* invariant, and the hand-off between the SPI thread and the event        *)
(* thread (HandOff) through its inductive strengthening HandOffInv.        *)
(***************************************************************************)
EXTENDS RedStackSpi, SequenceTheorems, TLAPS

USE MaxSlavesAssumption, RoutingTriesAssumption, UidAssumption,
    EnumResponseAssumption, BoundsAssumption

QueueItem == [slave : Slots, id : 1 .. MaxPush]

-----------------------------------------------------------------------------
(* The UIDs copied from an enumerate response are UIDs (never 0).          *)
LEMMA EnumUidsType ==
    ASSUME NEW r \in Seq(Uid \cup {0})
    PROVE  EnumUids(r) \subseteq Uid
BY DEF EnumUids

(* red_stack_spi_get_slave_for_uid returns a present slot or NULL.         *)
LEMMA SlaveForUidType ==
    ASSUME TypeOK, NEW u
    PROVE  SlaveForUid(u) \in (0 .. slaveNum - 1) \cup {NoSlave}
BY DEF SlaveForUid, TypeOK, NoSlave

(* The round-robin cursor stays on a slot.                                 *)
LEMMA NextCycleType ==
    ASSUME cycle \in Slots, slaveNum \in 0 .. MaxSlaves
    PROVE  NextCycle \in Slots
BY DEF NextCycle, Slots

(* The slaves a request is queued for are present slots.                   *)
LEMMA TargetsType ==
    ASSUME TypeOK, NEW u
    PROVE  Targets(u) \in Seq(0 .. slaveNum - 1)
<1>1. CASE u = 0
  BY <1>1 DEF Targets, TypeOK
<1>2. CASE u # 0 /\ SlaveForUid(u) = NoSlave
  BY <1>2 DEF Targets
<1>3. CASE u # 0 /\ SlaveForUid(u) # NoSlave
  <2>1. SlaveForUid(u) \in 0 .. slaveNum - 1
    BY <1>3, SlaveForUidType
  <2> QED
    BY <1>3, <2>1 DEF Targets
<1>4. QED
  BY <1>1, <1>2, <1>3

(* The work items red_stack_dispatch_to_spi appends for the targets t.     *)
LEMMA NewItemsType ==
    ASSUME TypeOK, NEW t \in Seq(0 .. slaveNum - 1), pushed + Len(t) <= MaxPush
    PROVE  [i \in 1 .. Len(t) |-> [slave |-> t[i], id |-> pushed + i]] \in Seq(QueueItem)
<1> DEFINE new == [i \in 1 .. Len(t) |-> [slave |-> t[i], id |-> pushed + i]]
<1>1. Len(t) \in Nat /\ \A i \in 1 .. Len(t) : t[i] \in 0 .. slaveNum - 1
  BY LenProperties, ElementOfSeq
<1>0. pushed \in 0 .. MaxPush /\ slaveNum \in 0 .. MaxSlaves
  BY DEF TypeOK
<1>2. \A i \in 1 .. Len(t) : pushed + i \in 1 .. MaxPush /\ t[i] \in Slots
  BY <1>0, <1>1 DEF Slots
<1>3. \A i \in 1 .. Len(t) : [slave |-> t[i], id |-> pushed + i] \in QueueItem
  BY <1>2 DEF QueueItem
<1>4. new \in [1 .. Len(t) -> QueueItem]
  BY <1>3, Zenon
<1>5. new \in UNION {[1 .. n -> QueueItem] : n \in Nat}
  BY <1>1, <1>4
<1>6. Seq(QueueItem) = UNION {[1 .. n -> QueueItem] : n \in Nat}
  BY SeqDef
<1>7. QED
  BY <1>5, <1>6

(* The result of one SPI exchange.                                         *)
LEMMA ExchangeType ==
    ASSUME NEW s, status[s] \in Status,
           NEW hasReq \in BOOLEAN, NEW f \in Frame, NEW io \in BOOLEAN
    PROVE  /\ Exchange(s, hasReq, f, io).recv \in BOOLEAN
           /\ Exchange(s, hasReq, f, io).status \in Status
           /\ Exchange(s, hasReq, f, io).wire = Exchange(s, hasReq, f, io).sent
           /\ Exchange(s, hasReq, f, io).sent => hasReq
BY DEF Exchange, Status

-----------------------------------------------------------------------------
(* One lemma per action: the action preserves TypeOK.                      *)
(* The part of TypeOK that the discovery steps change.                     *)
DiscOK ==
    /\ spiPc \in {"discover", "tick", "wait", "done"}
    /\ disc \in [addr : Slots, phase : {"send", "recv"}, tries : 0 .. RoutingTries - 1]
    /\ status \in [Slots -> Status]
    /\ slaveNum \in 0 .. MaxSlaves
    /\ running \in {0, 1}

(* A failed discovery try keeps the discovery state well typed.            *)
LEMMA RetryOrGiveUpType ==
    ASSUME TypeOK, NEW st \in Status, RetryOrGiveUp(disc.addr, st)
    PROVE  DiscOK'
<1>0. DiscOK
  BY DEF TypeOK, DiscOK
<1>1. CASE disc.tries + 1 < RoutingTries
  <2>1. /\ disc' = [disc EXCEPT !.tries = @ + 1]
        /\ status' = [status EXCEPT ![disc.addr] = st]
        /\ UNCHANGED <<slaveNum, spiPc, running>>
    BY <1>1 DEF RetryOrGiveUp
  <2> QED
    BY <1>0, <1>1, <2>1, SMTT(30) DEF DiscOK
<1>2. CASE ~(disc.tries + 1 < RoutingTries)
  <2>1. /\ status' = [status EXCEPT ![disc.addr] = ABSENT]
        /\ FinishDiscovery(disc.addr)
        /\ UNCHANGED disc
    BY <1>2 DEF RetryOrGiveUp
  <2>2. slaveNum' \in 0 .. MaxSlaves /\ spiPc' \in {"done", "tick"} /\ running' \in {0, 1}
    BY <1>0, <2>1 DEF FinishDiscovery, DiscOK, Slots
  <2> QED
    BY <1>0, <2>1, <2>2 DEF DiscOK, Status
<1> QED
  BY <1>1, <1>2

LEMMA DiscoverSendType ==
    ASSUME TypeOK, DiscoverSend PROVE TypeOK'
<1>p. PICK f \in Frame, io \in BOOLEAN :
      LET x == Exchange(disc.addr, TRUE, f, io)
      IN IF x.sent
         THEN /\ disc' = [disc EXCEPT !.phase = "recv", !.tries = 0]
              /\ status' = [status EXCEPT ![disc.addr] = x.status]
              /\ UNCHANGED <<slaveNum, spiPc, running>>
         ELSE RetryOrGiveUp(disc.addr, x.status)
  BY SMTT(30) DEF DiscoverSend
<1> DEFINE x == Exchange(disc.addr, TRUE, f, io)
<1>0. status[disc.addr] \in Status
  BY DEF TypeOK
<1>1. x.status \in Status
  BY <1>0, ExchangeType
<1>2. DiscOK'
  <2>1. CASE x.sent
    <3>1. /\ disc' = [disc EXCEPT !.phase = "recv", !.tries = 0]
          /\ status' = [status EXCEPT ![disc.addr] = x.status]
          /\ UNCHANGED <<slaveNum, spiPc, running>>
      BY <1>p, <2>1
    <3>2. DiscOK
      BY DEF TypeOK, DiscOK
    <3>a. disc' = [addr |-> disc.addr, phase |-> "recv", tries |-> 0]
      BY <3>1, <3>2 DEF DiscOK
    <3>3. disc' \in [addr : Slots, phase : {"send", "recv"}, tries : 0 .. RoutingTries - 1]
      BY <3>a, <3>2 DEF DiscOK
    <3>4. status' \in [Slots -> Status]
      BY <1>1, <3>1, <3>2 DEF DiscOK
    <3> QED
      BY <3>1, <3>2, <3>3, <3>4 DEF DiscOK
  <2>2. CASE ~x.sent
    BY <1>p, <1>1, <2>2, RetryOrGiveUpType
  <2> QED
    BY <2>1, <2>2
<1> QED
  BY <1>2 DEF DiscoverSend, TypeOK, DiscOK

LEMMA DiscoverRecvType ==
    ASSUME TypeOK, DiscoverRecv PROVE TypeOK'
<1> DEFINE a == disc.addr
<1>p. PICK f \in Frame, io \in BOOLEAN :
      LET x == Exchange(a, FALSE, f, io)
      IN IF x.recv
         THEN /\ uids' = [uids EXCEPT ![a] = EnumUids(EnumResponse[a])]
              /\ registered' = registered \cup EnumUids(EnumResponse[a])
              /\ IF a + 1 < MaxSlaves
                 THEN /\ disc' = [addr |-> a + 1, phase |-> "send", tries |-> 0]
                      /\ status' = [status EXCEPT ![a] = x.status,
                                                  ![a + 1] = AVAILABLE]
                      /\ UNCHANGED <<slaveNum, spiPc, running>>
                 ELSE /\ status' = [status EXCEPT ![a] = x.status]
                      /\ FinishDiscovery(MaxSlaves)
                      /\ UNCHANGED disc
         ELSE /\ RetryOrGiveUp(a, x.status)
              /\ UNCHANGED <<uids, registered>>
  BY DEF DiscoverRecv
<1> DEFINE x == Exchange(a, FALSE, f, io)
<1>0. status[a] \in Status
  BY DEF TypeOK
<1>1. x.status \in Status
  BY <1>0, ExchangeType
<1>2. EnumUids(EnumResponse[a]) \subseteq Uid
  BY EnumUidsType DEF TypeOK, Slots
<1>c. DiscOK /\ a \in Slots
  BY DEF TypeOK, DiscOK
<1>u. x.recv => /\ uids' \in [Slots -> SUBSET Uid]
                /\ registered' \in SUBSET Uid
  <2> SUFFICES ASSUME x.recv
               PROVE  /\ uids' \in [Slots -> SUBSET Uid]
                      /\ registered' \in SUBSET Uid
    OBVIOUS
  <2>1. /\ uids' = [uids EXCEPT ![a] = EnumUids(EnumResponse[a])]
        /\ registered' = registered \cup EnumUids(EnumResponse[a])
    BY <1>p
  <2>2. uids \in [Slots -> SUBSET Uid] /\ registered \in SUBSET Uid
    BY DEF TypeOK
  <2> QED
    BY <1>2, <2>1, <2>2
<1>3. CASE x.recv /\ a + 1 < MaxSlaves
  <2>1. /\ disc' = [addr |-> a + 1, phase |-> "send", tries |-> 0]
        /\ status' = [status EXCEPT ![a] = x.status, ![a + 1] = AVAILABLE]
        /\ UNCHANGED <<slaveNum, spiPc, running>>
    BY <1>p, <1>3
  <2>2. disc' \in [addr : Slots, phase : {"send", "recv"}, tries : 0 .. RoutingTries - 1]
    BY <1>c, <1>3, <2>1 DEF DiscOK, Slots
  <2>3. status' \in [Slots -> Status]
    BY <1>1, <1>c, <2>1 DEF DiscOK, Status
  <2>4. DiscOK'
    BY <1>c, <2>1, <2>2, <2>3 DEF DiscOK
  <2> QED
    BY <1>u, <1>3, <2>4 DEF DiscoverRecv, TypeOK, DiscOK
<1>4. CASE x.recv /\ ~(a + 1 < MaxSlaves)
  <2>1. /\ status' = [status EXCEPT ![a] = x.status]
        /\ FinishDiscovery(MaxSlaves)
        /\ UNCHANGED disc
    BY <1>p, <1>4
  <2>2. status' \in [Slots -> Status]
    BY <1>1, <1>c, <2>1 DEF DiscOK
  <2>3. slaveNum' = MaxSlaves /\ spiPc' = "tick" /\ running' = 1
    BY <2>1 DEF FinishDiscovery
  <2>5. MaxSlaves \in 0 .. MaxSlaves
    OBVIOUS
  <2>4. DiscOK'
    BY <1>c, <2>1, <2>2, <2>3, <2>5, Zenon DEF DiscOK
  <2> QED
    BY <1>u, <1>4, <2>4 DEF DiscoverRecv, TypeOK, DiscOK
<1>5. CASE ~x.recv
  <2>1. DiscOK' /\ UNCHANGED <<uids, registered>>
    BY <1>p, <1>1, <1>5, RetryOrGiveUpType
  <2> QED
    BY <2>1 DEF DiscoverRecv, TypeOK, DiscOK
<1> QED
  BY <1>3, <1>4, <1>5

LEMMA TickType ==
    ASSUME TypeOK, Tick PROVE TypeOK'
<1> DEFINE hasReq == queue # <<>>
           s == IF hasReq THEN Head(queue).slave ELSE cycle
<1>1. hasReq => Head(queue) \in QueueItem /\ Tail(queue) \in Seq(QueueItem)
  BY HeadTailProperties DEF TypeOK, QueueItem
<1>2. s \in Slots
  BY <1>1 DEF TypeOK, QueueItem
<1>p. PICK f \in Frame, io \in BOOLEAN :
      LET x == Exchange(s, hasReq, f, io)
      IN /\ x.recv => rxCount < MaxRx
         /\ cycle' = IF hasReq THEN cycle ELSE NextCycle
         /\ status' = [status EXCEPT ![s] = x.status]
         /\ queue' = IF x.sent THEN Tail(queue) ELSE queue
         /\ sent' = IF x.wire THEN Append(sent, Head(queue).id) ELSE sent
         /\ IF x.recv
            THEN StageReceived
            ELSE /\ fromSpi' = 0
                 /\ UNCHANGED <<rxCount, pipe, spiPc>>
  BY DEF Tick, TickOn
<1> DEFINE x == Exchange(s, hasReq, f, io)
<1>3. /\ x.recv \in BOOLEAN
      /\ x.status \in Status
      /\ x.wire = x.sent
      /\ x.sent => hasReq
  <2>1. status[s] \in Status /\ hasReq \in BOOLEAN
    BY <1>2, SMTT(30) DEF TypeOK
  <2> QED
    BY <2>1, ExchangeType, ZenonT(60)
<1>4. cycle' \in Slots
  BY <1>p, NextCycleType DEF TypeOK
<1>5. status' \in [Slots -> Status]
  BY <1>p, <1>2, <1>3 DEF TypeOK
<1>6. queue' \in Seq(QueueItem) /\ sent' \in Seq(1 .. MaxPush)
  <2>1. CASE x.sent
    <3>1. Head(queue).id \in 1 .. MaxPush
      BY <1>1, <1>3, <2>1 DEF QueueItem
    <3> QED
      BY <1>p, <1>1, <1>3, <2>1, <3>1, AppendProperties DEF TypeOK
  <2>2. CASE ~x.sent
    BY <1>p, <1>3, <2>2 DEF TypeOK, QueueItem
  <2> QED
    BY <2>1, <2>2, SMTT(30)
<1>7. /\ fromSpi' \in 0 .. MaxRx
      /\ rxCount' \in 0 .. MaxRx
      /\ pipe' \in Nat
      /\ spiPc' \in {"discover", "tick", "wait", "done"}
  <2>1. CASE x.recv
    <3>1. rxCount < MaxRx /\ StageReceived
      BY <1>p, <2>1
    <3>2. rxCount \in 0 .. MaxRx
      BY DEF TypeOK
    <3> QED
      BY <3>1, <3>2, PipeWritesAssumption DEF StageReceived, TypeOK
  <2>2. CASE ~x.recv
    <3>1. fromSpi' = 0 /\ UNCHANGED <<rxCount, pipe, spiPc>>
      BY <1>p, <2>2
    <3> QED
      BY <3>1 DEF TypeOK
  <2> QED
    BY <1>3, <2>1, <2>2
<1> QED
  BY <1>4, <1>5, <1>6, <1>7 DEF Tick, TickOn, TypeOK, QueueItem

LEMMA DispatchToSpiType ==
    ASSUME TypeOK, NEW u, DispatchToSpi(u) PROVE TypeOK'
<1> DEFINE t == Targets(u)
           new == [i \in 1 .. Len(t) |-> [slave |-> t[i], id |-> pushed + i]]
<1>1. t \in Seq(0 .. slaveNum - 1) /\ pushed + Len(t) <= MaxPush
  BY TargetsType DEF DispatchToSpi
<1>2. new \in Seq(QueueItem)
  BY <1>1, NewItemsType
<1>3. queue \o new \in Seq(QueueItem) /\ Len(t) \in Nat
  BY <1>1, <1>2, ConcatProperties, LenProperties DEF TypeOK, QueueItem
<1> QED
  BY <1>1, <1>3, SMTT(30) DEF DispatchToSpi, TypeOK, QueueItem

LEMMA DispatchFromSpiType ==
    ASSUME TypeOK, DispatchFromSpi PROVE TypeOK'
BY AppendProperties, SMTT(30) DEF DispatchFromSpi, TypeOK

-----------------------------------------------------------------------------
(* The inductive strengthening of HandOff.  The SPI thread and the event   *)
(* thread pass one packet at a time through packet_from_spi: either no     *)
(* packet is in flight, or packet_from_spi holds the next packet and the  *)
(* notification byte is in the pipe (or pipe_write failed and it never    *)
(* will be), or the event thread has taken it and released the semaphore  *)
(* the SPI thread still waits on.                                          *)
HandOffInv ==
    LET k == Len(delivered) IN
    /\ TypeOK
    /\ delivered = [i \in 1 .. k |-> i]
    /\ \/ spiPc # "wait" /\ pipe = 0 /\ sem = 0 /\ rxCount = k
       \/ spiPc = "wait" /\ pipe \in {0, 1} /\ sem = 0 /\ rxCount = k + 1 /\ fromSpi = k + 1
       \/ spiPc = "wait" /\ pipe = 0 /\ sem = 1 /\ rxCount = k

-----------------------------------------------------------------------------
(* The initial state of red_stack_init is well typed.                      *)
LEMMA InitType == Init => TypeOK
BY DEF Init, TypeOK, Slots, Status

(* Every step of either thread keeps the state well typed.                 *)
LEMMA TypeStep == TypeOK /\ [Next]_vars => TypeOK'
<1> SUFFICES ASSUME TypeOK, [Next]_vars PROVE TypeOK'
  OBVIOUS
<1>1. CASE DiscoverSend
  BY <1>1, DiscoverSendType
<1>2. CASE DiscoverRecv
  BY <1>2, DiscoverRecvType
<1>3. CASE Tick
  BY <1>3, TickType
<1>4. CASE AcquirePermit
  BY <1>4 DEF AcquirePermit, TypeOK
<1>5. CASE StopThread
  BY <1>5 DEF StopThread, TypeOK
<1>6. ASSUME NEW u \in {0} \cup Uid, DispatchToSpi(u) PROVE TypeOK'
  BY <1>6, DispatchToSpiType
<1>7. CASE DispatchFromSpi
  BY <1>7, DispatchFromSpiType
<1>8. CASE Exit
  BY <1>8 DEF Exit, TypeOK
<1>9. CASE Join
  BY <1>9 DEF Join, TypeOK
<1>10. CASE UNCHANGED vars
  BY <1>10 DEF vars, TypeOK
<1>11. QED
  BY <1>1, <1>2, <1>3, <1>4, <1>5, <1>6, <1>7, <1>8, <1>9, <1>10
     DEF Next, SpiThread, EventThread

(* TypeOK holds in every state of every behaviour: every variable of the   *)
(* SPI stack (slave table, queue, hand-off pipe and semaphore, thread      *)
(* states) stays in its range, for every number of slots and bounds.       *)
THEOREM TypeCorrect == Spec => []TypeOK
BY InitType, TypeStep, PTL DEF Spec


(* The discovery steps never park the SPI thread on the semaphore.         *)
LEMMA DiscoverNotWait ==
    ASSUME DiscoverSend \/ DiscoverRecv
    PROVE  spiPc' # "wait"
BY DEF DiscoverSend, DiscoverRecv, RetryOrGiveUp, FinishDiscovery

(* Appending the next number to 1..k gives 1..k+1.                         *)
LEMMA AppendNext ==
    ASSUME NEW k \in Nat, NEW d, d = [i \in 1 .. k |-> i]
    PROVE  /\ Append(d, k + 1) = [i \in 1 .. k + 1 |-> i]
           /\ Len(Append(d, k + 1)) = k + 1
<1>1. d \in Seq(Nat) /\ Len(d) = k
  OBVIOUS
<1> QED
  BY <1>1, AppendProperties

(* HandOffInv is preserved by every step, whether pipe_write succeeds or   *)
(* fails.                                                                   *)
LEMMA HandOffStep == HandOffInv /\ [Next]_vars => HandOffInv'
<1> SUFFICES ASSUME HandOffInv, [Next]_vars PROVE HandOffInv'
  OBVIOUS
<1>w. PipeWrites \subseteq BOOLEAN
  BY PipeWritesAssumption
<1> DEFINE k == Len(delivered)
<1>0. TypeOK' /\ k \in Nat
  BY TypeStep, LenProperties DEF HandOffInv, TypeOK
<1>1. CASE DiscoverSend \/ DiscoverRecv
  <2>1. spiPc' # "wait" /\ spiPc # "wait"
    BY <1>1, DiscoverNotWait DEF DiscoverSend, DiscoverRecv
  <2>2. UNCHANGED <<pipe, sem, rxCount, delivered, fromSpi>>
    BY <1>1 DEF DiscoverSend, DiscoverRecv
  <2> QED
    BY <1>0, <2>1, <2>2 DEF HandOffInv
<1>2. CASE Tick
  <2>1. spiPc = "tick" /\ pipe = 0 /\ sem = 0 /\ rxCount = k
    BY <1>2 DEF Tick, TickOn, HandOffInv
  <2> QED
    BY <1>0, <1>2, <1>w, <2>1 DEF Tick, TickOn, StageReceived, HandOffInv
<1>3. CASE AcquirePermit
  BY <1>0, <1>3 DEF AcquirePermit, HandOffInv
<1>4. CASE StopThread
  BY <1>0, <1>4 DEF StopThread, HandOffInv
<1>5. ASSUME NEW u \in {0} \cup Uid, DispatchToSpi(u) PROVE HandOffInv'
  BY <1>0, <1>5 DEF DispatchToSpi, HandOffInv
<1>6. CASE DispatchFromSpi
  <2>1. spiPc = "wait" /\ pipe = 1 /\ sem = 0 /\ rxCount = k + 1 /\ fromSpi = k + 1
    BY <1>0, <1>6 DEF DispatchFromSpi, HandOffInv
  <2>2. /\ delivered' = [i \in 1 .. k + 1 |-> i]
        /\ Len(delivered') = k + 1
    BY <1>0, <1>6, <2>1, AppendNext DEF DispatchFromSpi, HandOffInv
  <2> QED
    BY <1>0, <1>6, <2>1, <2>2 DEF DispatchFromSpi, HandOffInv
<1>7. CASE Exit
  BY <1>0, <1>7 DEF Exit, HandOffInv
<1>8. CASE Join
  BY <1>0, <1>8 DEF Join, HandOffInv
<1>9. CASE UNCHANGED vars
  BY <1>0, <1>9 DEF vars, HandOffInv
<1>10. QED
  BY <1>1, <1>2, <1>3, <1>4, <1>5, <1>6, <1>7, <1>8, <1>9
     DEF Next, SpiThread, EventThread

(* The hand-off between red_stack_spi_thread and                           *)
(* red_stack_dispatch_from_spi is exact for every number of slots and      *)
(* every bound: each received packet is dispatched once, in order, and at  *)
(* most one waits in packet_from_spi.  A failed pipe_write of             *)
(* red_stack_spi_request_dispatch_response_event loses no packet: it parks *)
(* the SPI thread for good (the liveness run pipe_write_fails shows that), *)
(* but nothing is overwritten or dispatched twice.                         *)
THEOREM HandOffCorrect == Spec => []HandOff
<1>1. Init => HandOffInv
  BY InitType, SMTT(30) DEF Init, HandOffInv
<1>2. HandOffInv => HandOff
  BY LenProperties DEF HandOffInv, HandOff, TypeOK
<1>3. HandOffInv /\ [Next]_vars => HandOffInv'
  BY HandOffStep
<1> QED
  BY <1>1, <1>2, <1>3, PTL DEF Spec

=============================================================================
