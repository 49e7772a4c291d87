------------------------- MODULE RedStackChannelProofs -------------------------
(***************************************************************************)
(* The queue and the polling loop of RedStackSpi implement the outbound   *)
(* channel RequestChannel under the refinement mapping Chan, for every    *)
(* value of the constants: the initial state maps to an initial state of  *)
(* the channel, and every step to an Accept, a Carry or a stutter.  In    *)
(* the same way packet_from_spi, the notification pipe and the semaphore   *)
(* implement the one-packet buffer PacketHandOff under the mapping Hand,   *)
(* through the hand-off invariant HandOffInv of RedStackSpiProofs.         *)
(***************************************************************************)
EXTENDS RedStackSpiProofs

USE MaxSlavesAssumption, RoutingTriesAssumption, UidAssumption,
    EnumResponseAssumption, BoundsAssumption

(* A push of red_stack_dispatch_to_spi is a batch accepted by the channel. *)
LEMMA DispatchToSpiAccepts ==
    ASSUME TypeOK, NEW u, DispatchToSpi(u)
    PROVE  Chan!Accept
<1> DEFINE t == Targets(u)
           n == Len(t)
<1>1. t \in Seq(0 .. slaveNum - 1)
  BY TargetsType
<1>2. n \in Nat /\ t \in [1 .. n -> 0 .. slaveNum - 1]
  BY <1>1, LenProperties
<1>3. t \in [1 .. n -> Slots]
  <2>1. slaveNum \in 0 .. MaxSlaves
    BY DEF TypeOK
  <2> QED
    BY <1>2, <2>1 DEF Slots
<1>4. pushed \in Nat /\ n \in 0 .. MaxPush - pushed
  <2>1. pushed \in 0 .. MaxPush
    BY DEF TypeOK
  <2> QED
    BY <1>2, <2>1 DEF DispatchToSpi
<1>5. /\ queue' = queue \o [i \in 1 .. n |-> [slave |-> t[i], id |-> pushed + i]]
      /\ pushed' = pushed + n
      /\ sent' = sent
  BY DEF DispatchToSpi
<1> QED
  BY <1>3, <1>4, <1>5 DEF Chan!Accept

(* A tick either carries the head of the queue or leaves queue, bus and    *)
(* count as they are.                                                      *)
LEMMA TickCarriesOrStutters ==
    ASSUME TypeOK, Tick
    PROVE  Chan!Carry \/ UNCHANGED <<queue, sent, pushed>>
<1> DEFINE hasReq == queue # <<>>
           s == IF hasReq THEN Head(queue).slave ELSE cycle
<1>p. PICK f \in Frame, io \in BOOLEAN :
      LET x == Exchange(s, hasReq, f, io)
      IN /\ x.recv => rxCount < MaxRx
         /\ cycle' = IF hasReq THEN cycle ELSE NextCycle
         /\ status' = [status EXCEPT ![s] = x.status]
         /\ queue' = IF x.sent THEN Tail(queue) ELSE queue
         /\ sent' = IF x.wire THEN Append(sent, Head(queue).id) ELSE sent
         /\ IF x.recv
            THEN StageReceived
            ELSE /\ fromSpi' = 0
                 /\ UNCHANGED <<rxCount, pipe, spiPc>>
         /\ pushed' = pushed
  BY ZenonT(60) DEF Tick, TickOn
<1> DEFINE x == Exchange(s, hasReq, f, io)
<1>1. x.wire = x.sent /\ (x.sent => hasReq)
  <2>1. s \in Slots
    <3>1. hasReq => Head(queue) \in QueueItem
      BY HeadTailProperties DEF TypeOK, QueueItem
    <3> QED
      BY <3>1 DEF TypeOK, QueueItem
  <2>2. status[s] \in Status /\ hasReq \in BOOLEAN
    BY <2>1 DEF TypeOK
  <2>3. ASSUME NEW t, status[t] \in Status, NEW r \in BOOLEAN
        PROVE  /\ Exchange(t, r, f, io).wire = Exchange(t, r, f, io).sent
               /\ Exchange(t, r, f, io).sent => r
    BY <2>3, ExchangeType
  <2> QED
    BY <2>2, <2>3
<1>2. CASE x.sent
  BY <1>p, <1>1, <1>2 DEF Chan!Carry
<1>3. CASE ~x.sent
  BY <1>p, <1>1, <1>3
<1> QED
  BY <1>2, <1>3

(* Every step of RedStackSpi is a step of the channel or leaves its        *)
(* variables unchanged.                                                    *)
LEMMA ChannelStep ==
    TypeOK /\ [Next]_vars => [Chan!ChanNext]_Chan!chanVars
<1> SUFFICES ASSUME TypeOK, [Next]_vars
             PROVE  [Chan!ChanNext]_Chan!chanVars
  OBVIOUS
<1> USE DEF Chan!chanVars
<1>1. CASE DiscoverSend \/ DiscoverRecv
  BY <1>1 DEF DiscoverSend, DiscoverRecv
<1>2. CASE Tick
  BY <1>2, TickCarriesOrStutters DEF Chan!ChanNext
<1>3. CASE AcquirePermit \/ StopThread
  BY <1>3 DEF AcquirePermit, StopThread
<1>4. ASSUME NEW u \in {0} \cup Uid, DispatchToSpi(u)
      PROVE  [Chan!ChanNext]_Chan!chanVars
  BY <1>4, DispatchToSpiAccepts DEF Chan!ChanNext
<1>5. CASE DispatchFromSpi \/ Exit \/ Join
  BY <1>5 DEF DispatchFromSpi, Exit, Join
<1>6. CASE UNCHANGED vars
  BY <1>6 DEF vars
<1> QED
  BY <1>1, <1>2, <1>3, <1>4, <1>5, <1>6 DEF Next, SpiThread, EventThread

(* red_stack_dispatch_to_spi, the queue and the polling loop implement the *)
(* FIFO channel of spec 4.6 for every number of slots and every bound:    *)
(* requests reach the bus in push order, each once, none invented.         *)
THEOREM ImplementsChannelCorrect == Spec => ImplementsChannel
<1>1. Init => Chan!ChanInit
  BY DEF Init, Chan!ChanInit
<1>2. TypeOK /\ [Next]_vars => [Chan!ChanNext]_Chan!chanVars
  BY ChannelStep
<1> QED
  BY <1>1, <1>2, TypeCorrect, PTL DEF Spec, ImplementsChannel, Chan!ChanSpec
-----------------------------------------------------------------------------
(* A push keeps the bus and the queue numbered in push order.              *)
LEMMA DispatchToSpiKeepsOrder ==
    ASSUME TypeOK, SentInOrder, NEW u, DispatchToSpi(u)
    PROVE  SentInOrder'
<1> DEFINE t == Targets(u)
           n == Len(t)
           new == [i \in 1 .. n |-> [slave |-> t[i], id |-> pushed + i]]
<1>1. t \in Seq(0 .. slaveNum - 1) /\ n \in Nat
  BY TargetsType, LenProperties
<1>2. new \in Seq(QueueItem) /\ Len(new) = n
  <2>1. pushed + n <= MaxPush
    BY DEF DispatchToSpi
  <2> QED
    BY <1>1, <2>1, NewItemsType
<1>3. queue \in Seq(QueueItem) /\ sent \in Seq(1 .. MaxPush)
  BY DEF TypeOK, QueueItem
<1>4. /\ queue' = queue \o new
      /\ pushed' = pushed + n
      /\ sent' = sent
  BY DEF DispatchToSpi
<1>5. /\ Len(queue') = Len(queue) + n
      /\ \A j \in 1 .. Len(queue) + n :
            queue'[j] = IF j <= Len(queue) THEN queue[j] ELSE new[j - Len(queue)]
  BY <1>2, <1>3, <1>4, ConcatProperties
<1>6. \A j \in 1 .. Len(queue') : queue'[j].id = Len(sent') + j
  <2> SUFFICES ASSUME NEW j \in 1 .. Len(queue) + n
               PROVE  queue'[j].id = Len(sent) + j
    BY <1>4, <1>5
  <2>0. Len(queue) \in Nat /\ Len(sent) \in Nat /\ j \in Nat
    BY <1>1, <1>3, LenProperties
  <2>e. queue'[j] = IF j <= Len(queue) THEN queue[j] ELSE new[j - Len(queue)]
    BY <1>5, Zenon
  <2>1. CASE j <= Len(queue)
    <3>1. j \in 1 .. Len(queue)
      BY <2>0, <2>1
    <3>2. queue'[j] = queue[j]
      BY <2>e, <2>1
    <3> QED
      BY <3>1, <3>2 DEF SentInOrder
  <2>2. CASE j > Len(queue)
    <3> DEFINE k == j - Len(queue)
    <3>1. k \in 1 .. n
      BY <1>1, <2>0, <2>2
    <3>2. queue'[j] = new[k]
      BY <2>e, <2>0, <2>2
    <3>3. new[k].id = pushed + k
      BY <3>1
    <3>4. pushed = Len(sent) + Len(queue)
      BY DEF SentInOrder
    <3> QED
      BY <2>0, <3>2, <3>3, <3>4
  <2> QED
    BY <2>1, <2>2
<1> QED
  BY <1>1, <1>3, <1>4, <1>5, <1>6, LenProperties, SMTT(30) DEF SentInOrder

(* A tick that pops the queue carries the id at its head, the next one.    *)
LEMMA CarryKeepsOrder ==
    ASSUME TypeOK, SentInOrder, Chan!Carry
    PROVE  SentInOrder'
<1>1. queue \in Seq(QueueItem) /\ sent \in Seq(1 .. MaxPush) /\ queue # <<>>
  BY DEF TypeOK, QueueItem, Chan!Carry
<1>2. /\ sent' = Append(sent, Head(queue).id)
      /\ queue' = Tail(queue)
      /\ pushed' = pushed
  BY DEF Chan!Carry
<1>3. /\ Len(Tail(queue)) = Len(queue) - 1
      /\ \A i \in 1 .. Len(Tail(queue)) : Tail(queue)[i] = queue[i + 1]
      /\ Len(queue) \in Nat \ {0}
  BY <1>1, HeadTailProperties, LenProperties, EmptySeq
<1>4. Head(queue).id = Len(sent) + 1
  BY <1>1, <1>3 DEF SentInOrder
<1>5. /\ sent' = [i \in 1 .. Len(sent) + 1 |-> i]
      /\ Len(sent') = Len(sent) + 1
  BY <1>1, <1>2, <1>4, AppendNext, LenProperties DEF SentInOrder
<1>6. Len(sent) \in Nat /\ Len(sent) + Len(queue) = pushed
  BY <1>1, LenProperties DEF SentInOrder
<1>7. Len(sent') + Len(queue') = pushed'
  BY <1>2, <1>3, <1>5, <1>6
<1>8. \A i \in 1 .. Len(queue') : queue'[i].id = Len(sent') + i
  <2> SUFFICES ASSUME NEW i \in 1 .. Len(queue) - 1
               PROVE  queue[i + 1].id = Len(sent) + 1 + i
    BY <1>2, <1>3, <1>5
  <2>1. i + 1 \in 1 .. Len(queue)
    BY <1>3
  <2> QED
    BY <2>1, <1>6 DEF SentInOrder
<1> QED
  BY <1>5, <1>7, <1>8 DEF SentInOrder

(* The bus carries the pushed requests in push order, each once, and the   *)
(* queue holds exactly the ones not yet carried: for every number of      *)
(* slots and bounds, whatever the slaves answer and however the event     *)
(* thread's pushes interleave with the polling loop's peek and pop.        *)
THEOREM SentInOrderCorrect == Spec => []SentInOrder
<1>1. Init => SentInOrder
  BY DEF Init, SentInOrder
<1>2. TypeOK /\ SentInOrder /\ [Next]_vars => SentInOrder'
  <2> SUFFICES ASSUME TypeOK, SentInOrder, [Next]_vars PROVE SentInOrder'
    OBVIOUS
  <2>1. ASSUME NEW u \in {0} \cup Uid, DispatchToSpi(u) PROVE SentInOrder'
    BY <2>1, DispatchToSpiKeepsOrder
  <2>2. CASE Tick
    <3>1. Chan!Carry \/ UNCHANGED <<queue, sent, pushed>>
      BY <2>2, TickCarriesOrStutters
    <3> QED
      BY <3>1, CarryKeepsOrder DEF SentInOrder
  <2>3. CASE ~(Tick \/ \E u \in {0} \cup Uid : DispatchToSpi(u))
    <3>1. UNCHANGED <<queue, sent, pushed>>
      BY <2>3 DEF Next, SpiThread, EventThread, DiscoverSend, DiscoverRecv,
                 AcquirePermit, StopThread, DispatchFromSpi, Exit, Join, vars
    <3> QED
      BY <3>1 DEF SentInOrder
  <2> QED
    BY <2>1, <2>2, <2>3
<1> QED
  BY <1>1, <1>2, TypeCorrect, PTL DEF Spec
-----------------------------------------------------------------------------
(* A tick stages the next packet or leaves packet_from_spi zeroed with     *)
(* nothing staged; the dispatched packets stay as they are.                *)
LEMMA TickStagesOrClears ==
    ASSUME Tick
    PROVE  /\ \/ rxCount' = rxCount + 1 /\ fromSpi' = rxCount + 1
              \/ rxCount' = rxCount /\ fromSpi' = 0
           /\ delivered' = delivered
BY DEF Tick, TickOn, StageReceived

(* Every step of RedStackSpi is a step of the one-packet buffer under the  *)
(* mapping Hand, or leaves the buffer, the staged count and the dispatched *)
(* packets alone.                                                          *)
LEMMA HandOffRefinementStep ==
    HandOffInv /\ [Next]_vars => [Hand!HandNext]_Hand!handVars
<1> SUFFICES ASSUME HandOffInv, [Next]_vars
             PROVE  [Hand!HandNext]_Hand!handVars
  BY SMTT(30)
<1> DEFINE k == Len(delivered)
<1>0. delivered \in Seq(0 .. MaxRx) /\ fromSpi \in 0 .. MaxRx /\ k \in Nat
  BY LenProperties DEF HandOffInv, TypeOK
<1>1. CASE Tick
  <2>1. rxCount = k
    BY <1>1 DEF Tick, TickOn, HandOffInv
  <2>2. CASE rxCount' = rxCount + 1 /\ fromSpi' = rxCount + 1
    <3>1. delivered' = delivered
      BY <1>1, TickStagesOrClears
    <3> QED  BY <1>0, <2>1, <2>2, <3>1 DEF Hand!HandNext, Hand!Stage
  <2>3. CASE rxCount' = rxCount /\ fromSpi' = 0
    <3>1. delivered' = delivered
      BY <1>1, TickStagesOrClears
    <3> QED  BY <1>0, <2>1, <2>3, <3>1 DEF Hand!handVars
  <2> QED  BY <1>1, <2>2, <2>3, TickStagesOrClears
<1>2. CASE DispatchFromSpi
  <2>1. rxCount = k + 1 /\ fromSpi = k + 1
    BY <1>2 DEF DispatchFromSpi, HandOffInv
  <2>2. /\ delivered' = Append(delivered, fromSpi)
        /\ Len(delivered') = k + 1
        /\ UNCHANGED <<rxCount, fromSpi>>
    BY <1>0, <1>2, AppendProperties DEF DispatchFromSpi
  <2> QED  BY <1>0, <2>1, <2>2 DEF Hand!HandNext, Hand!Dispatch
<1>3. CASE ~Tick /\ ~DispatchFromSpi
  <2>1. UNCHANGED <<rxCount, fromSpi, delivered>>
    BY <1>3 DEF Next, SpiThread, EventThread, DiscoverSend, DiscoverRecv,
                AcquirePermit, StopThread, DispatchToSpi, Exit, Join, vars
  <2> QED  BY <2>1 DEF Hand!handVars
<1> QED  BY <1>1, <1>2, <1>3

(* packet_from_spi, the notification pipe and the semaphore implement the  *)
(* one-packet buffer of spec C7 for every number of slots and bounds and   *)
(* whether or not pipe_write succeeds: red_stack_spi_thread stages a       *)
(* packet only after red_stack_dispatch_from_spi dispatched the previous  *)
(* one, the memset of the polling loop never clears a staged packet, and   *)
(* every dispatch hands over the staged packet.                            *)
THEOREM ImplementsHandOffCorrect == Spec => ImplementsHandOff
<1>1. Init => Hand!HandInit
  BY DEF Init, Hand!HandInit
<1>2. Init => HandOffInv
  BY InitType DEF Init, HandOffInv
<1> QED
  BY <1>1, <1>2, HandOffStep, HandOffRefinementStep, PTL
  DEF Spec, ImplementsHandOff, Hand!HandSpec
=============================================================================
