------------------------- MODULE RedStackPrefixProofs -------------------------
(***************************************************************************)
(* Proof that discovery leaves a contiguous prefix of present slaves and   *)
(* that the queue only ever targets them (StackPrefix), for every number  *)
(* of slots, retry budget and enumerate response.  StackPrefix says        *)
(* nothing while the thread discovers, so it is not inductive: the        *)
(* strengthening PrefixInv describes the discovery loop's state, and keeps *)
(* the round-robin cursor of the polling loop below slave_num.  The same  *)
(* module proves that discovery leaves the host's routing table equal to  *)
(* the UIDs of the present slaves (RoutingTableExact), through RoutingInv. *)
(***************************************************************************)
EXTENDS RedStackSpiProofs

(* While red_stack_spi_create_routing_table runs, slave_num is still 0,   *)
(* the polling loop has not moved its cursor, nothing can be queued (no   *)
(* slave is known), and exactly the slots up to the one being tried are   *)
(* present: those before it answered, and the loop made it AVAILABLE.      *)
DiscoveryState ==
    spiPc = "discover" =>
        /\ slaveNum = 0
        /\ cycle = 0
        /\ queue = <<>>
        /\ \A s \in Slots : s <= disc.addr <=> status[s] # ABSENT

(* The polling loop's round-robin cursor names a present slave.            *)
CycleInRange == spiPc \in {"tick", "wait"} => cycle < slaveNum

PrefixRest == DiscoveryState /\ CycleInRange /\ StackPrefix

PrefixInv == TypeOK /\ PrefixRest

-----------------------------------------------------------------------------
(* A transceive never marks a present slave ABSENT: a parsed frame gives   *)
(* AVAILABLE or AVAILABLE_BUSY, anything else leaves the status alone.     *)
LEMMA ExchangeKeepsPresent ==
    ASSUME NEW s, status[s] # ABSENT, NEW hasReq, NEW f, NEW io
    PROVE  Exchange(s, hasReq, f, io).status # ABSENT
BY DEF Exchange, ABSENT, AVAILABLE, BUSY

(* A failed discovery try from a state of the invariant: a retry keeps the *)
(* slot present, giving up marks it ABSENT and ends discovery with        *)
(* slave_num equal to the slot, so exactly the slots below it are present. *)
LEMMA RetryOrGiveUpPrefix ==
    ASSUME PrefixInv, TypeOK', spiPc = "discover",
           NEW st, st # ABSENT, RetryOrGiveUp(disc.addr, st),
           UNCHANGED <<cycle, queue>>
    PROVE  PrefixRest'
<1> DEFINE a == disc.addr
<1>0. /\ a \in Slots
      /\ slaveNum = 0 /\ cycle = 0 /\ queue = <<>>
      /\ \A s \in Slots : s <= a <=> status[s] # ABSENT
      /\ status \in [Slots -> Status]
  BY DEF PrefixInv, PrefixRest, DiscoveryState, TypeOK
<1>1. CASE disc.tries + 1 < RoutingTries
  <2>1. /\ disc' = [disc EXCEPT !.tries = @ + 1]
        /\ status' = [status EXCEPT ![a] = st]
        /\ UNCHANGED <<slaveNum, spiPc>>
    BY <1>1 DEF RetryOrGiveUp
  <2>2. disc'.addr = a
    BY <2>1 DEF TypeOK
  <2>3. \A s \in Slots : s <= a <=> status'[s] # ABSENT
    BY <1>0, <2>1, SMTT(30)
  <2> QED  BY <1>0, <2>1, <2>2, <2>3 DEF PrefixRest, DiscoveryState, CycleInRange,
                                        StackPrefix
<1>2. CASE ~(disc.tries + 1 < RoutingTries)
  <2>1. /\ status' = [status EXCEPT ![a] = ABSENT]
        /\ slaveNum' = a
        /\ spiPc' = IF a = 0 THEN "done" ELSE "tick"
    BY <1>2 DEF RetryOrGiveUp, FinishDiscovery
  <2>2. \A s \in Slots : s < slaveNum' <=> status'[s] # ABSENT
    BY <1>0, <2>1
  <2>3. CycleInRange'
    BY <1>0, <2>1 DEF CycleInRange, Slots
  <2> QED  BY <1>0, <2>1, <2>2, <2>3 DEF PrefixRest, DiscoveryState, StackPrefix
<1> QED  BY <1>1, <1>2

(* The send try of discovery: on DATA_SEND the loop moves to the receive   *)
(* phase of the same slot, whose status stays present; otherwise a retry  *)
(* or the end of discovery.                                                *)
LEMMA DiscoverSendPrefix ==
    ASSUME PrefixInv, TypeOK', DiscoverSend PROVE PrefixRest'
<1> DEFINE a == disc.addr
<1>p. PICK f \in Frame, io \in BOOLEAN :
      LET x == Exchange(a, TRUE, f, io)
      IN IF x.sent
         THEN /\ disc' = [disc EXCEPT !.phase = "recv", !.tries = 0]
              /\ status' = [status EXCEPT ![a] = x.status]
              /\ UNCHANGED <<slaveNum, spiPc, running>>
         ELSE RetryOrGiveUp(a, x.status)
  BY DEF DiscoverSend
<1> DEFINE x == Exchange(a, TRUE, f, io)
<1>0. /\ spiPc = "discover"
      /\ UNCHANGED <<cycle, queue>>
      /\ a \in Slots
      /\ slaveNum = 0 /\ cycle = 0 /\ queue = <<>>
      /\ \A s \in Slots : s <= a <=> status[s] # ABSENT
      /\ status \in [Slots -> Status]
  BY DEF DiscoverSend, PrefixInv, PrefixRest, DiscoveryState, TypeOK
<1>a. status[a] # ABSENT
  BY <1>0 DEF Slots
<1>s. PICK st : st = x.status
  OBVIOUS
<1>1. st # ABSENT
  BY <1>a, <1>s, ExchangeKeepsPresent
<1>2. CASE x.sent
  <2>1. /\ disc' = [disc EXCEPT !.phase = "recv", !.tries = 0]
        /\ status' = [status EXCEPT ![a] = st]
        /\ UNCHANGED <<slaveNum, spiPc>>
    BY <1>p, <1>s, <1>2, Zenon
  <2>2. disc'.addr = a
    BY <2>1 DEF TypeOK
  <2>s. status' = [status EXCEPT ![a] = st]
    BY <2>1, Zenon
  <2>3. ASSUME NEW t \in Slots PROVE t <= a <=> status'[t] # ABSENT
    <3>1. CASE t = a
      <4>1. status'[t] = st
        BY <1>0, <2>s, <3>1
      <4> QED  BY <1>0, <1>1, <3>1, <4>1 DEF Slots
    <3>2. CASE t # a
      <4>1. status'[t] = status[t]
        BY <1>0, <2>s, <3>2
      <4> QED  BY <1>0, <4>1
    <3> QED  BY <3>1, <3>2
  <2> QED  BY <1>0, <2>1, <2>2, <2>3 DEF PrefixRest, DiscoveryState, CycleInRange,
                                        StackPrefix
<1>3. CASE ~x.sent
  BY <1>p, <1>s, <1>0, <1>1, <1>3, RetryOrGiveUpPrefix
<1> QED  BY <1>2, <1>3

(* The receive try of discovery: on DATA_RECEIVED the slot keeps a        *)
(* present status and either the next slot is made AVAILABLE and tried,    *)
(* or, after the last slot, slave_num becomes MaxSlaves with every slot    *)
(* present; otherwise a retry or the end of discovery.                     *)
LEMMA DiscoverRecvPrefix ==
    ASSUME PrefixInv, TypeOK', DiscoverRecv PROVE PrefixRest'
<1> DEFINE a == disc.addr
<1>p. PICK f \in Frame, io \in BOOLEAN :
      LET x == Exchange(a, FALSE, f, io)
      IN IF x.recv
         THEN /\ uids' = [uids EXCEPT ![a] = EnumUids(EnumResponse[a])]
              /\ registered' = registered \cup EnumUids(EnumResponse[a])
              /\ IF a + 1 < MaxSlaves
                 THEN /\ disc' = [addr |-> a + 1, phase |-> "send", tries |-> 0]
                      /\ status' = [status EXCEPT ![a] = x.status,
                                                  ![a + 1] = AVAILABLE]
                      /\ UNCHANGED <<slaveNum, spiPc, running>>
                 ELSE /\ status' = [status EXCEPT ![a] = x.status]
                      /\ FinishDiscovery(MaxSlaves)
                      /\ UNCHANGED disc
         ELSE /\ RetryOrGiveUp(a, x.status)
              /\ UNCHANGED <<uids, registered>>
  BY DEF DiscoverRecv
<1> DEFINE x == Exchange(a, FALSE, f, io)
<1>0. /\ spiPc = "discover"
      /\ UNCHANGED <<cycle, queue>>
      /\ a \in Slots
      /\ slaveNum = 0 /\ cycle = 0 /\ queue = <<>>
      /\ \A s \in Slots : s <= a <=> status[s] # ABSENT
      /\ status \in [Slots -> Status]
  BY DEF DiscoverRecv, PrefixInv, PrefixRest, DiscoveryState, TypeOK
<1>a. status[a] # ABSENT
  BY <1>0 DEF Slots
<1>s. PICK st : st = x.status
  OBVIOUS
<1>1. st # ABSENT
  BY <1>a, <1>s, ExchangeKeepsPresent
<1>2. CASE x.recv /\ a + 1 < MaxSlaves
  <2>1. /\ disc' = [addr |-> a + 1, phase |-> "send", tries |-> 0]
        /\ status' = [status EXCEPT ![a] = st, ![a + 1] = AVAILABLE]
        /\ UNCHANGED <<slaveNum, spiPc>>
    BY <1>p, <1>s, <1>2, Zenon
  <2>2. \A s \in Slots : s <= a + 1 <=> status'[s] # ABSENT
    BY <1>0, <1>1, <1>2, <2>1 DEF AVAILABLE, ABSENT, Slots
  <2> QED  BY <1>0, <2>1, <2>2 DEF PrefixRest, DiscoveryState, CycleInRange,
                                  StackPrefix
<1>3. CASE x.recv /\ ~(a + 1 < MaxSlaves)
  <2>0. /\ status' = [status EXCEPT ![a] = st]
        /\ FinishDiscovery(MaxSlaves)
    BY <1>p, <1>s, <1>3, Zenon
  <2>1. /\ status' = [status EXCEPT ![a] = st]
        /\ slaveNum' = MaxSlaves
        /\ spiPc' = "tick"
    BY <2>0, MaxSlavesAssumption DEF FinishDiscovery
  <2>2. \A s \in Slots : s < slaveNum' <=> status'[s] # ABSENT
    BY <1>0, <1>1, <1>3, <2>1, MaxSlavesAssumption DEF Slots
  <2>3. CycleInRange'
    BY <1>0, <2>1, MaxSlavesAssumption DEF CycleInRange
  <2> QED  BY <1>0, <2>1, <2>2, <2>3 DEF PrefixRest, DiscoveryState, StackPrefix
<1>4. CASE ~x.recv
  BY <1>p, <1>s, <1>0, <1>1, <1>4, RetryOrGiveUpPrefix
<1> QED  BY <1>2, <1>3, <1>4

(* A tick of the polling loop exchanges with a slave below slave_num (the  *)
(* queued item's target or the round-robin cursor), whose status stays     *)
(* present; the cursor wraps below slave_num; a pop keeps the remaining    *)
(* items' targets.                                                          *)
LEMMA TickPrefix ==
    ASSUME PrefixInv, TypeOK', Tick PROVE PrefixRest'
<1> DEFINE hasReq == queue # <<>>
           sl == IF hasReq THEN Head(queue).slave ELSE cycle
<1>0. /\ spiPc = "tick"
      /\ UNCHANGED <<slaveNum, disc>>
      /\ \A t \in Slots : t < slaveNum <=> status[t] # ABSENT
      /\ \A i \in 1 .. Len(queue) : queue[i].slave < slaveNum
      /\ cycle < slaveNum
      /\ cycle \in Slots
      /\ slaveNum \in 0 .. MaxSlaves
      /\ queue \in Seq(QueueItem)
      /\ status \in [Slots -> Status]
  BY SMTT(30) DEF Tick, TickOn, PrefixInv, PrefixRest, StackPrefix, CycleInRange, TypeOK,
         QueueItem
<1>1. hasReq => /\ Head(queue) = queue[1] /\ 1 <= Len(queue)
                /\ Tail(queue) \in Seq(QueueItem)
                /\ Len(Tail(queue)) = Len(queue) - 1
                /\ \A i \in 1 .. Len(Tail(queue)) : Tail(queue)[i] = queue[i + 1]
  BY <1>0, HeadTailProperties
<1>2. sl \in Slots /\ sl < slaveNum
  <2>1. CASE hasReq
    <3>1. queue[1] \in QueueItem /\ queue[1].slave < slaveNum
      BY <1>0, <1>1, <2>1
    <3> QED  BY <3>1, <1>1, <2>1 DEF QueueItem
  <2>2. CASE ~hasReq
    BY <1>0, <2>2
  <2> QED  BY <2>1, <2>2
<1>p. PICK f \in Frame, io \in BOOLEAN :
      LET x == Exchange(sl, hasReq, f, io)
      IN /\ cycle' = IF hasReq THEN cycle ELSE NextCycle
         /\ status' = [status EXCEPT ![sl] = x.status]
         /\ queue' = IF x.sent THEN Tail(queue) ELSE queue
         /\ IF x.recv
            THEN StageReceived
            ELSE /\ fromSpi' = 0
                 /\ UNCHANGED <<rxCount, pipe, spiPc>>
  BY DEF Tick, TickOn
<1> DEFINE x == Exchange(sl, hasReq, f, io)
<1>s. PICK st : st = x.status
  OBVIOUS
<1>3. st # ABSENT
  <2>1. status[sl] # ABSENT
    BY <1>0, <1>2
  <2> QED  BY <2>1, <1>s, ExchangeKeepsPresent
<1>4. /\ status' = [status EXCEPT ![sl] = st]
      /\ cycle' = IF hasReq THEN cycle ELSE NextCycle
      /\ queue' = queue \/ (hasReq /\ queue' = Tail(queue))
      /\ spiPc' \in {"tick", "wait"}
  <2>1. x.sent => hasReq
    <3>1. status[sl] \in Status /\ hasReq \in BOOLEAN
      BY <1>0, <1>2
    <3> QED  BY <3>1, ExchangeType, ZenonT(60)
  <2>2. spiPc' \in {"tick", "wait"}
    BY <1>p, <1>0 DEF StageReceived
  <2> QED  BY <1>p, <1>s, <2>1, <2>2, Zenon
<1>5. \A t \in Slots : t < slaveNum' <=> status'[t] # ABSENT
  BY <1>0, <1>2, <1>3, <1>4
<1>6. \A i \in 1 .. Len(queue') : queue'[i].slave < slaveNum'
  BY <1>0, <1>1, <1>4, SMTT(30)
<1>7. cycle' < slaveNum'
  BY <1>0, <1>4, SMTT(30) DEF NextCycle
<1> QED  BY <1>4, <1>5, <1>6, <1>7 DEF PrefixRest, DiscoveryState, CycleInRange,
                                      StackPrefix

(* red_stack_dispatch_to_spi queues items only for slaves below slave_num  *)
(* (the broadcast loop and red_stack_spi_get_slave_for_uid scan only      *)
(* those), so while discovery runs (slave_num = 0) it queues nothing.     *)
LEMMA DispatchToSpiPrefix ==
    ASSUME PrefixInv, TypeOK', NEW u, DispatchToSpi(u) PROVE PrefixRest'
<1> DEFINE t == Targets(u)
           new == [i \in 1 .. Len(t) |-> [slave |-> t[i], id |-> pushed + i]]
<1>0. /\ TypeOK
      /\ UNCHANGED <<spiPc, disc, status, slaveNum, cycle>>
      /\ queue' = queue \o new
  BY DEF PrefixInv, DispatchToSpi
<1>1. t \in Seq(0 .. slaveNum - 1) /\ pushed + Len(t) <= MaxPush
  BY <1>0, TargetsType DEF DispatchToSpi
<1>2. new \in Seq(QueueItem) /\ queue \in Seq(QueueItem)
  BY <1>0, <1>1, NewItemsType DEF TypeOK, QueueItem
<1>3. /\ Len(queue') = Len(queue) + Len(t)
      /\ \A i \in 1 .. Len(queue') :
            queue'[i] = IF i <= Len(queue) THEN queue[i] ELSE new[i - Len(queue)]
  BY <1>0, <1>2, ConcatProperties
<1>4. \A i \in 1 .. Len(t) : new[i].slave < slaveNum
  <2>1. \A i \in 1 .. Len(t) : t[i] \in 0 .. slaveNum - 1
    BY <1>1, ElementOfSeq, Zenon
  <2>2. \A i \in 1 .. Len(t) : new[i].slave = t[i]
    BY Zenon
  <2>3. slaveNum \in Nat
    BY <1>0 DEF TypeOK
  <2> QED  BY <2>1, <2>2, <2>3
<1>5. StackPrefix'
  <2> SUFFICES ASSUME spiPc # "discover"
               PROVE  \A i \in 1 .. Len(queue') : queue'[i].slave < slaveNum
    BY <1>0 DEF PrefixInv, PrefixRest, StackPrefix
  <2>1. \A i \in 1 .. Len(queue) : queue[i].slave < slaveNum
    BY DEF PrefixInv, PrefixRest, StackPrefix
  <2>2. Len(queue) \in Nat /\ Len(t) \in Nat
    BY <1>1, <1>2
  <2> TAKE i \in 1 .. Len(queue')
  <2>3. CASE i <= Len(queue)
    <3>1. i \in 1 .. Len(queue)
      BY <2>2, <2>3
    <3>2. queue'[i] = queue[i]
      BY <1>3, <2>3
    <3> QED  BY <2>1, <3>1, <3>2, Zenon
  <2>4. CASE ~(i <= Len(queue))
    <3>1. i - Len(queue) \in 1 .. Len(t)
      BY <1>3, <2>2, <2>4
    <3>2. queue'[i] = new[i - Len(queue)]
      BY <1>3, <2>4
    <3> QED  BY <1>4, <3>1, <3>2
  <2> QED  BY <2>3, <2>4
<1>6. DiscoveryState'
  <2> SUFFICES ASSUME spiPc = "discover" PROVE queue' = <<>>
    BY <1>0 DEF PrefixInv, PrefixRest, DiscoveryState
  <2>1. slaveNum = 0 /\ queue = <<>>
    BY DEF PrefixInv, PrefixRest, DiscoveryState
  <2>2. Len(t) = 0
    BY <1>1, <2>1
  <2>3. Len(queue') = 0 /\ queue' \in Seq(QueueItem)
    BY <1>3, <2>1, <2>2 DEF TypeOK, QueueItem
  <2> QED  BY <2>3
<1> QED  BY <1>0, <1>5, <1>6 DEF PrefixInv, PrefixRest, CycleInRange

(* Every step of either thread keeps PrefixRest; the steps not above      *)
(* change none of spiPc, disc, status, slave_num, the cursor or the queue, *)
(* except that the semaphore wakes the thread from "wait" to "tick" and    *)
(* the thread leaves the loop for "done".                                  *)
LEMMA PrefixStep == PrefixInv /\ [Next]_vars => PrefixInv'
<1> SUFFICES ASSUME PrefixInv, [Next]_vars PROVE PrefixInv'
  OBVIOUS
<1>0. TypeOK'
  BY TypeStep DEF PrefixInv
<1>1. CASE DiscoverSend
  BY <1>0, <1>1, DiscoverSendPrefix DEF PrefixInv
<1>2. CASE DiscoverRecv
  BY <1>0, <1>2, DiscoverRecvPrefix DEF PrefixInv
<1>3. CASE Tick
  BY <1>0, <1>3, TickPrefix DEF PrefixInv
<1>4. CASE AcquirePermit
  BY <1>0, <1>4 DEF AcquirePermit, PrefixInv, PrefixRest, DiscoveryState,
                    CycleInRange, StackPrefix
<1>5. CASE StopThread
  BY <1>0, <1>5 DEF StopThread, PrefixInv, PrefixRest, DiscoveryState,
                    CycleInRange, StackPrefix
<1>6. ASSUME NEW u \in {0} \cup Uid, DispatchToSpi(u) PROVE PrefixInv'
  BY <1>0, <1>6, DispatchToSpiPrefix DEF PrefixInv
<1>7. CASE DispatchFromSpi
  BY <1>0, <1>7 DEF DispatchFromSpi, PrefixInv, PrefixRest, DiscoveryState,
                    CycleInRange, StackPrefix
<1>8. CASE Exit
  BY <1>0, <1>8 DEF Exit, PrefixInv, PrefixRest, DiscoveryState,
                    CycleInRange, StackPrefix
<1>9. CASE Join
  BY <1>0, <1>9 DEF Join, PrefixInv, PrefixRest, DiscoveryState,
                    CycleInRange, StackPrefix
<1>10. CASE UNCHANGED vars
  BY <1>0, <1>10 DEF vars, PrefixInv, PrefixRest, DiscoveryState,
                     CycleInRange, StackPrefix
<1> QED
  BY <1>1, <1>2, <1>3, <1>4, <1>5, <1>6, <1>7, <1>8, <1>9, <1>10
     DEF Next, SpiThread, EventThread

LEMMA PrefixInit == Init => PrefixInv
<1> SUFFICES ASSUME Init PROVE PrefixInv
  OBVIOUS
<1>1. TypeOK
  BY InitType
<1>2. \A s \in Slots : s <= 0 <=> status[s] # ABSENT
  BY MaxSlavesAssumption DEF Init, Slots, ABSENT, AVAILABLE
<1> QED  BY <1>1, <1>2 DEF Init, PrefixInv, PrefixRest, DiscoveryState,
                          CycleInRange, StackPrefix

-----------------------------------------------------------------------------
(* For every number of slots, retry budget and enumerate response: once    *)
(* red_stack_spi_create_routing_table has returned, the present slaves    *)
(* are exactly the slots below slave_num, and every request that           *)
(* red_stack_dispatch_to_spi queued targets one of them, however the       *)
(* polling loop's transceives and the event thread's requests interleave. *)
THEOREM StackPrefixCorrect == Spec => []StackPrefix
<1>1. PrefixInv => StackPrefix
  BY DEF PrefixInv, PrefixRest
<1> QED  BY PrefixInit, PrefixStep, <1>1, PTL DEF Spec
-----------------------------------------------------------------------------
(* The inductive strengthening of RoutingTableExact: while discovery runs, *)
(* the UIDs given to stack_add_uid are those of the slots before the one   *)
(* being tried; each slot adds its UIDs when its enumerate response        *)
(* arrives, and a slot that fails adds none.                               *)
RoutingInv ==
    /\ TypeOK
    /\ spiPc = "discover" => registered = UNION {uids[s] : s \in 0 .. disc.addr - 1}
    /\ RoutingTableExact

(* The union of a slot table over 0 .. a, after slot a got the set E and   *)
(* the slots before it were left alone.                                    *)
LEMMA UnionExtend ==
    ASSUME NEW F, NEW G, NEW a \in Nat, NEW E,
           \A s \in 0 .. a - 1 : G[s] = F[s], G[a] = E
    PROVE  UNION {G[s] : s \in 0 .. a} = (UNION {F[s] : s \in 0 .. a - 1}) \cup E
<1>1. ASSUME NEW u \in UNION {G[s] : s \in 0 .. a}
      PROVE  u \in (UNION {F[s] : s \in 0 .. a - 1}) \cup E
  <2>1. PICK s \in 0 .. a : u \in G[s]
    BY <1>1
  <2>2. CASE s = a
    BY <2>1, <2>2
  <2>3. CASE s # a
    <3>1. s \in 0 .. a - 1 /\ G[s] = F[s]
      BY <2>3
    <3> QED  BY <2>1, <3>1
  <2> QED  BY <2>2, <2>3
<1>2. ASSUME NEW u \in (UNION {F[s] : s \in 0 .. a - 1}) \cup E
      PROVE  u \in UNION {G[s] : s \in 0 .. a}
  <2>1. CASE u \in E
    BY <2>1
  <2>2. CASE u \notin E
    <3>1. PICK s \in 0 .. a - 1 : u \in F[s]
      BY <1>2, <2>2
    <3>2. s \in 0 .. a /\ u \in G[s]
      BY <3>1
    <3> QED  BY <3>2
  <2> QED  BY <2>1, <2>2
<1> QED  BY <1>1, <1>2

(* A failed discovery try either retries the same slot, or ends discovery *)
(* with slave_num equal to that slot.                                     *)
LEMMA RetryOrGiveUpRouting ==
    ASSUME TypeOK, spiPc = "discover", NEW st, RetryOrGiveUp(disc.addr, st)
    PROVE  \/ spiPc' = "discover" /\ disc'.addr = disc.addr
           \/ spiPc' # "discover" /\ slaveNum' = disc.addr
<1>1. CASE disc.tries + 1 < RoutingTries
  <2>1. disc' = [disc EXCEPT !.tries = @ + 1] /\ spiPc' = spiPc
    BY <1>1 DEF RetryOrGiveUp
  <2> QED  BY <2>1 DEF TypeOK
<1>2. CASE ~(disc.tries + 1 < RoutingTries)
  BY <1>2 DEF RetryOrGiveUp, FinishDiscovery
<1> QED  BY <1>1, <1>2

(* The send try of discovery registers nothing: the slot stays the one     *)
(* being tried, or discovery ends before it.                               *)
LEMMA DiscoverSendRouting ==
    ASSUME TypeOK, DiscoverSend
    PROVE  /\ UNCHANGED <<uids, registered>>
           /\ \/ spiPc' = "discover" /\ disc'.addr = disc.addr
              \/ spiPc' # "discover" /\ slaveNum' = disc.addr
<1> DEFINE a == disc.addr
<1>p. PICK f \in Frame, io \in BOOLEAN :
      LET x == Exchange(a, TRUE, f, io)
      IN IF x.sent
         THEN /\ disc' = [disc EXCEPT !.phase = "recv", !.tries = 0]
              /\ UNCHANGED spiPc
         ELSE RetryOrGiveUp(a, x.status)
  BY DEF DiscoverSend
<1> DEFINE x == Exchange(a, TRUE, f, io)
<1>0. spiPc = "discover" /\ UNCHANGED <<uids, registered>>
  BY DEF DiscoverSend
<1>1. CASE x.sent
  <2>1. disc' = [disc EXCEPT !.phase = "recv", !.tries = 0] /\ UNCHANGED spiPc
    BY <1>p, <1>1, Zenon
  <2> QED  BY <1>0, <2>1 DEF TypeOK
<1>2. CASE ~x.sent
  <2>s. PICK st : st = x.status
    OBVIOUS
  <2>1. RetryOrGiveUp(a, st)
    BY <1>p, <1>2, <2>s, Zenon
  <2> QED  BY <1>0, <2>1, RetryOrGiveUpRouting
<1> QED  BY <1>1, <1>2

(* The receive try of discovery: on the enumerate response the slot's UIDs *)
(* are copied and registered together and the next slot is tried (or      *)
(* discovery ends with every slot); otherwise a retry or the end of        *)
(* discovery before the slot.                                              *)
LEMMA DiscoverRecvRouting ==
    ASSUME RoutingInv, DiscoverRecv PROVE RoutingInv'
<1> DEFINE a == disc.addr
           E == EnumUids(EnumResponse[a])
<1>p. PICK f \in Frame, io \in BOOLEAN :
      LET x == Exchange(a, FALSE, f, io)
      IN IF x.recv
         THEN /\ uids' = [uids EXCEPT ![a] = E]
              /\ registered' = registered \cup E
              /\ IF a + 1 < MaxSlaves
                 THEN /\ disc' = [addr |-> a + 1, phase |-> "send", tries |-> 0]
                      /\ UNCHANGED <<slaveNum, spiPc>>
                 ELSE /\ FinishDiscovery(MaxSlaves)
         ELSE /\ RetryOrGiveUp(a, x.status)
              /\ UNCHANGED <<uids, registered>>
  BY DEF DiscoverRecv
<1> DEFINE x == Exchange(a, FALSE, f, io)
<1>0. /\ TypeOK /\ TypeOK'
      /\ spiPc = "discover"
      /\ a \in Slots
      /\ uids \in [Slots -> SUBSET Uid]
      /\ registered = UNION {uids[s] : s \in 0 .. a - 1}
  BY TypeStep DEF DiscoverRecv, RoutingInv, TypeOK, Next, SpiThread
<1>u. x.recv => /\ uids' = [uids EXCEPT ![a] = E]
                /\ registered' = registered \cup E
                /\ UNION {uids'[s] : s \in 0 .. a} = registered'
  <2> SUFFICES ASSUME x.recv
               PROVE  /\ uids' = [uids EXCEPT ![a] = E]
                      /\ registered' = registered \cup E
                      /\ UNION {uids'[s] : s \in 0 .. a} = registered'
    OBVIOUS
  <2>1. uids' = [uids EXCEPT ![a] = E] /\ registered' = registered \cup E
    BY <1>p, Zenon
  <2>2. /\ \A s \in 0 .. a - 1 : uids'[s] = uids[s]
        /\ uids'[a] = E
        /\ a \in Nat
    BY <1>0, <2>1 DEF Slots
  <2> QED  BY <1>0, <2>1, <2>2, UnionExtend
<1>1. CASE x.recv /\ a + 1 < MaxSlaves
  <2>1. disc' = [addr |-> a + 1, phase |-> "send", tries |-> 0] /\ UNCHANGED <<slaveNum, spiPc>>
    BY <1>p, <1>1, Zenon
  <2>2. disc'.addr - 1 = a /\ spiPc' = "discover"
    BY <1>0, <2>1 DEF Slots
  <2>3. registered' = UNION {uids'[s] : s \in 0 .. disc'.addr - 1}
    BY <1>1, <1>u, <2>2
  <2> QED  BY <1>0, <2>2, <2>3 DEF RoutingInv, RoutingTableExact
<1>2. CASE x.recv /\ ~(a + 1 < MaxSlaves)
  <2>1. FinishDiscovery(MaxSlaves)
    BY <1>p, <1>2, Zenon
  <2>2. slaveNum' = MaxSlaves /\ spiPc' = "tick" /\ a = MaxSlaves - 1
    BY <1>0, <1>2, <2>1, MaxSlavesAssumption DEF FinishDiscovery, Slots
  <2> QED  BY <1>0, <1>2, <1>u, <2>2 DEF RoutingInv, RoutingTableExact
<1>3. CASE ~x.recv
  <2>s. PICK st : st = x.status
    OBVIOUS
  <2>1. RetryOrGiveUp(a, st) /\ UNCHANGED <<uids, registered>>
    BY <1>p, <1>3, <2>s, Zenon
  <2>2. \/ spiPc' = "discover" /\ disc'.addr = a
        \/ spiPc' # "discover" /\ slaveNum' = a
    BY <1>0, <2>1, RetryOrGiveUpRouting
  <2> QED  BY <1>0, <2>1, <2>2 DEF RoutingInv, RoutingTableExact
<1> QED  BY <1>1, <1>2, <1>3
(* Every step keeps RoutingInv: only the two discovery steps touch the     *)
(* UIDs, the registrations or slave_num, and the polling loop and the     *)
(* event thread never bring the SPI thread back to discovery.              *)
LEMMA RoutingStep == RoutingInv /\ [Next]_vars => RoutingInv'
<1> SUFFICES ASSUME RoutingInv, [Next]_vars PROVE RoutingInv'
  OBVIOUS
<1>0. TypeOK /\ TypeOK'
  BY TypeStep DEF RoutingInv
<1>1. CASE DiscoverSend
  <2>1. /\ UNCHANGED <<uids, registered>>
        /\ \/ spiPc' = "discover" /\ disc'.addr = disc.addr
           \/ spiPc' # "discover" /\ slaveNum' = disc.addr
    BY <1>0, <1>1, DiscoverSendRouting
  <2>2. registered = UNION {uids[s] : s \in 0 .. disc.addr - 1}
    BY <1>1 DEF DiscoverSend, RoutingInv
  <2> QED  BY <1>0, <2>1, <2>2 DEF RoutingInv, RoutingTableExact
<1>2. CASE DiscoverRecv
  BY <1>2, DiscoverRecvRouting
<1>3. CASE Tick \/ AcquirePermit \/ StopThread
  <2>1. spiPc # "discover" /\ spiPc' # "discover"
    BY <1>3, SMTT(30) DEF Tick, TickOn, StageReceived, AcquirePermit, StopThread
  <2>2. UNCHANGED <<uids, registered, slaveNum>>
    BY <1>3 DEF Tick, TickOn, AcquirePermit, StopThread
  <2> QED  BY <1>0, <2>1, <2>2, SMTT(30) DEF RoutingInv, RoutingTableExact
<1>4. CASE (\E u \in {0} \cup Uid : DispatchToSpi(u)) \/ DispatchFromSpi \/ Exit \/ Join
            \/ UNCHANGED vars
  <2>1. UNCHANGED <<spiPc, disc, uids, registered, slaveNum>>
    BY <1>4 DEF DispatchToSpi, DispatchFromSpi, Exit, Join, vars
  <2> QED  BY <1>0, <2>1, SMTT(30) DEF RoutingInv, RoutingTableExact
<1> QED  BY <1>1, <1>2, <1>3, <1>4 DEF Next, SpiThread, EventThread

(* For every number of slots, retry budget and enumerate responses, once   *)
(* red_stack_spi_create_routing_table has returned, whether it stopped at  *)
(* a slot that failed its retries or went through all slots, the UIDs it  *)
(* gave to stack_add_uid are exactly those of the slaves below slave_num,  *)
(* the slaves red_stack_spi_get_slave_for_uid scans.                       *)
THEOREM RoutingTableExactCorrect == Spec => []RoutingTableExact
<1>1. Init => RoutingInv
  BY InitType DEF Init, RoutingInv, RoutingTableExact
<1>2. RoutingInv => RoutingTableExact
  BY DEF RoutingInv
<1> QED  BY <1>1, <1>2, RoutingStep, PTL DEF Spec
=============================================================================
