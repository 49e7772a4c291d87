----------------------------- MODULE RedStackSpi -----------------------------
(***************************************************************************)
(* The RED Brick SPI stack subsystem of brickd (src/brickd/red_stack.c).   *)
(*                                                                         *)
(* Two threads share the state of the module:                              *)
(*  - the SPI thread (red_stack_spi_thread): slave discovery               *)
(*    (red_stack_spi_create_routing_table), then the 500us polling loop    *)
(*    that peeks the outbound queue, does one SPI exchange                 *)
(*    (red_stack_spi_transceive_message), pops what it sent, and hands a   *)
(*    received packet to the event thread through a pipe and a semaphore;  *)
(*  - the brickd event thread: red_stack_dispatch_to_spi (requests from    *)
(*    the network are pushed on the queue), red_stack_dispatch_from_spi    *)
(*    (the pipe became readable: deliver the staged packet, release the    *)
(*    semaphore) and red_stack_exit.                                       *)
(* The slaves are the environment: every exchange returns an arbitrary     *)
(* frame, or the ioctl fails.  Frames are abstracted to the fields that    *)
(* red_stack_spi_transceive_message tests: preamble, length, whether the   *)
(* checksum matches and the busy bit of the info byte.  Timing (the        *)
(* deadline, the 50 ms discovery back-off) is left out: it orders nothing  *)
(* that the other thread can observe.                                      *)
(***************************************************************************)
EXTENDS Naturals, Sequences, FiniteSets

CONSTANTS
    MaxSlaves,     \* RED_STACK_SPI_MAX_SLAVES (8 in the code)
    RoutingTries,  \* RED_STACK_SPI_ROUTING_TRIES (10 in the code)
    Uid,           \* the UIDs that requests and enumerate responses carry
    EnumResponse,  \* EnumResponse[s]: uids[] of the enumerate response of slot s
    MaxPush,       \* bound: number of work items pushed on the queue
    MaxRx,         \* bound: number of packets received from the slaves
    PipeWrites     \* outcomes of pipe_write: TRUE written, FALSE failed

ASSUME MaxSlavesAssumption == MaxSlaves \in Nat \ {0}
ASSUME RoutingTriesAssumption == RoutingTries \in Nat \ {0}
ASSUME UidAssumption == 0 \notin Uid
ASSUME EnumResponseAssumption ==
    EnumResponse \in [0 .. MaxSlaves - 1 -> Seq(Uid \cup {0})]
ASSUME BoundsAssumption == MaxPush \in Nat /\ MaxRx \in Nat
ASSUME PipeWritesAssumption == PipeWrites \subseteq BOOLEAN /\ PipeWrites # {}

Slots == 0 .. MaxSlaves - 1

\* REDStackSlaveStatus
ABSENT == "ABSENT"
AVAILABLE == "AVAILABLE"
BUSY == "AVAILABLE_BUSY"
Status == {ABSENT, AVAILABLE, BUSY}

\* Frame constants of red_stack.c
PacketSize == 84            \* RED_STACK_SPI_PACKET_SIZE
EmptySize == 4              \* RED_STACK_SPI_PACKET_EMPTY_SIZE
HeaderSize == 8             \* sizeof(PacketHeader)
PreambleValue == 170        \* RED_STACK_SPI_PREAMBLE_VALUE (0xAA)

(* A frame as the slave clocks it out.  The length byte takes the values   *)
(* on both sides of every bound the receive path tests.                    *)
Frame == [pre : {0, PreambleValue, 1},
          len : {EmptySize, EmptySize + HeaderSize - 1, EmptySize + HeaderSize,
                 PacketSize, PacketSize + 1},
          crcOk : BOOLEAN,
          busy : BOOLEAN]

VARIABLES
    spiPc,      \* where the SPI thread is: "discover", "tick", "wait", "done"
    disc,       \* discovery loop: stack_address, send or receive phase, tries
    status,     \* _red_stack.slaves[s].status
    uids,       \* _red_stack.slaves[s].uids[0 .. uids_num - 1], as a set
    registered, \* the UIDs given to stack_add_uid (the host's stack index)
    slaveNum,   \* _red_stack.slave_num
    cycle,      \* stack_address_cycle of the polling loop
    running,    \* _red_stack_spi_thread_running
    queue,      \* _red_stack.packet_to_spi_queue: items [slave, id]
    pushed,     \* number of items ever pushed (the id of the last one)
    sent,       \* ids of the items whose payload went out on SPI (history)
    fromSpi,    \* _red_stack.packet_from_spi: 0 (zeroed) or a packet tag
    rxCount,    \* number of packets received so far (the tag of the last)
    pipe,       \* bytes in _red_stack_notification_pipe
    sem,        \* _red_stack_dispatch_packet_from_spi_semaphore
    delivered,  \* packets given to network_dispatch_response, in order
    evtPc       \* event thread: "loop", "join" (in red_stack_exit), "exited"

vars == <<spiPc, disc, status, uids, registered, slaveNum, cycle, running,
          queue, pushed, sent, fromSpi, rxCount, pipe, sem, delivered, evtPc>>

-----------------------------------------------------------------------------
(* The uids a slave reports: response->uids[i] up to the first zero.       *)
EnumUids(r) == {r[j] : j \in {j \in 1 .. Len(r) : \A k \in 1 .. j : r[k] # 0}}

\* Stands for the NULL slave pointer: no slot has this index.
NoSlave == MaxSlaves

(* red_stack_spi_get_slave_for_uid: the scan over the present slaves in   *)
(* index order returns the slave that holds u and has no holder before it; *)
(* NoSlave (NULL) when no present slave holds u.                            *)
SlaveForUid(u) ==
    LET first == {s \in 0 .. slaveNum - 1 :
                    u \in uids[s] /\ \A t \in 0 .. s - 1 : u \notin uids[t]}
    IN IF first = {} THEN NoSlave ELSE CHOOSE s \in first : TRUE

(* The receive path of red_stack_spi_transceive_message: a frame is taken  *)
(* when the preamble is 0xAA, the length is in [4 + 8, 84] and the Pearson *)
(* checksum matches.                                                        *)
Accepted(f) ==
    /\ f.pre = PreambleValue
    /\ f.len >= EmptySize + HeaderSize
    /\ f.len <= PacketSize
    /\ f.crcOk

(* Mutant of Exchange: the ioctl failure ORs the error bits into the       *)
(* result instead of overwriting it, so DATA_SEND survives a failed        *)
(* transfer.                                                                *)
ExchangeKeepsSendOnIoError(s, hasReq, f, io) ==
    LET pollOnly == ~hasReq \/ status[s] = BUSY
        sendErr  == ~pollOnly /\ status[s] # AVAILABLE
        parsed   == ~sendErr /\ io /\ Accepted(f)
    IN [wire   |-> ~pollOnly /\ ~sendErr /\ io,
        sent   |-> ~pollOnly /\ ~sendErr,
        recv   |-> parsed /\ f.len # EmptySize,
        status |-> IF parsed THEN (IF f.busy THEN BUSY ELSE AVAILABLE)
                   ELSE status[s]]

(* red_stack_spi_transceive_message(hasReq ? packet : NULL, _, slave s),   *)
(* with io = whether the ioctl moved all 84 bytes and f the frame read.    *)
(* wire = the request's payload really went out in the frame; sent = the   *)
(* RED_STACK_TRANSCEIVE_DATA_SEND bit, recv = ..._DATA_RECEIVED, status =  *)
(* slave->status afterwards.                                                *)
Exchange(s, hasReq, f, io) ==
    LET pollOnly == ~hasReq \/ status[s] = BUSY
        sendErr  == ~pollOnly /\ status[s] # AVAILABLE
        parsed   == ~sendErr /\ io /\ Accepted(f)
    IN [wire   |-> ~pollOnly /\ ~sendErr /\ io,
        sent   |-> ~pollOnly /\ ~sendErr /\ io,
        recv   |-> parsed /\ f.len # EmptySize,
        status |-> IF parsed THEN (IF f.busy THEN BUSY ELSE AVAILABLE)
                   ELSE status[s]]

-----------------------------------------------------------------------------
(* The state after red_stack_init: every slave ABSENT with no UIDs, queue, *)
(* pipe and semaphore empty; the SPI thread has just set slot 0 AVAILABLE  *)
(* and is about to send it the first STACK_ENUMERATE request.              *)
Init ==
    /\ spiPc = "discover"
    /\ disc = [addr |-> 0, phase |-> "send", tries |-> 0]
    /\ status = [s \in Slots |-> IF s = 0 THEN AVAILABLE ELSE ABSENT]
    /\ uids = [s \in Slots |-> {}]
    /\ registered = {}
    /\ slaveNum = 0
    /\ cycle = 0
    /\ running = 0
    /\ queue = <<>>
    /\ pushed = 0
    /\ sent = <<>>
    /\ fromSpi = 0
    /\ rxCount = 0
    /\ pipe = 0
    /\ sem = 0
    /\ delivered = <<>>
    /\ evtPc = "loop"

(* Mutant of FinishDiscovery: slave_num is set to the address of the last *)
(* slave that answered instead of the count of slaves.                     *)
FinishDiscoveryOffByOne(n) ==
    /\ slaveNum' = IF n > 0 THEN n - 1 ELSE 0
    /\ IF n = 0 THEN spiPc' = "done" /\ UNCHANGED running
                ELSE spiPc' = "tick" /\ running' = 1

(* End of discovery with n slaves: slave_num = n; with none the thread     *)
(* returns, otherwise it sets the running flag and enters the loop.        *)
FinishDiscovery(n) ==
    /\ slaveNum' = n
    /\ IF n = 0 THEN spiPc' = "done" /\ UNCHANGED running
                ELSE spiPc' = "tick" /\ running' = 1

(* Mutant of RetryOrGiveUp: the tries loop runs one attempt too many.     *)
RetryOrGiveUpOffByOne(a, st) ==
    IF disc.tries + 1 <= RoutingTries
    THEN /\ disc' = [disc EXCEPT !.tries = @ + 1]
         /\ status' = [status EXCEPT ![a] = st]
         /\ UNCHANGED <<slaveNum, spiPc, running>>
    ELSE /\ status' = [status EXCEPT ![a] = ABSENT]
         /\ FinishDiscovery(a)
         /\ UNCHANGED disc

(* A failed attempt: retry after 50 ms, or after RoutingTries failures     *)
(* mark the slot ABSENT and stop: no higher slot is tried.                 *)
RetryOrGiveUp(a, st) ==
    IF disc.tries + 1 < RoutingTries
    THEN /\ disc' = [disc EXCEPT !.tries = @ + 1]
         /\ status' = [status EXCEPT ![a] = st]
         /\ UNCHANGED <<slaveNum, spiPc, running>>
    ELSE /\ status' = [status EXCEPT ![a] = ABSENT]
         /\ FinishDiscovery(a)
         /\ UNCHANGED disc

(* One try of the send phase of red_stack_spi_create_routing_table.        *)
DiscoverSend ==
    /\ spiPc = "discover"
    /\ disc.phase = "send"
    /\ \E f \in Frame, io \in BOOLEAN :
         LET a == disc.addr
             x == Exchange(a, TRUE, f, io)
         IN IF x.sent
            THEN /\ disc' = [disc EXCEPT !.phase = "recv", !.tries = 0]
                 /\ status' = [status EXCEPT ![a] = x.status]
                 /\ UNCHANGED <<slaveNum, spiPc, running>>
            ELSE RetryOrGiveUp(a, x.status)
    /\ UNCHANGED <<uids, registered, cycle, queue, pushed, sent, fromSpi,
                   rxCount, pipe, sem, delivered, evtPc>>

(* One try of the receive phase: on data the slot's UIDs are copied and    *)
(* registered with stack_add_uid, and the next slot is made AVAILABLE.     *)
DiscoverRecv ==
    /\ spiPc = "discover"
    /\ disc.phase = "recv"
    /\ \E f \in Frame, io \in BOOLEAN :
         LET a == disc.addr
             x == Exchange(a, FALSE, f, io)
         IN IF x.recv
            THEN /\ uids' = [uids EXCEPT ![a] = EnumUids(EnumResponse[a])]
                 /\ registered' = registered \cup EnumUids(EnumResponse[a])
                 /\ IF a + 1 < MaxSlaves
                    THEN /\ disc' = [addr |-> a + 1, phase |-> "send", tries |-> 0]
                         /\ status' = [status EXCEPT ![a] = x.status,
                                                     ![a + 1] = AVAILABLE]
                         /\ UNCHANGED <<slaveNum, spiPc, running>>
                    ELSE /\ status' = [status EXCEPT ![a] = x.status]
                         /\ FinishDiscovery(MaxSlaves)
                         /\ UNCHANGED disc
            ELSE /\ RetryOrGiveUp(a, x.status)
                 /\ UNCHANGED <<uids, registered>>
    /\ UNCHANGED <<cycle, queue, pushed, sent, fromSpi, rxCount, pipe, sem,
                   delivered, evtPc>>

(* Mutant of NextCycle: the wrap-around test uses > instead of >=.       *)
NextCycleOffByOne == IF cycle + 1 > slaveNum THEN 0 ELSE cycle + 1

(* The round-robin cursor after a tick with an empty queue.               *)
NextCycle == IF cycle + 1 >= slaveNum THEN 0 ELSE cycle + 1

(* Mutant of StageReceived: the thread does not wait for the semaphore.   *)
StageReceivedNoWait ==
    /\ rxCount' = rxCount + 1
    /\ fromSpi' = rxCount + 1
    /\ \E written \in PipeWrites : pipe' = IF written THEN pipe + 1 ELSE pipe
    /\ spiPc' = "tick"

(* A packet was received into packet_from_spi: write the notification     *)
(* byte (red_stack_spi_request_dispatch_response_event, whose failure is   *)
(* only logged) and block on the semaphore.                                *)
StageReceived ==
    /\ rxCount' = rxCount + 1
    /\ fromSpi' = rxCount + 1
    /\ \E written \in PipeWrites : pipe' = IF written THEN pipe + 1 ELSE pipe
    /\ spiPc' = "wait"

(* One iteration of the polling loop up to the semaphore: zero the         *)
(* receive buffer, peek the queue, exchange with the queued item's slave   *)
(* or with the round-robin slave, pop the item if DATA_SEND is reported,   *)
(* and on DATA_RECEIVED stage the packet.  The slave answers with one of  *)
(* frames, and the ioctl succeeds or not as ios allows.                    *)
TickOn(frames, ios) ==
    /\ spiPc = "tick"
    /\ running = 1
    /\ \E f \in frames, io \in ios :
         LET hasReq == queue # <<>>
             s == IF hasReq THEN Head(queue).slave ELSE cycle
             x == Exchange(s, hasReq, f, io)
         IN /\ x.recv => rxCount < MaxRx
            /\ cycle' = IF hasReq THEN cycle ELSE NextCycle
            /\ status' = [status EXCEPT ![s] = x.status]
            /\ queue' = IF x.sent THEN Tail(queue) ELSE queue
            /\ sent' = IF x.wire THEN Append(sent, Head(queue).id) ELSE sent
            /\ IF x.recv
               THEN StageReceived
               ELSE /\ fromSpi' = 0
                    /\ UNCHANGED <<rxCount, pipe, spiPc>>
    /\ UNCHANGED <<disc, uids, registered, slaveNum, running, pushed, sem,
                   delivered, evtPc>>

(* A tick against any answer of the slaves and either ioctl outcome.      *)
Tick == TickOn(Frame, BOOLEAN)

(* semaphore_acquire after the pipe write; then the deadline sleep.        *)
AcquirePermit ==
    /\ spiPc = "wait"
    /\ sem > 0
    /\ sem' = sem - 1
    /\ spiPc' = "tick"
    /\ UNCHANGED <<disc, status, uids, registered, slaveNum, cycle, running,
                   queue, pushed, sent, fromSpi, rxCount, pipe, delivered, evtPc>>

(* The loop condition sees the running flag cleared: the thread returns.   *)
StopThread ==
    /\ spiPc = "tick"
    /\ running = 0
    /\ spiPc' = "done"
    /\ UNCHANGED <<disc, status, uids, registered, slaveNum, cycle, running,
                   queue, pushed, sent, fromSpi, rxCount, pipe, sem, delivered,
                   evtPc>>

SpiThread == DiscoverSend \/ DiscoverRecv \/ Tick \/ AcquirePermit \/ StopThread

-----------------------------------------------------------------------------
(* The slaves a request for uid is queued for: all present slaves in index *)
(* order for the broadcast UID 0, else the slave found for the UID, if any.*)
Targets(uid) ==
    IF uid = 0 THEN [i \in 1 .. slaveNum |-> i - 1]
    ELSE IF SlaveForUid(uid) = NoSlave THEN <<>> ELSE <<SlaveForUid(uid)>>

(* red_stack_dispatch_to_spi: push one item per target, unknown UIDs are   *)
(* dropped.                                                                 *)
DispatchToSpi(uid) ==
    LET t == Targets(uid)
    IN /\ evtPc = "loop"
       /\ pushed + Len(t) <= MaxPush
       /\ queue' = queue \o [i \in 1 .. Len(t) |-> [slave |-> t[i], id |-> pushed + i]]
       /\ pushed' = pushed + Len(t)
       /\ UNCHANGED <<spiPc, disc, status, uids, registered, slaveNum, cycle,
                      running, sent, fromSpi, rxCount, pipe, sem, delivered, evtPc>>

(* Mutant of DispatchFromSpi: the semaphore is not released.             *)
DispatchFromSpiNoRelease ==
    /\ evtPc = "loop"
    /\ pipe > 0
    /\ pipe' = pipe - 1
    /\ delivered' = Append(delivered, fromSpi)
    /\ UNCHANGED <<spiPc, disc, status, uids, registered, slaveNum, cycle,
                   running, queue, pushed, sent, fromSpi, rxCount, sem, evtPc>>

(* red_stack_dispatch_from_spi: read the pipe byte, hand the staged packet *)
(* to network_dispatch_response, release the semaphore.                    *)
DispatchFromSpi ==
    /\ evtPc = "loop"
    /\ pipe > 0
    /\ pipe' = pipe - 1
    /\ delivered' = Append(delivered, fromSpi)
    /\ sem' = sem + 1
    /\ UNCHANGED <<spiPc, disc, status, uids, registered, slaveNum, cycle,
                   running, queue, pushed, sent, fromSpi, rxCount, evtPc>>

(* red_stack_exit: join the thread only if the running flag is set, then   *)
(* close the SPI device.                                                    *)
Exit ==
    /\ evtPc = "loop"
    /\ IF running # 0 THEN running' = 0 /\ evtPc' = "join"
                      ELSE evtPc' = "exited" /\ UNCHANGED running
    /\ UNCHANGED <<spiPc, disc, status, uids, registered, slaveNum, cycle,
                   queue, pushed, sent, fromSpi, rxCount, pipe, sem, delivered>>

(* thread_join returns once the SPI thread has returned.                   *)
Join ==
    /\ evtPc = "join"
    /\ spiPc = "done"
    /\ evtPc' = "exited"
    /\ UNCHANGED <<spiPc, disc, status, uids, registered, slaveNum, cycle,
                   running, queue, pushed, sent, fromSpi, rxCount, pipe, sem,
                   delivered>>

EventThread == (\E u \in {0} \cup Uid : DispatchToSpi(u)) \/ DispatchFromSpi
                 \/ Exit \/ Join

Next == SpiThread \/ EventThread

Spec == Init /\ [][Next]_vars

(* The SPI thread is a dedicated thread that always runs; the event loop   *)
(* always serves a readable pipe; thread_join returns when the thread has  *)
(* ended.  Requests and red_stack_exit come from outside: no fairness.      *)
FairSpec == Spec /\ WF_vars(SpiThread) /\ WF_vars(DispatchFromSpi) /\ WF_vars(Join)

-----------------------------------------------------------------------------
TypeOK ==
    /\ spiPc \in {"discover", "tick", "wait", "done"}
    /\ disc \in [addr : Slots, phase : {"send", "recv"}, tries : 0 .. RoutingTries - 1]
    /\ status \in [Slots -> Status]
    /\ uids \in [Slots -> SUBSET Uid]
    /\ registered \in SUBSET Uid
    /\ slaveNum \in 0 .. MaxSlaves
    /\ cycle \in Slots
    /\ running \in {0, 1}
    /\ queue \in Seq([slave : Slots, id : 1 .. MaxPush])
    /\ pushed \in 0 .. MaxPush
    /\ sent \in Seq(1 .. MaxPush)
    /\ fromSpi \in 0 .. MaxRx
    /\ rxCount \in 0 .. MaxRx
    /\ pipe \in Nat
    /\ sem \in Nat
    /\ delivered \in Seq(0 .. MaxRx)
    /\ evtPc \in {"loop", "join", "exited"}

-----------------------------------------------------------------------------
(* Discovery leaves a contiguous prefix: once the SPI thread has left       *)
(* red_stack_spi_create_routing_table, exactly the slots below slave_num   *)
(* are present, and every queued work item targets one of them.  A status  *)
(* update of the polling loop (transceive) or a request routed by          *)
(* red_stack_dispatch_to_spi must never bring a slot above slave_num back. *)
StackPrefix ==
    spiPc # "discover" =>
        /\ \A s \in Slots : s < slaveNum <=> status[s] # ABSENT
        /\ \A i \in 1 .. Len(queue) : queue[i].slave < slaveNum

(* Discovery leaves the host's routing table and the slave table in step:  *)
(* once red_stack_spi_create_routing_table has returned, the UIDs given to *)
(* stack_add_uid are exactly the UIDs of the slaves below slave_num, so    *)
(* red_stack_spi_get_slave_for_uid, which scans those slaves, finds every  *)
(* UID the host routes to this stack and no slave holds a UID the host     *)
(* does not know.  A slot whose enumerate exchange fails after its retries *)
(* must not leave UIDs behind or lose those of the slots before it.        *)
RoutingTableExact ==
    spiPc # "discover" => registered = UNION {uids[s] : s \in 0 .. slaveNum - 1}

(* The packet hand-off between the SPI thread and the event thread: the    *)
(* event thread gives every packet the SPI thread received to              *)
(* network_dispatch_response exactly once and in the order received (no   *)
(* packet_from_spi overwritten or zeroed before it was dispatched), and at *)
(* most one received packet is waiting to be dispatched.                   *)
HandOff ==
    /\ delivered = [i \in 1 .. Len(delivered) |-> i]
    /\ rxCount \in {Len(delivered), Len(delivered) + 1}

(* The outbound queue loses, duplicates and reorders nothing: the items    *)
(* pushed by red_stack_dispatch_to_spi go out on the SPI bus in push       *)
(* order, each once, and the queue holds exactly those not yet out.  The   *)
(* polling loop pops on the DATA_SEND bit of the transceive result, so     *)
(* the bit must be set exactly when the payload really was transferred     *)
(* (not on a poll-only frame to a busy slave, not on a failed ioctl).      *)
SentInOrder ==
    /\ sent = [i \in 1 .. Len(sent) |-> i]
    /\ Len(sent) + Len(queue) = pushed
    /\ \A i \in 1 .. Len(queue) : queue[i].id = Len(sent) + i

(* While the event loop runs, a polling loop parked on the hand-off        *)
(* semaphore is eventually released: red_stack_dispatch_from_spi always    *)
(* releases what red_stack_spi_thread acquires.                            *)
EngineReleased ==
    (spiPc = "wait" /\ evtPc = "loop") ~> (spiPc # "wait" \/ evtPc # "loop")

(* Spec 4.3/5: the event thread must not see the slave table before       *)
(* discovery has completed; every UID the stack index routes to this       *)
(* stack (stack_add_uid) is found by red_stack_spi_get_slave_for_uid.      *)
RoutingComplete == \A u \in registered : SlaveForUid(u) # NoSlave

(* Spec 5/8: after red_stack_exit has returned no thread executes engine   *)
(* code: the SPI thread has returned.                                       *)
ExitStopsThread == evtPc = "exited" => spiPc = "done"

(* Spec 5: shutdown completes: red_stack_exit, once it has cleared the     *)
(* running flag, returns from thread_join.                                  *)
ShutdownCompletes == evtPc = "join" ~> evtPc = "exited"

(* Spec 4.1, 4.2, 4.5: a properly framed empty answer (length 4) parses as *)
(* Ok and its busy bit updates the slave's status, so a busy slave that    *)
(* goes on answering, and eventually answers "not busy", gets its queued   *)
(* request: while the polling loop runs, every pushed request eventually   *)
(* goes out on the bus.                                                     *)
QueuedRequestSent ==
    \A n \in 1 .. MaxPush :
        (pushed >= n /\ running = 1) ~> (Len(sent) >= n \/ running = 0)

-----------------------------------------------------------------------------
(* The refinement mapping to the outbound channel of spec 4.6: the pending *)
(* items are the queue, the carried ids are the ids the bus carried, and   *)
(* the count of accepted items is the count of pushes.                     *)
Chan == INSTANCE RequestChannel
            WITH Slot <- Slots, MaxReq <- MaxPush,
                 pending <- queue, carried <- sent, count <- pushed

(* The queue and the polling loop implement the FIFO channel (proved in   *)
(* RedStackChannelProofs, ImplementsChannelCorrect): every step of          *)
(* red_stack_dispatch_to_spi accepts a batch, every tick either carries    *)
(* the head of the queue (DATA_SEND and pop) or leaves queue and bus      *)
(* alone, and no other step touches them.                                   *)
ImplementsChannel == Chan!ChanSpec

(* The refinement mapping to the one-packet hand-off of spec C7: the       *)
(* buffer holds packet_from_spi while a received packet is not yet         *)
(* dispatched, the staged count is rxCount, the dispatched packets are     *)
(* those given to network_dispatch_response.                               *)
Hand == INSTANCE PacketHandOff
            WITH slot <- IF rxCount > Len(delivered) THEN <<fromSpi>> ELSE <<>>,
                 received <- rxCount, dispatched <- delivered

(* packet_from_spi, the notification pipe and the semaphore implement the  *)
(* one-packet buffer: a tick stages a packet only once the previous one   *)
(* was dispatched (the SPI thread is parked on semaphore_acquire until     *)
(* red_stack_dispatch_from_spi releases it), the memset at the top of the  *)
(* polling loop never clears a staged packet, and each dispatch delivers   *)
(* the staged packet once.  This holds whether or not pipe_write succeeds  *)
(* (proved in RedStackChannelProofs, ImplementsHandOffCorrect).            *)
ImplementsHandOff == Hand!HandSpec
=============================================================================
