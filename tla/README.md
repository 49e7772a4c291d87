# TLA+ models of the RED Brick SPI stack (brickd)

This directory holds TLA+ models of `src/src/brickd/red_stack.c`, the
RED Brick's SPI stack subsystem, and of `src/src/brickd/red_extension.c`,
the start-up detection of its extensions. It also holds TLC configurations that
model-check those models on small instances, and TLAPS proofs of their main
invariants for every value of the constants.

## 1. The system

`red_stack.c` couples two threads.

* **The SPI thread** (`red_stack_spi_thread`, lines 437-528) runs in two
  stages.
  * First it runs discovery (`red_stack_spi_create_routing_table`, lines
    350-430). For slot 0, 1, ... it tries up to `RED_STACK_SPI_ROUTING_TRIES`
    times to send a `STACK_ENUMERATE` request, then up to as many times to
    poll for the answer. When either phase runs out of tries, the slot is
    marked ABSENT and the scan stops. The UIDs of the answer are copied into
    the slot and registered with the daemon's stack index (`stack_add_uid`).
    `slave_num` is published at the end of the scan.
  * Then, if any slave was found, it sets `_red_stack_spi_thread_running` and
    enters the polling loop. Each tick does four things:
    1. It peeks the outbound queue under its mutex.
    2. It exchanges one 84-byte frame (`red_stack_spi_transceive_message`,
       lines 230-346). The partner is the queued item's slave, or else the
       round-robin slave.
    3. It pops the item when the exchange reports `DATA_SEND`.
    4. On `DATA_RECEIVED` it writes a notification byte into a pipe and
       blocks on a semaphore.
* **The event thread** (the daemon's event loop) runs three callbacks.
  * `red_stack_dispatch_to_spi` (lines 634-677) pushes work items: one per
    present slave for UID 0, or one for the slave found by
    `red_stack_spi_get_slave_for_uid`. An unknown UID is dropped.
  * `red_stack_dispatch_from_spi` (lines 616-631) runs when the pipe is
    readable. It reads the byte, hands `packet_from_spi` to the network
    layer and releases the semaphore.
  * `red_stack_exit` (lines 743-754) clears the running flag, joins the
    thread and closes the device.

The transceiver decides what happens to a request and to the slave's status:
* It sends a poll-only frame when there is no request or the slave is
  AVAILABLE_BUSY.
* It reports a send error when the slave is not AVAILABLE.
* A failed ioctl overrides everything.
* An answer is accepted only when the preamble is 0xAA, the length is in
  12..84 and the Pearson checksum matches. The busy bit of an accepted answer
  sets the slave's status.

Before either thread exists, `red_stack_init` (lines 679-741) runs on the
main thread. It creates the base stack, registers it with the hardware, and
creates the notification pipe and its event source. It then calls
`red_stack_init_spi` (lines 537-613), which creates the queue, maps the
GPIOs, opens and configures spidev, creates the semaphore and the mutex,
and starts the SPI thread. A local `phase` records how far it got, and a
fall-through `switch` on it undoes the steps on failure.

`red_extension.c` is the start-up detection of the two extension slots. It
reads each slot's I2C EEPROM, the type of extension and the RS485 or Ethernet
configuration, then muxes the pins and initialises the extension.

### Inventory

| Part | Source | State | Operations | Module |
|---|---|---|---|---|
| C1 frame codec | red_stack.c 56-74, 188-198, 235-342 | tx/rx buffers | build, Pearson hash, parse | RedStackFrame `BuildTx`, `PearsonHash`, `ParseRx` |
| C2 transceiver | red_stack.c 230-346 | slave status | one exchange | RedStackSpi `Exchange` (abstract), RedStackFrame `Transceive` (bytes) |
| C3 slave table | red_stack.c 114-136, 201-213 | status, uids, slave_num | lookup by UID | RedStackSpi |
| C4 discovery | red_stack.c 350-430 | slot, tries, phase | send try, receive try | RedStackSpi `DiscoverSend`, `DiscoverRecv` |
| C5 polling engine | red_stack.c 437-528 | cursor, running flag | tick, semaphore wait, stop | RedStackSpi `Tick`, `AcquirePermit`, `StopThread` |
| C6 outbound queue | red_stack.c 462-493, 634-677 | FIFO of (slave, packet) | push, peek, pop | RedStackSpi `queue` |
| C7 inbound hand-off | red_stack.c 176-186, 497-504, 616-631 | packet_from_spi, pipe, semaphore | stage, dispatch, release | RedStackSpi `Tick`, `DispatchFromSpi`, `AcquirePermit`; PacketHandOff (abstract) |
| C8 glue and shutdown | red_stack.c 634-677, 743-754 | | dispatch_to_spi, exit | RedStackSpi `DispatchToSpi`, `Exit`, `Join` |
| start-up | red_stack.c 537-613, 679-741 | phase, acquired resources | init, rollback | RedStackInit `CallSucceeds`, `CallFails`, `Cleanup`; RedStackLifecycle |
| extensions | red_extension.c 122-349 | base_config, extension types, open EEPROMs | detect, configure, exit | RedExtension `Detect`, `Configure`, `Exit` |

## 2. Modules

* **RedStackSpi.tla** models both threads of `red_stack.c` in one module.
  * `spiPc` is where the SPI thread is:
    * `"discover"`: in `red_stack_spi_create_routing_table`
    * `"tick"`: at the top of the polling loop
    * `"wait"`: in `semaphore_acquire`, line 503
    * `"done"`: returned
  * `disc` holds the discovery loop's `stack_address`, its phase and its
    `tries` counter.
  * The slave table is `status`, `uids` and `slaveNum`. The stack index's
    view of the UIDs is `registered`.
  * `cycle` is `stack_address_cycle`, and `running` is
    `_red_stack_spi_thread_running`.
  * The queue is a sequence of items `[slave, id]`. The number `id` numbers
    requests in push order, `pushed` counts the pushes, and `sent` records the
    ids the bus carried.
  * The hand-off is `fromSpi`, the number of the packet in `packet_from_spi`
    (0 after the memset). `rxCount` counts received packets. `pipe` is the
    number of unread notification bytes and `sem` the semaphore count.
    `delivered` records what `network_dispatch_response` was given.
  * `evtPc` is the event thread inside `red_stack_exit`:
    * `"loop"`: not yet called
    * `"join"`: in `thread_join`
    * `"exited"`: returned
  * A frame from a slave is abstracted to `[pre, len, crcOk, busy]`:
    preamble, length byte, checksum match and busy bit. The boundary values
    of the length check are all present (4, 11, 12, 84, 85). The ioctl's
    success is a Boolean `io`.
  * `pipe_write` can fail: `StageReceived` picks its outcome from the
    constant `PipeWrites` (`{TRUE}` in the passing runs, `{TRUE, FALSE}` in
    `pipe_write_fails`).
  * `TickOn(frames, ios)` is one tick against answers from `frames` and
    ioctl outcomes from `ios`; `Tick` is `TickOn(Frame, BOOLEAN)`. The
    parameters let a run state fairness on one particular answer of the
    slave.
  * Actions, one per handler step:
    * SPI thread: `DiscoverSend`, `DiscoverRecv`, `Tick`, `AcquirePermit`,
      `StopThread`
    * event thread: `DispatchToSpi(uid)`, `DispatchFromSpi`, `Exit`, `Join`
  * Each critical section of the queue mutex lies inside one step, which is
    exactly what the mutex guarantees.
* **MC_RedStackSpi.tla** is the TLC instance. It has 3 slots and 2 tries per
  phase. The enumerate responses are `<<1,2>>`, `<<3,0>>` and `<<0,4>>`:
  slot 2 has no UID, and UID 4 is never found.
  It also defines `MCBusyFrames` (a full busy frame and a correctly framed
  empty not-busy frame) and `BusySlaveSpec` for the busy-slave run.
* **RedStackSpiProofs.tla**, **RedStackChannelProofs.tla**,
  **RedStackPrefixProofs.tla**, **RedStackInitProofs.tla**,
  **RedStackLifecycleProofs.tla** and **RedExtensionProofs.tla** hold the
  TLAPS proofs (section 4).
* **RequestChannel.tla** is the abstract specification of the outbound
  path (spec 4.6, 4.8). `pending` holds accepted items `[slave, id]`,
  `carried` the ids the bus carried, `count` the number accepted. `Accept`
  takes a batch of items numbered after the earlier ones (a broadcast is one
  batch) and `Carry` moves the oldest pending item to the bus. At the end of
  RedStackSpi, `Chan == INSTANCE RequestChannel WITH Slot <- Slots,
  MaxReq <- MaxPush, pending <- queue, carried <- sent, count <- pushed`
  is the refinement mapping and `ImplementsChannel == Chan!ChanSpec` the
  refinement, proved by TLAPS (section 4). `DispatchToSpi` is an `Accept`,
  a tick that pops is a `Carry`, and every other step is a stutter of the
  channel. The mapping is close to the identity, so the refinement says
  little beyond `SentInOrder`: no run checks it separately.
* **PacketHandOff.tla** is the abstract specification of the inbound
  hand-off (spec 3, C7): a one-place buffer `slot` that the engine fills
  (`Stage`, packet `received + 1`) only while it is empty, and that the
  event loop empties into `dispatched` (`Dispatch`). At the end of
  RedStackSpi, `Hand == INSTANCE PacketHandOff WITH slot <- IF rxCount >
  Len(delivered) THEN <<fromSpi>> ELSE <<>>, received <- rxCount,
  dispatched <- delivered` is the refinement mapping and `ImplementsHandOff
  == Hand!HandSpec` the refinement, proved by TLAPS (section 4). A tick
  that stages a packet is a `Stage`, `DispatchFromSpi` a `Dispatch`, and
  everything else, the pipe byte and the semaphore permit included, is a
  stutter of the buffer. Under the mapping the buffer is full exactly when
  `HandOff` says a packet is staged, so no run checks it separately.
* **RedStackFrame.tla** models the codec and one transceiver call at the
  level of bytes (TLC only: it uses `Bitwise` and `RECURSIVE`).
  * `PearsonPermutation` is the table verbatim, `PearsonStep` the
    `PEARSON` macro tabulated once, and `PearsonLoop`/`PearsonHash`
    `red_stack_spi_calculate_pearson_hash`. The loop's steps run in their
    order, but the recursion splits the index range in halves so that TLC's
    stack stays shallow.
  * `BuildTx` is the send half (poll-only frame, request frame, or
    `SEND_ERROR` with no transfer), `TxFrame` the 84-byte buffer it
    fills, `ParseRx` the goto chain of the receive half, `BusyBit` the
    info-byte test and `RecvPayload` the copy into `packet_recv`.
  * `Transceive(req, a, io)` is the whole call. The state it leaves is
    `slaveStatus`, `tx` (the buffer given to the ioctl, `<<>>` if the call
    returned first), `retval` with the code's bit values, `packetRecv` and
    the history variable `lastCall`.
  * The inputs: requests whose `header.length` is in `ReqLengths`, and
    slave answers built by `SlaveFrame` from an abstract frame of
    RedStackSpi and an info byte. Idle and garbage preambles are included,
    as are 0xAA frames of every length in `RxLengths`, with a right or a
    wrong checksum. `Pearson8` is the spec's definition of the checksum, written
    from the table and XOR alone, independently of `PearsonLoop`.
  * `Spi == INSTANCE RedStackSpi WITH ...` gives one slave at address 0
    whose status is `slaveStatus`, so that `Spi!Exchange` can be compared
    with the bytes.
* **RedStackInit.tla** models `red_stack_init` and
  `red_stack_init_spi` (lines 537-613, 679-741). They run on the main
  thread before the event loop, so the model is one sequential process.
  * `Calls` lists the calls in code order. Each entry gives the resource
    the call leaves, the value of `phase` after it (field `after`, so that
    the provers never confuse it with the variable), and whether the code
    tests its result (`mutex_create` and `thread_create` are not tested).
  * `initPc` is `"call"`, `"cleanup"`, `"ok"` or `"failed"`. `step`
    indexes `Calls`, `phase` is the local `phase`, and `held` is the set of
    resources acquired and not undone.
  * `CallSucceeds` and `CallFails` make the next call. A call can fail only
    when it is in the constant `Failing` (all tested calls in the runs).
    `Cleanup` is the fall-through switch: `Undo(p)` removes the event
    source, the pipe and the stack for `p` = 3, 2, 1.
* **RedStackLifecycle.tla** composes RedStackInit with both threads of
  RedStackSpi.
  * `StartUp` is a step of `red_stack_init`.
  * `SpiRuns` lets the SPI thread step once `"thread"` is held.
  * `EventRuns` lets the event loop's callbacks run once `red_stack_init`
    returned 0.
  * `ExitCloses` and `JoinCloses` add the `close` of the spidev
    descriptor to `red_stack_exit`.
  * `MC_RedStackLifecycle.tla` instantiates it with 2 slots, 2 pushes and 1
    received packet.
* **RedExtension.tla** models `red_extension_init` and `red_extension_exit`.
  * `pc` is the loop the function is in: `"detect"` (first loop, line
    234), `"configure"` (second loop, line 295), `"running"`, `"exited"` or
    `"failed"` (the `return -1` at line 242). `i` is the loop index.
  * `eeprom[p]` is the content of position p's EEPROM, fixed in `Init` to any
    of a small set: whether the type word can be read, the type (NONE,
    CHIBI, RS485, WIFI, ETHERNET or an unknown value), and for RS485 the
    step at which a configuration read fails, the address, the baud rate
    and how many slave addresses are listed before a zero word.
  * `baseType[p]` is `base_config[p].type`: the local array is not
    initialised, so it starts as the model value `Unset`. `cfgRead[p]` says
    whether the configuration reader returned 0; `slaveNum[p]` is the
    `slave_num` it left. `opened` is the set of positions whose EEPROM is
    open, `initCalled` the positions passed to an extension's init, and
    `extType` is `_red_extension_type`.
  * `ReadRs485Config` is the outcome of `red_extension_read_rs485_config`:
    the reads in their order, the baud-rate check, `slave_num` written only
    in master mode, and the slave loop bounded by
    `EXTENSION_RS485_SLAVES_MAX`.
  * Actions: `Detect` (one iteration of the first loop), `Configure` (one
    iteration of the second), `Exit`.
  * `MC_RedExtension.tla` instantiates it with 2 positions and 2 slaves at
    most.

## 3. Runs

| Run | cfg | Expect | What it shows |
|---|---|---|---|
| core | MC_RedStackSpi.cfg | pass | `TypeOK`, `StackPrefix`, `RoutingTableExact`, `HandOff`, `SentInOrder`, `EngineReleased` |
| routing_race | MC_RoutingRace.cfg | violation | `RoutingComplete`: a registered UID is not found while discovery runs |
| exit_during_discovery | MC_ExitDuringDiscovery.cfg | violation | `ExitStopsThread`: exit during discovery does not stop the thread |
| exit_join_deadlock | MC_ExitJoinDeadlock.cfg | violation | `ShutdownCompletes`: join waits for a thread that waits for the joiner |
| busy_slave | MC_BusySlave.cfg | violation | `QueuedRequestSent`: a busy slave that answers not-busy with empty frames blocks the queue |
| pipe_write_fails | MC_PipeWriteFails.cfg | violation | `EngineReleased`: a failed notification write parks the polling loop forever |
| extension | MC_RedExtension.cfg | pass | `ExtTypeOK`, `ConfiguredFromEeprom` |
| ext_ignored_config | MC_ExtIgnoredConfig.cfg | violation | `InitOnlyWithConfig`: an extension whose configuration read failed is initialised |
| ext_eeprom_leak | MC_ExtEepromLeak.cfg | violation | `EepromReleased`: continue paths leave the EEPROM open |
| lifecycle | MC_RedStackLifecycle.cfg | pass | `InitTypeOK`, `CallbacksReleased`, `ThreadUsesLiveResources` |
| init_rollback | MC_InitRollback.cfg | violation | `RollbackExact`: a failed start-up leaves resources behind or undoes one it never acquired |
| frame | MC_RedStackFrame.cfg | pass | `FrameTypeOK`, `EmittedWellFormed`, `MatchesExchange` |

The properties of the core run:

* `StackPrefix` holds once discovery is over:
  * exactly the slots below `slave_num` are present;
  * every queued item targets one of them.

  It is broken by a wrong wrap-around of the cursor, or by a status update
  that revives a slot.
* `RoutingTableExact`: once discovery is over, the set of registered UIDs
  is exactly the union of the UIDs of the slots below `slave_num`. It is
  broken if discovery ends with `slave_num` one short of the slot it gave
  up on, which leaves the last slave's UIDs routed to a slot that is never
  polled.
* `HandOff`:
  * `network_dispatch_response` receives packets 1, 2, 3, ...: each received
    packet exactly once and in order, never a zeroed or overwritten buffer;
  * at most one received packet is undelivered.
* `SentInOrder`: the bus carries the pushed requests in push order, each
  exactly once, and the queue holds exactly those not yet sent. It is broken
  by a pop without a send (a poll-only frame to a busy slave, a send error, a
  failed ioctl) or by a send without a pop.
* `EngineReleased` (liveness): while the event loop runs, a polling loop
  parked on the semaphore is released.

The properties of the lifecycle run:

* `CallbacksReleased`: after `red_stack_init` returned -1, whichever tested
  call failed, the fall-through cleanup switch has removed the event source
  and destroyed the pipe and the stack object. It is broken if a case
  undoes only its own resource. It does not mean that nothing can call back
  into the stack: the stack stays in the hardware stack array (line 696),
  which `RollbackExact` reports. The SPI thread is not part of it:
  `thread_create` is the last call and is untested, so a failed start-up
  never has one.
* `ThreadUsesLiveResources` (action property): every step of the SPI
  thread happens while the queue, its mutex, the semaphore and the pipe
  exist. It is broken if the thread could run before `red_stack_init_spi`
  created them, as it would if `thread_create` came earlier. The spidev
  descriptor is not among the four: `red_stack_exit` closes it while the
  thread may still run, which `exit_during_discovery` shows.

The properties of the frame run:

* `FrameTypeOK` includes that `packet_recv` never receives more than
  `sizeof(Packet)` = 80 bytes.
* `EmittedWellFormed` (spec 8): every frame the master clocks out starts
  with 0xAA. Its length byte is in [4, 84], its info byte is 0, and its
  last byte is the Pearson-8 checksum of the bytes before it. It is broken
  without the `length > sizeof(Packet)` test at line 252: `length + 4` then
  leaves the buffer.
* `MatchesExchange` (action property): for every request that fits a
  `Packet`, each byte-level call agrees with `Spi!Exchange` on the
  abstract frame the slave sent. The `DATA_SEND` and `DATA_RECEIVED` bits
  agree, as do the slave's new status and whether the payload went out.
  `packet_recv` holds the slave's payload exactly when `DATA_RECEIVED` is
  set. This is what makes the frame abstraction of all the other runs
  sound. It is broken by testing the info byte with `==` instead of `&`.

The properties of the extension run:

* `ConfiguredFromEeprom`: `_red_extension_type[p]` is set only to the type
  position p's own EEPROM reports, and only after its init was called. It
  is broken if `base_config[i].type` is not reset to NONE before the reads
  (line 239): an unreadable EEPROM would configure from stack garbage.

The violation runs check one property each. They are the findings of
`PROJECT.json`:

* `RoutingComplete`: UIDs are registered (line 414) before `slave_num` is
  published (line 426).
* `ExitStopsThread`: `red_stack_exit` tests the running flag (line 744),
  which the thread sets only after discovery (line 452). An exit during
  discovery skips the join and closes the SPI descriptor (line 750) while
  the thread is still discovering.
* `ShutdownCompletes`: `thread_join` (line 746) can wait for a thread in
  `semaphore_acquire` (line 503).
* `QueuedRequestSent` (liveness: a pushed request is sent while the loop
  runs): the length check at line 310 rejects length-4 frames before the
  busy bit is read, so a slave in AVAILABLE_BUSY that answers with correct
  empty frames is never AVAILABLE again. The run `busy_slave` restricts the
  slave's answers to `MCBusyFrames` and assumes it answers the empty frame
  infinitely often (strong fairness on `TickOn({EmptyFree}, {TRUE})`). The
  counterexample is a loop of ticks that change nothing. In the spec (4.1,
  4.2) the empty frame is the normal not-busy answer.
* `EngineReleased` under `PipeWrites = {TRUE, FALSE}`: the result of
  `red_stack_spi_request_dispatch_response_event` is ignored (line 500), so
  after a failed `pipe_write` the thread waits on a semaphore that nobody
  will release.
* `InitOnlyWithConfig`: after a failed configuration read the loop
  continues (lines 276, 287) with `base_config[i].type` still RS485 or
  ETHERNET, and the second loop initialises the extension with it.
* `EepromReleased`: the continue paths at lines 250, 261 and 266 and the
  return at 242 skip `i2c_eeprom_release`.
* `RollbackExact` (spec 7: a start-up failure cleans up what was acquired
  so far) fails in three ways:
  * the cleanup never removes the base stack that `hardware_add_stack`
    registered (line 696);
  * `red_stack_init_spi` returns -1 without undoing its own queue, GPIO
    mapping, descriptor (line 575) or semaphore;
  * `phase = 3` is set before `event_add_source` (line 709), so when that
    call fails, case 3 removes a source that was never added.

### Bounds

Each bound is set so that the case it guards happens:

* **3 slots.** Discovery can stop early, stop in the middle or fill the
  table, and a broadcast goes to two slaves.
* **2 tries.** Both a retry and a give-up happen.
* **`MaxPush = 3`.** Up to three requests are pushed, so a broadcast plus a
  unicast fit, and the queue holds several items in every order.
* **`MaxRx = 2`.** Two packets are received, so the second hand-off follows
  a completed first one.
* **Frame lengths.** They include both sides of both bounds of the length
  check.

* **Extensions: 2 positions, `SlavesMax = 2`.** Both loops run more than
  once, and an EEPROM can list fewer than, exactly or more than the maximum
  number of slaves.

* **Lifecycle: 2 slots, 2 pushes, 1 received packet, every tested call
  may fail.** Each failure point, and success followed by both threads,
  happen.
* **Frame: `ReqLengths = {8, 80, 81}`, `RxLengths = {4, 11, 12, 84, 85}`,
  `RxInfos = {0, 1, 2, 3}`.** These are the shortest packet, the longest
  packet (an 84-byte frame) and one byte over it. The slave lengths lie on
  both sides of both bounds of the receive check. The info bytes have the
  busy bit set and clear, with and without another bit.

The core run reaches 50,736 distinct states, the extension run 124,758,
the lifecycle run 3,291 and the frame run 317.

### Fairness

`FairSpec` adds weak fairness on the SPI thread, on `DispatchFromSpi` and on
`Join`:

* The SPI thread is a dedicated thread that never waits on anything but the
  semaphore and its deadline sleep.
* The event loop serves a readable pipe: the pipe is an event source, and the
  loop is single-threaded and never blocks elsewhere, except in `red_stack_exit`.
* `thread_join` returns once the thread has returned.

Requests and `red_stack_exit` come from outside, so they get no fairness.
`LifeFairSpec` adds weak fairness on `StartUp`: the main thread runs
`red_stack_init` to its end.
Deadlock is not checked because the daemon legitimately stops: after
`red_stack_exit`, or when no request arrives.

## 4. Proofs

`RedStackSpiProofs.tla` proves two theorems for all values of the constants.
The assumptions are `MaxSlaves > 0`, `RoutingTries > 0`, `0 \notin Uid`,
enumerate responses that are sequences of UIDs and zeros, and natural bounds.

* `TypeCorrect`: `Spec => []TypeOK`. There is one lemma per action, plus
  lemmas on the helpers: `EnumUids`, `SlaveForUid`, `NextCycle`, `Targets`,
  the new queue items, and the exchange's result.
* `HandOffCorrect`: `Spec => []HandOff`, whether or not `pipe_write`
  succeeds. A failed write stops the hand-off (the run `pipe_write_fails`
  shows the loop parked for ever), but it never delivers a packet twice or
  out of order. `HandOff` is not inductive.
  * It says nothing about `pipe` and `sem`. A state with a notification byte
    in the pipe and also a permit on the semaphore satisfies it, and the next
    dispatch would deliver a packet twice.
  * The strengthening `HandOffInv` adds `TypeOK` and pins the hand-off to one
    of three phases:
    1. nothing in flight (`pipe = sem = 0`, `rxCount = Len(delivered)`);
    2. packet staged (`fromSpi = rxCount = Len(delivered) + 1`, the SPI
       thread waiting, `sem = 0`), with the byte in the pipe (`pipe = 1`)
       or lost to a failed `pipe_write` (`pipe = 0`);
    3. packet taken and permit released (`sem = 1`, the SPI thread still
       waiting).
  * TLC checked `HandOffInv` as an invariant of the core instance before the
    proof was written.
  * The proof has one case per action. `DispatchFromSpi` moves phase 2 to
    phase 3 using the lemma `AppendNext` on `Append`. `Tick` moves 1 to 2,
    `AcquirePermit` moves 3 to 1, and every other action leaves the hand-off
    variables alone.

`RedStackChannelProofs.tla` proves three more:

* `ImplementsChannelCorrect`: `Spec => ImplementsChannel`. The initial
  states map to `ChanInit`. `DispatchToSpi` is an `Accept` (lemma
  `DispatchToSpiAccepts`), and a tick either pops the head (a `Carry`) or
  leaves the queue alone (lemma `TickCarriesOrStutters`). Every other action
  leaves `queue`, `sent` and `pushed` unchanged.
* `SentInOrderCorrect`: `Spec => []SentInOrder`. `SentInOrder` is
  inductive together with `TypeOK`. `DispatchToSpiKeepsOrder` shows that
  the new items continue the numbering, and `CarryKeepsOrder` that a pop
  moves the head to the end of `sent`.
* `ImplementsHandOffCorrect`: `Spec => ImplementsHandOff`. It rests on
  `HandOffInv` (above): the mapped `slot` is empty exactly in phases 1 and
  3, so a tick that stages a packet finds the buffer empty and is a
  `Stage`, and `DispatchFromSpi` happens only in phase 2 and is a
  `Dispatch`. The lemma `TickStagesOrClears` says a tick either stages
  packet `rxCount + 1` or leaves `rxCount` alone; `HandOffRefinementStep`
  maps every step of `Next` to a step or a stutter of `HandNext`.

`RedStackInitProofs.tla` proves the start-up alone for every set of
failing calls. The only assumption is `FailingAssumption`: only tested calls
fail.

* `InitTypeCorrect`: `InitSpec => []InitTypeOK`.
* `CallbacksReleasedCorrect`: `InitSpec => []CallbacksReleased`: after a
  failed start-up the event source, the pipe and the stack object are gone.
  The stack's hardware registration is outside it (see `RollbackExact`).
  `CallbacksReleased` is not inductive. A state with `initPc = "cleanup"`,
  `phase = 0` and the pipe held satisfies it, and the cleanup would then
  return -1 with the pipe still registered. The strengthening `InitInv`
  says:
  * each callback resource in `held` is tied to `phase`: the stack to
    `phase >= 1`, the pipe and the event source to `phase >= 3`, the thread
    to `phase = 4`;
  * while calls are made, `phase` is at most the value the next call gives
    it, and every earlier call's resource is held;
  * when the thread is held, so are the queue, the mutex, the semaphore and
    the pipe;
  * after a failed return, `phase` is not 4 and nothing in `Undo(phase)` is
    held.
* TLC checked `InitInv` on the lifecycle instance, and also from every state
  that satisfies it (an `INIT InitInv` run over the typed states), before
  the proof was written.
* The lemmas are:
  * `CallsTable`: the table entry by entry;
  * `CallsFacts`: `phase` never decreases along the table, only
    `thread_create` leaves 4, and each resource is made at or after the case
    that undoes it;
  * `UndoFacts`: what the switch removes for each `phase`;
  * one lemma per action (`CallSucceedsInv`, `CallFailsInv`,
    `CleanupInv`).

`RedStackLifecycleProofs.tla` proves the lifecycle run's three properties
on `LifeSpec`. Because `LifeFairSpec` implies `LifeSpec`, they hold under the
fairness too.

* `LifeInitTypeCorrect` and `LifeCallbacksReleasedCorrect` state
  `InitTypeOK` and `CallbacksReleased` for the composed system.
* `ThreadUsesLiveResourcesCorrect` proves the action property
  `ThreadUsesLiveResources`.
* The invariant `LifeInv` is `InitInv` plus one more fact: the event thread
  has left its loop only if `red_stack_init` returned 0. That fact is needed
  because `thread_join` (`JoinCloses`) has no guard on the start-up. Without
  it, a join during start-up could drop the thread and the descriptor while
  calls are still made.
* A step that changes the SPI thread's variables can only be `SpiRuns`
  (lemma `EventKeepsSpi`). That step needs the thread to be held, and
  `InitInv` then gives the four resources it uses.
* Shutdown removes only the thread and the descriptor (lemma
  `ReleaseKeepsInitInv`).

`RedStackPrefixProofs.tla` proves `StackPrefixCorrect`: `Spec =>
[]StackPrefix`, under the assumptions of `RedStackSpiProofs`.

* `StackPrefix` says nothing while the thread discovers, so it is not
  inductive. `PrefixInv` adds `TypeOK` and two facts:
  * `DiscoveryState`: during discovery `slave_num = 0`, the cursor is 0,
    the queue is empty, and exactly the slots up to `disc.addr` are present;
  * `CycleInRange`: in the polling loop the cursor is below `slave_num`.
* TLC checked `PrefixInv` on the core instance before the proof was
  written.
* The lemma `ExchangeKeepsPresent` carries the argument: a transceive never
  marks a present slave `ABSENT`.
  * A discovery try keeps the slot present, or, on giving up, ends
    discovery with `slave_num` equal to the slot (`RetryOrGiveUpPrefix`).
  * A tick exchanges with the queued item's slave or with the cursor's
    slave, both below `slave_num` (`TickPrefix`).
  * `DispatchToSpi` queues only targets below `slave_num`, and nothing
    during discovery (`DispatchToSpiPrefix`).

It also proves `RoutingTableExactCorrect`: `Spec => []RoutingTableExact`.

* `RoutingTableExact` too says nothing during discovery. `RoutingInv` adds
  `TypeOK` and the discovery half: while the thread discovers,
  `registered` is the union of the UIDs of the slots below `disc.addr`.
  TLC checked `RoutingInv` on the core instance before the proof was
  written.
* The lemma `UnionExtend` says that adding slot `a` to the range adds
  `uids[a]` to the union. A discovery try that registers the slot's UIDs
  moves to the next slot (`DiscoverRecvRouting`), giving up ends discovery
  with `slave_num = disc.addr` (`RetryOrGiveUpRouting`), and no polling step
  changes `registered`, `uids` or `slave_num`.

`RedExtensionProofs.tla` proves two theorems about the extension
detection, for every number of positions and every
`EXTENSION_RS485_SLAVES_MAX`. The assumptions are: both constants are
positive naturals, and `Unset` is not a number.

* `ExtTypeCorrect`: `Spec => []ExtTypeOK`.
* `ConfiguredFromEepromCorrect`: `Spec => []ConfiguredFromEeprom`. This
  property is not inductive, because it says nothing about `base_config`,
  which the second loop copies. The invariant `ExtInv` adds
  `BaseFromEeprom`: `base_config[i].type` holds an RS485 or Ethernet type
  only when that position's EEPROM reported it.
* TLC checked `ExtInv` on the extension instance before the proof was
  written.
* There is one lemma per loop iteration (`DetectInv`, `ConfigureInv`) and
  one for `red_extension_exit`. `EepromFacts` states what an EEPROM can hold.

Out of the prover's reach, and so checked only by TLC:

* The liveness property `EngineReleased` of the core run rests on weak
  fairness and `ENABLED`, which the prover cannot handle.
* That `SlaveForUid` finds every registered UID once discovery is over. The
  lookup is a search for the least matching slot, and its completeness
  needs the least-number principle, which the library states only with an
  operator parameter.
* Everything in `RedStackFrame` (`FrameTypeOK`, `EmittedWellFormed`, and
  `MatchesExchange`, the agreement with `Exchange`). The
  Pearson hash and the frame builder are `RECURSIVE` operators over bytes
  and use `Bitwise`, and a module that reaches either has no SMT backend.
  What a recursive definition computes for every input would also need
  induction over data, which the installed provers cannot instantiate.
* The properties of the violation runs (`RollbackExact`,
  `InitOnlyWithConfig`, `EepromReleased`, and the others in section 3).
  They do not hold, and TLC's counterexamples are the result.

Every safety invariant and action property of the passing runs, outside
`RedStackFrame`, now has a theorem.

## 5. Not modelled

* **Timing.** The 500 us deadline, its normalisation and the 50 ms discovery
  sleeps only change when steps happen, never which steps are possible.
* **Bytes outside the frame.** The GPIO chip-select calls (pure I/O).
  RedStackFrame models one call; the other modules use its abstraction.
* **Memory.** The memory behind `queue_push` and the pointer returned by
  `queue_peek`. `Queue` is not under `src/`, so the model takes items as
  values.
* **Not yet modelled:**
  * the Chibi and WIFI extension types, which the detection loop only
    skips; the RS485 and Ethernet `init` functions themselves (other
    files), of which `Configure` takes only the result, success or failure.
* **Oversized requests.** `Exchange` has no request length, so the
  `SEND_ERROR` path at line 252 is not in the core model. There, a request
  longer than `sizeof(Packet)` is never popped and is retried on every tick,
  blocking the queue, while spec 7 says it is dropped. Whether such a
  request can reach `red_stack_dispatch_to_spi` depends on brickd's network
  layer, which is not under `src/`. `RedStackFrame` checks the length test
  itself.
* **The slave address loop** of `red_extension_read_rs485_config` is taken
  in closed form (the number of listed words, capped at
  `EXTENSION_RS485_SLAVES_MAX`), so its bound is not checked.
* **Pipe read failure.** When `pipe_read` fails in
  `red_stack_dispatch_from_spi`, the byte stays in the pipe and the event
  loop calls the handler again, so the failure only delays the hand-off.

## 6. Plan

1. The outbound queue's own implementation (`queue_push`, `queue_peek`,
   `queue_pop`) lives outside `src/`; a model of it from the spec would let
   the stale pointer returned by `queue_peek` (red_stack.c 463) be checked.
