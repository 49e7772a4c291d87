---------------------------- MODULE RedStackFrame ----------------------------
(***************************************************************************)
(* The frame codec and the transceiver of red_stack.c at the level of      *)
(* bytes: red_stack_spi_calculate_pearson_hash and                          *)
(* red_stack_spi_transceive_message, which builds the 84-byte TX frame,    *)
(* clocks it out while the slave clocks in the RX frame, and parses the RX *)
(* frame.  A state is what one call leaves: the slave's status, the frame  *)
(* that went out (<<>> when the call returned before the transfer), the   *)
(* return value and the bytes copied into packet_recv.  RedStackSpi        *)
(* abstracts the same call to Exchange over frames [pre, len, crcOk,       *)
(* busy]; this module checks that abstraction against the bytes.           *)
(* Bytes are 0 .. 255; TLA+ index i is C index i - 1.                      *)
(***************************************************************************)
EXTENDS Naturals, Sequences, Bitwise

CONSTANTS
    ReqLengths,  \* header.length values of the packets handed to the call
    RxLengths,   \* length bytes of the frames the slave clocks in
    RxInfos      \* info bytes of those frames

VARIABLES
    slaveStatus, \* slave->status
    tx,          \* the tx buffer given to the ioctl, <<>> if none was
    retval,      \* the return value of the last call
    packetRecv,  \* the bytes copied into packet_recv (header.length 0: <<>>)
    lastCall     \* history: the arguments of the last call

frameVars == <<slaveStatus, tx, retval, packetRecv, lastCall>>

(* The abstract transceiver, for one slave at address 0.                  *)
Spi == INSTANCE RedStackSpi WITH
    MaxSlaves <- 1, RoutingTries <- 1, Uid <- {1},
    EnumResponse <- [s \in {0} |-> <<>>], MaxPush <- 0, MaxRx <- 0,
    PipeWrites <- {TRUE},
    status <- [s \in {0} |-> slaveStatus],
    spiPc <- "tick", disc <- [addr |-> 0, phase |-> "send", tries |-> 0],
    uids <- [s \in {0} |-> {}], registered <- {}, slaveNum <- 1, cycle <- 0,
    running <- TRUE, queue <- <<>>, pushed <- 0, sent <- <<>>, fromSpi <- 0,
    rxCount <- 0, pipe <- 0, sem <- 0, delivered <- <<>>, evtPc <- "loop"

PacketSize == Spi!PacketSize
EmptySize == Spi!EmptySize
HeaderSize == Spi!HeaderSize
PreambleValue == Spi!PreambleValue
AVAILABLE == Spi!AVAILABLE
BUSY == Spi!BUSY
PacketMax == 80          \* sizeof(Packet)
InfoBusy == 1            \* RED_STACK_SPI_INFO_BUSY

\* RED_STACK_TRANSCEIVE_* bits
DataSend == 256
DataReceived == 128
SendError == 1
SendNone == 3
SendOk == 4
ReadError == 8
ReadNone == 16
ReadOk == 24

(* _red_stack_spi_pearson_permutation, verbatim.                           *)
PearsonPermutation == <<
    1, 87, 49, 12, 176, 178, 102, 166, 121, 193, 6, 84, 249, 230, 44, 163,
    14, 197, 213, 181, 161, 85, 218, 80, 64, 239, 24, 226, 236, 142, 38, 200,
    110, 177, 104, 103, 141, 253, 255, 50, 77, 101, 81, 18, 45, 96, 31, 222,
    25, 107, 190, 70, 86, 237, 240, 34, 72, 242, 20, 214, 244, 227, 149, 235,
    97, 234, 57, 22, 60, 250, 82, 175, 208, 5, 127, 199, 111, 62, 135, 248,
    174, 169, 211, 58, 66, 154, 106, 195, 245, 171, 17, 187, 182, 179, 0, 243,
    132, 56, 148, 75, 128, 133, 158, 100, 130, 126, 91, 13, 153, 246, 216, 219,
    119, 68, 223, 78, 83, 88, 201, 99, 122, 11, 92, 32, 136, 114, 52, 10,
    138, 30, 48, 183, 156, 35, 61, 26, 143, 74, 251, 94, 129, 162, 63, 152,
    170, 7, 115, 167, 241, 206, 3, 150, 55, 59, 151, 220, 90, 53, 23, 131,
    125, 173, 15, 238, 79, 95, 89, 16, 105, 137, 225, 224, 217, 160, 37, 123,
    118, 73, 2, 157, 46, 116, 9, 145, 134, 228, 207, 212, 202, 215, 69, 229,
    27, 188, 67, 124, 168, 252, 42, 4, 29, 108, 21, 247, 19, 205, 39, 203,
    233, 40, 186, 147, 198, 192, 155, 33, 164, 191, 98, 204, 165, 180, 117, 76,
    140, 36, 210, 172, 41, 54, 159, 8, 185, 232, 113, 196, 231, 47, 146, 120,
    51, 65, 28, 144, 254, 221, 93, 189, 194, 139, 112, 43, 71, 109, 184, 209
  >>

(* The PEARSON macro: cur = permutation[cur ^ next], tabulated once.       *)
PearsonStep == [c \in 0 .. 255 |-> [d \in 0 .. 255 |-> PearsonPermutation[(c ^^ d) + 1]]]

(* red_stack_spi_calculate_pearson_hash(data, length): the loop over       *)
(* data[0 .. length - 1] from checksum 0.  PearsonLoop(data, lo, hi, c) is *)
(* the checksum after bytes lo .. hi - 1 from c; it runs the loop's steps  *)
(* in their order, the first half of the range before the second, so that *)
(* the recursion is only log2(84) deep.                                   *)
RECURSIVE PearsonLoop(_, _, _, _)
PearsonLoop(data, lo, hi, checksum) ==
    IF hi <= lo THEN checksum
    ELSE IF hi = lo + 1 THEN PearsonStep[checksum][data[lo + 1]]
    ELSE LET mid == (lo + hi) \div 2
             half == PearsonLoop(data, lo, mid, checksum)
         IN IF half \in 0 .. 255 THEN PearsonLoop(data, mid, hi, half) ELSE half

PearsonHash(data, length) == PearsonLoop(data, 0, length, 0)

(* The tx buffer of a frame of the given length byte: zero-initialised,    *)
(* preamble, length, the payload copied at tx + 2, info 0 (the master is   *)
(* never busy) and the checksum over the bytes before it.                  *)
TxFrame(length, payload) ==
    LET body == [i \in 1 .. PacketSize |->
                   IF i = 1 THEN PreambleValue
                   ELSE IF i = 2 THEN length
                   ELSE IF i - 2 \in DOMAIN payload THEN payload[i - 2]
                   ELSE 0]
        withInfo == [body EXCEPT ![length - 1] = 0]
    IN [withInfo EXCEPT ![length] = PearsonHash(withInfo, length - 1)]

(* Mutant of BuildTx: the test length > sizeof(Packet) is gone.            *)
BuildTxNoLengthCheck(req, st) ==
    IF req = <<>> \/ st = BUSY
    THEN [retval |-> SendNone, tx |-> TxFrame(EmptySize, <<>>)]
    ELSE IF st = AVAILABLE
    THEN [retval |-> DataSend | SendOk,
          tx |-> TxFrame((req[5] + EmptySize) % 256, req)]
    ELSE [retval |-> SendError, tx |-> <<>>]

(* The send half of the call, up to the ioctl: a poll-only frame when      *)
(* packet_send is NULL or the slave is busy; the request's frame when the *)
(* slave is AVAILABLE and header.length (byte 4 of the packet) fits a      *)
(* Packet; otherwise SEND_ERROR and goto ret, no transfer (tx = <<>>).    *)
BuildTx(req, st) ==
    IF req = <<>> \/ st = BUSY
    THEN [retval |-> SendNone, tx |-> TxFrame(EmptySize, <<>>)]
    ELSE IF st = AVAILABLE
    THEN IF req[5] > PacketMax
         THEN [retval |-> SendError, tx |-> <<>>]
         ELSE [retval |-> DataSend | SendOk,
               tx |-> TxFrame((req[5] + EmptySize) % 256, SubSeq(req, 1, req[5]))]
    ELSE [retval |-> SendError, tx |-> <<>>]

(* Mutant of BusyBit: the info byte is compared with INFO_BUSY instead of  *)
(* masked.                                                                 *)
BusyBitEquals(info) == info = InfoBusy

(* rx[INFO(length)] & RED_STACK_SPI_INFO_BUSY                              *)
BusyBit(info) == (info & InfoBusy) # 0

(* Mutant of RecvPayload: the copy takes the info and checksum bytes too.  *)
RecvPayloadWithTrailer(rx, length) == SubSeq(rx, 3, length)

(* memcpy(packet_recv, rx + 2, length - RED_STACK_SPI_PACKET_EMPTY_SIZE)   *)
RecvPayload(rx, length) == SubSeq(rx, 3, length - 2)

(* The receive half, after a full transfer: the goto chain on preamble,    *)
(* length and checksum, then the busy bit sets the status and a frame      *)
(* longer than 4 is copied from rx + 2 into packet_recv.                   *)
ParseRx(rx, st) ==
    LET length == rx[2]
        none(r) == [ret |-> r, status |-> st, recv |-> <<>>]
    IN IF rx[1] # PreambleValue
       THEN none(IF rx[1] = 0 THEN ReadNone ELSE ReadError)
       ELSE IF length < EmptySize + HeaderSize \/ length > PacketSize
       THEN none(ReadError)
       ELSE IF PearsonHash(rx, length - 1) # rx[length]
       THEN none(ReadError)
       ELSE LET st2 == IF BusyBit(rx[length - 1]) THEN BUSY ELSE AVAILABLE
            IN IF length = EmptySize
               THEN [ret |-> ReadNone, status |-> st2, recv |-> <<>>]
               ELSE [ret |-> ReadOk | DataReceived, status |-> st2,
                     recv |-> RecvPayload(rx, length)]

(* One call of red_stack_spi_transceive_message(req, _, slave), with the   *)
(* slave clocking in a.rx and io = whether the ioctl moved all 84 bytes.     *)
(* packet_recv's length is 0 unless the parse copies a packet.             *)
Transceive(req, a, io) ==
    LET b == BuildTx(req, slaveStatus)
        rx == a.rx
    IN /\ lastCall' = [req |-> req, frame |-> a.frame, io |-> io]
       /\ tx' = b.tx
       /\ \/ /\ b.tx = <<>>
             /\ retval' = b.retval
             /\ packetRecv' = <<>>
             /\ UNCHANGED slaveStatus
          \/ /\ b.tx # <<>>
             /\ ~io
             /\ retval' = SendError | ReadError
             /\ packetRecv' = <<>>
             /\ UNCHANGED slaveStatus
          \/ /\ b.tx # <<>>
             /\ io
             /\ LET p == ParseRx(rx, slaveStatus)
                IN /\ retval' = b.retval | p.ret
                   /\ slaveStatus' = p.status
                   /\ packetRecv' = p.recv

-----------------------------------------------------------------------------
(* The requests: a packet whose byte 4 is header.length; the model holds  *)
(* at most sizeof(Packet) of its bytes.                                    *)
ReqPacket(l) ==
    [i \in 1 .. IF l <= PacketMax THEN l ELSE PacketMax |->
        IF i = 5 THEN l ELSE (7 * i + 3) % 256]

Requests == {ReqPacket(l) : l \in ReqLengths}

(* Pearson8 as the spec states it, from the table and XOR alone: the hash *)
(* of s from c is the hash of its second half from the hash of its first.  *)
RECURSIVE PearsonOf(_, _)
PearsonOf(c, s) ==
    IF s = <<>> THEN c
    ELSE IF Len(s) = 1 THEN PearsonPermutation[(c ^^ s[1]) + 1]
    ELSE LET k == Len(s) \div 2
             first == PearsonOf(c, SubSeq(s, 1, k))
         IN IF first \in 0 .. 255 THEN PearsonOf(first, SubSeq(s, k + 1, Len(s))) ELSE first

Pearson8(bytes) == PearsonOf(0, bytes)

(* Byte i of the payload area of a slave's frame.                          *)
SlaveByte(i) == (5 * i + 1) % 256

(* The bytes a slave clocks in for the abstract frame f of RedStackSpi,    *)
(* with info byte info: a correct checksum when f.crcOk, one off when not; *)
(* nothing past the buffer when the length byte is beyond it.              *)
SlaveFrame(f, info) ==
    LET body == [i \in 1 .. PacketSize |->
                   IF i = 1 THEN f.pre
                   ELSE IF i = 2 THEN f.len
                   ELSE IF i = f.len - 1 THEN info
                   ELSE IF i < f.len - 1 THEN SlaveByte(i)
                   ELSE 0]
        crc == Pearson8(SubSeq(body, 1, f.len - 1))
    IN IF f.len > PacketSize THEN body
       ELSE [body EXCEPT ![f.len] = IF f.crcOk THEN crc ELSE (crc + 1) % 256]

(* The slave's answers: idle (preamble 0) and garbage preambles, and 0xAA  *)
(* frames of every length and info byte of the constants, with a correct   *)
(* or a corrupted checksum; each with the abstract frame it stands for.    *)
RxInputs ==
    LET answer(pre, l, info, ok) ==
          LET f == [pre |-> pre, len |-> l, crcOk |-> ok /\ l <= PacketSize,
                    busy |-> info % 2 = 1]
          IN [frame |-> f, rx |-> SlaveFrame(f, info)]
    IN {answer(p, EmptySize + HeaderSize, 0, TRUE) : p \in {0, 1}}
       \cup {answer(PreambleValue, l, i, c) : l \in RxLengths, i \in RxInfos, c \in BOOLEAN}

FrameInit ==
    /\ slaveStatus = AVAILABLE
    /\ tx = <<>>
    /\ retval = 0
    /\ packetRecv = <<>>
    /\ lastCall = [req |-> <<>>, frame |-> <<>>, io |-> FALSE]

FrameNext == \E req \in Requests \cup {<<>>}, a \in RxInputs, io \in BOOLEAN :
                Transceive(req, a, io)

FrameSpec == FrameInit /\ [][FrameNext]_frameVars

-----------------------------------------------------------------------------
FrameTypeOK ==
    /\ slaveStatus \in {AVAILABLE, BUSY}
    /\ tx \in {<<>>} \cup [1 .. PacketSize -> 0 .. 255]
    /\ retval \in 0 .. 511
    /\ packetRecv \in Seq(0 .. 255)
    /\ Len(packetRecv) <= PacketMax

(* Spec 8: every frame the master clocks out starts with 0xAA, has a       *)
(* length byte in [4, 84], info 0, and ends with the Pearson-8 checksum of *)
(* the bytes before it; the length check of the send path keeps the       *)
(* length byte, length + 4 in a uint8_t, inside the buffer.                *)
EmittedWellFormed ==
    tx # <<>> =>
        /\ tx[1] = PreambleValue
        /\ tx[2] \in EmptySize .. PacketSize
        /\ tx[tx[2] - 1] = 0
        /\ tx[tx[2]] = Pearson8(SubSeq(tx, 1, tx[2] - 1))

(* Every call for a request that fits a Packet does what Exchange says of  *)
(* the abstract frame: the DATA_SEND and DATA_RECEIVED bits, the slave's   *)
(* new status and whether the payload went out agree, and packet_recv gets *)
(* the frame's payload exactly when DATA_RECEIVED is set.  All the other   *)
(* models rest on this abstraction of the transceiver.                     *)
MatchesExchange ==
    [][LET c == lastCall'
           x == Spi!Exchange(0, c.req # <<>>, c.frame, c.io)
       IN (c.req = <<>> \/ c.req[5] <= PacketMax) =>
            /\ ((retval' & DataSend) # 0) = x.sent
            /\ ((retval' & DataReceived) # 0) = x.recv
            /\ slaveStatus' = x.status
            /\ (tx' # <<>> /\ tx'[2] > EmptySize /\ c.io) = x.wire
            /\ packetRecv' = IF x.recv
                             THEN [k \in 1 .. c.frame.len - EmptySize |-> SlaveByte(k + 2)]
                             ELSE <<>>
      ]_frameVars
=============================================================================
