----------------------------- MODULE VmbusRing ------------------------------
(***************************************************************************)
(* One direction of a VMBus channel: the ring buffer of                    *)
(* MsvmPkg/EmclDxe/RingBuffer.c with the endpoint that inserts packets     *)
(* (PkSendPacketRaw) and the endpoint that removes them (the receive loop  *)
(* of EmclProcessQueue).  The endpoints run on different processors in     *)
(* different partitions and share only the control page (VMRCB), the data  *)
(* pages and two interrupts.                                               *)
(*                                                                         *)
(* One action is one access to shared memory, together with the private    *)
(* computation up to the next access.  A store to the control page is      *)
(* first held back in the writer's store buffer: the store to In is held   *)
(* back while In # OutgoingIn, the one to Out while Out # IncomingOut, the *)
(* one to PendingSendSize while heldPending # None.  MemoryBarrier() is    *)
(* the guard that the store buffer is empty.  A local variable returns to  *)
(* its initial value when its function returns.                            *)
(***************************************************************************)
EXTENDS Naturals, Integers, Sequences

CONSTANTS DataBytesInRing,  \* size of the data pages of the ring, in bytes
          Word,             \* number of UINT32 values, 2^32 in the build
          PacketSizes,      \* the sizes a caller passes to PkSendPacketRaw
          MaxId,            \* packets are tagged 0 .. MaxId to tell them apart
          PeerMasks         \* TRUE iff the receiver masks interrupts while busy

(***************************************************************************)
(* The pointer arithmetic.  Offsets are bytes from the start of the data   *)
(* pages; every offset is a multiple of eight.  The C code computes with   *)
(* UINT32, so a difference that would be negative wraps around Word.       *)
(* PkInitializeSingleMappedRingBuffer computes the size from a page count, *)
(* so it is a multiple of eight; ring sizes are far below 2^31.            *)
(***************************************************************************)
ASSUME RingSizeAssumption ==
    /\ DataBytesInRing \in Nat /\ Word \in Nat
    /\ \E n \in 1 .. DataBytesInRing : DataBytesInRing = 8 * n
    /\ 2 * DataBytesInRing < Word

\* UINT32 subtraction and addition.
Sub32(a, b) == IF a >= b THEN a - b ELSE a - b + Word
Add32(a, b) == IF a + b < Word THEN a + b ELSE a + b - Word

PkModuloReduce(value, modulus) ==
    IF value >= modulus THEN value - modulus ELSE value

PkpValidatePointer(pointer) ==
    pointer < DataBytesInRing /\ pointer % 8 = 0

PkpDataAvailable(in, out) ==
    LET bytesAvailable == Sub32(in, out)
    IN  IF bytesAvailable < DataBytesInRing
        THEN bytesAvailable
        ELSE Add32(DataBytesInRing, bytesAvailable)

\* Mutant: no byte is kept back.
PkpFreeBytesAll(in, out) == DataBytesInRing - PkpDataAvailable(in, out)

PkpFreeBytes(in, out) ==
    LET bytesFree == Sub32(Sub32(out, in), 1)
    IN  IF bytesFree < DataBytesInRing
        THEN bytesFree
        ELSE Add32(DataBytesInRing, bytesFree)

\* sizeof(PREVIOUS_PACKET_OFFSET), the trailer of every packet.
TrailerSize == 8

\* sizeof(VMPACKET_DESCRIPTOR), the smallest legal packet.
DescriptorSize == 16

\* ALIGN_UP(PacketSize, UINT64)
AlignUp(size) == ((size + 7) \div 8) * 8

TotalPacketSize(size) == AlignUp(size) + TrailerSize

\* The offset one packet further on.
Advance(offset, size) == PkModuloReduce(offset + size, DataBytesInRing)

\* The legal pointer values.
Offsets == {p \in 0 .. DataBytesInRing - 1 : p % 8 = 0}
-----------------------------------------------------------------------------
ASSUME PacketSizesAssumption ==
    \A s \in PacketSizes : s \in Nat /\ s >= DescriptorSize
ASSUME MaxIdAssumption == MaxId \in Nat
ASSUME PeerMasksAssumption == PeerMasks \in BOOLEAN

Ids == 0 .. MaxId

\* No store to PendingSendSize is held back.
None == -1

VARIABLES
    \* the control page and the data pages
    In, Out, PendingSendSize, InterruptMask, data,
    \* interrupts raised and not yet taken
    irqReceiver, irqSender,
    \* sender: PACKET_LIB_CONTEXT, the store buffer, the locals of the call
    OutgoingIn, OutgoingOutCache, ctxPending, heldPending,
    spc, packet, oldIn, interruptMask,
    \* receiver: PACKET_LIB_CONTEXT and the locals of EmclProcessQueue
    IncomingOut, IncomingInCache,
    rpc, ringOffset, currentOffset, bufferLength, received, oldOut, pendingSeen,
    \* history: the packets published in In and not yet taken, the last taken,
    \* and whether an endpoint ever returned EFI_RING_CORRUPT_ERROR
    fifo, delivered, corrupt

control   == <<In, Out, PendingSendSize, InterruptMask, data>>
interrupts == <<irqReceiver, irqSender>>
sender    == <<OutgoingIn, OutgoingOutCache, ctxPending, heldPending, spc,
               packet, oldIn, interruptMask>>
receiver  == <<IncomingOut, IncomingInCache, rpc, ringOffset, currentOffset,
               bufferLength, received, oldOut, pendingSeen>>
history   == <<fifo, delivered, corrupt>>
vars      == <<control, interrupts, sender, receiver, history>>

Packet == [id : Ids, size : {AlignUp(s) : s \in PacketSizes}]

\* The data pages in units of eight bytes: each cell records which cell of
\* which packet was written there.  Length8 of a header cell is its size.
Cells == 0 .. (DataBytesInRing \div 8) - 1
Cell  == [id : Ids, size : {n \in Nat : n % 8 = 0}, k : Nat]

CellAt(offset, k) == Advance(offset, 8 * k) \div 8

NextId(id) == IF id + 1 \in Ids THEN id + 1 ELSE 0
-----------------------------------------------------------------------------
(***************************************************************************)
(* PkpInitRingBufferControl on zeroed pages: the ring is empty.            *)
(***************************************************************************)
Init ==
    /\ In = 0 /\ Out = 0 /\ PendingSendSize = 0 /\ InterruptMask = FALSE
    /\ data = [c \in Cells |-> [id |-> 0, size |-> 0, k |-> 0]]
    /\ irqReceiver = FALSE /\ irqSender = FALSE
    /\ OutgoingIn = 0 /\ OutgoingOutCache = 0 /\ ctxPending = 0
    /\ heldPending = None
    /\ spc = "idle" /\ packet = [id |-> 0, size |-> 0]
    /\ oldIn = 0 /\ interruptMask = FALSE
    /\ IncomingOut = 0 /\ IncomingInCache = 0
    /\ rpc = "idle" /\ ringOffset = 0 /\ currentOffset = 0 /\ bufferLength = 0
    /\ received = FALSE /\ oldOut = 0 /\ pendingSeen = 0
    /\ fifo = <<>> /\ delivered = <<>> /\ corrupt = FALSE
-----------------------------------------------------------------------------
(***************************************************************************)
(* The sender.                                                             *)
(***************************************************************************)
\* totalPacketSize of the packet being sent, trailer included.
total == TotalPacketSize(packet.size)

\* PkpCheckSendBufferFreeBytes decides on a value of Out.
Fits(out) == PkpFreeBytes(OutgoingIn, out) >= total

\* A call of PkSendPacketRaw begins: the cached Out may already show room.
TrySend(t) ==
    /\ spc' = IF PkpFreeBytes(OutgoingIn, OutgoingOutCache) >= t
              THEN "write" ELSE "reread"
    /\ UNCHANGED <<control, irqReceiver, OutgoingIn, OutgoingOutCache,
                   ctxPending, heldPending, oldIn, interruptMask, receiver,
                   history>>

SendPacket(size) ==
    /\ spc = "idle"
    /\ packet' = [id |-> NextId(packet.id), size |-> size]
    /\ TrySend(TotalPacketSize(size))
    /\ UNCHANGED irqSender

\* The interrupt that the ring has room again: the caller that was told
\* EFI_BUFFER_TOO_SMALL calls PkSendPacketRaw again with the same packet.
RetrySend ==
    /\ spc = "blocked"
    /\ irqSender
    /\ irqSender' = FALSE
    /\ TrySend(total)
    /\ UNCHANGED packet

\* An interrupt that arrives when no packet is waiting has no effect.
DropInterrupt ==
    /\ spc = "idle"
    /\ irqSender
    /\ irqSender' = FALSE
    /\ UNCHANGED <<control, irqReceiver, sender, receiver, history>>

\* The value published when the ring is too full.  newIn is where the call
\* would write, OutgoingIn what is committed: the same for PkSendPacketRaw.
PublishedPendingSize(newIn) ==
    LET size == PkpDataAvailable(newIn, OutgoingIn) + total
    IN  IF size >= DataBytesInRing THEN DataBytesInRing - 1 ELSE size

\* The cache showed no room: read the public Out.  Still no room: publish
\* PendingSendSize, unless the packet can never fit (EFI_INVALID_PARAMETER).
RereadOut ==
    /\ spc = "reread"
    /\ LET valid   == PkpValidatePointer(Out)
           publish == valid /\ ~Fits(Out) /\ total < DataBytesInRing
       IN  /\ OutgoingOutCache' = IF valid THEN Out ELSE OutgoingOutCache
           /\ heldPending' = IF publish THEN PublishedPendingSize(OutgoingIn)
                                        ELSE heldPending
           /\ ctxPending' = IF publish THEN total - TrailerSize ELSE ctxPending
           /\ spc' = IF publish THEN "recheck"
                     ELSE IF valid /\ Fits(Out) THEN "write" ELSE "idle"
           /\ corrupt' = (corrupt \/ ~valid)
    /\ UNCHANGED <<control, interrupts, OutgoingIn, packet, oldIn,
                   interruptMask, receiver, fifo, delivered>>

\* MemoryBarrier() has been passed: the store buffer is empty.
SenderFlushed == heldPending = None /\ In = OutgoingIn

\* Re-read Out after the barrier, in case room was made just before
\* PendingSendSize became visible.
RecheckOut ==
    /\ spc = "recheck"
    /\ SenderFlushed
    /\ LET valid == PkpValidatePointer(Out)
       IN  /\ OutgoingOutCache' = IF valid THEN Out ELSE OutgoingOutCache
           /\ spc' = IF ~valid THEN "idle" ELSE IF Fits(Out) THEN "write" ELSE "blocked"
           /\ corrupt' = (corrupt \/ ~valid)
    /\ UNCHANGED <<control, interrupts, OutgoingIn, ctxPending, heldPending,
                   packet, oldIn, interruptMask, receiver, fifo, delivered>>

\* Mutant: a packet is not folded around the end of the ring.
WrittenCellsUnfolded(offset, size) ==
    Cells \cap {(offset \div 8) + k : k \in 0 .. (TotalPacketSize(size) \div 8) - 1}

\* The cells a packet of the given size occupies, trailer included.
WrittenCells(offset, size) ==
    {CellAt(offset, k) : k \in 0 .. (TotalPacketSize(size) \div 8) - 1}

\* The rest of PkGetSendBuffer, and PkWritePacketSingleMapped: the packet and
\* its trailer go to the data pages, folding around the end of the ring.
WritePacket ==
    /\ spc = "write"
    /\ data' = [c \in Cells |->
                  IF c \in WrittenCells(OutgoingIn, packet.size)
                  THEN [id |-> packet.id, size |-> AlignUp(packet.size),
                        k |-> PkpDataAvailable(8 * c, OutgoingIn) \div 8]
                  ELSE data[c]]
    /\ ctxPending' = 0
    /\ heldPending' = IF ctxPending # 0 THEN 0 ELSE heldPending
    /\ spc' = "commit"
    /\ UNCHANGED <<In, Out, PendingSendSize, InterruptMask, interrupts,
                   OutgoingIn, OutgoingOutCache, packet, oldIn,
                   interruptMask, receiver, history>>

\* PkCompleteInsertion up to its barrier: WriteRelease of In, held back.
CommitIn ==
    /\ spc = "commit"
    /\ oldIn' = OutgoingIn
    /\ OutgoingIn' = Advance(OutgoingIn, total)
    /\ spc' = "readmask"
    /\ UNCHANGED <<control, interrupts, OutgoingOutCache, ctxPending,
                   heldPending, packet, interruptMask, receiver, history>>

ReadMask ==
    /\ spc = "readmask"
    /\ SenderFlushed
    /\ interruptMask' = InterruptMask
    /\ spc' = "readout"
    /\ UNCHANGED <<control, interrupts, OutgoingIn, OutgoingOutCache, ctxPending,
                   heldPending, packet, oldIn, receiver, history>>

\* Signal the receiver iff the ring may have been empty before the insertion.
SignalNeeded(out) == oldIn = out /\ ~interruptMask

ReadOut ==
    /\ spc = "readout"
    /\ LET valid == PkpValidatePointer(Out)
       IN  /\ OutgoingOutCache' = IF valid THEN Out ELSE OutgoingOutCache
           /\ irqReceiver' = (irqReceiver \/ (valid /\ SignalNeeded(Out)))
           /\ corrupt' = (corrupt \/ ~valid)
    /\ spc' = "idle"
    /\ oldIn' = 0 /\ interruptMask' = FALSE
    /\ UNCHANGED <<control, irqSender, OutgoingIn, ctxPending, heldPending,
                   packet, receiver, fifo, delivered>>

\* The store buffer drains in order: PendingSendSize, then In.
FlushPending ==
    /\ heldPending # None
    /\ PendingSendSize' = heldPending
    /\ heldPending' = None
    /\ UNCHANGED <<In, Out, InterruptMask, data, interrupts, OutgoingIn,
                   OutgoingOutCache, ctxPending, spc, packet, oldIn,
                   interruptMask, receiver, history>>

FlushIn ==
    /\ In # OutgoingIn
    /\ heldPending = None
    /\ In' = OutgoingIn
    /\ fifo' = Append(fifo, [id |-> packet.id, size |-> AlignUp(packet.size)])
    /\ UNCHANGED <<Out, PendingSendSize, InterruptMask, data, interrupts, sender,
                   receiver, delivered, corrupt>>
-----------------------------------------------------------------------------
(***************************************************************************)
(* The receiver.                                                           *)
(***************************************************************************)
\* The receive event runs EmclProcessQueue.  A peer that masks interrupts
\* while it works does so here.
TakeInterrupt ==
    /\ rpc = "idle"
    /\ irqReceiver
    /\ irqReceiver' = FALSE
    /\ InterruptMask' \in {FALSE, PeerMasks}
    /\ ringOffset' = IncomingOut
    /\ received' = FALSE
    /\ rpc' = "get"
    /\ UNCHANGED <<In, Out, PendingSendSize, data, irqSender, sender,
                   IncomingOut, IncomingInCache, currentOffset, bufferLength,
                   oldOut, pendingSeen, history>>

\* The for loop ended (EFI_END_OF_FILE or an error): complete the removal of
\* what was received, if anything was.
Finished  == IF InterruptMask THEN "unmask" ELSE "idle"
EndOfPass == IF received THEN "remove" ELSE Finished

\* PkGetReceiveBuffer: the cached In, and the public In if the cache shows
\* nothing more.
GetReceiveBuffer ==
    /\ rpc = "get"
    /\ LET in == IF IncomingInCache = ringOffset THEN In ELSE IncomingInCache
           valid == PkpValidatePointer(in)
       IN  /\ IncomingInCache' = IF valid THEN in ELSE IncomingInCache
           /\ rpc' = IF valid /\ in # ringOffset THEN "header" ELSE EndOfPass
           /\ corrupt' = (corrupt \/ ~valid)
    /\ UNCHANGED <<control, interrupts, sender, IncomingOut, ringOffset,
                   currentOffset, bufferLength, received, oldOut, pendingSeen,
                   fifo, delivered>>

\* The rest of PkGetReceiveBuffer: Length8 of the packet descriptor.
ReadHeader ==
    /\ rpc = "header"
    /\ LET packetLength == data[ringOffset \div 8].size
           totalSize    == packetLength + TrailerSize
           bad          == \/ packetLength < DescriptorSize
                           \/ totalSize > PkpDataAvailable(IncomingInCache, ringOffset)
       IN  /\ bufferLength' = packetLength
           /\ currentOffset' = ringOffset
           /\ ringOffset' = IF bad THEN ringOffset ELSE Advance(ringOffset, totalSize)
           /\ rpc' = IF bad THEN EndOfPass ELSE "copy"
           /\ corrupt' = (corrupt \/ bad)
    /\ UNCHANGED <<control, interrupts, sender, IncomingOut, IncomingInCache,
                   received, oldOut, pendingSeen, fifo, delivered>>

\* The packet that the cells from offset on hold, or Garbage when they are
\* not the cells of one packet in their order.
Garbage == [id |-> 0, size |-> 0]

PacketAt(offset, length) ==
    LET first == data[offset \div 8]
    IN  IF \A k \in 0 .. (length \div 8) :
              data[CellAt(offset, k)] = [id |-> first.id, size |-> length, k |-> k]
        THEN [id |-> first.id, size |-> length]
        ELSE Garbage

\* PkReadPacketSingleMapped and the dispatch of the packet.
CopyPacket ==
    /\ rpc = "copy"
    /\ delivered' = PacketAt(currentOffset, bufferLength)
    /\ fifo' = IF fifo = <<>> THEN fifo ELSE Tail(fifo)
    /\ received' = TRUE
    /\ currentOffset' = 0 /\ bufferLength' = 0
    /\ rpc' = "get"
    /\ UNCHANGED <<control, interrupts, sender, IncomingOut, IncomingInCache,
                   ringOffset, oldOut, pendingSeen, corrupt>>

\* PkCompleteRemoval up to its barrier: the store to Out, held back.
RemovePackets ==
    /\ rpc = "remove"
    /\ oldOut' = IncomingOut
    /\ IncomingOut' = ringOffset
    /\ rpc' = "readpending"
    /\ UNCHANGED <<control, interrupts, sender, IncomingInCache, ringOffset,
                   currentOffset, bufferLength, received, pendingSeen, history>>

\* Mutant: the barrier after the store to Out is missing.
ReceiverUnfenced == TRUE

\* MemoryBarrier() has been passed: the store buffer is empty.
ReceiverFlushed == Out = IncomingOut

ReadPendingSendSize ==
    /\ rpc = "readpending"
    /\ ReceiverFlushed
    /\ pendingSeen' = PendingSendSize
    /\ rpc' = "readin"
    /\ UNCHANGED <<control, interrupts, sender, IncomingOut, IncomingInCache,
                   ringOffset, currentOffset, bufferLength, received, oldOut,
                   history>>

\* Mutant: the room must exceed what the sender asked for.
RoomMadeStrictly(in) ==
    /\ pendingSeen # 0
    /\ PkpFreeBytes(in, IncomingOut) > pendingSeen + 7
    /\ PkpFreeBytes(in, oldOut) < pendingSeen

\* Signal the sender iff this removal made the room it is waiting for.
RoomMade(in) ==
    /\ pendingSeen # 0
    /\ PkpFreeBytes(in, IncomingOut) >= pendingSeen
    /\ PkpFreeBytes(in, oldOut) < pendingSeen

\* The rest of PkCompleteRemoval; EmclProcessQueue then makes another pass.
ReadIn ==
    /\ rpc = "readin"
    /\ LET valid == PkpValidatePointer(In)
       IN  /\ IncomingInCache' = IF valid THEN In ELSE IncomingInCache
           /\ irqSender' = (irqSender \/ (valid /\ RoomMade(In)))
           /\ rpc' = IF valid THEN "get" ELSE Finished
           /\ corrupt' = (corrupt \/ ~valid)
    /\ received' = FALSE /\ oldOut' = 0 /\ pendingSeen' = 0
    /\ UNCHANGED <<control, irqReceiver, sender, IncomingOut, ringOffset,
                   currentOffset, bufferLength, fifo, delivered>>

FlushOut ==
    /\ Out # IncomingOut
    /\ Out' = IncomingOut
    /\ UNCHANGED <<In, PendingSendSize, InterruptMask, data, interrupts, sender,
                   receiver, history>>

\* A peer that masks interrupts unmasks, and then looks once more.
Unmask ==
    /\ rpc = "unmask"
    /\ InterruptMask' = FALSE
    /\ rpc' = "get"
    /\ UNCHANGED <<In, Out, PendingSendSize, data, interrupts, sender,
                   IncomingOut, IncomingInCache, ringOffset, currentOffset,
                   bufferLength, received, oldOut, pendingSeen, history>>
-----------------------------------------------------------------------------
SendOngoing ==
    \/ RetrySend \/ RereadOut \/ RecheckOut
    \/ WritePacket \/ CommitIn \/ ReadMask \/ ReadOut

SenderStep ==
    \/ \E size \in PacketSizes : SendPacket(size)
    \/ DropInterrupt \/ SendOngoing

ReceiverStep ==
    \/ TakeInterrupt \/ GetReceiveBuffer \/ ReadHeader \/ CopyPacket
    \/ RemovePackets \/ ReadPendingSendSize \/ ReadIn \/ Unmask

Next == SenderStep \/ ReceiverStep \/ FlushPending \/ FlushIn \/ FlushOut

Spec == Init /\ [][Next]_vars

(***************************************************************************)
(* Each endpoint runs its call or its event to the end, a held-back store  *)
(* becomes visible, and a pending interrupt is taken.  Nothing forces the  *)
(* sender to begin another send.                                           *)
(***************************************************************************)
Fairness ==
    /\ WF_vars(SendOngoing) /\ WF_vars(ReceiverStep)
    /\ WF_vars(FlushPending) /\ WF_vars(FlushIn) /\ WF_vars(FlushOut)
-----------------------------------------------------------------------------
(***************************************************************************)
(* Properties.                                                             *)
(***************************************************************************)
TypeOK ==
    /\ In \in Offsets /\ Out \in Offsets
    /\ OutgoingIn \in Offsets /\ OutgoingOutCache \in Offsets
    /\ IncomingOut \in Offsets /\ IncomingInCache \in Offsets
    /\ oldIn \in Offsets /\ oldOut \in Offsets
    /\ ringOffset \in Offsets /\ currentOffset \in Offsets
    /\ PendingSendSize \in 0 .. DataBytesInRing - 1
    /\ heldPending \in -1 .. DataBytesInRing - 1
    /\ pendingSeen \in 0 .. DataBytesInRing - 1
    /\ InterruptMask \in BOOLEAN /\ interruptMask \in BOOLEAN
    /\ irqReceiver \in BOOLEAN /\ irqSender \in BOOLEAN
    /\ received \in BOOLEAN /\ corrupt \in BOOLEAN
    /\ data \in [Cells -> Cell]
    /\ spc \in {"idle", "reread", "recheck", "blocked", "write", "commit",
                "readmask", "readout"}
    /\ rpc \in {"idle", "get", "header", "copy", "remove", "readpending",
                "readin", "unmask"}
    /\ packet \in [id : Ids, size : Nat]
    /\ ctxPending \in Nat /\ bufferLength \in Nat

(***************************************************************************)
(* The bytes from a pointer on to the end of what the sender has committed. *)
(***************************************************************************)
Behind(pointer) == PkpDataAvailable(OutgoingIn, pointer)

(***************************************************************************)
(* Every cached, held-back or public copy of a pointer errs on the safe    *)
(* side: around the ring, the sender's copy of Out comes first, then the   *)
(* public Out, the receiver's own position, the packet it is reading, its  *)
(* copy of In, and the public In.  No copy ever overtakes the next one,    *)
(* however the processors delay their stores.                              *)
(***************************************************************************)
PointersInOrder ==
    /\ Behind(OutgoingOutCache) >= Behind(Out)
    /\ Behind(Out) >= Behind(IncomingOut)
    /\ Behind(IncomingOut) >= Behind(ringOffset)
    /\ Behind(ringOffset) >= Behind(IncomingInCache)
    /\ Behind(IncomingInCache) >= Behind(In)

(***************************************************************************)
(* A packet is written only into bytes the receiver has given back through *)
(* the public Out pointer, and it never fills the ring completely, which   *)
(* would make the ring look empty.  The sender decides on a copy of Out    *)
(* that may be stale by the time it writes.                                *)
(***************************************************************************)
NoOverwrite ==
    spc \in {"write", "commit"} => Behind(Out) + total < DataBytesInRing

(***************************************************************************)
(* The pointers of the ring are in range and in order and nothing is       *)
(* overwritten: what PkGetSendBuffer and PkGetReceiveBuffer rely on.       *)
(***************************************************************************)
RingSound == TypeOK /\ PointersInOrder /\ NoOverwrite

(***************************************************************************)
(* With two endpoints that follow the protocol, the pointer and length     *)
(* checks of RingBuffer.c never report EFI_RING_CORRUPT_ERROR: a header    *)
(* is never read before it is complete, nor after it was overwritten.      *)
(***************************************************************************)
NeverCorrupt == ~corrupt

(***************************************************************************)
(* No lost wakeup in PkCompleteInsertion: when the sender has finished its *)
(* call, the receiver sleeps and no interrupt is on its way, the ring is   *)
(* empty.                                                                  *)
(***************************************************************************)
NoLostDataSignal ==
    (spc \in {"idle", "blocked"} /\ rpc = "idle" /\ ~irqReceiver)
        => IncomingOut = OutgoingIn

(***************************************************************************)
(* No lost wakeup in PkpCheckSendBufferFreeBytes and PkCompleteRemoval: a  *)
(* sender that was told EFI_BUFFER_TOO_SMALL is never left waiting by a    *)
(* receiver that sleeps too.                                               *)
(***************************************************************************)
NoLostRoomSignal ==
    (spc = "blocked" /\ ~irqSender) => (rpc # "idle" \/ irqReceiver)

(***************************************************************************)
(* Neither endpoint waits for a signal the other one does not owe it, and  *)
(* the receiver never finds a ring it must take for corrupt                *)
(* (PkCompleteInsertion, PkCompleteRemoval, PkGetReceiveBuffer).           *)
(***************************************************************************)
EndpointsAgree == NoLostDataSignal /\ NoLostRoomSignal /\ NeverCorrupt

(***************************************************************************)
(* The ring implements a channel that delivers every packet unchanged,     *)
(* once and in order.                                                      *)
(***************************************************************************)
Channel == INSTANCE PacketChannel WITH queue <- fifo
ImplementsChannel == Channel!Spec

(***************************************************************************)
(* A send that found the ring full is eventually retried and succeeds.     *)
(***************************************************************************)
BlockedSendSucceeds == spc = "blocked" ~> spc = "commit"

(***************************************************************************)
(* Every packet that was published is eventually delivered.                *)
(***************************************************************************)
EveryPacketDelivered ==
    \A i \in Ids : (fifo # <<>> /\ Head(fifo).id = i)
                     ~> (fifo = <<>> \/ Head(fifo).id # i)
=============================================================================
