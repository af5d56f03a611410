------------------------ MODULE VmbusRingStateProofs ------------------------
(***************************************************************************)
(* What must hold in VmbusRing, besides what VmbusRingProofs shows, for    *)
(* packets to come out whole and in order and for no wakeup to be lost     *)
(* (SInv), and the proofs of the parts that say what each endpoint knows   *)
(* and waits for.                                                          *)
(***************************************************************************)
EXTENDS VmbusRingProofs

\* Where the first packet that is not delivered begins.
ReadPos == IF rpc = "copy" THEN currentOffset ELSE ringOffset

\* The cells from a distance of b bytes behind In on hold the packet p.
Holds(p, b) ==
    \A o \in Offsets, k \in Nat :
        Behind(o) + 8 * k = b /\ 8 * k < p.size + TrailerSize
            => data[o \div 8] = [id |-> p.id, size |-> p.size, k |-> k]

\* The packets published and not delivered lie one behind the other between the
\* position of the receiver and the public In; d[i] is the distance of the i-th
\* from what is committed.  The receiver's copy of In is the start of one of them.
Chain(d) ==
    /\ d \in [1 .. Len(fifo) + 1 -> Nat]
    /\ d[1] = Behind(ReadPos) /\ d[1] <= Behind(IncomingOut)
    /\ d[Len(fifo) + 1] = Behind(In)
    /\ \A i \in 1 .. Len(fifo) : d[i] = d[i + 1] + fifo[i].size + TrailerSize
    /\ \A i, j \in 1 .. Len(fifo) + 1 : i < j => d[i] > d[j]
    /\ \A i \in 1 .. Len(fifo) : Holds(fifo[i], d[i])
    /\ \E j \in 1 .. Len(fifo) + 1 : d[j] = Behind(IncomingInCache)
    /\ rpc = "copy" => /\ Len(fifo) >= 1 /\ bufferLength = fifo[1].size
                       /\ d[2] = Behind(ringOffset)

Sending == [id |-> packet.id, size |-> AlignUp(packet.size)]

\* The packets of the history are packets, and a call that is under way sends one.
SendingKnown == fifo \in Seq(Packet) /\ (spc # "idle" => packet.size \in PacketSizes)

\* What was written and is not yet committed.
Written ==
    spc = "commit" =>
        \A o \in Offsets, k \in Nat :
            PkpDataAvailable(o, OutgoingIn) = 8 * k /\ 8 * k < total
                => data[o \div 8] = [id |-> packet.id, size |-> AlignUp(packet.size), k |-> k]

\* What is committed and not yet published.
InHeld ==
    In # OutgoingIn => /\ spc = "readmask" /\ oldIn = In /\ Behind(In) = total
                       /\ Holds(Sending, total)

\* The room a waiting sender has asked for.
PendingShown ==
    /\ spc = "recheck" =>
         /\ total < DataBytesInRing
         /\ heldPending = total \/ (heldPending = None /\ PendingSendSize = total)
    /\ spc = "blocked" =>
         total < DataBytesInRing /\ heldPending = None /\ PendingSendSize = total

\* Where the receiver is between two passes, and when its store to Out may be delayed.
ReceiverState ==
    /\ rpc \in {"idle", "unmask", "readpending", "readin"} => ringOffset = IncomingOut
    /\ rpc \in {"get", "header"} /\ ~received => ringOffset = IncomingOut
    /\ rpc = "header" => IncomingInCache # ringOffset
    /\ Out # IncomingOut => rpc = "readpending" /\ oldOut = Out
    /\ rpc = "idle" => ~InterruptMask

\* A receiver that sleeps over packets will be signalled by the send that is under way.
DataOwed ==
    rpc = "idle" /\ ~irqReceiver /\ IncomingOut # OutgoingIn =>
        /\ spc \in {"readmask", "readout"} /\ oldIn = IncomingOut
        /\ spc = "readout" => ~interruptMask

\* A sender that waits for room has none, or the receiver is about to signal it.
RoomOwed ==
    spc = "blocked" /\ ~irqSender =>
        \/ Behind(IncomingOut) + total >= DataBytesInRing
        \/ rpc = "readpending" /\ Behind(oldOut) + total >= DataBytesInRing
        \/ /\ rpc = "readin" /\ pendingSeen = total
           /\ Behind(oldOut) + total >= DataBytesInRing

Packets == \E d \in [1 .. Len(fifo) + 1 -> Nat] : Chain(d)

SInv == /\ SendingKnown /\ Written /\ InHeld /\ PendingShown /\ ReceiverState
        /\ Packets /\ DataOwed /\ RoomOwed /\ NeverCorrupt
-----------------------------------------------------------------------------
(***************************************************************************)
(* Distances around the ring: the distance between two pointers of which   *)
(* one is nearer to a, the two ways around, and what a step of a does.     *)
(***************************************************************************)
LEMMA Between ==
    ASSUME NEW a \in Offsets, NEW p \in Offsets, NEW q \in Offsets,
           PkpDataAvailable(a, q) >= PkpDataAvailable(a, p)
    PROVE  PkpDataAvailable(p, q) = PkpDataAvailable(a, q) - PkpDataAvailable(a, p)
<1>1. /\ DataBytesInRing \in Nat /\ a \in 0 .. DataBytesInRing - 1
      /\ p \in 0 .. DataBytesInRing - 1 /\ q \in 0 .. DataBytesInRing - 1
  BY RingSizeAssumption DEF Offsets
<1>2. PkpDataAvailable(a, p) = IF a >= p THEN a - p ELSE a - p + DataBytesInRing
  BY DataAvailableIsDistance
<1>3. PkpDataAvailable(a, q) = IF a >= q THEN a - q ELSE a - q + DataBytesInRing
  BY DataAvailableIsDistance
<1>4. PkpDataAvailable(p, q) = IF p >= q THEN p - q ELSE p - q + DataBytesInRing
  BY DataAvailableIsDistance
<1> QED  BY <1>1, <1>2, <1>3, <1>4

(***************************************************************************)
(* Two pointers are at distance 0 iff they are equal; otherwise the two    *)
(* ways around the ring add up to the ring.                                *)
(***************************************************************************)
LEMMA BothWays ==
    ASSUME NEW a \in Offsets, NEW p \in Offsets
    PROVE  /\ PkpDataAvailable(a, p) = 0 <=> a = p
           /\ a # p => PkpDataAvailable(p, a) = DataBytesInRing - PkpDataAvailable(a, p)
<1>1. /\ DataBytesInRing \in Nat /\ a \in 0 .. DataBytesInRing - 1
      /\ p \in 0 .. DataBytesInRing - 1
  BY RingSizeAssumption DEF Offsets
<1>2. PkpDataAvailable(a, p) = IF a >= p THEN a - p ELSE a - p + DataBytesInRing
  BY DataAvailableIsDistance
<1>3. PkpDataAvailable(p, a) = IF p >= a THEN p - a ELSE p - a + DataBytesInRing
  BY DataAvailableIsDistance
<1>4. a = p => PkpDataAvailable(a, p) = 0
  BY <1>1, <1>2
<1>5. a # p => /\ PkpDataAvailable(a, p) # 0
               /\ PkpDataAvailable(p, a) = DataBytesInRing - PkpDataAvailable(a, p)
  BY <1>1, <1>2, <1>3
<1> QED  BY <1>4, <1>5

(***************************************************************************)
(* The distance from a pointer determines the pointer.                     *)
(***************************************************************************)
LEMMA SameDistance ==
    ASSUME NEW a \in Offsets, NEW p \in Offsets, NEW q \in Offsets,
           PkpDataAvailable(a, p) = PkpDataAvailable(a, q)
    PROVE  p = q
<1>1. PkpDataAvailable(a, p) \in Int /\ PkpDataAvailable(a, q) \in Int
  BY DataAvailableIsDistance, RingSizeAssumption
<1>2. PkpDataAvailable(a, q) >= PkpDataAvailable(a, p)
      /\ PkpDataAvailable(a, q) - PkpDataAvailable(a, p) = 0
  BY <1>1
<1>3. PkpDataAvailable(p, q) = 0
  BY <1>2, Between
<1> QED  BY <1>3, BothWays

(***************************************************************************)
(* Moving a pointer away adds to a distance, around the ring at most once. *)
(***************************************************************************)
LEMMA StepAround ==
    ASSUME NEW a \in Offsets, NEW p \in Offsets, NEW t \in Nat, t % 8 = 0, t < DataBytesInRing
    PROVE  PkpDataAvailable(Advance(a, t), p) =
             IF PkpDataAvailable(a, p) + t < DataBytesInRing
             THEN PkpDataAvailable(a, p) + t
             ELSE PkpDataAvailable(a, p) + t - DataBytesInRing
<1>1. Advance(a, t) \in Offsets  BY AdvanceIsOffset
<1>2. /\ DataBytesInRing \in Nat /\ a \in 0 .. DataBytesInRing - 1
      /\ p \in 0 .. DataBytesInRing - 1
  BY RingSizeAssumption DEF Offsets
<1>3. PkpDataAvailable(a, p) = IF a >= p THEN a - p ELSE a - p + DataBytesInRing
  BY DataAvailableIsDistance
<1>4. PkpDataAvailable(Advance(a, t), p) =
        IF Advance(a, t) >= p THEN Advance(a, t) - p ELSE Advance(a, t) - p + DataBytesInRing
  BY <1>1, DataAvailableIsDistance
<1> QED  BY <1>2, <1>3, <1>4 DEF Advance, PkModuloReduce

(***************************************************************************)
(* Cells and offsets correspond.                                           *)
(***************************************************************************)
LEMMA CellOfOffset ==
    ASSUME NEW o \in Offsets
    PROVE  o \div 8 \in Cells /\ 8 * (o \div 8) = o
BY RingSizeAssumption DEF Offsets, Cells

(***************************************************************************)
(* The byte offset of a cell is a legal pointer.                           *)
(***************************************************************************)
LEMMA OffsetOfCell ==
    ASSUME NEW c \in Cells
    PROVE  8 * c \in Offsets /\ (8 * c) \div 8 = c
BY RingSizeAssumption DEF Offsets, Cells

(***************************************************************************)
(* Distances between legal pointers are multiples of eight.                *)
(***************************************************************************)
LEMMA DistanceInCells ==
    ASSUME NEW a \in Offsets, NEW b \in Offsets
    PROVE  \E k \in Nat : PkpDataAvailable(a, b) = 8 * k
<1>1. PICK n \in 1 .. DataBytesInRing : DataBytesInRing = 8 * n
  BY RingSizeAssumption
<1>2. /\ DataBytesInRing \in Nat /\ a \in 0 .. DataBytesInRing - 1
      /\ b \in 0 .. DataBytesInRing - 1
  BY RingSizeAssumption DEF Offsets
<1>3. a \div 8 \in Nat /\ a = 8 * (a \div 8) /\ b \div 8 \in Nat /\ b = 8 * (b \div 8)
  BY <1>2 DEF Offsets
<1>4. PkpDataAvailable(a, b) = IF a >= b THEN a - b ELSE a - b + DataBytesInRing
  BY DataAvailableIsDistance
<1> DEFINE u == a \div 8
           v == b \div 8
<1> HIDE DEF u, v
<1>5. CASE a >= b
  <2>1. u - v \in Nat /\ PkpDataAvailable(a, b) = 8 * (u - v)
    BY <1>3, <1>4, <1>5 DEF u, v
  <2> QED  BY <2>1
<1>6. CASE ~(a >= b)
  <2>1. u - v + n \in Nat /\ PkpDataAvailable(a, b) = 8 * (u - v + n)
    BY <1>1, <1>2, <1>3, <1>4, <1>6 DEF u, v
  <2> QED  BY <2>1
<1> QED  BY <1>5, <1>6

(***************************************************************************)
(* PkWritePacketSingleMapped writes the cells that are less than the       *)
(* packet's size away from where it starts, folding included.              *)
(***************************************************************************)
LEMMA WrittenDistance ==
    ASSUME NEW a \in Offsets, NEW s \in Nat, TotalPacketSize(s) < DataBytesInRing,
           NEW o \in Offsets
    PROVE  o \div 8 \in WrittenCells(a, s) <=> PkpDataAvailable(o, a) < TotalPacketSize(s)
<1> DEFINE t == TotalPacketSize(s)
<1>1. t \in Nat /\ t % 8 = 0 /\ DataBytesInRing \in Nat /\ t \div 8 \in Nat /\ t = 8 * (t \div 8)
  BY TotalIsMultiple, RingSizeAssumption
<1>2. PkpDataAvailable(a, a) = 0
  BY BothWays
<1>3. ASSUME NEW k \in 0 .. (t \div 8) - 1
      PROVE  /\ Advance(a, 8 * k) \in Offsets
             /\ PkpDataAvailable(Advance(a, 8 * k), a) = 8 * k
  <2>1. 8 * k \in Nat /\ (8 * k) % 8 = 0 /\ 8 * k < DataBytesInRing
    BY <1>1
  <2>2. 0 + 8 * k < DataBytesInRing
    BY <2>1
  <2> QED  BY <1>2, <2>1, <2>2, AdvanceIsOffset, AdvanceAway
<1>4. ASSUME o \div 8 \in WrittenCells(a, s) PROVE PkpDataAvailable(o, a) < t
  <2>1. PICK k \in 0 .. (t \div 8) - 1 : o \div 8 = Advance(a, 8 * k) \div 8
    BY <1>4 DEF WrittenCells, CellAt
  <2>2. o = Advance(a, 8 * k)
    BY <1>3, <2>1, CellOfOffset
  <2> QED  BY <1>1, <1>3, <2>2
<1>5. ASSUME PkpDataAvailable(o, a) < t PROVE o \div 8 \in WrittenCells(a, s)
  <2>1. PICK k \in Nat : PkpDataAvailable(o, a) = 8 * k
    BY DistanceInCells
  <2>2. k \in 0 .. (t \div 8) - 1
    BY <1>1, <1>5, <2>1
  <2>3. Advance(a, 8 * k) = o
    <3>1. Advance(a, 8 * k) \in Offsets /\ PkpDataAvailable(Advance(a, 8 * k), a) = 8 * k
      BY <1>3, <2>2
    <3>2. CASE k = 0
      BY <2>1, <3>1, <3>2, BothWays
    <3>3. CASE k # 0
      <4>1. Advance(a, 8 * k) # a /\ o # a
        BY <1>2, <2>1, <3>1, <3>3
      <4>2. /\ PkpDataAvailable(a, Advance(a, 8 * k)) = DataBytesInRing - 8 * k
            /\ PkpDataAvailable(a, o) = DataBytesInRing - 8 * k
        BY <2>1, <3>1, <4>1, BothWays
      <4> QED  BY <3>1, <4>2, SameDistance
    <3> QED  BY <3>2, <3>3
  <2> QED  BY <2>2, <2>3 DEF WrittenCells, CellAt
<1> QED  BY <1>4, <1>5
-----------------------------------------------------------------------------
(***************************************************************************)
(* The invariant holds in an empty ring.                                   *)
(***************************************************************************)
LEMMA InitSInv == Init => SInv
<1> SUFFICES ASSUME Init PROVE SInv  OBVIOUS
<1>1. 0 \in Offsets
  BY RingSizeAssumption DEF Offsets
<1>2. Behind(0) = 0
  BY <1>1, BothWays DEF Init, Behind
<1>3. SendingKnown /\ Written /\ InHeld /\ PendingShown
  BY DEF Init, SendingKnown, Written, InHeld, PendingShown
<1>4. ReceiverState
  BY Zenon DEF Init, ReceiverState
<1>5. DataOwed /\ RoomOwed /\ NeverCorrupt
  BY Zenon DEF Init, DataOwed, RoomOwed, NeverCorrupt
<1>6. Packets
  <2> DEFINE d == [i \in 1 .. 1 |-> 0]
  <2>1. Len(fifo) = 0 /\ ReadPos = 0 /\ In = 0 /\ IncomingInCache = 0 /\ rpc # "copy"
        /\ IncomingOut = 0
    BY DEF Init, ReadPos
  <2>2. Chain(d)
    BY <1>2, <2>1 DEF Chain
  <2>3. d \in [1 .. Len(fifo) + 1 -> Nat]
    BY <2>1
  <2> QED  BY <2>2, <2>3, Zenon DEF Packets
<1> QED  BY <1>3, <1>4, <1>5, <1>6, Zenon DEF SInv

(***************************************************************************)
(* Neither endpoint changes what belongs to the other.                     *)
(***************************************************************************)
LEMMA SenderFrame ==
    ASSUME ReceiverStep \/ FlushOut \/ UNCHANGED vars
    PROVE  UNCHANGED <<In, PendingSendSize, data, OutgoingIn, OutgoingOutCache, ctxPending,
                       heldPending, spc, packet, oldIn, interruptMask>>
BY Zenon
DEF ReceiverStep, TakeInterrupt, GetReceiveBuffer, ReadHeader, CopyPacket, RemovePackets,
    ReadPendingSendSize, ReadIn, Unmask, FlushOut, vars, control, sender

(***************************************************************************)
(* What the steps of the sender leave alone.                               *)
(***************************************************************************)
LEMMA ReceiverFrame ==
    ASSUME SenderStep \/ FlushPending \/ FlushIn \/ UNCHANGED vars
    PROVE  UNCHANGED <<Out, InterruptMask, IncomingOut, IncomingInCache, rpc, ringOffset,
                       currentOffset, bufferLength, received, oldOut, pendingSeen>>
BY Zenon
DEF SenderStep, SendOngoing, SendPacket, TrySend, RetrySend, DropInterrupt, RereadOut,
    RecheckOut, WritePacket, CommitIn, ReadMask, ReadOut, FlushPending, FlushIn, vars, control,
    receiver

(***************************************************************************)
(* A call sends one of the packets there are, and FlushIn publishes it.    *)
(***************************************************************************)
LEMMA KnownStep ==
    ASSUME IInv, SInv, [Next]_vars
    PROVE  SendingKnown'
<1>0. SendingKnown /\ InHeld /\ packet \in [id : Ids, size : Nat]
  BY DEF IInv, SInv, TypeOK
<1> USE <1>0 DEF SendingKnown
<1>1. ASSUME NEW size \in PacketSizes, SendPacket(size) PROVE SendingKnown'
  BY <1>1 DEF SendPacket, TrySend, history
<1>2. CASE RetrySend \/ DropInterrupt
  BY <1>2 DEF RetrySend, TrySend, DropInterrupt, sender, history
<1>3. CASE RereadOut \/ RecheckOut
  BY <1>3 DEF RereadOut, RecheckOut
<1>4. CASE WritePacket \/ CommitIn \/ ReadMask
  BY <1>4 DEF WritePacket, CommitIn, ReadMask, history
<1>5. CASE ReadOut \/ FlushPending
  BY <1>5 DEF ReadOut, FlushPending, history
<1>6. CASE FlushIn
  <2>1. packet.size \in PacketSizes
    BY <1>6 DEF FlushIn, InHeld
  <2>2. [id |-> packet.id, size |-> AlignUp(packet.size)] \in Packet
    BY <2>1 DEF Packet
  <2> QED  BY <1>6, <2>1, <2>2 DEF FlushIn, sender
<1>7. CASE ReceiverStep \/ FlushOut \/ UNCHANGED vars
  <2>1. fifo' = fifo \/ (fifo # <<>> /\ fifo' = Tail(fifo))
    BY <1>7, Zenon
    DEF ReceiverStep, TakeInterrupt, GetReceiveBuffer, ReadHeader, CopyPacket, RemovePackets,
        ReadPendingSendSize, ReadIn, Unmask, FlushOut, vars, history
  <2> QED  BY <1>7, <2>1, SenderFrame
<1> QED
  BY <1>1, <1>2, <1>3, <1>4, <1>5, <1>6, <1>7 DEF Next, SenderStep, SendOngoing

(***************************************************************************)
(* The cells of the packet being sent, from WritePacket to CommitIn.       *)
(***************************************************************************)
LEMMA WrittenStep ==
    ASSUME IInv, SInv, [Next]_vars
    PROVE  Written'
<1>0. TypeOK /\ Written /\ RoomReserved /\ PointersInOrder
  BY DEF IInv, SInv
<1> SUFFICES ASSUME spc' = "commit", NEW o \in Offsets, NEW k \in Nat,
                    PkpDataAvailable(o, OutgoingIn)' = 8 * k, 8 * k < total'
             PROVE  data'[o \div 8] = [id |-> packet.id, size |-> AlignUp(packet.size), k |-> k]'
  BY DEF Written
<1>1. CASE WritePacket
  <2>1. UNCHANGED <<OutgoingIn, packet>> /\ spc = "write"
    BY <1>1 DEF WritePacket
  <2>2. total' = total /\ PkpDataAvailable(o, OutgoingIn) = 8 * k
    BY <2>1 DEF total
  <2>3. total < DataBytesInRing /\ packet.size \in Nat
    BY <1>0, <2>1, TotalType, BehindType, RingSizeAssumption DEF RoomReserved, TypeOK
  <2>4. o \div 8 \in Cells /\ 8 * (o \div 8) = o /\ OutgoingIn \in Offsets
    BY <1>0, CellOfOffset DEF TypeOK
  <2>5. o \div 8 \in WrittenCells(OutgoingIn, packet.size)
    BY <2>2, <2>3, <2>4, WrittenDistance DEF total
  <2>6. (8 * k) \div 8 = k
    OBVIOUS
  <2> QED  BY <1>1, <2>1, <2>2, <2>4, <2>5, <2>6 DEF WritePacket
<1>2. ASSUME spc = "commit", UNCHANGED <<OutgoingIn, packet, data>>
      PROVE  data'[o \div 8] = [id |-> packet.id, size |-> AlignUp(packet.size), k |-> k]'
  BY <1>0, <1>2 DEF Written, total
<1>3. ASSUME SenderStep, ~WritePacket PROVE FALSE
  BY <1>3 DEF SenderStep, SendOngoing, SendPacket, TrySend, RetrySend, DropInterrupt, RereadOut,
              RecheckOut, CommitIn, ReadMask, ReadOut, sender
<1>4. CASE FlushPending \/ FlushIn
  BY <1>2, <1>4, Zenon DEF FlushPending, FlushIn, sender
<1>5. CASE ReceiverStep \/ FlushOut \/ UNCHANGED vars
  BY <1>2, <1>5, SenderFrame, Zenon
<1> QED  BY <1>1, <1>3, <1>4, <1>5 DEF Next

(***************************************************************************)
(* A commit is published before the sender goes on.                        *)
(***************************************************************************)
LEMMA InHeldStep ==
    ASSUME IInv, SInv, [Next]_vars
    PROVE  InHeld'
<1>0. TypeOK /\ Written /\ InHeld /\ RoomReserved
  BY DEF IInv, SInv
<1>1. CASE CommitIn
  <2> DEFINE new == Advance(OutgoingIn, total)
  <2>1. /\ spc = "commit" /\ spc' = "readmask" /\ oldIn' = OutgoingIn /\ OutgoingIn' = new
        /\ UNCHANGED <<In, packet, data>>
    BY <1>1 DEF CommitIn, control
  <2>2. total \in Nat /\ total % 8 = 0 /\ total < DataBytesInRing /\ DataBytesInRing \in Nat
        /\ OutgoingIn \in Offsets
    BY <1>0, <2>1, TotalType, BehindType, RingSizeAssumption DEF RoomReserved, TypeOK
  <2>3. In = OutgoingIn /\ total' = total
    BY <1>0, <2>1 DEF InHeld, total
  <2>4. new \in Offsets /\ PkpDataAvailable(OutgoingIn, OutgoingIn) = 0
    BY <2>2, AdvanceIsOffset, BothWays
  <2>5. PkpDataAvailable(new, OutgoingIn) = total
    <3>1. PkpDataAvailable(OutgoingIn, OutgoingIn) + total < DataBytesInRing
      BY <2>2, <2>4
    <3> QED  BY <2>2, <2>4, <3>1, AdvanceAway
  <2> HIDE DEF new
  <2>6. Behind(In)' = total
    BY <2>1, <2>3, <2>5 DEF Behind
  <2>7. ASSUME NEW o \in Offsets, NEW k \in Nat,
               PkpDataAvailable(new, o) + 8 * k = total, 8 * k < AlignUp(packet.size) + TrailerSize
        PROVE  data[o \div 8] = [id |-> packet.id, size |-> AlignUp(packet.size), k |-> k]
    <3>1. PkpDataAvailable(new, o) \in Nat
      BY <2>4, DataAvailableIsDistance, RingSizeAssumption
    <3>2. PkpDataAvailable(o, OutgoingIn) = total - PkpDataAvailable(new, o)
      <4>1. PkpDataAvailable(new, OutgoingIn) >= PkpDataAvailable(new, o)
        BY <2>2, <2>5, <2>7, <3>1
      <4> QED  BY <2>2, <2>4, <2>5, <4>1, Between
    <3>3. PkpDataAvailable(o, OutgoingIn) = 8 * k
      BY <2>2, <2>7, <3>1, <3>2
    <3>4. 8 * k < total
      BY <2>7 DEF total, TotalPacketSize
    <3> QED  BY <1>0, <2>1, <3>3, <3>4 DEF Written
  <2>8. Holds(Sending, total)'
    BY <2>1, <2>3, <2>7 DEF Holds, Sending, Behind
  <2> QED  BY <2>1, <2>3, <2>6, <2>8 DEF InHeld
<1>2. ASSUME UNCHANGED <<In, OutgoingIn, packet, data, spc, oldIn>>
      PROVE  InHeld'
  BY <1>0, <1>2 DEF InHeld, Holds, Sending, Behind, total
<1>3. ASSUME SenderStep, ~CommitIn, In' # OutgoingIn' PROVE FALSE
  <2>1. UNCHANGED <<In, OutgoingIn>>
    BY <1>3, Zenon DEF SenderStep, SendOngoing, SendPacket, TrySend, RetrySend, DropInterrupt,
      RereadOut, RecheckOut, WritePacket, ReadMask, ReadOut, control, sender
  <2>2. spc = "readmask" /\ In # OutgoingIn
    BY <1>0, <1>3, <2>1 DEF InHeld
  <2> QED
    BY <1>3, <2>2 DEF SenderStep, SendOngoing, SendPacket, RetrySend, DropInterrupt,
      RereadOut, RecheckOut, WritePacket, ReadMask, ReadOut, SenderFlushed
<1>4. CASE FlushPending
  BY <1>2, <1>4, Zenon DEF FlushPending
<1>5. CASE FlushIn
  BY <1>5 DEF FlushIn, sender, InHeld
<1>6. CASE ReceiverStep \/ FlushOut \/ UNCHANGED vars
  BY <1>2, <1>6, SenderFrame, Zenon
<1> QED  BY <1>1, <1>3, <1>4, <1>5, <1>6 DEF Next, InHeld

(***************************************************************************)
(* PkpCheckSendBufferFreeBytes asks for the size of its packet.            *)
(***************************************************************************)
LEMMA PendingStep ==
    ASSUME IInv, SInv, [Next]_vars
    PROVE  PendingShown'
<1>0. TypeOK /\ PendingShown
  BY DEF IInv, SInv
<1>1. CASE RereadOut
  <2>1. spc' # "blocked" /\ UNCHANGED packet
    BY <1>1 DEF RereadOut
  <2>2. ASSUME spc' = "recheck" PROVE total < DataBytesInRing /\ heldPending' = total
    <3>1. total < DataBytesInRing /\ heldPending' = PublishedPendingSize(OutgoingIn)
      BY <1>1, <2>2 DEF RereadOut
    <3>2. PkpDataAvailable(OutgoingIn, OutgoingIn) = 0
      BY <1>0, BothWays DEF TypeOK
    <3>3. total \in Nat /\ DataBytesInRing \in Nat
      BY <1>0, TotalType, RingSizeAssumption
    <3> QED  BY <3>1, <3>2, <3>3 DEF PublishedPendingSize
  <2> QED  BY <2>1, <2>2 DEF PendingShown, total
<1>2. CASE RecheckOut
  <2>1. spc = "recheck" /\ heldPending = None /\ spc' # "recheck"
        /\ UNCHANGED <<packet, heldPending, PendingSendSize>>
    BY <1>2 DEF RecheckOut, SenderFlushed, control
  <2>2. total < DataBytesInRing /\ PendingSendSize = total
    <3>1. total # None
      BY <1>0, TotalType DEF None
    <3> QED  BY <1>0, <2>1, <3>1 DEF PendingShown
  <2> QED  BY <2>1, <2>2 DEF PendingShown, total
<1>3. CASE FlushPending
  <2>1. PendingSendSize' = heldPending /\ heldPending # None /\ heldPending' = None
        /\ UNCHANGED <<spc, packet>>
    BY <1>3 DEF FlushPending
  <2> QED  BY <1>0, <2>1 DEF PendingShown, total
<1>4. ASSUME UNCHANGED <<spc, packet, heldPending, PendingSendSize>> PROVE PendingShown'
  BY <1>0, <1>4 DEF PendingShown, total
<1>5. ASSUME spc' \notin {"recheck", "blocked"} PROVE PendingShown'
  BY <1>5 DEF PendingShown
<1>6. CASE SenderStep /\ ~RereadOut /\ ~RecheckOut
  BY <1>5, <1>6 DEF SenderStep, SendOngoing, SendPacket, TrySend, RetrySend, DropInterrupt,
                    WritePacket, CommitIn, ReadMask, ReadOut, sender
<1>7. CASE FlushIn
  BY <1>4, <1>7, Zenon DEF FlushIn, sender
<1>8. CASE ReceiverStep \/ FlushOut \/ UNCHANGED vars
  BY <1>4, <1>8, SenderFrame, Zenon
<1> QED  BY <1>1, <1>2, <1>3, <1>6, <1>7, <1>8 DEF Next

(***************************************************************************)
(* The packets of the history have the sizes PkSendPacketRaw gives them.   *)
(***************************************************************************)
LEMMA PacketSize ==
    ASSUME NEW p \in Packet
    PROVE  p.size \in Nat /\ p.size % 8 = 0 /\ p.size >= DescriptorSize /\ p.id \in Ids
<1>1. PICK s \in PacketSizes : p.size = AlignUp(s)
  BY DEF Packet
<1>2. s \in Nat /\ s >= DescriptorSize
  BY PacketSizesAssumption
<1>3. AlignUp(s) \in Nat /\ AlignUp(s) % 8 = 0 /\ AlignUp(s) >= s
  BY <1>2, TotalIsMultiple DEF AlignUp
<1> QED  BY <1>1, <1>2, <1>3 DEF Packet, DescriptorSize

(***************************************************************************)
(* PkGetReceiveBuffer finds the header of the first packet of the chain,   *)
(* and the whole packet before its copy of In.                             *)
(***************************************************************************)
LEMMA HeaderGood ==
    ASSUME IInv, SInv, rpc = "header", NEW d, Chain(d)
    PROVE  /\ Len(fifo) >= 1 /\ data[ringOffset \div 8].size = fifo[1].size
           /\ fifo[1].size \in Nat /\ fifo[1].size % 8 = 0 /\ fifo[1].size >= DescriptorSize
           /\ fifo[1].size + TrailerSize <= PkpDataAvailable(IncomingInCache, ringOffset)
           /\ Behind(ringOffset) = d[2] + fifo[1].size + TrailerSize
           /\ d[2] \in Nat
<1>0. /\ ringOffset \in Offsets /\ IncomingInCache \in Offsets /\ OutgoingIn \in Offsets
      /\ IncomingInCache # ringOffset /\ Behind(ringOffset) >= Behind(IncomingInCache)
      /\ fifo \in Seq(Packet) /\ Len(fifo) \in Nat
  BY DEF IInv, TypeOK, PointersInOrder, SInv, ReceiverState, SendingKnown
<1>1. /\ d \in [1 .. Len(fifo) + 1 -> Nat] /\ d[1] = Behind(ringOffset)
      /\ \A i \in 1 .. Len(fifo) : d[i] = d[i + 1] + fifo[i].size + TrailerSize
      /\ \A i, j \in 1 .. Len(fifo) + 1 : i < j => d[i] > d[j]
      /\ \A i \in 1 .. Len(fifo) : Holds(fifo[i], d[i])
  BY DEF Chain, ReadPos
<1>2. PICK j \in 1 .. Len(fifo) + 1 : d[j] = Behind(IncomingInCache)
  BY DEF Chain
<1>3. j # 1
  BY <1>0, <1>1, <1>2, SameDistance DEF Behind
<1>4. Len(fifo) >= 1 /\ 1 \in 1 .. Len(fifo) /\ 2 \in 1 .. Len(fifo) + 1 /\ j >= 2
  BY <1>0, <1>2, <1>3
<1>5. fifo[1].size \in Nat /\ fifo[1].size % 8 = 0 /\ fifo[1].size >= DescriptorSize
  <2>1. fifo[1] \in Packet
    BY <1>0, <1>4
  <2> QED  BY <2>1, PacketSize
<1>6. d[1] = d[2] + fifo[1].size + TrailerSize /\ d[2] \in Nat /\ d[j] \in Nat /\ d[1] \in Nat
  BY <1>1, <1>2, <1>4
<1>7. d[j] <= d[2]
  BY <1>1, <1>2, <1>4, <1>6
<1>8. PkpDataAvailable(IncomingInCache, ringOffset) = d[1] - d[j]
  BY <1>0, <1>1, <1>2, Between DEF Behind
<1>9. fifo[1].size + TrailerSize <= PkpDataAvailable(IncomingInCache, ringOffset)
  BY <1>5, <1>6, <1>7, <1>8, SMTT(30) DEF TrailerSize
<1>10. data[ringOffset \div 8] = [id |-> fifo[1].id, size |-> fifo[1].size, k |-> 0]
  <2>1. Behind(ringOffset) + 8 * 0 = d[1] /\ 8 * 0 < fifo[1].size + TrailerSize /\ 0 \in Nat
    BY <1>1, <1>5, <1>6, SMTT(30) DEF TrailerSize
  <2>2. Holds(fifo[1], d[1])
    BY <1>1, <1>4
  <2> QED  BY <1>0, <2>1, <2>2 DEF Holds
<1>11. data[ringOffset \div 8].size = fifo[1].size
  BY <1>10
<1>12. Behind(ringOffset) = d[2] + fifo[1].size + TrailerSize
  BY <1>1, <1>6, Zenon
<1> QED  BY <1>4, <1>5, <1>6, <1>9, <1>11, <1>12, Zenon

(***************************************************************************)
(* Every pointer in the control page is legal, and so is every header.     *)
(***************************************************************************)
LEMMA OffsetsValid ==
    ASSUME NEW p \in Offsets
    PROVE  PkpValidatePointer(p)
BY RingSizeAssumption DEF Offsets, PkpValidatePointer

(***************************************************************************)
(* PkGetReceiveBuffer accepts the header and moves past its packet.        *)
(***************************************************************************)
LEMMA HeaderNotBad ==
    ASSUME IInv, SInv, ReadHeader, NEW d, Chain(d)
    PROVE  /\ rpc' = "copy" /\ bufferLength' = fifo[1].size /\ currentOffset' = ringOffset
           /\ ringOffset' = Advance(ringOffset, fifo[1].size + TrailerSize)
           /\ (corrupt' => corrupt)
<1> DEFINE len == data[ringOffset \div 8].size
           bad == len < DescriptorSize
                  \/ len + TrailerSize > PkpDataAvailable(IncomingInCache, ringOffset)
<1>1. rpc = "header"
  BY DEF ReadHeader
<1>2. len = fifo[1].size /\ len \in Nat /\ len >= DescriptorSize
      /\ len + TrailerSize <= PkpDataAvailable(IncomingInCache, ringOffset)
  BY <1>1, HeaderGood
<1>3. PkpDataAvailable(IncomingInCache, ringOffset) \in Nat
  BY DataAvailableIsDistance, RingSizeAssumption DEF IInv, TypeOK
<1>4. ~bad
  BY <1>2, <1>3 DEF DescriptorSize, TrailerSize
<1>5. /\ bufferLength' = len /\ currentOffset' = ringOffset
      /\ ringOffset' = (IF bad THEN ringOffset ELSE Advance(ringOffset, len + TrailerSize))
      /\ rpc' = (IF bad THEN EndOfPass ELSE "copy")
      /\ corrupt' = (corrupt \/ bad)
  BY Zenon DEF ReadHeader
<1> HIDE DEF bad, len
<1>6. corrupt' => corrupt
  BY <1>4, <1>5, Zenon
<1>7. rpc' = "copy" /\ ringOffset' = Advance(ringOffset, len + TrailerSize)
  BY <1>4, <1>5, Zenon
<1> QED  BY <1>2, <1>5, <1>6, <1>7, Zenon

(***************************************************************************)
(* No check of a pointer or of a length fails.                             *)
(***************************************************************************)
LEMMA CorruptStep ==
    ASSUME IInv, SInv, [Next]_vars
    PROVE  NeverCorrupt'
<1>0. ~corrupt /\ In \in Offsets /\ Out \in Offsets /\ IncomingInCache \in Offsets
  BY DEF IInv, TypeOK, SInv, NeverCorrupt
<1>1. /\ PkpValidatePointer(In) /\ PkpValidatePointer(Out)
      /\ PkpValidatePointer(IncomingInCache)
  BY <1>0, OffsetsValid
<1> SUFFICES ~corrupt'
  BY DEF NeverCorrupt
<1>2. CASE ReadHeader
  <2>1. PICK d : Chain(d)
    BY DEF SInv, Packets
  <2> QED  BY <1>0, <1>2, <2>1, HeaderNotBad
<1>3. CASE GetReceiveBuffer
  <2>1. PkpValidatePointer(IF IncomingInCache = ringOffset THEN In ELSE IncomingInCache)
    BY <1>1, Zenon
  <2> QED  BY <1>0, <1>3, <2>1, Zenon DEF GetReceiveBuffer
<1>4. CASE RereadOut \/ RecheckOut \/ ReadOut
  BY <1>0, <1>1, <1>4, Zenon DEF RereadOut, RecheckOut, ReadOut
<1>5. CASE ReadIn
  BY <1>0, <1>1, <1>5, Zenon DEF ReadIn
<1>6. CASE \/ \E size \in PacketSizes : SendPacket(size)
           \/ RetrySend \/ DropInterrupt \/ WritePacket \/ CommitIn \/ ReadMask
  BY <1>0, <1>6, Zenon DEF SendPacket, RetrySend, TrySend, DropInterrupt, WritePacket, CommitIn,
                           ReadMask, history
<1>7. CASE \/ FlushPending \/ FlushIn \/ FlushOut \/ TakeInterrupt \/ CopyPacket
           \/ RemovePackets \/ ReadPendingSendSize \/ Unmask \/ UNCHANGED vars
  BY <1>0, <1>7, Zenon DEF FlushPending, FlushIn, FlushOut, TakeInterrupt, CopyPacket,
                           RemovePackets, ReadPendingSendSize, Unmask, vars, history
<1> QED
  BY <1>2, <1>3, <1>4, <1>5, <1>6, <1>7 DEF Next, SenderStep, SendOngoing, ReceiverStep

(***************************************************************************)
(* Between two passes the receiver stands at its Out, which is public but  *)
(* between PkCompleteRemoval's store and its barrier.                      *)
(***************************************************************************)
LEMMA ReceiverStateStep ==
    ASSUME IInv, SInv, [Next]_vars
    PROVE  ReceiverState'
<1>0. TypeOK /\ ReceiverState
  BY DEF IInv, SInv
<1>a. PkpValidatePointer(In)
  BY <1>0, OffsetsValid DEF TypeOK
<1>1. CASE SenderStep \/ FlushPending \/ FlushIn \/ UNCHANGED vars
  <2>1. UNCHANGED <<Out, InterruptMask, IncomingOut, IncomingInCache, rpc, ringOffset, received,
                    oldOut>>
    BY <1>1, ReceiverFrame
  <2>2. (received' <=> received) /\ (InterruptMask' <=> InterruptMask)
    BY <2>1, Zenon
  <2> QED  BY <1>0, <2>1, <2>2 DEF ReceiverState
<1>2. CASE TakeInterrupt
  <2>1. rpc' = "get" /\ ringOffset' = IncomingOut /\ UNCHANGED <<Out, IncomingOut>>
        /\ rpc = "idle"
    BY <1>2, Zenon DEF TakeInterrupt
  <2> QED  BY <1>0, <2>1 DEF ReceiverState
<1>3. CASE GetReceiveBuffer
  <2> DEFINE in == IF IncomingInCache = ringOffset THEN In ELSE IncomingInCache
  <2>1. rpc = "get" /\ UNCHANGED <<Out, IncomingOut, ringOffset>>
        /\ (received' <=> received) /\ (InterruptMask' <=> InterruptMask)
    BY <1>3, Zenon DEF GetReceiveBuffer, control
  <2>2. \/ rpc' = "header" /\ IncomingInCache' # ringOffset
        \/ rpc' = EndOfPass
    BY <1>3, Zenon DEF GetReceiveBuffer
  <2>3. CASE rpc' = "header" /\ IncomingInCache' # ringOffset
    BY <1>0, <2>1, <2>3 DEF ReceiverState
  <2>4. CASE rpc' = EndOfPass
    <3>1. CASE received
      BY <1>0, <2>1, <2>4, <3>1 DEF ReceiverState, EndOfPass
    <3>2. CASE ~received
      <4>1. rpc' = "unmask" \/ (rpc' = "idle" /\ ~InterruptMask')
        BY <2>1, <2>4, <3>2, Zenon DEF EndOfPass, Finished
      <4> QED  BY <1>0, <2>1, <3>2, <4>1 DEF ReceiverState
    <3> QED  BY <3>1, <3>2
  <2> QED  BY <2>2, <2>3, <2>4
<1>4. CASE ReadHeader
  <2>1. PICK d : Chain(d)
    BY DEF SInv, Packets
  <2>2. rpc' = "copy" /\ rpc = "header" /\ UNCHANGED <<Out, IncomingOut>>
    BY <1>4, <2>1, HeaderNotBad DEF ReadHeader, control
  <2> QED  BY <1>0, <2>2 DEF ReceiverState
<1>5. CASE CopyPacket
  <2>1. rpc' = "get" /\ received' /\ rpc = "copy" /\ UNCHANGED <<Out, IncomingOut>>
    BY <1>5, Zenon DEF CopyPacket, control
  <2> QED  BY <1>0, <2>1 DEF ReceiverState
<1>6. CASE RemovePackets
  <2>1. rpc = "remove" /\ rpc' = "readpending" /\ oldOut' = IncomingOut
        /\ IncomingOut' = ringOffset /\ UNCHANGED <<Out, ringOffset>>
    BY <1>6, Zenon DEF RemovePackets, control
  <2> QED  BY <1>0, <2>1 DEF ReceiverState
<1>7. CASE ReadPendingSendSize
  <2>1. rpc = "readpending" /\ rpc' = "readin" /\ Out = IncomingOut
        /\ UNCHANGED <<Out, IncomingOut, ringOffset>>
    BY <1>7, Zenon DEF ReadPendingSendSize, ReceiverFlushed, control
  <2> QED  BY <1>0, <2>1 DEF ReceiverState
<1>8. CASE ReadIn
  <2>1. rpc = "readin" /\ rpc' = "get" /\ UNCHANGED <<Out, IncomingOut, ringOffset>>
    BY <1>8, <1>a, Zenon DEF ReadIn, control
  <2> QED  BY <1>0, <2>1 DEF ReceiverState
<1>9. CASE FlushOut
  <2>1. Out' = IncomingOut /\ UNCHANGED <<IncomingOut, ringOffset, rpc, IncomingInCache>>
        /\ (received' <=> received) /\ (InterruptMask' <=> InterruptMask)
    BY <1>9, Zenon DEF FlushOut, receiver
  <2> QED  BY <1>0, <2>1 DEF ReceiverState
<1>10. CASE Unmask
  <2>1. rpc = "unmask" /\ rpc' = "get" /\ UNCHANGED <<Out, IncomingOut, ringOffset>>
    BY <1>10, Zenon DEF Unmask
  <2> QED  BY <1>0, <2>1 DEF ReceiverState
<1> QED
  BY <1>1, <1>2, <1>3, <1>4, <1>5, <1>6, <1>7, <1>8, <1>9, <1>10 DEF Next, ReceiverStep

(***************************************************************************)
(* No wakeup of the receiver is lost.  It goes to sleep when it finds the  *)
(* public In where it stands; a commit that is not public then is one      *)
(* whose sender has yet to read the mask and Out.                          *)
(***************************************************************************)
LEMMA DataOwedStep ==
    ASSUME IInv, SInv, [Next]_vars
    PROVE  DataOwed'
<1>0. TypeOK /\ ReceiverState /\ DataOwed /\ InHeld
  BY DEF IInv, SInv
<1>a. PkpValidatePointer(In) /\ PkpValidatePointer(Out) /\ PkpValidatePointer(IncomingInCache)
  BY <1>0, OffsetsValid DEF TypeOK
<1> SUFFICES ASSUME rpc' = "idle", ~irqReceiver', IncomingOut' # OutgoingIn'
             PROVE  /\ spc' \in {"readmask", "readout"} /\ oldIn' = IncomingOut'
                    /\ spc' = "readout" => ~interruptMask'
  BY DEF DataOwed
<1>1. CASE SenderStep \/ FlushPending \/ FlushIn \/ UNCHANGED vars
  <2>1. rpc = "idle" /\ ringOffset = IncomingOut /\ Out = IncomingOut /\ ~InterruptMask
        /\ IncomingOut' = IncomingOut
    BY <1>0, <1>1, ReceiverFrame DEF ReceiverState
  <2>2. ~irqReceiver
    BY <1>1, Zenon DEF SenderStep, SendOngoing, SendPacket, TrySend, RetrySend, DropInterrupt,
      RereadOut, RecheckOut, WritePacket, CommitIn, ReadMask, ReadOut, FlushPending, FlushIn,
      vars, interrupts
  <2>3. CASE CommitIn
    <3>1. spc = "commit" /\ spc' = "readmask" /\ oldIn' = OutgoingIn
      BY <2>3 DEF CommitIn
    <3>2. IncomingOut = OutgoingIn
      BY <1>0, <2>1, <2>2, <3>1 DEF DataOwed
    <3> QED  BY <2>1, <3>1, <3>2
  <2>4. CASE ~CommitIn
    <3>1. OutgoingIn' = OutgoingIn
      BY <1>1, <2>4, Zenon DEF SenderStep, SendOngoing, SendPacket, TrySend, RetrySend,
        DropInterrupt, RereadOut, RecheckOut, WritePacket, ReadMask, ReadOut, FlushPending,
        FlushIn, vars, sender
    <3>2. spc \in {"readmask", "readout"} /\ oldIn = IncomingOut
          /\ (spc = "readout" => ~interruptMask)
      BY <1>0, <2>1, <2>2, <3>1 DEF DataOwed
    <3>3. CASE ReadMask
      <4>1. spc' = "readout" /\ oldIn' = oldIn /\ (interruptMask' <=> InterruptMask)
        BY <3>3, Zenon DEF ReadMask
      <4> QED  BY <2>1, <3>2, <4>1
    <3>4. CASE ReadOut
      <4>1. spc = "readout" /\ irqReceiver'
        <5>1. spc = "readout"
          BY <3>4 DEF ReadOut
        <5>2. oldIn = Out /\ ~interruptMask
          BY <2>1, <3>2, <5>1
        <5> QED  BY <1>a, <3>4, <5>1, <5>2, Zenon DEF ReadOut, SignalNeeded
      <4> QED  BY <4>1
    <3>5. CASE ~ReadMask /\ ~ReadOut
      <4>1. UNCHANGED <<spc, oldIn>> /\ (interruptMask' => interruptMask)
        <5>1. spc # "write"
          BY <3>2
        <5>2. spc \notin {"idle", "blocked", "reread", "recheck"}
          BY <3>2
        <5>3. ~(\E size \in PacketSizes : SendPacket(size)) /\ ~DropInterrupt /\ ~RetrySend
          BY <5>2, Zenon DEF SendPacket, DropInterrupt, RetrySend
        <5>4. ~RereadOut /\ ~RecheckOut /\ ~WritePacket
          BY <5>1, <5>2, Zenon DEF RereadOut, RecheckOut, WritePacket
        <5>5. FlushPending \/ FlushIn \/ UNCHANGED vars
          BY <1>1, <2>4, <3>5, <5>3, <5>4, Zenon DEF SenderStep, SendOngoing
        <5>6. UNCHANGED <<spc, oldIn, interruptMask>>
          BY <5>5 DEF FlushPending, FlushIn, vars, sender
        <5> QED  BY <5>6, Zenon
      <4> QED  BY <2>1, <3>2, <4>1
    <3> QED  BY <3>3, <3>4, <3>5
  <2> QED  BY <2>3, <2>4
<1>2. CASE GetReceiveBuffer
  <2>1. rpc = "get" /\ UNCHANGED <<IncomingOut, spc, oldIn, OutgoingIn>>
    BY <1>2, Zenon DEF GetReceiveBuffer, sender
  <2> DEFINE in == IF IncomingInCache = ringOffset THEN In ELSE IncomingInCache
  <2>2. PkpValidatePointer(in)
    BY <1>a, Zenon
  <2>3. rpc' = IF PkpValidatePointer(in) /\ in # ringOffset THEN "header" ELSE EndOfPass
    BY <1>2, Zenon DEF GetReceiveBuffer
  <2>4. in = ringOffset /\ EndOfPass = "idle"
    BY <2>2, <2>3
  <2>5. ~received
    BY <2>4 DEF EndOfPass
  <2>6. In = IncomingOut
    <3>1. ringOffset = IncomingOut
      BY <1>0, <2>1, <2>5 DEF ReceiverState
    <3> QED  BY <2>4, <3>1
  <2> QED  BY <1>0, <2>1, <2>6 DEF InHeld
<1>3. CASE ReadHeader
  <2>1. PICK d : Chain(d)
    BY DEF SInv, Packets
  <2> QED  BY <1>3, <2>1, HeaderNotBad
<1>4. CASE ReadIn
  BY <1>4, <1>a, Zenon DEF ReadIn
<1>5. CASE TakeInterrupt \/ CopyPacket \/ RemovePackets \/ ReadPendingSendSize \/ Unmask
  BY <1>5 DEF TakeInterrupt, CopyPacket, RemovePackets, ReadPendingSendSize, Unmask
<1>6. CASE FlushOut
  <2>1. UNCHANGED <<rpc, IncomingOut, OutgoingIn, spc, oldIn>> /\ (irqReceiver => irqReceiver')
        /\ (interruptMask' => interruptMask)
    BY <1>6, Zenon DEF FlushOut, interrupts, sender, receiver
  <2> QED  BY <1>0, <2>1 DEF DataOwed
<1> QED  BY <1>1, <1>2, <1>3, <1>4, <1>5, <1>6 DEF Next, ReceiverStep

(***************************************************************************)
(* No wakeup of the sender is lost.  What it asked for is public before it *)
(* reads Out for the last time, and Out is public before the receiver      *)
(* reads what is asked for: one of the two sees the other's store.         *)
(***************************************************************************)
LEMMA RoomOwedStep ==
    ASSUME IInv, SInv, [Next]_vars
    PROVE  RoomOwed'
<1>0. TypeOK /\ ReceiverState /\ RoomOwed /\ PendingShown /\ InHeld
  BY DEF IInv, SInv
<1>a. PkpValidatePointer(In)
  BY <1>0, OffsetsValid DEF TypeOK
<1>b. total \in Nat /\ total >= 8 /\ DataBytesInRing \in Nat
  BY <1>0, TotalType, RingSizeAssumption
<1>c. \A p \in Offsets : Behind(p) \in Nat
  BY <1>0, <1>b, BehindType
<1>d. \A p \in Offsets : PkpFreeBytes(OutgoingIn, p) = DataBytesInRing - 1 - Behind(p)
  BY <1>0, FreeBytesIsComplement DEF TypeOK, Behind
<1> SUFFICES ASSUME spc' = "blocked", ~irqSender'
             PROVE  \/ (Behind(IncomingOut) + total >= DataBytesInRing)'
                    \/ rpc' = "readpending" /\ (Behind(oldOut) + total >= DataBytesInRing)'
                    \/ /\ rpc' = "readin" /\ pendingSeen' = total'
                       /\ (Behind(oldOut) + total >= DataBytesInRing)'
  BY DEF RoomOwed
<1>1. CASE RecheckOut
  <2>1. UNCHANGED <<OutgoingIn, packet, IncomingOut, oldOut, rpc>> /\ ~Fits(Out)
    BY <1>1 DEF RecheckOut, receiver
  <2>2. Behind(Out) + total >= DataBytesInRing
    BY <1>0, <1>b, <1>c, <1>d, <2>1 DEF Fits, TypeOK
  <2>3. Out = IncomingOut \/ (rpc = "readpending" /\ oldOut = Out)
    BY <1>0 DEF ReceiverState
  <2> QED  BY <2>1, <2>2, <2>3 DEF Behind, total
<1>2. ASSUME SenderStep, ~RecheckOut PROVE FALSE
  BY <1>2, Zenon DEF SenderStep, SendOngoing, SendPacket, TrySend, RetrySend, DropInterrupt,
    RereadOut, WritePacket, CommitIn, ReadMask, ReadOut, sender
<1>3. ASSUME UNCHANGED <<OutgoingIn, packet, IncomingOut, oldOut, rpc, pendingSeen, spc>>,
             irqSender => irqSender'
      PROVE  RoomOwed'
  BY <1>0, <1>3 DEF RoomOwed, Behind, total
<1>4. CASE FlushPending \/ FlushIn \/ FlushOut \/ UNCHANGED vars
  <2>1. UNCHANGED <<OutgoingIn, packet, IncomingOut, oldOut, rpc, pendingSeen, spc>>
    BY <1>4 DEF FlushPending, FlushIn, FlushOut, vars, sender, receiver
  <2>2. irqSender => irqSender'
    BY <1>4, Zenon DEF FlushPending, FlushIn, FlushOut, vars, interrupts
  <2> QED  BY <1>3, <2>1, <2>2 DEF RoomOwed
<1>5. CASE ReceiverStep
  <2>1. UNCHANGED <<OutgoingIn, packet, spc>>
    BY <1>5, SenderFrame
  <2>2. ~irqSender
    BY <1>5, Zenon DEF ReceiverStep, TakeInterrupt, GetReceiveBuffer, ReadHeader, CopyPacket,
      RemovePackets, ReadPendingSendSize, ReadIn, Unmask, interrupts
  <2>3. \/ Behind(IncomingOut) + total >= DataBytesInRing
        \/ rpc = "readpending" /\ Behind(oldOut) + total >= DataBytesInRing
        \/ /\ rpc = "readin" /\ pendingSeen = total
           /\ Behind(oldOut) + total >= DataBytesInRing
    BY <1>0, <2>1, <2>2 DEF RoomOwed
  <2>4. PendingSendSize = total /\ In = OutgoingIn
    BY <1>0, <2>1 DEF PendingShown, InHeld
  <2>5. CASE RemovePackets
    <3>1. rpc = "remove" /\ rpc' = "readpending" /\ oldOut' = IncomingOut
      BY <2>5 DEF RemovePackets
    <3> QED  BY <2>1, <2>3, <3>1 DEF Behind, total
  <2>6. CASE ReadPendingSendSize
    <3>1. /\ rpc = "readpending" /\ rpc' = "readin" /\ pendingSeen' = PendingSendSize
          /\ UNCHANGED <<oldOut, IncomingOut>>
      BY <2>6 DEF ReadPendingSendSize
    <3> QED  BY <2>1, <2>3, <2>4, <3>1 DEF Behind, total
  <2>7. CASE ReadIn
    <3>1. rpc = "readin" /\ UNCHANGED IncomingOut /\ (RoomMade(In) => irqSender')
      BY <1>a, <2>7, Zenon DEF ReadIn
    <3>2. ~RoomMade(In)
      BY <3>1
    <3>3. Behind(IncomingOut) + total >= DataBytesInRing
      BY <1>0, <1>b, <1>c, <1>d, <2>3, <2>4, <3>1, <3>2, SMTT(30) DEF RoomMade, TypeOK
    <3> QED  BY <2>1, <3>1, <3>3 DEF Behind, total
  <2>8. CASE TakeInterrupt \/ GetReceiveBuffer \/ ReadHeader \/ CopyPacket \/ Unmask
    <3>1. rpc \notin {"readpending", "readin"} /\ UNCHANGED IncomingOut
      BY <2>8, Zenon DEF TakeInterrupt, GetReceiveBuffer, ReadHeader, CopyPacket, Unmask
    <3> QED  BY <2>1, <2>3, <3>1 DEF Behind, total
  <2> QED  BY <1>5, <2>5, <2>6, <2>7, <2>8 DEF ReceiverStep
<1> QED  BY <1>1, <1>2, <1>4, <1>5 DEF Next
=============================================================================
