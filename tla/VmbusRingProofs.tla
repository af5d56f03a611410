-------------------------- MODULE VmbusRingProofs ---------------------------
(***************************************************************************)
(* Proofs about VmbusRing for every ring size, packet size and number of   *)
(* packets: the pointers stay in order around the ring, and no unread      *)
(* packet is ever overwritten.                                             *)
(***************************************************************************)
EXTENDS VmbusRing, TLAPS

(***************************************************************************)
(* On legal pointers the UINT32 arithmetic of PkpDataAvailable is the      *)
(* distance around the ring: the wrap-around of the subtraction and that   *)
(* of the ring cancel.                                                     *)
(***************************************************************************)
LEMMA DataAvailableIsDistance ==
    ASSUME NEW a \in Offsets, NEW b \in Offsets
    PROVE  /\ PkpDataAvailable(a, b) =
                IF a >= b THEN a - b ELSE a - b + DataBytesInRing
           /\ PkpDataAvailable(a, b) \in 0 .. DataBytesInRing - 1
BY RingSizeAssumption DEF PkpDataAvailable, Sub32, Add32, Offsets

(***************************************************************************)
(* PkpFreeBytes keeps one byte of what PkpDataAvailable leaves.            *)
(***************************************************************************)
LEMMA FreeBytesIsComplement ==
    ASSUME NEW a \in Offsets, NEW b \in Offsets
    PROVE  PkpFreeBytes(a, b) = DataBytesInRing - 1 - PkpDataAvailable(a, b)
BY RingSizeAssumption DEF PkpFreeBytes, PkpDataAvailable, Sub32, Add32, Offsets

(***************************************************************************)
(* A legal pointer advanced by less than the ring is a legal pointer.      *)
(***************************************************************************)
LEMMA AdvanceIsOffset ==
    ASSUME NEW p \in Offsets, NEW t \in Nat, t % 8 = 0, t < DataBytesInRing
    PROVE  Advance(p, t) \in Offsets
BY RingSizeAssumption DEF Advance, PkModuloReduce, Offsets

(***************************************************************************)
(* Moving a pointer t bytes towards In, with at least t bytes in between,  *)
(* shortens the distance by t.                                             *)
(***************************************************************************)
LEMMA AdvanceTowards ==
    ASSUME NEW a \in Offsets, NEW b \in Offsets, NEW t \in Nat, t % 8 = 0,
           t <= PkpDataAvailable(a, b)
    PROVE  PkpDataAvailable(a, Advance(b, t)) = PkpDataAvailable(a, b) - t
<1>1. t < DataBytesInRing  BY DataAvailableIsDistance, RingSizeAssumption
<1>2. Advance(b, t) \in Offsets  BY <1>1, AdvanceIsOffset
<1>3. PkpDataAvailable(a, b) =
        IF a >= b THEN a - b ELSE a - b + DataBytesInRing
  BY DataAvailableIsDistance
<1>4. PkpDataAvailable(a, Advance(b, t)) =
        IF a >= Advance(b, t) THEN a - Advance(b, t)
        ELSE a - Advance(b, t) + DataBytesInRing
  BY <1>2, DataAvailableIsDistance
<1>5. DataBytesInRing \in Nat /\ a \in 0 .. DataBytesInRing - 1
      /\ b \in 0 .. DataBytesInRing - 1
  BY RingSizeAssumption DEF Offsets
<1>6. QED  BY <1>1, <1>3, <1>4, <1>5 DEF Advance, PkModuloReduce

(***************************************************************************)
(* Moving In by t bytes moves it away from a pointer by t, as long as it   *)
(* does not reach that pointer.                                            *)
(***************************************************************************)
LEMMA AdvanceAway ==
    ASSUME NEW a \in Offsets, NEW b \in Offsets, NEW t \in Nat, t % 8 = 0,
           PkpDataAvailable(a, b) + t < DataBytesInRing
    PROVE  PkpDataAvailable(Advance(a, t), b) = PkpDataAvailable(a, b) + t
<1>1. t < DataBytesInRing  BY DataAvailableIsDistance, RingSizeAssumption
<1>2. Advance(a, t) \in Offsets  BY <1>1, AdvanceIsOffset
<1>3. PkpDataAvailable(a, b) =
        IF a >= b THEN a - b ELSE a - b + DataBytesInRing
  BY DataAvailableIsDistance
<1>4. PkpDataAvailable(Advance(a, t), b) =
        IF Advance(a, t) >= b THEN Advance(a, t) - b
        ELSE Advance(a, t) - b + DataBytesInRing
  BY <1>2, DataAvailableIsDistance
<1>5. DataBytesInRing \in Nat /\ a \in 0 .. DataBytesInRing - 1
      /\ b \in 0 .. DataBytesInRing - 1
  BY RingSizeAssumption DEF Offsets
<1>6. QED  BY <1>1, <1>3, <1>4, <1>5 DEF Advance, PkModuloReduce

(***************************************************************************)
(* The size a packet takes in the ring is a multiple of eight.             *)
(***************************************************************************)
LEMMA TotalIsMultiple ==
    ASSUME NEW s \in Nat
    PROVE  TotalPacketSize(s) \in Nat /\ TotalPacketSize(s) % 8 = 0
           /\ AlignUp(s) \in Nat /\ AlignUp(s) % 8 = 0
           /\ TotalPacketSize(s) >= 8
BY DEF TotalPacketSize, AlignUp, TrailerSize
-----------------------------------------------------------------------------
(***************************************************************************)
(* The strengthening: while a packet is being written, the room it needs   *)
(* was found by a copy of Out that is at least as old as the public one.   *)
(***************************************************************************)
RoomReserved ==
    spc \in {"write", "commit"} =>
        Behind(OutgoingOutCache) + total < DataBytesInRing

IInv == TypeOK /\ PointersInOrder /\ RoomReserved

(***************************************************************************)
(* The ring starts empty: PkpInitRingBufferControl sets every pointer to 0. *)
(***************************************************************************)
LEMMA InitIInv == Init => IInv
<1> SUFFICES ASSUME Init PROVE IInv  OBVIOUS
<1>1. 0 \in Offsets /\ DataBytesInRing \in Nat /\ DataBytesInRing > 0
  BY RingSizeAssumption DEF Offsets
<1>2. TypeOK
  <2>1. 0 \in {n \in Nat : n % 8 = 0} /\ 0 \in Ids
    BY MaxIdAssumption DEF Ids
  <2>2. data \in [Cells -> Cell]  BY <2>1 DEF Init, Cell
  <2>3. packet \in [id : Ids, size : Nat]  BY <2>1 DEF Init
  <2>4. heldPending \in -1 .. DataBytesInRing - 1 /\ 0 \in 0 .. DataBytesInRing - 1
    BY <1>1 DEF Init, None
  <2>5. QED  BY <1>1, <2>2, <2>3, <2>4 DEF Init, TypeOK
<1>3. PointersInOrder
  BY <1>1, DataAvailableIsDistance DEF Init, PointersInOrder, Behind
<1>4. RoomReserved  BY DEF Init, RoomReserved
<1>5. QED  BY <1>2, <1>3, <1>4 DEF IInv

(***************************************************************************)
(* The packet in the sender's hands takes a multiple of eight bytes.       *)
(***************************************************************************)
LEMMA TotalType == TypeOK => total \in Nat /\ total % 8 = 0 /\ total >= 8
BY TotalIsMultiple DEF TypeOK, total

(***************************************************************************)
(* Types are preserved by every step.  Only CommitIn needs more than the   *)
(* types: the packet it commits is smaller than the ring.                  *)
(***************************************************************************)
LEMMA TypeStep == TypeOK /\ RoomReserved /\ [Next]_vars => TypeOK'
<1> SUFFICES ASSUME TypeOK, RoomReserved, [Next]_vars PROVE TypeOK'  OBVIOUS
<1> USE DEF TypeOK
<1>0. DataBytesInRing \in Nat /\ DataBytesInRing > 0 /\ 0 \in Offsets
  BY RingSizeAssumption DEF Offsets
<1>1. ASSUME NEW size \in PacketSizes, SendPacket(size) PROVE TypeOK'
  <2>1. packet' \in [id : Ids, size : Nat]
    BY <1>1, PacketSizesAssumption, MaxIdAssumption DEF SendPacket, NextId, Ids
  <2>2. QED  BY <1>1, <2>1 DEF SendPacket, TrySend, control, receiver, history
<1>2. CASE RetrySend
  BY <1>2 DEF RetrySend, TrySend, control, receiver, history
<1>3. CASE DropInterrupt
  BY <1>3 DEF DropInterrupt, control, sender, receiver, history
<1>4. CASE RereadOut
  <2>1. total \in Nat /\ total >= 8  BY TotalType
  <2>2. PkpDataAvailable(OutgoingIn, OutgoingIn) \in 0 .. DataBytesInRing - 1
    BY DataAvailableIsDistance
  <2>3. PublishedPendingSize(OutgoingIn) \in 0 .. DataBytesInRing - 1
    BY <1>0, <2>1, <2>2 DEF PublishedPendingSize
  <2>4. heldPending' \in -1 .. DataBytesInRing - 1 /\ ctxPending' \in Nat
    BY <1>4, <1>0, <2>1, <2>3 DEF RereadOut, TrailerSize
  <2>5. OutgoingOutCache' \in Offsets /\ corrupt' \in BOOLEAN
        /\ spc' \in {"recheck", "write", "idle"}
    BY <1>4 DEF RereadOut
  <2>6. QED
    BY <1>4, <2>4, <2>5 DEF RereadOut, control, interrupts, receiver
<1>5. CASE RecheckOut
  <2>1. OutgoingOutCache' \in Offsets /\ corrupt' \in BOOLEAN
        /\ spc' \in {"blocked", "write", "idle"}
    BY <1>5 DEF RecheckOut
  <2>2. QED  BY <1>5, <2>1 DEF RecheckOut, control, interrupts, receiver
<1>6. CASE WritePacket
  <2>1. \A c \in Cells : 8 * c \in Offsets
    BY RingSizeAssumption DEF Cells, Offsets
  <2>2. \A c \in Cells : PkpDataAvailable(8 * c, OutgoingIn) \div 8 \in Nat
    BY <1>0, <2>1, DataAvailableIsDistance
  <2>3. AlignUp(packet.size) \in {n \in Nat : n % 8 = 0}
    BY TotalIsMultiple
  <2>4. data' \in [Cells -> Cell]
    BY <1>6, <2>2, <2>3 DEF WritePacket, Cell
  <2>5. heldPending' \in -1 .. DataBytesInRing - 1 /\ ctxPending' \in Nat
    BY <1>6, <1>0 DEF WritePacket
  <2>6. QED  BY <1>6, <2>4, <2>5 DEF WritePacket, interrupts, receiver, history
<1>7. CASE CommitIn
  <2>1. total \in Nat /\ total % 8 = 0  BY TotalType
  <2>2. total < DataBytesInRing
    BY <1>7, <1>0, <2>1, DataAvailableIsDistance DEF CommitIn, RoomReserved, Behind
  <2>3. Advance(OutgoingIn, total) \in Offsets  BY <2>1, <2>2, AdvanceIsOffset
  <2>4. QED  BY <1>7, <2>3 DEF CommitIn, control, interrupts, receiver, history
<1>8. CASE ReadMask
  BY <1>8 DEF ReadMask, control, interrupts, receiver, history
<1>9. CASE ReadOut
  BY <1>9, <1>0 DEF ReadOut, control, receiver
<1>10. CASE FlushPending
  BY <1>10, <1>0 DEF FlushPending, None, interrupts, receiver, history
<1>11. CASE FlushIn
  BY <1>11 DEF FlushIn, interrupts, sender, receiver
<1>12. CASE TakeInterrupt
  BY <1>12, PeerMasksAssumption DEF TakeInterrupt, sender, history
<1>13. CASE GetReceiveBuffer
  BY <1>13 DEF GetReceiveBuffer, EndOfPass, Finished, control, interrupts, sender
<1>14. CASE ReadHeader
  <2> DEFINE len == data[ringOffset \div 8].size
  <2>1. ringOffset \div 8 \in Cells
    BY RingSizeAssumption DEF Cells, Offsets
  <2>2. len \in Nat /\ len % 8 = 0  BY <2>1 DEF Cell
  <2>3. len + TrailerSize \in Nat /\ (len + TrailerSize) % 8 = 0
    BY <2>2 DEF TrailerSize
  <2>4. PkpDataAvailable(IncomingInCache, ringOffset) \in 0 .. DataBytesInRing - 1
    BY DataAvailableIsDistance
  <2>5. len + TrailerSize <= PkpDataAvailable(IncomingInCache, ringOffset)
          => Advance(ringOffset, len + TrailerSize) \in Offsets
    BY <1>0, <2>3, <2>4, AdvanceIsOffset
  <2>6. ringOffset' \in Offsets /\ bufferLength' \in Nat
    BY <1>14, <2>2, <2>3, <2>4, <2>5, <1>0 DEF ReadHeader
  <2>7. rpc' \in {"copy", "remove", "unmask", "idle"} /\ corrupt' \in BOOLEAN
        /\ currentOffset' \in Offsets
    BY <1>14 DEF ReadHeader, EndOfPass, Finished
  <2>8. QED
    BY <1>14, <2>6, <2>7, SMTT(30) DEF ReadHeader, control, interrupts, sender
<1>15. CASE CopyPacket
  BY <1>15, <1>0 DEF CopyPacket, control, interrupts, sender
<1>16. CASE RemovePackets
  BY <1>16 DEF RemovePackets, control, interrupts, sender, history
<1>17. CASE ReadPendingSendSize
  BY <1>17 DEF ReadPendingSendSize, control, interrupts, sender, history
<1>18. CASE ReadIn
  <2>1. irqSender' \in BOOLEAN  BY <1>18 DEF ReadIn, RoomMade
  <2>2. pendingSeen' \in 0 .. DataBytesInRing - 1 /\ oldOut' \in Offsets
        /\ IncomingInCache' \in Offsets
    BY <1>18, <1>0 DEF ReadIn
  <2>3. rpc' \in {"get", "unmask", "idle"} /\ received' \in BOOLEAN
        /\ corrupt' \in BOOLEAN
    BY <1>18 DEF ReadIn, Finished
  <2>4. QED  BY <1>18, <2>1, <2>2, <2>3 DEF ReadIn, control, sender
<1>19. CASE FlushOut
  BY <1>19 DEF FlushOut, interrupts, sender, receiver, history
<1>20. CASE Unmask
  BY <1>20 DEF Unmask, interrupts, sender, history
<1>21. CASE UNCHANGED vars
  BY <1>21, SMTT(30) DEF vars, control, interrupts, sender, receiver, history
<1>22. QED
  BY <1>1, <1>2, <1>3, <1>4, <1>5, <1>6, <1>7, <1>8, <1>9, <1>10, <1>11, <1>12,
     <1>13, <1>14, <1>15, <1>16, <1>17, <1>18, <1>19, <1>20, <1>21
  DEF Next, SenderStep, SendOngoing, ReceiverStep

(***************************************************************************)
(* Every pointer is less than a whole ring behind what was committed.      *)
(***************************************************************************)
LEMMA BehindType ==
    ASSUME TypeOK
    PROVE  \A p \in Offsets : Behind(p) \in 0 .. DataBytesInRing - 1
BY DataAvailableIsDistance DEF TypeOK, Behind

(***************************************************************************)
(* No step lets one copy of a pointer overtake the next one of the chain:  *)
(* each copy moves only to the value of its successor, except OutgoingIn,  *)
(* which moves into reserved room, and ringOffset, whose move the length   *)
(* check of PkGetReceiveBuffer bounds by the copy of In.                   *)
(***************************************************************************)
LEMMA OrderStep == IInv /\ [Next]_vars => PointersInOrder'
<1> SUFFICES ASSUME IInv, [Next]_vars PROVE PointersInOrder'  OBVIOUS
<1>0. TypeOK /\ PointersInOrder /\ RoomReserved  BY DEF IInv
<1>a. TypeOK'  BY <1>0, TypeStep
<1> DEFINE pointers == <<OutgoingIn, OutgoingOutCache, Out, IncomingOut,
                         ringOffset, IncomingInCache, In>>
<1>b. DataBytesInRing \in Nat /\ DataBytesInRing > 0
  BY RingSizeAssumption
<1>c. /\ Behind(OutgoingOutCache) \in Nat /\ Behind(Out) \in Nat
      /\ Behind(IncomingOut) \in Nat /\ Behind(ringOffset) \in Nat
      /\ Behind(IncomingInCache) \in Nat /\ Behind(In) \in Nat
  BY <1>0, <1>b, BehindType DEF TypeOK
<1>1. CASE UNCHANGED pointers
  BY <1>0, <1>1 DEF PointersInOrder, Behind
<1>2. ASSUME OutgoingIn' = OutgoingIn, OutgoingOutCache' = Out,
             UNCHANGED <<Out, IncomingOut, ringOffset, IncomingInCache, In>>
      PROVE  PointersInOrder'
  BY <1>0, <1>2, <1>c DEF PointersInOrder, Behind
<1>3. CASE CommitIn
  <2>1. total \in Nat /\ total % 8 = 0  BY <1>0, TotalType
  <2>2. Behind(OutgoingOutCache) + total < DataBytesInRing
    BY <1>0, <1>3 DEF CommitIn, RoomReserved
  <2>3. ASSUME NEW p \in Offsets, Behind(p) <= Behind(OutgoingOutCache)
        PROVE  PkpDataAvailable(OutgoingIn', p) = Behind(p) + total
    <3>1. Behind(p) \in Nat  BY <1>0, <1>b, BehindType
    <3>2. Behind(p) + total < DataBytesInRing
      BY <2>1, <2>2, <2>3, <3>1, <1>b, <1>c
    <3>3. OutgoingIn' = Advance(OutgoingIn, total)  BY <1>3 DEF CommitIn
    <3>4. QED  BY <1>0, <2>1, <3>2, <3>3, AdvanceAway DEF TypeOK, Behind
  <2>4. UNCHANGED <<OutgoingOutCache, Out, IncomingOut, ringOffset,
                    IncomingInCache, In>>
    BY <1>3 DEF CommitIn, control, receiver
  <2>5. /\ Behind(Out) <= Behind(OutgoingOutCache)
        /\ Behind(IncomingOut) <= Behind(OutgoingOutCache)
        /\ Behind(ringOffset) <= Behind(OutgoingOutCache)
        /\ Behind(IncomingInCache) <= Behind(OutgoingOutCache)
        /\ Behind(In) <= Behind(OutgoingOutCache)
    BY <1>0, <1>c DEF PointersInOrder
  <2>6. /\ Behind(OutgoingOutCache)' = Behind(OutgoingOutCache) + total
        /\ Behind(Out)' = Behind(Out) + total
        /\ Behind(IncomingOut)' = Behind(IncomingOut) + total
        /\ Behind(ringOffset)' = Behind(ringOffset) + total
        /\ Behind(IncomingInCache)' = Behind(IncomingInCache) + total
        /\ Behind(In)' = Behind(In) + total
    BY <1>0, <1>c, <2>3, <2>4, <2>5 DEF TypeOK, Behind
  <2>7. QED  BY <1>0, <1>c, <2>1, <2>6 DEF PointersInOrder
<1>4. CASE FlushIn
  <2>1. In' = OutgoingIn /\ UNCHANGED <<OutgoingIn, OutgoingOutCache, Out,
                                        IncomingOut, ringOffset, IncomingInCache>>
    BY <1>4 DEF FlushIn, sender, receiver
  <2>2. PkpDataAvailable(OutgoingIn, OutgoingIn) = 0
    BY <1>0, DataAvailableIsDistance, RingSizeAssumption DEF TypeOK, Offsets
  <2>3. QED  BY <1>0, <1>c, <2>1, <2>2 DEF PointersInOrder, Behind
<1>5. CASE TakeInterrupt
  <2>1. ringOffset' = IncomingOut /\ UNCHANGED <<OutgoingIn, OutgoingOutCache,
                                        Out, IncomingOut, IncomingInCache, In>>
    BY <1>5 DEF TakeInterrupt, sender
  <2>2. QED  BY <1>0, <1>c, <2>1 DEF PointersInOrder, Behind
<1>6. ASSUME \/ IncomingInCache' = In
             \/ IncomingInCache' = IncomingInCache,
             UNCHANGED <<OutgoingIn, OutgoingOutCache, Out, IncomingOut,
                         ringOffset, In>>
      PROVE  PointersInOrder'
  BY <1>0, <1>c, <1>6 DEF PointersInOrder, Behind
<1>7. CASE ReadHeader
  <2> DEFINE t == data[ringOffset \div 8].size + TrailerSize
  <2>1. UNCHANGED <<OutgoingIn, OutgoingOutCache, Out, IncomingOut,
                    IncomingInCache, In>>
    BY <1>7 DEF ReadHeader, control, sender
  <2>2. CASE ringOffset' = ringOffset
    BY <1>0, <2>1, <2>2 DEF PointersInOrder, Behind
  <2>3. CASE /\ ringOffset' = Advance(ringOffset, t)
             /\ t <= PkpDataAvailable(IncomingInCache, ringOffset)
    <3>1. ringOffset \div 8 \in Cells
      BY <1>0, RingSizeAssumption DEF TypeOK, Cells, Offsets
    <3>2. data[ringOffset \div 8].size \in {n \in Nat : n % 8 = 0}
      BY <1>0, <3>1 DEF TypeOK, Cell
    <3>3. t \in Nat /\ t % 8 = 0  BY <3>2 DEF TrailerSize
    <3>4. PkpDataAvailable(IncomingInCache, ringOffset)
            = Behind(ringOffset) - Behind(IncomingInCache)
      <4>1. /\ OutgoingIn \in 0 .. DataBytesInRing - 1
            /\ IncomingInCache \in 0 .. DataBytesInRing - 1
            /\ ringOffset \in 0 .. DataBytesInRing - 1
        BY <1>0 DEF TypeOK, Offsets
      <4>2. Behind(ringOffset) = IF OutgoingIn >= ringOffset
               THEN OutgoingIn - ringOffset
               ELSE OutgoingIn - ringOffset + DataBytesInRing
        BY <1>0, DataAvailableIsDistance DEF TypeOK, Behind
      <4>3. Behind(IncomingInCache) = IF OutgoingIn >= IncomingInCache
               THEN OutgoingIn - IncomingInCache
               ELSE OutgoingIn - IncomingInCache + DataBytesInRing
        BY <1>0, DataAvailableIsDistance DEF TypeOK, Behind
      <4>4. PkpDataAvailable(IncomingInCache, ringOffset) =
               IF IncomingInCache >= ringOffset
               THEN IncomingInCache - ringOffset
               ELSE IncomingInCache - ringOffset + DataBytesInRing
        BY <1>0, DataAvailableIsDistance DEF TypeOK
      <4>5. Behind(ringOffset) >= Behind(IncomingInCache)
        BY <1>0 DEF PointersInOrder
      <4>6. QED  BY <1>b, <4>1, <4>2, <4>3, <4>4, <4>5
    <3>5. t <= Behind(ringOffset) - Behind(IncomingInCache)
      BY <2>3, <3>4
    <3>6. t <= Behind(ringOffset)  BY <1>c, <3>3, <3>5
    <3>7. PkpDataAvailable(OutgoingIn, ringOffset') = Behind(ringOffset) - t
      BY <1>0, <2>3, <3>3, <3>6, AdvanceTowards DEF TypeOK, Behind
    <3>8. Behind(ringOffset)' = Behind(ringOffset) - t
      BY <2>1, <3>7 DEF Behind
    <3>9. QED
      BY <1>0, <1>c, <2>1, <3>3, <3>5, <3>8 DEF PointersInOrder, Behind
  <2>4. t > PkpDataAvailable(IncomingInCache, ringOffset)
          => ringOffset' = ringOffset
    BY <1>7 DEF ReadHeader
  <2>5. ringOffset' \in {ringOffset, Advance(ringOffset, t)}
    BY <1>7 DEF ReadHeader
  <2>6. t \in Int /\ PkpDataAvailable(IncomingInCache, ringOffset) \in Int
    <3>1. ringOffset \div 8 \in Cells
      BY <1>0, RingSizeAssumption DEF TypeOK, Cells, Offsets
    <3>2. QED
      BY <1>0, <3>1, DataAvailableIsDistance, <1>b DEF TypeOK, Cell, TrailerSize
  <2>7. QED  BY <2>2, <2>3, <2>4, <2>5, <2>6
<1>8. CASE RemovePackets
  <2>1. IncomingOut' = ringOffset /\ UNCHANGED <<OutgoingIn, OutgoingOutCache,
                                       Out, ringOffset, IncomingInCache, In>>
    BY <1>8 DEF RemovePackets, control, sender
  <2>2. QED  BY <1>0, <1>c, <2>1 DEF PointersInOrder, Behind
<1>9. CASE FlushOut
  <2>1. Out' = IncomingOut /\ UNCHANGED <<OutgoingIn, OutgoingOutCache,
                                IncomingOut, ringOffset, IncomingInCache, In>>
    BY <1>9 DEF FlushOut, sender, receiver
  <2>2. QED  BY <1>0, <1>c, <2>1 DEF PointersInOrder, Behind
<1>10. ASSUME RereadOut \/ RecheckOut \/ ReadOut PROVE PointersInOrder'
  <2>1. OutgoingOutCache' \in {Out, OutgoingOutCache}
        /\ UNCHANGED <<OutgoingIn, Out, IncomingOut, ringOffset,
                       IncomingInCache, In>>
    BY <1>10 DEF RereadOut, RecheckOut, ReadOut, control, receiver
  <2>2. QED  BY <1>1, <1>2, <2>1
<1>11. ASSUME GetReceiveBuffer \/ ReadIn PROVE PointersInOrder'
  <2>1. IncomingInCache' \in {In, IncomingInCache}
        /\ UNCHANGED <<OutgoingIn, OutgoingOutCache, Out, IncomingOut,
                       ringOffset, In>>
    BY <1>11 DEF GetReceiveBuffer, ReadIn, control, sender
  <2>2. QED  BY <1>6, <2>1
<1>12. ASSUME \/ \E size \in PacketSizes : SendPacket(size)
              \/ RetrySend \/ DropInterrupt \/ WritePacket \/ ReadMask
              \/ FlushPending \/ CopyPacket \/ ReadPendingSendSize \/ Unmask
              \/ UNCHANGED vars
       PROVE  PointersInOrder'
  <2>1. UNCHANGED pointers
    BY <1>12 DEF SendPacket, RetrySend, TrySend, DropInterrupt, WritePacket,
         ReadMask, FlushPending, CopyPacket, ReadPendingSendSize, Unmask, vars,
         control, interrupts, sender, receiver, history
  <2>2. QED  BY <1>1, <2>1
<1>13. QED
  BY <1>3, <1>4, <1>5, <1>7, <1>8, <1>9, <1>10, <1>11, <1>12
  DEF Next, SenderStep, SendOngoing, ReceiverStep

(***************************************************************************)
(* Room is reserved only after a comparison with PkpFreeBytes, and stays   *)
(* reserved until CommitIn, since only the sender moves OutgoingIn and     *)
(* its copy of Out.                                                        *)
(***************************************************************************)
LEMMA RoomStep == IInv /\ [Next]_vars => RoomReserved'
<1> SUFFICES ASSUME IInv, [Next]_vars, spc' \in {"write", "commit"}
             PROVE  (Behind(OutgoingOutCache) + total < DataBytesInRing)'
  BY DEF RoomReserved
<1>0. TypeOK /\ RoomReserved /\ TypeOK'  BY TypeStep DEF IInv
<1>b. DataBytesInRing \in Nat  BY RingSizeAssumption
<1>c. \A p, q \in Offsets :
         /\ PkpFreeBytes(p, q) = DataBytesInRing - 1 - PkpDataAvailable(p, q)
         /\ PkpDataAvailable(p, q) \in 0 .. DataBytesInRing - 1
  BY FreeBytesIsComplement, DataAvailableIsDistance
<1>1. ASSUME NEW size \in PacketSizes, SendPacket(size)
      PROVE  (Behind(OutgoingOutCache) + total < DataBytesInRing)'
  <2>1. PkpFreeBytes(OutgoingIn, OutgoingOutCache) >= TotalPacketSize(size)
    BY <1>1 DEF SendPacket, TrySend
  <2>2. TotalPacketSize(size) \in Nat
    BY PacketSizesAssumption, TotalIsMultiple
  <2>3. PkpDataAvailable(OutgoingIn, OutgoingOutCache) + TotalPacketSize(size)
          < DataBytesInRing
    BY <1>0, <1>b, <1>c, <2>1, <2>2 DEF TypeOK
  <2>4. packet'.size = size /\ UNCHANGED <<OutgoingIn, OutgoingOutCache>>
    BY <1>1 DEF SendPacket, TrySend
  <2>5. QED  BY <2>3, <2>4 DEF Behind, total
<1>2. CASE RetrySend
  <2>1. PkpFreeBytes(OutgoingIn, OutgoingOutCache) >= total
        /\ UNCHANGED <<OutgoingIn, OutgoingOutCache, packet>>
    BY <1>2 DEF RetrySend, TrySend
  <2>2. total \in Nat  BY <1>0, TotalType
  <2>3. PkpDataAvailable(OutgoingIn, OutgoingOutCache) + total < DataBytesInRing
    BY <1>0, <1>b, <1>c, <2>1, <2>2 DEF TypeOK
  <2>4. QED  BY <2>1, <2>3 DEF Behind, total
<1>3. ASSUME RereadOut \/ RecheckOut
      PROVE  (Behind(OutgoingOutCache) + total < DataBytesInRing)'
  <2>1. PkpFreeBytes(OutgoingIn, Out) >= total /\ OutgoingOutCache' = Out
        /\ UNCHANGED <<OutgoingIn, packet>>
    BY <1>3 DEF RereadOut, RecheckOut, Fits
  <2>2. total \in Nat  BY <1>0, TotalType
  <2>3. PkpDataAvailable(OutgoingIn, Out) + total < DataBytesInRing
    BY <1>0, <1>b, <1>c, <2>1, <2>2, SMTT(30) DEF TypeOK
  <2>4. QED  BY <2>1, <2>3 DEF Behind, total
<1>4. ASSUME spc \in {"write", "commit"},
             UNCHANGED <<OutgoingIn, OutgoingOutCache, packet>>
      PROVE  (Behind(OutgoingOutCache) + total < DataBytesInRing)'
  BY <1>0, <1>4 DEF RoomReserved, Behind, total
<1>5. ASSUME \/ WritePacket \/ FlushPending \/ FlushIn \/ FlushOut
             \/ ReceiverStep \/ DropInterrupt \/ UNCHANGED vars
      PROVE  (Behind(OutgoingOutCache) + total < DataBytesInRing)'
  <2>1. spc \in {"write", "commit"} /\ UNCHANGED <<OutgoingIn, OutgoingOutCache, packet>>
    BY <1>5 DEF WritePacket, FlushPending, FlushIn, FlushOut, ReceiverStep,
         TakeInterrupt, GetReceiveBuffer, ReadHeader, CopyPacket, RemovePackets,
         ReadPendingSendSize, ReadIn, Unmask, DropInterrupt, vars, sender
  <2>2. QED  BY <1>4, <2>1
<1>6. ~CommitIn /\ ~ReadMask /\ ~ReadOut  BY DEF CommitIn, ReadMask, ReadOut
<1>7. QED  BY <1>1, <1>2, <1>3, <1>5, <1>6 DEF Next, SenderStep, SendOngoing

(***************************************************************************)
(* The inductive invariant holds in every reachable state.                 *)
(***************************************************************************)
THEOREM RingInvariant == Spec => []IInv
<1>1. IInv /\ [Next]_vars => IInv'
  BY TypeStep, OrderStep, RoomStep DEF IInv
<1>2. QED  BY InitIInv, <1>1, PTL DEF Spec

(***************************************************************************)
(* Type correctness of the ring.                                           *)
(***************************************************************************)
THEOREM RingTypeCorrect == Spec => []TypeOK
<1>1. IInv => TypeOK  BY DEF IInv
<1>2. QED  BY RingInvariant, <1>1, PTL

(***************************************************************************)
(* For rings and packets of every size, no cached, held-back or public     *)
(* copy of a ring pointer overtakes the pointer it stays behind.           *)
(***************************************************************************)
THEOREM RingPointersInOrder == Spec => []PointersInOrder
<1>1. IInv => PointersInOrder  BY DEF IInv
<1>2. QED  BY RingInvariant, <1>1, PTL

(***************************************************************************)
(* For rings and packets of every size, PkSendPacketRaw never writes over  *)
(* a byte the receiver has not given back.                                 *)
(***************************************************************************)
THEOREM RingNoOverwrite == Spec => []NoOverwrite
<1>1. IInv => NoOverwrite
  <2> SUFFICES ASSUME IInv, spc \in {"write", "commit"}
               PROVE  Behind(Out) + total < DataBytesInRing
    BY DEF NoOverwrite
  <2>1. Behind(OutgoingOutCache) + total < DataBytesInRing
        /\ Behind(OutgoingOutCache) >= Behind(Out)
    BY DEF IInv, RoomReserved, PointersInOrder
  <2>a. TypeOK /\ OutgoingOutCache \in Offsets /\ Out \in Offsets
    BY DEF IInv, TypeOK
  <2>b. DataBytesInRing \in Nat
    BY RingSizeAssumption
  <2>2. Behind(OutgoingOutCache) \in Nat /\ Behind(Out) \in Nat
        /\ DataBytesInRing \in Nat
    BY BehindType, <2>a, <2>b
  <2>3. total \in Nat  BY TotalType DEF IInv
  <2>4. QED  BY <2>1, <2>2, <2>3
<1>2. QED  BY RingInvariant, <1>1, PTL

(***************************************************************************)
(* The three together, which the runs check on small rings.                *)
(***************************************************************************)
THEOREM RingSafe == Spec => []RingSound
<1>1. TypeOK /\ PointersInOrder /\ NoOverwrite => RingSound  BY DEF RingSound
<1>2. QED  BY RingTypeCorrect, RingPointersInOrder, RingNoOverwrite, <1>1, PTL
=============================================================================
