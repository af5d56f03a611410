----------------------- MODULE VmbusRingChannelProofs -----------------------
(***************************************************************************)
(* More proofs about VmbusRing for every ring size and packet size: the    *)
(* packets in the ring are those that were sent and not delivered, in      *)
(* order.  So the receiver reads whole packets in the order in which they  *)
(* were sent, the ring implements PacketChannel, and neither endpoint      *)
(* loses the wakeup it waits for, however stores are delayed.              *)
(***************************************************************************)
EXTENDS VmbusRingStateProofs

(***************************************************************************)
(* Writing a packet leaves the packets between the receiver's position and *)
(* what is committed alone, since there is room for it.                    *)
(***************************************************************************)
LEMMA WriteKeeps ==
    ASSUME IInv, SInv, WritePacket, NEW p \in Packet, NEW b \in Nat,
           b <= Behind(OutgoingOutCache), p.size + TrailerSize <= b, Holds(p, b)
    PROVE  Holds(p, b)'
<1>0. TypeOK /\ RoomReserved /\ spc = "write" /\ OutgoingIn' = OutgoingIn
  BY DEF IInv, WritePacket
<1>1. /\ total \in Nat /\ DataBytesInRing \in Nat /\ packet.size \in Nat
      /\ OutgoingIn \in Offsets /\ Behind(OutgoingOutCache) \in Nat
      /\ Behind(OutgoingOutCache) + total < DataBytesInRing
  BY <1>0, TotalType, BehindType, RingSizeAssumption, SMTT(30) DEF RoomReserved, TypeOK
<1>2. p.size \in Nat
  BY PacketSize
<1> SUFFICES ASSUME NEW o \in Offsets, NEW k \in Nat, Behind(o)' + 8 * k = b,
                    8 * k < p.size + TrailerSize
             PROVE  data'[o \div 8] = [id |-> p.id, size |-> p.size, k |-> k]
  BY DEF Holds
<1>3. Behind(o) + 8 * k = b /\ Behind(o) \in Nat
  BY <1>0, <1>1, BehindType DEF Behind
<1>4. Behind(o) > 0 /\ Behind(o) <= Behind(OutgoingOutCache)
  BY <1>1, <1>2, <1>3 DEF TrailerSize
<1>5. PkpDataAvailable(o, OutgoingIn) = DataBytesInRing - Behind(o)
  BY <1>1, <1>4, BothWays DEF Behind
<1>6. ~(PkpDataAvailable(o, OutgoingIn) < TotalPacketSize(packet.size))
  BY <1>1, <1>3, <1>4, <1>5 DEF total
<1>7. o \div 8 \in Cells /\ o \div 8 \notin WrittenCells(OutgoingIn, packet.size)
  BY <1>1, <1>6, CellOfOffset, WrittenDistance DEF total
<1>8. data'[o \div 8] = data[o \div 8]
  BY <1>7 DEF WritePacket
<1> QED  BY <1>3, <1>8 DEF Holds

(***************************************************************************)
(* What the chain looks like from outside: every packet of it lies between *)
(* the sender's copy of Out and what is committed.                         *)
(***************************************************************************)
LEMMA ChainFacts ==
    ASSUME IInv, SInv, NEW d, Chain(d)
    PROVE  /\ Len(fifo) \in Nat /\ fifo \in Seq(Packet) /\ d \in [1 .. Len(fifo) + 1 -> Nat]
           /\ \A i \in 1 .. Len(fifo) + 1 : d[i] \in Nat /\ d[i] <= Behind(OutgoingOutCache)
           /\ \A i \in 1 .. Len(fifo) : /\ fifo[i] \in Packet /\ fifo[i].size \in Nat
                                        /\ fifo[i].size + TrailerSize <= d[i]
<1>1. Len(fifo) \in Nat /\ fifo \in Seq(Packet) /\ d \in [1 .. Len(fifo) + 1 -> Nat]
  BY SMTT(30) DEF SInv, SendingKnown, Chain
<1>2. \A p \in Offsets : Behind(p) \in Nat
  BY BehindType, RingSizeAssumption DEF IInv
<1>3. Behind(IncomingOut) <= Behind(OutgoingOutCache)
  BY <1>2 DEF IInv, TypeOK, PointersInOrder
<1>4. \A i \in 1 .. Len(fifo) + 1 : d[i] \in Nat /\ d[i] <= d[1] /\ d[1] \in Nat
  BY <1>1 DEF Chain
<1>5. ASSUME NEW i \in 1 .. Len(fifo) + 1 PROVE d[i] <= Behind(OutgoingOutCache)
  <2>1. Behind(IncomingOut) \in Nat /\ Behind(OutgoingOutCache) \in Nat
    BY <1>2 DEF IInv, TypeOK
  <2>2. d[1] <= Behind(IncomingOut)
    BY DEF Chain
  <2> QED  BY <1>3, <1>4, <2>1, <2>2
<1>6. ASSUME NEW i \in 1 .. Len(fifo)
      PROVE  /\ fifo[i] \in Packet /\ fifo[i].size \in Nat
             /\ fifo[i].size + TrailerSize <= d[i]
  <2>1. fifo[i] \in Packet
    BY <1>1
  <2>2. fifo[i].size \in Nat
    BY <2>1, PacketSize
  <2>3. i + 1 \in 1 .. Len(fifo) + 1 /\ d[i] = d[i + 1] + fifo[i].size + TrailerSize
    BY <1>1 DEF Chain
  <2> QED  BY <1>4, <2>1, <2>2, <2>3 DEF TrailerSize
<1> QED  BY <1>1, <1>4, <1>5, <1>6

(***************************************************************************)
(* Writing into the room behind In leaves the chain as it is.              *)
(***************************************************************************)
LEMMA ChainWrite ==
    ASSUME IInv, SInv, WritePacket, NEW d, Chain(d)
    PROVE  Chain(d)'
<1>1. UNCHANGED <<In, OutgoingIn, IncomingOut, IncomingInCache, rpc, ringOffset, currentOffset,
                  bufferLength, fifo>>
  BY DEF WritePacket, receiver, history
<1>2. ASSUME NEW i \in 1 .. Len(fifo) PROVE Holds(fifo[i], d[i])'
  <2>1. Holds(fifo[i], d[i]) /\ i \in 1 .. Len(fifo) + 1
    BY ChainFacts, SMTT(30) DEF Chain
  <2>2. /\ fifo[i] \in Packet /\ d[i] \in Nat /\ d[i] <= Behind(OutgoingOutCache)
        /\ fifo[i].size + TrailerSize <= d[i]
    BY <2>1, ChainFacts
  <2>3. PICK p \in Packet : p = fifo[i]
    BY <2>2
  <2>4. Holds(p, d[i])'
    BY <2>1, <2>2, <2>3, WriteKeeps
  <2>5. fifo'[i] = p
    BY <1>1, <2>3
  <2> QED  BY <2>4, <2>5 DEF Holds
<1> QED  BY <1>1, <1>2 DEF Chain, ReadPos, Behind

(***************************************************************************)
(* A commit moves the end of the ring away from the whole chain.           *)
(***************************************************************************)
LEMMA ChainCommit ==
    ASSUME IInv, SInv, CommitIn, NEW d, Chain(d)
    PROVE  Packets'
<1> DEFINE n == Len(fifo)
<1>1. /\ OutgoingIn' = Advance(OutgoingIn, total) /\ spc = "commit"
      /\ UNCHANGED <<In, IncomingOut, IncomingInCache, rpc, ringOffset, currentOffset,
                     bufferLength, fifo, data>>
  BY DEF CommitIn, control, receiver, history
<1>2. /\ total \in Nat /\ total % 8 = 0 /\ DataBytesInRing \in Nat /\ OutgoingIn \in Offsets
      /\ Behind(OutgoingOutCache) \in Nat /\ Behind(OutgoingOutCache) + total < DataBytesInRing
      /\ total < DataBytesInRing
  BY <1>1, TotalType, BehindType, RingSizeAssumption, SMTT(30) DEF IInv, RoomReserved, TypeOK
<1>b. total \in Nat /\ DataBytesInRing \in Nat /\ total < DataBytesInRing
  BY <1>2
<1>3. /\ n \in Nat /\ d \in [1 .. n + 1 -> Nat]
      /\ \A i \in 1 .. n + 1 : d[i] \in Nat /\ d[i] <= Behind(OutgoingOutCache)
      /\ \A i \in 1 .. n : fifo[i].size \in Nat /\ fifo[i].size + TrailerSize <= d[i]
  BY ChainFacts
<1>4. ASSUME NEW p \in Offsets
      PROVE  /\ Behind(p) \in Nat /\ Behind(p) < DataBytesInRing
             /\ Behind(p)' = IF Behind(p) + total < DataBytesInRing THEN Behind(p) + total
                             ELSE Behind(p) + total - DataBytesInRing
  <2>1. Behind(p) \in Nat /\ Behind(p) < DataBytesInRing
    BY <1>2, BehindType DEF IInv
  <2> QED  BY <1>1, <1>2, <2>1, StepAround DEF Behind
<1>5. ASSUME NEW p \in Offsets, Behind(p) <= Behind(OutgoingOutCache)
      PROVE  Behind(p)' = Behind(p) + total
  BY <1>2, <1>4, <1>5
<1>6. /\ ReadPos \in Offsets /\ IncomingOut \in Offsets /\ In \in Offsets
      /\ IncomingInCache \in Offsets /\ ringOffset \in Offsets
  BY DEF IInv, TypeOK, ReadPos
<1>7. /\ Behind(IncomingOut) <= Behind(OutgoingOutCache) /\ Behind(In) <= Behind(OutgoingOutCache)
      /\ Behind(IncomingInCache) <= Behind(OutgoingOutCache)
      /\ Behind(ringOffset) <= Behind(OutgoingOutCache)
  <2>1. PointersInOrder /\ Out \in Offsets /\ OutgoingOutCache \in Offsets
    BY DEF IInv, TypeOK
  <2>2. /\ Behind(OutgoingOutCache) \in Nat /\ Behind(Out) \in Nat
        /\ Behind(IncomingOut) \in Nat /\ Behind(ringOffset) \in Nat
        /\ Behind(IncomingInCache) \in Nat /\ Behind(In) \in Nat
    BY <1>4, <1>6, <2>1
  <2> QED  BY <2>1, <2>2 DEF PointersInOrder
<1>8. d[1] = Behind(ReadPos) /\ d[1] <= Behind(IncomingOut) /\ d[n + 1] = Behind(In)
      /\ 1 \in 1 .. n + 1 /\ n + 1 \in 1 .. n + 1
  BY <1>3, SMTT(30) DEF Chain
<1>9. /\ Behind(ReadPos)' = d[1] + total /\ Behind(In)' = d[n + 1] + total
      /\ Behind(IncomingOut)' = Behind(IncomingOut) + total
  <2>1. Behind(ReadPos) <= Behind(OutgoingOutCache)
    BY <1>3, <1>8
  <2>2. ReadPos' = ReadPos
    BY <1>1 DEF ReadPos
  <2>3. PkpDataAvailable(OutgoingIn', ReadPos) = Behind(ReadPos) + total
    BY <1>5, <1>6, <2>1 DEF Behind
  <2>4. /\ PkpDataAvailable(OutgoingIn', In) = Behind(In) + total
        /\ PkpDataAvailable(OutgoingIn', IncomingOut) = Behind(IncomingOut) + total
    BY <1>5, <1>6, <1>7 DEF Behind
  <2> QED  BY <1>1, <1>8, <2>2, <2>3, <2>4 DEF Behind
<1>10. PICK e \in [1 .. n + 1 -> Nat] : \A i \in 1 .. n + 1 : e[i] = d[i] + total
  <2>1. [i \in 1 .. n + 1 |-> d[i] + total] \in [1 .. n + 1 -> Nat]
    BY <1>b, <1>3, SMTT(30)
  <2> QED  BY <2>1
<1>11. ASSUME NEW i \in 1 .. n PROVE Holds(fifo[i], e[i])'
  <2>1. Holds(fifo[i], d[i]) /\ fifo'[i] = fifo[i] /\ i \in 1 .. n + 1
    BY <1>1, <1>3, SMTT(30) DEF Chain
  <2>2. d[i] \in Nat /\ fifo[i].size \in Nat /\ fifo[i].size + TrailerSize <= d[i]
        /\ e[i] = d[i] + total /\ d[i] <= Behind(OutgoingOutCache)
    BY <1>3, <1>10, <2>1
  <2>3. ASSUME NEW o \in Offsets, NEW k \in Nat, Behind(o)' + 8 * k = e[i],
               8 * k < fifo[i].size + TrailerSize
        PROVE  Behind(o) + 8 * k = d[i]
    <3>1. Behind(o) \in Nat /\ Behind(o) < DataBytesInRing
          /\ Behind(o)' = IF Behind(o) + total < DataBytesInRing THEN Behind(o) + total
                          ELSE Behind(o) + total - DataBytesInRing
      BY <1>4
    <3>2. 8 * k \in Nat /\ 8 * k < d[i] + 1 /\ Behind(o)' + 8 * k = d[i] + total
      BY <2>2, <2>3, SMTT(30) DEF TrailerSize
    <3>3. Behind(o) + total < DataBytesInRing
      BY <1>b, <2>2, <3>1, <3>2, SMTT(30)
    <3>4. Behind(o)' = Behind(o) + total /\ Behind(o) \in Nat
      BY <3>1, <3>3
    <3>5. d[i] \in Nat
      BY <2>2
    <3> QED  BY <1>b, <3>2, <3>4, <3>5
  <2>4. ASSUME NEW o \in Offsets, NEW k \in Nat, Behind(o)' + 8 * k = e[i],
               8 * k < fifo[i].size + TrailerSize
        PROVE  data'[o \div 8] = [id |-> fifo[i].id, size |-> fifo[i].size, k |-> k]
    <3>1. Behind(o) + 8 * k = d[i]
      BY <2>3, <2>4
    <3> QED  BY <1>1, <2>1, <2>4, <3>1 DEF Holds
  <2> QED  BY <2>1, <2>4, SMTT(30) DEF Holds
<1>12. PICK j \in 1 .. n + 1 : d[j] = Behind(IncomingInCache)
  BY DEF Chain
<1>13. e[j] = Behind(IncomingInCache)'
  <2>1. PkpDataAvailable(OutgoingIn', IncomingInCache) = Behind(IncomingInCache) + total
    BY <1>5, <1>6, <1>7 DEF Behind
  <2> QED  BY <1>1, <1>10, <1>12, <2>1 DEF Behind
<1>14. ASSUME rpc = "copy"
       PROVE  n >= 1 /\ bufferLength = fifo[1].size /\ e[2] = Behind(ringOffset)'
  <2>1. n >= 1 /\ bufferLength = fifo[1].size /\ d[2] = Behind(ringOffset)
    BY <1>14 DEF Chain
  <2>2. 2 \in 1 .. n + 1
    BY <1>3, <2>1
  <2>3. PkpDataAvailable(OutgoingIn', ringOffset) = Behind(ringOffset) + total
    BY <1>5, <1>6, <1>7 DEF Behind
  <2> QED  BY <1>1, <1>10, <2>1, <2>2, <2>3 DEF Behind
<1>15. ASSUME NEW i \in 1 .. n PROVE e[i] = e[i + 1] + fifo[i].size + TrailerSize
  <2>1. i \in 1 .. n + 1 /\ i + 1 \in 1 .. n + 1
    BY <1>3, SMTT(30)
  <2>2. d[i] = d[i + 1] + fifo[i].size + TrailerSize
    BY DEF Chain
  <2>3. e[i] = d[i] + total /\ e[i + 1] = d[i + 1] + total
    BY <1>10, <2>1
  <2>4. d[i + 1] \in Nat /\ fifo[i].size \in Nat /\ total \in Nat /\ TrailerSize \in Nat
    BY <1>b, <1>3, <2>1 DEF TrailerSize
  <2>5. PICK u \in Nat, v \in Nat, w \in Nat, t \in Nat :
           u = d[i + 1] /\ v = fifo[i].size /\ w = TrailerSize /\ t = total
    BY <2>4
  <2>6. d[i] = u + v + w /\ e[i] = d[i] + t /\ e[i + 1] = u + t
    BY <2>2, <2>3, <2>5
  <2>7. e[i] = e[i + 1] + v + w
    BY <2>6
  <2> QED  BY <2>5, <2>7
<1>16. ASSUME NEW i \in 1 .. n + 1, NEW k \in 1 .. n + 1, i < k PROVE e[i] > e[k]
  <2>1. d[i] > d[k] /\ d[i] \in Nat /\ d[k] \in Nat /\ e[i] = d[i] + total /\ e[k] = d[k] + total
    BY <1>3, <1>10, <1>16 DEF Chain
  <2> QED  BY <1>2, <2>1, SMTT(30)
<1>17. e[1] <= Behind(IncomingOut)'
  <2>1. Behind(IncomingOut) \in Nat /\ d[1] \in Nat
    BY <1>3, <1>4, <1>6, <1>8
  <2> QED  BY <1>b, <1>8, <1>9, <1>10, <2>1
<1>18. Chain(e)'
  BY <1>1, <1>8, <1>9, <1>10, <1>11, <1>12, <1>13, <1>14, <1>15, <1>16, <1>17 DEF Chain
<1> QED  BY <1>1, <1>10, <1>18 DEF Packets

(***************************************************************************)
(* The steps that leave the packets alone: the receiver's position stays,  *)
(* and its copies of the pointers move to others of the chain.             *)
(***************************************************************************)
LEMMA ChainFrame ==
    ASSUME NEW d, Chain(d), UNCHANGED <<In, OutgoingIn, fifo, data>>, ReadPos' = ReadPos,
           IncomingOut' \in {IncomingOut, ReadPos}, IncomingInCache' \in {IncomingInCache, In},
           Behind(ReadPos) \in Nat, Len(fifo) \in Nat,
           rpc' = "copy" => /\ Len(fifo) >= 1 /\ bufferLength' = fifo[1].size
                            /\ d[2] = PkpDataAvailable(OutgoingIn, ringOffset')
    PROVE  Packets'
<1>1. ASSUME NEW o PROVE Behind(o)' = Behind(o)
  BY DEF Behind
<1>2. d[1] = Behind(ReadPos)' /\ d[Len(fifo) + 1] = Behind(In)'
  BY DEF Chain, Behind
<1>3. d[1] <= Behind(IncomingOut)'
  <2>1. d[1] = Behind(ReadPos) /\ d[1] <= Behind(IncomingOut)
    BY DEF Chain
  <2>2. Behind(ReadPos) <= Behind(ReadPos)
    OBVIOUS
  <2>3. CASE IncomingOut' = IncomingOut
    BY <2>1, <2>3 DEF Behind
  <2>4. CASE IncomingOut' = ReadPos
    BY <2>1, <2>2, <2>4 DEF Behind
  <2> QED  BY <2>3, <2>4
<1>4. \E j \in 1 .. Len(fifo) + 1 : d[j] = Behind(IncomingInCache)'
  <2>1. CASE IncomingInCache' = IncomingInCache
    BY <2>1 DEF Chain, Behind
  <2>2. CASE IncomingInCache' = In
    BY <2>2, SMTT(30) DEF Chain, Behind
  <2> QED  BY <2>1, <2>2
<1>5. ASSUME NEW i \in 1 .. Len(fifo) PROVE Holds(fifo[i], d[i])'
  <2>1. Holds(fifo[i], d[i])
    BY DEF Chain
  <2> QED  BY <2>1 DEF Holds, Behind
<1>6. Chain(d)'
  <2>1. /\ d \in [1 .. Len(fifo) + 1 -> Nat]
        /\ \A i \in 1 .. Len(fifo) : d[i] = d[i + 1] + fifo[i].size + TrailerSize
        /\ \A i, j \in 1 .. Len(fifo) + 1 : i < j => d[i] > d[j]
    BY DEF Chain
  <2>2. rpc' = "copy" => /\ Len(fifo) >= 1 /\ bufferLength' = fifo[1].size
                         /\ d[2] = Behind(ringOffset)'
    BY DEF Behind
  <2> QED  BY <1>2, <1>3, <1>4, <1>5, <2>1, <2>2 DEF Chain
<1> QED  BY <1>6 DEF Packets, Chain

(***************************************************************************)
(* Publishing In puts the committed packet at the end of the chain.        *)
(***************************************************************************)
LEMMA ChainFlush ==
    ASSUME IInv, SInv, FlushIn, NEW d, Chain(d)
    PROVE  Packets'
<1> DEFINE n == Len(fifo)
<1>1. /\ In # OutgoingIn /\ In' = OutgoingIn /\ fifo' = Append(fifo, Sending)
      /\ UNCHANGED <<OutgoingIn, IncomingOut, IncomingInCache, rpc, ringOffset, currentOffset,
                     bufferLength, data>>
  BY DEF FlushIn, sender, receiver, Sending
<1>2. Behind(In) = total /\ Holds(Sending, total)
  BY <1>1 DEF SInv, InHeld
<1>3. /\ n \in Nat /\ fifo \in Seq(Packet) /\ d \in [1 .. n + 1 -> Nat]
      /\ \A i \in 1 .. n + 1 : d[i] \in Nat
  BY ChainFacts
<1>4. /\ total \in Nat /\ total >= 8 /\ total = Sending.size + TrailerSize
      /\ Behind(OutgoingIn) = 0
  <2>1. TypeOK /\ OutgoingIn \in Offsets
    BY DEF IInv, TypeOK
  <2>2. total \in Nat /\ total >= 8
    BY <2>1, TotalType
  <2>3. total = Sending.size + TrailerSize
    BY DEF total, Sending, TotalPacketSize
  <2> QED  BY <2>1, <2>2, <2>3, BothWays DEF Behind
<1>5. /\ Len(fifo') = n + 1 /\ fifo'[n + 1] = Sending
      /\ \A i \in 1 .. n : fifo'[i] = fifo[i]
  BY <1>1, <1>3
<1>6. PICK e \in [1 .. n + 2 -> Nat] :
        (\A i \in 1 .. n + 1 : e[i] = d[i]) /\ e[n + 2] = 0
  <2> DEFINE f == [i \in 1 .. n + 2 |-> IF i = n + 2 THEN 0 ELSE d[i]]
  <2>1. ASSUME NEW i \in 1 .. n + 2 PROVE (IF i = n + 2 THEN 0 ELSE d[i]) \in Nat
    BY <1>3
  <2>2. f \in [1 .. n + 2 -> Nat]
    BY <2>1
  <2>3. (\A i \in 1 .. n + 1 : f[i] = d[i]) /\ f[n + 2] = 0
    BY <1>3
  <2> HIDE DEF f
  <2> QED  BY <2>2, <2>3
<1>7. /\ 1 \in 1 .. n + 1 /\ n + 1 \in 1 .. n + 1 /\ n + 2 \in 1 .. n + 2
      /\ n + 1 + 1 = n + 2 /\ \A i \in 1 .. n : i \in 1 .. n + 1 /\ i + 1 \in 1 .. n + 1
  BY <1>3
<1>8. d[n + 1] = total
  BY <1>2 DEF Chain
<1>9. e[1] = Behind(ReadPos)' /\ e[1] <= Behind(IncomingOut)' /\ e[n + 2] = Behind(In)'
  <2>1. d[1] = Behind(ReadPos) /\ d[1] <= Behind(IncomingOut)
    BY DEF Chain
  <2>2. Behind(ReadPos)' = Behind(ReadPos) /\ Behind(IncomingOut)' = Behind(IncomingOut)
    BY <1>1 DEF Behind, ReadPos
  <2>3. Behind(In)' = Behind(OutgoingIn)
    BY <1>1 DEF Behind
  <2> QED  BY <1>4, <1>6, <1>7, <2>1, <2>2, <2>3
<1>10. ASSUME NEW i \in 1 .. n + 1 PROVE e[i] = e[i + 1] + fifo'[i].size + TrailerSize
  <2>1. CASE i \in 1 .. n
    <3>1. d[i] = d[i + 1] + fifo[i].size + TrailerSize
      BY <2>1 DEF Chain
    <3> QED  BY <1>5, <1>6, <1>7, <2>1, <3>1
  <2>2. CASE i = n + 1
    <3>1. e[i] = total /\ e[i + 1] = 0 /\ fifo'[i] = Sending
      BY <1>5, <1>6, <1>7, <1>8, <2>2
    <3>2. Sending.size \in Nat
      BY TotalIsMultiple DEF Sending, IInv, TypeOK
    <3> QED  BY <1>4, <3>1, <3>2, SMTT(30) DEF TrailerSize
  <2> QED  BY <1>3, <2>1, <2>2
<1>11. ASSUME NEW i \in 1 .. n + 2, NEW j \in 1 .. n + 2, i < j PROVE e[i] > e[j]
  <2>1. i \in 1 .. n + 1
    BY <1>3, <1>11
  <2>2. CASE j \in 1 .. n + 1
    BY <1>6, <1>11, <2>1, <2>2 DEF Chain
  <2>3. CASE j = n + 2
    <3>1. e[i] = d[i] /\ e[j] = 0 /\ d[i] \in Nat
      BY <1>3, <1>6, <2>1, <2>3
    <3>2. d[i] >= d[n + 1]
      <4>1. CASE i = n + 1
        BY <1>3, <3>1, <4>1
      <4>2. CASE i # n + 1
        <5>1. i < n + 1
          BY <1>3, <2>1, <4>2
        <5>2. d[i] > d[n + 1] /\ d[n + 1] \in Nat
          BY <1>3, <1>7, <2>1, <5>1 DEF Chain
        <5> QED  BY <3>1, <5>2
      <4> QED  BY <4>1, <4>2
    <3> QED  BY <1>4, <1>8, <3>1, <3>2
  <2> QED  BY <1>3, <2>2, <2>3
<1>12. ASSUME NEW i \in 1 .. n + 1 PROVE Holds(fifo[i], e[i])'
  <2>1. PICK p : p = fifo'[i]
    OBVIOUS
  <2>2. Holds(p, e[i])
    <3>1. CASE i \in 1 .. n
      BY <1>5, <1>6, <2>1, <3>1 DEF Chain
    <3>2. CASE i = n + 1
      BY <1>2, <1>5, <1>6, <1>7, <1>8, <2>1, <3>2
    <3> QED  BY <1>3, <3>1, <3>2
  <2> QED  BY <1>1, <2>1, <2>2 DEF Holds, Behind
<1>13. \E j \in 1 .. n + 2 : e[j] = Behind(IncomingInCache)'
  <2>1. PICK j \in 1 .. n + 1 : d[j] = Behind(IncomingInCache)
    BY DEF Chain
  <2>2. j \in 1 .. n + 2 /\ e[j] = d[j]
    BY <1>3, <1>6
  <2> QED  BY <1>1, <2>1, <2>2 DEF Behind
<1>14. ASSUME rpc = "copy"
       PROVE  n + 1 >= 1 /\ bufferLength' = fifo'[1].size /\ e[2] = Behind(ringOffset)'
  <2>1. n >= 1 /\ bufferLength = fifo[1].size /\ d[2] = Behind(ringOffset)
    BY <1>14 DEF Chain
  <2>2. 1 \in 1 .. n /\ 2 \in 1 .. n + 1
    BY <1>3, <2>1
  <2>3. Behind(ringOffset)' = Behind(ringOffset)
    BY <1>1 DEF Behind
  <2> QED  BY <1>1, <1>3, <1>5, <1>6, <2>1, <2>2, <2>3, SMTT(30)
<1>15. Chain(e)'
  <2>1. Len(fifo') + 1 = n + 2
    BY <1>3, <1>5
  <2> HIDE DEF n
  <2> QED
    BY <1>1, <1>5, <1>6, <1>9, <1>10, <1>11, <1>12, <1>13, <1>14, <2>1 DEF Chain
<1> QED  BY <1>15 DEF Packets, Chain

(***************************************************************************)
(* What PkReadPacketSingleMapped copies is the first packet of the chain.  *)
(***************************************************************************)
LEMMA CopiesFirst ==
    ASSUME IInv, SInv, rpc = "copy", NEW d, Chain(d)
    PROVE  PacketAt(currentOffset, bufferLength) = fifo[1] /\ Len(fifo) >= 1
<1>1. /\ Len(fifo) \in Nat /\ Len(fifo) >= 1 /\ bufferLength = fifo[1].size
      /\ d[1] = Behind(currentOffset)
  BY ChainFacts DEF Chain, ReadPos
<1>2. 1 \in 1 .. Len(fifo) /\ 1 \in 1 .. Len(fifo) + 1
  BY <1>1
<1>3. PICK p \in Packet : p = fifo[1]
  BY <1>2, ChainFacts
<1>4. /\ Holds(p, d[1]) /\ d[1] \in Nat /\ p.size + TrailerSize <= d[1]
      /\ OutgoingIn \in Offsets /\ currentOffset \in Offsets
  BY <1>2, <1>3, ChainFacts DEF Chain, IInv, TypeOK
<1>5. p.size \in Nat /\ p.size % 8 = 0 /\ p = [id |-> p.id, size |-> p.size]
  BY PacketSize DEF Packet
<1>6. ASSUME NEW k \in 0 .. (p.size \div 8)
      PROVE  data[CellAt(currentOffset, k)] = [id |-> p.id, size |-> p.size, k |-> k]
  <2>1. 8 * k \in Nat /\ (8 * k) % 8 = 0 /\ k \in Nat /\ 8 * k <= p.size
    BY <1>5
  <2>2. 8 * k < p.size + TrailerSize /\ 8 * k <= d[1]
    <3>1. p.size \in Nat /\ 8 * k \in Nat /\ 8 * k <= p.size
      BY <1>5, <2>1
    <3> QED  BY <1>4, <3>1 DEF TrailerSize
  <2>3. Behind(Advance(currentOffset, 8 * k)) = d[1] - 8 * k
    BY <1>1, <1>4, <2>1, <2>2, AdvanceTowards, SMTT(30) DEF Behind
  <2>4. 8 * k < DataBytesInRing
    <3>1. d[1] < DataBytesInRing /\ DataBytesInRing \in Nat
      BY <1>1, <1>4, BehindType, RingSizeAssumption DEF IInv
    <3>2. 8 * k \in Nat
      BY <2>1
    <3> QED  BY <1>4, <2>2, <3>1, <3>2
  <2>5. Advance(currentOffset, 8 * k) \in Offsets
    BY <1>4, <2>1, <2>4, AdvanceIsOffset
  <2>6. Behind(Advance(currentOffset, 8 * k)) + 8 * k = d[1]
    <3>1. 8 * k \in Nat
      BY <2>1
    <3> QED  BY <1>4, <2>3, <3>1
  <2> QED  BY <1>4, <2>1, <2>2, <2>5, <2>6 DEF Holds, CellAt
<1>7. data[currentOffset \div 8].id = p.id
  <2>1. d[1] = Behind(currentOffset) + 8 * 0 /\ 8 * 0 < p.size + TrailerSize
    <3>1. p.size \in Nat
      BY <1>5
    <3> QED  BY <1>1, <1>4, <3>1 DEF TrailerSize
  <2>2. ASSUME NEW k \in Nat, k = 0
        PROVE  data[currentOffset \div 8] = [id |-> p.id, size |-> p.size, k |-> k]
    <3>1. Behind(currentOffset) + 8 * k = d[1] /\ 8 * k < p.size + TrailerSize
      BY <2>1, <2>2
    <3> QED  BY <1>4, <3>1 DEF Holds
  <2>3. data[currentOffset \div 8] = [id |-> p.id, size |-> p.size, k |-> 0]
    BY <2>2
  <2> QED  BY <2>3, SMTT(30)
<1>8. PacketAt(currentOffset, bufferLength) = [id |-> p.id, size |-> p.size]
  BY <1>1, <1>3, <1>6, <1>7 DEF PacketAt
<1> QED  BY <1>1, <1>3, <1>5, <1>8

(***************************************************************************)
(* Taking a packet removes the first one of the chain.                     *)
(***************************************************************************)
LEMMA ChainCopy ==
    ASSUME IInv, SInv, CopyPacket, NEW d, Chain(d)
    PROVE  Packets'
<1>1. /\ rpc = "copy" /\ rpc' = "get"
      /\ UNCHANGED <<In, OutgoingIn, IncomingOut, IncomingInCache, ringOffset, data>>
  BY DEF CopyPacket, control, sender
<1>2. /\ Len(fifo) \in Nat /\ fifo \in Seq(Packet) /\ d \in [1 .. Len(fifo) + 1 -> Nat]
      /\ \A i \in 1 .. Len(fifo) + 1 : d[i] \in Nat
  BY ChainFacts
<1>3. Len(fifo) >= 1 /\ d[2] = Behind(ringOffset)
  BY <1>1 DEF Chain
<1>4. PICK m \in Nat : Len(fifo) = m + 1
  <2>1. Len(fifo) - 1 \in Nat /\ Len(fifo) = (Len(fifo) - 1) + 1
    BY <1>2, <1>3
  <2> QED  BY <2>1
<1>5. fifo' = Tail(fifo) /\ Len(fifo') = m /\ \A i \in 1 .. m : fifo'[i] = fifo[i + 1]
  <2>1. fifo # <<>>
    BY <1>3
  <2>2. fifo' = Tail(fifo)
    BY <2>1 DEF CopyPacket
  <2> QED  BY <1>2, <1>4, <2>1, <2>2
<1>6. /\ d \in [1 .. m + 2 -> Nat]
      /\ \A i \in 1 .. m + 1 : i + 1 \in 1 .. m + 2 /\ i \in 1 .. m + 2
      /\ \A i \in 1 .. m : i + 1 \in 1 .. m + 1 /\ i \in 1 .. m + 1
      /\ Len(fifo) + 1 = m + 2
  BY <1>2, <1>4
<1>7. PICK e \in [1 .. m + 1 -> Nat] : \A i \in 1 .. m + 1 : e[i] = d[i + 1]
  <2>1. [i \in 1 .. m + 1 |-> d[i + 1]] \in [1 .. m + 1 -> Nat]
    BY <1>6
  <2> QED  BY <2>1
<1>8. e[1] = Behind(ReadPos)' /\ e[1] <= Behind(IncomingOut)' /\ e[m + 1] = Behind(In)'
  <2>1. 1 \in 1 .. m + 1 /\ m + 1 \in 1 .. m + 1 /\ 1 + 1 = 2 /\ m + 1 + 1 = m + 2
        /\ 2 \in 1 .. m + 2 /\ 1 \in 1 .. m + 2
    BY <1>4
  <2>2. e[1] = d[2] /\ e[m + 1] = d[m + 2]
    BY <1>7, <2>1
  <2>3. Behind(ReadPos)' = Behind(ringOffset) /\ Behind(IncomingOut)' = Behind(IncomingOut)
        /\ Behind(In)' = Behind(In)
    BY <1>1 DEF Behind, ReadPos
  <2>4. Behind(ringOffset) <= Behind(IncomingOut)
    <3>1. Behind(ringOffset) \in Nat /\ Behind(IncomingOut) \in Nat
      BY BehindType, RingSizeAssumption, SMTT(30) DEF IInv, TypeOK
    <3> QED  BY <3>1 DEF IInv, PointersInOrder
  <2>5. d[m + 2] = Behind(In)
    BY <1>6 DEF Chain
  <2> QED  BY <1>3, <2>2, <2>3, <2>4, <2>5
<1>9. ASSUME NEW i \in 1 .. m PROVE e[i] = e[i + 1] + fifo'[i].size + TrailerSize
  <2>1. i + 1 \in 1 .. Len(fifo)
    BY <1>4, <1>6
  <2>2. d[i + 1] = d[i + 1 + 1] + fifo[i + 1].size + TrailerSize
    BY <2>1 DEF Chain
  <2> QED  BY <1>5, <1>6, <1>7, <2>2
<1>10. ASSUME NEW i \in 1 .. m + 1, NEW j \in 1 .. m + 1, i < j PROVE e[i] > e[j]
  <2>1. i + 1 < j + 1
    BY <1>10
  <2>2. d[i + 1] > d[j + 1]
    BY <1>6, <2>1 DEF Chain
  <2> QED  BY <1>7, <2>2
<1>11. ASSUME NEW i \in 1 .. m PROVE Holds(fifo[i], e[i])'
  <2>1. PICK p : p = fifo'[i]
    OBVIOUS
  <2>2. i + 1 \in 1 .. Len(fifo) /\ i \in 1 .. m + 1 /\ p = fifo[i + 1]
    BY <1>4, <1>5, <1>6, <2>1
  <2>3. Holds(p, e[i])
    BY <1>7, <2>2 DEF Chain
  <2> QED  BY <1>1, <2>1, <2>3 DEF Holds, Behind
<1>12. \E j \in 1 .. m + 1 : e[j] = Behind(IncomingInCache)'
  <2>1. PICK j \in 1 .. m + 2 : d[j] = Behind(IncomingInCache)
    BY <1>6 DEF Chain
  <2>2. d[j] <= d[2] /\ d[2] \in Nat /\ d[1] \in Nat /\ d[1] > d[2]
    <3>1. Behind(ringOffset) \in Nat /\ Behind(IncomingInCache) \in Nat
      BY BehindType, RingSizeAssumption, SMTT(30) DEF IInv, TypeOK
    <3>2. Behind(IncomingInCache) <= Behind(ringOffset)
      BY <3>1 DEF IInv, PointersInOrder
    <3>3. 1 \in 1 .. Len(fifo) + 1 /\ 2 \in 1 .. Len(fifo) + 1 /\ 1 < 2
      BY <1>2, <1>3
    <3> QED  BY <1>2, <1>3, <2>1, <3>2, <3>3 DEF Chain
  <2>3. j # 1
    BY <2>2
  <2>4. PICK i \in 1 .. m + 1 : j = i + 1
    <3>1. j - 1 \in 1 .. m + 1 /\ j = (j - 1) + 1
      BY <2>3
    <3> QED  BY <3>1
  <2> QED  BY <1>1, <1>7, <2>1, <2>4 DEF Behind
<1>13. Chain(e)'
  BY <1>1, <1>5, <1>7, <1>8, <1>9, <1>10, <1>11, <1>12 DEF Chain
<1> QED  BY <1>13 DEF Packets, Chain

(***************************************************************************)
(* Every step keeps the packets of the history in the ring and in order.   *)
(***************************************************************************)
LEMMA PacketsStep ==
    ASSUME IInv, SInv, [Next]_vars
    PROVE  Packets'
<1>1. PICK d \in [1 .. Len(fifo) + 1 -> Nat] : Chain(d)
  BY DEF SInv, Packets
<1>2. Len(fifo) \in Nat /\ Behind(ReadPos) \in Nat
  <2>1. ReadPos \in Offsets
    BY DEF IInv, TypeOK, ReadPos
  <2> QED  BY <1>1, <2>1, ChainFacts, BehindType, RingSizeAssumption, SMTT(30) DEF IInv
<1>3. rpc = "copy" => /\ Len(fifo) >= 1 /\ bufferLength = fifo[1].size
                      /\ d[2] = PkpDataAvailable(OutgoingIn, ringOffset)
  BY <1>1 DEF Chain, Behind
<1>4. CASE WritePacket
  <2>1. Chain(d)'
    BY <1>1, <1>4, ChainWrite
  <2> QED  BY <2>1 DEF Packets, Chain
<1>5. CASE CommitIn
  BY <1>1, <1>5, ChainCommit
<1>6. CASE FlushIn
  BY <1>1, <1>6, ChainFlush
<1>7. CASE CopyPacket
  BY <1>1, <1>7, ChainCopy
<1>8. CASE \/ \E size \in PacketSizes : SendPacket(size)
           \/ DropInterrupt \/ RetrySend \/ RereadOut \/ RecheckOut \/ ReadMask \/ ReadOut
           \/ FlushPending \/ FlushOut \/ UNCHANGED vars
  <2>1. UNCHANGED <<In, OutgoingIn, fifo, data, IncomingOut, IncomingInCache, rpc, ringOffset,
                    currentOffset, bufferLength>>
    BY <1>8 DEF SendPacket, TrySend, DropInterrupt, RetrySend, RereadOut, RecheckOut, ReadMask,
                ReadOut, FlushPending, FlushOut, vars, control, sender, receiver, history
  <2>2. ReadPos' = ReadPos
    BY <2>1 DEF ReadPos
  <2> QED  BY <1>1, <1>2, <1>3, <2>1, <2>2, ChainFrame
<1>9. CASE ReadHeader
  <2>1. /\ UNCHANGED <<In, OutgoingIn, fifo, data, IncomingOut, IncomingInCache>>
        /\ rpc = "header"
    BY <1>9 DEF ReadHeader, control, sender
  <2>2. /\ rpc' = "copy" /\ bufferLength' = fifo[1].size /\ currentOffset' = ringOffset
        /\ ringOffset' = Advance(ringOffset, fifo[1].size + TrailerSize)
    BY <1>1, <1>9, HeaderNotBad
  <2>3. ReadPos' = ReadPos
    BY <2>1, <2>2 DEF ReadPos
  <2>4. /\ Len(fifo) >= 1 /\ fifo[1].size \in Nat /\ fifo[1].size % 8 = 0 /\ d[2] \in Nat
        /\ Behind(ringOffset) = d[2] + fifo[1].size + TrailerSize
        /\ OutgoingIn \in Offsets /\ ringOffset \in Offsets
    BY <1>1, <2>1, HeaderGood DEF IInv, TypeOK
  <2>5. PICK t \in Nat : t = fifo[1].size + TrailerSize /\ t % 8 = 0
    BY <2>4 DEF TrailerSize
  <2>6. Behind(ringOffset) = d[2] + t
    BY <2>4, <2>5 DEF TrailerSize
  <2>7. PkpDataAvailable(OutgoingIn, ringOffset') = d[2]
    <3>1. d[2] \in Nat /\ t \in Nat /\ t % 8 = 0
          /\ OutgoingIn \in Offsets /\ ringOffset \in Offsets
      BY <2>4, <2>5
    <3>2. PkpDataAvailable(OutgoingIn, ringOffset) = d[2] + t
      BY <2>6 DEF Behind
    <3>3. PICK m \in Nat : m = d[2]
      BY <3>1
    <3>4. PkpDataAvailable(OutgoingIn, ringOffset) = m + t
      BY <3>2, <3>3, Zenon
    <3>5. t <= m + t /\ (m + t) - t = m
      OBVIOUS
    <3>6. PkpDataAvailable(OutgoingIn, Advance(ringOffset, t))
            = PkpDataAvailable(OutgoingIn, ringOffset) - t
      BY <3>1, <3>4, <3>5, AdvanceTowards
    <3> QED  BY <2>2, <2>5, <3>3, <3>4, <3>5, <3>6, Zenon
  <2> QED  BY <1>1, <1>2, <2>1, <2>2, <2>3, <2>4, <2>7, ChainFrame
<1>10. CASE TakeInterrupt \/ GetReceiveBuffer \/ RemovePackets \/ ReadPendingSendSize \/ ReadIn
            \/ Unmask
  <2>1. /\ UNCHANGED <<In, OutgoingIn, fifo, data>> /\ rpc # "copy" /\ rpc' # "copy"
    BY <1>10 DEF TakeInterrupt, GetReceiveBuffer, RemovePackets, ReadPendingSendSize, ReadIn,
                 Unmask, control, sender, history, EndOfPass, Finished
  <2>2. /\ IncomingOut' \in {IncomingOut, ringOffset}
        /\ IncomingInCache' \in {IncomingInCache, In}
    BY <1>10 DEF TakeInterrupt, GetReceiveBuffer, RemovePackets, ReadPendingSendSize, ReadIn,
                 Unmask
  <2>3. ringOffset' = ringOffset
    <3>1. CASE TakeInterrupt
      BY <3>1 DEF TakeInterrupt, SInv, ReceiverState
    <3>2. CASE GetReceiveBuffer \/ RemovePackets \/ ReadPendingSendSize \/ ReadIn \/ Unmask
      BY <3>2 DEF GetReceiveBuffer, RemovePackets, ReadPendingSendSize, ReadIn, Unmask
    <3> QED  BY <1>10, <3>1, <3>2
  <2>4. ReadPos = ringOffset /\ ReadPos' = ReadPos
    BY <2>1, <2>3 DEF ReadPos
  <2> QED  BY <1>1, <1>2, <2>1, <2>2, <2>4, ChainFrame
<1> QED  BY <1>4, <1>5, <1>6, <1>7, <1>8, <1>9, <1>10
         DEF Next, SenderStep, SendOngoing, ReceiverStep
-----------------------------------------------------------------------------
(***************************************************************************)
(* The inductive invariant of the packets and the wakeups, for rings and   *)
(* packets of every size.                                                  *)
(***************************************************************************)
THEOREM RingChannelInvariant == Spec => [](IInv /\ SInv)
<1>1. Init => SInv
  BY InitSInv
<1>2. IInv /\ SInv /\ [Next]_vars => SInv'
  <2> SUFFICES ASSUME IInv, SInv, [Next]_vars PROVE SInv'
    OBVIOUS
  <2> QED
    BY KnownStep, WrittenStep, InHeldStep, PendingStep, ReceiverStateStep, PacketsStep,
       DataOwedStep, RoomOwedStep, CorruptStep DEF SInv
<1> QED  BY <1>1, <1>2, RingInvariant, PTL DEF Spec

(***************************************************************************)
(* For rings and packets of every size: a receiver that sleeps over data   *)
(* and a sender that waits for room are always owed a signal, and the      *)
(* checks of PkGetReceiveBuffer never take the ring for corrupt, however   *)
(* the stores of PkCompleteInsertion and PkCompleteRemoval are delayed.    *)
(***************************************************************************)
THEOREM RingEndpointsAgree == Spec => []EndpointsAgree
<1>1. IInv /\ SInv => EndpointsAgree
  <2> SUFFICES ASSUME IInv, SInv PROVE EndpointsAgree
    OBVIOUS
  <2>1. NoLostDataSignal
    BY DEF SInv, DataOwed, NoLostDataSignal
  <2>2. ASSUME spc = "blocked", ~irqSender, rpc = "idle", ~irqReceiver PROVE FALSE
    <3>1. IncomingOut = OutgoingIn
      BY <2>1, <2>2 DEF NoLostDataSignal
    <3>2. OutgoingIn \in Offsets /\ total \in Nat /\ DataBytesInRing \in Nat
      BY TotalType, RingSizeAssumption DEF IInv, TypeOK
    <3>3. Behind(IncomingOut) = 0
      BY <3>1, <3>2, BothWays DEF Behind
    <3>4. total < DataBytesInRing
      BY <2>2 DEF SInv, PendingShown
    <3>5. Behind(IncomingOut) + total >= DataBytesInRing
      BY <2>2 DEF SInv, RoomOwed
    <3> QED  BY <3>2, <3>3, <3>4, <3>5
  <2>3. NoLostRoomSignal
    BY <2>2 DEF NoLostRoomSignal
  <2> QED  BY <2>1, <2>3 DEF EndpointsAgree, SInv
<1> QED  BY <1>1, RingChannelInvariant, PTL

(***************************************************************************)
(* For rings and packets of every size, the ring buffer implements the     *)
(* channel: WriteRelease of In sends a packet, PkReadPacketSingleMapped    *)
(* delivers the oldest one unchanged, and no other step is seen.           *)
(***************************************************************************)
THEOREM RingImplementsChannel == Spec => ImplementsChannel
<1>1. Init => Channel!Init
  BY DEF Init, Channel!Init
<1>2. IInv /\ SInv /\ [Next]_vars => [Channel!Next]_<<fifo, delivered>>
  <2> SUFFICES ASSUME IInv, SInv, [Next]_vars
               PROVE  Channel!Next \/ UNCHANGED <<fifo, delivered>>
    OBVIOUS
  <2>1. CASE FlushIn
    <3>1. In # OutgoingIn /\ fifo' = Append(fifo, Sending) /\ delivered' = delivered
      BY <2>1 DEF FlushIn, Sending
    <3>2. packet.size \in PacketSizes /\ packet.id \in Ids
      BY <3>1 DEF IInv, TypeOK, SInv, InHeld, SendingKnown
    <3>3. Sending \in Packet
      BY <3>2 DEF Sending, Packet
    <3> QED  BY <3>1, <3>3 DEF Channel!Next, Channel!Send
  <2>2. CASE CopyPacket
    <3>1. PICK d : Chain(d)
      BY DEF SInv, Packets
    <3>2. PacketAt(currentOffset, bufferLength) = fifo[1] /\ Len(fifo) >= 1
      BY <2>2, <3>1, CopiesFirst DEF CopyPacket
    <3>3. fifo # <<>> /\ Head(fifo) = fifo[1]
      BY <3>2
    <3> QED  BY <2>2, <3>2, <3>3 DEF CopyPacket, Channel!Next, Channel!Deliver
  <2>3. CASE ~FlushIn /\ ~CopyPacket
    BY <2>3 DEF Next, SenderStep, SendOngoing, ReceiverStep, SendPacket, TrySend, RetrySend,
                DropInterrupt, RereadOut, RecheckOut, WritePacket, CommitIn, ReadMask, ReadOut,
                TakeInterrupt, GetReceiveBuffer, ReadHeader, RemovePackets, ReadPendingSendSize,
                ReadIn, Unmask, FlushPending, FlushOut, vars, history
  <2> QED  BY <2>1, <2>2, <2>3
<1> QED  BY <1>1, <1>2, RingChannelInvariant, PTL DEF Spec, ImplementsChannel, Channel!Spec
=============================================================================
