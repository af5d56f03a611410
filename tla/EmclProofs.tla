----------------------------- MODULE EmclProofs -----------------------------
(***************************************************************************)
(* Proofs about Emcl for every ring, every packet size and every number of *)
(* requests: no packet is left without the interrupt that makes the other  *)
(* side look at it, and a completion always finds its completion entry.    *)
(***************************************************************************)
EXTENDS Emcl, TLAPS

Packet == [type : {"request", "range", "completion", "data"}, tid : Nat, size : Nat]

Types ==
    /\ OutgoingQueue \in Seq(Packet) /\ outRing \in Seq(Packet) /\ inRing \in Seq(Packet)
    /\ CompletionEntries \in Seq(Nat) /\ mCurrentTransactionId \in Nat
    /\ taken \in Nat /\ receivedCount \in Nat /\ hostSent \in Nat
    /\ pq \in {"idle", "receive", "remove", "flush"}
    /\ hostRequests \subseteq Nat

\* How far EmclProcessQueue has come, and why it may leave packets in the ring.
Progress ==
    /\ receivedCount <= taken /\ taken <= Len(inRing)
    /\ pq = "receive" => taken = receivedCount
    /\ pq \in {"idle", "flush"} => receivedCount = 0
    /\ ~IsRunning => pq = "idle" /\ inRing = <<>>
    /\ (IsRunning /\ pq \in {"idle", "flush"} /\ ~ReceiveEvent /\ inRing # <<>>)
           => AllocationFailure

\* Where requests are, the entries, and what was completed; as RequestsConserved
\* has it.
Accounted(queued, ring, host_, arrived, gone, entries, done) ==
    /\ queued \cap (ring \cup host_ \cup arrived \cup gone) = {}
    /\ ring \cap (host_ \cup arrived \cup gone) = {}
    /\ host_ \cap (arrived \cup gone) = {}
    /\ arrived \cap gone = {}
    /\ entries = queued \cup ring \cup host_ \cup arrived \cup gone
    /\ entries \cap done = {}

\* A request is in one place, and has its completion entry; transactions are
\* numbered by mCurrentTransactionId.
OnePlace ==
    /\ RequestsConserved
    /\ Range(CompletionEntries) \cup completed \subseteq 0 .. mCurrentTransactionId

\* The transaction that a packet adds to those of a kind.
TidOf(p, kind) == IF p.type = kind THEN {p.tid} ELSE {}

IInv == Types /\ Progress /\ OnePlace /\ NoSilentPacket /\ CompletionsExpected
-----------------------------------------------------------------------------
(***************************************************************************)
(* A packet that joins a list adds its transaction, if it is of the kind,  *)
(* and keeps the transactions distinct if its own is new.                  *)
(***************************************************************************)
LEMMA AppendTids ==
    ASSUME NEW s \in Seq(Packet), NEW p \in Packet, NEW k \in Nat, k <= Len(s), NEW kind,
           Distinct(s, k, kind), p.type = kind => p.tid \notin Tids(s, k, kind)
    PROVE  /\ Append(s, p) \in Seq(Packet)
           /\ Tids(Append(s, p), k, kind) = Tids(s, k, kind) \cup TidOf(p, kind)
           /\ Distinct(Append(s, p), k, kind)
<1> DEFINE a == Append(s, p)
<1>1. /\ a \in Seq(Packet) /\ Len(s) \in Nat /\ Len(a) = Len(s) + 1 /\ a[Len(s) + 1] = p
      /\ \A i \in 1 .. Len(s) : a[i] = s[i]
  OBVIOUS
<1> HIDE DEF a
<1>2. \A i \in k + 1 .. Len(a) : i = Len(s) + 1 \/ (i \in k + 1 .. Len(s) /\ a[i] = s[i])
  BY <1>1
<1>3. \A i \in k + 1 .. Len(s) : i \in k + 1 .. Len(a) /\ a[i] = s[i]
  BY <1>1
<1>4. Len(s) + 1 \in k + 1 .. Len(a)
  BY <1>1
<1>5. Tids(a, k, kind) = Tids(s, k, kind) \cup TidOf(p, kind)
  <2>1. ASSUME NEW t \in Tids(a, k, kind)
        PROVE  t \in Tids(s, k, kind) \cup TidOf(p, kind)
    <3>1. PICK i \in k + 1 .. Len(a) : a[i].type = kind /\ a[i].tid = t
      BY <2>1 DEF Tids
    <3> QED  BY <1>1, <1>2, <3>1 DEF Tids, TidOf
  <2>2. ASSUME NEW t \in Tids(s, k, kind) PROVE t \in Tids(a, k, kind)
    BY <1>3, <2>2 DEF Tids
  <2>3. p.type = kind => p.tid \in Tids(a, k, kind)
    BY <1>1, <1>4 DEF Tids
  <2> QED  BY <2>1, <2>2, <2>3 DEF TidOf
<1>6. Distinct(a, k, kind)
  <2> SUFFICES ASSUME NEW i \in k + 1 .. Len(a), NEW j \in k + 1 .. Len(a),
                      a[i].type = kind, a[j].type = kind, a[i].tid = a[j].tid
               PROVE  i = j
    BY DEF Distinct
  <2>1. \A x \in k + 1 .. Len(s) : s[x].type = kind => s[x].tid \in Tids(s, k, kind)
    BY DEF Tids
  <2>2. CASE i \in k + 1 .. Len(s) /\ j \in k + 1 .. Len(s)
    BY <1>3, <2>2 DEF Distinct
  <2>3. CASE i = Len(s) + 1 \/ j = Len(s) + 1
    BY <1>1, <1>2, <2>1, <2>3
  <2> QED  BY <1>2, <2>2, <2>3
<1> QED  BY <1>1, <1>5, <1>6 DEF a

(***************************************************************************)
(* A packet of another kind adds no transaction.                           *)
(***************************************************************************)
LEMMA AppendOther ==
    ASSUME NEW s \in Seq(Packet), NEW p \in Packet, NEW k \in Nat, k <= Len(s), NEW kind,
           Distinct(s, k, kind), p.type # kind
    PROVE  Tids(Append(s, p), k, kind) = Tids(s, k, kind) /\ Distinct(Append(s, p), k, kind)
<1>1. TidOf(p, kind) = {}
  BY DEF TidOf
<1>2. /\ Tids(Append(s, p), k, kind) = Tids(s, k, kind) \cup TidOf(p, kind)
      /\ Distinct(Append(s, p), k, kind)
  BY AppendTids
<1> QED  BY <1>1, <1>2

(***************************************************************************)
(* Skipping one more packet of a list.                                     *)
(***************************************************************************)
LEMMA AdvanceTids ==
    ASSUME NEW s \in Seq(Packet), NEW k \in Nat, k < Len(s), NEW kind, Distinct(s, k, kind)
    PROVE  /\ Tids(s, k, kind) = Tids(s, k + 1, kind) \cup TidOf(s[k + 1], kind)
           /\ Tids(s, k + 1, kind) \cap TidOf(s[k + 1], kind) = {}
           /\ Distinct(s, k + 1, kind)
<1>1. Len(s) \in Nat /\ k + 1 \in k + 1 .. Len(s)
  OBVIOUS
<1>2. \A i \in k + 1 + 1 .. Len(s) : i \in k + 1 .. Len(s) /\ i # k + 1
  BY <1>1
<1>3. Tids(s, k + 1, kind) \subseteq Tids(s, k, kind)
  BY <1>2 DEF Tids
<1>4. s[k + 1].type = kind => s[k + 1].tid \in Tids(s, k, kind)
  BY <1>1 DEF Tids
<1>5. s[k + 1].type = kind => s[k + 1].tid \notin Tids(s, k + 1, kind)
  BY <1>1, <1>2 DEF Tids, Distinct
<1>6. Distinct(s, k + 1, kind)
  BY <1>2 DEF Distinct
<1>7. \A i \in k + 1 .. Len(s) : i = k + 1 \/ i \in k + 1 + 1 .. Len(s)
  BY <1>1
<1>8. ASSUME NEW t \in Tids(s, k, kind), t \notin Tids(s, k + 1, kind)
      PROVE  t \in TidOf(s[k + 1], kind)
  BY <1>7, <1>8 DEF Tids, TidOf
<1> QED  BY <1>3, <1>4, <1>5, <1>6, <1>8 DEF TidOf

(***************************************************************************)
(* Removing the first n packets of a list is skipping them.                *)
(***************************************************************************)
LEMMA RemoveTids ==
    ASSUME NEW s \in Seq(Packet), NEW k \in Nat, NEW n \in Nat, k <= n, n <= Len(s), NEW kind,
           Distinct(s, k, kind)
    PROVE  /\ SubSeq(s, n + 1, Len(s)) \in Seq(Packet)
           /\ Len(SubSeq(s, n + 1, Len(s))) = Len(s) - n
           /\ Tids(SubSeq(s, n + 1, Len(s)), 0, kind) = Tids(s, n, kind)
           /\ Tids(s, n, kind) \subseteq Tids(s, k, kind)
           /\ Distinct(SubSeq(s, n + 1, Len(s)), 0, kind)
<1> DEFINE a == SubSeq(s, n + 1, Len(s))
<1>1. Len(s) \in Nat
  OBVIOUS
<1>2. /\ a \in Seq(Packet) /\ Len(a) = Len(s) - n
      /\ \A i \in 1 .. Len(s) - n : a[i] = s[i + n]
  BY <1>1
<1> HIDE DEF a
<1>3. \A i \in 0 + 1 .. Len(a) : i + n \in k + 1 .. Len(s) /\ a[i] = s[i + n]
  BY <1>1, <1>2
<1>4. Tids(a, 0, kind) = Tids(s, n, kind)
  <2>1. \A i \in 0 + 1 .. Len(a) : i + n \in n + 1 .. Len(s) /\ a[i] = s[i + n]
    BY <1>1, <1>2
  <2>2. \A j \in n + 1 .. Len(s) : j - n \in 0 + 1 .. Len(a) /\ a[j - n] = s[j]
    BY <1>1, <1>2
  <2>3. ASSUME NEW t \in Tids(a, 0, kind) PROVE t \in Tids(s, n, kind)
    BY <2>1, <2>3 DEF Tids
  <2>4. ASSUME NEW t \in Tids(s, n, kind) PROVE t \in Tids(a, 0, kind)
    BY <2>2, <2>4 DEF Tids
  <2> HIDE DEF Tids
  <2> QED  BY <2>3, <2>4, Zenon
<1>7. Tids(s, n, kind) \subseteq Tids(s, k, kind)
  <2>1. n + 1 .. Len(s) \subseteq k + 1 .. Len(s)
    BY <1>1
  <2> QED  BY <2>1 DEF Tids
<1>5. \A i, j \in 0 + 1 .. Len(a) : i + n = j + n => i = j
  BY <1>1, <1>2
<1>6. Distinct(a, 0, kind)
  <2> SUFFICES ASSUME NEW i \in 0 + 1 .. Len(a), NEW j \in 0 + 1 .. Len(a),
                      a[i].type = kind, a[j].type = kind, a[i].tid = a[j].tid
               PROVE  i = j
    BY DEF Distinct
  <2>1. /\ i + n \in k + 1 .. Len(s) /\ a[i] = s[i + n]
        /\ j + n \in k + 1 .. Len(s) /\ a[j] = s[j + n]
    BY <1>3
  <2>2. i + n = j + n
    BY <2>1 DEF Distinct
  <2> QED  BY <1>5, <2>2
<1> QED  BY <1>2, <1>4, <1>6, <1>7 DEF a

(***************************************************************************)
(* Taking the first packet of a list.                                      *)
(***************************************************************************)
LEMMA TailTids ==
    ASSUME NEW s \in Seq(Packet), s # <<>>, NEW kind, Distinct(s, 0, kind)
    PROVE  /\ Head(s) \in Packet /\ Tail(s) \in Seq(Packet)
           /\ Tids(s, 0, kind) = Tids(Tail(s), 0, kind) \cup TidOf(Head(s), kind)
           /\ Tids(Tail(s), 0, kind) \cap TidOf(Head(s), kind) = {}
           /\ Distinct(Tail(s), 0, kind)
<1> DEFINE a == Tail(s)
<1>1. /\ a \in Seq(Packet) /\ Len(s) \in Nat /\ Len(s) > 0 /\ Len(a) = Len(s) - 1
      /\ Head(s) = s[1] /\ s[1] \in Packet /\ \A i \in 1 .. Len(s) - 1 : a[i] = s[i + 1]
  OBVIOUS
<1> HIDE DEF a
<1>2. \A i \in 0 + 1 .. Len(a) : i + 1 \in 0 + 1 .. Len(s) /\ i + 1 # 1 /\ a[i] = s[i + 1]
  BY <1>1
<1>3. 1 \in 0 + 1 .. Len(s)
  BY <1>1
<1>4. Tids(a, 0, kind) \subseteq Tids(s, 0, kind)
  BY <1>2 DEF Tids
<1>5. s[1].type = kind => s[1].tid \in Tids(s, 0, kind)
  BY <1>3 DEF Tids
<1>6. s[1].type = kind => s[1].tid \notin Tids(a, 0, kind)
  <2> SUFFICES ASSUME s[1].type = kind, NEW i \in 0 + 1 .. Len(a),
                      a[i].type = kind, a[i].tid = s[1].tid
               PROVE  FALSE
    BY DEF Tids
  <2>1. i + 1 \in 0 + 1 .. Len(s) /\ i + 1 # 1 /\ a[i] = s[i + 1]
    BY <1>2
  <2>2. s[i + 1].type = kind /\ s[i + 1].tid = s[1].tid
    BY <2>1
  <2>3. i + 1 = 1
    BY <1>3, <2>1, <2>2 DEF Distinct
  <2> QED  BY <2>1, <2>3
<1>7. \A i, j \in 0 + 1 .. Len(a) : i + 1 = j + 1 => i = j
  BY <1>1
<1>8. Distinct(a, 0, kind)
  BY <1>2, <1>7 DEF Distinct
<1>9. \A i \in 0 + 1 .. Len(s) : i = 1 \/ (i - 1 \in 0 + 1 .. Len(a) /\ a[i - 1] = s[i])
  BY <1>1
<1>10. ASSUME NEW t \in Tids(s, 0, kind), t \notin Tids(a, 0, kind)
       PROVE  t \in TidOf(s[1], kind)
  BY <1>9, <1>10 DEF Tids, TidOf
<1>11. /\ Tids(s, 0, kind) = Tids(a, 0, kind) \cup TidOf(s[1], kind)
       /\ Tids(a, 0, kind) \cap TidOf(s[1], kind) = {}
  BY <1>4, <1>5, <1>6, <1>10 DEF TidOf
<1> QED  BY <1>1, <1>8, <1>11 DEF a

(***************************************************************************)
(* EmclDispatchPacket removes one entry, that of the transaction.          *)
(***************************************************************************)
LEMMA WithoutEntryKeeps ==
    ASSUME CompletionEntries \in Seq(Nat), IsInjective(CompletionEntries),
           NEW tid, EntryFound(tid)
    PROVE  /\ WithoutEntry(tid) \in Seq(Nat)
           /\ Range(WithoutEntry(tid)) = Range(CompletionEntries) \ {tid}
           /\ IsInjective(WithoutEntry(tid))
<1> DEFINE n == Len(CompletionEntries)
           i == CHOOSE k \in DOMAIN CompletionEntries : CompletionEntries[k] = tid
           w == [k \in 1 .. n - 1 |-> CompletionEntries[IF k < i THEN k ELSE k + 1]]
<1>1. DOMAIN CompletionEntries = 1 .. n /\ n \in Nat
      /\ \A k \in 1 .. n : CompletionEntries[k] \in Nat
  OBVIOUS
<1>2. i \in 1 .. n /\ CompletionEntries[i] = tid
  <2>1. \E k \in DOMAIN CompletionEntries : CompletionEntries[k] = tid
    BY DEF EntryFound, Range
  <2> QED  BY <1>1, <2>1
<1>3. WithoutEntry(tid) = w
  BY DEF WithoutEntry
<1> HIDE DEF n, i
<1>4. /\ n - 1 \in Nat
      /\ \A k \in 1 .. n - 1 : /\ (IF k < i THEN k ELSE k + 1) \in 1 .. n
                             /\ (IF k < i THEN k ELSE k + 1) # i
      /\ \A j, k \in 1 .. n - 1 :
             (IF j < i THEN j ELSE j + 1) = (IF k < i THEN k ELSE k + 1) => j = k
  BY <1>1, <1>2
<1> DEFINE at(k) == IF k < i THEN k ELSE k + 1
<1>5. /\ DOMAIN w = 1 .. n - 1 /\ \A k \in 1 .. n - 1 : w[k] = CompletionEntries[at(k)]
      /\ w \in [1 .. n - 1 -> Nat]
  BY <1>1, <1>4
<1>6. /\ \A k \in 1 .. n - 1 : at(k) \in 1 .. n /\ at(k) # i
      /\ \A j, k \in 1 .. n - 1 : at(j) = at(k) => j = k
  BY <1>4
<1>7. ASSUME NEW k \in 1 .. n, k # i PROVE \E j \in 1 .. n - 1 : at(j) = k
  <2>1. CASE k < i
    BY <1>1, <1>2, <1>7, <2>1
  <2>2. CASE ~(k < i)
    <3>1. k - 1 \in 1 .. n - 1 /\ at(k - 1) = k
      BY <1>1, <1>2, <1>7, <2>2
    <3> QED  BY <3>1
  <2> QED  BY <2>1, <2>2
<1> HIDE DEF w, at
<1>8. w \in Seq(Nat)
  BY <1>4, <1>5
<1>9. \A j, k \in 1 .. n : CompletionEntries[j] = CompletionEntries[k] => j = k
  BY <1>1 DEF IsInjective
<1>10. Range(w) \subseteq Range(CompletionEntries) \ {tid}
  <2> SUFFICES ASSUME NEW k \in 1 .. n - 1
               PROVE  w[k] \in Range(CompletionEntries) /\ w[k] # tid
    BY <1>5, Zenon DEF Range
  <2>1. at(k) \in 1 .. n /\ at(k) # i /\ w[k] = CompletionEntries[at(k)]
    BY <1>5, <1>6, Zenon
  <2>2. CompletionEntries[at(k)] # CompletionEntries[i]
    BY <1>2, <1>9, <2>1, Zenon
  <2> QED  BY <1>1, <1>2, <2>1, <2>2, Zenon DEF Range
<1>11. ASSUME NEW t \in Range(CompletionEntries), t # tid PROVE t \in Range(w)
  <2>1. PICK k \in 1 .. n : CompletionEntries[k] = t
    BY <1>1, <1>11, Zenon DEF Range
  <2>2. PICK j \in 1 .. n - 1 : at(j) = k
    BY <1>2, <1>7, <1>11, <2>1, Zenon
  <2> QED  BY <1>5, <2>1, <2>2, Zenon DEF Range
<1>12. IsInjective(w)
  <2> SUFFICES ASSUME NEW j \in 1 .. n - 1, NEW k \in 1 .. n - 1, w[j] = w[k] PROVE j = k
    BY <1>5, Zenon DEF IsInjective
  <2>1. CompletionEntries[at(j)] = CompletionEntries[at(k)]
        /\ at(j) \in 1 .. n /\ at(k) \in 1 .. n
    BY <1>5, <1>6, Zenon
  <2> QED  BY <1>6, <1>9, <2>1, Zenon
<1>13. Range(w) = Range(CompletionEntries) \ {tid}
  BY <1>10, <1>11
<1> QED  BY <1>3, <1>8, <1>12, <1>13, Zenon

(***************************************************************************)
(* A new entry at the end of the list.                                     *)
(***************************************************************************)
LEMMA AppendEntry ==
    ASSUME CompletionEntries \in Seq(Nat), NEW tid \in Nat
    PROVE  /\ Append(CompletionEntries, tid) \in Seq(Nat)
           /\ Range(Append(CompletionEntries, tid)) = Range(CompletionEntries) \cup {tid}
           /\ IsInjective(CompletionEntries) /\ tid \notin Range(CompletionEntries) =>
                  IsInjective(Append(CompletionEntries, tid))
<1> DEFINE a == Append(CompletionEntries, tid)
<1>1. /\ a \in Seq(Nat) /\ Len(CompletionEntries) \in Nat
      /\ DOMAIN CompletionEntries = 1 .. Len(CompletionEntries)
      /\ DOMAIN a = 1 .. Len(CompletionEntries) + 1
      /\ a[Len(CompletionEntries) + 1] = tid
      /\ \A i \in 1 .. Len(CompletionEntries) : a[i] = CompletionEntries[i]
  OBVIOUS
<1> HIDE DEF a
<1>2. \A i \in DOMAIN a : i = Len(CompletionEntries) + 1 \/ i \in DOMAIN CompletionEntries
  BY <1>1
<1>3. Len(CompletionEntries) + 1 \in DOMAIN a /\ DOMAIN CompletionEntries \subseteq DOMAIN a
  BY <1>1
<1>4. Range(a) = Range(CompletionEntries) \cup {tid}
  BY <1>1, <1>2, <1>3 DEF Range
<1>5. ASSUME IsInjective(CompletionEntries), tid \notin Range(CompletionEntries)
      PROVE  IsInjective(a)
  <2>1. \A i \in DOMAIN CompletionEntries : CompletionEntries[i] # tid
    BY <1>5, Zenon DEF Range
  <2> SUFFICES ASSUME NEW i \in DOMAIN a, NEW j \in DOMAIN a, a[i] = a[j] PROVE i = j
    BY DEF IsInjective
  <2>2. CASE i \in DOMAIN CompletionEntries /\ j \in DOMAIN CompletionEntries
    BY <1>1, <1>5, <2>2 DEF IsInjective
  <2>3. CASE i = Len(CompletionEntries) + 1 \/ j = Len(CompletionEntries) + 1
    BY <1>1, <1>2, <2>1, <2>3
  <2> QED  BY <1>2, <2>2, <2>3
<1> QED  BY <1>1, <1>4, <1>5 DEF a

(***************************************************************************)
(* The critical section of EmclpSendPacket puts the packet in the ring, in *)
(* the queue, or nowhere, and then only if it never fits.                  *)
(***************************************************************************)
LEMMA SendPlaces ==
    ASSUME NEW p, NEW d, EmclpSendPacket(p, d)
    PROVE  \/ outRing' = Append(outRing, p) /\ OutgoingQueue' = OutgoingQueue /\ ~NeverFits(p)
           \/ outRing' = outRing /\ OutgoingQueue' = Append(OutgoingQueue, p) /\ ~NeverFits(p)
           \/ outRing' = outRing /\ OutgoingQueue' = OutgoingQueue /\ NeverFits(p)
<1>1. CASE Fits(p)
  BY <1>1 DEF EmclpSendPacket, PkSendPacketRaw, TooSmall, NeverFits
<1>2. CASE TooSmall(p)
  BY <1>2 DEF EmclpSendPacket, PkSendPacketRaw, TooSmall
<1>3. CASE NeverFits(p)
  BY <1>3 DEF EmclpSendPacket, PkSendPacketRaw, TooSmall, NeverFits
<1> QED  BY <1>1, <1>2, <1>3 DEF TooSmall

(***************************************************************************)
(* EmclpSendPacket leaves no packet in the ring without an interrupt that  *)
(* was sent or is owed.                                                    *)
(***************************************************************************)
LEMMA SendWakes ==
    ASSUME NoSilentPacket, NEW p, NEW d \in BOOLEAN, EmclpSendPacket(p, d)
    PROVE  NoSilentPacket'
<1> DEFINE notify == Signal(p) \/ InterruptDeferred
           deferred == IF notify THEN d ELSE InterruptDeferred
<1>1. /\ InterruptDeferred' = (deferred /\ ~TooSmall(p))
      /\ hostAwake' = (hostAwake \/ (notify /\ ~d) \/ (deferred /\ TooSmall(p)))
  BY Zenon DEF EmclpSendPacket
<1>2. outRing' = IF Fits(p) THEN Append(outRing, p) ELSE outRing
  BY DEF EmclpSendPacket, PkSendPacketRaw
<1> SUFFICES ASSUME outRing' # <<>>, ~hostAwake' PROVE InterruptDeferred'
  BY DEF NoSilentPacket
<1>3. ~hostAwake /\ ~(notify /\ ~d) /\ ~(deferred /\ TooSmall(p))
  BY <1>1, Zenon
<1>4. notify
  <2>1. CASE outRing = <<>>
    BY <1>2, <2>1 DEF Signal
  <2>2. CASE outRing # <<>>
    BY <1>3, <2>2 DEF NoSilentPacket
  <2> QED  BY <2>1, <2>2
<1>5. deferred
  BY <1>3, <1>4, Zenon
<1> HIDE DEF notify, deferred
<1> QED  BY <1>1, <1>3, <1>5, Zenon
-----------------------------------------------------------------------------
(***************************************************************************)
(* The invariant holds before the channel is started.                      *)
(***************************************************************************)
LEMMA EmptyTids ==
    ASSUME NEW kind
    PROVE  Tids(<<>>, 0, kind) = {} /\ Distinct(<<>>, 0, kind)
<1>1. 0 + 1 .. Len(<<>>) = {}
  OBVIOUS
<1> QED  BY <1>1 DEF Tids, Distinct

LEMMA InitIInv == Init => IInv
<1> SUFFICES ASSUME Init PROVE IInv  OBVIOUS
<1>1. Types
  BY DEF Init, Types
<1>2. Progress
  BY DEF Init, Progress
<1>3. OnePlace
  <2>1. OutgoingQueue = <<>> /\ outRing = <<>> /\ inRing = <<>> /\ receivedCount = 0
        /\ hostRequests = {} /\ dropped = {} /\ completed = {}
        /\ Range(CompletionEntries) = {} /\ IsInjective(CompletionEntries)
    BY DEF Init, Range, IsInjective
  <2> QED  BY <2>1, EmptyTids DEF OnePlace, RequestsConserved, Queued, InRing, Arrived
<1>4. NoSilentPacket
  BY DEF Init, NoSilentPacket
<1>5. CompletionsExpected
  BY DEF Init, CompletionsExpected
<1> QED  BY <1>1, <1>2, <1>3, <1>4, <1>5 DEF IInv

(***************************************************************************)
(* Every step keeps the types.                                             *)
(***************************************************************************)
LEMMA TypesStep ==
    ASSUME IInv, [Next]_vars
    PROVE  Types'
<1>t. Types /\ Progress /\ OnePlace
  BY DEF IInv
<1> USE <1>t DEF Types
<1>c. ASSUME NEW tid \in Nat
      PROVE  Completion(tid) \in Packet
             /\ [type |-> "data", tid |-> tid, size |-> 1] \in Packet
  BY DEF Completion, Packet
<1>s. ASSUME NEW p \in Packet, NEW d, EmclpSendPacket(p, d)
      PROVE  OutgoingQueue' \in Seq(Packet) /\ outRing' \in Seq(Packet)
  <2>1. Append(OutgoingQueue, p) \in Seq(Packet) /\ Append(outRing, p) \in Seq(Packet)
    OBVIOUS
  <2> QED  BY <1>s, <2>1, SendPlaces
<1>1. CASE BeginProcessQueue
  BY <1>1 DEF BeginProcessQueue, emcl, host
<1>0. CASE RingDrained
  BY <1>0 DEF RingDrained, EndReceive, emcl, host
<1>2. CASE ReceiveAllocationFails
  BY <1>2 DEF ReceiveAllocationFails, EndReceive, host
<1>3. CASE DispatchPacket
  <2>1. CompletionEntries' \in Seq(Nat)
    BY <1>3, WithoutEntryKeeps DEF DispatchPacket, OnePlace, RequestsConserved
  <2> QED  BY <1>3, <2>1 DEF DispatchPacket, host
<1>4. CASE RemoveReceived
  <2>1. inRing' \in Seq(Packet)
    BY <1>4, RemoveTids DEF RemoveReceived, RemoveTaken, Progress, OnePlace, RequestsConserved
  <2> QED  BY <1>4, <2>1 DEF RemoveReceived, RemoveTaken, emcl, host
<1>5. CASE FlushQueue
  <2>1. CASE OutgoingQueue = <<>>
    BY <1>5, <2>1 DEF FlushQueue
  <2>2. CASE OutgoingQueue # <<>>
    <3>1. Head(OutgoingQueue) \in Packet /\ Tail(OutgoingQueue) \in Seq(Packet)
      BY <2>2
    <3>2. Append(outRing, Head(OutgoingQueue)) \in Seq(Packet)
      BY <3>1
    <3>3. OutgoingQueue' \in {OutgoingQueue, Tail(OutgoingQueue)}
          /\ outRing' \in {outRing, Append(outRing, Head(OutgoingQueue))}
          /\ pq' \in {"flush", "idle"}
      BY <1>5, <2>2, Zenon DEF FlushQueue, PkSendPacketRaw
    <3> QED  BY <1>5, <3>1, <3>2, <3>3 DEF FlushQueue
  <2> QED  BY <2>1, <2>2
<1>6. ASSUME NEW size \in RequestSizes, EmclSendPacketEx(size) PROVE Types'
  <2> DEFINE tid == mCurrentTransactionId + 1
             p == Request(tid, size)
  <2>1. tid \in Nat /\ p \in Packet
    BY EmclAssumption DEF Request, Packet
  <2>2. CASE size > RingSize + 1
    BY <1>6, <2>1, <2>2 DEF EmclSendPacketEx, event
  <2>3. CASE ~(size > RingSize + 1)
    <3>1. EmclpSendPacket(p, FALSE)
      BY <1>6, <2>3 DEF EmclSendPacketEx
    <3>2. OutgoingQueue' \in Seq(Packet) /\ outRing' \in Seq(Packet)
      BY <1>s, <2>1, <3>1
    <3>3. CompletionEntries' \in Seq(Nat) /\ mCurrentTransactionId' \in Nat
      BY <1>6, <2>1, <2>3, AppendEntry DEF EmclSendPacketEx
    <3> QED  BY <1>6, <3>2, <3>3 DEF EmclSendPacketEx, event
  <2> QED  BY <2>2, <2>3
<1>7. CASE EmclSendGpaRange
  <2>1. RangePacket(RangeSize) \in Packet
    BY EmclAssumption DEF RangePacket, Packet
  <2>2. OutgoingQueue' \in Seq(Packet) /\ outRing' \in Seq(Packet)
    BY <1>7, <1>s, <2>1 DEF EmclSendGpaRange
  <2> QED  BY <1>7, <2>2 DEF EmclSendGpaRange, event
<1>8. ASSUME NEW id \in PacketIds, EmclCompletePacket(id) PROVE Types'
  <2>1. Completion(id) \in Packet
    <3>1. id \in Nat
      BY EmclAssumption DEF PacketIds
    <3> QED  BY <1>c, <3>1
  <2>2. OutgoingQueue' \in Seq(Packet) /\ outRing' \in Seq(Packet)
    BY <1>8, <1>s, <2>1 DEF EmclCompletePacket
  <2> QED  BY <1>8, <2>2 DEF EmclCompletePacket
<1>9. CASE EmclStartChannel
  BY <1>9 DEF EmclStartChannel, event, host
<1>10. CASE EmclStopChannel
  BY <1>10 DEF EmclStopChannel
<1>11. CASE HostTake
  <2>1. Head(outRing) \in Packet /\ Tail(outRing) \in Seq(Packet)
    BY <1>11 DEF HostTake
  <2>2. outRing' \in Seq(Packet) /\ hostRequests' \subseteq Nat
    BY <1>11, <2>1 DEF HostTake, Packet
  <2> QED  BY <1>11, <2>2 DEF HostTake, emcl
<1>12. CASE HostSleep
  BY <1>12 DEF HostSleep, emcl, event
<1>13. CASE HostSend
  <2>1. hostSent' \in Nat /\ inRing' \in Seq(Packet)
    BY <1>13, <1>c DEF HostSend, HostPublish
  <2> QED  BY <1>13, <2>1 DEF HostSend, emcl
<1>14. ASSUME NEW tid \in TransactionIds, HostComplete(tid) PROVE Types'
  <2>1. Completion(tid) \in Packet
    <3>1. tid \in Nat
      BY <1>14 DEF HostComplete
    <3> QED  BY <1>c, <3>1
  <2>2. inRing' \in Seq(Packet) /\ hostRequests' \subseteq Nat
    BY <1>14, <2>1 DEF HostComplete, HostPublish
  <2> QED  BY <1>14, <2>2 DEF HostComplete, emcl
<1>15. CASE UNCHANGED vars
  BY <1>15 DEF vars, emcl, event, host
<1> QED
  BY <1>0, <1>1, <1>2, <1>3, <1>4, <1>5, <1>6, <1>7, <1>8, <1>9, <1>10, <1>11, <1>12, <1>13,
     <1>14, <1>15
  DEF Next, EmclProcessQueue, Client, Host

(***************************************************************************)
(* Every step keeps the account of how far EmclProcessQueue has come.  The *)
(* loop leaves packets behind only after a failed allocation, and a packet *)
(* that arrives in an empty ring signals the event.                        *)
(***************************************************************************)
LEMMA ProgressStep ==
    ASSUME IInv, [Next]_vars
    PROVE  Progress'
<1>t. Types /\ Progress /\ OnePlace
  BY DEF IInv
<1> USE <1>t DEF Types, Progress
<1>u. ASSUME UNCHANGED <<IsRunning, AllocationFailure, inRing, pq, taken, receivedCount>>,
             ReceiveEvent => ReceiveEvent'
      PROVE  Progress'
  BY <1>u
<1>p. ASSUME NEW p \in Packet, HostPublish(p), IsRunning,
             UNCHANGED <<emcl, pq, taken, receivedCount>>
      PROVE  Progress'
  <2>1. Len(inRing') = Len(inRing) + 1 /\ Len(inRing) \in Nat
    BY <1>p DEF HostPublish
  <2>2. ReceiveEvent' \/ (inRing # <<>> /\ ~ReceiveEvent)
    BY <1>p, Zenon DEF HostPublish
  <2>3. IsRunning' /\ (AllocationFailure => AllocationFailure')
    BY <1>p, Zenon DEF emcl
  <2> QED  BY <1>p, <2>1, <2>2, <2>3
<1>1. CASE BeginProcessQueue
  <2>1. IsRunning' /\ inRing' = inRing /\ pq' = "receive" /\ taken' = 0 /\ receivedCount' = 0
    BY <1>1, Zenon DEF BeginProcessQueue, emcl
  <2> QED  BY <2>1
<1>2. CASE RingDrained
  <2>1. /\ pq = "receive" /\ taken = Len(inRing) /\ inRing' = inRing
        /\ taken' = taken /\ receivedCount' = receivedCount
        /\ pq' = IF receivedCount > 0 THEN "remove" ELSE "flush"
    BY <1>2 DEF RingDrained, EndReceive
  <2>2. IsRunning'
    BY <1>2, <2>1, Zenon DEF RingDrained, emcl
  <2>3. pq' = "flush" => inRing = <<>>
    BY <2>1
  <2> QED  BY <2>1, <2>2, <2>3
<1>3. CASE ReceiveAllocationFails
  <2>1. /\ pq = "receive" /\ taken < Len(inRing) /\ inRing' = inRing
        /\ taken' = taken + 1 /\ receivedCount' = receivedCount
        /\ pq' = IF receivedCount > 0 THEN "remove" ELSE "flush"
    BY <1>3 DEF ReceiveAllocationFails, EndReceive
  <2>2. IsRunning' /\ AllocationFailure'
    BY <1>3, <2>1, Zenon DEF ReceiveAllocationFails
  <2> QED  BY <2>1, <2>2
<1>4. CASE DispatchPacket
  <2>1. /\ pq = "receive" /\ pq' = "receive" /\ taken < Len(inRing) /\ inRing' = inRing
        /\ taken' = taken + 1 /\ receivedCount' = receivedCount + 1
    BY <1>4 DEF DispatchPacket
  <2>2. IsRunning'
    BY <1>4, <2>1, Zenon DEF DispatchPacket
  <2> QED  BY <2>1, <2>2
<1>5. CASE RemoveReceived
  <2>1. pq = "remove" /\ pq' = "receive" /\ taken' = 0 /\ receivedCount' = 0
    BY <1>5 DEF RemoveReceived, RemoveTaken
  <2>2. IsRunning'
    BY <1>5, <2>1, Zenon DEF RemoveReceived, RemoveTaken, emcl
  <2>3. inRing' \in Seq(Packet)
    BY TypesStep DEF Types
  <2> QED  BY <2>1, <2>2, <2>3
<1>6. CASE FlushQueue
  <2>1. /\ pq = "flush" /\ pq' \in {"idle", "flush"}
        /\ UNCHANGED <<inRing, taken, receivedCount>>
    BY <1>6, Zenon DEF FlushQueue
  <2>2. IsRunning' /\ (ReceiveEvent => ReceiveEvent') /\ (AllocationFailure => AllocationFailure')
    BY <1>6, <2>1, Zenon DEF FlushQueue
  <2>3. IsRunning /\ (ReceiveEvent' => ReceiveEvent)
    BY <1>6, <2>1, Zenon DEF FlushQueue
  <2> QED  BY <2>1, <2>2, <2>3
<1>7. ASSUME NEW size \in RequestSizes, EmclSendPacketEx(size) PROVE Progress'
  BY <1>7, <1>u, Zenon DEF EmclSendPacketEx, event
<1>8. CASE EmclSendGpaRange
  BY <1>8, <1>u, Zenon DEF EmclSendGpaRange, event
<1>9. ASSUME NEW id \in PacketIds, EmclCompletePacket(id) PROVE Progress'
  BY <1>9, <1>u, Zenon DEF EmclCompletePacket
<1>10. CASE EmclStartChannel
  <2>1. inRing' = <<>> /\ pq' = "idle" /\ UNCHANGED <<taken, receivedCount>> /\ inRing = <<>>
    BY <1>10, Zenon DEF EmclStartChannel, event
  <2> QED  BY <2>1
<1>11. CASE EmclStopChannel
  <2>1. inRing' = <<>> /\ pq' = "idle" /\ taken' = 0 /\ receivedCount' = 0
    BY <1>11, Zenon DEF EmclStopChannel
  <2> QED  BY <2>1
<1>12. CASE HostTake
  BY <1>12, <1>u, Zenon DEF HostTake, emcl
<1>13. CASE HostSleep
  BY <1>13, <1>u, Zenon DEF HostSleep, emcl, event
<1>14. CASE HostSend
  <2>1. [type |-> "data", tid |-> hostSent', size |-> 1] \in Packet
    BY TypesStep DEF Packet
  <2> QED  BY <1>14, <2>1, <1>p, Zenon DEF HostSend
<1>15. ASSUME NEW tid \in TransactionIds, HostComplete(tid) PROVE Progress'
  <2>1. Completion(tid) \in Packet
    BY <1>15 DEF HostComplete, Completion, Packet
  <2> QED  BY <1>15, <2>1, <1>p, Zenon DEF HostComplete
<1>16. CASE UNCHANGED vars
  BY <1>16, <1>u, Zenon DEF vars, emcl, event
<1> QED
  BY <1>1, <1>2, <1>3, <1>4, <1>5, <1>6, <1>7, <1>8, <1>9, <1>10, <1>11, <1>12, <1>13,
     <1>14, <1>15, <1>16
  DEF Next, EmclProcessQueue, Client, Host

(***************************************************************************)
(* Every step keeps the interrupt sent or owed.                            *)
(***************************************************************************)
LEMMA SilentStep ==
    ASSUME IInv, [Next]_vars
    PROVE  NoSilentPacket'
<1>t. NoSilentPacket
  BY DEF IInv
<1>u. ASSUME UNCHANGED <<outRing, hostAwake, InterruptDeferred>> PROVE NoSilentPacket'
  BY <1>t, <1>u, Zenon DEF NoSilentPacket
<1>1. CASE BeginProcessQueue \/ RingDrained \/ RemoveReceived \/ HostSend
  BY <1>1, <1>u, Zenon DEF BeginProcessQueue, RingDrained, RemoveReceived, RemoveTaken,
                           HostSend, emcl, host
<1>2. CASE ReceiveAllocationFails \/ DispatchPacket \/ EmclStartChannel
  BY <1>2, <1>u, Zenon DEF ReceiveAllocationFails, DispatchPacket, EmclStartChannel, host
<1>3. CASE FlushQueue
  <2> SUFFICES ASSUME outRing' # <<>>, ~hostAwake' PROVE InterruptDeferred'
    BY DEF NoSilentPacket
  <2>1. (InterruptDeferred => InterruptDeferred') /\ ~hostAwake
    BY <1>3, Zenon DEF FlushQueue
  <2>2. outRing # <<>>
    <3>1. CASE OutgoingQueue = <<>>
      BY <1>3, <3>1, Zenon DEF FlushQueue
    <3>2. CASE OutgoingQueue # <<>>
      BY <1>3, <3>2, Zenon DEF FlushQueue, PkSendPacketRaw, Interrupted, Signal
    <3> QED  BY <3>1, <3>2
  <2> QED  BY <1>t, <2>1, <2>2 DEF NoSilentPacket
<1>4. ASSUME NEW size \in RequestSizes, EmclSendPacketEx(size) PROVE NoSilentPacket'
  <2>1. CASE size > RingSize + 1
    BY <1>4, <1>u, <2>1, Zenon DEF EmclSendPacketEx
  <2>2. CASE ~(size > RingSize + 1)
    <3>1. EmclpSendPacket(Request(mCurrentTransactionId + 1, size), FALSE)
      BY <1>4, <2>2, Zenon DEF EmclSendPacketEx
    <3> QED  BY <1>t, <3>1, SendWakes
  <2> QED  BY <2>1, <2>2
<1>5. CASE EmclSendGpaRange
  BY <1>5, <1>t, SendWakes DEF EmclSendGpaRange
<1>6. ASSUME NEW id \in PacketIds, EmclCompletePacket(id) PROVE NoSilentPacket'
  BY <1>6, <1>t, SendWakes DEF EmclCompletePacket
<1>7. CASE EmclStopChannel \/ HostSleep
  BY <1>7, Zenon DEF EmclStopChannel, HostSleep, NoSilentPacket
<1>8. CASE HostTake
  BY <1>8, Zenon DEF HostTake, NoSilentPacket
<1>9. ASSUME NEW tid \in TransactionIds, HostComplete(tid) PROVE NoSilentPacket'
  BY <1>9, <1>u, Zenon DEF HostComplete, emcl
<1>10. CASE UNCHANGED vars
  BY <1>10, <1>u, Zenon DEF vars, emcl, host
<1> QED
  BY <1>1, <1>2, <1>3, <1>4, <1>5, <1>6, <1>7, <1>8, <1>9, <1>10
  DEF Next, EmclProcessQueue, Client, Host

(***************************************************************************)
(* Every step leaves a request in one place.  A packet moves from the      *)
(* queue to the ring, from the ring to the host, and from the host, as a   *)
(* completion, to the incoming ring; a new one has a new transaction.      *)
(***************************************************************************)
LEMMA OnePlaceStep ==
    ASSUME IInv, [Next]_vars
    PROVE  OnePlace'
<1> DEFINE entries == Range(CompletionEntries)
           acc == Accounted(Queued, InRing, hostRequests, Arrived, dropped, entries, completed)
           distinctQ == Distinct(OutgoingQueue, 0, "request")
           distinctR == Distinct(outRing, 0, "request")
           distinctA == Distinct(inRing, receivedCount, "completion")
           numbered == entries \cup completed \subseteq 0 .. mCurrentTransactionId
<1>t. Types /\ Progress /\ Len(inRing) \in Nat /\ Len(outRing) \in Nat
      /\ Len(OutgoingQueue) \in Nat
  BY DEF IInv, Types
<1>l. /\ 0 <= Len(outRing) /\ 0 <= Len(OutgoingQueue) /\ receivedCount <= Len(inRing)
      /\ receivedCount \in Nat /\ taken \in Nat
  BY <1>t DEF Progress, Types
<1>q. distinctQ /\ distinctR /\ distinctA /\ acc /\ IsInjective(CompletionEntries) /\ numbered
  BY Zenon DEF IInv, OnePlace, RequestsConserved, Accounted
<1>z. ASSUME distinctQ', distinctR', distinctA', acc', IsInjective(CompletionEntries)', numbered'
      PROVE  OnePlace'
  BY <1>z, Zenon DEF OnePlace, RequestsConserved, Accounted
<1>d. acc => /\ Queued \cap (InRing \cup hostRequests \cup Arrived \cup dropped) = {}
             /\ InRing \cap (hostRequests \cup Arrived \cup dropped) = {}
             /\ hostRequests \cap (Arrived \cup dropped) = {}
             /\ Queued \cup InRing \cup hostRequests \cup Arrived \cup dropped = entries
  BY Zenon DEF Accounted
\* What a step that leaves a list alone leaves alone.
<1>f. /\ UNCHANGED OutgoingQueue => Queued' = Queued /\ distinctQ'
      /\ UNCHANGED outRing => InRing' = InRing /\ distinctR'
      /\ UNCHANGED <<inRing, receivedCount>> => Arrived' = Arrived /\ distinctA'
      /\ UNCHANGED CompletionEntries => entries' = entries /\ IsInjective(CompletionEntries)'
  BY <1>q, Zenon DEF Queued, InRing, Arrived
<1> HIDE DEF entries, acc, distinctQ, distinctR, distinctA, numbered
<1>u. ASSUME UNCHANGED <<OutgoingQueue, outRing, inRing, receivedCount, hostRequests,
                         CompletionEntries, mCurrentTransactionId, dropped, completed>>
      PROVE  OnePlace'
  <2>1. acc' /\ numbered'
    BY <1>q, <1>f, <1>u, Zenon DEF acc, numbered
  <2> QED  BY <1>f, <1>u, <1>z, <2>1, Zenon
\* A packet that is no request is sent.
<1>s. ASSUME NEW p \in Packet, p.type # "request", NEW d, EmclpSendPacket(p, d),
             UNCHANGED <<inRing, receivedCount, hostRequests, CompletionEntries,
                         mCurrentTransactionId, dropped, completed>>
      PROVE  OnePlace'
  <2>1. /\ Tids(Append(outRing, p), 0, "request") = InRing
        /\ Distinct(Append(outRing, p), 0, "request")
    BY <1>t, <1>l, <1>q, <1>s, AppendOther DEF Types, InRing, distinctR
  <2>2. /\ Tids(Append(OutgoingQueue, p), 0, "request") = Queued
        /\ Distinct(Append(OutgoingQueue, p), 0, "request")
    BY <1>t, <1>l, <1>q, <1>s, AppendOther DEF Types, Queued, distinctQ
  <2>3. \/ outRing' = Append(outRing, p) /\ UNCHANGED OutgoingQueue
        \/ UNCHANGED outRing /\ OutgoingQueue' = Append(OutgoingQueue, p)
        \/ UNCHANGED <<outRing, OutgoingQueue>>
    BY <1>s, SendPlaces, Zenon
  <2>4. Queued' = Queued /\ InRing' = InRing /\ distinctQ' /\ distinctR'
    BY <1>f, <2>1, <2>2, <2>3, Zenon DEF Queued, InRing, distinctQ, distinctR
  <2>5. acc' /\ numbered'
    BY <1>q, <1>f, <1>s, <2>4, Zenon DEF acc, numbered
  <2> QED  BY <1>f, <1>s, <1>z, <2>4, <2>5, Zenon
<1>1. CASE BeginProcessQueue
  <2>1. receivedCount' = receivedCount
    BY <1>1, <1>t DEF BeginProcessQueue, Progress
  <2> QED  BY <1>1, <1>u, <2>1, Zenon DEF BeginProcessQueue, emcl, host, history
<1>2. CASE RingDrained \/ ReceiveAllocationFails \/ EmclStartChannel \/ HostSleep
  BY <1>2, <1>u, Zenon DEF RingDrained, ReceiveAllocationFails, EmclStartChannel, HostSleep,
                           emcl, host, event, history
<1>3. CASE DispatchPacket
  <2> DEFINE p == inRing[taken + 1]
             x == TidOf(p, "completion")
  <2>1. receivedCount < Len(inRing) /\ receivedCount' = receivedCount + 1 /\ taken = receivedCount
        /\ UNCHANGED <<OutgoingQueue, outRing, inRing, hostRequests, mCurrentTransactionId, dropped>>
    BY <1>3, <1>t, Zenon DEF DispatchPacket, Progress, host
  <2>2. Arrived = Arrived' \cup x /\ Arrived' \cap x = {} /\ distinctA'
    BY <1>t, <1>l, <1>q, <2>1, AdvanceTids DEF Types, Arrived, distinctA
  <2>3. x \subseteq entries
    BY <1>q, <1>d, <2>2
  <2>4. entries' = entries \ x /\ IsInjective(CompletionEntries)' /\ completed' = completed \cup x
    <3>1. CASE p.type = "completion"
      <4>1. x = {p.tid}
        BY <3>1, Zenon DEF TidOf
      <4>2. EntryFound(p.tid)
        BY <2>3, <4>1, Zenon DEF EntryFound, entries
      <4>3. CompletionEntries' = WithoutEntry(p.tid) /\ completed' = completed \cup {p.tid}
        BY <1>3, <3>1, <4>2, Zenon DEF DispatchPacket
      <4> HIDE DEF p, x
      <4>4. /\ Range(WithoutEntry(p.tid)) = Range(CompletionEntries) \ {p.tid}
            /\ IsInjective(WithoutEntry(p.tid))
        BY <1>t, <1>q, <4>2, WithoutEntryKeeps DEF Types
      <4> QED  BY <4>1, <4>3, <4>4, Zenon DEF entries
    <3>2. CASE p.type # "completion"
      <4>1. x = {}
        BY <3>2, Zenon DEF TidOf
      <4>2. UNCHANGED <<CompletionEntries, completed>>
        BY <1>3, <3>2, Zenon DEF DispatchPacket
      <4> QED  BY <1>f, <4>1, <4>2
    <3> QED  BY <3>1, <3>2
  <2> HIDE DEF p, x
  <2>5. acc'
    <3>1. Queued' = Queued /\ InRing' = InRing /\ hostRequests' = hostRequests /\ dropped' = dropped
      BY <1>f, <2>1, Zenon
    <3> QED  BY <1>q, <2>2, <2>4, <3>1 DEF acc, Accounted
  <2>6. numbered'
    BY <1>q, <2>1, <2>3, <2>4 DEF numbered
  <2> QED  BY <1>f, <1>z, <2>1, <2>2, <2>4, <2>5, <2>6, Zenon
<1>4. CASE RemoveReceived
  <2>1. /\ inRing' = SubSeq(inRing, taken + 1, Len(inRing)) /\ receivedCount' = 0
        /\ dropped' = dropped \cup (Arrived \ Tids(inRing, taken, "completion"))
        /\ UNCHANGED <<OutgoingQueue, outRing, hostRequests, CompletionEntries,
                       mCurrentTransactionId, completed>>
    BY <1>4, Zenon DEF RemoveReceived, RemoveTaken, emcl, host, Arrived
  <2>2. receivedCount <= taken /\ taken <= Len(inRing)
    BY <1>t DEF Progress
  <2>3. /\ Arrived' = Tids(inRing, taken, "completion") /\ distinctA'
        /\ Tids(inRing, taken, "completion") \subseteq Arrived
    BY <1>t, <1>l, <1>q, <2>1, <2>2, RemoveTids DEF Types, Arrived, distinctA
  <2>4. acc'
    <3>1. Queued' = Queued /\ InRing' = InRing /\ hostRequests' = hostRequests /\ entries' = entries
          /\ completed' = completed
      BY <1>f, <2>1, Zenon
    <3>2. dropped' = dropped \cup (Arrived \ Arrived') /\ Arrived' \subseteq Arrived
      BY <2>1, <2>3, Zenon
    <3> QED  BY <1>q, <3>1, <3>2 DEF acc, Accounted
  <2>5. numbered'
    BY <1>q, <1>f, <2>1, Zenon DEF numbered
  <2> QED  BY <1>f, <1>z, <2>1, <2>3, <2>4, <2>5, Zenon
<1>5. CASE FlushQueue
  <2> DEFINE p == Head(OutgoingQueue)
             x == TidOf(p, "request")
  <2>1. UNCHANGED <<inRing, receivedCount, hostRequests, CompletionEntries, mCurrentTransactionId,
                    dropped, completed>>
    BY <1>5, Zenon DEF FlushQueue, history
  <2>2. CASE UNCHANGED <<OutgoingQueue, outRing>>
    BY <1>u, <2>1, <2>2, Zenon
  <2>3. CASE /\ OutgoingQueue # <<>>
             /\ OutgoingQueue' = Tail(OutgoingQueue) /\ outRing' = Append(outRing, p)
    <3>1. p \in Packet /\ Queued = Queued' \cup x /\ Queued' \cap x = {} /\ distinctQ'
      BY <1>t, <1>q, <2>3, TailTids DEF Types, Queued, distinctQ
    <3>2. p.type = "request" => p.tid \notin InRing
      BY <1>q, <1>d, <3>1 DEF TidOf
    <3>3. InRing' = InRing \cup x /\ distinctR'
      <4> HIDE DEF p
      <4> QED  BY <1>t, <1>l, <1>q, <2>3, <3>1, <3>2, AppendTids DEF Types, InRing, distinctR
    <3> HIDE DEF p, x
    <3>4. acc'
      <4>1. Arrived' = Arrived /\ hostRequests' = hostRequests /\ dropped' = dropped
            /\ entries' = entries /\ completed' = completed
        BY <1>f, <2>1, Zenon
      <4> QED  BY <1>q, <3>1, <3>3, <4>1 DEF acc, Accounted
    <3>5. numbered'
      BY <1>q, <1>f, <2>1, Zenon DEF numbered
    <3> QED  BY <1>f, <1>z, <2>1, <3>1, <3>3, <3>4, <3>5, Zenon
  <2> QED  BY <1>5, <2>2, <2>3, Zenon DEF FlushQueue, PkSendPacketRaw, Unlinked
<1>6. ASSUME NEW size \in RequestSizes, EmclSendPacketEx(size) PROVE OnePlace'
  <2> DEFINE tid == mCurrentTransactionId + 1
             p == Request(tid, size)
  <2>1. p \in Packet /\ p.type = "request" /\ p.tid = tid /\ tid \in Nat
    BY <1>t, EmclAssumption DEF Types, Request, Packet
  <2>2. mCurrentTransactionId' = tid
        /\ UNCHANGED <<inRing, receivedCount, hostRequests, dropped, completed>>
    BY <1>6, Zenon DEF EmclSendPacketEx, event
  <2>3. /\ tid \notin entries /\ tid \notin completed
        /\ entries \cup completed \subseteq 0 .. tid /\ tid \in 0 .. tid
    BY <1>t, <1>q DEF numbered, Types
  <2>4. Arrived' = Arrived /\ distinctA'
    BY <1>f, <2>2, Zenon
  <2> HIDE DEF tid
  <2>5. CASE UNCHANGED <<OutgoingQueue, outRing, CompletionEntries>>
    <3>1. acc' /\ numbered'
      BY <1>q, <1>f, <2>2, <2>3, <2>5, Zenon DEF acc, numbered
    <3> QED  BY <1>f, <1>z, <2>4, <2>5, <3>1, Zenon
  <2>6. CASE /\ CompletionEntries' = Append(CompletionEntries, tid)
             /\ \/ outRing' = Append(outRing, p) /\ OutgoingQueue' = OutgoingQueue
                \/ outRing' = outRing /\ OutgoingQueue' = Append(OutgoingQueue, p)
    <3> HIDE DEF p
    <3>1. entries' = entries \cup {tid} /\ IsInjective(CompletionEntries)'
      BY <1>t, <1>q, <2>1, <2>3, <2>6, AppendEntry DEF Types, entries
    <3>2. tid \notin Queued \cup InRing \cup hostRequests \cup Arrived \cup dropped
      BY <1>q, <1>d, <2>3, Zenon
    <3>x. TidOf(p, "request") = {tid}
      BY <2>1, Zenon DEF TidOf
    <3>3. /\ Tids(Append(outRing, p), 0, "request") = InRing \cup TidOf(p, "request")
          /\ Distinct(Append(outRing, p), 0, "request")
      BY <1>t, <1>l, <1>q, <2>1, <3>2, AppendTids DEF Types, InRing, distinctR
    <3>4. /\ Tids(Append(OutgoingQueue, p), 0, "request") = Queued \cup TidOf(p, "request")
          /\ Distinct(Append(OutgoingQueue, p), 0, "request")
      BY <1>t, <1>l, <1>q, <2>1, <3>2, AppendTids DEF Types, Queued, distinctQ
    <3>5. /\ distinctQ' /\ distinctR'
          /\ \/ InRing' = InRing \cup {tid} /\ Queued' = Queued
             \/ InRing' = InRing /\ Queued' = Queued \cup {tid}
      BY <1>f, <2>6, <3>x, <3>3, <3>4, Zenon DEF Queued, InRing, distinctQ, distinctR
    <3>6. numbered'
      BY <2>2, <2>3, <3>1, Zenon DEF numbered
    <3>7. acc'
      BY <1>q, <2>2, <2>3, <2>4, <3>1, <3>2, <3>5 DEF acc, Accounted
    <3> QED  BY <1>z, <2>4, <3>1, <3>5, <3>6, <3>7, Zenon
  <2>7. CASE size > RingSize + 1
    BY <1>6, <2>5, <2>7, Zenon DEF EmclSendPacketEx
  <2>8. CASE ~(size > RingSize + 1)
    <3>1. /\ EmclpSendPacket(p, FALSE)
          /\ CompletionEntries' = IF NeverFits(p) THEN CompletionEntries
                                  ELSE Append(CompletionEntries, tid)
      BY <1>6, <2>8, Zenon DEF EmclSendPacketEx, tid
    <3> HIDE DEF p
    <3> QED  BY <2>5, <2>6, <3>1, SendPlaces, Zenon
  <2> QED  BY <2>7, <2>8
<1>7. CASE EmclSendGpaRange
  <2>1. RangePacket(RangeSize) \in Packet /\ RangePacket(RangeSize).type # "request"
    BY EmclAssumption DEF RangePacket, Packet
  <2>2. /\ EmclpSendPacket(RangePacket(RangeSize), TRUE)
        /\ UNCHANGED <<inRing, receivedCount, hostRequests, CompletionEntries,
                       mCurrentTransactionId, dropped, completed>>
    BY <1>7, Zenon DEF EmclSendGpaRange, event, history
  <2> QED  BY <1>s, <2>1, <2>2
<1>8. ASSUME NEW id \in PacketIds, EmclCompletePacket(id) PROVE OnePlace'
  <2>1. Completion(id) \in Packet /\ Completion(id).type # "request"
    BY EmclAssumption DEF Completion, Packet, PacketIds
  <2>2. /\ EmclpSendPacket(Completion(id), FALSE)
        /\ UNCHANGED <<inRing, receivedCount, hostRequests, CompletionEntries,
                       mCurrentTransactionId, dropped, completed>>
    BY <1>8, Zenon DEF EmclCompletePacket, history
  <2> QED  BY <1>s, <2>1, <2>2
<1>9. CASE EmclStopChannel
  <2>1. /\ OutgoingQueue' = <<>> /\ outRing' = <<>> /\ inRing' = <<>> /\ receivedCount' = 0
        /\ hostRequests' = {} /\ CompletionEntries' = <<>> /\ dropped' = {}
        /\ UNCHANGED <<completed, mCurrentTransactionId>>
    BY <1>9, Zenon DEF EmclStopChannel
  <2>2. entries' = {} /\ IsInjective(CompletionEntries)'
    BY <2>1 DEF entries, Range, IsInjective
  <2>3. /\ Queued' = {} /\ InRing' = {} /\ Arrived' = {}
        /\ distinctQ' /\ distinctR' /\ distinctA'
    BY <2>1, EmptyTids, Zenon DEF Queued, InRing, Arrived, distinctQ, distinctR, distinctA
  <2>4. acc'
    BY <2>1, <2>2, <2>3 DEF acc, Accounted
  <2>5. numbered'
    BY <1>q, <2>1, <2>2 DEF numbered
  <2> QED  BY <1>z, <2>2, <2>3, <2>4, <2>5, Zenon
<1>10. CASE HostTake
  <2> DEFINE p == Head(outRing)
             x == TidOf(p, "request")
  <2>1. /\ outRing # <<>> /\ outRing' = Tail(outRing)
        /\ hostRequests' = IF p.type = "request" THEN hostRequests \cup {p.tid} ELSE hostRequests
        /\ UNCHANGED <<OutgoingQueue, inRing, receivedCount, CompletionEntries,
                       mCurrentTransactionId, dropped, completed>>
    BY <1>10, Zenon DEF HostTake, emcl, history
  <2>2. InRing = InRing' \cup x /\ InRing' \cap x = {} /\ distinctR'
    BY <1>t, <1>q, <2>1, TailTids DEF Types, InRing, distinctR
  <2>3. hostRequests' = hostRequests \cup x
    <3> HIDE DEF p
    <3> QED  BY <2>1 DEF TidOf
  <2> HIDE DEF p, x
  <2>4. acc'
    <3>1. Queued' = Queued /\ Arrived' = Arrived /\ dropped' = dropped /\ entries' = entries
          /\ completed' = completed
      BY <1>f, <2>1, Zenon
    <3> QED  BY <1>q, <2>2, <2>3, <3>1 DEF acc, Accounted
  <2>5. numbered'
    BY <1>q, <1>f, <2>1, Zenon DEF numbered
  <2> QED  BY <1>f, <1>z, <2>1, <2>2, <2>4, <2>5, Zenon
<1>11. CASE HostSend
  <2> DEFINE p == [type |-> "data", tid |-> hostSent', size |-> 1]
  <2>1. /\ inRing' = Append(inRing, p)
        /\ UNCHANGED <<OutgoingQueue, outRing, receivedCount, hostRequests, CompletionEntries,
                       mCurrentTransactionId, dropped, completed>>
    BY <1>11, Zenon DEF HostSend, HostPublish, emcl, history
  <2>2. p \in Packet /\ p.type # "completion"
    BY TypesStep DEF Types, Packet
  <2> HIDE DEF p
  <2>3. Arrived' = Arrived /\ distinctA'
    BY <1>t, <1>l, <1>q, <2>1, <2>2, AppendOther DEF Types, Arrived, distinctA
  <2>4. acc' /\ numbered'
    BY <1>q, <1>f, <2>1, <2>3, Zenon DEF acc, numbered
  <2> QED  BY <1>f, <1>z, <2>1, <2>3, <2>4, Zenon
<1>12. ASSUME NEW tid \in TransactionIds, HostComplete(tid) PROVE OnePlace'
  <2> DEFINE p == Completion(tid)
  <2>1. /\ inRing' = Append(inRing, p) /\ tid \in hostRequests /\ hostRequests' = hostRequests \ {tid}
        /\ UNCHANGED <<OutgoingQueue, outRing, receivedCount, CompletionEntries,
                       mCurrentTransactionId, dropped, completed>>
    BY <1>12, Zenon DEF HostComplete, HostPublish, emcl, history
  <2>2. p \in Packet /\ p.type = "completion" /\ p.tid = tid
    BY <1>t, <2>1 DEF Types, Completion, Packet
  <2>3. tid \notin Arrived
    BY <1>q, <1>d, <2>1
  <2> HIDE DEF p
  <2>4. Arrived' = Arrived \cup TidOf(p, "completion") /\ distinctA'
    BY <1>t, <1>l, <1>q, <2>1, <2>2, <2>3, AppendTids DEF Types, Arrived, distinctA
  <2>5. Arrived' = Arrived \cup {tid}
    BY <2>2, <2>4, Zenon DEF TidOf
  <2>6. acc'
    <3>1. Queued' = Queued /\ InRing' = InRing /\ dropped' = dropped /\ entries' = entries
          /\ completed' = completed
      BY <1>f, <2>1, Zenon
    <3> QED  BY <1>q, <2>1, <2>5, <3>1 DEF acc, Accounted
  <2>7. numbered'
    BY <1>q, <1>f, <2>1, Zenon DEF numbered
  <2> QED  BY <1>f, <1>z, <2>1, <2>4, <2>6, <2>7, Zenon
<1>13. CASE UNCHANGED vars
  BY <1>13, <1>u, Zenon DEF vars, emcl, event, host, history
<1> QED
  BY <1>1, <1>2, <1>3, <1>4, <1>5, <1>6, <1>7, <1>8, <1>9, <1>10, <1>11, <1>12, <1>13
  DEF Next, EmclProcessQueue, Client, Host

(***************************************************************************)
(* A completion that is dispatched has arrived, so it finds its entry.     *)
(***************************************************************************)
LEMMA ExpectedStep ==
    ASSUME IInv, [Next]_vars
    PROVE  CompletionsExpected'
<1>t. Types /\ Progress /\ OnePlace /\ CompletionsExpected
  BY DEF IInv
<1>u. ASSUME UNCHANGED failFast PROVE CompletionsExpected'
  BY <1>t, <1>u, Zenon DEF CompletionsExpected
<1>1. CASE DispatchPacket
  <2> DEFINE p == inRing[taken + 1]
  <2>1. taken < Len(inRing) /\ taken = receivedCount
    BY <1>1, <1>t DEF DispatchPacket, Progress
  <2>2. p.type = "completion" => p.tid \in Arrived
    BY <1>t, <2>1, AdvanceTids DEF Types, OnePlace, RequestsConserved, Arrived, TidOf
  <2>3. p.type = "completion" => EntryFound(p.tid)
    BY <1>t, <2>2, Zenon DEF OnePlace, RequestsConserved, EntryFound
  <2> QED  BY <1>1, <1>t, <2>3, Zenon DEF DispatchPacket, CompletionsExpected
<1>2. CASE EmclProcessQueue /\ ~DispatchPacket
  BY <1>2, <1>u, Zenon
  DEF EmclProcessQueue, BeginProcessQueue, RingDrained, ReceiveAllocationFails, RemoveReceived,
      RemoveTaken, FlushQueue, history
<1>3. CASE Client
  BY <1>3, <1>u, Zenon
  DEF Client, EmclSendPacketEx, EmclSendGpaRange, EmclCompletePacket, EmclStartChannel,
      EmclStopChannel, history
<1>4. CASE Host
  BY <1>4, <1>u, Zenon DEF Host, HostTake, HostSleep, HostSend, HostComplete, history
<1>5. CASE UNCHANGED vars
  BY <1>5, <1>u, Zenon DEF vars, history
<1> QED  BY <1>1, <1>2, <1>3, <1>4, <1>5 DEF Next
-----------------------------------------------------------------------------
(***************************************************************************)
(* A request is in one place on its way, with its completion entry, and    *)
(* EmclProcessQueue has accounted for every packet of the incoming ring.   *)
(***************************************************************************)
THEOREM EmclInvariant == Spec => []IInv
<1>1. IInv /\ [Next]_vars => IInv'
  BY TypesStep, ProgressStep, OnePlaceStep, SilentStep, ExpectedStep DEF IInv
<1> QED  BY InitIInv, <1>1, PTL DEF Spec

(***************************************************************************)
(* No packet is left without the interrupt that makes the other side look  *)
(* at it (EmclpSendPacket, EmclProcessQueue): one in the outgoing ring is  *)
(* being looked at or an interrupt is owed for it, and the receive event   *)
(* is idle over a ring with packets only after a failed allocation.        *)
(***************************************************************************)
THEOREM EmclNoStrandedPacket == Spec => []NoStrandedPacket
<1>1. IInv => NoStrandedPacket
  BY Zenon DEF IInv, Progress, NoStrandedPacket, NoStrandedIncoming
<1> QED  BY EmclInvariant, <1>1, PTL

(***************************************************************************)
(* A completion from a host that completes each request once always finds  *)
(* its completion entry, so that EmclDispatchPacket never fails fast; and  *)
(* every request with an entry is in one place on its way, or its          *)
(* completion was removed by EmclProcessQueue for want of memory.          *)
(***************************************************************************)
THEOREM EmclRequestsNotLost == Spec => []RequestsNotLost
<1>1. IInv => RequestsNotLost
  BY Zenon DEF IInv, OnePlace, RequestsNotLost
<1> QED  BY EmclInvariant, <1>1, PTL

(***************************************************************************)
(* While memory lasts no completion is removed unseen: the entries are     *)
(* exactly those of the requests on their way.                             *)
(***************************************************************************)
THEOREM EmclNothingDropped ==
    ASSUME AllocationCanFail = FALSE
    PROVE  Spec => [](dropped = {})
<1> DEFINE Inv == dropped = {} /\ (pq = "remove" => taken = receivedCount)
<1>1. Init => Inv
  BY DEF Init
<1>2. IInv /\ Inv /\ [Next]_vars => Inv'
  <2> SUFFICES ASSUME IInv, Inv, [Next]_vars PROVE Inv'
    OBVIOUS
  <2>1. CASE RemoveReceived
    BY <2>1 DEF RemoveReceived, RemoveTaken
  <2>2. CASE RingDrained
    BY <2>2 DEF RingDrained, history, IInv, Progress
  <2>3. CASE ReceiveAllocationFails
    BY <2>3 DEF ReceiveAllocationFails
  <2>4. CASE DispatchPacket \/ BeginProcessQueue \/ FlushQueue
    BY <2>4 DEF DispatchPacket, BeginProcessQueue, FlushQueue, history
  <2>5. CASE Client
    BY <2>5 DEF Client, EmclSendPacketEx, EmclSendGpaRange, EmclCompletePacket, EmclStartChannel,
                EmclStopChannel, history, event
  <2>6. CASE Host
    BY <2>6 DEF Host, HostTake, HostSleep, HostSend, HostComplete, history, event
  <2>7. CASE UNCHANGED vars
    BY <2>7 DEF vars, history, event
  <2> QED  BY <2>1, <2>2, <2>3, <2>4, <2>5, <2>6, <2>7 DEF Next, EmclProcessQueue
<1> QED  BY <1>1, <1>2, EmclInvariant, PTL DEF Spec
=============================================================================
