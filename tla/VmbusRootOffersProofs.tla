---------------------- MODULE VmbusRootOffersProofs -----------------------
(***************************************************************************)
(* Proofs about the VMBus root driver: no check of the host's behaviour    *)
(* stops the firmware, a message left in the SINT slot is attended to, and *)
(* the driver and the host agree on the connection, for every set of       *)
(* channels and number of starts.  Only the interrupt rule restricts the   *)
(* constants (QuietInterrupt).                                             *)
(***************************************************************************)
EXTENDS VmbusRoot, TLAPS

\* Either event flags interrupt only while no message is in the slot, or the
\* host adds no channel later.
QuietInterrupt == SharedInterrupt = "slotEmpty" \/ Hot = {}

\* The channels whose offers are in a queue, and in the queue or the slot.
OfferIds(q) == {q[i].id : i \in {j \in DOMAIN q : q[j].type = "Offer"}}
SlotOffer == IF sint.slot.type = "Offer" THEN {sint.slot.id} ELSE {}
Pending == OfferIds(host.inbox) \cup SlotOffer
DistinctOffers(q) ==
    \A i, j \in DOMAIN q :
        q[i].type = "Offer" /\ q[j].type = "Offer" /\ q[i].id = q[j].id => i = j
Entries(s) == {s[i] : i \in DOMAIN s}
Injective(s) == \A i, j \in DOMAIN s : s[i] = s[j] => i = j

\* The channels that are, or are about to become, channels.
Listed == Entries(root.HotMessageList)
Adding == Entries(adding)
Used == root.Channels \cup Listed \cup Adding

\* No channel is in two places: a channel that is pending is not used.
OffersUnique ==
    /\ DistinctOffers(host.inbox)
    /\ SlotOffer \cap OfferIds(host.inbox) = {}
    /\ Pending \cap Used = {}
    /\ Pending \cup Used \subseteq host.offered
    /\ Injective(root.HotMessageList) /\ Injective(adding)
    /\ Listed \cap Adding = {} /\ (Listed \cup Adding) \cap root.Channels = {}
    /\ Used \subseteq Allowed /\ Listed \cup Adding \subseteq Hot
    /\ root.OffersDelivered => Pending \subseteq Hot

\* The slot is owned by the allocation event from its signal to its end.
SlotOwned ==
    /\ sint.slot.type # "None" => sint.slot = sint.payload
    /\ allocating \/ "HotAllocationEvent" \in signaled =>
           sint.slot.type = "Offer" /\ ~sint.irq /\ root.OffersDelivered
    /\ ~(allocating /\ "HotAllocationEvent" \in signaled)
    /\ sint.connected /\ sint.slot.type = "Rescind" => sint.irq
    /\ sint.connected => root.SintConnected

\* Nothing of the host is under way.
Quiet == host.inbox = <<>> /\ sint.slot.type = "None"
\* No channel was announced on this connection.
Fresh ==
    /\ ~root.OffersDelivered /\ root.Channels = {}
    /\ root.HotMessageList = <<>> /\ adding = <<>>

Answer(m) ==
    \/ m.type = "VersionResponse" /\ host.phase = "contacted"
    \/ m.type = "VersionRefused" /\ host.phase = "idle"

\* Between InitiateContact and the choice of the next step exactly one answer
\* of the host is under way, and nothing else.
VersionPending ==
    /\ host.phase # "offered"
    /\ host.inbox # <<>> => /\ sint.slot.type = "None" /\ Len(host.inbox) = 1
                            /\ app.step \in {"event", "get"}
                            /\ Answer(host.inbox[1])
    /\ sint.slot.type # "None" => host.inbox = <<>> /\ Answer(sint.slot)
    /\ app.step \in {"copy", "complete"} => sint.slot.type # "None"
    /\ app.step = "complete" => app.msg = sint.slot
    /\ app.step = "handle" => Quiet /\ Answer(app.msg)
    /\ root.FeatureFlags \cap {"paravisor"} # {} => root.Confidential

\* What may follow AllOffersDelivered.
Late(m) == m.type = "Rescind" \/ (m.type = "Offer" /\ m.id \in Hot /\ EarlyHot)
AllLate == \A i \in DOMAIN host.inbox : Late(host.inbox[i])

\* The thread holds an offer that it has completed and not handled.
Held ==
    IF app.pc = "offers" /\ app.step = "handle" /\ app.msg.type = "Offer"
    THEN {app.msg.id} ELSE {}

\* The messages of the enumeration: what is under way,
OffersUnderWay ==
    /\ host.phase = "offered" /\ Cold \subseteq host.offered
    /\ \A i \in DOMAIN host.inbox :
           host.inbox[i].type \in {"Offer", "AllOffersDelivered", "Rescind"}
    /\ sint.slot.type \in {"None", "Offer", "AllOffersDelivered", "Rescind"}

\* that the thread completes what it copied (except a rescind, which the
\* interrupt may complete first),
CopyCurrent ==
    /\ app.step = "copy" => sint.payload.type # "None"
    /\ app.step = "copy" /\ sint.payload.type # "Rescind" => sint.slot = sint.payload
    /\ app.step \in {"complete", "handle"} => app.msg.type # "None"
    /\ app.step = "complete" /\ app.msg.type # "Rescind" => sint.slot = app.msg

\* that the offer it holds is nowhere else,
HeldUnique == Held \cap (Used \cup Pending) = {} /\ Held \subseteq host.offered

\* that AllOffersDelivered comes after the offers of Cold,
DeliveredLast ==
    /\ \A i, j \in DOMAIN host.inbox :
           host.inbox[i].type = "AllOffersDelivered" /\ i < j => Late(host.inbox[j])
    /\ sint.slot.type = "AllOffersDelivered" => AllLate
    /\ app.step = "handle" /\ app.msg.type = "AllOffersDelivered" =>
           AllLate /\ (sint.slot.type = "None" \/ Late(sint.slot))

\* and that no offer is mislaid unless the enumeration is about to fail.
OffersAccounted ==
    \/ app.step = "handle" /\ app.msg.type = "Rescind"
    \/ host.offered \cap Allowed \subseteq root.Channels \cup Pending \cup Held

OffersPending ==
    OffersUnderWay /\ CopyCurrent /\ HeldUnique /\ DeliveredLast /\ OffersAccounted

\* UnloadComplete is the last message of a connection.
UnloadPending ==
    /\ host.phase = "idle"
    /\ \A i \in DOMAIN host.inbox :
           host.inbox[i].type = "UnloadComplete" => i = Len(host.inbox)
    /\ sint.slot.type = "UnloadComplete" => host.inbox = <<>>
    /\ app.step = "copy" /\ sint.payload.type = "UnloadComplete" => host.inbox = <<>>
    /\ app.step \in {"complete", "handle"} /\ app.msg.type = "UnloadComplete" =>
           host.inbox = <<>>
    /\ app.step = "handle" /\ app.msg.type = "UnloadComplete" =>
           sint.slot.type = "None"

\* While the driver is up.
Running ==
    /\ root.OffersDelivered /\ Cold \subseteq host.offered
    /\ \A i \in DOMAIN host.inbox : host.inbox[i].type \in {"Offer", "Rescind"}
    /\ sint.slot.type \in {"None", "Offer", "Rescind"}
    /\ ~EarlyHot /\ sint.connected /\ sint.slot.type = "Offer" =>
           sint.irq \/ allocating \/ "HotAllocationEvent" \in signaled
    /\ host.offered \cap Allowed \subseteq Pending \cup Used \cup lost \cup stopped

NoUnload ==
    /\ \A i \in DOMAIN host.inbox : host.inbox[i].type # "UnloadComplete"
    /\ sint.slot.type # "UnloadComplete"

\* What the point the thread has reached says of the connection.
QuietInv ==
    /\ app.pc \in {"down", "teardown", "stopFailed", "exited"} =>
           Quiet /\ host.phase = "idle"
    /\ app.pc = "down" => ~sint.connected
ContactInv ==
    app.pc = "contact" =>
        Quiet /\ Fresh /\ host.phase = "idle" /\ ~root.ContactInitiated
VersionInv ==
    app.pc = "version" => Fresh /\ ~root.ContactInitiated /\ VersionPending
EnumerateInv ==
    app.pc = "enumerate" =>
        Quiet /\ Fresh /\ host.phase = "contacted" /\ root.ContactInitiated
OffersInv ==
    app.pc = "offers" =>
        /\ root.ContactInitiated /\ ~root.OffersDelivered
        /\ root.HotMessageList = <<>> /\ adding = <<>>
        /\ OffersPending
UpInv == app.pc = "up" => root.ContactInitiated /\ Running
DestroyInv ==
    app.pc = "destroy" => IF root.ContactInitiated THEN NoUnload
                          ELSE Quiet /\ host.phase = "idle"
UnloadInv == app.pc = "unload" => root.ContactInitiated /\ UnloadPending

Phases ==
    /\ QuietInv /\ ContactInv /\ VersionInv /\ EnumerateInv /\ OffersInv
    /\ UpInv /\ DestroyInv /\ UnloadInv /\ ParavisorFeaturesConfidential

IInv == TypeOK /\ ~failFast /\ OffersUnique /\ SlotOwned /\ Phases
-----------------------------------------------------------------------------
(* Queues and lists.                                                       *)

\* The channel an offer is for.
OfferId(m) == IF m.type = "Offer" THEN {m.id} ELSE {}

(***************************************************************************)
(* Posting a message adds its channel to the pending ones.                 *)
(***************************************************************************)
LEMMA AppendOffer ==
    ASSUME NEW q \in Seq(Message), NEW m \in Message
    PROVE  /\ Append(q, m) \in Seq(Message)
           /\ OfferIds(Append(q, m)) = OfferIds(q) \cup OfferId(m)
           /\ DistinctOffers(q) /\ OfferId(m) \cap OfferIds(q) = {} =>
                  DistinctOffers(Append(q, m))
           /\ Append(q, m) # <<>> /\ Len(Append(q, m)) = Len(q) + 1
           /\ DOMAIN q = 1 .. Len(q) /\ DOMAIN Append(q, m) = 1 .. Len(q) + 1
           /\ \A i \in DOMAIN Append(q, m) :
                 \/ i \in DOMAIN q /\ Append(q, m)[i] = q[i]
                 \/ i = Len(q) + 1 /\ Append(q, m)[i] = m
<1> DEFINE r == Append(q, m)
<1>1. /\ r \in Seq(Message) /\ Len(q) \in Nat /\ Len(r) = Len(q) + 1 /\ r # <<>>
      /\ DOMAIN q = 1 .. Len(q) /\ DOMAIN r = 1 .. Len(q) + 1
      /\ r[Len(q) + 1] = m /\ \A i \in 1 .. Len(q) : r[i] = q[i]
  OBVIOUS
<1> HIDE DEF r
<1>a. \A i \in 1 .. Len(q) + 1 : i \in 1 .. Len(q) \/ i = Len(q) + 1
  <2>1. Len(q) \in Nat  BY <1>1
  <2> QED  BY <2>1
<1>2. \A i \in DOMAIN r : (i \in DOMAIN q /\ r[i] = q[i]) \/ (i = Len(q) + 1 /\ r[i] = m)
  BY <1>1, <1>a, Zenon
<1>3. Len(q) + 1 \in DOMAIN r /\ \A i \in DOMAIN q : i \in DOMAIN r /\ r[i] = q[i]
  BY <1>1
<1>4. OfferIds(r) \subseteq OfferIds(q) \cup OfferId(m)
  BY <1>2 DEF OfferIds, OfferId
<1>5. OfferIds(q) \cup OfferId(m) \subseteq OfferIds(r)
  BY <1>1, <1>3 DEF OfferIds, OfferId
<1>6. ASSUME DistinctOffers(q), OfferId(m) \cap OfferIds(q) = {}
      PROVE  DistinctOffers(r)
  <2> SUFFICES ASSUME NEW i \in DOMAIN r, NEW j \in DOMAIN r, r[i].type = "Offer",
                      r[j].type = "Offer", r[i].id = r[j].id
               PROVE  i = j
    BY DEF DistinctOffers
  <2>1. \A k \in DOMAIN q : q[k].type = "Offer" => q[k].id \in OfferIds(q)
    BY DEF OfferIds
  <2>2. CASE i \in DOMAIN q /\ j \in DOMAIN q
    BY <1>3, <1>6, <2>2 DEF DistinctOffers
  <2>3. CASE i \in DOMAIN q /\ j = Len(q) + 1 /\ r[j] = m
    BY <1>3, <1>6, <2>1, <2>3 DEF OfferId
  <2>4. CASE i = Len(q) + 1 /\ r[i] = m /\ j \in DOMAIN q
    BY <1>3, <1>6, <2>1, <2>4 DEF OfferId
  <2> QED  BY <1>2, <2>2, <2>3, <2>4
<1> QED  BY <1>1, <1>2, <1>4, <1>5, <1>6 DEF r

(***************************************************************************)
(* Delivering the first message leaves the others.                         *)
(***************************************************************************)
LEMMA TailOffer ==
    ASSUME NEW q \in Seq(Message), q # <<>>
    PROVE  /\ Tail(q) \in Seq(Message) /\ Head(q) \in Message /\ Len(q) \in Nat
           /\ Len(q) >= 1 /\ Len(Tail(q)) = Len(q) - 1 /\ Head(q) = q[1]
           /\ DOMAIN q = 1 .. Len(q) /\ DOMAIN Tail(q) = 1 .. Len(q) - 1
           /\ \A i \in DOMAIN Tail(q) : i + 1 \in DOMAIN q /\ Tail(q)[i] = q[i + 1]
           /\ OfferIds(q) = OfferId(Head(q)) \cup OfferIds(Tail(q))
           /\ DistinctOffers(q) => /\ DistinctOffers(Tail(q))
                                   /\ OfferId(Head(q)) \cap OfferIds(Tail(q)) = {}
<1> DEFINE t == Tail(q)
<1>1. /\ t \in Seq(Message) /\ Len(q) \in Nat /\ Len(q) >= 1 /\ Len(t) = Len(q) - 1
      /\ DOMAIN q = 1 .. Len(q) /\ DOMAIN t = 1 .. Len(q) - 1
      /\ Head(q) = q[1] /\ q[1] \in Message
      /\ \A i \in 1 .. Len(q) - 1 : t[i] = q[i + 1]
  OBVIOUS
<1> HIDE DEF t
<1>2. \A i \in DOMAIN t : i + 1 \in DOMAIN q /\ i + 1 # 1 /\ t[i] = q[i + 1]
  BY <1>1
<1>3. \A i \in DOMAIN q : i = 1 \/ \E j \in DOMAIN t : i = j + 1
  <2> SUFFICES ASSUME NEW i \in DOMAIN q, i # 1 PROVE \E j \in DOMAIN t : i = j + 1
    OBVIOUS
  <2>1. i - 1 \in DOMAIN t /\ i = (i - 1) + 1
    BY <1>1
  <2> QED  BY <2>1
<1>4. 1 \in DOMAIN q
  BY <1>1
<1>5. OfferIds(q) \subseteq OfferId(q[1]) \cup OfferIds(t)
  <2> SUFFICES ASSUME NEW i \in DOMAIN q, q[i].type = "Offer"
               PROVE  q[i].id \in OfferId(q[1]) \cup OfferIds(t)
    BY DEF OfferIds
  <2>1. CASE i = 1
    BY <2>1 DEF OfferId
  <2>2. CASE i # 1
    <3>1. PICK j \in DOMAIN t : i = j + 1
      BY <1>3, <2>2
    <3>2. t[j] = q[i]
      BY <1>2, <3>1
    <3> QED  BY <3>1, <3>2 DEF OfferIds
  <2> QED  BY <2>1, <2>2
<1>6. OfferId(q[1]) \cup OfferIds(t) \subseteq OfferIds(q)
  BY <1>2, <1>4 DEF OfferIds, OfferId
<1>7. ASSUME DistinctOffers(q)
      PROVE  DistinctOffers(t) /\ OfferId(q[1]) \cap OfferIds(t) = {}
  <2>1. \A i, j \in DOMAIN t : i + 1 = j + 1 => i = j
    BY <1>1
  <2>2. DistinctOffers(t)
    BY <1>2, <1>7, <2>1 DEF DistinctOffers
  <2>3. OfferId(q[1]) \cap OfferIds(t) = {}
    BY <1>2, <1>4, <1>7 DEF DistinctOffers, OfferIds, OfferId
  <2> QED  BY <2>2, <2>3
<1> QED  BY <1>1, <1>2, <1>5, <1>6, <1>7 DEF t

(***************************************************************************)
(* HotMessageList and the list HotAdd takes.                               *)
(***************************************************************************)
LEMMA AppendList ==
    ASSUME NEW s \in Seq(Hot), NEW x \in Hot
    PROVE  /\ Append(s, x) \in Seq(Hot) /\ Entries(Append(s, x)) = Entries(s) \cup {x}
           /\ Injective(s) /\ x \notin Entries(s) => Injective(Append(s, x))
<1> DEFINE r == Append(s, x)
<1>1. /\ r \in Seq(Hot) /\ Len(s) \in Nat
      /\ DOMAIN s = 1 .. Len(s) /\ DOMAIN r = 1 .. Len(s) + 1
      /\ r[Len(s) + 1] = x /\ \A i \in 1 .. Len(s) : r[i] = s[i]
  OBVIOUS
<1> HIDE DEF r
<1>a. \A i \in 1 .. Len(s) + 1 : i \in 1 .. Len(s) \/ i = Len(s) + 1
  <2>1. Len(s) \in Nat  BY <1>1
  <2> QED  BY <2>1
<1>2. \A i \in DOMAIN r : (i \in DOMAIN s /\ r[i] = s[i]) \/ (i = Len(s) + 1 /\ r[i] = x)
  BY <1>1, <1>a, Zenon
<1>3. Len(s) + 1 \in DOMAIN r /\ \A i \in DOMAIN s : i \in DOMAIN r /\ r[i] = s[i]
  BY <1>1
<1>4. Entries(r) = Entries(s) \cup {x}
  BY <1>1, <1>2, <1>3 DEF Entries
<1>5. ASSUME Injective(s), x \notin Entries(s) PROVE Injective(r)
  <2> SUFFICES ASSUME NEW i \in DOMAIN r, NEW j \in DOMAIN r, r[i] = r[j] PROVE i = j
    BY DEF Injective
  <2>1. \A k \in DOMAIN s : s[k] # x
    BY <1>5 DEF Entries
  <2>2. CASE i \in DOMAIN s /\ j \in DOMAIN s
    BY <1>3, <1>5, <2>2 DEF Injective
  <2>3. CASE ~(i \in DOMAIN s /\ j \in DOMAIN s)
    BY <1>2, <2>1, <2>3
  <2> QED  BY <2>2, <2>3
<1> QED  BY <1>1, <1>4, <1>5 DEF r

LEMMA TailList ==
    ASSUME NEW s \in Seq(Hot), s # <<>>
    PROVE  /\ Tail(s) \in Seq(Hot) /\ Head(s) \in Hot
           /\ Entries(s) = Entries(Tail(s)) \cup {Head(s)}
           /\ Injective(s) => Injective(Tail(s)) /\ Head(s) \notin Entries(Tail(s))
<1> DEFINE t == Tail(s)
<1>1. /\ t \in Seq(Hot) /\ Len(s) \in Nat /\ Len(s) >= 1
      /\ DOMAIN s = 1 .. Len(s) /\ DOMAIN t = 1 .. Len(s) - 1
      /\ Head(s) = s[1] /\ s[1] \in Hot
      /\ \A i \in 1 .. Len(s) - 1 : t[i] = s[i + 1]
  OBVIOUS
<1> HIDE DEF t
<1>2. \A i \in DOMAIN t : i + 1 \in DOMAIN s /\ i + 1 # 1 /\ t[i] = s[i + 1]
  BY <1>1
<1>3. 1 \in DOMAIN s
  BY <1>1
<1>4. ASSUME NEW i \in DOMAIN s, i # 1 PROVE s[i] \in Entries(t)
  <2>1. i - 1 \in DOMAIN t /\ i = (i - 1) + 1
    BY <1>1, <1>4
  <2>2. t[i - 1] = s[i]
    BY <1>2, <2>1
  <2> QED  BY <2>1, <2>2 DEF Entries
<1>5. Entries(s) = Entries(t) \cup {s[1]}
  BY <1>2, <1>3, <1>4 DEF Entries
<1>6. ASSUME Injective(s) PROVE Injective(t) /\ s[1] \notin Entries(t)
  <2>1. \A i, j \in DOMAIN t : i + 1 = j + 1 => i = j
    BY <1>1
  <2>2. Injective(t)
    BY <1>2, <1>6, <2>1 DEF Injective
  <2>3. s[1] \notin Entries(t)
    BY <1>2, <1>3, <1>6 DEF Injective, Entries
  <2> QED  BY <2>2, <2>3
<1> QED  BY <1>1, <1>5, <1>6 DEF t

LEMMA EmptyLists ==
    /\ OfferIds(<<>>) = {} /\ DistinctOffers(<<>>) /\ Entries(<<>>) = {} /\ Injective(<<>>)
    /\ DOMAIN <<>> = {}
BY DEF OfferIds, DistinctOffers, Entries, Injective

(***************************************************************************)
(* RequestOffers is answered by one offer of each channel of Cold, then    *)
(* AllOffersDelivered.                                                     *)
(***************************************************************************)
LEMMA RequestedQueue ==
    ASSUME NEW order \in Orders, NEW q,
           q = <<>> \o [i \in DOMAIN order |-> Msg("Offer", order[i])]
                   \o <<Msg("AllOffersDelivered", 0)>>
    PROVE  /\ q \in Seq(Message) /\ OfferIds(q) = Cold /\ DistinctOffers(q)
           /\ \A i \in DOMAIN q : q[i].type \in {"Offer", "AllOffersDelivered"}
           /\ \A i, j \in DOMAIN q : q[i].type = "AllOffersDelivered" => ~(i < j)
<1> DEFINE n == Cardinality(Cold)
           a == [i \in 1 .. n |-> Msg("Offer", order[i])]
           z == Msg("AllOffersDelivered", 0)
<1>1. n \in Nat
  BY VmbusRootAssumption
<1>2. order \in [1 .. n -> Cold] /\ \A i, j \in 1 .. n : order[i] = order[j] => i = j
  BY DEF Orders
<1>3. \A c \in Cold : \E i \in 1 .. n : order[i] = c
  BY DEF Orders
<1> HIDE DEF n
<1>4. a \in Seq(Message) /\ Len(a) = n /\ \A i \in 1 .. n : a[i] = Msg("Offer", order[i])
  <2>1. \A i \in 1 .. n : Msg("Offer", order[i]) \in Message
    BY <1>2 DEF Msg, Message, Ids
  <2> QED  BY <1>1, <2>1
<1>5. z \in Message
  BY DEF Msg, Message
<1>6. q = a \o <<z>>
  <2>1. DOMAIN order = 1 .. n
    BY <1>2
  <2>2. <<>> \o a = a
    <3> HIDE DEF a
    <3> QED  BY <1>4
  <2> QED  BY <2>1, <2>2
<1>7. /\ q \in Seq(Message) /\ DOMAIN q = 1 .. n + 1
      /\ q[n + 1] = z /\ \A i \in 1 .. n : q[i] = Msg("Offer", order[i])
  <2> HIDE DEF a, z
  <2> QED  BY <1>1, <1>4, <1>5, <1>6
<1>8. \A i \in 1 .. n + 1 : i \in 1 .. n \/ i = n + 1
  BY <1>1
<1>a. \A x : Msg("Offer", x).type = "Offer" /\ Msg("Offer", x).id = x
  BY DEF Msg
<1>b. z.type = "AllOffersDelivered"
  BY DEF Msg
<1> HIDE DEF a, z
<1>9. /\ q[n + 1].type = "AllOffersDelivered"
      /\ \A i \in 1 .. n : q[i].type = "Offer" /\ q[i].id = order[i]
  BY <1>7, <1>a, <1>b, Zenon
<1>c. /\ DOMAIN q = 1 .. n + 1 /\ 1 .. n \subseteq 1 .. n + 1
      /\ \A i \in 1 .. n + 1 : q[i].type = "Offer" <=> i \in 1 .. n
  <2>1. 1 .. n \subseteq 1 .. n + 1
    BY <1>1
  <2>2. "Offer" # "AllOffersDelivered"
    OBVIOUS
  <2> QED  BY <1>7, <1>8, <1>9, <2>1, <2>2, Zenon
<1>10. OfferIds(q) = Cold
  <2>1. OfferIds(q) \subseteq Cold
    <3> SUFFICES ASSUME NEW i \in 1 .. n + 1, q[i].type = "Offer" PROVE q[i].id \in Cold
      BY <1>c DEF OfferIds
    <3>1. i \in 1 .. n /\ q[i].id = order[i]
      BY <1>9, <1>c
    <3> QED  BY <1>2, <3>1
  <2>2. ASSUME NEW c \in Cold PROVE c \in OfferIds(q)
    <3>1. PICK i \in 1 .. n : order[i] = c
      BY <1>3
    <3>2. i \in DOMAIN q /\ q[i].type = "Offer" /\ q[i].id = c
      BY <1>9, <1>c, <3>1
    <3> QED  BY <3>2 DEF OfferIds
  <2> QED  BY <2>1, <2>2
<1>11. DistinctOffers(q)
  <2> SUFFICES ASSUME NEW i \in 1 .. n + 1, NEW j \in 1 .. n + 1, q[i].type = "Offer",
                      q[j].type = "Offer", q[i].id = q[j].id
               PROVE  i = j
    BY <1>c DEF DistinctOffers
  <2>1. i \in 1 .. n /\ j \in 1 .. n /\ order[i] = order[j]
    BY <1>9, <1>c
  <2> QED  BY <1>2, <2>1
<1>12. \A i, j \in DOMAIN q : q[i].type = "AllOffersDelivered" => ~(i < j)
  <2> SUFFICES ASSUME NEW i \in 1 .. n + 1, NEW j \in 1 .. n + 1,
                      q[i].type = "AllOffersDelivered", i < j
               PROVE  FALSE
    BY <1>7
  <2>1. i = n + 1
    BY <1>8, <1>9
  <2> QED  BY <1>1, <2>1
<1> QED  BY <1>7, <1>8, <1>9, <1>10, <1>11, <1>12

-----------------------------------------------------------------------------
(* Types.                                                                  *)

\* The parts of TypeOK.
RootType == [Confidential : BOOLEAN, SintConnected : BOOLEAN,
             ContactInitiated : BOOLEAN, OffersDelivered : BOOLEAN,
             FeatureFlags : SUBSET Features, Channels : SUBSET Ids,
             HotMessageList : Seq(Hot)]
AppType == [pc : {"down", "contact", "enumerate", "up", "destroy",
                  "teardown", "exited", "stopFailed"} \cup Waiting,
            step : {"event", "get", "copy", "complete", "handle"},
            msg : Message, version : Versions,
            tpl : {"application", "callback"}, exiting : BOOLEAN,
            starts : 0..MaxStarts]
SintType == [connected : BOOLEAN, slot : Message, payload : Message, irq : BOOLEAN]
HostType == [inbox : Seq(Message), phase : {"idle", "contacted", "offered"},
             offered : SUBSET Ids, rescinded : SUBSET Ids]
Events == {"WaitForMessage", "HotAllocationEvent", "HotEvent"}

LEMMA MessageTypes ==
    /\ NoMessage \in Message /\ NoMessage.type = "None"
    /\ \A t \in {"Offer", "Rescind"}, id \in Ids : Msg(t, id) \in Message
    /\ \A t \in {"AllOffersDelivered", "VersionRefused", "UnloadComplete"} :
           Msg(t, 0) \in Message
    /\ \A t, id : Msg(t, id).type = t /\ Msg(t, id).id = id
    /\ \A f \in SUBSET Features :
           [type |-> "VersionResponse", id |-> 0, features |-> f] \in Message
BY DEF NoMessage, Msg, Message

LEMMA TypeParts ==
    TypeOK <=> /\ root \in RootType /\ app \in AppType /\ signaled \subseteq Events
               /\ allocating \in BOOLEAN /\ adding \in Seq(Hot) /\ sint \in SintType
               /\ host \in HostType /\ failFast \in BOOLEAN /\ badFree \in BOOLEAN
               /\ lost \subseteq Hot /\ stopped \subseteq Ids
BY DEF TypeOK, RootType, AppType, SintType, HostType, Events

LEMMA NewTypes ==
    /\ NewContext \in RootType
    /\ \A v \in Versions, c \in BOOLEAN : Requested(v, c) \in SUBSET Features
<1>1. <<>> \in Seq(Hot)
  OBVIOUS
<1>2. Paravisor \in BOOLEAN
  BY VmbusRootAssumption
<1> QED  BY <1>1, <1>2 DEF NewContext, RootType, Requested, Features

LEMMA Moves ==
    ASSUME app \in AppType, NEW pc \in {"down", "contact", "enumerate", "up", "destroy",
                  "teardown", "exited", "stopFailed"} \cup Waiting
    PROVE  /\ Wait(pc) \in AppType /\ Poll(pc) \in AppType /\ Goto(pc) \in AppType
           /\ WaitAgain \in AppType
           /\ Wait(pc).pc = pc /\ Poll(pc).pc = pc /\ Goto(pc).pc = pc /\ WaitAgain.pc = app.pc
           /\ Wait(pc).step = "event" /\ Poll(pc).step = "get" /\ Goto(pc).step = "event"
           /\ WaitAgain.step \in {"get", "event"}
           /\ Wait(pc).msg = NoMessage /\ Poll(pc).msg = NoMessage /\ Goto(pc).msg = NoMessage
           /\ WaitAgain.msg = NoMessage
<1>1. NoMessage \in Message
  BY MessageTypes
<1>2. /\ Wait(pc) \in AppType /\ Wait(pc).pc = pc /\ Wait(pc).step = "event"
      /\ Wait(pc).msg = NoMessage
  BY <1>1 DEF AppType, Wait
<1>3. /\ Poll(pc) \in AppType /\ Poll(pc).pc = pc /\ Poll(pc).step = "get"
      /\ Poll(pc).msg = NoMessage
  BY <1>1 DEF AppType, Poll
<1>4. Goto(pc) = Wait(pc)
  BY DEF Goto, Wait
<1>5. /\ WaitAgain \in AppType /\ WaitAgain.pc = app.pc
      /\ WaitAgain.step \in {"get", "event"} /\ WaitAgain.msg = NoMessage
  BY <1>1 DEF AppType, WaitAgain
<1> QED  BY <1>2, <1>3, <1>4, <1>5, Zenon

(***************************************************************************)
(* The message HotAddAllocation works on is the offer of a channel that    *)
(* was added later and is neither a channel nor about to become one.       *)
(***************************************************************************)
LEMMA HotSlot ==
    ASSUME IInv, allocating
    PROVE  /\ sint.payload = sint.slot /\ sint.slot.type = "Offer"
           /\ sint.payload.id \in Hot /\ sint.payload.id \notin Used
           /\ sint.payload.id \in host.offered /\ SlotOffer = {sint.payload.id}
           /\ sint.payload.id \notin OfferIds(host.inbox)
           /\ ~sint.irq /\ root.OffersDelivered /\ "HotAllocationEvent" \notin signaled
<1>1. /\ sint.slot.type = "Offer" /\ ~sint.irq /\ root.OffersDelivered
      /\ "HotAllocationEvent" \notin signaled /\ sint.slot = sint.payload
  BY DEF IInv, SlotOwned
<1>2. SlotOffer = {sint.payload.id}
  BY <1>1 DEF SlotOffer
<1> QED  BY <1>1, <1>2 DEF IInv, OffersUnique, Pending

LEMMA TypeStep ==
    ASSUME IInv, [Next]_vars
    PROVE  TypeOK'
<1>0. /\ root \in RootType /\ app \in AppType /\ signaled \subseteq Events
      /\ allocating \in BOOLEAN /\ adding \in Seq(Hot) /\ sint \in SintType
      /\ host \in HostType /\ failFast \in BOOLEAN /\ badFree \in BOOLEAN
      /\ lost \subseteq Hot /\ stopped \subseteq Ids
  BY TypeParts DEF IInv
<1> SUFFICES /\ root' \in RootType /\ app' \in AppType /\ signaled' \subseteq Events
             /\ allocating' \in BOOLEAN /\ adding' \in Seq(Hot) /\ sint' \in SintType
             /\ host' \in HostType /\ failFast' \in BOOLEAN /\ badFree' \in BOOLEAN
             /\ lost' \subseteq Hot /\ stopped' \subseteq Ids
  BY DEF TypeOK, RootType, AppType, SintType, HostType, Events
<1>1. CASE Deliver
  <2>1. Head(host.inbox) \in Message /\ Tail(host.inbox) \in Seq(Message)
    BY <1>0, <1>1 DEF Deliver, HostType
  <2> QED  BY <1>0, <1>1, <2>1 DEF Deliver, SintType, HostType
<1>2. ASSUME NEW id \in Hot, HostHotOffer(id) PROVE host' \in HostType
  <2>1. Msg("Offer", id) \in Message
    BY MessageTypes DEF Ids
  <2>2. Append(host.inbox, Msg("Offer", id)) \in Seq(Message)
    BY <1>0, <2>1 DEF HostType
  <2> QED  BY <1>0, <1>2, <2>2 DEF HostHotOffer, HostType, Ids
<1>3. ASSUME NEW id \in Ids, HostRescind(id) PROVE host' \in HostType
  <2>1. Msg("Rescind", id) \in Message
    BY MessageTypes
  <2>2. Append(host.inbox, Msg("Rescind", id)) \in Seq(Message)
    BY <1>0, <2>1 DEF HostType
  <2> QED  BY <1>0, <1>3, <2>2 DEF HostRescind, HostType
<1>4. CASE EventFlagInterrupt
  BY <1>0, <1>4 DEF EventFlagInterrupt, SintType
<1>5. CASE VmbusRootSintNotify
  <2>1. sint' \in SintType
    BY <1>0, <1>5, MessageTypes DEF VmbusRootSintNotify, SintType, CompleteSintMessage
  <2>2. VmbusRootDispatchMessage(sint.slot).signals \subseteq Events
    BY DEF VmbusRootDispatchMessage, Events
  <2>3. signaled' \subseteq Events
    BY <1>0, <1>5, <2>2 DEF VmbusRootSintNotify
  <2> QED  BY <1>0, <1>5, <2>1, <2>3 DEF VmbusRootSintNotify
<1>6. CASE HotAddAllocationBegin
  BY <1>0, <1>6 DEF HotAddAllocationBegin
<1>7. CASE HotAddAllocationEnd
  <2>1. sint.payload.id \in Hot
    BY <1>7, HotSlot DEF HotAddAllocationEnd
  <2>2. CompleteSintMessage \in SintType
    BY <1>0, MessageTypes DEF CompleteSintMessage, SintType
  <2>3. Append(root.HotMessageList, sint.payload.id) \in Seq(Hot)
    BY <1>0, <2>1 DEF RootType
  <2>4. [root EXCEPT !.HotMessageList = Append(@, sint.payload.id)] \in RootType
    BY <1>0, <2>3 DEF RootType
  <2> QED  BY <1>0, <1>7, <2>1, <2>2, <2>4 DEF HotAddAllocationEnd, Events
<1>8. CASE HotAddTake
  BY <1>0, <1>8 DEF HotAddTake, RootType
<1>9. CASE HotAddCreate
  <2>1. Tail(adding) \in Seq(Hot) /\ Head(adding) \in Hot
    BY <1>0, <1>9 DEF HotAddCreate
  <2>2. [root EXCEPT !.Channels = @ \cup {Head(adding)}] \in RootType
    BY <1>0, <2>1 DEF RootType, Ids
  <2> QED  BY <1>0, <1>9, <2>1, <2>2 DEF HotAddCreate
<1>10. CASE WaitForEvent \/ GetSintMessage \/ CopyMessage
  <2>1. CASE WaitForEvent
    BY <1>0, <2>1, SMTT(30) DEF WaitForEvent, AppType
  <2>2. CASE GetSintMessage
    BY <1>0, <2>2, SMTT(30) DEF GetSintMessage, AppType, SintType
  <2>3. CASE CopyMessage
    <3>1. sint.payload \in Message
      BY <1>0 DEF SintType
    <3>2. app' = [app EXCEPT !.step = "complete", !.msg = sint.payload]
      BY <2>3 DEF CopyMessage
    <3>3. app' \in AppType
      BY <1>0, <3>1, <3>2 DEF AppType
    <3> QED  BY <1>0, <2>3, <3>3 DEF CopyMessage
  <2> QED  BY <1>10, <2>1, <2>2, <2>3
<1>11. CASE CompleteMessage
  BY <1>0, <1>11, MessageTypes DEF CompleteMessage, AppType, SintType, CompleteSintMessage
<1>12. CASE DriverStart
  <2>1. app' \in AppType
    <3>1. app.starts \in 0 .. MaxStarts /\ app.starts < MaxStarts
      BY <1>0, <1>12 DEF DriverStart, AppType
    <3>2. app.starts + 1 \in 0 .. MaxStarts
      BY <3>1, VmbusRootAssumption
    <3> QED  BY <1>0, <1>12, <3>2 DEF DriverStart, AppType, Versions
  <2>2. root' \in RootType
    BY <1>12, NewTypes DEF DriverStart, RootType
  <2> QED  BY <1>0, <1>12, <2>1, <2>2 DEF DriverStart, SintType
<1>13. CASE InitiateContact
  <2> DEFINE asked == [root EXCEPT !.FeatureFlags = Requested(app.version, root.Confidential)]
             again == FallenBack(asked, app.version)
  <2>1. asked \in RootType
    BY <1>0, NewTypes DEF RootType, AppType
  <2>2. again \in RootType /\ [asked EXCEPT !.Confidential = FALSE] \in RootType
    BY <1>0, <2>1, NewTypes DEF RootType, AppType, FallenBack
  <2>3. \A r, c : Answered(r, c) => /\ root' = r /\ sint' = c /\ app' \in AppType
                                    /\ host' \in HostType
    <3>1. ContactRefused \in HostType
      <4>1. Append(host.inbox, Msg("VersionRefused", 0)) \in Seq(Message)
        BY <1>0, MessageTypes DEF HostType
      <4> QED  BY <1>0, <4>1 DEF ContactRefused, HostType
    <3>2. \A f \in SUBSET Features : ContactAccepted(f) \in HostType
      <4> TAKE f \in SUBSET Features
      <4> DEFINE m == [type |-> "VersionResponse", id |-> 0, features |-> f]
      <4>1. m \in Message
        BY MessageTypes
      <4> HIDE DEF m
      <4>2. Append(host.inbox, m) \in Seq(Message)
        BY <1>0, <4>1 DEF HostType
      <4> QED  BY <4>2 DEF ContactAccepted, HostType, m
    <3>3. Wait("version") \in AppType
      BY <1>0, Moves DEF Waiting
    <3> QED  BY <3>1, <3>2, <3>3 DEF Answered
  <2>4. Goto("destroy") \in AppType
    BY <1>0, Moves
  <2>5. [sint EXCEPT !.connected = FALSE, !.irq = FALSE] \in SintType
    BY <1>0 DEF SintType
  <2> QED  BY <1>0, <1>13, <2>1, <2>2, <2>3, <2>4, <2>5 DEF InitiateContact
<1>14. CASE VersionAnswered
  <2>1. app' \in AppType
    <3>1. [Goto("contact") EXCEPT !.version = 2] \in AppType
      BY <1>0, Moves DEF AppType, Versions
    <3> QED  BY <1>0, <1>14, <3>1, Moves DEF VersionAnswered
  <2>2. root' \in RootType
    <3>1. /\ [root EXCEPT !.ContactInitiated = TRUE,
                          !.FeatureFlags = @ \cap app.msg.features] \in RootType
          /\ [root EXCEPT !.ContactInitiated = TRUE, !.FeatureFlags = @] \in RootType
      BY <1>0 DEF RootType
    <3> QED  BY <1>0, <1>14, <3>1 DEF VersionAnswered
  <2> QED  BY <1>0, <1>14, <2>1, <2>2 DEF VersionAnswered
<1>15. CASE EnumerateChildren
  <2>1. app' \in AppType
    BY <1>0, <1>15, Moves DEF EnumerateChildren, Waiting
  <2>2. PICK order \in Orders : host' = OffersRequested(order)
    BY <1>15 DEF EnumerateChildren
  <2>3. host.inbox = <<>>
    BY <1>15 DEF EnumerateChildren, IInv, Phases, EnumerateInv, Quiet
  <2>4. <<>> \o [i \in DOMAIN order |-> Msg("Offer", order[i])]
           \o <<Msg("AllOffersDelivered", 0)>> \in Seq(Message)
    BY RequestedQueue
  <2>5. host' \in HostType
    BY <1>0, <2>2, <2>3, <2>4 DEF OffersRequested, HostType, Ids
  <2> QED  BY <1>0, <1>15, <2>1, <2>5 DEF EnumerateChildren
<1>16. CASE OfferAnswered
  <2>1. app' \in AppType
    BY <1>0, <1>16, Moves DEF OfferAnswered
  <2>2. root' \in RootType
    <3>1. app.msg.type = "Offer" /\ app.msg.id \in Allowed => app.msg.id \in Ids
      BY VmbusRootAssumption DEF Ids
    <3>2. /\ [root EXCEPT !.OffersDelivered = TRUE] \in RootType
          /\ app.msg.type = "Offer" /\ app.msg.id \in Allowed =>
                [root EXCEPT !.Channels = @ \cup {app.msg.id}] \in RootType
      BY <1>0, <3>1 DEF RootType
    <3> QED  BY <1>0, <1>16, <3>2 DEF OfferAnswered
  <2> QED  BY <1>0, <1>16, <2>1, <2>2 DEF OfferAnswered
<1>17. ASSUME NEW id \in Ids, StopChild(id) PROVE root' \in RootType
  BY <1>0, <1>17 DEF StopChild, RootType
<1>18. CASE DriverStop
  <2>1. app' \in AppType
    BY <1>0, <1>18, Moves, VmbusRootAssumption DEF DriverStop, AppType
  <2> QED  BY <1>0, <1>18, <2>1 DEF DriverStop
<1>19. Unloaded \in HostType
  <2>1. Append(host.inbox, Msg("UnloadComplete", 0)) \in Seq(Message)
    BY <1>0, MessageTypes DEF HostType
  <2> QED  BY <1>0, <2>1 DEF Unloaded, HostType
<1>20. CASE ExitBootServices
  <2>1. app' \in AppType
    <3>1. Poll("unload") \in AppType
      BY <1>0, Moves DEF Waiting
    <3> QED  BY <1>20, <3>1 DEF ExitBootServices, AppType
  <2> QED  BY <1>0, <1>19, <1>20, <2>1 DEF ExitBootServices
<1>21. CASE DestroyContext
  <2>1. app' \in AppType
    BY <1>0, <1>21, Moves DEF DestroyContext, Waiting
  <2> QED  BY <1>0, <1>19, <1>21, <2>1 DEF DestroyContext
<1>22. CASE UnloadAnswered
  <2>1. app' \in AppType
    BY <1>0, <1>22, Moves DEF UnloadAnswered
  <2>2. root' \in RootType
    BY <1>0, <1>22 DEF UnloadAnswered, RootType
  <2> QED  BY <1>0, <1>22, <2>1, <2>2 DEF UnloadAnswered
<1>23. CASE Teardown
  <2>1. app' \in AppType
    <3>1. [Goto("down") EXCEPT !.tpl = "application"] \in AppType /\ Goto("stopFailed") \in AppType
      <4>1. Goto("down") \in AppType /\ Goto("stopFailed") \in AppType
        BY <1>0, Moves
      <4> QED  BY <4>1 DEF AppType
    <3> QED  BY <1>23, <3>1 DEF Teardown
  <2>2. root' \in RootType
    <3>1. [root EXCEPT !.SintConnected = FALSE, !.Channels = {},
                       !.HotMessageList = <<>>] \in RootType
      <4>1. <<>> \in Seq(Hot)
        OBVIOUS
      <4> QED  BY <1>0, <4>1 DEF RootType
    <3>2. ASSUME NEW left \in SUBSET root.Channels
          PROVE  [root EXCEPT !.SintConnected = FALSE, !.Channels = left] \in RootType
      BY <1>0, <3>2 DEF RootType
    <3> QED  BY <1>23, <3>1, <3>2 DEF Teardown
  <2>3. sint' \in SintType
    BY <1>0, <1>23 DEF Teardown, SintType
  <2> QED  BY <1>0, <1>23, <2>1, <2>2, <2>3 DEF Teardown
<1>24. CASE UNCHANGED vars
  BY <1>0, <1>24 DEF vars
<1>25. ASSUME NEW id \in Hot, HostHotOffer(id)
       PROVE  /\ UNCHANGED <<root, app, signaled, allocating, adding, sint, failFast, badFree,
                            lost, stopped>>
  BY <1>25 DEF HostHotOffer
<1>26. ASSUME NEW id \in Ids, HostRescind(id)
       PROVE  /\ UNCHANGED <<root, app, signaled, allocating, adding, sint, failFast, badFree,
                            lost, stopped>>
  BY <1>26 DEF HostRescind
<1>27. ASSUME NEW id \in Ids, StopChild(id)
       PROVE  /\ UNCHANGED <<app, signaled, allocating, adding, sint, host, failFast, badFree,
                            lost>>
              /\ stopped' \subseteq Ids
  BY <1>0, <1>27 DEF StopChild
<1> QED
  BY <1>0, <1>1, <1>2, <1>3, <1>4, <1>5, <1>6, <1>7, <1>8, <1>9, <1>10, <1>11, <1>12,
     <1>13, <1>14, <1>15, <1>16, <1>17, <1>18, <1>20, <1>21, <1>22, <1>23, <1>24, <1>25,
     <1>26, <1>27
  DEF Next, HotEvents, Progress

-----------------------------------------------------------------------------
(* No channel in two places.                                               *)

(***************************************************************************)
(* Steps that take no channel anywhere: offers may leave the slot, and     *)
(* channels may go.                                                        *)
(***************************************************************************)
LEMMA UniqueFrame ==
    ASSUME OffersUnique, DistinctOffers(host'.inbox),
           OfferIds(host'.inbox) = OfferIds(host.inbox), SlotOffer' \subseteq SlotOffer,
           host'.offered = host.offered, adding' = adding,
           root'.HotMessageList = root.HotMessageList,
           root'.Channels \subseteq root.Channels,
           root'.OffersDelivered => root.OffersDelivered
    PROVE  OffersUnique'
<1>1. /\ Pending' \subseteq Pending /\ Used' \subseteq Used /\ Listed' = Listed
      /\ Adding' = Adding
  BY DEF Pending, Used, Listed, Adding
<1> QED  BY <1>1 DEF OffersUnique

\* Nothing is pending and nothing is used.
LEMMA UniqueEmpty ==
    ASSUME host'.inbox = <<>>, sint'.slot.type # "Offer",
           root'.HotMessageList = <<>>, adding' = <<>>, root'.Channels = {}
    PROVE  OffersUnique'
<1>1. Pending' = {} /\ SlotOffer' = {}
  BY EmptyLists DEF Pending, SlotOffer
<1>2. Used' = {} /\ Listed' = {} /\ Adding' = {}
  BY EmptyLists DEF Used, Listed, Adding
<1> QED  BY <1>1, <1>2, EmptyLists DEF OffersUnique

\* Delivering a message moves its offer from the queue to the slot.
LEMMA DeliverUnique ==
    ASSUME IInv, Deliver
    PROVE  OffersUnique'
<1>0. host \in HostType /\ sint \in SintType
  BY TypeParts DEF IInv
<1>1. /\ sint'.slot = Head(host.inbox) /\ host'.inbox = Tail(host.inbox)
      /\ host'.offered = host.offered /\ sint.slot.type = "None"
      /\ host.inbox # <<>> /\ host.inbox \in Seq(Message)
      /\ root' = root /\ adding' = adding
  BY <1>0 DEF Deliver, HostType, SintType
<1>2. SlotOffer' = OfferId(Head(host.inbox)) /\ SlotOffer = {}
  BY <1>1 DEF SlotOffer, OfferId
<1>3. DistinctOffers(host.inbox)
  BY DEF IInv, OffersUnique
<1>4. /\ OfferIds(host.inbox) = OfferId(Head(host.inbox)) \cup OfferIds(host'.inbox)
      /\ DistinctOffers(host'.inbox)
      /\ OfferId(Head(host.inbox)) \cap OfferIds(host'.inbox) = {}
  BY <1>1, <1>3, TailOffer
<1>5. Pending' = Pending
  BY <1>2, <1>4 DEF Pending
<1>6. Used' = Used /\ Listed' = Listed /\ Adding' = Adding
  BY <1>1 DEF Used, Listed, Adding
<1> QED  BY <1>1, <1>2, <1>4, <1>5, <1>6 DEF IInv, OffersUnique

\* A channel the host adds was not offered before.
LEMMA HotOfferUnique ==
    ASSUME IInv, NEW id \in Hot, HostHotOffer(id)
    PROVE  OffersUnique'
<1>0. host \in HostType /\ Msg("Offer", id) \in Message
  BY TypeParts, MessageTypes DEF IInv, Ids
<1>1. /\ host'.inbox = Append(host.inbox, Msg("Offer", id)) /\ id \notin host.offered
      /\ host'.offered = host.offered \cup {id} /\ host.inbox \in Seq(Message)
      /\ root' = root /\ adding' = adding /\ sint' = sint
  BY <1>0 DEF HostHotOffer, HostType
<1>2. OfferId(Msg("Offer", id)) = {id}
  BY MessageTypes DEF OfferId
<1>3. id \notin Pending /\ id \notin Used /\ DistinctOffers(host.inbox)
  BY <1>1 DEF IInv, OffersUnique
<1>4. OfferIds(host'.inbox) = OfferIds(host.inbox) \cup {id} /\ DistinctOffers(host'.inbox)
  BY <1>0, <1>1, <1>2, <1>3, AppendOffer DEF Pending
<1>5. Pending' = Pending \cup {id} /\ SlotOffer' = SlotOffer
  BY <1>1, <1>4 DEF Pending, SlotOffer
<1>6. Used' = Used /\ Listed' = Listed /\ Adding' = Adding
  BY <1>1 DEF Used, Listed, Adding
<1>7. SlotOffer' \cap OfferIds(host'.inbox) = {}
  BY <1>3, <1>4, <1>5 DEF IInv, OffersUnique, Pending
<1> QED  BY <1>1, <1>3, <1>4, <1>5, <1>6, <1>7 DEF IInv, OffersUnique

\* A message that is no offer is posted.
LEMMA PostUnique ==
    ASSUME IInv, NEW m \in Message, m.type # "Offer",
           host'.inbox = Append(host.inbox, m), host'.offered = host.offered,
           sint' = sint, adding' = adding, root' = root
    PROVE  OffersUnique'
<1>0. host.inbox \in Seq(Message) /\ DistinctOffers(host.inbox)
  BY TypeParts DEF IInv, HostType, OffersUnique
<1>1. OfferId(m) = {}
  BY DEF OfferId
<1>a. /\ OfferIds(Append(host.inbox, m)) = OfferIds(host.inbox) \cup OfferId(m)
      /\ OfferId(m) \cap OfferIds(host.inbox) = {} => DistinctOffers(Append(host.inbox, m))
  BY <1>0, AppendOffer
<1>2. OfferIds(host'.inbox) = OfferIds(host.inbox) /\ DistinctOffers(host'.inbox)
  BY <1>1, <1>a
<1>3. SlotOffer' = SlotOffer
  BY DEF SlotOffer
<1> QED  BY <1>2, <1>3, UniqueFrame DEF IInv

\* The slot is cleared.
LEMMA CompleteUnique ==
    ASSUME IInv, sint'.slot.type = "None", adding' = adding, host' = host, root' = root
    PROVE  OffersUnique'
<1>3. SlotOffer' = {}
  BY DEF SlotOffer
<1> QED  BY <1>3, UniqueFrame DEF IInv, OffersUnique

\* HotAddAllocation moves the offer of the slot to HotMessageList.
LEMMA AllocationUnique ==
    ASSUME IInv, HotAddAllocationEnd
    PROVE  OffersUnique' /\ ~failFast'
<1> DEFINE id == sint.payload.id
<1>0. sint \in SintType /\ root \in RootType /\ ~failFast /\ allocating
  BY TypeParts DEF IInv, HotAddAllocationEnd
<1>1. /\ sint.payload = sint.slot /\ sint.slot.type = "Offer"
      /\ id \in Hot /\ id \notin Used /\ id \in host.offered /\ SlotOffer = {id}
      /\ id \notin OfferIds(host.inbox)
  BY <1>0, HotSlot
<1>2. CompleteSintMessage.slot.type = "None"
  BY <1>0, MessageTypes DEF CompleteSintMessage, SintType
<1>3. id \notin root.Channels /\ sint.payload.type = "Offer"
  BY <1>1 DEF Used
<1>4. /\ ~failFast' /\ sint' = CompleteSintMessage /\ adding' = adding /\ host' = host
      /\ \/ root' = root
         \/ id \in Allowed /\ root' = [root EXCEPT !.HotMessageList = Append(@, id)]
  BY <1>0, <1>3 DEF HotAddAllocationEnd
<1>5. CASE root' = root
  BY <1>2, <1>4, <1>5, CompleteUnique
<1>6. CASE id \in Allowed /\ root' = [root EXCEPT !.HotMessageList = Append(@, id)]
  <2>1. /\ root'.HotMessageList = Append(root.HotMessageList, id)
        /\ root.HotMessageList \in Seq(Hot)
        /\ root'.Channels = root.Channels /\ root'.OffersDelivered = root.OffersDelivered
    BY <1>0, <1>6 DEF RootType
  <2>2. Injective(root.HotMessageList) /\ id \notin Entries(root.HotMessageList)
    BY <1>1 DEF IInv, OffersUnique, Used, Listed
  <2> HIDE DEF id
  <2>3. /\ Entries(root'.HotMessageList) = Entries(root.HotMessageList) \cup {id}
        /\ Injective(root'.HotMessageList)
    BY <1>1, <2>1, <2>2, AppendList
  <2>4. /\ Listed' = Listed \cup {id} /\ Adding' = Adding /\ Used' = Used \cup {id}
        /\ SlotOffer' = {} /\ Pending' = OfferIds(host.inbox)
    BY <1>2, <1>4, <2>1, <2>3 DEF Listed, Adding, Used, SlotOffer, Pending
  <2> QED  BY <1>1, <1>4, <1>6, <2>1, <2>3, <2>4 DEF IInv, OffersUnique, Pending, Used
<1> QED  BY <1>4, <1>5, <1>6

\* HotAdd takes the whole list.
LEMMA TakeUnique ==
    ASSUME IInv, HotAddTake
    PROVE  OffersUnique'
<1>0. root \in RootType
  BY TypeParts DEF IInv
<1>1. /\ adding = <<>> /\ adding' = root.HotMessageList /\ root'.HotMessageList = <<>>
      /\ root'.Channels = root.Channels /\ root'.OffersDelivered = root.OffersDelivered
      /\ host' = host /\ sint' = sint
  BY <1>0 DEF HotAddTake, RootType
<1>2. /\ Adding = {} /\ Adding' = Listed /\ Listed' = {} /\ Used' = Used
      /\ Pending' = Pending /\ SlotOffer' = SlotOffer
  BY <1>1, EmptyLists DEF Adding, Listed, Used, Pending, SlotOffer
<1> QED  BY <1>1, <1>2, EmptyLists DEF IInv, OffersUnique

\* HotAdd makes a channel of the first message it has taken.
LEMMA CreateUnique ==
    ASSUME IInv, HotAddCreate
    PROVE  OffersUnique' /\ ~failFast'
<1> DEFINE id == Head(adding)
<1>0. root \in RootType /\ adding \in Seq(Hot) /\ adding # <<>> /\ ~failFast
  BY TypeParts DEF IInv, HotAddCreate
<1>1. /\ Entries(adding) = Entries(Tail(adding)) \cup {id}
      /\ Injective(Tail(adding)) /\ id \notin Entries(Tail(adding))
  BY <1>0, TailList DEF IInv, OffersUnique
<1>2. id \in Adding /\ id \notin root.Channels /\ id \in Allowed /\ id \in host.offered
  BY <1>1 DEF IInv, OffersUnique, Adding, Used
<1>3. /\ ~failFast' /\ adding' = Tail(adding) /\ host' = host /\ sint' = sint
      /\ \/ root' = root
         \/ root' = [root EXCEPT !.Channels = @ \cup {id}]
  BY <1>0, <1>2 DEF HotAddCreate
<1>4. /\ root'.HotMessageList = root.HotMessageList
      /\ root'.OffersDelivered = root.OffersDelivered
      /\ root'.Channels = root.Channels \/ root'.Channels = root.Channels \cup {id}
  BY <1>0, <1>3 DEF RootType
<1> HIDE DEF id
<1>5. /\ Listed' = Listed /\ Adding = Adding' \cup {id} /\ id \notin Adding'
      /\ Pending' = Pending /\ SlotOffer' = SlotOffer
  BY <1>1, <1>3, <1>4 DEF Listed, Adding, Pending, SlotOffer
<1>6. Used' \subseteq Used /\ (Listed \cup Adding') \cap root'.Channels = {}
  BY <1>2, <1>4, <1>5 DEF Used, IInv, OffersUnique
<1> QED  BY <1>1, <1>3, <1>4, <1>5, <1>6 DEF IInv, OffersUnique

\* InitiateContact starts with nothing under way.
LEMMA ContactUnique ==
    ASSUME IInv, InitiateContact
    PROVE  OffersUnique'
<1>0. /\ host \in HostType /\ root \in RootType /\ sint \in SintType /\ app.pc = "contact"
  BY TypeParts DEF IInv, InitiateContact
<1>1. Quiet /\ Fresh
  BY <1>0 DEF IInv, Phases, ContactInv
<1>2. adding' = adding /\ sint'.slot = sint.slot
  BY <1>0 DEF InitiateContact, Answered, SintType
<1>3. root'.Channels = root.Channels /\ root'.HotMessageList = root.HotMessageList
      /\ root'.OffersDelivered = root.OffersDelivered
  BY <1>0 DEF InitiateContact, Answered, RootType, FallenBack
<1>4. \/ host' = host
      \/ host' = ContactRefused
      \/ \E f \in SUBSET Features : host' = ContactAccepted(f)
  BY DEF InitiateContact, Answered
<1>5. ASSUME NEW m \in Message, m.type # "Offer" 
      PROVE  OfferIds(Append(<<>>, m)) = {} /\ DistinctOffers(Append(<<>>, m))
  <2>1. <<>> \in Seq(Message)
    OBVIOUS
  <2>2. OfferId(m) = {}
    BY <1>5 DEF OfferId
  <2>3. /\ OfferIds(Append(<<>>, m)) = OfferIds(<<>>) \cup OfferId(m)
        /\ DistinctOffers(<<>>) /\ OfferId(m) \cap OfferIds(<<>>) = {} =>
              DistinctOffers(Append(<<>>, m))
    BY <2>1, AppendOffer
  <2> QED  BY <2>2, <2>3, EmptyLists
<1>6. OfferIds(host'.inbox) = {} /\ DistinctOffers(host'.inbox)
  <2>1. CASE host' = host
    BY <1>1, <2>1, EmptyLists DEF Quiet
  <2>2. CASE host' = ContactRefused
    <3>1. host'.inbox = Append(<<>>, Msg("VersionRefused", 0))
      BY <1>0, <1>1, <2>2 DEF ContactRefused, Quiet, HostType
    <3>2. Msg("VersionRefused", 0) \in Message /\ Msg("VersionRefused", 0).type # "Offer"
      BY MessageTypes
    <3> QED  BY <1>5, <3>1, <3>2
  <2>3. ASSUME NEW f \in SUBSET Features, host' = ContactAccepted(f)
        PROVE  OfferIds(host'.inbox) = {} /\ DistinctOffers(host'.inbox)
    <3> DEFINE m == [type |-> "VersionResponse", id |-> 0, features |-> f]
    <3>1. host'.inbox = Append(<<>>, m)
      BY <1>1, <2>3 DEF ContactAccepted, Quiet
    <3>2. m \in Message /\ m.type # "Offer"
      BY MessageTypes
    <3> HIDE DEF m
    <3> QED  BY <1>5, <3>1, <3>2
  <2> QED  BY <1>4, <2>1, <2>2, <2>3
<1>7. SlotOffer' = {} /\ Pending' = {}
  BY <1>1, <1>2, <1>6 DEF SlotOffer, Pending, Quiet
<1>8. Used' = {} /\ Listed' = {} /\ Adding' = {}
  BY <1>1, <1>2, <1>3, EmptyLists DEF Used, Listed, Adding, Fresh
<1> QED  BY <1>1, <1>2, <1>3, <1>6, <1>7, <1>8, EmptyLists DEF OffersUnique, Fresh

\* RequestOffers is answered by distinct offers.
LEMMA EnumerateUnique ==
    ASSUME IInv, EnumerateChildren
    PROVE  OffersUnique'
<1>0. host \in HostType /\ app.pc = "enumerate"
  BY TypeParts DEF IInv, EnumerateChildren
<1>1. Quiet /\ Fresh
  BY <1>0 DEF IInv, Phases, EnumerateInv
<1>2. root' = root /\ adding' = adding /\ sint' = sint
  BY DEF EnumerateChildren
<1>3. PICK order \in Orders : host' = OffersRequested(order)
  BY DEF EnumerateChildren
<1>4. /\ host'.offered = Cold
      /\ host'.inbox = <<>> \o [i \in DOMAIN order |-> Msg("Offer", order[i])]
                            \o <<Msg("AllOffersDelivered", 0)>>
  BY <1>0, <1>1, <1>3 DEF OffersRequested, HostType, Quiet
<1>5. OfferIds(host'.inbox) = Cold /\ DistinctOffers(host'.inbox)
  BY <1>4, RequestedQueue
<1>6. SlotOffer' = {} /\ Pending' = Cold
  BY <1>1, <1>2, <1>5 DEF SlotOffer, Pending, Quiet
<1>7. Used' = {} /\ Listed' = {} /\ Adding' = {}
  BY <1>1, <1>2, EmptyLists DEF Used, Listed, Adding, Fresh
<1> QED  BY <1>1, <1>2, <1>4, <1>5, <1>6, <1>7, EmptyLists DEF OffersUnique, Fresh

\* The thread makes a channel of the offer it holds, which is nowhere else.
LEMMA OfferUnique ==
    ASSUME IInv, OfferAnswered
    PROVE  OffersUnique' /\ ~failFast'
<1>0. /\ root \in RootType /\ app.pc = "offers" /\ app.step = "handle" /\ ~failFast
      /\ host' = host /\ sint' = sint /\ adding' = adding
  BY TypeParts DEF IInv, OfferAnswered, Handling
<1>1. OffersPending
  BY <1>0 DEF IInv, Phases, OffersInv
<1>2. CASE app.msg.type = "AllOffersDelivered"
  <2>1. /\ ~failFast' /\ root'.Channels = root.Channels
        /\ root'.HotMessageList = root.HotMessageList
    BY <1>0, <1>2 DEF OfferAnswered, RootType
  <2>2. AllLate /\ (sint.slot.type = "None" \/ Late(sint.slot))
    BY <1>0, <1>1, <1>2 DEF OffersPending, DeliveredLast
  <2>3. OfferIds(host.inbox) \subseteq Hot
    BY <2>2 DEF AllLate, Late, OfferIds
  <2>4. SlotOffer \subseteq Hot
    BY <2>2 DEF SlotOffer, Late
  <2>5. /\ Pending' = Pending /\ SlotOffer' = SlotOffer /\ Used' = Used /\ Listed' = Listed
        /\ Adding' = Adding
    BY <1>0, <2>1 DEF Pending, SlotOffer, Used, Listed, Adding
  <2> QED  BY <1>0, <2>1, <2>3, <2>4, <2>5 DEF IInv, OffersUnique, Pending
<1>3. CASE app.msg.type \notin {"AllOffersDelivered", "Offer"}
  <2>1. root' = root /\ ~failFast'
    BY <1>0, <1>3 DEF OfferAnswered
  <2>2. SlotOffer' = SlotOffer
    BY <1>0 DEF SlotOffer
  <2> QED  BY <1>0, <2>1, <2>2, UniqueFrame DEF IInv, OffersUnique
<1>4. CASE app.msg.type = "Offer"
  <2> DEFINE id == app.msg.id
  <2>1. Held = {id}
    BY <1>0, <1>4 DEF Held
  <2>2. id \notin Used /\ id \notin Pending /\ id \in host.offered
    BY <1>1, <2>1 DEF OffersPending, HeldUnique
  <2>3. /\ ~failFast'
        /\ root' = root \/ (id \in Allowed /\ root' = [root EXCEPT !.Channels = @ \cup {id}])
    BY <1>0, <1>4, <2>2 DEF OfferAnswered, Used
  <2>4. CASE root' = root
    <3>1. SlotOffer' = SlotOffer
      BY <1>0 DEF SlotOffer
    <3> QED  BY <1>0, <2>3, <2>4, <3>1, UniqueFrame DEF IInv, OffersUnique
  <2>5. CASE id \in Allowed /\ root' = [root EXCEPT !.Channels = @ \cup {id}]
    <3>1. /\ root'.Channels = root.Channels \cup {id}
          /\ root'.HotMessageList = root.HotMessageList
          /\ root'.OffersDelivered = root.OffersDelivered
      BY <1>0, <2>5 DEF RootType
    <3>2. /\ Pending' = Pending /\ SlotOffer' = SlotOffer /\ Used' = Used \cup {id}
          /\ Listed' = Listed /\ Adding' = Adding
      BY <1>0, <3>1 DEF Pending, SlotOffer, Used, Listed, Adding
    <3>3. (Listed \cup Adding) \cap root'.Channels = {}
      BY <2>2, <3>1 DEF IInv, OffersUnique, Used
    <3> HIDE DEF id
    <3> QED  BY <1>0, <2>2, <2>3, <2>5, <3>1, <3>2, <3>3 DEF IInv, OffersUnique
  <2> QED  BY <2>3, <2>4, <2>5
<1> QED  BY <1>2, <1>3, <1>4

(***************************************************************************)
(* No channel is ever in two places, and no check of the host's behaviour  *)
(* fails.                                                                  *)
(***************************************************************************)
LEMMA UniqueStep ==
    ASSUME IInv, [Next]_vars
    PROVE  OffersUnique' /\ ~failFast'
<1>0. /\ root \in RootType /\ sint \in SintType /\ host \in HostType /\ ~failFast
      /\ DistinctOffers(host.inbox) /\ OffersUnique
  BY TypeParts DEF IInv, OffersUnique
<1>1. ASSUME host' = host, adding' = adding, root' = root, ~failFast',
             sint'.slot = sint.slot \/ sint'.slot.type = "None"
      PROVE  OffersUnique' /\ ~failFast'
  <2>1. SlotOffer' \subseteq SlotOffer
    BY <1>1 DEF SlotOffer
  <2> QED  BY <1>0, <1>1, <2>1, UniqueFrame
<1>2. CASE Deliver
  BY <1>0, <1>2, DeliverUnique DEF Deliver
<1>3. ASSUME NEW id \in Hot, HostHotOffer(id) PROVE OffersUnique' /\ ~failFast'
  BY <1>0, <1>3, HotOfferUnique DEF HostHotOffer
<1>4. ASSUME NEW id \in Ids, HostRescind(id) PROVE OffersUnique' /\ ~failFast'
  <2>1. Msg("Rescind", id) \in Message /\ Msg("Rescind", id).type # "Offer"
    BY MessageTypes
  <2>2. /\ host'.inbox = Append(host.inbox, Msg("Rescind", id))
        /\ host'.offered = host.offered /\ sint' = sint /\ adding' = adding /\ root' = root
        /\ ~failFast'
    BY <1>0, <1>4 DEF HostRescind, HostType
  <2> QED  BY <2>1, <2>2, PostUnique
<1>5. CASE EventFlagInterrupt
  <2>1. sint'.slot = sint.slot
    BY <1>0, <1>5 DEF EventFlagInterrupt, SintType
  <2> QED  BY <1>0, <1>1, <1>5, <2>1 DEF EventFlagInterrupt
<1>6. CASE VmbusRootSintNotify
  <2>1. sint'.slot = sint.slot \/ sint'.slot.type = "None"
    BY <1>0, <1>6, MessageTypes DEF VmbusRootSintNotify, CompleteSintMessage, SintType
  <2> QED  BY <1>0, <1>1, <1>6, <2>1 DEF VmbusRootSintNotify
<1>7. CASE HotAddAllocationBegin
  <2>1. sint.slot.type = "Offer"
    BY <1>7 DEF HotAddAllocationBegin, IInv, SlotOwned
  <2> QED  BY <1>0, <1>1, <1>7, <2>1 DEF HotAddAllocationBegin
<1>8. CASE HotAddAllocationEnd
  BY <1>8, AllocationUnique
<1>9. CASE HotAddTake
  BY <1>0, <1>9, TakeUnique DEF HotAddTake
<1>10. CASE HotAddCreate
  BY <1>10, CreateUnique
<1>11. CASE WaitForEvent \/ GetSintMessage \/ CopyMessage
  BY <1>0, <1>1, <1>11 DEF WaitForEvent, GetSintMessage, CopyMessage
<1>12. CASE CompleteMessage
  <2>1. sint'.slot.type = "None"
    BY <1>0, <1>12, MessageTypes DEF CompleteMessage, CompleteSintMessage, SintType
  <2> QED  BY <1>0, <1>1, <1>12, <2>1 DEF CompleteMessage
<1>13. CASE DriverStart
  <2>1. app.pc = "down" /\ adding = <<>> /\ adding' = adding /\ host' = host /\ ~failFast'
        /\ sint'.slot = sint.slot
    BY <1>0, <1>13 DEF DriverStart, AppRuns, SintType
  <2>2. Quiet
    BY <2>1 DEF IInv, Phases, QuietInv
  <2>3. root'.Channels = {} /\ root'.HotMessageList = <<>>
    BY <1>13 DEF DriverStart, NewContext
  <2> QED  BY <2>1, <2>2, <2>3, UniqueEmpty DEF Quiet
<1>14. CASE InitiateContact
  BY <1>0, <1>14, ContactUnique DEF InitiateContact
<1>15. ASSUME host' = host, adding' = adding, sint' = sint, ~failFast',
              root'.HotMessageList = root.HotMessageList,
              root'.Channels \subseteq root.Channels,
              root'.OffersDelivered => root.OffersDelivered
       PROVE  OffersUnique' /\ ~failFast'
  <2>1. SlotOffer' = SlotOffer
    BY <1>15 DEF SlotOffer
  <2> QED  BY <1>0, <1>15, <2>1, UniqueFrame
<1>16. CASE VersionAnswered
  <2>1. /\ root'.HotMessageList = root.HotMessageList /\ root'.Channels = root.Channels
        /\ root'.OffersDelivered = root.OffersDelivered
    BY <1>0, <1>16 DEF VersionAnswered, RootType
  <2> QED  BY <1>0, <1>15, <1>16, <2>1 DEF VersionAnswered
<1>17. CASE EnumerateChildren
  BY <1>0, <1>17, EnumerateUnique DEF EnumerateChildren
<1>18. CASE OfferAnswered
  BY <1>18, OfferUnique
<1>19. ASSUME NEW id \in Ids, StopChild(id) PROVE OffersUnique' /\ ~failFast'
  <2>1. /\ root'.HotMessageList = root.HotMessageList /\ root'.Channels \subseteq root.Channels
        /\ root'.OffersDelivered = root.OffersDelivered
    BY <1>0, <1>19 DEF StopChild, RootType
  <2> QED  BY <1>0, <1>15, <1>19, <2>1 DEF StopChild
<1>20. CASE DriverStop
  BY <1>0, <1>1, <1>20 DEF DriverStop
<1>21. ASSUME host' = Unloaded, sint' = sint, adding' = adding, root' = root
       PROVE  OffersUnique'
  <2>1. Msg("UnloadComplete", 0) \in Message /\ Msg("UnloadComplete", 0).type # "Offer"
    BY MessageTypes
  <2>2. /\ host'.inbox = Append(host.inbox, Msg("UnloadComplete", 0))
        /\ host'.offered = host.offered
    BY <1>0, <1>21 DEF Unloaded, HostType
  <2> QED  BY <1>21, <2>1, <2>2, PostUnique
<1>22. CASE ExitBootServices
  BY <1>0, <1>21, <1>22 DEF ExitBootServices
<1>23. CASE DestroyContext
  BY <1>0, <1>1, <1>21, <1>23 DEF DestroyContext
<1>24. CASE UnloadAnswered
  <2>1. /\ root'.HotMessageList = root.HotMessageList /\ root'.Channels = root.Channels
        /\ (root'.OffersDelivered => root.OffersDelivered)
    BY <1>0, <1>24 DEF UnloadAnswered, RootType
  <2> QED  BY <1>0, <1>15, <1>24, <2>1 DEF UnloadAnswered
<1>25. CASE Teardown
  <2>1. sint'.slot = sint.slot /\ host' = host /\ adding' = adding /\ ~failFast'
        /\ adding = <<>> /\ app.pc = "teardown"
    BY <1>0, <1>25 DEF Teardown, SintType, AppRuns
  <2>2. Quiet
    BY <2>1 DEF IInv, Phases, QuietInv
  <2>3. \/ root'.Channels = {} /\ root'.HotMessageList = <<>>
        \/ /\ root'.Channels \subseteq root.Channels
           /\ root'.HotMessageList = root.HotMessageList
           /\ root'.OffersDelivered = root.OffersDelivered
    BY <1>0, <1>25 DEF Teardown, RootType
  <2>4. CASE root'.Channels = {} /\ root'.HotMessageList = <<>>
    BY <2>1, <2>2, <2>4, UniqueEmpty DEF Quiet
  <2>5. CASE /\ root'.Channels \subseteq root.Channels
             /\ root'.HotMessageList = root.HotMessageList
             /\ root'.OffersDelivered = root.OffersDelivered
    <3>1. SlotOffer' = SlotOffer
      BY <2>1 DEF SlotOffer
    <3> QED  BY <1>0, <2>1, <2>5, <3>1, UniqueFrame
  <2> QED  BY <2>3, <2>4, <2>5
<1>26. CASE UNCHANGED vars
  BY <1>0, <1>1, <1>26 DEF vars
<1> QED
  BY <1>2, <1>3, <1>4, <1>5, <1>6, <1>7, <1>8, <1>9, <1>10, <1>11, <1>12, <1>13, <1>14,
     <1>16, <1>17, <1>18, <1>19, <1>20, <1>22, <1>23, <1>24, <1>25, <1>26
  DEF Next, HotEvents, Progress

-----------------------------------------------------------------------------
(* The slot.                                                               *)

\* With no message in the slot every rule about it holds.
LEMMA SlotCleared ==
    ASSUME sint'.slot.type = "None", ~allocating', "HotAllocationEvent" \notin signaled',
           sint'.connected => root'.SintConnected
    PROVE  SlotOwned'
BY DEF SlotOwned

\* Steps that leave the slot alone.
LEMMA SlotFrame ==
    ASSUME SlotOwned, sint' = sint, allocating' = allocating,
           "HotAllocationEvent" \in signaled' => "HotAllocationEvent" \in signaled,
           root'.OffersDelivered = root.OffersDelivered,
           root'.SintConnected = root.SintConnected
    PROVE  SlotOwned'
BY DEF SlotOwned

\* The allocation event owns the slot from its signal to its end: the interrupt
\* leaves its message alone and the thread does not wait.
LEMMA SlotStep ==
    ASSUME IInv, QuietInterrupt, [Next]_vars
    PROVE  SlotOwned'
<1>0. /\ root \in RootType /\ sint \in SintType /\ host \in HostType /\ app \in AppType
      /\ SlotOwned /\ allocating \in BOOLEAN
  BY TypeParts DEF IInv
<1>1. ASSUME AppRuns PROVE ~allocating /\ "HotAllocationEvent" \notin signaled
  BY <1>1 DEF AppRuns, BelowNotify
<1>2. CASE Deliver
  <2>1. /\ sint'.slot = sint'.payload /\ sint'.irq /\ sint'.connected = sint.connected
        /\ sint.slot.type = "None" /\ allocating' = allocating /\ signaled' = signaled
        /\ root' = root
    BY <1>0, <1>2 DEF Deliver, SintType
  <2>2. ~allocating /\ "HotAllocationEvent" \notin signaled
    BY <1>0, <2>1 DEF SlotOwned
  <2> QED  BY <1>0, <2>1, <2>2 DEF SlotOwned
<1>3. ASSUME NEW id \in Hot, HostHotOffer(id) PROVE SlotOwned'
  BY <1>0, <1>3, SlotFrame DEF HostHotOffer
<1>4. ASSUME NEW id \in Ids, HostRescind(id) PROVE SlotOwned'
  BY <1>0, <1>4, SlotFrame DEF HostRescind
<1>5. CASE EventFlagInterrupt
  <2>1. /\ sint'.slot = sint.slot /\ sint'.payload = sint.payload /\ sint'.irq
        /\ sint'.connected = sint.connected /\ allocating' = allocating
        /\ signaled' = signaled /\ root' = root
        /\ (SharedInterrupt = "slotEmpty" => sint.slot.type = "None")
    BY <1>0, <1>5 DEF EventFlagInterrupt, SintType
  <2>2. ~allocating /\ "HotAllocationEvent" \notin signaled
    <3>1. CASE SharedInterrupt = "slotEmpty"
      BY <1>0, <2>1, <3>1 DEF SlotOwned
    <3>2. CASE Hot = {}
      <4>1. SUFFICES ASSUME sint.slot.type = "Offer", root.OffersDelivered PROVE FALSE
        BY <1>0 DEF SlotOwned
      <4>2. sint.slot.id \in Pending
        BY <4>1 DEF Pending, SlotOffer
      <4> QED  BY <3>2, <4>1, <4>2 DEF IInv, OffersUnique
    <3> QED  BY <3>1, <3>2 DEF QuietInterrupt
  <2> QED  BY <1>0, <2>1, <2>2 DEF SlotOwned
<1>6. CASE VmbusRootSintNotify
  <2>1. /\ sint.connected /\ sint.irq /\ allocating' = allocating /\ root' = root
    BY <1>6 DEF VmbusRootSintNotify
  <2>2. ~allocating /\ "HotAllocationEvent" \notin signaled
    BY <1>0, <2>1 DEF SlotOwned
  <2>3. CASE sint.slot.type \in {"None", "Rescind"}
    <3>1. sint'.slot.type = "None" /\ sint'.connected = sint.connected
      BY <1>0, <1>6, <2>3, MessageTypes
         DEF VmbusRootSintNotify, VmbusRootDispatchMessage, CompleteSintMessage, SintType
    <3>2. "HotAllocationEvent" \notin signaled'
      BY <1>6, <2>2, <2>3 DEF VmbusRootSintNotify, VmbusRootDispatchMessage
    <3> QED  BY <1>0, <2>1, <2>2, <3>1, <3>2, SlotCleared DEF SlotOwned
  <2>4. CASE sint.slot.type \notin {"None", "Rescind"}
    <3>1. /\ sint'.slot = sint.slot /\ sint'.payload = sint.payload /\ ~sint'.irq
          /\ sint'.connected = sint.connected
      BY <1>0, <1>6, <2>4
         DEF VmbusRootSintNotify, VmbusRootDispatchMessage, SintType
    <3>2. "HotAllocationEvent" \in signaled' => /\ sint.slot.type = "Offer"
                                               /\ root.OffersDelivered
      BY <1>6, <2>2, <2>4 DEF VmbusRootSintNotify, VmbusRootDispatchMessage
    <3> QED  BY <1>0, <2>1, <2>2, <2>4, <3>1, <3>2 DEF SlotOwned
  <2> QED  BY <2>3, <2>4
<1>7. CASE HotAddAllocationBegin
  <2>1. /\ "HotAllocationEvent" \in signaled /\ "HotAllocationEvent" \notin signaled'
        /\ sint' = sint /\ root' = root
    BY <1>7 DEF HotAddAllocationBegin
  <2> QED  BY <1>0, <2>1 DEF SlotOwned
<1>8. CASE HotAddAllocationEnd
  <2>1. allocating /\ ~allocating'
    BY <1>8 DEF HotAddAllocationEnd
  <2>2. /\ "HotAllocationEvent" \notin signaled /\ sint.payload.type = "Offer"
        /\ sint.payload.id \notin root.Channels
    BY <2>1, HotSlot DEF Used
  <2>3. /\ sint' = CompleteSintMessage
        /\ root' = root \/ \E l : root' = [root EXCEPT !.HotMessageList = l]
        /\ signaled' \subseteq signaled \cup {"HotEvent"}
    BY <1>8, <2>2 DEF HotAddAllocationEnd
  <2>4. sint'.slot.type = "None" /\ sint'.connected = sint.connected
    BY <1>0, <2>3, MessageTypes DEF CompleteSintMessage, SintType
  <2>5. root'.SintConnected = root.SintConnected
    BY <1>0, <2>3 DEF RootType
  <2> QED  BY <1>0, <2>1, <2>2, <2>3, <2>4, <2>5, SlotCleared DEF SlotOwned
<1>9. CASE HotAddTake \/ HotAddCreate
  <2>1. /\ root'.OffersDelivered = root.OffersDelivered
        /\ root'.SintConnected = root.SintConnected
    BY <1>0, <1>9 DEF HotAddTake, HotAddCreate, RootType
  <2> QED  BY <1>0, <1>9, <2>1, SlotFrame DEF HotAddTake, HotAddCreate
<1>10. CASE WaitForEvent \/ GetSintMessage \/ CopyMessage
  BY <1>0, <1>10, SlotFrame DEF WaitForEvent, GetSintMessage, CopyMessage
<1>11. CASE CompleteMessage
  <2>1. sint'.slot.type = "None" /\ sint'.connected = sint.connected
    BY <1>0, <1>11, MessageTypes DEF CompleteMessage, CompleteSintMessage, SintType
  <2> QED  BY <1>0, <1>1, <1>11, <2>1, SlotCleared DEF CompleteMessage, SlotOwned
<1>12. CASE DriverStart
  <2>1. sint.slot.type = "None" /\ AppRuns
    BY <1>12 DEF DriverStart, IInv, Phases, QuietInv, Quiet
  <2>2. sint'.slot = sint.slot /\ allocating' = allocating /\ signaled' = signaled
    BY <1>0, <1>12 DEF DriverStart, SintType
  <2>3. root'.SintConnected
    BY <1>12 DEF DriverStart, NewContext
  <2> QED  BY <1>1, <2>1, <2>2, <2>3, SlotCleared
<1>13. CASE InitiateContact
  <2>1. sint.slot.type = "None" /\ AppRuns
    BY <1>13 DEF InitiateContact, IInv, Phases, ContactInv, Quiet
  <2>2. /\ sint'.slot = sint.slot /\ allocating' = allocating /\ signaled' = signaled
        /\ (sint'.connected => sint.connected)
    BY <1>0, <1>13 DEF InitiateContact, Answered, SintType
  <2>3. root'.SintConnected = root.SintConnected
    BY <1>0, <1>13 DEF InitiateContact, Answered, FallenBack, RootType
  <2> QED  BY <1>0, <1>1, <2>1, <2>2, <2>3, SlotCleared DEF SlotOwned
<1>14. ASSUME AppRuns, sint' = sint, allocating' = allocating, signaled' = signaled,
              root'.SintConnected = root.SintConnected
       PROVE  SlotOwned'
  BY <1>0, <1>1, <1>14 DEF SlotOwned
<1>15. CASE VersionAnswered \/ OfferAnswered \/ UnloadAnswered
  <2>1. root'.SintConnected = root.SintConnected
    BY <1>0, <1>15 DEF VersionAnswered, OfferAnswered, UnloadAnswered, RootType
  <2> QED  BY <1>14, <1>15, <2>1 DEF VersionAnswered, OfferAnswered, UnloadAnswered, Handling
<1>16. CASE EnumerateChildren \/ DriverStop \/ ExitBootServices \/ DestroyContext
  BY <1>14, <1>16 DEF EnumerateChildren, DriverStop, ExitBootServices, DestroyContext
<1>17. ASSUME NEW id \in Ids, StopChild(id) PROVE SlotOwned'
  <2>1. root'.SintConnected = root.SintConnected
    BY <1>0, <1>17 DEF StopChild, RootType
  <2> QED  BY <1>14, <1>17, <2>1 DEF StopChild
<1>18. CASE Teardown
  <2>1. sint.slot.type = "None" /\ AppRuns
    BY <1>18 DEF Teardown, IInv, Phases, QuietInv, Quiet
  <2>2. sint'.slot = sint.slot /\ allocating' = allocating
    BY <1>0, <1>18 DEF Teardown, SintType
  <2>3. "HotAllocationEvent" \notin signaled'
    BY <1>1, <1>18, <2>1 DEF Teardown
  <2>4. ~sint'.connected
    BY <1>0, <1>18 DEF Teardown, SintType, SlotOwned
  <2> QED  BY <1>1, <2>1, <2>2, <2>3, <2>4, SlotCleared
<1>19. CASE UNCHANGED vars
  BY <1>0, <1>19, SlotFrame DEF vars
<1> QED
  BY <1>2, <1>3, <1>4, <1>5, <1>6, <1>7, <1>8, <1>9, <1>10, <1>11, <1>12, <1>13, <1>15,
     <1>16, <1>17, <1>18, <1>19
  DEF Next, HotEvents, Progress
=============================================================================
