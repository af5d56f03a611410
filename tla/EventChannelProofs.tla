------------------------- MODULE EventChannelProofs -------------------------
(***************************************************************************)
(* Proofs about the event channels and the boot event log, for every ring, *)
(* size of record and number of events and attempts: committing a pending  *)
(* event succeeds, an event shows what was last said of it, an event that  *)
(* cannot be logged costs no other, and a boot event says what its attempt *)
(* came to.  All are of channels that refuse what does not fit             *)
(* (~Overwrite), as the boot channel does.                                 *)
(***************************************************************************)
EXTENDS BootEvents, TLAPS

RecordType(S) ==
    [id : 1 .. MaxId, total : Nat, pending : BOOLEAN, incomplete : BOOLEAN, status : S]
HandleType == [id : Nat, key : Nat]
ChannelType(S) ==
    [log : Seq(RecordType(S)), key : Nat, pending : [handle : HandleType, total : Nat],
     cache : S, cacheSize : Nat, written : Nat, lost : Nat, nextId : 1 .. MaxId + 1,
     said : [1 .. MaxId -> S], asserted : BOOLEAN]

\* The records of the log are different events that were logged before, at most
\* one of them is marked pending, and that is the one the channel has a handle of;
\* each shows what was last said of it.
SoundOf(log, key, pending, cache, nextId, said, asserted) ==
    /\ \A i \in DOMAIN log : log[i].id < nextId
    /\ \A i, j \in DOMAIN log : log[i].id = log[j].id => i = j
    /\ log # <<>> => key # 0
    /\ pending.handle # INVALID_RING_HANDLE =>
           /\ pending.handle.key = key
           /\ \E i \in DOMAIN log : log[i].id = pending.handle.id /\ log[i].pending
    /\ \A i \in DOMAIN log : log[i].pending => pending.handle.id = log[i].id
    /\ pending.handle = INVALID_RING_HANDLE => pending = NoPending
    /\ \A i \in DOMAIN log :
           (IF log[i].pending THEN cache ELSE log[i].status) = said[log[i].id]
    /\ asserted = FALSE
Sound(c) == SoundOf(c.log, c.key, c.pending, c.cache, c.nextId, c.said, c.asserted)

\* d has the events of c, and no other.
SameEvents(c, d) ==
    /\ DOMAIN d.log = DOMAIN c.log /\ \A i \in DOMAIN c.log : d.log[i].id = c.log[i].id
    /\ d.nextId = c.nextId /\ d.written = c.written

NonePending(c) == \A i \in DOMAIN c.log : ~c.log[i].pending

LEMMA RecordsTyped ==
    ASSUME NEW S, NEW c \in ChannelType(S)
    PROVE  /\ c.log \in Seq(RecordType(S)) /\ c.cache \in S /\ c.key \in Nat
           /\ Len(c.log) \in Nat /\ DOMAIN c.log = 1 .. Len(c.log)
           /\ \A i \in DOMAIN c.log : c.log[i] \in RecordType(S)
           /\ \A i \in DOMAIN c.log : c.log[i].id \in 1 .. MaxId
<1>1. c.log \in Seq(RecordType(S)) /\ c.cache \in S /\ c.key \in Nat
  BY DEF ChannelType
<1>2. \A i \in DOMAIN c.log : c.log[i] \in RecordType(S)
  BY <1>1
<1>3. \A r \in RecordType(S) : r.id \in 1 .. MaxId
  BY DEF RecordType
<1> QED  BY <1>1, <1>2, <1>3

LEMMA CountersTyped ==
    ASSUME NEW S, NEW c \in ChannelType(S)
    PROVE  /\ c.nextId \in 1 .. MaxId + 1 /\ c.written \in Nat
           /\ c.said \in [1 .. MaxId -> S]
BY DEF ChannelType

WithNext(c, w, n, said) == [c EXCEPT !.written = w, !.nextId = n, !.said = said]
WithPending(c, p, status) == [c EXCEPT !.pending = p, !.cache = status]

LEMMA NextTyped ==
    ASSUME NEW S, NEW c \in ChannelType(S), NEW w \in Nat, NEW n \in 1 .. MaxId + 1,
           NEW said \in [1 .. MaxId -> S],
           NEW d, d = WithNext(c, w, n, said)
    PROVE  /\ d \in ChannelType(S) /\ d.log = c.log /\ d.pending = c.pending
           /\ d.cache = c.cache /\ d.nextId = n /\ d.written = w /\ d.said = said
           /\ d.asserted = c.asserted /\ d.key = c.key
BY DEF ChannelType, WithNext

LEMMA PendingTyped ==
    ASSUME NEW S, NEW c \in ChannelType(S), NEW status \in S,
           NEW p \in [handle : HandleType, total : Nat],
           NEW d, d = WithPending(c, p, status)
    PROVE  /\ d \in ChannelType(S) /\ d.log = c.log /\ d.pending = p
           /\ d.cache = status /\ d.asserted = c.asserted /\ d.key = c.key
BY DEF ChannelType, WithPending

\* A handle of the channel is valid iff there is one.
LEMMA HandleValid ==
    ASSUME NEW S, NEW c \in ChannelType(S), Sound(c)
    PROVE  /\ HandleIsValid(c, c.pending.handle) <=> c.pending.handle # INVALID_RING_HANDLE
           /\ c.pending.handle = INVALID_RING_HANDLE => NonePending(c)
<1>1. c.pending.handle = INVALID_RING_HANDLE => c.pending.handle.id = 0
  BY DEF INVALID_RING_HANDLE
<1>2. \A i \in DOMAIN c.log : c.log[i].id \in 1 .. MaxId
  BY RecordsTyped
<1>3. c.pending.handle = INVALID_RING_HANDLE => NonePending(c)
  BY <1>1, <1>2 DEF Sound, SoundOf, NonePending
<1>4. HandleIsValid(c, c.pending.handle) <=> c.pending.handle # INVALID_RING_HANDLE
  BY DEF HandleIsValid, Sound, SoundOf, Ids
<1> QED  BY <1>3, <1>4

\* A ring that does not overwrite drops nothing.
LEMMA NothingDropped ==
    ASSUME ~Overwrite, NEW R, NEW s \in Seq(R), NEW record, Log!Accepted(s, record.total)
    PROVE  Log!Dropped(s, record.total) = 0 /\ Log!Added(s, record) = Append(s, record)
<1>1. Log!Fits(s, record.total)
  BY DEF Log!Accepted
<1>2. Log!From(s, 0) = s
  BY DEF Log!From
<1>3. Log!Dropped(s, record.total) = 0
  <2>1. Len(s) \in Nat /\ 0 \in 0 .. Len(s)
    OBVIOUS
  <2> DEFINE P(i) == /\ Log!Fits(Log!From(s, i), record.total)
                     /\ \A j \in 0 .. i - 1 : ~Log!Fits(Log!From(s, j), record.total)
  <2>2. P(0)
    BY <1>1, <1>2
  <2>3. \A i \in 0 .. Len(s) : P(i) => i = 0
    <3> SUFFICES ASSUME NEW i \in 0 .. Len(s), P(i), i # 0 PROVE FALSE
      OBVIOUS
    <3>1. 0 \in 0 .. i - 1
      <4> HIDE DEF P
      <4> QED  BY <2>1
    <3> QED  BY <1>1, <1>2, <3>1
  <2> HIDE DEF P
  <2>4. (CHOOSE i \in 0 .. Len(s) : P(i)) = 0
    BY <2>1, <2>2, <2>3
  <2> QED  BY <2>4 DEF P, Log!Dropped
<1> QED  BY <1>2, <1>3 DEF Log!Added

\* Committing the pending event.
LEMMA CommitInternal ==
    ASSUME NEW S, NEW c \in ChannelType(S), Sound(c), NEW incomplete \in BOOLEAN,
           c.pending.handle # INVALID_RING_HANDLE,
           NEW d, d = EventPendingCommitInternal(c, incomplete)
    PROVE  /\ d \in ChannelType(S) /\ Sound(d) /\ SameEvents(c, d) /\ NonePending(d)
           /\ d.pending = NoPending /\ d.said = c.said /\ d.cache = c.cache
<1>1. HandleIsValid(c, c.pending.handle)
  BY HandleValid
<1> DEFINE l == Committed(c, incomplete)
<1>2. d = [[c EXCEPT !.log = l] EXCEPT !.pending = NoPending]
  BY <1>1 DEF EventPendingCommitInternal, EventPendingCleanup
<1>3. /\ c.log \in Seq(RecordType(S)) /\ c.cache \in S
      /\ \A i \in DOMAIN c.log : c.log[i] \in RecordType(S)
  BY RecordsTyped
<1>4. /\ DOMAIN l = DOMAIN c.log
      /\ \A i \in DOMAIN c.log :
            /\ l[i] \in RecordType(S) /\ l[i].id = c.log[i].id
            /\ c.log[i].id = c.pending.handle.id => ~l[i].pending /\ l[i].status = c.cache
            /\ c.log[i].id # c.pending.handle.id => l[i] = c.log[i]
  BY <1>3, Zenon DEF Committed, RecordType
<1>5. l \in Seq(RecordType(S)) /\ (l = <<>> <=> c.log = <<>>)
  <2>1. Len(c.log) \in Nat /\ DOMAIN c.log = 1 .. Len(c.log)
    BY <1>3
  <2>2. l \in [1 .. Len(c.log) -> RecordType(S)]
    <3>1. l = [i \in DOMAIN c.log |-> l[i]]
      BY Zenon DEF Committed
    <3> HIDE DEF l
    <3> QED  BY <1>4, <2>1, <3>1
  <2> HIDE DEF l
  <2>3. l \in Seq(RecordType(S)) /\ Len(l) = Len(c.log)
    BY <2>1, <2>2
  <2> QED  BY <1>3, <2>3
<1> HIDE DEF l
<1>x. NoPending \in [handle : HandleType, total : Nat]
  BY DEF NoPending, INVALID_RING_HANDLE, HandleType
<1>6. /\ d \in ChannelType(S) /\ d.log = l /\ d.pending = NoPending /\ d.said = c.said
      /\ d.cache = c.cache /\ d.nextId = c.nextId /\ d.written = c.written /\ d.key = c.key
      /\ d.asserted = c.asserted
  BY <1>2, <1>5, <1>x, Zenon DEF ChannelType
<1>7. SameEvents(c, d)
  BY <1>4, <1>6 DEF SameEvents
<1>8. NonePending(d)
  BY <1>4, <1>6 DEF NonePending, Sound, SoundOf
<1>9. Sound(d)
  <2>1. \A i \in DOMAIN c.log : c.log[i].id = c.pending.handle.id => c.log[i].pending
    BY DEF Sound, SoundOf
  <2>2. d.pending.handle = INVALID_RING_HANDLE
    BY <1>6 DEF NoPending
  <2>3. \A i \in DOMAIN d.log : d.log[i].status = d.said[d.log[i].id]
    BY <1>4, <1>6, <2>1 DEF Sound, SoundOf
  <2>4. /\ \A i \in DOMAIN d.log : d.log[i].id < d.nextId
        /\ \A i, j \in DOMAIN d.log : d.log[i].id = d.log[j].id => i = j
        /\ d.log # <<>> => d.key # 0
        /\ d.asserted = FALSE
    BY <1>4, <1>5, <1>6 DEF Sound, SoundOf
  <2> QED  BY <1>6, <1>8, <2>2, <2>3, <2>4 DEF Sound, SoundOf, NonePending
<1> QED  BY <1>6, <1>7, <1>8, <1>9

\* A commit, forced or not, leaves no event pending.
LEMMA CommitSound ==
    ASSUME NEW S, NEW c \in ChannelType(S), Sound(c),
           NEW d, d = EventPendingCommit(c) \/ d = ForceCommit(c)
    PROVE  /\ d \in ChannelType(S) /\ Sound(d) /\ SameEvents(c, d) /\ NonePending(d)
           /\ d.pending = NoPending /\ d.said = c.said /\ d.cache = c.cache
           /\ c.pending.handle = INVALID_RING_HANDLE => d = c
<1>1. CASE c.pending.handle # INVALID_RING_HANDLE
  <2>1. PICK b \in BOOLEAN : d = EventPendingCommitInternal(c, b)
    BY <1>1, HandleValid, Zenon DEF EventPendingCommit, ForceCommit
  <2> QED  BY <1>1, <2>1, CommitInternal
<1>2. CASE c.pending.handle = INVALID_RING_HANDLE
  <2>1. ~HandleIsValid(c, c.pending.handle) /\ NonePending(c) /\ c.pending = NoPending
    BY <1>2, HandleValid, Zenon DEF Sound, SoundOf
  <2>2. EventPendingCleanup(c) = c
    BY <2>1 DEF EventPendingCleanup, ChannelType
  <2>3. d = c
    BY <1>2, <2>1, <2>2 DEF EventPendingCommit, ForceCommit
  <2> QED  BY <2>1, <2>3 DEF SameEvents
<1> QED  BY <1>1, <1>2

\* What a client says of the pending event is said of that event alone.
LEMMA UpdateSound ==
    ASSUME NEW S, NEW c \in ChannelType(S), Sound(c), NEW status \in S,
           NEW d, d = PendingUpdate(c, status)
    PROVE  /\ d \in ChannelType(S) /\ Sound(d) /\ d.log = c.log /\ d.pending = c.pending
           /\ d.nextId = c.nextId /\ d.written = c.written
           /\ \A i \in DOMAIN c.log :
                 d.said[c.log[i].id] = IF c.log[i].pending THEN status ELSE c.said[c.log[i].id]
<1>1. CASE c.pending.handle # INVALID_RING_HANDLE
  <2>1. HandleIsValid(c, c.pending.handle)
    BY <1>1, HandleValid
  <2>2. d = [c EXCEPT !.cache = status, !.said[c.pending.handle.id] = status]
    BY <2>1 DEF PendingUpdate
  <2>3. \A i \in DOMAIN c.log : c.log[i].id \in 1 .. MaxId
    BY RecordsTyped
  <2>4. c.pending.handle.id \in 1 .. MaxId
    BY <1>1, <2>3 DEF Sound, SoundOf
  <2>6. c.said \in [1 .. MaxId -> S]
    BY DEF ChannelType
  <2> DEFINE said == [c.said EXCEPT ![c.pending.handle.id] = status]
  <2>a. /\ said \in [1 .. MaxId -> S] /\ said[c.pending.handle.id] = status
        /\ \A i \in 1 .. MaxId : i # c.pending.handle.id => said[i] = c.said[i]
    BY <2>4, <2>6, Zenon
  <2>b. d = [c EXCEPT !.cache = status, !.said = said]
    BY <2>2 DEF ChannelType
  <2> HIDE DEF said
  <2>5. /\ d \in ChannelType(S) /\ d.log = c.log /\ d.pending = c.pending /\ d.key = c.key
        /\ d.nextId = c.nextId /\ d.written = c.written /\ d.asserted = c.asserted
        /\ d.cache = status /\ d.said = said
    BY <2>b, <2>a, Zenon DEF ChannelType
  <2>7. \A i \in DOMAIN c.log : c.log[i].pending <=> c.log[i].id = c.pending.handle.id
    BY <1>1 DEF Sound, SoundOf
  <2>8. \A i \in DOMAIN c.log :
           d.said[c.log[i].id] = IF c.log[i].pending THEN status ELSE c.said[c.log[i].id]
    BY <2>3, <2>5, <2>a, <2>7
  <2>9. Sound(d)
    BY <2>5, <2>8 DEF Sound, SoundOf
  <2> QED  BY <2>5, <2>8, <2>9
<1>2. CASE c.pending.handle = INVALID_RING_HANDLE
  <2>1. ~HandleIsValid(c, c.pending.handle) /\ NonePending(c) /\ c.pending = NoPending
    BY <1>2, HandleValid, Zenon DEF Sound, SoundOf
  <2>2. d = c
    BY <2>1 DEF PendingUpdate, EventPendingCleanup, ChannelType
  <2> QED  BY <2>1, <2>2 DEF NonePending
<1> QED  BY <1>1, <1>2

\* An empty channel.
LEMMA ResetSound ==
    ASSUME NEW S, NEW c \in ChannelType(S), Sound(c), NEW d, d = EventChannelReset(c)
    PROVE  /\ d \in ChannelType(S) /\ Sound(d) /\ d.log = <<>> /\ d.nextId = c.nextId
           /\ d.said = c.said
<1>1. <<>> \in Seq(RecordType(S)) /\ DOMAIN <<>> = {}
  OBVIOUS
<1>2. NoPending \in [handle : HandleType, total : Nat]
  BY DEF NoPending, INVALID_RING_HANDLE, HandleType
<1>3. /\ d \in ChannelType(S) /\ d.log = <<>> /\ d.pending = NoPending /\ d.nextId = c.nextId
      /\ d.said = c.said /\ d.asserted = c.asserted
  BY <1>1, <1>2, Zenon DEF EventChannelReset, EventPendingCleanup, ChannelType
<1>4. Sound(d)
  BY <1>1, <1>3 DEF Sound, SoundOf, NoPending
<1> QED  BY <1>3, <1>4

\* The record EventLog reserves.
NewRecord(c, total, pending, status) ==
    [id |-> c.nextId, total |-> total, pending |-> pending,
     incomplete |-> FALSE, status |-> IF pending THEN 0 ELSE status]

\* An event that does not fit.
Refuse(c) == [c EXCEPT !.lost = @ + 1, !.nextId = @ + 1]

LEMMA RefusedSound ==
    ASSUME NEW S, NEW c \in ChannelType(S), Sound(c), c.nextId <= MaxId,
           NEW d, d = Refuse(c)
    PROVE  /\ d \in ChannelType(S) /\ Sound(d) /\ d.nextId = c.nextId + 1
           /\ d.log = c.log /\ d.said = c.said /\ d.pending = c.pending /\ d.cache = c.cache
           /\ d.written = c.written
<1>1. /\ d \in ChannelType(S) /\ d.nextId = c.nextId + 1 /\ d.written = c.written
      /\ d.log = c.log /\ d.said = c.said /\ d.pending = c.pending /\ d.cache = c.cache
      /\ d.key = c.key /\ d.asserted = c.asserted
  <2>1. c.nextId + 1 \in 1 .. MaxId + 1 /\ c.lost + 1 \in Nat
    BY ChannelAssumption DEF ChannelType
  <2> DEFINE n == c.nextId + 1
             m == c.lost + 1
  <2>2. d = [c EXCEPT !.lost = m, !.nextId = n]
    BY DEF ChannelType, Refuse
  <2> HIDE DEF n, m
  <2>3. n = c.nextId + 1 /\ n \in 1 .. MaxId + 1 /\ m \in Nat
    BY <2>1 DEF n, m
  <2> QED  BY <2>2, <2>3, Zenon DEF ChannelType
<1>2. \A i \in DOMAIN c.log : c.log[i].id \in Int
  BY RecordsTyped
<1>3. c.nextId \in Int
  BY DEF ChannelType
<1>4. \A i \in DOMAIN d.log : d.log[i].id < d.nextId
  BY <1>1, <1>2, <1>3 DEF Sound, SoundOf
<1> QED  BY <1>1, <1>4 DEF Sound, SoundOf

\* An event that fits is added as the last one.
\* What logging an event may come to, besides that no memory is left: it is
\* refused, or added as the last one.
EventRefused(c, d) ==
    /\ d.nextId = c.nextId + 1 /\ d.log = c.log /\ d.said = c.said
    /\ d.pending = c.pending /\ d.cache = c.cache /\ d.written = c.written

EventAdded(c, d, pending, status) ==
    /\ d.nextId = c.nextId + 1 /\ Len(d.log) = Len(c.log) + 1
    /\ \A i \in DOMAIN c.log : d.log[i].id = c.log[i].id
    /\ d.log[Len(d.log)].id = c.nextId
    /\ d.said = [c.said EXCEPT ![c.nextId] = status]
    /\ d.written = c.written + 1
    /\ pending => \A i \in DOMAIN c.log : ~d.log[i].pending
    /\ d.log[Len(d.log)].pending = pending

LEMMA AcceptedSound ==
    ASSUME NEW S, 0 \in S, NEW c \in ChannelType(S), Sound(c), c.nextId <= MaxId, ~Overwrite,
           NEW total \in Nat, NEW pending \in BOOLEAN, NEW status \in S,
           Log!Accepted(c.log, total), NEW d, d = Logged(c, total, pending, status)
    PROVE  d \in ChannelType(S) /\ Sound(d) /\ EventAdded(c, d, pending, status)
<1> DEFINE record == NewRecord(c, total, pending, status)
           after  == RingBufferReserve(c, record)
           made   == IF pending THEN MakePending(after, record, status) ELSE after
<1>1. d = [made EXCEPT !.written = @ + 1, !.nextId = @ + 1, !.said[c.nextId] = status]
  BY DEF Logged, NewRecord
<1>2. c.nextId \in 1 .. MaxId
  BY ChannelAssumption DEF ChannelType
<1>3. /\ record \in RecordType(S) /\ record.id = c.nextId /\ record.total = total
      /\ record.pending = pending /\ (~pending => record.status = status)
  BY <1>2 DEF RecordType, NewRecord
<1> HIDE DEF record
<1>4. after = [c EXCEPT !.log = Append(@, record), !.key = Nonzero(@ + 0), !.lost = @ + 0]
  <2>1. c.log \in Seq(RecordType(S))
    BY RecordsTyped
  <2>2. Log!Dropped(c.log, record.total) = 0 /\ Log!Added(c.log, record) = Append(c.log, record)
    BY <1>3, <2>1, NothingDropped
  <2> QED  BY <2>2 DEF RingBufferReserve
<1>5. c.log \in Seq(RecordType(S)) /\ Len(c.log) \in Nat /\ DOMAIN c.log = 1 .. Len(c.log)
  BY RecordsTyped
<1> DEFINE l == Append(c.log, record)
<1>6. /\ l \in Seq(RecordType(S)) /\ Len(l) = Len(c.log) + 1 /\ l[Len(l)] = record
      /\ DOMAIN l = 1 .. Len(c.log) + 1 /\ l # <<>>
      /\ \A i \in DOMAIN c.log : l[i] = c.log[i]
  BY <1>3, <1>5
<1> HIDE DEF l, after
<1>7. /\ after \in ChannelType(S) /\ after.log = l /\ after.pending = c.pending
      /\ after.cache = c.cache /\ after.nextId = c.nextId /\ after.written = c.written
      /\ after.said = c.said /\ after.asserted = c.asserted
      /\ after.key \in Nat /\ after.key # 0 /\ (c.key # 0 => after.key = c.key)
  <2> DEFINE key == Nonzero(c.key)
  <2>1. c.key \in Nat /\ c.lost \in Nat /\ c.key + 0 = c.key /\ c.lost + 0 = c.lost
    BY DEF ChannelType
  <2>2. key \in Nat /\ key # 0 /\ (c.key # 0 => key = c.key)
    BY <2>1 DEF Nonzero
  <2>3. after = [c EXCEPT !.log = l, !.key = key, !.lost = c.lost]
    BY <1>4, <2>1, Zenon DEF l
  <2> HIDE DEF key
  <2> QED  BY <1>6, <2>2, <2>3, Zenon DEF ChannelType
<1> DEFINE f == ForceCommit(c)
           g == ForceCommit(after)
<1>8. /\ f \in ChannelType(S) /\ Sound(f) /\ SameEvents(c, f) /\ NonePending(f)
      /\ f.said = c.said
  BY CommitSound
<1>9. /\ g \in ChannelType(S) /\ Len(g.log) = Len(c.log) + 1 /\ g.log[Len(g.log)] = record
      /\ g.log # <<>> /\ \A i \in DOMAIN c.log : g.log[i] = f.log[i]
      /\ g.said = c.said /\ g.asserted = FALSE /\ g.key = after.key
      /\ g.nextId = c.nextId /\ g.written = c.written
  <2>1. CASE c.pending.handle = INVALID_RING_HANDLE
    <3>1. f = c /\ g = after
      BY <1>7, <2>1 DEF ForceCommit
    <3> QED  BY <1>6, <1>7, <3>1 DEF Sound, SoundOf
  <2>2. CASE c.pending.handle # INVALID_RING_HANDLE
    <3> DEFINE k == Committed(after, TRUE)
    <3>1. HandleIsValid(c, c.pending.handle)
      BY <2>2, HandleValid
    <3>2. c.log # <<>> /\ c.key # 0 /\ c.key = c.pending.handle.key
      <4>1. \E i \in DOMAIN c.log : c.log[i].id = c.pending.handle.id
        BY <2>2 DEF Sound, SoundOf
      <4>2. c.log # <<>>
        BY <4>1, <1>5
      <4> QED  BY <2>2, <4>2 DEF Sound, SoundOf
    <3>3. HandleIsValid(after, after.pending.handle)
      <4>1. PICK i \in DOMAIN c.log : c.log[i].id = c.pending.handle.id
        BY <2>2 DEF Sound, SoundOf
      <4>2. i \in DOMAIN after.log /\ after.log[i].id = c.pending.handle.id
        BY <1>5, <1>6, <1>7, <4>1
      <4> QED  BY <1>7, <2>2, <3>2, <4>2 DEF HandleIsValid, Ids
    <3>4. g = [[after EXCEPT !.log = k] EXCEPT !.pending = NoPending]
      BY <1>7, <2>2, <3>3 DEF ForceCommit, EventPendingCommitInternal, EventPendingCleanup
    <3>5. f = [[c EXCEPT !.log = Committed(c, TRUE)] EXCEPT !.pending = NoPending]
      BY <2>2, <3>1 DEF ForceCommit, EventPendingCommitInternal, EventPendingCleanup
    <3>6. f.log = Committed(c, TRUE)
      BY <3>5 DEF ChannelType
    <3>7. record.id # c.pending.handle.id
      <4>1. \A i \in DOMAIN c.log : c.log[i].id < c.nextId /\ c.log[i].id \in Int
        BY RecordsTyped DEF Sound, SoundOf
      <4>2. c.pending.handle.id < c.nextId /\ c.pending.handle.id \in Int
        BY <2>2, <4>1 DEF Sound, SoundOf
      <4> QED  BY <1>2, <1>3, <4>2
    <3>k. k = [i \in DOMAIN l |->
                 IF l[i].id = c.pending.handle.id
                 THEN [l[i] EXCEPT !.pending = FALSE, !.incomplete = TRUE, !.status = c.cache]
                 ELSE l[i]]
      BY <1>7 DEF Committed
    <3>8. DOMAIN k = DOMAIN l /\ k[Len(l)] = record
      <4>1. Len(l) \in DOMAIN l
        BY <1>5, <1>6
      <4> HIDE DEF k
      <4> QED  BY <1>6, <3>7, <3>k, <4>1, Zenon
    <3>9. \A i \in DOMAIN c.log : k[i] = f.log[i] /\ f.log[i] \in RecordType(S)
      <4>1. \A i \in DOMAIN c.log : f.log[i] \in RecordType(S)
        BY <1>8, RecordsTyped DEF SameEvents
      <4>2. \A i \in DOMAIN c.log : k[i] = Committed(c, TRUE)[i]
        <5> SUFFICES ASSUME NEW i \in DOMAIN c.log PROVE k[i] = Committed(c, TRUE)[i]
          BY Zenon
        <5> HIDE DEF k
        <5>1. i \in DOMAIN l /\ l[i] = c.log[i]
          BY <1>5, <1>6
        <5> QED  BY <3>k, <5>1, Zenon DEF Committed
      <4> QED  BY <3>6, <4>1, <4>2, Zenon
    <3>10. k \in [1 .. Len(c.log) + 1 -> RecordType(S)]
      <4>1. k = [i \in DOMAIN l |-> k[i]]
        BY <1>7 DEF Committed
      <4> HIDE DEF k
      <4>2. \A i \in 1 .. Len(c.log) + 1 : i \in 1 .. Len(c.log) \/ i = Len(l)
        BY <1>5, <1>6
      <4> QED  BY <1>3, <1>5, <1>6, <3>8, <3>9, <4>1, <4>2, Zenon
    <3> HIDE DEF k
    <3>11. k \in Seq(RecordType(S)) /\ Len(k) = Len(c.log) + 1 /\ k # <<>>
      BY <1>5, <3>10
    <3>12. NoPending \in [handle : HandleType, total : Nat]
      BY DEF NoPending, INVALID_RING_HANDLE, HandleType
    <3>13. /\ g \in ChannelType(S) /\ g.log = k /\ g.said = after.said /\ g.key = after.key
           /\ g.asserted = after.asserted /\ g.nextId = after.nextId
           /\ g.written = after.written
      BY <1>7, <3>4, <3>11, <3>12, Zenon DEF ChannelType
    <3> QED  BY <1>6, <1>7, <3>8, <3>9, <3>11, <3>13 DEF Sound, SoundOf
  <2> QED  BY <2>1, <2>2, Zenon
<1> DEFINE said == [c.said EXCEPT ![c.nextId] = status]
<1>10. /\ said \in [1 .. MaxId -> S] /\ said[c.nextId] = status
       /\ \A i \in 1 .. MaxId : i # c.nextId => said[i] = c.said[i]
  <2>1. c.said \in [1 .. MaxId -> S]
    BY DEF ChannelType
  <2> QED  BY <1>2, <2>1, Zenon
<1>11. /\ c.nextId + 1 \in 1 .. MaxId + 1 /\ c.written + 1 \in Nat
       /\ \A i \in DOMAIN c.log : c.log[i].id < c.nextId /\ c.log[i].id \in 1 .. MaxId
  <2>1. c.nextId + 1 \in 1 .. MaxId + 1
    BY <1>2, ChannelAssumption
  <2>2. c.written \in Nat
    BY CountersTyped
  <2>3. \A i \in DOMAIN c.log : c.log[i].id \in 1 .. MaxId
    BY RecordsTyped
  <2>4. \A i \in DOMAIN c.log : c.log[i].id < c.nextId
    BY Zenon DEF Sound, SoundOf
  <2> QED  BY <2>1, <2>2, <2>3, <2>4
<1> HIDE DEF said, f, g
<1>12. CASE ~pending
  <2>1. d = WithNext(after, c.written + 1, c.nextId + 1, said)
    BY <1>1, <1>7, <1>12, Zenon DEF said, ChannelType, WithNext
  <2>2. /\ d \in ChannelType(S) /\ d.log = l /\ d.pending = c.pending /\ d.cache = c.cache
        /\ d.nextId = c.nextId + 1 /\ d.written = c.written + 1 /\ d.said = said
        /\ d.asserted = c.asserted /\ d.key = after.key
    BY <1>7, <1>10, <1>11, <2>1, NextTyped
  <2>3. \A i \in DOMAIN l : (i \in DOMAIN c.log /\ l[i] = c.log[i])
                              \/ (i = Len(l) /\ l[i] = record)
    BY <1>5, <1>6
  <2>r. record.id = c.nextId /\ record.pending = FALSE /\ record.status = status
    BY <1>3, <1>12
  <2>4. /\ \A i \in DOMAIN d.log : d.log[i].id < d.nextId
        /\ \A i, j \in DOMAIN d.log : d.log[i].id = d.log[j].id => i = j
    BY <1>2, <1>3, <1>11, <2>2, <2>3 DEF Sound, SoundOf
  <2>5. d.pending.handle # INVALID_RING_HANDLE =>
           /\ d.pending.handle.key = d.key
           /\ \E i \in DOMAIN d.log : d.log[i].id = d.pending.handle.id /\ d.log[i].pending
    <3> SUFFICES ASSUME c.pending.handle # INVALID_RING_HANDLE
                 PROVE  /\ c.pending.handle.key = after.key
                        /\ \E i \in DOMAIN l : l[i].id = c.pending.handle.id /\ l[i].pending
      BY <2>2
    <3>1. PICK i \in DOMAIN c.log : c.log[i].id = c.pending.handle.id /\ c.log[i].pending
      BY DEF Sound, SoundOf
    <3>2. i \in DOMAIN l /\ l[i] = c.log[i] /\ c.log # <<>>
      BY <1>5, <1>6
    <3>3. c.pending.handle.key = after.key
      BY <1>7, <3>2 DEF Sound, SoundOf
    <3> QED  BY <3>1, <3>2, <3>3
  <2>6. \A i \in DOMAIN d.log : d.log[i].pending => d.pending.handle.id = d.log[i].id
    BY <2>2, <2>3, <2>r DEF Sound, SoundOf
  <2>7. \A i \in DOMAIN d.log :
           (IF d.log[i].pending THEN d.cache ELSE d.log[i].status) = d.said[d.log[i].id]
    <3> SUFFICES ASSUME NEW i \in DOMAIN l
                 PROVE (IF l[i].pending THEN c.cache ELSE l[i].status) = said[l[i].id]
      BY <2>2
    <3>1. CASE i \in DOMAIN c.log /\ l[i] = c.log[i]
      <4>1. l[i].id \in 1 .. MaxId /\ l[i].id # c.nextId
        BY <1>2, <1>11, <3>1
      <4> QED  BY <1>10, <3>1, <4>1 DEF Sound, SoundOf
    <3>2. CASE l[i] = record
      BY <1>10, <2>r, <3>2
    <3> QED  BY <2>3, <3>1, <3>2
  <2>8. Sound(d)
    BY <1>7, <2>2, <2>4, <2>5, <2>6, <2>7 DEF Sound, SoundOf
  <2>9. /\ Len(d.log) = Len(c.log) + 1 /\ d.log[Len(d.log)].id = c.nextId
        /\ d.log[Len(d.log)].pending = FALSE
        /\ \A i \in DOMAIN c.log : d.log[i] = c.log[i]
    BY <1>6, <2>2, <2>r
  <2>10. pending = FALSE
    BY <1>12
  <2> QED  BY <2>2, <2>8, <2>9, <2>10, Zenon DEF said, EventAdded
<1>13. CASE pending
  <2> DEFINE p == [handle |-> [id |-> c.nextId, key |-> after.key], total |-> total]
  <2>1. d = [g EXCEPT !.pending = p, !.cache = status, !.written = c.written + 1,
                      !.nextId = c.nextId + 1, !.said = said]
    BY <1>1, <1>3, <1>9, <1>13, Zenon DEF said, ChannelType, MakePending, g
  <2>2. /\ p \in [handle : HandleType, total : Nat] /\ p.handle.id = c.nextId
        /\ p.handle.key = after.key /\ p.handle # INVALID_RING_HANDLE
    BY <1>2, <1>7 DEF HandleType, INVALID_RING_HANDLE
  <2> HIDE DEF p
  <2>3. /\ d \in ChannelType(S) /\ d.log = g.log /\ d.pending = p /\ d.cache = status
        /\ d.nextId = c.nextId + 1 /\ d.written = c.written + 1 /\ d.said = said
        /\ d.asserted = FALSE /\ d.key = after.key
    <3> DEFINE h == WithPending(g, p, status)
    <3>1. /\ h \in ChannelType(S) /\ h.log = g.log /\ h.pending = p /\ h.cache = status
          /\ h.asserted = g.asserted /\ h.key = g.key
      BY <1>9, <2>2, PendingTyped
    <3>2. d = WithNext(h, c.written + 1, c.nextId + 1, said)
      BY <2>1, Zenon DEF WithNext, WithPending
    <3> HIDE DEF h
    <3>3. /\ d \in ChannelType(S) /\ d.log = h.log /\ d.pending = h.pending
          /\ d.cache = h.cache /\ d.nextId = c.nextId + 1 /\ d.written = c.written + 1
          /\ d.said = said /\ d.asserted = h.asserted /\ d.key = h.key
      BY <1>10, <1>11, <3>1, <3>2, NextTyped
    <3> QED  BY <1>9, <3>1, <3>3
  <2>4. /\ g.log \in Seq(RecordType(S)) /\ DOMAIN g.log = 1 .. Len(c.log) + 1
        /\ DOMAIN f.log = DOMAIN c.log
    BY <1>5, <1>8, <1>9 DEF ChannelType, SameEvents
  <2>5. \A i \in DOMAIN g.log :
           \/ /\ i \in DOMAIN c.log /\ g.log[i] = f.log[i] /\ ~g.log[i].pending
              /\ g.log[i].id = c.log[i].id /\ g.log[i].status = c.said[g.log[i].id]
           \/ i = Len(c.log) + 1 /\ g.log[i] = record
    <3> SUFFICES ASSUME NEW i \in DOMAIN g.log
                 PROVE \/ /\ i \in DOMAIN c.log /\ g.log[i] = f.log[i] /\ ~g.log[i].pending
                          /\ g.log[i].id = c.log[i].id
                          /\ g.log[i].status = c.said[g.log[i].id]
                       \/ i = Len(c.log) + 1 /\ g.log[i] = record
      OBVIOUS
    <3>1. i \in DOMAIN c.log \/ i = Len(c.log) + 1
      BY <1>5, <2>4
    <3>2. CASE i \in DOMAIN c.log
      <4>1. g.log[i] = f.log[i] /\ i \in DOMAIN f.log
        BY <1>9, <2>4, <3>2
      <4>2. ~f.log[i].pending /\ f.log[i].id = c.log[i].id
        BY <1>8, <3>2, <4>1 DEF NonePending, SameEvents
      <4>3. f.log[i].status = f.said[f.log[i].id]
        BY <1>8, <4>1, <4>2, Zenon DEF Sound, SoundOf
      <4> QED  BY <1>8, <3>2, <4>1, <4>2, <4>3, Zenon
    <3> QED  BY <1>9, <3>1, <3>2
  <2>r. record.id = c.nextId /\ record.pending = TRUE
    BY <1>3, <1>13
  <2>6. /\ \A i \in DOMAIN d.log : d.log[i].id < d.nextId
        /\ \A i, j \in DOMAIN d.log : d.log[i].id = d.log[j].id => i = j
    BY <1>2, <1>3, <1>11, <2>3, <2>5 DEF Sound, SoundOf
  <2>7. /\ Len(c.log) + 1 \in DOMAIN g.log /\ g.log[Len(c.log) + 1] = record
        /\ record.id = p.handle.id /\ record.pending
    BY <1>5, <1>9, <2>2, <2>4, <2>r
  <2>8. \A i \in DOMAIN d.log : d.log[i].pending => d.pending.handle.id = d.log[i].id
    BY <1>3, <2>2, <2>3, <2>5
  <2>9. \A i \in DOMAIN d.log :
           (IF d.log[i].pending THEN d.cache ELSE d.log[i].status) = d.said[d.log[i].id]
    <3> SUFFICES ASSUME NEW i \in DOMAIN g.log
                 PROVE (IF g.log[i].pending THEN status ELSE g.log[i].status)
                          = said[g.log[i].id]
      BY <2>3
    <3>1. CASE i \in DOMAIN c.log /\ g.log[i].id = c.log[i].id /\ ~g.log[i].pending
               /\ g.log[i].status = c.said[g.log[i].id]
      <4>1. g.log[i].id \in 1 .. MaxId /\ g.log[i].id # c.nextId
        BY <1>2, <1>11, <3>1
      <4> QED  BY <1>10, <3>1, <4>1
    <3>2. CASE g.log[i] = record
      BY <1>10, <2>r, <3>2
    <3> QED  BY <2>5, <3>1, <3>2
  <2>10. Sound(d)
    <3>1. /\ d.log # <<>> => d.key # 0
          /\ d.pending.handle = INVALID_RING_HANDLE => d.pending = NoPending
          /\ d.asserted = FALSE
      BY <1>7, <2>2, <2>3
    <3>2. d.pending.handle # INVALID_RING_HANDLE =>
             /\ d.pending.handle.key = d.key
             /\ \E i \in DOMAIN d.log :
                   d.log[i].id = d.pending.handle.id /\ d.log[i].pending
      <4>1. d.pending.handle.key = d.key
        BY <2>2, <2>3
      <4>2. \E i \in DOMAIN d.log : d.log[i].id = d.pending.handle.id /\ d.log[i].pending
        BY <2>3, <2>7, Zenon
      <4> QED  BY <4>1, <4>2
    <3> QED  BY <2>6, <2>8, <2>9, <3>1, <3>2, Zenon DEF Sound, SoundOf
  <2>11. \A i \in DOMAIN c.log : d.log[i].id = c.log[i].id /\ ~d.log[i].pending
    BY <1>8, <1>9, <2>3, <2>4 DEF SameEvents, NonePending
  <2>12. /\ Len(d.log) = Len(c.log) + 1 /\ d.log[Len(d.log)].id = c.nextId
         /\ d.log[Len(d.log)].pending = TRUE
    BY <1>9, <2>3, <2>r
  <2>13. pending = TRUE
    BY <1>13
  <2> QED  BY <2>3, <2>10, <2>11, <2>12, <2>13, Zenon DEF said, EventAdded
<1> QED  BY <1>12, <1>13

LEMMA EventLogSound ==
    ASSUME NEW S, 0 \in S, NEW c \in ChannelType(S), Sound(c), c.nextId <= MaxId, ~Overwrite,
           NEW total \in Nat, NEW pending \in BOOLEAN, NEW status \in S,
           NEW d \in EventLog(c, total, pending, status)
    PROVE  /\ d \in ChannelType(S) /\ Sound(d)
           /\ d = c \/ EventRefused(c, d) \/ EventAdded(c, d, pending, status)
<1> DEFINE g == GrowCache(c, total, pending)
<1>1. /\ g \in ChannelType(S) /\ g.log = c.log /\ g.key = c.key /\ g.pending = c.pending
      /\ g.cache = c.cache /\ g.written = c.written /\ g.nextId = c.nextId
      /\ g.said = c.said /\ g.asserted = c.asserted
  BY DEF GrowCache, ChannelType
<1>2. Sound(g)
  BY <1>1 DEF Sound
<1>3. d = c \/ d = Logged(g, total, pending, status)
  BY DEF EventLog
<1> HIDE DEF g
<1>4. CASE d = c
  BY <1>4
<1>5. CASE d = Logged(g, total, pending, status) /\ Log!Accepted(c.log, total)
  <2>1. Log!Accepted(g.log, total) /\ g.nextId <= MaxId
    BY <1>1, <1>5
  <2>2. d \in ChannelType(S) /\ Sound(d) /\ EventAdded(g, d, pending, status)
    BY <1>1, <1>2, <1>5, <2>1, AcceptedSound
  <2> QED  BY <1>1, <2>2, Zenon DEF EventAdded
<1>6. CASE d = Logged(g, total, pending, status) /\ ~Log!Accepted(c.log, total)
  <2>1. d = Refuse(g)
    BY <1>1, <1>6 DEF Logged, Refuse
  <2>g. g.nextId <= MaxId
    BY <1>1
  <2>2. /\ d \in ChannelType(S) /\ Sound(d) /\ d.nextId = g.nextId + 1
        /\ d.log = g.log /\ d.said = g.said /\ d.pending = g.pending /\ d.cache = g.cache
        /\ d.written = g.written
    BY <1>1, <1>2, <2>1, <2>g, RefusedSound
  <2> QED  BY <1>1, <2>2, Zenon DEF EventRefused
<1> QED  BY <1>3, <1>4, <1>5, <1>6

\* A channel that is sound shows every event's own data.
LEMMA SoundShows ==
    ASSUME NEW S, channel \in ChannelType(S), Sound(channel)
    PROVE  CommitSucceeds /\ ShowsOwnData
<1>1. ShowsOwnData
  <2> SUFFICES ASSUME NEW r \in Records
               PROVE  (IF r.pending THEN channel.cache ELSE r.status) = channel.said[r.id]
    BY DEF ShowsOwnData
  <2>1. PICK i \in DOMAIN channel.log : r = channel.log[i]
    BY DEF Records
  <2> QED  BY <2>1 DEF Sound, SoundOf
<1> QED  BY <1>1 DEF CommitSucceeds, Sound, SoundOf

LEMMA NewSound ==
    ASSUME NEW S, 0 \in S
    PROVE  NewChannel \in ChannelType(S) /\ Sound(NewChannel)
<1>1. <<>> \in Seq(RecordType(S)) /\ DOMAIN <<>> = {}
  OBVIOUS
<1>2. NoPending \in [handle : HandleType, total : Nat] /\ NoPending.handle = INVALID_RING_HANDLE
  BY DEF NoPending, INVALID_RING_HANDLE, HandleType
<1>3. 1 \in 1 .. MaxId + 1
  BY ChannelAssumption
<1>4. NewChannel \in ChannelType(S)
  BY <1>1, <1>2, <1>3 DEF NewChannel, ChannelType
<1>5. /\ NewChannel.log = <<>> /\ NewChannel.pending = NoPending
      /\ NewChannel.asserted = FALSE
  BY DEF NewChannel
<1> QED  BY <1>1, <1>2, <1>4, <1>5 DEF Sound, SoundOf
-----------------------------------------------------------------------------
(* Clients that call anything.                                             *)

Said == Statuses \cup {0}
ChannelInv == channel \in ChannelType(Said) /\ Sound(channel)

LEMMA ChannelStep ==
    ASSUME ~Overwrite, ChannelInv, [Next]_vars
    PROVE  /\ ChannelInv'
           /\ channel'.nextId > channel.nextId /\ channel'.written = channel.written =>
                channel'.log = channel.log /\ channel'.pending = channel.pending
                /\ channel'.cache = channel.cache
<1>1. 0 \in Said /\ \A s \in Statuses : s \in Said
  BY DEF Said
<1>2. \A t \in Totals : t \in Nat
  BY ChannelAssumption
<1>3. channel.nextId \in Nat /\ channel.written \in Nat
  BY DEF ChannelInv, ChannelType
<1>4. CASE CallEventLog
  <2>1. PICK total \in Totals, pending \in BOOLEAN, status \in Statuses :
             channel' \in EventLog(channel, total, pending, status)
    BY <1>4 DEF CallEventLog
  <2>2. /\ channel' \in ChannelType(Said) /\ Sound(channel')
        /\ \/ channel' = channel \/ EventRefused(channel, channel')
           \/ EventAdded(channel, channel', pending, status)
    BY <1>1, <1>2, <1>4, <2>1, EventLogSound DEF CallEventLog, ChannelInv
  <2>3. EventAdded(channel, channel', pending, status) => channel'.written # channel.written
    BY <1>3 DEF EventAdded
  <2> QED  BY <1>3, <2>2, <2>3 DEF ChannelInv, EventRefused
<1>5. CASE CallPendingUpdate
  <2>1. PICK status \in Statuses : channel' = PendingUpdate(channel, status)
    BY <1>5 DEF CallPendingUpdate
  <2>2. /\ channel' \in ChannelType(Said) /\ Sound(channel')
        /\ channel'.nextId = channel.nextId
    BY <1>1, <2>1, UpdateSound DEF ChannelInv
  <2> QED  BY <1>3, <2>2 DEF ChannelInv
<1>6. CASE CallPendingCommit \/ CallFlush
  <2>1. channel' = EventPendingCommit(channel) \/ channel' = ForceCommit(channel)
    BY <1>6 DEF CallPendingCommit, CallFlush, Flushed
  <2>2. /\ channel' \in ChannelType(Said) /\ Sound(channel')
        /\ channel'.nextId = channel.nextId
    BY <2>1, CommitSound DEF ChannelInv, SameEvents
  <2> QED  BY <1>3, <2>2 DEF ChannelInv
<1>7. CASE CallReset
  <2>1. /\ channel' \in ChannelType(Said) /\ Sound(channel')
        /\ channel'.nextId = channel.nextId
    BY <1>7, ResetSound DEF CallReset, ChannelInv
  <2> QED  BY <1>3, <2>1 DEF ChannelInv
<1>8. CASE UNCHANGED vars
  BY <1>3, <1>8 DEF vars, ChannelInv
<1> QED  BY <1>4, <1>5, <1>6, <1>7, <1>8 DEF Next

(***************************************************************************)
(* The inductive invariant of a channel whose clients call anything: its   *)
(* records are different events, at most one is pending, and the channel   *)
(* has the handle and the data of that one.                                *)
(***************************************************************************)
THEOREM ChannelInvariant ==
    ASSUME ~Overwrite
    PROVE  Spec => []ChannelInv
<1>1. Init => ChannelInv
  BY NewSound DEF Init, ChannelInv, Said
<1>2. ChannelInv /\ [Next]_vars => ChannelInv'
  BY ChannelStep
<1> QED  BY <1>1, <1>2, PTL DEF Spec

(***************************************************************************)
(* For every ring that refuses what does not fit, whatever the clients     *)
(* call in whatever order: neither assertion of                            *)
(* EventPendingCommitInternal fails, and EventEnumerate returns of each    *)
(* event what was last said of it.                                         *)
(***************************************************************************)
THEOREM ChannelShowsOwnData ==
    ASSUME ~Overwrite
    PROVE  Spec => [](CommitSucceeds /\ ShowsOwnData)
<1>1. ChannelInv => CommitSucceeds /\ ShowsOwnData
  BY SoundShows DEF ChannelInv
<1> QED  BY <1>1, ChannelInvariant, PTL

(***************************************************************************)
(* An event that EventLog cannot log costs no event that was logged.       *)
(***************************************************************************)
THEOREM ChannelFailureLosesOne ==
    ASSUME ~Overwrite
    PROVE  Spec => FailureLosesOne
<1>1. ChannelInv /\ [Next]_vars =>
        [channel'.nextId > channel.nextId /\ channel'.written = channel.written =>
           channel'.log = channel.log /\ channel'.pending = channel.pending
           /\ channel'.cache = channel.cache]_vars
  BY ChannelStep
<1> QED  BY <1>1, ChannelInvariant, PTL DEF Spec, FailureLosesOne
-----------------------------------------------------------------------------
(* The boot event log.                                                     *)

Attempted == phase \in {"loading", "running"}

OwnerType == [1 .. MaxId -> 0 .. MaxAttempts]
OutcomeType == [0 .. MaxAttempts -> Nat]

BootTypes ==
    /\ channel \in ChannelType(Nat) /\ Sound(channel)
    /\ attempt \in 0 .. MaxAttempts /\ EventAlreadyUpdated \in BOOLEAN
    /\ phase \in {"idle", "loading", "running", "failed", "summary", "done"}
    /\ owner \in OwnerType
    /\ outcome \in OutcomeType

\* Each event was started for an attempt, and what was last said of it is what
\* that attempt came to.
EventOwned(said, own, out, n, id) == own[id] \in 1 .. n /\ said[id] = out[own[id]]

Owned(c, own, out, n) ==
    \A i \in DOMAIN c.log : EventOwned(c.said, own, out, n, c.log[i].id)

\* The events of attempt n are the pending ones.
PendingOf(c, own, n) ==
    \A i \in DOMAIN c.log : c.log[i].pending <=> own[c.log[i].id] = n

\* An event is pending only while its attempt is under way; what the attempt
\* under way is taken to come to is the status its event started with, and no
\* later attempt came to anything.
BootInv ==
    /\ BootTypes
    /\ Owned(channel, owner, outcome, attempt)
    /\ ~Attempted => NonePending(channel)
    /\ Attempted => /\ outcome[attempt] = Status(attempt, OsLoaded)
                    /\ PendingOf(channel, owner, attempt)
    /\ phase = "loading" => EventAlreadyUpdated = FALSE
    /\ phase = "failed" => EventAlreadyUpdated = TRUE
    /\ \A a \in attempt + 1 .. MaxAttempts : outcome[a] = Status(a, NoDevices)

Updated(f, x, v) == [f EXCEPT ![x] = v]

LosesNone(c, d) ==
    d.nextId > c.nextId /\ d.written = c.written =>
        d.log = c.log /\ d.pending = c.pending /\ d.cache = c.cache

LEMMA StatusNat ==
    ASSUME NEW a \in Nat
    PROVE  /\ Status(a, OsLoaded) \in Nat /\ Status(a, LoadFailed) \in Nat
           /\ Status(a, ReturnedFailure) \in Nat /\ Status(a, NoDevices) \in Nat
BY DEF Status, OsLoaded, LoadFailed, ReturnedFailure, NoDevices

\* The next attempt m, whose event is x, leaves the other events as they are.
LEMMA OwnedKept ==
    ASSUME NEW own \in OwnerType, NEW out \in OutcomeType, NEW n \in Nat, NEW m, m = n + 1,
           NEW said, NEW id \in 1 .. MaxId, NEW x, id # x, NEW status,
           EventOwned(said, own, out, n, id),
           NEW own2, own2 = Updated(own, x, m), NEW out2, out2 = Updated(out, m, status)
    PROVE  EventOwned(said, own2, out2, m, id) /\ own2[id] # m
<1>1. own[id] \in 1 .. n /\ own[id] \in 0 .. MaxAttempts /\ said[id] = out[own[id]]
  BY DEF EventOwned, OwnerType
<1>2. own2[id] = own[id]
  BY DEF Updated, OwnerType
<1>3. own[id] # m /\ own[id] \in 1 .. m
  BY <1>1
<1>4. PICK a : a = own[id]
  OBVIOUS
<1>5. out2[a] = out[a]
  BY <1>1, <1>3, <1>4 DEF Updated, OutcomeType
<1> QED  BY <1>1, <1>2, <1>3, <1>4, <1>5, Zenon DEF EventOwned

\* The event of attempt n gets a new status, and so does the attempt.
LEMMA OwnedSaid ==
    ASSUME NEW own \in OwnerType, NEW out \in OutcomeType, NEW n \in 0 .. MaxAttempts,
           NEW said, NEW id \in 1 .. MaxId, NEW st, NEW pending,
           pending <=> own[id] = n, EventOwned(said, own, out, n, id),
           NEW said2, said2[id] = IF pending THEN st ELSE said[id],
           NEW out2, out2 = Updated(out, n, st)
    PROVE  EventOwned(said2, own, out2, n, id)
<1>1. PICK a : a = own[id]
  OBVIOUS
<1>2. a \in 1 .. n /\ a \in 0 .. MaxAttempts /\ said[id] = out[a]
  BY <1>1 DEF EventOwned, OwnerType
<1>3. out2[a] = IF a = n THEN st ELSE out[a]
  BY <1>2 DEF Updated, OutcomeType
<1>4. said2[id] = out2[a]
  BY <1>1, <1>2, <1>3
<1> QED  BY <1>1, <1>2, <1>4 DEF EventOwned

\* A new attempt: its event, if there is one, is the only pending one.
Starts(c, d, own, out, n, status) ==
    /\ c \in ChannelType(Nat) /\ Sound(c) /\ c.nextId <= MaxId /\ NonePending(c)
    /\ own \in OwnerType /\ out \in OutcomeType
    /\ n \in Nat /\ n < MaxAttempts /\ Owned(c, own, out, n)
    /\ status \in Nat /\ d \in ChannelType(Nat)
    /\ d = c \/ EventRefused(c, d) \/ EventAdded(c, d, TRUE, status)

LEMMA StartOwned ==
    ASSUME NEW c, NEW d, NEW own, NEW out, NEW n, NEW status,
           Starts(c, d, own, out, n, status),
           NEW m, m = n + 1, NEW own2, own2 = Updated(own, c.nextId, m),
           NEW out2, out2 = Updated(out, m, status)
    PROVE  /\ Owned(d, own2, out2, m) /\ PendingOf(d, own2, m)
           /\ own2 \in OwnerType
           /\ out2 \in OutcomeType
           /\ d.nextId \in {c.nextId, c.nextId + 1}
           /\ LosesNone(c, d)
<1>a. /\ c \in ChannelType(Nat) /\ d \in ChannelType(Nat)
      /\ Sound(c) /\ NonePending(c) /\ Owned(c, own, out, n)
  BY DEF Starts
<1>b. d = c \/ EventRefused(c, d) \/ EventAdded(c, d, TRUE, status)
  BY DEF Starts
<1>c. /\ n \in Nat /\ n < MaxAttempts /\ status \in Nat /\ c.nextId <= MaxId
      /\ own \in OwnerType /\ out \in OutcomeType
  BY DEF Starts
<1>1. /\ c.nextId \in 1 .. MaxId /\ c.written \in Nat /\ m \in 0 .. MaxAttempts
      /\ c.said \in [1 .. MaxId -> Nat] /\ MaxId \in Nat
  <2>1. /\ c.nextId \in 1 .. MaxId + 1 /\ c.written \in Nat
        /\ c.said \in [1 .. MaxId -> Nat]
    BY <1>a, CountersTyped
  <2>2. c.nextId \in 1 .. MaxId
    BY <1>c, <2>1, ChannelAssumption
  <2>3. m \in 0 .. MaxAttempts /\ m = n + 1
    BY <1>c, AttemptsAssumption
  <2> QED  BY <2>1, <2>2, <2>3, ChannelAssumption
<1>2. own2 \in OwnerType /\ out2 \in OutcomeType
  BY <1>1, <1>c DEF Updated, OwnerType, OutcomeType
<1>3. LosesNone(c, d) /\ d.nextId \in {c.nextId, c.nextId + 1}
  <2>1. CASE d = c
    BY <1>1, <2>1 DEF LosesNone
  <2>2. CASE EventRefused(c, d)
    BY <2>2 DEF LosesNone, EventRefused
  <2>3. CASE EventAdded(c, d, TRUE, status)
    <3>1. d.nextId = c.nextId + 1 /\ d.written = c.written + 1
      BY <2>3 DEF EventAdded
    <3>2. d.written # c.written
      BY <1>1, <3>1
    <3> QED  BY <3>1, <3>2 DEF LosesNone
  <2> QED  BY <1>b, <2>1, <2>2, <2>3, Zenon
<1>4. /\ DOMAIN c.log = 1 .. Len(c.log) /\ Len(c.log) \in Nat
      /\ DOMAIN d.log = 1 .. Len(d.log)
      /\ \A i \in DOMAIN c.log : c.log[i].id \in 1 .. MaxId
  BY <1>a, RecordsTyped
<1>5. \A i \in DOMAIN c.log :
         /\ EventOwned(c.said, own2, out2, m, c.log[i].id)
         /\ own2[c.log[i].id] # m /\ c.log[i].id # c.nextId /\ ~c.log[i].pending
  <2> SUFFICES ASSUME NEW i \in DOMAIN c.log
               PROVE  /\ EventOwned(c.said, own2, out2, m, c.log[i].id)
                      /\ own2[c.log[i].id] # m /\ c.log[i].id # c.nextId
                      /\ ~c.log[i].pending
    BY Zenon
  <2>1. PICK id : id = c.log[i].id
    OBVIOUS
  <2>2. id < c.nextId /\ id \in 1 .. MaxId
    BY <1>4, <1>a, <2>1, Zenon DEF Sound, SoundOf
  <2>3. id # c.nextId
    BY <1>1, <2>2
  <2>4. EventOwned(c.said, own, out, n, id) /\ ~c.log[i].pending
    BY <1>a, <2>1, Zenon DEF Owned, NonePending
  <2>5. EventOwned(c.said, own2, out2, m, id) /\ own2[id] # m
    BY <1>c, <2>2, <2>3, <2>4, OwnedKept
  <2> QED  BY <2>1, <2>3, <2>4, <2>5, Zenon
<1>6. CASE d = c \/ EventRefused(c, d)
  <2>1. d.log = c.log /\ d.said = c.said
    BY <1>6 DEF EventRefused
  <2>2. Owned(d, own2, out2, m)
    BY <1>5, <2>1, Zenon DEF Owned
  <2>3. PendingOf(d, own2, m)
    BY <1>5, <2>1, Zenon DEF PendingOf
  <2> QED  BY <1>2, <1>3, <2>2, <2>3
<1>7. CASE EventAdded(c, d, TRUE, status)
  <2>1. /\ DOMAIN d.log = 1 .. Len(c.log) + 1 /\ Len(d.log) = Len(c.log) + 1
        /\ d.log[Len(c.log) + 1].id = c.nextId /\ d.log[Len(c.log) + 1].pending = TRUE
        /\ \A i \in DOMAIN c.log : d.log[i].id = c.log[i].id /\ ~d.log[i].pending
        /\ d.said = [c.said EXCEPT ![c.nextId] = status]
    BY <1>4, <1>7 DEF EventAdded
  <2>2. own2[c.nextId] = m /\ out2[m] = status /\ d.said[c.nextId] = status
    <3>1. own2[c.nextId] = m /\ out2[m] = status
      BY <1>1, <1>c DEF Updated, OwnerType, OutcomeType
    <3>2. d.said = [c.said EXCEPT ![c.nextId] = status]
      BY <2>1
    <3>3. d.said[c.nextId] = status
      BY <1>1, <3>2
    <3> QED  BY <3>1, <3>3
  <2>3. ASSUME NEW i \in DOMAIN d.log
        PROVE  /\ EventOwned(d.said, own2, out2, m, d.log[i].id)
               /\ d.log[i].pending <=> own2[d.log[i].id] = m
    <3>1. PICK id : id = d.log[i].id
      OBVIOUS
    <3>2. CASE i = Len(c.log) + 1
      <4>1. m \in 1 .. m
        BY <1>c
      <4>2. id = c.nextId /\ d.log[i].pending = TRUE
        BY <2>1, <3>1, <3>2
      <4>3. EventOwned(d.said, own2, out2, m, id)
        BY <2>2, <4>1, <4>2, Zenon DEF EventOwned
      <4> QED  BY <2>2, <3>1, <4>2, <4>3
    <3>3. CASE i \in DOMAIN c.log
      <4>1. id = c.log[i].id /\ ~d.log[i].pending
        BY <2>1, <3>1, <3>3
      <4>2. /\ EventOwned(c.said, own2, out2, m, id) /\ own2[id] # m /\ id # c.nextId
            /\ id \in 1 .. MaxId
        BY <1>4, <1>5, <3>3, <4>1, Zenon
      <4>3. d.said = [c.said EXCEPT ![c.nextId] = status]
        BY <2>1
      <4>4. d.said[id] = c.said[id]
        BY <1>1, <4>2, <4>3
      <4>5. EventOwned(d.said, own2, out2, m, id)
        BY <4>2, <4>4, Zenon DEF EventOwned
      <4> QED  BY <3>1, <4>1, <4>2, <4>5
    <3>4. i \in DOMAIN c.log \/ i = Len(c.log) + 1
      BY <1>4, <2>1
    <3> QED  BY <3>2, <3>3, <3>4, Zenon
  <2>4. Owned(d, own2, out2, m) /\ PendingOf(d, own2, m)
    BY <2>3, Zenon DEF Owned, PendingOf
  <2> QED  BY <1>2, <1>3, <2>4
<1> QED  BY <1>b, <1>6, <1>7, Zenon

\* Completing the event of attempt n after saying st of it.
LEMMA CompleteOwned ==
    ASSUME NEW c \in ChannelType(Nat), Sound(c),
           NEW own \in OwnerType,
           NEW out \in OutcomeType,
           NEW n \in 0 .. MaxAttempts, Owned(c, own, out, n), PendingOf(c, own, n),
           NEW st \in Nat, NEW e, e = PendingUpdate(c, st),
           NEW d, d = EventPendingCommit(e) \/ d = ForceCommit(e),
           NEW out2, out2 = Updated(out, n, st)
    PROVE  /\ d \in ChannelType(Nat) /\ Sound(d) /\ NonePending(d) /\ d.nextId = c.nextId
           /\ Owned(d, own, out2, n)
<1>1. /\ e \in ChannelType(Nat) /\ Sound(e) /\ e.log = c.log /\ e.nextId = c.nextId
      /\ \A i \in DOMAIN c.log :
            e.said[c.log[i].id] = IF c.log[i].pending THEN st ELSE c.said[c.log[i].id]
  BY UpdateSound, SMTT(20)
<1>2. /\ d \in ChannelType(Nat) /\ Sound(d) /\ NonePending(d) /\ d.nextId = c.nextId
      /\ d.said = e.said /\ SameEvents(e, d)
  <2>1. /\ d \in ChannelType(Nat) /\ Sound(d) /\ NonePending(d) /\ d.said = e.said
        /\ SameEvents(e, d)
    BY <1>1, CommitSound, SMTT(20)
  <2> QED  BY <1>1, <2>1 DEF SameEvents
<1>3. ASSUME NEW i \in DOMAIN d.log
      PROVE  EventOwned(d.said, own, out2, n, d.log[i].id)
  <2>1. PICK id : id = c.log[i].id
    OBVIOUS
  <2>2. i \in DOMAIN c.log /\ d.log[i].id = id
    BY <1>1, <1>2, <2>1 DEF SameEvents
  <2>3. /\ EventOwned(c.said, own, out, n, id) /\ (c.log[i].pending <=> own[id] = n)
        /\ id \in 1 .. MaxId
    <3>1. \A j \in DOMAIN c.log : c.log[j].id \in 1 .. MaxId
      BY RecordsTyped
    <3> QED  BY <2>1, <2>2, <3>1, Zenon DEF Owned, PendingOf
  <2>4. d.said[id] = IF c.log[i].pending THEN st ELSE c.said[id]
    BY <1>1, <1>2, <2>1, <2>2, Zenon
  <2>5. EventOwned(d.said, own, out2, n, id)
    BY <2>3, <2>4, OwnedSaid
  <2> QED  BY <2>2, <2>5
<1> QED  BY <1>2, <1>3, Zenon DEF Owned

\* Completing it as it is.
LEMMA CommitOwned ==
    ASSUME NEW c \in ChannelType(Nat), Sound(c), NEW own, NEW out, NEW n,
           Owned(c, own, out, n), NEW d, d = EventPendingCommit(c) \/ d = ForceCommit(c)
    PROVE  /\ d \in ChannelType(Nat) /\ Sound(d) /\ NonePending(d) /\ d.nextId = c.nextId
           /\ Owned(d, own, out, n) /\ d.written = c.written
           /\ NonePending(c) => d = c
<1>1. /\ d \in ChannelType(Nat) /\ Sound(d) /\ NonePending(d) /\ d.said = c.said
      /\ SameEvents(c, d) /\ (c.pending.handle = INVALID_RING_HANDLE => d = c)
  BY CommitSound
<1>2. Owned(d, own, out, n)
  BY <1>1 DEF SameEvents, Owned
<1>3. NonePending(c) => c.pending.handle = INVALID_RING_HANDLE
  BY DEF Sound, SoundOf, NonePending
<1> QED  BY <1>1, <1>2, <1>3 DEF SameEvents

LEMMA BootLoadStep ==
    ASSUME ~Overwrite, BootInv, NEW total \in Totals, NEW menu \in BOOLEAN,
           OsLoaderLoad(total, menu)
    PROVE  BootInv' /\ LosesNone(channel, channel')
<1> DEFINE st == Status(attempt + 1, OsLoaded)
<1>1. /\ channel \in ChannelType(Nat) /\ Sound(channel) /\ channel.nextId <= MaxId
      /\ attempt \in Nat /\ attempt < MaxAttempts /\ attempt + 1 \in 0 .. MaxAttempts
      /\ NonePending(channel) /\ total \in Nat /\ st \in Nat
  <2>1. attempt \in 0 .. MaxAttempts /\ attempt < MaxAttempts /\ channel.nextId <= MaxId
    BY DEF OsLoaderLoad, MayStart, BootInv, BootTypes
  <2>2. attempt \in Nat /\ attempt + 1 \in 0 .. MaxAttempts /\ attempt + 1 \in Nat
    BY <2>1, AttemptsAssumption
  <2>3. NonePending(channel)
    BY DEF OsLoaderLoad, BootInv, Attempted
  <2> QED  BY <2>1, <2>2, <2>3, StatusNat, ChannelAssumption DEF BootInv, BootTypes
<1>2. /\ channel' \in ChannelType(Nat) /\ Sound(channel')
      /\ \/ channel' = channel \/ EventRefused(channel, channel')
         \/ EventAdded(channel, channel', TRUE, st)
  <2>1. channel' = channel \/ channel' \in EventLog(channel, total, TRUE, st)
    BY Zenon DEF OsLoaderLoad, BootDeviceEventStart
  <2> HIDE DEF st
  <2> QED  BY <1>1, <2>1, EventLogSound, Zenon
<1>3. /\ owner' = Updated(owner, channel.nextId, attempt + 1)
      /\ outcome' = Updated(outcome, attempt + 1, st)
      /\ attempt' = attempt + 1 /\ phase' = "loading" /\ EventAlreadyUpdated' = FALSE
  BY DEF OsLoaderLoad, Updated
<1> HIDE DEF st
<1>4. /\ Owned(channel', owner', outcome', attempt + 1)
      /\ PendingOf(channel', owner', attempt + 1)
      /\ owner' \in OwnerType
      /\ outcome' \in OutcomeType
      /\ LosesNone(channel, channel')
  <2>1. /\ owner \in OwnerType
        /\ outcome \in OutcomeType /\ Owned(channel, owner, outcome, attempt)
    BY DEF BootInv, BootTypes
  <2>2. Starts(channel, channel', owner, outcome, attempt, st)
    BY <1>1, <1>2, <2>1, Zenon DEF Starts
  <2> QED  BY <1>3, <2>2, StartOwned
<1>5. BootTypes'
  BY <1>1, <1>2, <1>3, <1>4, Zenon DEF BootTypes
<1>6. outcome'[attempt'] = Status(attempt', OsLoaded)
  <2>1. outcome \in OutcomeType
    BY DEF BootInv, BootTypes
  <2> QED  BY <1>1, <1>3, <2>1 DEF st, Updated, OutcomeType
<1>7. \A a \in attempt' + 1 .. MaxAttempts : outcome'[a] = Status(a, NoDevices)
  <2>1. /\ outcome \in OutcomeType
        /\ \A a \in attempt + 1 .. MaxAttempts : outcome[a] = Status(a, NoDevices)
    BY DEF BootInv, BootTypes
  <2>2. \A a \in attempt' + 1 .. MaxAttempts :
           a \in attempt + 1 .. MaxAttempts /\ a # attempt + 1 /\ a \in 0 .. MaxAttempts
    BY <1>1, <1>3, AttemptsAssumption
  <2>3. \A a \in attempt' + 1 .. MaxAttempts : outcome'[a] = outcome[a]
    BY <1>3, <2>1, <2>2 DEF Updated
  <2> QED  BY <2>1, <2>2, <2>3
<1>8. (~Attempted => NonePending(channel))'
  BY <1>3 DEF Attempted
<1>9. /\ phase' = "loading" => EventAlreadyUpdated' = FALSE
      /\ phase' = "failed" => EventAlreadyUpdated' = TRUE
  BY <1>3
<1>10. Owned(channel', owner', outcome', attempt') /\ PendingOf(channel', owner', attempt')
  BY <1>3, <1>4
<1> QED  BY <1>4, <1>5, <1>6, <1>7, <1>8, <1>9, <1>10 DEF BootInv

\* The attempt under way ends with st, and its event is completed.
LEMMA BootEndStep ==
    ASSUME BootInv, Attempted, NEW st \in Nat, NEW e, e = PendingUpdate(channel, st),
           channel' = EventPendingCommit(e) \/ channel' = ForceCommit(e),
           outcome' = Updated(outcome, attempt, st),
           phase' \in {"idle", "failed", "done"}, UNCHANGED <<attempt, owner>>,
           EventAlreadyUpdated' \in BOOLEAN,
           phase' = "failed" => EventAlreadyUpdated' = TRUE
    PROVE  BootInv' /\ LosesNone(channel, channel')
<1>1. /\ channel \in ChannelType(Nat) /\ Sound(channel) /\ attempt \in 0 .. MaxAttempts
      /\ owner \in OwnerType
      /\ outcome \in OutcomeType /\ Owned(channel, owner, outcome, attempt)
      /\ PendingOf(channel, owner, attempt)
  BY DEF BootInv, BootTypes
<1>2. /\ channel' \in ChannelType(Nat) /\ Sound(channel') /\ NonePending(channel')
      /\ channel'.nextId = channel.nextId /\ Owned(channel', owner, outcome', attempt)
  BY <1>1, CompleteOwned
<1>3. outcome' \in OutcomeType
  BY <1>1 DEF Updated, OutcomeType
<1>4. BootTypes'
  BY <1>1, <1>2, <1>3 DEF BootTypes
<1>5. \A a \in attempt' + 1 .. MaxAttempts : outcome'[a] = Status(a, NoDevices)
  <2>1. \A a \in attempt + 1 .. MaxAttempts : outcome[a] = Status(a, NoDevices)
    BY DEF BootInv
  <2>2. \A a \in attempt + 1 .. MaxAttempts : a # attempt /\ a \in 0 .. MaxAttempts
    BY <1>1, AttemptsAssumption
  <2>3. \A a \in attempt + 1 .. MaxAttempts : outcome'[a] = outcome[a]
    BY <1>1, <2>2 DEF Updated
  <2> QED  BY <2>1, <2>3
<1>6. ~Attempted' /\ phase' # "loading"
  BY DEF Attempted
<1>7. Owned(channel', owner', outcome', attempt')
  BY <1>2
<1>8. LosesNone(channel, channel')
  BY <1>1, <1>2 DEF LosesNone, ChannelType
<1> QED  BY <1>2, <1>4, <1>5, <1>6, <1>7, <1>8 DEF BootInv

\* The summary, and the event that says that there is no device.
LEMMA BootSummaryStep ==
    ASSUME ~Overwrite, BootInv, NEW total \in Totals, GenerateBootSummary(total)
    PROVE  BootInv' /\ LosesNone(channel, channel')
<1> DEFINE st == Status(attempt + 1, NoDevices)
<1>1. /\ channel \in ChannelType(Nat) /\ Sound(channel) /\ channel.nextId <= MaxId
      /\ attempt \in 0 .. MaxAttempts /\ attempt < MaxAttempts
      /\ NonePending(channel) /\ Owned(channel, owner, outcome, attempt)
      /\ owner \in OwnerType
      /\ outcome \in OutcomeType
  <2>1. channel.nextId <= MaxId /\ attempt < MaxAttempts /\ NonePending(channel)
    BY DEF GenerateBootSummary, MayStart, BootInv, Attempted
  <2> QED  BY <2>1 DEF BootInv, BootTypes
<1>2. /\ attempt \in Nat /\ attempt + 1 \in 0 .. MaxAttempts /\ total \in Nat /\ st \in Nat
      /\ channel.nextId \in Nat
  <2>1. attempt \in Nat /\ attempt + 1 \in 0 .. MaxAttempts /\ attempt + 1 \in Nat
    BY <1>1, AttemptsAssumption
  <2> QED  BY <1>1, <2>1, StatusNat, ChannelAssumption DEF ChannelType
<1>3. /\ phase' = "summary" /\ outcome' = outcome /\ EventAlreadyUpdated' = EventAlreadyUpdated
      /\ EventAlreadyUpdated \in BOOLEAN
  BY DEF GenerateBootSummary, BootInv, BootTypes
<1>4. \A a \in attempt + 1 .. MaxAttempts : outcome[a] = Status(a, NoDevices)
  BY DEF BootInv
<1>5. CASE channel.written = 0
  <2>1. PICK c \in BootDeviceEventStart(channel, total, st) :
             channel' = Flushed(BootDeviceEventComplete(c))
    BY <1>5 DEF GenerateBootSummary
  <2>2. attempt' = attempt + 1 /\ owner' = Updated(owner, channel.nextId, attempt + 1)
    BY <1>5 DEF GenerateBootSummary, Updated
  <2>3. c = channel \/ c \in EventLog(channel, total, TRUE, st)
    BY <2>1, Zenon DEF BootDeviceEventStart
  <2>4. st = outcome[attempt + 1]
    BY <1>1, <1>2, <1>4
  <2> HIDE DEF st
  <2>5. /\ c \in ChannelType(Nat) /\ Sound(c)
        /\ c = channel \/ EventRefused(channel, c) \/ EventAdded(channel, c, TRUE, st)
    BY <1>1, <1>2, <2>3, EventLogSound, Zenon
  <2>6. outcome = Updated(outcome, attempt + 1, st)
    BY <1>1, <1>2, <2>4 DEF Updated, OutcomeType
  <2>7. /\ Owned(c, owner', outcome, attempt + 1) /\ LosesNone(channel, c)
        /\ owner' \in OwnerType
    <3>1. Starts(channel, c, owner, outcome, attempt, st)
      BY <1>1, <1>2, <2>5, Zenon DEF Starts
    <3>2. owner' = Updated(owner, channel.nextId, attempt + 1)
      BY <2>2
    <3>3. PICK own2, out2, m :
               /\ m = attempt + 1 /\ own2 = Updated(owner, channel.nextId, m)
               /\ out2 = Updated(outcome, m, st)
      OBVIOUS
    <3>4. /\ Owned(c, own2, out2, m) /\ LosesNone(channel, c)
          /\ own2 \in OwnerType
      BY <3>1, <3>3, StartOwned
    <3> QED  BY <2>6, <3>2, <3>3, <3>4, Zenon
  <2> DEFINE m == EventPendingCommit(c)
  <2>8. channel' = ForceCommit(m)
    BY <2>1 DEF Flushed, BootDeviceEventComplete
  <2>9. /\ m \in ChannelType(Nat) /\ Sound(m) /\ NonePending(m) /\ m.nextId = c.nextId
        /\ Owned(m, owner', outcome, attempt + 1) /\ m.written = c.written
        /\ NonePending(c) => m = c
    BY <2>5, <2>7, CommitOwned
  <2> HIDE DEF m
  <2>10. channel' = m
    BY <2>8, <2>9, CommitOwned
  <2>11. LosesNone(channel, channel')
    <3>1. CASE c = channel \/ EventRefused(channel, c)
      <4>1. NonePending(c)
        BY <1>1, <3>1 DEF EventRefused, NonePending
      <4> QED  BY <2>7, <2>9, <2>10, <4>1
    <3>2. CASE EventAdded(channel, c, TRUE, st)
      <4>1. m.written = channel.written + 1 /\ channel.written \in Nat
        BY <1>1, <2>9, <3>2 DEF EventAdded, ChannelType
      <4>2. channel'.written # channel.written
        BY <2>10, <4>1
      <4> QED  BY <4>2 DEF LosesNone
    <3> QED  BY <2>5, <3>1, <3>2, Zenon
  <2>12. BootTypes'
    BY <1>1, <1>2, <1>3, <2>2, <2>7, <2>9, <2>10 DEF BootTypes
  <2>13. \A a \in attempt' + 1 .. MaxAttempts : outcome'[a] = Status(a, NoDevices)
    BY <1>2, <1>3, <1>4, <2>2, AttemptsAssumption
  <2>14. ~Attempted' /\ phase' \notin {"loading", "failed"}
    BY <1>3 DEF Attempted
  <2>15. Owned(channel', owner', outcome', attempt') /\ NonePending(channel')
    BY <1>3, <2>2, <2>9, <2>10
  <2> QED  BY <2>11, <2>12, <2>13, <2>14, <2>15 DEF BootInv
<1>6. CASE channel.written # 0
  <2>1. channel' = ForceCommit(channel) /\ UNCHANGED <<attempt, owner>>
    BY <1>6 DEF GenerateBootSummary, Flushed
  <2>2. channel' = channel
    BY <1>1, <2>1, CommitOwned
  <2>3. ~Attempted' /\ phase' \notin {"loading", "failed"}
    BY <1>3 DEF Attempted
  <2>4. BootTypes'
    BY <1>1, <1>3, <2>1, <2>2 DEF BootTypes
  <2>5. LosesNone(channel, channel')
    BY <1>2, <2>2 DEF LosesNone
  <2> QED  BY <1>1, <1>3, <1>4, <2>1, <2>2, <2>3, <2>4, <2>5 DEF BootInv
<1> QED  BY <1>5, <1>6

LEMMA BootStep ==
    ASSUME ~Overwrite, BootInv, [BootNext]_bvars
    PROVE  BootInv' /\ LosesNone(channel, channel')
<1>1. /\ channel \in ChannelType(Nat) /\ Sound(channel) /\ attempt \in 0 .. MaxAttempts
      /\ Owned(channel, owner, outcome, attempt) /\ attempt \in Nat
      /\ outcome \in OutcomeType /\ channel.nextId \in Nat
      /\ EventAlreadyUpdated \in BOOLEAN
  <2>1. /\ channel \in ChannelType(Nat) /\ Sound(channel) /\ attempt \in 0 .. MaxAttempts
        /\ Owned(channel, owner, outcome, attempt) /\ outcome \in OutcomeType
        /\ EventAlreadyUpdated \in BOOLEAN
    BY Zenon DEF BootInv, BootTypes
  <2>2. channel.nextId \in 1 .. MaxId + 1
    BY <2>1, Zenon DEF ChannelType
  <2> QED  BY <2>1, <2>2, AttemptsAssumption, ChannelAssumption
<1>2. ASSUME NEW total \in Totals, NEW menu \in BOOLEAN, OsLoaderLoad(total, menu)
      PROVE  BootInv' /\ LosesNone(channel, channel')
  BY <1>2, BootLoadStep
<1>3. CASE LoadError
  <2>1. CASE EventAlreadyUpdated
    <3>1. phase = "failed" /\ phase' = "failed" /\ EventAlreadyUpdated' = TRUE
      BY <1>3, <2>1 DEF LoadError, BootInv
    <3>2. channel' = channel /\ UNCHANGED <<attempt, owner, outcome>>
      BY <1>3, <2>1 DEF LoadError
    <3>3. ~Attempted /\ ~Attempted'
      BY <3>1 DEF Attempted
    <3>4. BootTypes'
      BY <3>1, <3>2 DEF BootInv, BootTypes
    <3>5. LosesNone(channel, channel')
      BY <1>1, <3>2 DEF LosesNone
    <3> QED  BY <3>1, <3>2, <3>3, <3>4, <3>5 DEF BootInv
  <2>2. CASE ~EventAlreadyUpdated
    <3>1. Attempted /\ phase' = "failed" /\ EventAlreadyUpdated' = TRUE
      BY <1>3, <2>2 DEF LoadError, BootInv, Attempted
    <3> DEFINE st == Status(attempt, LoadFailed)
               e == PendingUpdate(channel, st)
    <3>2. /\ channel' = EventPendingCommit(e) /\ outcome' = Updated(outcome, attempt, st)
          /\ UNCHANGED <<attempt, owner>>
      BY <1>3, <2>2 DEF LoadError, BootDeviceEventComplete, BootDeviceEventUpdate, Updated
    <3>3. st \in Nat
      BY <1>1, StatusNat
    <3> HIDE DEF st, e
    <3>4. e = PendingUpdate(channel, st)
      BY DEF e
    <3> QED  BY <3>1, <3>2, <3>3, <3>4, BootEndStep
  <2> QED  BY <1>1, <2>1, <2>2
<1>4. CASE StartImage
  <2>1. /\ phase = "loading" /\ phase' = "running" /\ channel' = channel
        /\ UNCHANGED <<attempt, owner, outcome, EventAlreadyUpdated>>
    BY <1>4 DEF StartImage, vars
  <2>2. Attempted /\ Attempted'
    BY <2>1 DEF Attempted
  <2>3. BootTypes'
    BY <2>1 DEF BootInv, BootTypes
  <2>4. LosesNone(channel, channel')
    BY <1>1, <2>1 DEF LosesNone
  <2> QED  BY <2>1, <2>2, <2>3, <2>4 DEF BootInv
<1>5. CASE BootOptionFailed
  <2> DEFINE st == Status(attempt, ReturnedFailure)
             e == PendingUpdate(channel, st)
  <2>1. /\ channel' = EventPendingCommit(e) /\ outcome' = Updated(outcome, attempt, st)
        /\ UNCHANGED <<attempt, owner, EventAlreadyUpdated>>
        /\ phase = "running" /\ phase' = "idle"
    BY <1>5 DEF BootOptionFailed, BootDeviceEventComplete, BootDeviceEventUpdate, Updated
  <2>2. st \in Nat /\ Attempted
    BY <1>1, <2>1, StatusNat DEF Attempted
  <2> HIDE DEF st, e
  <2>3. e = PendingUpdate(channel, st)
    BY DEF e
  <2> QED  BY <1>1, <2>1, <2>2, <2>3, BootEndStep
<1>6. CASE BootOptionComplete
  <2>1. /\ channel' = EventPendingCommit(channel) /\ phase' = "idle"
        /\ UNCHANGED <<attempt, owner, outcome, EventAlreadyUpdated>>
    BY <1>6 DEF BootOptionComplete, BootDeviceEventComplete
  <2>2. /\ channel' \in ChannelType(Nat) /\ Sound(channel') /\ NonePending(channel')
        /\ Owned(channel', owner, outcome, attempt) /\ channel'.nextId = channel.nextId
    BY <1>1, <2>1, CommitOwned
  <2>3. ~Attempted' /\ phase' \notin {"loading", "failed"}
    BY <2>1 DEF Attempted
  <2>4. BootTypes'
    BY <2>1, <2>2 DEF BootInv, BootTypes
  <2>5. LosesNone(channel, channel')
    BY <1>1, <2>2 DEF LosesNone
  <2> QED  BY <2>1, <2>2, <2>3, <2>4, <2>5 DEF BootInv
<1>7. CASE ExitBootServices
  <2> DEFINE st == Status(attempt, OsLoaded)
             e == PendingUpdate(channel, st)
  <2>1. /\ channel' = ForceCommit(e) /\ phase = "running" /\ phase' = "done"
        /\ UNCHANGED <<attempt, owner, outcome, EventAlreadyUpdated>>
    BY <1>7 DEF ExitBootServices, Flushed, BootDeviceEventUpdate
  <2>2. st \in Nat /\ Attempted
    BY <1>1, <2>1, StatusNat DEF Attempted
  <2>3. outcome[attempt] = st
    BY <2>2 DEF BootInv
  <2> HIDE DEF st, e
  <2>4. outcome' = Updated(outcome, attempt, st)
    BY <1>1, <2>1, <2>3 DEF Updated, OutcomeType
  <2>5. e = PendingUpdate(channel, st)
    BY DEF e
  <2> QED  BY <1>1, <2>1, <2>2, <2>4, <2>5, BootEndStep, Zenon
<1>8. ASSUME NEW total \in Totals, GenerateBootSummary(total)
      PROVE  BootInv' /\ LosesNone(channel, channel')
  BY <1>8, BootSummaryStep
<1>9. CASE DisplayBootSummary
  <2>1. /\ channel' = EventChannelReset(channel) /\ phase' = "idle"
        /\ UNCHANGED <<attempt, owner, outcome, EventAlreadyUpdated>>
    BY <1>9 DEF DisplayBootSummary
  <2>2. /\ channel' \in ChannelType(Nat) /\ Sound(channel') /\ channel'.log = <<>>
        /\ channel'.nextId = channel.nextId
    BY <1>1, <2>1, ResetSound, SMTT(20)
  <2>3. NonePending(channel') /\ Owned(channel', owner, outcome, attempt)
    <3>1. DOMAIN channel'.log = {}
      BY <2>2
    <3> QED  BY <3>1, Zenon DEF NonePending, Owned
  <2>4. ~Attempted' /\ phase' \notin {"loading", "failed"}
    BY <2>1 DEF Attempted
  <2>5. BootTypes'
    BY <2>1, <2>2 DEF BootInv, BootTypes
  <2>6. LosesNone(channel, channel')
    BY <1>1, <2>2 DEF LosesNone
  <2> QED  BY <2>1, <2>3, <2>4, <2>5, <2>6 DEF BootInv
<1>10. CASE UNCHANGED bvars
  <2>1. channel' = channel /\ UNCHANGED <<attempt, phase, EventAlreadyUpdated, owner, outcome>>
    BY <1>10 DEF bvars, vars, boot
  <2>2. BootTypes' /\ Attempted' = Attempted
    BY <2>1 DEF BootInv, BootTypes, Attempted
  <2>3. LosesNone(channel, channel')
    BY <1>1, <2>1 DEF LosesNone
  <2> QED  BY <2>1, <2>2, <2>3 DEF BootInv
<1> QED  BY <1>2, <1>3, <1>4, <1>5, <1>6, <1>7, <1>8, <1>9, <1>10 DEF BootNext

(***************************************************************************)
(* The inductive invariant of the boot channel: besides, every record is   *)
(* the event of an attempt and shows what that one came to, and the record *)
(* that is pending is that of the attempt under way.                       *)
(***************************************************************************)
THEOREM BootInvariant ==
    ASSUME ~Overwrite
    PROVE  BootSpec => []BootInv
<1>1. BootInit => BootInv
  <2> SUFFICES ASSUME BootInit PROVE BootInv
    OBVIOUS
  <2>1. channel \in ChannelType(Nat) /\ Sound(channel)
    BY NewSound DEF BootInit, Init
  <2>2. channel.log = <<>>
    BY DEF BootInit, Init, NewChannel
  <2>3. /\ attempt = 0 /\ phase = "idle" /\ EventAlreadyUpdated = FALSE
        /\ owner \in OwnerType
    BY AttemptsAssumption DEF BootInit, OwnerType
  <2>4. /\ outcome = [a \in 0 .. MaxAttempts |-> Status(a, NoDevices)]
        /\ \A a \in 0 .. MaxAttempts : Status(a, NoDevices) \in Nat
    <3>1. \A a \in 0 .. MaxAttempts : a \in Nat
      BY AttemptsAssumption
    <3> QED  BY <3>1, StatusNat DEF BootInit
  <2>5. BootTypes
    <3>1. outcome \in OutcomeType /\ attempt \in 0 .. MaxAttempts
      BY <2>3, <2>4, AttemptsAssumption DEF OutcomeType
    <3> QED  BY <2>1, <2>3, <3>1, Zenon DEF BootTypes
  <2>6. NonePending(channel) /\ Owned(channel, owner, outcome, attempt)
    BY <2>2 DEF NonePending, Owned
  <2>7. \A a \in attempt + 1 .. MaxAttempts : outcome[a] = Status(a, NoDevices)
    BY <2>3, <2>4, AttemptsAssumption
  <2> QED  BY <2>3, <2>5, <2>6, <2>7 DEF BootInv, Attempted
<1>2. BootInv /\ [BootNext]_bvars => BootInv'
  BY BootStep
<1> QED  BY <1>1, <1>2, PTL DEF BootSpec

(***************************************************************************)
(* For every size of the boot ring and of events and every number of       *)
(* attempts: whichever of load errors, returns, exits and summaries the    *)
(* boot manager reports, an event that is complete says what its own       *)
(* attempt came to, a pending one shows what was last said of it, and      *)
(* completing it never fails.                                              *)
(***************************************************************************)
THEOREM BootOutcomesLogged ==
    ASSUME ~Overwrite
    PROVE  BootSpec => []EventOutcomesLogged
<1>1. BootInv => EventOutcomesLogged
  <2> SUFFICES ASSUME BootInv PROVE EventOutcomesLogged
    OBVIOUS
  <2>1. channel \in ChannelType(Nat) /\ Sound(channel)
    BY DEF BootInv, BootTypes
  <2>2. CommitSucceeds /\ ShowsOwnData
    BY <2>1, SoundShows
  <2>3. OutcomesLogged
    <3> SUFFICES ASSUME NEW r \in Records, ~r.pending
                 PROVE  r.status = outcome[owner[r.id]]
      BY DEF OutcomesLogged
    <3>1. PICK i \in DOMAIN channel.log : r = channel.log[i]
      BY DEF Records
    <3> QED  BY <2>1, <3>1 DEF BootInv, Owned, EventOwned, Sound, SoundOf
  <2> QED  BY <2>2, <2>3 DEF EventOutcomesLogged
<1> QED  BY <1>1, BootInvariant, PTL

(***************************************************************************)
(* A boot event that cannot be logged costs no other one: neither those in *)
(* the log, nor the pending one and its data.                              *)
(***************************************************************************)
THEOREM BootFailureLosesOne ==
    ASSUME ~Overwrite
    PROVE  BootSpec => FailureLosesOne
<1>1. BootInv /\ [BootNext]_bvars =>
        [channel'.nextId > channel.nextId /\ channel'.written = channel.written =>
           channel'.log = channel.log /\ channel'.pending = channel.pending
           /\ channel'.cache = channel.cache]_vars
  BY BootStep DEF LosesNone
<1> QED  BY <1>1, BootInvariant, PTL DEF BootSpec, FailureLosesOne
=============================================================================
