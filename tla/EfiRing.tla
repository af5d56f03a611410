------------------------------- MODULE EfiRing ------------------------------
(***************************************************************************)
(* The ring buffer behind an event channel (MsvmPkg/EventLogDxe/EfiRing.c):*)
(* records of any size, each after a header that must not be split by the  *)
(* end of the buffer, handles that carry a key, and enumeration.           *)
(*                                                                         *)
(* A byte of the buffer is known by the record it was written for and its  *)
(* place in it.  The size in a header can be read iff the bytes of one     *)
(* header stand where it is read; anything else is a corrupt header.       *)
(***************************************************************************)
EXTENDS Integers, Sequences, SequencesExt

CONSTANTS Size,           \* of the buffer, a power of two
          HeaderSize,     \* sizeof(RING_RECORD)
          Totals,         \* sizes of records with their headers
          Overwrite,      \* RING_BUFFER_OVERWRITE
          Word,           \* 2^32, the range of UINT32
          MaxId,          \* bound on the records ever written
          KeepsHandles    \* whether clients remember handles over a reset

RingConstants ==
    /\ HeaderSize \in Nat \ {0} /\ Size \in Nat /\ Size > HeaderSize
    /\ Totals \subseteq Nat /\ \A t \in Totals : t >= HeaderSize
    /\ Overwrite \in BOOLEAN /\ KeepsHandles \in BOOLEAN /\ MaxId \in Nat /\ Word \in Nat /\ Word > 2 * Size

VARIABLES RingHead, RingTail, HandleKey, Buffer,
          nextId,         \* identifies what is written next
          log,            \* what the ring should hold, see RecordLog
          issued,         \* data handles returned since the last reset
          retired,        \* data handles returned before it
          Enumerator, seen  \* a client's enumeration: its handle and the ids so far

ring   == <<RingHead, RingTail, HandleKey, Buffer>>
client == <<issued, retired, Enumerator, seen>>
vars   == <<ring, nextId, log, client>>

Log == INSTANCE RecordLog WITH Capacity <- Size - 1

Offsets == 0 .. Size - 1

Mask(n) == n % Size

\* Byte k of record id, whose header says total; no record has id 0.
Byte(id, k, total) == [id |-> id, k |-> k, total |-> total]
Junk == Byte(0, 0, 0)

Handle(offset, key, id) == [offset |-> offset, key |-> key, id |-> id]
INVALID_RING_HANDLE == Handle(Word - 1, Word - 1, 0)

Init ==
    /\ RingHead = 0 /\ RingTail = 0 /\ HandleKey = 0
    /\ Buffer = [o \in Offsets |-> Junk]
    /\ nextId = 1 /\ log = <<>> /\ issued = {} /\ retired = {}
    /\ Enumerator = INVALID_RING_HANDLE /\ seen = <<>>
-----------------------------------------------------------------------------
\* Mutant: the byte that tells full from empty is used.
BytesFreeAll(head, tail) ==
    LET n == (tail - head) % Word IN IF n < Size THEN n ELSE (Size + n) % Word

RingBufferBytesFree(head, tail) ==
    LET bytesFree == (tail - head - 1) % Word
    IN  IF bytesFree < Size THEN bytesFree ELSE (Size + bytesFree) % Word

RingBufferWrapIfNeeded(offset) == IF Size - offset < HeaderSize THEN 0 ELSE offset

ValidOffset(offset, head, tail) ==
    ~(offset > Size \/ (offset >= head /\ offset < tail))

\* The header at an offset; 0 for one that is corrupt.
SizeAt(buffer, offset) ==
    LET b == buffer[offset] IN
    IF /\ b.id # 0
       /\ \A k \in 0 .. HeaderSize - 1 : buffer[Mask(offset + k)] = Byte(b.id, k, b.total)
    THEN b.total ELSE 0

\* RingBufferRecordAt on a ring s: the record's offset and size, or an error.
NoRecord == [ok |-> FALSE, offset |-> 0, total |-> 0]
RingBufferRecordAt(s, offset) ==
    LET at    == RingBufferWrapIfNeeded(offset)
        total == SizeAt(s.buffer, at)
        next  == Mask(at + total)
    IN  IF \/ ~ValidOffset(offset, s.head, s.tail)
           \/ s.head = s.tail
           \/ total > Size - 1 \/ total < HeaderSize
           \/ next <= at /\ next > s.head
        THEN NoRecord
        ELSE [ok |-> TRUE, offset |-> at, total |-> total]

Ring == [head |-> RingHead, tail |-> RingTail, key |-> HandleKey, buffer |-> Buffer]

\* Zero is reserved for a ring that was reset.
Nonzero(key) == IF key = 0 THEN 1 ELSE key

Filled(buffer, at, total) ==
    [o \in Offsets |-> IF Mask(o - at) < total THEN Junk ELSE buffer[o]]

\* Mutant: handles survive a removal.
RemoveOldestKeepsKey(s) ==
    LET r == RingBufferRecordAt(s, s.tail) IN
    [s EXCEPT !.tail = Mask(r.offset + r.total),
              !.buffer = Filled(@, r.offset, r.total)]

\* The oldest record is removed: it is filled (all of it in a debug build, its
\* header in every build) and handles become invalid.
RemoveOldest(s) ==
    LET r == RingBufferRecordAt(s, s.tail) IN
    [s EXCEPT !.key = Nonzero((@ + 1) % Word),
              !.tail = Mask(r.offset + r.total),
              !.buffer = Filled(@, r.offset, r.total)]

\* No ring holds more records.
MaxRecords == Size \div HeaderSize

\* The loop of RingBufferReserve in overwrite mode.
MakeRoom(total) ==
    LET after[n \in 0 .. MaxRecords] ==
            IF n = 0 THEN Ring
            ELSE LET s == after[n - 1] IN
                 IF /\ RingBufferBytesFree(s.head, s.tail) < total
                    /\ RingBufferRecordAt(s, s.tail).ok
                 THEN RemoveOldest(s) ELSE s
    IN  after[MaxRecords]

Refused(total) ==
    \/ total > Size - 1
    \/ ~Overwrite /\ RingBufferBytesFree(RingHead, RingTail) < total

\* The data of a record, which may run past the end of the buffer.
Written(buffer, at, total, id) ==
    [o \in Offsets |->
        IF Mask(o - at) \in HeaderSize .. total - 1
        THEN Byte(id, Mask(o - at), total) ELSE buffer[o]]

WithHeader(buffer, at, total, id) ==
    [o \in Offsets |-> IF o \in at .. at + HeaderSize - 1
                       THEN Byte(id, o - at, total) ELSE buffer[o]]

\* RingBufferReserve writes the header and leaves the data as it was;
\* RingBufferAdd, with data, writes the data as well.
RingBufferReserve(total, withData) ==
    /\ nextId <= MaxId
    /\ nextId' = nextId + 1
    /\ log' = Log!Added(log, [id |-> nextId, total |-> total])
    /\ IF Refused(total) THEN UNCHANGED <<ring, issued>>
       ELSE LET s      == MakeRoom(total)
                at     == RingBufferWrapIfNeeded(s.head)
                key    == Nonzero(s.key)
                header == WithHeader(s.buffer, at, total, nextId)
            IN  /\ RingHead' = Mask(at + total)
                /\ RingTail' = s.tail
                /\ HandleKey' = key
                /\ Buffer' = IF withData THEN Written(header, at, total, nextId)
                             ELSE header
                /\ issued' = issued \cup {Handle(at, key, nextId)}
    /\ UNCHANGED <<retired, Enumerator, seen>>

\* RingBufferHandleIsValid.
RingBufferHandleIsValid(h) ==
    h.key = HandleKey /\ RingBufferRecordAt(Ring, h.offset).ok

\* RingBufferIo, DataWrite of all the data of the record.
RingBufferIo(h) ==
    /\ RingBufferHandleIsValid(h)
    /\ LET r == RingBufferRecordAt(Ring, h.offset)
       IN  Buffer' = Written(Buffer, r.offset, r.total, h.id)
    /\ UNCHANGED <<RingHead, RingTail, HandleKey, nextId, log, client>>

\* Clients start over with an enumeration; they may still hold data handles.
RingBufferReset ==
    /\ RingHead' = 0 /\ RingTail' = 0 /\ HandleKey' = 0
    /\ retired' = IF KeepsHandles THEN retired \cup issued ELSE {}
    /\ issued' = {} /\ log' = <<>>
    /\ Enumerator' = INVALID_RING_HANDLE /\ seen' = <<>>
    /\ UNCHANGED <<Buffer, nextId>>

\* RingBufferHandleEnumerate: the next record, or the end of the enumeration
\* (no more records, or the enumerator is no longer valid).
RingBufferHandleEnumerate ==
    LET start  == Enumerator = INVALID_RING_HANDLE
        offset == IF start THEN RingTail ELSE Enumerator.offset
        r      == RingBufferRecordAt(Ring, offset)
    IN  /\ IF (start \/ Enumerator.key = HandleKey) /\ offset # RingHead /\ r.ok
           THEN /\ Enumerator' = Handle(Mask(r.offset + r.total), Nonzero(HandleKey), 0)
                /\ HandleKey' = Nonzero(HandleKey)
                /\ seen' = Append(seen, Buffer[r.offset].id)
           ELSE /\ Enumerator' = INVALID_RING_HANDLE /\ seen' = <<>>
                /\ UNCHANGED HandleKey
        /\ UNCHANGED <<RingHead, RingTail, Buffer, nextId, log, issued, retired>>

Next ==
    \/ \E total \in Totals, withData \in BOOLEAN : RingBufferReserve(total, withData)
    \/ \E h \in issued : RingBufferIo(h)
    \/ RingBufferReset
    \/ RingBufferHandleEnumerate
Spec == Init /\ [][Next]_vars
-----------------------------------------------------------------------------
\* The records from the oldest on, found as RingBufferFlatten finds them; stops
\* short at a corrupt header.
Walk ==
    LET upTo[n \in 0 .. MaxRecords] ==
            IF n = 0 THEN [at |-> RingTail, records |-> <<>>]
            ELSE LET w == upTo[n - 1]
                     r == RingBufferRecordAt(Ring, w.at)
                 IN  IF w.at = RingHead \/ ~r.ok THEN w
                     ELSE [at |-> Mask(r.offset + r.total),
                           records |-> Append(w.records,
                              [id |-> Buffer[r.offset].id, total |-> r.total])]
    IN  upTo[MaxRecords]
RingBufferFlatten == Walk.records

\* Types; the handle key fits its word.
TypeOK ==
    /\ RingHead \in Offsets /\ RingTail \in Offsets /\ HandleKey \in 0 .. Word - 1
    /\ Buffer \in [Offsets -> [id : 0 .. MaxId, k : Offsets, total : 0 .. Size]]
    /\ nextId \in 1 .. MaxId + 1
    /\ Len(seen) <= MaxId

\* The records fill the ring from Tail to Head with no header overwritten: a
\* reader that starts at the oldest record gets to the newest.
RingWellFormed == Walk.at = RingHead

\* The ring is a log of records that drops the oldest only for room: what
\* RingBufferFlatten finds is what the log holds.
ImplementsLog == RingBufferFlatten = log

Live == {r.id : r \in Range(RingBufferFlatten)}

\* A handle that is accepted leads to the record it was returned for, and no
\* byte of its data was written for another record of the ring.
HandlesSound ==
    \A h \in issued : RingBufferHandleIsValid(h) =>
        LET r == RingBufferRecordAt(Ring, h.offset) IN
        /\ Buffer[r.offset].id = h.id
        /\ \A k \in HeaderSize .. r.total - 1 :
              LET b == Buffer[Mask(r.offset + k)]
              IN  b.id \in Live => b = Byte(h.id, k, r.total)

\* An enumeration that is not invalidated has seen the oldest records, each
\* once and in the order they were written.
EnumeratesInOrder ==
    Enumerator.key = HandleKey =>
        /\ Len(seen) <= Len(RingBufferFlatten)
        /\ \A i \in DOMAIN seen : seen[i] = RingBufferFlatten[i].id

\* A handle returned before the ring was reset is not accepted any more.
OldHandlesDead == \A h \in retired : ~RingBufferHandleIsValid(h)
=============================================================================
