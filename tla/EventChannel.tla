----------------------------- MODULE EventChannel ---------------------------
(***************************************************************************)
(* One channel of the event logger (MsvmPkg/EventLogDxe/EventLogger.c):    *)
(* events that are committed when logged, and events that are pending, with*)
(* their data in a cache that a client may still change.                   *)
(*                                                                         *)
(* Every operation runs with the channel locked and is one step; it is     *)
(* written as an operator on the state of a channel, because clients call  *)
(* several in a row.  The ring below is the log that EfiRing implements.   *)
(***************************************************************************)
EXTENDS Integers, Sequences

CONSTANTS Capacity,       \* of the ring, in bytes
          Totals,         \* sizes of records
          Overwrite,      \* EVENT_CHANNEL_OVERWRITE_RECORDS
          Statuses,       \* what the data of an event says
          MaxId           \* bound on the events ever logged

ASSUME ChannelAssumption ==
    /\ Capacity \in Nat /\ Totals \subseteq Nat \ {0} /\ MaxId \in Nat
    /\ Overwrite \in BOOLEAN /\ Statuses # {}

VARIABLES channel, device    \* the BIOS device's copy of the log
vars == <<channel, device>>

Log == INSTANCE RecordLog

INVALID_RING_HANDLE == [id |-> 0, key |-> 0]
NoPending == [handle |-> INVALID_RING_HANDLE, total |-> 0]

\* said and asserted record what clients said of each event, and whether a
\* write that must not fail did.
NewChannel ==
    [log |-> <<>>, key |-> 0, pending |-> NoPending, cache |-> 0, cacheSize |-> 0,
     written |-> 0, lost |-> 0, nextId |-> 1,
     said |-> [id \in 1 .. MaxId |-> 0], asserted |-> FALSE]

Init == channel = NewChannel /\ device = <<>>
-----------------------------------------------------------------------------
Ids(s) == {s[i].id : i \in DOMAIN s}

\* RingBufferHandleIsValid, by EfiRing's HandlesSound.
HandleIsValid(c, h) == h # INVALID_RING_HANDLE /\ h.key = c.key /\ h.id \in Ids(c.log)

EventPendingCleanup(c) == [c EXCEPT !.pending = NoPending]

\* The record of the pending event, as the commit writes it.
Committed(c, incomplete) ==
    [i \in DOMAIN c.log |->
        IF c.log[i].id = c.pending.handle.id
        THEN [c.log[i] EXCEPT !.pending = FALSE, !.incomplete = incomplete, !.status = c.cache]
        ELSE c.log[i]]

EventPendingCommitInternal(c, incomplete) ==
    EventPendingCleanup(
        IF HandleIsValid(c, c.pending.handle)
        THEN [c EXCEPT !.log = Committed(c, incomplete)]
        ELSE [c EXCEPT !.asserted = TRUE])

\* A pending event that its client did not commit, if there is one.
ForceCommit(c) ==
    IF c.pending.handle # INVALID_RING_HANDLE THEN EventPendingCommitInternal(c, TRUE) ELSE c

CacheTooSmall(c, total, pending) == pending /\ total > c.cacheSize
GrowCache(c, total, pending) ==
    IF CacheTooSmall(c, total, pending) THEN [c EXCEPT !.cacheSize = total] ELSE c

\* RingBufferReserve: each record removed makes the old handles invalid.
Nonzero(key) == IF key = 0 THEN 1 ELSE key

RingBufferReserve(c, record) ==
    LET n == Log!Dropped(c.log, record.total) IN
    [c EXCEPT !.log = Log!Added(c.log, record), !.key = Nonzero(@ + n), !.lost = @ + n]

\* The event gets the cache; the one before it is committed as it is.
MakePending(c, record, status) ==
    [ForceCommit(c) EXCEPT !.pending = [handle |-> [id |-> record.id, key |-> c.key],
                                        total |-> record.total],
                           !.cache = status]

\* Mutant: the previous event's place is given up before the ring is asked.
LoggedEarly(c, total, pending, status) ==
    LET early  == ForceCommit(c)
        record == [id |-> c.nextId, total |-> total, pending |-> pending,
                   incomplete |-> FALSE, status |-> IF pending THEN 0 ELSE status]
        after  == RingBufferReserve(early, record)
    IN  IF ~Log!Accepted(c.log, total)
        THEN [early EXCEPT !.lost = @ + 1, !.nextId = @ + 1]
        ELSE [(IF pending THEN MakePending(after, record, status) ELSE after)
                EXCEPT !.written = @ + 1, !.nextId = @ + 1,
                       !.said[c.nextId] = status]

\* EventLog once the cache is large enough.
Logged(c, total, pending, status) ==
    LET record == [id |-> c.nextId, total |-> total, pending |-> pending,
                   incomplete |-> FALSE, status |-> IF pending THEN 0 ELSE status]
        after  == RingBufferReserve(c, record)
    IN  IF ~Log!Accepted(c.log, total)
        THEN [c EXCEPT !.lost = @ + 1, !.nextId = @ + 1]
        ELSE [(IF pending THEN MakePending(after, record, status) ELSE after)
                EXCEPT !.written = @ + 1, !.nextId = @ + 1,
                       !.said[c.nextId] = status]

\* EventLog; memory for a larger cache may not be available.
EventLog(c, total, pending, status) ==
    {Logged(GrowCache(c, total, pending), total, pending, status)} \cup
        (IF CacheTooSmall(c, total, pending) THEN {c} ELSE {})

\* EventPendingGet, and the client's change of the data it returns.
PendingUpdate(c, status) ==
    IF HandleIsValid(c, c.pending.handle)
    THEN [c EXCEPT !.cache = status, !.said[c.pending.handle.id] = status]
    ELSE EventPendingCleanup(c)

EventPendingCommit(c) ==
    IF HandleIsValid(c, c.pending.handle)
    THEN EventPendingCommitInternal(c, FALSE)
    ELSE EventPendingCleanup(c)

\* EventChannelFlushCallback, as it leaves the channel.
Flushed(c) == ForceCommit(c)

EventChannelReset(c) ==
    [EventPendingCleanup(c) EXCEPT !.log = <<>>, !.key = 0, !.written = 0, !.lost = 0]
-----------------------------------------------------------------------------
\* Any client may call anything.
CallEventLog ==
    /\ channel.nextId <= MaxId
    /\ \E total \in Totals, pending \in BOOLEAN, status \in Statuses :
           channel' \in EventLog(channel, total, pending, status)
    /\ UNCHANGED device
CallPendingUpdate ==
    /\ \E status \in Statuses : channel' = PendingUpdate(channel, status)
    /\ UNCHANGED device
CallPendingCommit == channel' = EventPendingCommit(channel) /\ UNCHANGED device
CallFlush == channel' = Flushed(channel) /\ device' = channel'.log
CallReset == channel' = EventChannelReset(channel) /\ UNCHANGED device

Next == CallEventLog \/ CallPendingUpdate \/ CallPendingCommit \/ CallFlush \/ CallReset
Spec == Init /\ [][Next]_vars
-----------------------------------------------------------------------------
Records == {channel.log[i] : i \in DOMAIN channel.log}

\* What EventEnumerate returns as the data of an event (the cache for an event
\* marked pending) is what was last said of that event.
ShowsOwnData ==
    \A r \in Records :
        (IF r.pending THEN channel.cache ELSE r.status) = channel.said[r.id]

\* An event that could not be logged leaves the pending event and the others as
\* they were: two events are never lost to one error.
FailureLosesOne ==
    [][channel'.nextId > channel.nextId /\ channel'.written = channel.written =>
         channel'.log = channel.log /\ channel'.pending = channel.pending
         /\ channel'.cache = channel.cache]_vars

\* Committing a pending event does not fail: neither ASSERT_EFI_ERROR of
\* EventPendingCommitInternal does.
CommitSucceeds == ~channel.asserted
=============================================================================
