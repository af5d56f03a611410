-------------------------------- MODULE Emcl --------------------------------
(***************************************************************************)
(* One EMCL channel (MsvmPkg/EmclDxe/Emcl.c): sending with a completion    *)
(* list, a queue for packets the ring has no room for and deferred         *)
(* interrupts, the receive event EmclProcessQueue, completing received     *)
(* packets, and starting and stopping the channel.                         *)
(*                                                                         *)
(* The two rings are channels of whole packets, which VmbusRing shows they *)
(* implement; a size is the number of ring units a packet takes.  What     *)
(* EmclpSendPacket and EmclProcessQueue do at TPL_EMCL is one action.      *)
(* Senders may run between any two steps of the receive event, because     *)
(* they are callbacks of it or run at a higher TPL.                        *)
(***************************************************************************)
EXTENDS Naturals, FiniteSets, Sequences, Functions

CONSTANTS RingSize,           \* units of the outgoing ring that can be used
          RequestSizes,       \* sizes of the packets the client sends
          RangeSize,          \* size of a GPA range packet of a pipe
          MaxTransactionId,   \* bound on mCurrentTransactionId
          MaxRanges,          \* bound on GPA range packets in flight
          MaxIncoming,        \* bound on packets the host originates
          AllocationCanFail   \* TRUE iff AllocateZeroPool may return NULL

ASSUME EmclAssumption ==
    /\ RingSize \in Nat \ {0} /\ RangeSize \in 1 .. RingSize
    /\ RequestSizes \subseteq Nat \ {0}
    /\ MaxTransactionId \in Nat /\ MaxRanges \in Nat /\ MaxIncoming \in Nat
    /\ AllocationCanFail \in BOOLEAN

VARIABLES
    \* EMCL_CONTEXT
    IsRunning, OutgoingQueue, CompletionEntries, InterruptDeferred,
    AllocationFailure, mCurrentTransactionId,
    \* the outgoing ring and the size published in its control page
    outRing, PendingSendSize,
    \* the incoming ring, from the public Out on
    inRing,
    \* ReceiveEvent is signalled; where EmclProcessQueue is; how many packets
    \* it has taken past the public Out; how many it has dispatched
    ReceiveEvent, pq, taken, receivedCount,
    \* packets in the client's hands, between receive callback and completion
    held,
    \* the host: whether it is looking at the ring, requests it has to complete
    hostAwake, hostRequests, hostSent,
    \* history: transactions completed, those whose completion was removed from
    \* the ring unseen, an entry freed twice, and FAIL_FAST_UNEXPECTED_HOST_BEHAVIOR
    completed, dropped, freedTwice, failFast

emcl  == <<IsRunning, OutgoingQueue, CompletionEntries, InterruptDeferred,
           AllocationFailure, mCurrentTransactionId>>
event == <<ReceiveEvent, pq, taken, receivedCount>>
host  == <<hostAwake, hostRequests, hostSent>>
history == <<completed, dropped, freedTwice, failFast>>
vars  == <<emcl, outRing, PendingSendSize, inRing, event, held, host, history>>

\* A request carries its transaction id; the others have none (0).
Request(tid, size) == [type |-> "request", tid |-> tid, size |-> size]
RangePacket(size)  == [type |-> "range", tid |-> 0, size |-> size]
Completion(id)     == [type |-> "completion", tid |-> id, size |-> 1]

Used(ring)   == FoldFunction(LAMBDA p, n : p.size + n, 0, ring)
Room(ring)   == RingSize - Used(ring)

Init ==
    /\ IsRunning = FALSE /\ OutgoingQueue = <<>> /\ CompletionEntries = <<>>
    /\ InterruptDeferred = FALSE /\ AllocationFailure = FALSE
    /\ mCurrentTransactionId = 0
    /\ outRing = <<>> /\ PendingSendSize = 0 /\ inRing = <<>>
    /\ ReceiveEvent = FALSE /\ pq = "idle" /\ taken = 0 /\ receivedCount = 0
    /\ held = {}
    /\ hostAwake = FALSE /\ hostRequests = {} /\ hostSent = 0
    /\ completed = {} /\ dropped = {} /\ freedTwice = FALSE /\ failFast = FALSE
-----------------------------------------------------------------------------
(***************************************************************************)
(* Sending.                                                                *)
(***************************************************************************)

\* The outcomes of PkSendPacketRaw.
Fits(p)     == p.size <= Room(outRing)
NeverFits(p) == ~Fits(p) /\ p.size > RingSize
TooSmall(p) == ~Fits(p) /\ ~NeverFits(p)
\* EFI_RING_SIGNAL_OPPOSITE_ENDPOINT: the ring was empty.
Signal(p)   == Fits(p) /\ outRing = <<>>

PkSendPacketRaw(p) ==
    /\ outRing' = IF Fits(p) THEN Append(outRing, p) ELSE outRing
    /\ PendingSendSize' = IF Fits(p) THEN 0
                          ELSE IF TooSmall(p) THEN p.size ELSE PendingSendSize

\* The critical section of EmclpSendPacket.
EmclpSendPacket(p, deferInterrupt) ==
    LET notify   == Signal(p) \/ InterruptDeferred
        deferred == IF notify THEN deferInterrupt ELSE InterruptDeferred
    IN  /\ PkSendPacketRaw(p)
        /\ OutgoingQueue' = IF TooSmall(p) THEN Append(OutgoingQueue, p)
                                           ELSE OutgoingQueue
        /\ InterruptDeferred' = (deferred /\ ~TooSmall(p))
        /\ hostAwake' = \/ hostAwake
                        \/ notify /\ ~deferInterrupt
                        \/ deferred /\ TooSmall(p)

\* EmclSendPacketEx with a completion routine.  A packet whose inline size
\* exceeds the ring is refused before anything is done; one that only its
\* trailer makes too large (RingSize + 1) is refused by PkSendPacketRaw, and
\* then the entry is freed by EmclpSendPacket and by EmclSendPacketEx.
EmclSendPacketEx(size) ==
    /\ IsRunning
    /\ mCurrentTransactionId < MaxTransactionId
    /\ LET tid == mCurrentTransactionId + 1
           p   == Request(tid, size)
       IN  /\ mCurrentTransactionId' = tid
           /\ IF size > RingSize + 1
              THEN UNCHANGED <<CompletionEntries, outRing, PendingSendSize, hostAwake,
                               OutgoingQueue, InterruptDeferred, freedTwice>>
              ELSE /\ EmclpSendPacket(p, FALSE)
                   /\ CompletionEntries' = IF NeverFits(p) THEN CompletionEntries
                                           ELSE Append(CompletionEntries, tid)
                   /\ freedTwice' = (freedTwice \/ NeverFits(p))
    /\ UNCHANGED <<IsRunning, AllocationFailure, inRing, event, held, hostRequests,
                   hostSent, completed, dropped, failFast>>

\* EmclCreateGpaRange and EmclDestroyGpaRange: no completion, deferred.
RangesInFlight ==
    Len(SelectSeq(outRing \o OutgoingQueue, LAMBDA p : p.type = "range"))

EmclSendGpaRange ==
    /\ IsRunning
    /\ RangesInFlight < MaxRanges
    /\ EmclpSendPacket(RangePacket(RangeSize), TRUE)
    /\ UNCHANGED <<IsRunning, CompletionEntries, AllocationFailure,
                   mCurrentTransactionId, inRing, event, held, hostRequests,
                   hostSent, history>>

\* EmclCompletePacket for a packet that asked for a completion.
EmclCompletePacket(id) ==
    /\ IsRunning
    /\ id \in held
    /\ held' = held \ {id}
    /\ EmclpSendPacket(Completion(id), FALSE)
    /\ ReceiveEvent' = (ReceiveEvent \/ AllocationFailure)
    /\ UNCHANGED <<IsRunning, CompletionEntries, AllocationFailure,
                   mCurrentTransactionId, inRing, pq, taken, receivedCount,
                   hostRequests, hostSent, history>>
-----------------------------------------------------------------------------
(***************************************************************************)
(* EmclProcessQueue.                                                       *)
(***************************************************************************)
BeginProcessQueue ==
    /\ IsRunning /\ pq = "idle" /\ ReceiveEvent
    /\ ReceiveEvent' = FALSE
    /\ pq' = "receive" /\ taken' = 0 /\ receivedCount' = 0
    /\ UNCHANGED <<emcl, outRing, PendingSendSize, inRing, held, host, history>>

\* The inner loop ends: remove what was received, or go on to the queue.
EndReceive == pq' = IF receivedCount > 0 THEN "remove" ELSE "flush"

RingDrained ==
    /\ pq = "receive" /\ taken = Len(inRing)
    /\ EndReceive
    /\ UNCHANGED <<emcl, outRing, PendingSendSize, inRing, ReceiveEvent, taken,
                   receivedCount, held, host, history>>

\* AllocateZeroPool fails.  PkGetReceiveBuffer has already moved ringOffset.
ReceiveAllocationFails ==
    /\ AllocationCanFail
    /\ pq = "receive" /\ taken < Len(inRing)
    /\ AllocationFailure' = TRUE
    /\ taken' = taken + 1
    /\ EndReceive
    /\ UNCHANGED <<IsRunning, OutgoingQueue, CompletionEntries,
                   InterruptDeferred, mCurrentTransactionId, outRing,
                   PendingSendSize, inRing, ReceiveEvent, receivedCount, held,
                   host, history>>

\* The search of CompletionEntries ends at an entry of this transaction.
EntryFound(tid) == tid \in Range(CompletionEntries)
\* RemoveEntryList of that entry; no other has the same transaction id.
WithoutEntry(tid) ==
    LET i == CHOOSE k \in DOMAIN CompletionEntries : CompletionEntries[k] = tid
    IN  [k \in 1 .. Len(CompletionEntries) - 1 |->
            CompletionEntries[IF k < i THEN k ELSE k + 1]]

\* The packet is copied and EmclDispatchPacket gives it to its owner: the
\* completion routine of its entry, or the receive callback.
DispatchPacket ==
    /\ pq = "receive" /\ taken < Len(inRing)
    /\ LET p == inRing[taken + 1]
           known == EntryFound(p.tid)
       IN  IF p.type = "completion"
           THEN /\ CompletionEntries' = IF known THEN WithoutEntry(p.tid) ELSE CompletionEntries
                /\ completed' = IF known THEN completed \cup {p.tid} ELSE completed
                /\ failFast' = (failFast \/ ~known)
                /\ UNCHANGED held
           ELSE /\ held' = held \cup {p.tid}
                /\ UNCHANGED <<CompletionEntries, completed, failFast>>
    /\ AllocationFailure' = FALSE
    /\ taken' = taken + 1 /\ receivedCount' = receivedCount + 1
    /\ UNCHANGED <<IsRunning, OutgoingQueue, InterruptDeferred,
                   mCurrentTransactionId, outRing, PendingSendSize, inRing,
                   ReceiveEvent, pq, host, dropped, freedTwice>>

\* The transactions of the packets of a kind behind the first k of a list.
Tids(s, k, kind) == {s[i].tid : i \in {j \in k + 1 .. Len(s) : s[j].type = kind}}

\* PkCompleteRemoval removes all that was taken, dispatched or not.
RemoveTaken ==
    /\ pq = "remove"
    /\ inRing' = SubSeq(inRing, taken + 1, Len(inRing))
    /\ dropped' = dropped \cup (Tids(inRing, receivedCount, "completion")
                                   \ Tids(inRing, taken, "completion"))
    /\ taken' = 0 /\ receivedCount' = 0
    /\ UNCHANGED <<emcl, outRing, PendingSendSize, ReceiveEvent, held, host,
                   completed, freedTwice, failFast>>

\* Mutant: no further pass after a removal.
RemoveReceivedOnce == RemoveTaken /\ pq' = "flush"

\* PkCompleteRemoval; then another pass.
RemoveReceived == RemoveTaken /\ pq' = "receive"

\* Mutants: the entry is unlinked before the outcome of the send is known;
\* the host is not interrupted for a queued packet.
UnlinkedFirst(p) == TRUE
NotInterrupted(p) == FALSE

\* Whether the entry leaves the queue, and whether the host is interrupted.
Unlinked(p) == Fits(p)
Interrupted(p) == Signal(p)

\* One turn of the loop over OutgoingQueue.
FlushQueue ==
    /\ pq = "flush"
    /\ IF OutgoingQueue = <<>> THEN
          /\ pq' = "idle"
          /\ UNCHANGED <<outRing, PendingSendSize, OutgoingQueue, hostAwake>>
       ELSE LET p == Head(OutgoingQueue) IN
          /\ PkSendPacketRaw(p)
          /\ hostAwake' = (hostAwake \/ Interrupted(p))
          /\ OutgoingQueue' = IF Unlinked(p) THEN Tail(OutgoingQueue) ELSE OutgoingQueue
          /\ pq' = IF Fits(p) THEN "flush" ELSE "idle"
    /\ UNCHANGED <<IsRunning, CompletionEntries, InterruptDeferred,
                   AllocationFailure, mCurrentTransactionId, inRing,
                   ReceiveEvent, taken, receivedCount, held, hostRequests,
                   hostSent, history>>
-----------------------------------------------------------------------------
(***************************************************************************)
(* Starting and stopping.                                                  *)
(***************************************************************************)
EmclStartChannel ==
    /\ ~IsRunning
    /\ IsRunning' = TRUE
    /\ UNCHANGED <<OutgoingQueue, CompletionEntries, InterruptDeferred,
                   AllocationFailure, mCurrentTransactionId, outRing,
                   PendingSendSize, inRing, event, held, host, history>>

\* The nodes the two loops of EmclStopChannel free.  RemoveEntryList returns
\* the node after the one it removes, which for the last is the list head.
ListHead == 0
FreedByStop(list) ==
    {IF i < Len(list) THEN list[i + 1] ELSE ListHead : i \in DOMAIN list}

\* Called at or below the TPL of the receive event, so never inside it.  The
\* client may not send any more: what it holds it cannot complete.  The lists
\* end up empty; AllocationFailure and InterruptDeferred keep their values.
EmclStopChannel ==
    /\ IsRunning /\ pq = "idle"
    /\ IsRunning' = FALSE
    /\ OutgoingQueue' = <<>> /\ CompletionEntries' = <<>>
    /\ outRing' = <<>> /\ PendingSendSize' = 0 /\ inRing' = <<>>
    /\ ReceiveEvent' = FALSE /\ taken' = 0 /\ receivedCount' = 0
    /\ held' = {} /\ dropped' = {}
    /\ hostAwake' = FALSE /\ hostRequests' = {}
    /\ UNCHANGED <<InterruptDeferred, AllocationFailure, mCurrentTransactionId,
                   pq, hostSent, completed, freedTwice, failFast>>
-----------------------------------------------------------------------------
(***************************************************************************)
(* The host.  It looks at the ring until it finds it empty, then sleeps    *)
(* until it is interrupted.                                                *)
(***************************************************************************)
\* Publishing a packet interrupts the guest iff the ring was empty.
HostPublish(p) ==
    /\ inRing' = Append(inRing, p)
    /\ ReceiveEvent' = (ReceiveEvent \/ inRing = <<>>)

\* Taking a packet interrupts the guest when that makes the room it waits for.
HostTake ==
    /\ IsRunning /\ hostAwake /\ outRing # <<>>
    /\ LET p == Head(outRing)
           before == Room(outRing)
       IN  /\ outRing' = Tail(outRing)
           /\ hostRequests' = IF p.type = "request" THEN hostRequests \cup {p.tid}
                              ELSE hostRequests
           /\ ReceiveEvent' = \/ ReceiveEvent
                              \/ /\ PendingSendSize # 0
                                 /\ before < PendingSendSize
                                 /\ before + p.size >= PendingSendSize
    /\ UNCHANGED <<emcl, PendingSendSize, inRing, pq, taken, receivedCount,
                   held, hostAwake, hostSent, history>>

HostSleep ==
    /\ IsRunning /\ hostAwake /\ outRing = <<>>
    /\ hostAwake' = FALSE
    /\ UNCHANGED <<emcl, outRing, PendingSendSize, inRing, event, held,
                   hostRequests, hostSent, history>>

HostComplete(tid) ==
    /\ IsRunning /\ tid \in hostRequests
    /\ hostRequests' = hostRequests \ {tid}
    /\ HostPublish(Completion(tid))
    /\ UNCHANGED <<emcl, outRing, PendingSendSize, pq, taken, receivedCount,
                   held, hostAwake, hostSent, history>>

HostSend ==
    /\ IsRunning /\ hostSent < MaxIncoming
    /\ hostSent' = hostSent + 1
    /\ HostPublish([type |-> "data", tid |-> hostSent', size |-> 1])
    /\ UNCHANGED <<emcl, outRing, PendingSendSize, pq, taken, receivedCount,
                   held, hostAwake, hostRequests, history>>
-----------------------------------------------------------------------------
TransactionIds == 1 .. MaxTransactionId
PacketIds      == 1 .. MaxIncoming

EmclProcessQueue ==
    \/ BeginProcessQueue \/ RingDrained \/ ReceiveAllocationFails
    \/ DispatchPacket \/ RemoveReceived \/ FlushQueue

Client ==
    \/ \E size \in RequestSizes : EmclSendPacketEx(size)
    \/ EmclSendGpaRange
    \/ \E id \in PacketIds : EmclCompletePacket(id)
    \/ EmclStartChannel
    \/ EmclStopChannel

Host ==
    \/ HostTake \/ HostSleep \/ HostSend
    \/ \E tid \in TransactionIds : HostComplete(tid)

Next == EmclProcessQueue \/ Client \/ Host
Spec == Init /\ [][Next]_vars

\* The DXE core runs a signalled event once the TPL allows it; the host serves
\* its ring and answers each request.  Nobody has to send, start or stop.
Fairness ==
    /\ WF_vars(EmclProcessQueue)
    /\ WF_vars(HostTake) /\ WF_vars(HostSleep)
    /\ \A tid \in TransactionIds : WF_vars(HostComplete(tid))

FairSpec == Spec /\ Fairness
-----------------------------------------------------------------------------
Packets == [type : {"request", "range", "completion", "data"},
            tid : 0 .. MaxTransactionId + MaxIncoming, size : Nat]

\* Types; and the packets in the outgoing ring fit in it.
TypeOK ==
    /\ IsRunning \in BOOLEAN /\ InterruptDeferred \in BOOLEAN
    /\ AllocationFailure \in BOOLEAN /\ ReceiveEvent \in BOOLEAN
    /\ hostAwake \in BOOLEAN /\ freedTwice \in BOOLEAN /\ failFast \in BOOLEAN
    /\ mCurrentTransactionId \in 0 .. MaxTransactionId
    /\ CompletionEntries \in Seq(TransactionIds)
    /\ OutgoingQueue \in Seq(Packets) /\ inRing \in Seq(Packets)
    /\ outRing \in Seq(Packets) /\ Used(outRing) <= RingSize
    /\ PendingSendSize \in 0 .. RingSize
    /\ pq \in {"idle", "receive", "remove", "flush"}
    /\ taken \in 0 .. Len(inRing) /\ receivedCount \in 0 .. taken
    /\ held \subseteq PacketIds /\ hostSent \in 0 .. MaxIncoming
    /\ hostRequests \subseteq TransactionIds
    /\ completed \subseteq TransactionIds /\ dropped \subseteq TransactionIds

\* A completion from a host that completes each request once always finds its
\* completion entry: EmclDispatchPacket never fails fast on such a host, in
\* whatever order requests were queued, sent directly and completed.
CompletionsExpected == ~failFast

\* No packet lies in the ring unknown to the host: if the host is not looking
\* at a ring that has packets, an interrupt is owed and InterruptDeferred says so.
NoSilentPacket == (outRing # <<>> /\ ~hostAwake) => InterruptDeferred

\* Where the request of a transaction can be: queued, in the outgoing ring, with
\* the host, or completed by a packet that has not been dispatched.
Queued  == Tids(OutgoingQueue, 0, "request")
InRing  == Tids(outRing, 0, "request")
Arrived == Tids(inRing, receivedCount, "completion")

\* No two packets of a kind behind the first k have the same transaction.
Distinct(s, k, kind) ==
    \A i, j \in k + 1 .. Len(s) :
        s[i].type = kind /\ s[j].type = kind /\ s[i].tid = s[j].tid => i = j

\* Every outstanding request is in exactly one place on its way, and there once;
\* the completion entries are those of the requests on their way and of those whose
\* completion was removed unseen, one for each; none of these was completed before.
RequestsConserved ==
    /\ Distinct(OutgoingQueue, 0, "request") /\ Distinct(outRing, 0, "request")
    /\ Distinct(inRing, receivedCount, "completion")
    /\ Queued \cap (InRing \cup hostRequests \cup Arrived \cup dropped) = {}
    /\ InRing \cap (hostRequests \cup Arrived \cup dropped) = {}
    /\ hostRequests \cap (Arrived \cup dropped) = {}
    /\ Arrived \cap dropped = {}
    /\ Range(CompletionEntries) = Queued \cup InRing \cup hostRequests \cup Arrived \cup dropped
    /\ IsInjective(CompletionEntries)
    /\ Range(CompletionEntries) \cap completed = {}

\* A completion is of a request that is in the list of completion entries, and a
\* request is in one place and is completed once, unless its completion is removed
\* for want of memory (EmclpSendPacket, EmclDispatchPacket, EmclProcessQueue).
RequestsNotLost == CompletionsExpected /\ RequestsConserved

\* The receive event never goes idle over an incoming ring with packets, unless
\* an allocation failed: the host interrupts only when it finds the ring empty.
NoStrandedIncoming ==
    (IsRunning /\ pq = "idle" /\ ~ReceiveEvent /\ inRing # <<>>) => AllocationFailure

\* No packet is left without the interrupt that makes the other side look at it: what
\* was sent silently is followed by a signal, and what arrived is dispatched or another
\* pass over the ring is due (EmclpSendPacket, EmclProcessQueue).
NoStrandedPacket == NoSilentPacket /\ NoStrandedIncoming

\* Every request is eventually completed, unless the channel is stopped.
EveryRequestCompletes ==
    \A tid \in TransactionIds :
        (tid \in Range(CompletionEntries)) ~> (tid \in completed \/ ~IsRunning)

\* ASSERT(!context->InterruptDeferred) in EmclProcessQueue's loop over the queue.
QueueNotDeferred == (pq = "flush" /\ OutgoingQueue # <<>>) => ~InterruptDeferred

\* PkCompleteRemoval gives the host the space of dispatched packets only: a
\* packet for which no memory was found stays in the ring for the retry.
RemovesOnlyDispatched == pq = "remove" => taken = receivedCount

\* EmclStopChannel frees the outstanding completion entries, and nothing else.
StopFreesEntries ==
    [][IsRunning /\ ~IsRunning' =>
          FreedByStop(CompletionEntries) = Range(CompletionEntries)]_vars

\* A completion entry is freed once.
EntryFreedOnce == ~freedTwice
=============================================================================
