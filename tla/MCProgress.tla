----------------------------- MODULE MCProgress -----------------------------
(***************************************************************************)
(* What must eventually happen in the parts of the VMBus transport, one    *)
(* part at a time: Init chooses the part and no step leaves it.  The other *)
(* parts stay in their initial states, in which no action that is fair is  *)
(* enabled.                                                                *)
(*                                                                         *)
(* "ring": VmbusRing, 40 bytes, so that one packet of either size fits.    *)
(* "emcl": Emcl with requests of one size and memory for all it receives.  *)
(* "gpadl": VmbusChannel, two channels.                                    *)
(* "root": VmbusRoot, two channels added later, interrupts taken at once.  *)
(***************************************************************************)
EXTENDS Naturals

VARIABLES part,
    In, Out, PendingSendSize, InterruptMask, data, irqReceiver, irqSender,
    OutgoingIn, OutgoingOutCache, ctxPending, heldPending, spc, packet, oldIn,
    interruptMask, IncomingOut, IncomingInCache, rpc, ringOffset, currentOffset,
    bufferLength, received, oldOut, pendingSeen, fifo, delivered, corrupt,
    IsRunning, OutgoingQueue, CompletionEntries, InterruptDeferred,
    AllocationFailure, mCurrentTransactionId, outRing, inRing, ReceiveEvent, pq,
    taken, receivedCount, held, hostAwake, hostRequests, hostSent, completed,
    freedTwice, dropped,
    ch, gpadlTable, maxInterruptUsed, flags, toHost, toGuest, gpadls, open,
    nullRead, failFast,
    root, app, signaled, allocating, adding, sint, host, badFree, lost, stopped

ring  == <<In, Out, InterruptMask, data, irqReceiver, irqSender,
           OutgoingIn, OutgoingOutCache, ctxPending, heldPending, spc, packet, oldIn,
           interruptMask, IncomingOut, IncomingInCache, rpc, ringOffset, currentOffset,
           bufferLength, received, oldOut, pendingSeen, fifo, delivered, corrupt>>
emcl  == <<IsRunning, OutgoingQueue, CompletionEntries, InterruptDeferred,
           AllocationFailure, mCurrentTransactionId, outRing, inRing, ReceiveEvent,
           pq, taken, receivedCount, held, hostAwake, hostRequests, hostSent,
           completed, dropped, freedTwice>>
gpadl == <<ch, gpadlTable, maxInterruptUsed, flags, toHost, toGuest, gpadls, open,
           nullRead>>
rootOnly == <<root, app, signaled, allocating, adding, sint, host, badFree, lost,
              stopped>>
vars  == <<part, ring, emcl, gpadl, rootOnly, PendingSendSize, failFast>>

Ring  == INSTANCE VmbusRing WITH DataBytesInRing <- 40, Word <- 4096,
             PacketSizes <- {16, 20}, MaxId <- 1, PeerMasks <- FALSE
Emcl  == INSTANCE Emcl WITH RingSize <- 2, RequestSizes <- {1}, RangeSize <- 1,
             MaxTransactionId <- 3, MaxRanges <- 0, MaxIncoming <- 1,
             AllocationCanFail <- FALSE
Gpadl == INSTANCE VmbusChannel WITH Channels <- {1, 2}, Shared <- {1},
             Pages <- [c \in {1, 2} |-> IF c = 1 THEN 4 ELSE 2], MaxGpadls <- 2,
             HeaderPfns <- 1, BodyPfns <- 2, RangeModulus <- 8, WordBits <- 64
Root  == INSTANCE VmbusRoot WITH Cold <- {}, Hot <- {3, 4}, Allowed <- {3, 4},
             Paravisor <- FALSE, Latency <- FALSE, EarlyHot <- FALSE,
             SharedInterrupt <- "slotEmpty", StopTpls <- {"application"}, MaxStarts <- 1

Init ==
    /\ part \in {"ring", "emcl", "gpadl", "root"}
    /\ Ring!Init /\ Emcl!Init /\ Gpadl!Init /\ Root!Init

Next ==
    \/ /\ part = "ring" /\ Ring!Next
       /\ UNCHANGED <<part, emcl, gpadl, rootOnly, failFast>>
    \/ /\ part = "emcl" /\ Emcl!Next
       /\ UNCHANGED <<part, ring, gpadl, rootOnly>>
    \/ /\ part = "gpadl" /\ Gpadl!Next
       /\ UNCHANGED <<part, ring, emcl, rootOnly, PendingSendSize>>
    \/ /\ part = "root" /\ Root!Next
       /\ UNCHANGED <<part, ring, emcl, gpadl, PendingSendSize>>

Fairness == Ring!Fairness /\ Emcl!Fairness /\ Gpadl!Fairness /\ Root!Fairness
Spec == Init /\ [][Next]_vars /\ Fairness
-----------------------------------------------------------------------------
\* Every packet that was published in the ring is delivered, and a send that found the
\* ring full is retried when room is made, and succeeds: the interrupt PendingSendSize
\* asks for is not missed (PkCompleteRemoval).
EveryPacketDelivered == Ring!EveryPacketDelivered /\ Ring!BlockedSendSucceeds

\* Every request is completed, unless its channel is stopped (EmclProcessQueue).
EveryRequestCompletes == Emcl!EveryRequestCompletes

\* Whoever waits for the host is answered: VmbusChannelCreateGpadl, OpenChannel and
\* VmbusChannelDestroyGpadl return.
RequestsAnswered == Gpadl!RequestsAnswered

\* A hot offer of an allowed channel becomes a channel unless memory runs out or the
\* driver stops, and VmbusRootSendUnload returns, so that stopping does.
RootProgresses == Root!HotOfferBecomesChannel /\ Root!UnloadReturns
=============================================================================
