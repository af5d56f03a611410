----------------------------- MODULE NetvscData -----------------------------
(***************************************************************************)
(* The data path of the synthetic network driver once NetvscInit is done:  *)
(* the queues of free send sections, of transmitted client buffers and of  *)
(* received packets, used by the simple network protocol at TPL_CALLBACK   *)
(* and by EMCL's callbacks, which run above it (TPL_NETVSC_CALLBACK) and   *)
(* interrupt it: a callback is one step, a function of the protocol        *)
(* several, of one change to a queue each.                                 *)
(*                                                                         *)
(* A transfer of the host is a sequence of ranges of the shared receive    *)
(* buffer, each a data packet or a control message; the host may use the   *)
(* ranges again once the transfer is completed.                            *)
(***************************************************************************)
EXTENDS Integers, Sequences, FiniteSets, SequencesExt

CONSTANTS
    Sections,       \* number of sections of the send buffer
    ClientBuffers,  \* the buffers clients transmit
    RxSections,     \* number of sub-allocations of the receive buffer
    Transfers,      \* identities of the host's transfers
    MaxRanges,      \* ranges of a transfer
    Failures        \* among "context" (memory), "send", "copy" (memory)

VARIABLES step, ctx, call, host

vars == <<step, ctx, call, host>>

Null == 0
-----------------------------------------------------------------------------
(* TX_QUEUE: one slot stays empty to tell full from empty.                 *)

Length == Sections + 1
TxQueueInit == [buf |-> [i \in 0 .. Sections |-> Null], head |-> 0, tail |-> 0]
TxQueueIsFull(q) == (q.tail + 1) % Length = q.head
TxQueueIsEmpty(q) == q.head = q.tail
First(q) == q.buf[q.head]

\* Each of the two changes its slot first and then its index.
Stored(q, x) == [q EXCEPT !.buf[q.tail] = x]
TxQueueEnqueue(q, x) == [Stored(q, x) EXCEPT !.tail = (@ + 1) % Length]
Emptied(q) == [q EXCEPT !.buf[q.head] = Null]
Advanced(q) == [q EXCEPT !.head = (@ + 1) % Length]

\* The elements between head and tail.
Elements(q) == [i \in 1 .. (q.tail - q.head + Length) % Length |->
                   q.buf[(q.head + i - 1) % Length]]

AllFree ==
    [buf |-> [i \in 0 .. Sections |-> IF i < Sections THEN i + 1 ELSE Null],
     head |-> 0, tail |-> Sections]
-----------------------------------------------------------------------------
(* RX_QUEUE: an entry points into the receive buffer or to a copy.         *)

RxLength == RxSections + 1
RxQueueIsAlmostFull(q) == Len(q) = RxLength - 2
RxQueueIsEmpty(q) == q = <<>>
RxQueueEnqueue(q, e) == Append(q, e)
RxQueueDequeue(q) == Tail(q)

\* lost holds the sections a failed transmission forgot; overfull the queues that
\* TxQueueEnqueue was called for when they were full; crowded and raced say what has
\* happened that the properties make exceptions for.
Init ==
    /\ step = "idle"
    /\ ctx = [free |-> AllFree, txed |-> TxQueueInit, rx |-> <<>>, lost |-> {},
              overfull |-> {}, crowded |-> FALSE, raced |-> FALSE]
    /\ call = [section |-> Null, buffer |-> Null, tail |-> 0, client |-> {}, packet |-> <<>>]
    /\ host = [sent |-> {}, transfers |-> [t \in Transfers |-> <<>>]]
-----------------------------------------------------------------------------
(* Transmission                                                            *)

\* Both queues are checked, and the first free section is taken out of its slot.
TakeSection(b) ==
    /\ ~TxQueueIsEmpty(ctx.free)
    /\ ctx' = [ctx EXCEPT !.free = Emptied(@)]
    /\ step' = "taken"
    /\ call' = [call EXCEPT !.section = First(ctx.free), !.buffer = b]
    /\ UNCHANGED host

\* The protocol's function; one that refuses its arguments changes nothing.  A
\* client does not transmit a buffer it has not got back.
SnpUndi32Transmit(b) ==
    step = "idle" /\ b \notin call.client /\ ~TxQueueIsFull(ctx.txed) /\ TakeSection(b)

\* NetvscSetFilter takes a section for its message and puts it back at once.
PeekSection == step = "idle" /\ TakeSection(Null)

Taken ==
    /\ step = "taken"
    /\ ctx' = [ctx EXCEPT !.free = Advanced(@)]
    /\ step' = IF call.buffer = Null THEN "enqueue" ELSE "send"
    /\ UNCHANGED <<call, host>>

\* NetvscTransmit from its allocation of the context on.  Without the context the
\* section is not put back; a send that fails puts it back.
NetvscTransmit ==
    /\ step = "send"
    /\ \/ /\ host' = [host EXCEPT !.sent = @ \cup {<<call.section, call.buffer>>}]
          /\ call' = [call EXCEPT !.client = @ \cup {call.buffer}]
          /\ ctx' = [ctx EXCEPT !.crowded = @ \/ Cardinality(call'.client) > Sections]
          /\ step' = "idle"
       \/ /\ "context" \in Failures
          /\ ctx' = [ctx EXCEPT !.lost = @ \cup {call.section}]
          /\ step' = "idle"
          /\ UNCHANGED <<call, host>>
       \/ "send" \in Failures /\ step' = "enqueue" /\ UNCHANGED <<ctx, call, host>>

\* TxQueueEnqueue in a function of the protocol.  The tail is read before or after a
\* callback that comes between the two stores.
Enqueue ==
    \/ /\ step = "enqueue"
       /\ ctx' = [ctx EXCEPT !.free = Stored(@, call.section)]
       /\ call' = [call EXCEPT !.tail = ctx.free.tail]
       /\ step' = "advance"
       /\ UNCHANGED host
    \/ /\ step = "advance"
       /\ \E t \in {call.tail, ctx.free.tail} :
              ctx' = [ctx EXCEPT !.free.tail = (t + 1) % Length]
       /\ step' = "idle"
       /\ UNCHANGED <<call, host>>

Overfull(queues) == ctx.overfull \cup {q \in queues : TxQueueIsFull(ctx[q])}

\* NetvscTransmitCallback: the section is free, the client's buffer is recorded.
NetvscTransmitCallbackTwice(r) ==
    /\ ctx' = [ctx EXCEPT
           !.free = TxQueueEnqueue(@, r[1]),
           !.txed = IF TxQueueIsEmpty(@) THEN TxQueueEnqueue(TxQueueEnqueue(@, r[2]), r[2])
                                         ELSE TxQueueEnqueue(@, r[2]),
           !.overfull = Overfull({"free", "txed"}), !.raced = @ \/ step = "advance"]
    /\ host' = [host EXCEPT !.sent = @ \ {r}]
    /\ UNCHANGED <<step, call>>
NetvscTransmitCallback(r) ==
    /\ ctx' = [ctx EXCEPT
           !.free = TxQueueEnqueue(@, r[1]),
           !.txed = TxQueueEnqueue(@, r[2]),
           !.overfull = Overfull({"free", "txed"}), !.raced = @ \/ step = "advance"]
    /\ host' = [host EXCEPT !.sent = @ \ {r}]
    /\ UNCHANGED <<step, call>>

\* PxeGetStatus takes one transmitted buffer and returns it to its client.
PxeGetStatus ==
    \/ /\ step = "idle" /\ ~TxQueueIsEmpty(ctx.txed)
       /\ call' = [call EXCEPT !.buffer = First(ctx.txed)]
       /\ ctx' = [ctx EXCEPT !.txed = Emptied(@)]
       /\ step' = "transmitted"
       /\ UNCHANGED host
    \/ /\ step = "transmitted"
       /\ call' = [call EXCEPT !.client = @ \ {call.buffer}]
       /\ ctx' = [ctx EXCEPT !.txed = Advanced(@)]
       /\ step' = "idle"
       /\ UNCHANGED host
-----------------------------------------------------------------------------
(* Reception.                                                              *)

\* A data packet of a transfer: dropped when the queue is almost full; the first one
\* stays in the receive buffer and completes the transfer when it is received, a
\* later one is copied.
Entry(t, i, n) == [transfer |-> t, range |-> i, copied |-> n > 1, completes |-> n = 1]

AfterCallback(t, ranges, n) == IF n = 0 THEN host ELSE [host EXCEPT !.transfers[t] = ranges]

\* NetvscReceiveCallback for a transfer of the host: one range after the other, n data
\* packets so far.  With no data packet accepted the transfer is completed at once.
NetvscReceiveCallback(t, ranges) ==
    LET Accept(q, n, i) ==
            IF ranges[i] # "data" \/ RxQueueIsAlmostFull(q) THEN {<<q, n>>}
            ELSE {<<RxQueueEnqueue(q, Entry(t, i, n + 1)), n + 1>>}
                 \cup IF n > 0 /\ "copy" \in Failures THEN {<<q, n + 1>>} ELSE {}
        outcome[i \in 0 .. Len(ranges)] ==
            IF i = 0 THEN {<<ctx.rx, 0>>}
            ELSE UNION {Accept(o[1], o[2], i) : o \in outcome[i - 1]}
    IN  /\ host.transfers[t] = <<>>
        /\ \E o \in outcome[Len(ranges)] :
               /\ ctx' = [ctx EXCEPT !.rx = o[1]]
               /\ host' = AfterCallback(t, ranges, o[2])
        /\ UNCHANGED <<step, call>>

\* NetvscReceive takes a packet from the queue, copies it out, and then completes its
\* transfer or frees the copy.
NetvscReceive ==
    \/ /\ step = "idle" /\ ~RxQueueIsEmpty(ctx.rx)
       /\ ctx' = [ctx EXCEPT !.rx = RxQueueDequeue(@)]
       /\ call' = [call EXCEPT !.packet = <<Head(ctx.rx)>>]
       /\ step' = "receive"
       /\ UNCHANGED host
    \/ /\ step = "receive"
       /\ host' = IF call.packet[1].completes
                  THEN [host EXCEPT !.transfers[call.packet[1].transfer] = <<>>] ELSE host
       /\ call' = [call EXCEPT !.packet = <<>>]
       /\ step' = "idle"
       /\ UNCHANGED ctx
-----------------------------------------------------------------------------
Ranges == UNION {[1 .. n -> {"data", "control"}] : n \in 1 .. MaxRanges}

Next ==
    \/ \E b \in ClientBuffers : SnpUndi32Transmit(b)
    \/ PeekSection \/ Taken \/ NetvscTransmit \/ Enqueue \/ PxeGetStatus \/ NetvscReceive
    \/ \E r \in host.sent : NetvscTransmitCallback(r)
    \/ \E t \in Transfers, ranges \in Ranges : NetvscReceiveCallback(t, ranges)

Spec == Init /\ [][Next]_vars
-----------------------------------------------------------------------------
\* What a queue holds, without the slot that a function at the step is emptying.
Holds(q, emptying) == IF step = emptying THEN Tail(Elements(q)) ELSE Elements(q)

FreeSections == Holds(ctx.free, "taken")

Places(s) ==
    {p \in {"free", "host", "call", "forgotten"} :
        \/ p = "free" /\ s \in Range(FreeSections)
        \/ p = "host" /\ \E r \in host.sent : r[1] = s
        \/ p = "call" /\ step \in {"taken", "send", "enqueue", "advance"} /\ call.section = s
        \/ p = "forgotten" /\ s \in ctx.lost}

\* Every section of the send buffer is in one place: in the free queue, with the
\* host, in the hands of the code that took it, or forgotten for want of a context.
\* The exception: NetvscTransmit and NetvscSetFilter put a section back at
\* TPL_CALLBACK, and a completion between their two stores uses the same slot.
SectionsConserved ==
    ~ctx.raced =>
        /\ IsInjective(FreeSections)
        /\ \A s \in 1 .. Sections : Cardinality(Places(s)) = 1

\* A client buffer that was transmitted is with the host or in the queue of
\* transmitted buffers, once: GetStatus returns each of them, and no other, as long
\* as that queue was never overfull.
ClientBuffersReturned ==
    LET txed == Holds(ctx.txed, "transmitted")
        returning == IF step = "transmitted" THEN {call.buffer} ELSE {}
    IN  "txed" \notin ctx.overfull =>
            /\ IsInjective(txed)
            /\ call.client = Range(txed) \cup returning \cup {r[2] : r \in host.sent}

\* While a received packet lies in the receive buffer its transfer is not completed,
\* and the transfer is completed when the last such packet is received: the host
\* does not write over a packet that no one has read, and gets every transfer back.
ReceiveBufferHeld ==
    LET rx == call.packet \o ctx.rx IN
    /\ \A i \in 1 .. Len(rx) : ~rx[i].copied => host.transfers[rx[i].transfer] # <<>>
    /\ \A t \in Transfers :
           host.transfers[t] # <<>> =>
               Cardinality({i \in 1 .. Len(rx) : rx[i].transfer = t /\ rx[i].completes}) = 1

\* TxQueueEnqueue is called for a full queue only after clients had more buffers out,
\* sent or not yet asked for with GetStatus, than there are sections: NetvscTransmit
\* looks whether the queue of transmitted buffers is full now, not whether it will
\* be when those with the host come back.  The free queue is never overfull.
OverfullOnlyIfCrowded ==
    /\ "txed" \in ctx.overfull => ctx.crowded
    /\ ~ctx.raced => "free" \notin ctx.overfull

\* Not so: TxQueueEnqueue is never called for a full queue.
TxQueueNeverOverfull == ctx.overfull = {}

\* Not so: no section disappears, whenever the completions come.
SectionsNeverLost == \A s \in 1 .. Sections : Places(s) # {}
==============================================================================
