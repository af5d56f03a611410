---------------------------- MODULE VmbusChannel ----------------------------
(***************************************************************************)
(* Channels of the VMBus from the preparation of a ring buffer's GPADL to   *)
(* its destruction: EmclStartChannel and EmclStopChannel as clients of      *)
(* VmbusChannel.c, the tables of the root context they share, the SINT      *)
(* interrupt that answers them, and the host.                               *)
(*                                                                          *)
(* Clients run at different TPLs and wait inside each other, so their steps *)
(* interleave.  Posted messages and answers are delivered in order.         *)
(***************************************************************************)
EXTENDS Integers, Sequences, FiniteSets, FiniteSetsExt

CONSTANTS
    Channels,       \* the channel ids, indices of RootContext->Channels
    Shared,         \* those whose ring must be made visible to the host
    Pages,          \* the pages of each channel's ring buffer
    MaxGpadls,      \* VMBUS_MAX_GPADLS
    HeaderPfns,     \* numPfnInHeader
    BodyPfns,       \* numPfnInBody
    RangeModulus,   \* what RangeBufLen, a UINT16, can count in PFNs
    WordBits        \* bits of a word of event flags

VmbusChannelConstants ==
    /\ Channels \subseteq Nat \ {0} /\ IsFiniteSet(Channels)
    /\ Shared \subseteq Channels
    /\ Pages \in [Channels -> Nat \ {0}]
    /\ {MaxGpadls, HeaderPfns, BodyPfns, WordBits} \subseteq Nat \ {0}
    /\ \A c \in Channels : Pages[c] + 1 < RangeModulus

VARIABLES
    ch,         \* per channel: its context, its client and the client's GPADL
    gpadlTable, \* RootContext->GpadlTable
    maxInterruptUsed,
    flags,      \* the event flags page
    toHost,     \* messages posted to the host
    toGuest,    \* messages for the SINT slot, the first one in it
    gpadls,     \* the host's GPADLs
    open,       \* the channels the host has open
    failFast,   \* an answer did not fit the request
    nullRead    \* ScanEventFlags went through a channel that is not there

vars == <<ch, gpadlTable, maxInterruptUsed, flags, toHost, toGuest, gpadls,
          open, failFast, nullRead>>
guest == <<ch, gpadlTable, maxInterruptUsed>>
hostSide == <<gpadls, open>>

Handles == 1..(MaxGpadls - 1)       \* index 0 is never handed out
NoGpadl == [channel |-> 0, want |-> 0, pfns |-> <<>>, made |-> FALSE]
Msg(type, c, h) == [type |-> type, channel |-> c, gpadl |-> h, ok |-> TRUE]
NoMsg == Msg("none", 0, 0)
FreeEntry == [taken |-> FALSE, signaled |-> FALSE, msg |-> NoMsg]

\* A page frame of a channel's ring buffer.
Pfn(c, i) == <<c, i>>
Ring(c) == [i \in 1..Pages[c] |-> Pfn(c, i)]

Init ==
    /\ ch = [c \in Channels |->
               [exists |-> TRUE, pc |-> "stopped", handle |-> 0, sent |-> 0,
                visible |-> FALSE, isr |-> FALSE, signaled |-> FALSE,
                msg |-> NoMsg, missed |-> FALSE]]
    /\ gpadlTable = [h \in Handles |-> FreeEntry]
    /\ maxInterruptUsed = 0
    /\ flags = {}
    /\ toHost = <<>>
    /\ toGuest = <<>>
    /\ gpadls = [h \in Handles |-> NoGpadl]
    /\ open = {}
    /\ failFast = FALSE
    /\ nullRead = FALSE

-----------------------------------------------------------------------------
(* The root context's tables.                                               *)

\* VmbusRootGetFreeGpadl scans from index 1.
FirstFree ==
    {h \in Handles : /\ ~gpadlTable[h].taken
                     /\ \A k \in 1..(h - 1) : gpadlTable[k].taken}

\* VmbusRootReclaimGpadl; index 0 has no event.
VmbusRootReclaimGpadl(h) ==
    IF h = 0 THEN gpadlTable ELSE [gpadlTable EXCEPT ![h] = FreeEntry]

VmbusRootSetInterruptEntry(c) ==
    IF c > maxInterruptUsed THEN c ELSE maxInterruptUsed

\* The mutated clearing starts over instead of scanning.
ClearInterruptReset(c) ==
    IF c # maxInterruptUsed THEN maxInterruptUsed ELSE 0

\* VmbusRootClearInterruptEntry scans backwards to index 0.
VmbusRootClearInterruptEntry(c) ==
    IF c # maxInterruptUsed THEN maxInterruptUsed
    ELSE Max({0} \cup {d \in Channels \ {c} : /\ d < c /\ ch[d].exists
                                              /\ ch[d].isr})

-----------------------------------------------------------------------------
(* VmbusChannelPrepareGpadl and VmbusChannelCreateGpadl.                    *)

At(c, pc) == ~failFast /\ ~nullRead /\ ch[c].pc = pc

VmbusChannelPrepareGpadl(c) ==
    /\ At(c, "stopped") /\ ch[c].exists
    /\ ch' = [ch EXCEPT ![c].pc = "prepared", ![c].visible = c \in Shared]
    /\ UNCHANGED <<gpadlTable, maxInterruptUsed, flags, toHost, toGuest,
                   hostSide, failFast, nullRead>>

\* The PFNs of the next message, after the first `sent` of a ring of n pages.
Chunk(c, sent, size) ==
    [i \in 1..Min({Pages[c] - sent, size}) |-> Pfn(c, sent + i)]

\* RangeBufLen counts the GPA_RANGE header and the PFNs in a UINT16.
RangeBufLen(c) == (Pages[c] + 1) % RangeModulus

CreateGpadlHeader(c) ==
    /\ At(c, "prepared")
    /\ \/ /\ FirstFree = {}
          /\ ch' = [ch EXCEPT ![c].pc = "failed"]
          /\ UNCHANGED <<gpadlTable, toHost>>
       \/ \E h \in FirstFree :
             LET pfns == Chunk(c, 0, HeaderPfns)
             IN  /\ gpadlTable' = [gpadlTable EXCEPT ![h].taken = TRUE]
                 /\ ch' = [ch EXCEPT ![c].pc = "sending", ![c].handle = h,
                                     ![c].sent = Len(pfns)]
                 /\ toHost' = Append(toHost,
                       [type |-> "GpadlHeader", channel |-> c, gpadl |-> h,
                        len |-> RangeBufLen(c), pfns |-> pfns])
    /\ UNCHANGED <<maxInterruptUsed, flags, toGuest, hostSide, failFast,
                   nullRead>>

CreateGpadlBody(c) ==
    /\ At(c, "sending") /\ Pages[c] - ch[c].sent > 0
    /\ LET pfns == Chunk(c, ch[c].sent, BodyPfns)
       IN  /\ ch' = [ch EXCEPT ![c].sent = @ + Len(pfns)]
           /\ toHost' = Append(toHost,
                 [type |-> "GpadlBody", channel |-> 0, gpadl |-> ch[c].handle,
                  len |-> 0, pfns |-> pfns])
    /\ UNCHANGED <<gpadlTable, maxInterruptUsed, flags, toGuest, hostSide,
                   failFast, nullRead>>

\* The wait for GpadlCreated; a failed creation gives the handle back.
CreateGpadlAnswered(c) ==
    LET h == ch[c].handle IN
    /\ At(c, "sending") /\ Pages[c] = ch[c].sent
    /\ gpadlTable[h].signaled
    /\ IF gpadlTable[h].msg.type # "GpadlCreated"
            \/ gpadlTable[h].msg.channel # c
       THEN failFast' = TRUE /\ UNCHANGED <<ch, gpadlTable>>
       ELSE /\ UNCHANGED failFast
            /\ IF gpadlTable[h].msg.ok
               THEN /\ ch' = [ch EXCEPT ![c].pc = "created"]
                    /\ gpadlTable' = [gpadlTable EXCEPT ![h].signaled = FALSE]
               ELSE /\ ch' = [ch EXCEPT ![c].pc = "failed", ![c].handle = 0]
                    /\ gpadlTable' = VmbusRootReclaimGpadl(h)
    /\ UNCHANGED <<maxInterruptUsed, flags, toHost, toGuest, hostSide,
                   nullRead>>

-----------------------------------------------------------------------------
(* The rest of EmclStartChannel: RegisterIsr and OpenChannel.               *)

RegisterIsr(c) ==
    /\ At(c, "created")
    /\ maxInterruptUsed' = VmbusRootSetInterruptEntry(c)
    /\ ch' = [ch EXCEPT ![c].pc = "registered", ![c].isr = TRUE]
    /\ UNCHANGED <<gpadlTable, flags, toHost, toGuest, hostSide, failFast,
                   nullRead>>

VmbusChannelOpenChannel(c) ==
    /\ At(c, "registered")
    /\ ch' = [ch EXCEPT ![c].pc = "opening"]
    /\ toHost' = Append(toHost, [type |-> "OpenChannel", channel |-> c,
                                 gpadl |-> ch[c].handle, len |-> 0,
                                 pfns |-> <<>>])
    /\ UNCHANGED <<gpadlTable, maxInterruptUsed, flags, toGuest, hostSide,
                   failFast, nullRead>>

OpenChannelAnswered(c) ==
    /\ At(c, "opening") /\ ch[c].signaled
    /\ IF ch[c].msg.type # "OpenChannelResult" \/ ch[c].msg.channel # c
       THEN failFast' = TRUE /\ UNCHANGED ch
       ELSE /\ ch' = [ch EXCEPT ![c].signaled = FALSE,
                                ![c].pc = IF ch[c].msg.ok THEN "running"
                                          ELSE "failed"]
            /\ UNCHANGED failFast
    /\ UNCHANGED <<gpadlTable, maxInterruptUsed, flags, toHost, toGuest,
                   hostSide, nullRead>>

-----------------------------------------------------------------------------
(* EmclStopChannel, and the cleanup of EmclStartChannel, which destroys the *)
(* GPADL before it unregisters the interrupt.                               *)

VmbusChannelCloseChannel(c) ==
    /\ At(c, "running")
    /\ ch' = [ch EXCEPT ![c].pc = "closed"]
    /\ toHost' = Append(toHost, [type |-> "CloseChannel", channel |-> c,
                                 gpadl |-> 0, len |-> 0, pfns |-> <<>>])
    /\ UNCHANGED <<gpadlTable, maxInterruptUsed, flags, toGuest, hostSide,
                   failFast, nullRead>>

\* RegisterIsr with no event.
UnregisterIsr(c) ==
    /\ At(c, "closed") \/ At(c, "unregister")
    /\ maxInterruptUsed' = VmbusRootClearInterruptEntry(c)
    /\ ch' = [ch EXCEPT ![c].isr = FALSE,
                        ![c].pc = IF @ = "closed" THEN "teardown"
                                  ELSE "stopped"]
    /\ UNCHANGED <<gpadlTable, flags, toHost, toGuest, hostSide, failFast,
                   nullRead>>

\* What follows the end of DestroyGpadl: the buffer is no longer visible, and
\* the caller frees it or unregisters the interrupt first.
Destroyed(c) ==
    [ch EXCEPT ![c].handle = 0, ![c].visible = FALSE,
               ![c].pc = IF ch[c].isr THEN "unregister" ELSE "stopped"]

\* The mutated destruction revokes the visibility before the teardown.
DestroyGpadlRevokesFirst(c) ==
    /\ At(c, "teardown") \/ At(c, "failed")
    /\ IF ch[c].handle = 0
       THEN ch' = Destroyed(c) /\ UNCHANGED toHost
       ELSE /\ ch' = [ch EXCEPT ![c].pc = "tearing", ![c].visible = FALSE]
            /\ toHost' = Append(toHost,
                  [type |-> "GpadlTeardown", channel |-> c,
                   gpadl |-> ch[c].handle, len |-> 0, pfns |-> <<>>])
    /\ UNCHANGED <<gpadlTable, maxInterruptUsed, flags, toGuest, hostSide,
                   failFast, nullRead>>

VmbusChannelDestroyGpadl(c) ==
    /\ At(c, "teardown") \/ At(c, "failed")
    /\ IF ch[c].handle = 0
       THEN ch' = Destroyed(c) /\ UNCHANGED toHost
       ELSE /\ ch' = [ch EXCEPT ![c].pc = "tearing"]
            /\ toHost' = Append(toHost,
                  [type |-> "GpadlTeardown", channel |-> c,
                   gpadl |-> ch[c].handle, len |-> 0, pfns |-> <<>>])
    /\ UNCHANGED <<gpadlTable, maxInterruptUsed, flags, toGuest, hostSide,
                   failFast, nullRead>>

DestroyGpadlAnswered(c) ==
    LET h == ch[c].handle IN
    /\ At(c, "tearing") /\ gpadlTable[h].signaled
    /\ IF gpadlTable[h].msg.type # "GpadlTorndown"
       THEN failFast' = TRUE /\ UNCHANGED <<ch, gpadlTable>>
       ELSE /\ gpadlTable' = VmbusRootReclaimGpadl(h)
            /\ ch' = Destroyed(c)
            /\ UNCHANGED failFast
    /\ UNCHANGED <<maxInterruptUsed, flags, toHost, toGuest, hostSide,
                   nullRead>>

\* VmbusRootDestroyChannel, once its driver has stopped.
VmbusRootDestroyChannel(c) ==
    /\ At(c, "stopped") /\ ch[c].exists
    /\ ch' = [ch EXCEPT ![c].exists = FALSE]
    /\ UNCHANGED <<gpadlTable, maxInterruptUsed, flags, toHost, toGuest,
                   hostSide, failFast, nullRead>>

-----------------------------------------------------------------------------
(* The SINT interrupt: event flags first, then the message in the slot.     *)

\* The channels whose flags a scan reaches.
Scanned == {c \in flags : c \div WordBits <= maxInterruptUsed \div WordBits}

\* The scan that comes with the answer to a channel's request leaves its flag
\* set (kept for ScanSafe, as ch[c].missed).
Missed(c) == c \in flags \ Scanned

\* The mutated dispatch wakes the waiter for created GPADLs only.
DispatchMissesTeardown(m) ==
    CASE m.type = "OpenChannelResult" ->
           /\ ch' = [ch EXCEPT ![m.channel].signaled = TRUE,
                               ![m.channel].msg = m]
           /\ UNCHANGED <<gpadlTable, failFast>>
      [] m.type = "GpadlCreated" ->
           /\ gpadlTable' = [gpadlTable EXCEPT ![m.gpadl].signaled = TRUE,
                                               ![m.gpadl].msg = m]
           /\ UNCHANGED <<ch, failFast>>
      [] OTHER -> UNCHANGED <<ch, gpadlTable, failFast>>

\* VmbusRootDispatchMessage: the answer goes to its channel or GPADL.
VmbusRootDispatchMessage(m) ==
    CASE m.type = "OpenChannelResult" ->
           /\ ch' = [ch EXCEPT ![m.channel].signaled = TRUE,
                               ![m.channel].msg = m]
           /\ UNCHANGED <<gpadlTable, failFast>>
      [] ~gpadlTable[m.gpadl].taken ->
           failFast' = TRUE /\ UNCHANGED <<ch, gpadlTable>>
      [] OTHER ->
           /\ gpadlTable' = [gpadlTable EXCEPT ![m.gpadl].signaled = TRUE,
                                               ![m.gpadl].msg = m]
           /\ ch' = [c \in Channels |-> IF ch[c].handle = m.gpadl
                                       THEN [ch[c] EXCEPT !.missed = Missed(c)]
                                       ELSE ch[c]]
           /\ UNCHANGED failFast

VmbusRootSintNotify ==
    /\ ~failFast /\ ~nullRead
    /\ Scanned # {} \/ toGuest # <<>>
    /\ flags' = flags \ Scanned
    /\ nullRead' = \E c \in Scanned : ~ch[c].exists
    /\ IF toGuest = <<>>
       THEN UNCHANGED <<ch, gpadlTable, toGuest, failFast>>
       ELSE /\ VmbusRootDispatchMessage(Head(toGuest))
            /\ toGuest' = Tail(toGuest)
    /\ UNCHANGED <<maxInterruptUsed, toHost, hostSide>>

-----------------------------------------------------------------------------
(* The host.                                                                *)

\* The host's GPADL h with more page frames, answered when it has all.
HostGrows(h, g) ==
    IF Len(g.pfns) < g.want
    THEN /\ gpadls' = [gpadls EXCEPT ![h] = g]
         /\ UNCHANGED toGuest
    ELSE \E ok \in BOOLEAN :
            /\ gpadls' = [gpadls EXCEPT
                 ![h] = IF ok THEN [g EXCEPT !.made = TRUE] ELSE NoGpadl]
            /\ toGuest' = Append(toGuest,
                 [Msg("GpadlCreated", g.channel, h) EXCEPT !.ok = ok])

HostProcess ==
    /\ ~failFast /\ ~nullRead /\ toHost # <<>>
    /\ toHost' = Tail(toHost)
    /\ LET m == Head(toHost)
       IN  CASE m.type = "GpadlHeader" ->
                  /\ HostGrows(m.gpadl, [channel |-> m.channel,
                       want |-> m.len - 1, pfns |-> m.pfns, made |-> FALSE])
                  /\ UNCHANGED open
             [] m.type = "GpadlBody" ->
                  /\ HostGrows(m.gpadl,
                               [gpadls[m.gpadl] EXCEPT !.pfns = @ \o m.pfns])
                  /\ UNCHANGED open
             [] m.type = "GpadlTeardown" ->
                  /\ gpadls' = [gpadls EXCEPT ![m.gpadl] = NoGpadl]
                  /\ toGuest' = Append(toGuest,
                                  Msg("GpadlTorndown", 0, m.gpadl))
                  /\ UNCHANGED open
             [] m.type = "OpenChannel" ->
                  \E ok \in BOOLEAN :
                     /\ open' = IF ok THEN open \cup {m.channel} ELSE open
                     /\ toGuest' = Append(toGuest,
                          [Msg("OpenChannelResult", m.channel, 0)
                             EXCEPT !.ok = ok])
                     /\ UNCHANGED gpadls
             [] m.type = "CloseChannel" ->
                  open' = open \ {m.channel} /\ UNCHANGED <<toGuest, gpadls>>
    /\ UNCHANGED <<guest, flags, failFast, nullRead>>

\* The host signals the guest on an open channel.
HostSignal(c) ==
    /\ ~failFast /\ ~nullRead
    /\ c \in open /\ c \notin flags
    /\ flags' = flags \cup {c}
    /\ UNCHANGED <<guest, toHost, toGuest, hostSide, failFast, nullRead>>

-----------------------------------------------------------------------------
Answers(c) ==
    \/ CreateGpadlBody(c) \/ CreateGpadlAnswered(c)
    \/ OpenChannelAnswered(c) \/ DestroyGpadlAnswered(c)

Client(c) ==
    \/ VmbusChannelPrepareGpadl(c) \/ CreateGpadlHeader(c)
    \/ RegisterIsr(c) \/ VmbusChannelOpenChannel(c)
    \/ VmbusChannelCloseChannel(c) \/ UnregisterIsr(c)
    \/ VmbusChannelDestroyGpadl(c) \/ VmbusRootDestroyChannel(c)

Next ==
    \/ \E c \in Channels : Client(c) \/ Answers(c) \/ HostSignal(c)
    \/ VmbusRootSintNotify
    \/ HostProcess

Spec == Init /\ [][Next]_vars

\* The host answers, interrupts are taken, and a waiting client goes on.
Fairness ==
    /\ WF_vars(HostProcess) /\ WF_vars(VmbusRootSintNotify)
    /\ \A c \in Channels : WF_vars(Answers(c))

-----------------------------------------------------------------------------
TypeOK ==
    /\ \A c \in Channels :
         /\ ch[c].pc \in {"stopped", "prepared", "sending", "created",
              "registered", "opening", "running", "closed", "teardown",
              "tearing", "failed", "unregister"}
         /\ ch[c].handle \in Handles \cup {0}
         /\ ch[c].sent \in 0..Pages[c]
         /\ ch[c].missed \in BOOLEAN
    /\ maxInterruptUsed \in Channels \cup {0}
    /\ flags \subseteq Channels /\ open \subseteq Channels

(* Every answer of a host that follows the protocol reaches the request it  *)
(* is for: none of the checks after the waits, nor the check of the handle  *)
(* in the dispatch, ever fails.                                             *)
NoFailFast == ~failFast

Owners(h) == {c \in Channels : ch[c].handle = h}

(* A handle in the GPADL table has exactly one owner, so none leaks, and a  *)
(* GPADL the host still knows is a handle of the channel it was made for:   *)
(* a handle is not given out again before the host has let go of it.        *)
HandlesOwned ==
    \A h \in Handles :
        /\ gpadlTable[h].taken <=> Owners(h) # {}
        /\ Cardinality(Owners(h)) <= 1
        /\ gpadls[h] # NoGpadl => gpadls[h].channel \in Owners(h)

(* The host may only touch memory that it can see, from the answer that     *)
(* makes a GPADL to the one that ends it; and when the buffer goes back to  *)
(* its owner the host has neither the GPADL nor the channel nor sight of    *)
(* the pages.                                                               *)
BufferVisibleWhileShared ==
    \A c \in Channels :
        /\ c \in Shared =>
             \A h \in Handles :
               gpadls[h].channel = c /\ gpadls[h].made => ch[c].visible
        /\ ch[c].pc = "stopped" =>
             /\ ~ch[c].visible /\ c \notin open
             /\ \A h \in Handles : gpadls[h].channel # c

(* The page frames spread over the header and the bodies, possibly mixed    *)
(* with those of another GPADL, arrive as the ring buffer, each page once   *)
(* and in order.                                                            *)
PagesExact ==
    \A h \in Handles : gpadls[h].made => gpadls[h].pfns = Ring(gpadls[h].channel)

(* The scan covers the flag of every channel with a registered interrupt,   *)
(* however registrations and their removals interleave.                     *)
InterruptsScanned ==
    \A c \in Channels : ch[c].isr =>
        /\ ch[c].exists
        /\ c \div WordBits <= maxInterruptUsed \div WordBits

(* The scan signals the events of channels that are there: the flag of a    *)
(* channel that has been destroyed is set only if the scan that came with   *)
(* the end of its GPADL stopped short of its word, because its interrupt    *)
(* was unregistered by then and MaxInterruptUsed lower.                     *)
ScanSafe ==
    /\ \A c \in flags : ~ch[c].exists => ch[c].missed
    /\ nullRead => \E c \in Channels : ~ch[c].exists /\ ch[c].missed

(* With one word of flags, every flag the scan finds is of a channel that   *)
(* is there; with several this is not so.                                   *)
ScanAlwaysSafe == ~nullRead

(* Whoever waits for the host is answered: CreateGpadl, OpenChannel and     *)
(* DestroyGpadl return.                                                     *)
RequestsAnswered ==
    \A c \in Channels : []<>(ch[c].pc \notin {"sending", "opening", "tearing"})
=============================================================================
