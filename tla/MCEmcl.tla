------------------------------- MODULE MCEmcl -------------------------------
(***************************************************************************)
(* The parts of Emcl.c, and the channels of the VMBus driver as it opens   *)
(* them, on small instances, one at a time: Init chooses the part and no   *)
(* step leaves it, as the parts have no variable in common.                *)
(*                                                                         *)
(* "channel", "memory": Emcl.  A ring of two units is full with two small  *)
(* packets or one large one, so that sends are queued, overtake and are    *)
(* retried.  The first has three requests, the second has two and runs out *)
(* of memory for what it receives.                                         *)
(*                                                                         *)
(* "bounce": EmclBounce with two blocks of two pages and three I/Os of one *)
(* or two pages, so that blocks run out, an I/O spans two blocks and       *)
(* completions arrive in any order.                                        *)
(*                                                                         *)
(* "copy": the copying of EmclBounce with pages of three bytes and buffers *)
(* of one to eight bytes at every offset: one to four pages, every         *)
(* alignment of both ends.                                                 *)
(*                                                                         *)
(* "word", "words": VmbusChannel.  "word" has three channels, for which    *)
(* there are two handles; one of them has a ring of four pages that is     *)
(* made visible to the host and that takes a header and two bodies to      *)
(* describe, and one word holds the event flags of all.  "words" has two   *)
(* channels, whose flags are in the second and the third word.             *)
(***************************************************************************)
EXTENDS Emcl

VARIABLES part,
    blockCount, FreePageListHead, InUsePageCount, NextBouncePage,
    EmclBouncePageList, withHost, pc, io, block, pagesToGo, bouncePage, listHead,
    raced, offset, size, flags, phase, buffer, cells, page, pageOffset, transferToGo,
    extBuffer,
    ch, gpadlTable, maxInterruptUsed, eventFlags, toHost, toGuest, gpadls, open,
    unexpected, nullRead

bouncing == <<blockCount, FreePageListHead, InUsePageCount, NextBouncePage,
              EmclBouncePageList, withHost, pc, io, block, pagesToGo, bouncePage,
              listHead, raced>>
copying  == <<offset, size, flags, phase, buffer, cells, page, pageOffset,
              transferToGo, extBuffer>>
opening  == <<ch, gpadlTable, maxInterruptUsed, eventFlags, toHost, toGuest, gpadls, open,
              unexpected, nullRead>>

Short  == INSTANCE Emcl WITH MaxTransactionId <- 2, AllocationCanFail <- TRUE
Bounce == INSTANCE EmclBounce WITH BlockPages <- 2, MaxBlocks <- 2, MaxNeed <- 2,
              IOs <- {"a", "b", "c"}, PageSize <- 3, MaxBufferSize <- 8

Word   == INSTANCE VmbusChannel WITH flags <- eventFlags, failFast <- unexpected,
              Channels <- {1, 2, 3}, Shared <- {1}, MaxGpadls <- 3,
              Pages <- [c \in {1, 2, 3} |-> IF c = 1 THEN 4 ELSE 1], HeaderPfns <- 1, BodyPfns <- 2, RangeModulus <- 8,
              WordBits <- 64
Words  == INSTANCE VmbusChannel WITH flags <- eventFlags, failFast <- unexpected,
              Channels <- {2, 4}, Shared <- {}, Pages <- [c \in {2, 4} |-> 1], MaxGpadls <- 3,
              HeaderPfns <- 1, BodyPfns <- 2, RangeModulus <- 8, WordBits <- 2

ASSUME Bounce!BounceConstants /\ Bounce!CopyConstants
ASSUME Word!VmbusChannelConstants /\ Words!VmbusChannelConstants

NoCopy ==
    /\ offset = 0 /\ size = 0 /\ flags = "none" /\ phase = "none" /\ buffer = <<>>
    /\ cells = <<>> /\ page = 0 /\ pageOffset = 0 /\ transferToGo = 0 /\ extBuffer = 0

MCInit ==
    /\ part \in {"channel", "memory", "bounce", "copy", "word", "words"}
    /\ Init /\ Bounce!Init
    /\ IF part = "words" THEN Words!Init ELSE Word!Init
    /\ IF part = "copy" THEN Bounce!CopyInit ELSE NoCopy

MCNext ==
    \/ part = "channel" /\ Next /\ UNCHANGED <<part, bouncing, copying, opening>>
    \/ part = "memory" /\ Short!Next /\ UNCHANGED <<part, bouncing, copying, opening>>
    \/ part = "bounce" /\ Bounce!Next /\ UNCHANGED <<part, vars, copying, opening>>
    \/ part = "copy" /\ Bounce!CopyNext /\ UNCHANGED <<part, vars, bouncing, opening>>
    \/ part = "word" /\ Word!Next /\ UNCHANGED <<part, vars, bouncing, copying>>
    \/ part = "words" /\ Words!Next /\ UNCHANGED <<part, vars, bouncing, copying>>

MCSpec == MCInit /\ [][MCNext]_<<part, vars, bouncing, copying, opening>>
-----------------------------------------------------------------------------
\* The packets in the outgoing ring fit in it.  Until the receive event changes a free
\* list between a sender's read and its write of the head, a page is in one list, the
\* free list of its block or the list of one I/O, whatever the order of sends and
\* completions.  The host sees no byte of an earlier I/O in the pages it is given, and
\* the client gets what the host wrote and keeps the rest of its buffer
\* (EmclpAcquireBouncePages, EmclpCopyBouncePagesToExternalBuffer).
MemoryExact ==
    /\ TypeOK
    /\ part = "bounce" => Bounce!TypeOK /\ Bounce!PagesPartitioned
    /\ part = "copy" => Bounce!NoStaleShared /\ Bounce!ResultReturned

\* Every answer of the host fits a request, a GPADL handle in use is owned by one
\* channel, on both sides, the host gets the pages of the ring once and in order, and
\* they are visible to it from before it learns of them to after it has let go of them
\* (VmbusRootGetFreeGpadl, VmbusChannelCreateGpadl, VmbusChannelDestroyGpadl).
GpadlsExact ==
    part = "word" => /\ Word!NoFailFast
                     /\ Word!HandlesOwned
                     /\ Word!PagesExact
                     /\ Word!BufferVisibleWhileShared

\* VmbusRootScanEventFlags finds a channel for every flag it goes by, unless the flag
\* was set in a word above MaxInterruptUsed when the channel's GPADL was torn down, and
\* the words it looks at cover every channel with an interrupt routine, in whatever
\* order channels open and close.
FlagsScanned ==
    /\ part = "word" => Word!ScanAlwaysSafe
    /\ part = "words" => Words!ScanSafe /\ Words!InterruptsScanned
=============================================================================
