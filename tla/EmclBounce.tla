----------------------------- MODULE EmclBounce -----------------------------
(***************************************************************************)
(* The bounce pages of an EMCL channel of an isolated VM (Emcl.c): blocks   *)
(* of host-visible pages, each with a singly linked free list, from which  *)
(* an I/O takes a list of pages and to which its completion returns them.  *)
(*                                                                         *)
(* EmclpAcquireBouncePages runs at the TPL of the sender.  That may be     *)
(* lower than the TPL of the receive event, which then runs between any    *)
(* two of its accesses to a free list; it completes I/Os and its callbacks *)
(* may start new ones.  A sender is therefore a process of small steps and *)
(* what the receive event does is atomic.                                  *)
(***************************************************************************)
EXTENDS Integers, FiniteSets, Sequences, SequencesExt

CONSTANTS BlockPages,    \* pages of a block: MAX(pageCount, 32) in the code
          MaxBlocks,     \* bound on the blocks memory can be found for
          IOs,           \* the I/Os that may be outstanding at once
          MaxNeed        \* most pages an I/O spans, at most BlockPages

BounceConstants ==
    /\ BlockPages \in Nat \ {0} /\ MaxBlocks \in Nat \ {0}
    /\ MaxNeed \in 1 .. BlockPages

NULL   == 0
Pages  == 1 .. MaxBlocks * BlockPages
Blocks == 1 .. MaxBlocks
BounceBlock(p)    == ((p - 1) \div BlockPages) + 1
FirstPage(block)  == (block - 1) * BlockPages + 1
LastPage(block)   == block * BlockPages
NoIO   == "none"

VARIABLES
    \* the list of blocks, EMCL_BOUNCE_BLOCK and EMCL_BOUNCE_PAGE
    blockCount, FreePageListHead, InUsePageCount, NextBouncePage,
    \* EmclBouncePageList of the completion entry of each I/O with the host
    EmclBouncePageList, withHost,
    \* the interrupted sender: where it is, its I/O and its locals
    pc, io, block, pagesToGo, bouncePage, listHead,
    \* history: the receive event changed a free list between the sender's read of
    \* its head and the sender's write to it
    raced

pool   == <<FreePageListHead, InUsePageCount, NextBouncePage>>
ios    == <<EmclBouncePageList, withHost>>
sender == <<pc, io, block, pagesToGo, bouncePage, listHead>>
vars   == <<blockCount, pool, ios, sender, raced>>

Idle == pc = "idle"

Init ==
    /\ blockCount = 0
    /\ FreePageListHead = [b \in Blocks |-> NULL]
    /\ InUsePageCount = [b \in Blocks |-> 0]
    /\ NextBouncePage = [p \in Pages |-> NULL]
    /\ EmclBouncePageList = [i \in IOs |-> NULL]
    /\ withHost = {}
    /\ pc = "idle" /\ io = NoIO /\ block = 0 /\ pagesToGo = 0
    /\ bouncePage = NULL /\ listHead = NULL /\ raced = FALSE
-----------------------------------------------------------------------------
(***************************************************************************)
(* Whole operations on the pool, for code that is not interrupted.         *)
(***************************************************************************)
Pool == [head |-> FreePageListHead, used |-> InUsePageCount, next |-> NextBouncePage]
SetPool(s) ==
    /\ FreePageListHead' = s.head /\ InUsePageCount' = s.used
    /\ NextBouncePage' = s.next

\* The pages of a linked list, at most as many as there are.
Chain(head, next) ==
    LET prefix[n \in 0 .. Cardinality(Pages)] ==
            IF n = 0 THEN <<>>
            ELSE LET s == prefix[n - 1]
                     p == IF s = <<>> THEN head ELSE next[Last(s)]
                 IN  IF Len(s) < n - 1 \/ p = NULL THEN s ELSE Append(s, p)
    IN  prefix[Cardinality(Pages)]

\* Mutant: a page is returned to the first block.
ReleasePageToFirst(p, s) ==
    [head |-> [s.head EXCEPT ![1] = p],
     used |-> [s.used EXCEPT ![BounceBlock(p)] = @ - 1],
     next |-> [s.next EXCEPT ![p] = s.head[BounceBlock(p)]]]

\* One turn of the loop of EmclpReleaseBouncePages.
ReleasePage(p, s) ==
    [head |-> [s.head EXCEPT ![BounceBlock(p)] = p],
     used |-> [s.used EXCEPT ![BounceBlock(p)] = @ - 1],
     next |-> [s.next EXCEPT ![p] = s.head[BounceBlock(p)]]]

EmclpReleaseBouncePages(head, s) ==
    FoldLeft(LAMBDA t, p : ReleasePage(p, t), s, Chain(head, s.next))

\* One turn of the loop of EmclpAcquireBouncePages, on the first block with a
\* free page; s.list is its listHead.
TakePage(s) ==
    LET b == CHOOSE x \in 1 .. blockCount :
                 /\ s.head[x] # NULL
                 /\ \A y \in 1 .. x - 1 : s.head[y] = NULL
        p == s.head[b]
    IN  [head |-> [s.head EXCEPT ![b] = s.next[p]],
         used |-> [s.used EXCEPT ![b] = @ + 1],
         next |-> [s.next EXCEPT ![p] = s.list],
         list |-> p]

Available ==
    FoldSeq(LAMBDA b, n : n + Len(Chain(FreePageListHead[b], NextBouncePage)), 0,
            [b \in 1 .. blockCount |-> b])

EmclpAcquireBouncePages(count) ==
    FoldLeft(LAMBDA s, i : TakePage(s),
             [head |-> FreePageListHead, used |-> InUsePageCount,
              next |-> NextBouncePage, list |-> NULL],
             [i \in 1 .. count |-> i])
-----------------------------------------------------------------------------
(***************************************************************************)
(* A sender below the receive TPL, one assignment at a time.               *)
(***************************************************************************)
BeginSend(i, need) ==
    /\ Idle /\ i \notin withHost
    /\ pc' = "scan" /\ io' = i /\ block' = 1 /\ pagesToGo' = need
    /\ bouncePage' = NULL /\ listHead' = NULL
    /\ UNCHANGED <<blockCount, pool, ios>>

\* bouncePage = FreePageListHead
ReadFreeList ==
    /\ pc = "scan" /\ pagesToGo > 0 /\ block <= blockCount
    /\ FreePageListHead[block] # NULL
    /\ bouncePage' = FreePageListHead[block]
    /\ pc' = "unlink"
    /\ UNCHANGED <<blockCount, pool, ios, io, block, pagesToGo, listHead>>

\* FreePageListHead = bouncePage->NextBouncePage, and the page joins listHead
UnlinkPage ==
    /\ pc = "unlink"
    /\ FreePageListHead' = [FreePageListHead EXCEPT ![block] = NextBouncePage[bouncePage]]
    /\ NextBouncePage' = [NextBouncePage EXCEPT ![bouncePage] = listHead]
    /\ InUsePageCount' = [InUsePageCount EXCEPT ![block] = @ + 1]
    /\ listHead' = bouncePage /\ bouncePage' = NULL
    /\ pagesToGo' = pagesToGo - 1
    /\ pc' = "scan"
    /\ UNCHANGED <<blockCount, ios, io, block>>

NextBlock ==
    /\ pc = "scan" /\ pagesToGo > 0 /\ block <= blockCount
    /\ FreePageListHead[block] = NULL
    /\ block' = block + 1
    /\ UNCHANGED <<blockCount, pool, ios, pc, io, pagesToGo, bouncePage, listHead>>

\* Not enough pages: EmclpReleaseBouncePages gives back what was taken, page by page,
\* page->NextBouncePage = FreePageListHead first and FreePageListHead = page then; a
\* new block is allocated.
AcquireFails ==
    /\ pc = "scan" /\ pagesToGo > 0 /\ block > blockCount
    /\ pc' = "release"
    /\ UNCHANGED <<blockCount, pool, ios, io, block, pagesToGo, bouncePage, listHead>>

LinkReleased ==
    /\ pc = "release" /\ listHead # NULL
    /\ LET b == BounceBlock(listHead) IN
       /\ InUsePageCount' = [InUsePageCount EXCEPT ![b] = @ - 1]
       /\ NextBouncePage' = [NextBouncePage EXCEPT ![listHead] = FreePageListHead[b]]
    /\ bouncePage' = listHead /\ listHead' = NextBouncePage[listHead]
    /\ pagesToGo' = pagesToGo + 1
    /\ pc' = "relink"
    /\ UNCHANGED <<blockCount, FreePageListHead, ios, io, block>>

HeadReleased ==
    /\ pc = "relink"
    /\ FreePageListHead' = [FreePageListHead EXCEPT ![BounceBlock(bouncePage)] = bouncePage]
    /\ bouncePage' = NULL
    /\ pc' = "release"
    /\ UNCHANGED <<blockCount, InUsePageCount, NextBouncePage, ios, io, block, pagesToGo, listHead>>

AllReleased ==
    /\ pc = "release" /\ listHead = NULL
    /\ pc' = "allocate"
    /\ UNCHANGED <<blockCount, pool, ios, io, block, pagesToGo, bouncePage, listHead>>

\* All pages of the new block are linked, in order, in its free list; then
\* EmclpAcquireBouncePages starts over.
EmclpAllocateBounceBlock ==
    /\ pc = "allocate" /\ blockCount < MaxBlocks
    /\ LET b == blockCount + 1 IN
       /\ blockCount' = b
       /\ FreePageListHead' = [FreePageListHead EXCEPT ![b] = FirstPage(b)]
       /\ NextBouncePage' =
             [p \in Pages |-> IF BounceBlock(p) # b THEN NextBouncePage[p]
                              ELSE IF p = LastPage(b) THEN NULL ELSE p + 1]
    /\ pc' = "scan" /\ block' = 1
    /\ UNCHANGED <<InUsePageCount, ios, io, pagesToGo, bouncePage, listHead>>

\* FAIL_FAST_UNEXPECTED_HOST_BEHAVIOR when no block can be allocated.
AllocationFails ==
    /\ pc = "allocate"
    /\ pc' = "failed"
    /\ UNCHANGED <<blockCount, pool, ios, io, block, pagesToGo, bouncePage, listHead>>

FinishSend ==
    /\ pc = "scan" /\ pagesToGo = 0
    /\ EmclBouncePageList' = [EmclBouncePageList EXCEPT ![io] = listHead]
    /\ withHost' = withHost \cup {io}
    /\ pc' = "idle" /\ io' = NoIO /\ block' = 0 /\ listHead' = NULL
    /\ UNCHANGED <<blockCount, pool, pagesToGo, bouncePage>>
-----------------------------------------------------------------------------
(***************************************************************************)
(* The receive event, which the sender does not see run.                   *)
(***************************************************************************)
ReceiveEventRuns ==
    /\ pc # "failed"
    /\ raced' = (pc \in {"unlink", "relink"} /\ LET b == BounceBlock(bouncePage)
                                               IN  FreePageListHead'[b] # FreePageListHead[b])

\* EmclDispatchPacket of a completion: the pages are released.
CompleteIO(i) ==
    /\ i \in withHost
    /\ SetPool(EmclpReleaseBouncePages(EmclBouncePageList[i], Pool))
    /\ EmclBouncePageList' = [EmclBouncePageList EXCEPT ![i] = NULL]
    /\ withHost' = withHost \ {i}
    /\ ReceiveEventRuns
    /\ UNCHANGED <<blockCount, sender>>

\* A completion routine or receive callback starts an I/O.
SendFromCallback(i, need) ==
    /\ i \notin withHost /\ i # io
    /\ need <= Available
    /\ LET s == EmclpAcquireBouncePages(need) IN
       /\ SetPool([head |-> s.head, used |-> s.used, next |-> s.next])
       /\ EmclBouncePageList' = [EmclBouncePageList EXCEPT ![i] = s.list]
    /\ withHost' = withHost \cup {i}
    /\ ReceiveEventRuns
    /\ UNCHANGED <<blockCount, sender>>

\* EmclStopChannel: the entries' pages are released, the blocks freed.
StopChannel ==
    /\ Idle /\ blockCount > 0
    /\ blockCount' = 0
    /\ FreePageListHead' = [b \in Blocks |-> NULL]
    /\ InUsePageCount' = [b \in Blocks |-> 0]
    /\ NextBouncePage' = [p \in Pages |-> NULL]
    /\ EmclBouncePageList' = [i \in IOs |-> NULL] /\ withHost' = {}
    /\ UNCHANGED sender

Needs == 1 .. MaxNeed
SenderNext ==
    \/ \E i \in IOs, need \in Needs : BeginSend(i, need)
    \/ ReadFreeList \/ UnlinkPage \/ NextBlock
    \/ AcquireFails \/ LinkReleased \/ HeadReleased \/ AllReleased
    \/ EmclpAllocateBounceBlock \/ AllocationFails \/ FinishSend
    \/ StopChannel

\* Bound: after a race for a free list, of which nothing is said, the sender at most
\* finishes its acquisition.
Next ==
    \/ (raced => pc \in {"unlink", "scan"}) /\ SenderNext /\ UNCHANGED raced
    \/ ~raced /\ \E i \in IOs : CompleteIO(i) \/ \E need \in Needs : SendFromCallback(i, need)
Spec == Init /\ [][Next]_vars
-----------------------------------------------------------------------------
PageOrNull == Pages \cup {NULL}
TypeOK ==
    /\ blockCount \in 0 .. MaxBlocks
    /\ FreePageListHead \in [Blocks -> PageOrNull]
    /\ InUsePageCount \in [Blocks -> IF raced THEN Nat ELSE 0 .. BlockPages]
    /\ NextBouncePage \in [Pages -> PageOrNull]
    /\ EmclBouncePageList \in [IOs -> PageOrNull] /\ withHost \subseteq IOs
    /\ pc \in {"idle", "scan", "unlink", "release", "relink", "allocate", "failed"}
    /\ io \in IOs \cup {NoIO} /\ block \in 0 .. MaxBlocks + 1
    /\ pagesToGo \in 0 .. MaxNeed
    /\ bouncePage \in PageOrNull /\ listHead \in PageOrNull /\ raced \in BOOLEAN

FreePages(b) == Range(Chain(FreePageListHead[b], NextBouncePage))
IOPages(i)   == Range(Chain(EmclBouncePageList[i], NextBouncePage))
Held(p) == p = bouncePage \/ p \in Range(Chain(listHead, NextBouncePage))

\* Until the receive event changes a free list between a sender's read and its write of
\* the head, each page of each block is in exactly one list, whatever the event does in
\* between otherwise: the free list of its own block, the list of one I/O that is with
\* the host, or that of the sender at work.
PagesPartitioned ==
    ~raced =>
      /\ pc # "unlink" =>
            \A b \in 1 .. blockCount : \A p \in FirstPage(b) .. LastPage(b) :
                Cardinality({i \in withHost : p \in IOPages(i)})
                    + (IF p \in FreePages(b) THEN 1 ELSE 0) + (IF Held(p) THEN 1 ELSE 0) = 1
      /\ \A b \in Blocks : FreePages(b) \subseteq FirstPage(b) .. LastPage(b)

\* Not so: no page is with the host twice, whenever the receive event runs.
NoPageShared ==
    \A i, j \in withHost : i # j => IOPages(i) \cap IOPages(j) = {}
-----------------------------------------------------------------------------
(***************************************************************************)
(* One I/O through bounce pages: the client's buffer, which may start      *)
(* anywhere in a page, is copied into the pages shared with the host or    *)
(* these are zeroed, the host reads and writes the range the packet        *)
(* describes, and the result is copied back.  Which pages these are does   *)
(* not matter here: CopySpec has variables of its own.                     *)
(*                                                                         *)
(* A byte is a number that tells where it came from.  Page i of the list   *)
(* holds the cells i * PageSize .. i * PageSize + PageSize - 1.            *)
(***************************************************************************)
CONSTANTS PageSize, MaxBufferSize
CopyConstants == PageSize \in Nat \ {0} /\ MaxBufferSize \in Nat \ {0}

Zero  == 0
Stale == -1                               \* left over from an earlier I/O
Old(k)      == 1 + k                      \* byte k of the client's buffer
FromHost(c) == 1 + MaxBufferSize + c      \* written by the host to cell c

VARIABLES offset, size, flags,            \* Buffer % EFI_PAGE_SIZE, BufferSize
          phase,
          buffer, cells,                  \* the client's buffer, the shared pages
          page, pageOffset, transferToGo, extBuffer     \* locals of the copy
copyVars == <<offset, size, flags, phase, buffer, cells, page, pageOffset,
              transferToGo, extBuffer>>
request == <<offset, size, flags>>
loop    == <<page, pageOffset, transferToGo, extBuffer>>

\* ADDRESS_AND_SIZE_TO_SPAN_PAGES
SpanPages(o, n) == (o + n + PageSize - 1) \div PageSize

Cells(o, n) == 0 .. SpanPages(o, n) * PageSize - 1

CopyInit ==
    /\ offset \in 0 .. PageSize - 1
    /\ size \in 1 .. MaxBufferSize
    /\ flags \in {"none", "in_only", "out_only"}
    /\ phase = "acquired"
    /\ buffer = [k \in 0 .. size - 1 |-> Old(k)]
    /\ cells = [c \in Cells(offset, size) |-> Stale]
    /\ page = 0 /\ pageOffset = offset /\ transferToGo = size /\ extBuffer = 0

\* EMCL_SEND_FLAG_DATA_IN_ONLY: the pages are zeroed instead of filled.
EmclpZeroBouncePageList ==
    /\ phase = "acquired" /\ flags = "in_only"
    /\ cells' = [c \in DOMAIN cells |-> Zero]
    /\ phase' = "host"
    /\ UNCHANGED <<request, buffer, loop>>

BeginCopyIn ==
    /\ phase = "acquired" /\ flags # "in_only"
    /\ phase' = "copy_in"
    /\ UNCHANGED <<request, buffer, cells, loop>>

Least(a, b) == IF a < b THEN a ELSE b

\* The bytes one turn of the loop copies, and where in the page they end.
CopySize == Least(PageSize - pageOffset, transferToGo)
CopyEnd  == pageOffset + CopySize

\* The cells of the current page the loop zeroes: before the data of the first
\* page and after the data of the last.
Zeroed(n) == n < pageOffset \/ (CopySize = transferToGo /\ n >= CopyEnd)
NextPageOffset == 0

Advance ==
    /\ page' = page + 1
    /\ pageOffset' = NextPageOffset
    /\ transferToGo' = transferToGo - CopySize
    /\ extBuffer' = extBuffer + CopySize

InPage(c) == c \div PageSize = page

\* One turn of the loop of EmclpCopyBouncePagesToExternalBuffer.
CopyPageIn ==
    /\ phase = "copy_in" /\ transferToGo > 0
    /\ cells' = [c \in DOMAIN cells |->
          LET n == c % PageSize IN
          CASE ~InPage(c) -> cells[c]
            [] InPage(c) /\ Zeroed(n) -> Zero
            [] InPage(c) /\ ~Zeroed(n) /\ n >= pageOffset /\ n < CopyEnd
                  -> buffer[extBuffer + n - pageOffset]
            [] OTHER -> cells[c]]
    /\ Advance
    /\ UNCHANGED <<request, phase, buffer>>

CopyPageOut ==
    /\ phase = "copy_out" /\ transferToGo > 0
    /\ buffer' = [k \in DOMAIN buffer |->
          IF k \in extBuffer .. extBuffer + CopySize - 1
          THEN cells[page * PageSize + pageOffset + k - extBuffer]
          ELSE buffer[k]]
    /\ Advance
    /\ UNCHANGED <<request, phase, cells>>

\* The packet is sent.
EndCopyIn ==
    /\ phase = "copy_in" /\ transferToGo = 0
    /\ phase' = "host"
    /\ UNCHANGED <<request, buffer, cells, loop>>

\* The range of the packet: ByteOffset and ByteCount are the client's.
EmclWriteGpaDirectPacketBounce == offset .. offset + size - 1

\* A host that reads leaves the range alone; one that writes fills it.
HostUses ==
    /\ phase = "host"
    /\ \/ UNCHANGED cells
       \/ cells' = [c \in DOMAIN cells |->
             IF c \in EmclWriteGpaDirectPacketBounce THEN FromHost(c) ELSE cells[c]]
    /\ phase' = "completed"
    /\ UNCHANGED <<request, buffer, loop>>

\* EmclDispatchPacket: the pages are copied back unless the data only went out.
BeginCopyOut ==
    /\ phase = "completed"
    /\ phase' = IF flags = "out_only" THEN "done" ELSE "copy_out"
    /\ page' = 0 /\ pageOffset' = offset /\ transferToGo' = size /\ extBuffer' = 0
    /\ UNCHANGED <<request, buffer, cells>>

EndCopyOut ==
    /\ phase = "copy_out" /\ transferToGo = 0
    /\ phase' = "done"
    /\ UNCHANGED <<request, buffer, cells, loop>>

CopyNext ==
        \/ EmclpZeroBouncePageList \/ BeginCopyIn \/ CopyPageIn \/ EndCopyIn
        \/ HostUses \/ BeginCopyOut \/ CopyPageOut \/ EndCopyOut
CopySpec == CopyInit /\ [][CopyNext]_copyVars
-----------------------------------------------------------------------------
\* The pages the host sees hold nothing of an earlier I/O: each cell is zero or
\* a byte of this buffer, at its own place in the range of the packet.
NoStaleShared ==
    phase = "host" =>
        \A c \in DOMAIN cells :
            \/ cells[c] = Zero
            \/ /\ c \in EmclWriteGpaDirectPacketBounce
               /\ cells[c] = Old(c - offset)

\* The client ends up with what the host left in the range of the packet: all
\* of it and in its place, or with its own data if the data only went out.
ResultReturned ==
    phase = "done" =>
        \A k \in DOMAIN buffer :
            buffer[k] = IF flags = "out_only" THEN Old(k) ELSE cells[offset + k]
=============================================================================
