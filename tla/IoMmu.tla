-------------------------------- MODULE IoMmu --------------------------------
(***************************************************************************)
(* The IOMMU driver: bounce buffers for DMA.  The pool of bounce blocks and *)
(* their bitmaps, IoMmuMap and IoMmuUnmap, IoMmuAllocateBuffer and          *)
(* IoMmuFreeBuffer, and the preparation of a range for DMA: its visibility  *)
(* to the host and its pinning.                                             *)
(*                                                                          *)
(* Pages are numbers, the first LowPages of them below 4 GB.  The content   *)
(* of a page is 0 (zeroed), b (what client buffer b held), -b (what the     *)
(* device wrote for buffer b) or Stale (left from an earlier use).          *)
(*                                                                          *)
(* IoMmuAcquireBouncePages does not raise the TPL: between its search of a  *)
(* bitmap and its change of it a callback may run any other call.           *)
(***************************************************************************)
EXTENDS Integers, Sequences, FiniteSets, SequencesExt

CONSTANTS
    Modes,          \* the values mBounceMode and the shared boundary can have
    LowPages, HighPages,
    InitialPages,   \* IOMMU_BOUNCE_INITIAL_BLOCK_PAGES
    GrowthPages,    \* IOMMU_BOUNCE_GROWTH_BLOCK_PAGES
    Buffers,        \* client buffers, positive numbers
    BufferPages,    \* their sizes
    HighBuffers,    \* those above 4 GB
    MaxBlocks,      \* blocks of the pool (bound)
    AlwaysPinned,   \* sets of pages that the hypervisor keeps pinned anyway
    Failures        \* subset of {"pages", "pool", "visible", "pin"}

VARIABLES step, ctx, call, host

vars == <<step, ctx, call, host>>

Low == 0 .. LowPages - 1
Memory == 0 .. LowPages + HighPages - 1
PagesOf(r) == r.base .. r.base + r.count - 1
Stale == LowPages + HighPages + 1000
RangeAt(base, count) == [base |-> base, count |-> count]
NoRange == RangeAt(0, 0)
NoCall == [buffer |-> 0, op |-> "none", block |-> 0, start |-> 0, used |-> {}]

IoMmuIsBounceActive == ctx.mode.bounce
IoMmuRequiresHostVisibility == ctx.mode.visibility
IoMmuRequiresPinning == ctx.mode.pinning
\* IoMmuGetSharedVa differs from the address itself.
SharedAlias == ctx.mode.shared

\* mBounceBlockListHead as "blocks" (each with its bitmap as the set of pages in use),
\* mAllocContextListHead as "allocs", the mappings handed out as "maps", and the pages that
\* are not free.  History: whether IoMmuUnmap always gave its client what it was due, and the
\* pages that an interrupted change of a bitmap gave out twice.
Init ==
    /\ step = "absent"
    /\ ctx \in [mode : Modes, blocks : {<<>>}, allocs : {{}}, maps : {{}}, allocated : {{}},
                intact : {TRUE}, twice : {{}}]
    /\ call = NoCall
    /\ host \in [visible : {{}}, pinned : {{}}, always : AlwaysPinned,
                 content : {[p \in Memory |-> Stale]}]

\* gBS->AllocatePages (external): no run, or the lowest.
FreeRuns(S, count) ==
    LET runs == {r \in {RangeAt(base, count) : base \in S} : PagesOf(r) \subseteq S \ ctx.allocated}
    IN  {r \in runs : \A q \in runs : r.base <= q.base}
-----------------------------------------------------------------------------
(* IoMmuPrepareAddressRangeForDma, IoMmuReleaseAddressRangeFromDma         *)

\* What a successful preparation leaves at the host: the hypervisor is asked to pin the pages
\* that it does not keep pinned anyway; DmaContext->PinApplied says whether there were any.
PinApplied(h, r) == IoMmuRequiresPinning /\ ~(PagesOf(r) \subseteq h.always)
Prepared(h, r) ==
    [h EXCEPT !.visible = IF IoMmuRequiresHostVisibility THEN @ \cup PagesOf(r) ELSE @,
              !.pinned = IF PinApplied(h, r) THEN @ \cup (PagesOf(r) \ h.always) ELSE @]

\* A failure makes the range private again; then nothing has changed.
IoMmuPrepareAddressRangeFails ==
    \/ IoMmuRequiresHostVisibility /\ "visible" \in Failures
    \/ IoMmuRequiresPinning /\ "pin" \in Failures

IoMmuReleaseAddressRangeFromDma(h, r, pin) ==
    [h EXCEPT !.pinned = IF pin THEN @ \ PagesOf(r) ELSE @,
              !.visible = IF IoMmuRequiresHostVisibility THEN @ \ PagesOf(r) ELSE @]
-----------------------------------------------------------------------------
(* The pool: FindFreeRun, UpdateBitmapRun, IoMmuPreAllocateBounceBlock,    *)
(* IoMmuAcquireBouncePages, IoMmuReleaseBouncePages                        *)

\* The first index from which count pages of the block are free, or -1.
FindFreeRunShort(block, count) ==
    LET starts == {i \in 0 .. block.count - count : \A k \in 0 .. count - 2 : i + k \notin block.used}
    IN  IF count = 0 \/ starts = {} THEN -1 ELSE CHOOSE i \in starts : \A j \in starts : i <= j
FindFreeRun(block, count) ==
    LET starts == {i \in 0 .. block.count - count : \A k \in 0 .. count - 1 : i + k \notin block.used}
    IN  IF count = 0 \/ starts = {} THEN -1 ELSE CHOOSE i \in starts : \A j \in starts : i <= j

UpdateBitmapRun(block, start, count, set) ==
    [block EXCEPT !.used = IF set THEN @ \cup (start .. start + count - 1)
                                  ELSE @ \ (start .. start + count - 1)]

\* The initial block, below 4 GB.
NewBlock(count) ==
    \E r \in FreeRuns(Low, count) :
        /\ ctx' = [ctx EXCEPT !.blocks = Append(@, [base |-> r.base, count |-> count, used |-> {}]),
                              !.allocated = @ \cup PagesOf(r)]
        /\ host' = Prepared(host, r)

\* Where IoMmuAcquireBouncePages finds room: the first block with a run that is long enough.
Candidates(count) == {n \in DOMAIN ctx.blocks : FindFreeRun(ctx.blocks[n], count) # -1}
FirstCandidate(count) == CHOOSE n \in Candidates(count) : \A k \in Candidates(count) : n <= k
-----------------------------------------------------------------------------
(* IoMmuDxeEntryPoint                                                      *)

\* The initial block may be missing; the pool then grows on demand.
IoMmuDxeEntryPoint ==
    /\ step = "absent"
    /\ step' = "ready"
    /\ \/ ~IoMmuIsBounceActive /\ UNCHANGED <<ctx, host>>
       \/ IoMmuIsBounceActive /\ NewBlock(InitialPages)
       \/ /\ IoMmuIsBounceActive /\ (IoMmuPrepareAddressRangeFails \/ "pages" \in Failures)
          /\ UNCHANGED <<ctx, host>>
    /\ UNCHANGED call
-----------------------------------------------------------------------------
(* IoMmuMap                                                                *)

\* A call may come from the application or from a callback that interrupts another call.
Callable == step \in {"ready", "preempted"}

Mapped(b) == call.buffer = b \/ \E m \in ctx.maps : m.buffer = b
Reads(op) == op \in {"read", "read64"}
Writes(op) == op \in {"write", "write64"}

\* The range is zeroed, and for a read filled with the client's data.
Filled(content, r, b, op) ==
    [p \in Memory |-> IF p \in PagesOf(r) THEN (IF Reads(op) THEN b ELSE 0) ELSE content[p]]

Mapping(b, op, kind, r, n, start) ==
    [buffer |-> b, op |-> op, kind |-> kind, base |-> r.base, count |-> r.count, block |-> n,
     start |-> start, written |-> {}]

\* Without bounce buffers: the buffer itself, or pages below 4 GB for a 32-bit operation on a
\* buffer above.  Only a read copies, and the pages are not zeroed.
NeedsLow(b, op) == b \in HighBuffers /\ op \in {"read", "write"}
MapDirect(b, op) ==
    /\ Callable /\ ~IoMmuIsBounceActive /\ ~Mapped(b)
    /\ IF ~NeedsLow(b, op)
       THEN /\ ctx' = [ctx EXCEPT !.maps = @ \cup {Mapping(b, op, "direct", NoRange, 0, 0)}]
            /\ UNCHANGED host
       ELSE \E r \in FreeRuns(Low, BufferPages[b]) :
                /\ ctx' = [ctx EXCEPT !.maps = @ \cup {Mapping(b, op, "copy", r, 0, 0)},
                                      !.allocated = @ \cup PagesOf(r)]
                /\ host' = IF Reads(op) THEN [host EXCEPT !.content = Filled(@, r, b, op)] ELSE host
    /\ UNCHANGED <<step, call>>

\* Pages start .. of block n are taken for the mapping, or given back if there is no memory for
\* the map context.  "searched" is the bitmap that the run was found in and "used" the one it
\* is set in: pages of the run that another call took since the search, or whose bits it set
\* and this change undoes, now have two owners.
Acquire(b, op, n, start, searched, used) ==
    LET count == BufferPages[b]
        r == RangeAt(ctx.blocks[n].base + start, count)
        block == UpdateBitmapRun([ctx.blocks[n] EXCEPT !.used = used], start, count, TRUE)
        since == ctx.blocks[n].used \ searched
        twice == ctx.twice \cup {p \in PagesOf(r) : p - ctx.blocks[n].base \in since}
                           \cup {ctx.blocks[n].base + i : i \in since \ used}
    IN  \/ /\ ctx' = [ctx EXCEPT !.blocks[n] = block, !.twice = twice,
                                 !.maps = @ \cup {Mapping(b, op, "bounce", r, n, start)}]
           /\ host' = [host EXCEPT !.content = Filled(@, r, b, op)]
        \/ /\ "pool" \in Failures
           /\ ctx' = [ctx EXCEPT !.blocks[n] = UpdateBitmapRun(block, start, count, FALSE), !.twice = twice]
           /\ host' = [host EXCEPT !.content = [p \in Memory |-> IF p \in PagesOf(r) THEN Stale ELSE @[p]]]

MapBounce(b, op) ==
    /\ Callable /\ IoMmuIsBounceActive /\ ~Mapped(b)
    /\ Candidates(BufferPages[b]) # {}
    /\ LET n == FirstCandidate(BufferPages[b])
       IN  Acquire(b, op, n, FindFreeRun(ctx.blocks[n], BufferPages[b]),
                   ctx.blocks[n].used, ctx.blocks[n].used)
    /\ UNCHANGED <<step, call>>

\* No block has room: a new one, at least GrowthPages long, whose first pages are taken.
NewBlockPages(count) == IF count < GrowthPages THEN GrowthPages ELSE count
GrowPool(b, op) ==
    /\ Callable /\ IoMmuIsBounceActive /\ ~Mapped(b)
    /\ Candidates(BufferPages[b]) = {} /\ Len(ctx.blocks) < MaxBlocks
    /\ \E r \in FreeRuns(Low, NewBlockPages(BufferPages[b])) :
         LET block == [base |-> r.base, count |-> r.count, used |-> {}]
             taken == RangeAt(r.base, BufferPages[b])
             n == Len(ctx.blocks) + 1
         IN  \/ /\ ctx' = [ctx EXCEPT !.blocks = Append(@, UpdateBitmapRun(block, 0, taken.count, TRUE)),
                                      !.allocated = @ \cup PagesOf(r),
                                      !.maps = @ \cup {Mapping(b, op, "bounce", taken, n, 0)}]
                /\ host' = [Prepared(host, r) EXCEPT !.content = Filled(@, taken, b, op)]
             \/ /\ "pool" \in Failures
                /\ ctx' = [ctx EXCEPT !.blocks = Append(@, block), !.allocated = @ \cup PagesOf(r)]
                /\ host' = Prepared(host, r)
    /\ UNCHANGED <<step, call>>

\* The search of a call that is interrupted, and its change of the bitmap after that: of the
\* bitmap as it is then, or, interrupted in the middle of the change, as it was read before.
MapFinds(b, op) ==
    /\ step = "ready" /\ IoMmuIsBounceActive /\ ~Mapped(b)
    /\ Candidates(BufferPages[b]) # {}
    /\ LET n == FirstCandidate(BufferPages[b])
       IN  call' = [buffer |-> b, op |-> op, block |-> n, used |-> ctx.blocks[n].used,
                    start |-> FindFreeRun(ctx.blocks[n], BufferPages[b])]
    /\ step' = "preempted"
    /\ UNCHANGED <<ctx, host>>
MapMarks ==
    /\ step = "preempted"
    /\ \E used \in {call.used, ctx.blocks[call.block].used} :
           Acquire(call.buffer, call.op, call.block, call.start, call.used, used)
    /\ step' = "ready" /\ call' = NoCall

\* The device writes a page of the mapping.
DeviceWrites(m, p) ==
    /\ m.kind # "direct" /\ Writes(m.op)
    /\ ctx' = [ctx EXCEPT !.maps = (@ \ {m}) \cup {[m EXCEPT !.written = @ \cup {p}]}]
    /\ host' = [host EXCEPT !.content[p] = -m.buffer]
    /\ UNCHANGED <<step, call>>

\* What a write mapping holds: zeros, or, when the pages are not of the pool, what was there,
\* until the device writes.
Due(m, p) == IF p \in m.written THEN -m.buffer ELSE IF m.kind = "bounce" THEN 0 ELSE Stale

\* IoMmuUnmap: what the device wrote goes to the client, the pages to the pool or to the system.
IoMmuUnmap(m) ==
    /\ Callable
    /\ ctx' = [ctx EXCEPT
                 !.maps = @ \ {m},
                 !.intact = /\ @
                            /\ Writes(m.op) => \A p \in PagesOf(m) \ ctx.twice :
                                                   host.content[p] = Due(m, p),
                 !.blocks = IF m.kind = "bounce"
                            THEN [@ EXCEPT ![m.block] = UpdateBitmapRun(@, m.start, m.count, FALSE)] ELSE @,
                 !.allocated = IF m.kind = "copy" THEN @ \ PagesOf(m) ELSE @]
    /\ host' = [host EXCEPT !.content = [p \in Memory |-> IF p \in PagesOf(m) THEN Stale ELSE @[p]]]
    /\ UNCHANGED <<step, call>>
-----------------------------------------------------------------------------
(* IoMmuAllocateBuffer, IoMmuFreeBuffer                                    *)

\* Without the dual address cycle attribute the pages are below 4 GB.
IoMmuAllocateBuffer(dac) ==
    /\ Callable /\ ctx.allocs = {}
    /\ \E r \in FreeRuns(IF dac THEN Memory ELSE Low, 1) :
         LET fails == IoMmuIsBounceActive /\ (IoMmuPrepareAddressRangeFails \/ "pool" \in Failures)
         IN  \/ /\ ctx' = [ctx EXCEPT !.allocated = @ \cup PagesOf(r),
                                      !.allocs = {[base |-> r.base, count |-> r.count, pin |-> PinApplied(host, r)]}]
                /\ host' = IF IoMmuIsBounceActive THEN Prepared(host, r) ELSE host
             \/ /\ fails
                /\ ctx' = ctx
                /\ host' = IoMmuReleaseAddressRangeFromDma(Prepared(host, r), r, PinApplied(host, r))
    /\ UNCHANGED <<step, call>>

\* FreePages is given the address the client has: in an alias above the shared boundary it
\* finds no such pages, and they stay allocated.
IoMmuFreeBuffer(a) ==
    /\ Callable
    /\ ctx' = [ctx EXCEPT !.allocs = @ \ {a},
                          !.allocated = IF IoMmuIsBounceActive /\ SharedAlias THEN @ ELSE @ \ PagesOf(a)]
    /\ host' = IF IoMmuIsBounceActive THEN IoMmuReleaseAddressRangeFromDma(host, a, a.pin) ELSE host
    /\ UNCHANGED <<step, call>>

Operations == {"read", "write", "write64"}

Next ==
    \/ IoMmuDxeEntryPoint
    \/ \E b \in Buffers, op \in Operations :
           MapDirect(b, op) \/ MapBounce(b, op) \/ GrowPool(b, op) \/ MapFinds(b, op)
    \/ MapMarks
    \/ \E m \in ctx.maps : IoMmuUnmap(m) \/ \E p \in PagesOf(m) : DeviceWrites(m, p)
    \/ \E dac \in BOOLEAN : IoMmuAllocateBuffer(dac)
    \/ \E a \in ctx.allocs : IoMmuFreeBuffer(a)

Spec == Init /\ [][Next]_vars
-----------------------------------------------------------------------------
(* Properties                                                              *)

BlockPages == UNION {PagesOf(ctx.blocks[n]) : n \in DOMAIN ctx.blocks}
AllocPages == UNION {PagesOf(a) : a \in ctx.allocs}

\* Bounced data is what its own parties wrote: whatever maps, unmaps and device writes come in
\* between, no two mappings share a page, the pages of a read mapping hold its client's data,
\* those of a write mapping what the device wrote there and zeros elsewhere, and that is what
\* the client gets.  (Stale data elsewhere, when the buffer is copied below 4 GB only.)
\* Excepted are the pages that an interrupted change of a bitmap gave out twice.
DmaDataIntact ==
    /\ \A m \in ctx.maps : \A p \in PagesOf(m) \ ctx.twice :
           /\ host.content[p] = IF Reads(m.op) THEN m.buffer ELSE Due(m, p)
           /\ \A k \in ctx.maps : p \in PagesOf(k) => k = m
    /\ ctx.intact

\* What a device is given is prepared for DMA and what the system may hand out again is not: a
\* page of the pool or of an allocated buffer is allocated, visible to the host where isolation
\* requires it and pinned where the hypervisor requires that; a page that is free, or that was
\* freed to an allocator that does not know it, is neither.
DmaRangesReady ==
    /\ BlockPages \cup AllocPages \subseteq ctx.allocated
    /\ \A m \in ctx.maps : m.kind = "bounce" => PagesOf(m) \subseteq BlockPages
    /\ IoMmuIsBounceActive /\ IoMmuRequiresHostVisibility => BlockPages \cup AllocPages = host.visible
    /\ IoMmuIsBounceActive /\ IoMmuRequiresPinning =>
           BlockPages \cup AllocPages = host.pinned \cup (host.always \cap (BlockPages \cup AllocPages))

\* Every page that is allocated has an owner, unless buffers are returned to their clients as
\* aliases above the shared boundary: IoMmuFreeBuffer gives the alias to FreePages.
FreedBuffersReturn ==
    ~SharedAlias =>
        ctx.allocated = BlockPages \cup AllocPages
                          \cup UNION {PagesOf(m) : m \in {k \in ctx.maps : k.kind = "copy"}}

\* Not so: no page is given out twice.
PagesGivenOnce == ctx.twice = {}

\* Not so: so it is in every VM.  "EFI_SUCCESS Visibility revoked and pages freed."
FreedBuffersAlwaysReturn ==
    ctx.allocated = BlockPages \cup AllocPages
                      \cup UNION {PagesOf(m) : m \in {k \in ctx.maps : k.kind = "copy"}}
=============================================================================
