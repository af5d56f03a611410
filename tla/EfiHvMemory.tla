----------------------------- MODULE EfiHvMemory -----------------------------
(***************************************************************************)
(* The hypervisor driver's memory services: making address ranges visible  *)
(* to the host and private again, and pinning ranges for DMA, which skips  *)
(* the pages that the hypervisor keeps pinned anyway.  The hypercalls are  *)
(* made in batches and may stop part way; all that is still visible or     *)
(* pinned is taken back when the driver disconnects.                       *)
(***************************************************************************)
EXTENDS Integers, Sequences, FiniteSets, SequencesExt

CONSTANTS
    Platforms,      \* subset of {"software", "paravisor", "bypassOnly"}
    LastPage,       \* pages are 0 .. LastPage; page 0 holds mHvPages on "bypassOnly"
    Ranges,         \* the ranges clients own: records [base, count], pairwise disjoint
    MaxSubranges,   \* subranges a query can return
    RangeMax,       \* HV_GPA_PAGE_RANGE_MAX_PAGE_COUNT
    Batch,          \* elements of one hypercall
    AlwaysPinned    \* the sets of pages the hypervisor may keep pinned

VARIABLES step, ctx, host

vars == <<step, ctx, host>>

Pages == 0 .. LastPage
PagesOf(r) == r.base .. r.base + r.count - 1
RangeAt(base, count) == [base |-> base, count |-> count]
HvPages == RangeAt(0, 1)
mBypassOnly == ctx.platform = "bypassOnly"

\* mHostVisiblePageList and mPinnedPageList, and what clients have been told: the ranges they
\* may use (visible) and those that they must unpin (PinApplied).
Init ==
    /\ step = "absent"
    /\ ctx \in [platform : Platforms, visible : {<<>>}, pins : {<<>>},
                granted : {{}}, applied : {{}}, pinned : {{}}]
    /\ host \in [visible : {{}}, pins : {[p \in Pages |-> 0]}, always : AlwaysPinned,
                 unreadable : {FALSE}]

\* EfiHvConnectToHypervisor: without a paravisor mHvPages is the first visible range.
Connect ==
    /\ step = "absent"
    /\ step' = "idle"
    /\ IF mBypassOnly
       THEN /\ ctx' = [ctx EXCEPT !.visible = <<HvPages>>]
            /\ host' = [host EXCEPT !.visible = PagesOf(HvPages)]
       ELSE UNCHANGED <<ctx, host>>

\* A hypercall takes its input from the page in mHvPages, which the host must see.
InputRead(h) ==
    [h EXCEPT !.unreadable = @ \/ (mBypassOnly /\ HvPages.base \notin h.visible)]
-----------------------------------------------------------------------------
(* EfiHvpModifySparseGpaPageHostVisibility and its callers                 *)

\* The pages of the first n elements: each batch goes on where the last one ended.
ModifiedPages(base, n) == {base + i : i \in 0 .. n - 1}

Modify(h, visible, base, n) ==
    LET read == InputRead(h)
    IN  [read EXCEPT !.visible = IF visible THEN @ \cup ModifiedPages(base, n)
                                            ELSE @ \ ModifiedPages(base, n)]
FailFast == step' = "dead" /\ UNCHANGED <<ctx, host>>

\* EfiHvMakeAddressRangeHostVisible: a failure after n pages is fatal without a paravisor, and
\* undone otherwise.
EfiHvMakeAddressRangeHostVisible(r) ==
    /\ step = "idle" /\ r \notin ctx.granted
    /\ \/ /\ host' = Modify(host, TRUE, r.base, r.count)
          /\ ctx' = [ctx EXCEPT !.visible = Append(@, r), !.granted = @ \cup {r}]
          /\ UNCHANGED step
       \/ \E n \in 0 .. r.count - 1 :
              /\ ~mBypassOnly
              /\ host' = Modify(Modify(host, TRUE, r.base, n), FALSE, r.base, n)
              /\ UNCHANGED <<step, ctx>>
       \/ FailFast

EfiHvMakeAddressRangeNotHostVisible(r) ==
    /\ step = "idle" /\ r \in ctx.granted
    /\ \/ /\ host' = Modify(host, FALSE, r.base, r.count)
          /\ ctx' = [ctx EXCEPT !.visible = SelectSeq(@, LAMBDA q : q # r), !.granted = @ \ {r}]
          /\ UNCHANGED step
       \/ FailFast
-----------------------------------------------------------------------------
(* EfiHvPinAddressRange, EfiHvUnpinAddressRange                            *)

\* EfiHvpQueryAlwaysPinnedSubranges: the runs of always pinned pages that meet the range, in
\* order, as many as fit; a run may reach beyond the range.
RunStarts == {p \in host.always : p - 1 \notin host.always}
RunEnd(p) == CHOOSE e \in p .. LastPage : /\ p .. e \subseteq host.always
                                          /\ e + 1 \notin host.always
Subranges(base, count) ==
    LET met == {p \in RunStarts : p < base + count /\ RunEnd(p) >= base}
        sorted == SetToSortSeq(met, LAMBDA a, b : a < b)
    IN  [i \in 1 .. (IF Len(sorted) > MaxSubranges THEN MaxSubranges ELSE Len(sorted)) |->
            [base |-> sorted[i], end |-> RunEnd(sorted[i]) + 1]]

\* The gaps between the subranges, from the first page on.
Gaps(base, count, subs) ==
    LET end == base + count
        Walk[n \in 0 .. Len(subs)] ==
            IF n = 0 THEN [current |-> base, gaps |-> <<>>]
            ELSE LET w == Walk[n - 1]
                     s == subs[n]
                 IN  IF s.end <= w.current \/ s.base >= end THEN w
                     ELSE [current |-> IF s.end < end THEN s.end ELSE end,
                           gaps |-> IF s.base > w.current
                                    THEN Append(w.gaps, RangeAt(w.current, s.base - w.current)) ELSE w.gaps]
        last == Walk[Len(subs)]
    IN  IF last.current < end THEN Append(last.gaps, RangeAt(last.current, end - last.current)) ELSE last.gaps

\* EfiHvpPinGpaPageRangeSkippingAlwaysPinnedPages: what is pinned for a range, in order.  When
\* the list of subranges is full the two halves are done one after the other.
ToPin(base, count) ==
    LET P[n \in 1 .. count] ==
            [b \in Pages |->
                LET subs == Subranges(b, n)
                IN  IF Len(subs) = MaxSubranges /\ n > 1
                    THEN P[n \div 2][b] \o P[n - n \div 2][b + n \div 2]
                    ELSE Gaps(b, n, subs)]
    IN  P[count][base]

\* EfiHvBuildGpaPageRangeList: elements of at most RangeMax pages.
EfiHvBuildGpaPageRangeList(r) ==
    [i \in 1 .. (r.count + RangeMax - 1) \div RangeMax |->
        LET base == r.base + (i - 1) * RangeMax
            left == r.base + r.count - base
        IN  RangeAt(base, IF left < RangeMax THEN left ELSE RangeMax)]

\* EfiHvpPinUnpinGpaPageRanges: each element counts one pin on (or off) each of its pages.
PinElement(h, r, delta) ==
    [InputRead(h) EXCEPT !.pins = [p \in Pages |-> IF p \in PagesOf(r) THEN @[p] + delta ELSE @[p]]]
PinElements(h, elements, delta) == FoldSeq(LAMBDA r, acc : PinElement(acc, r, delta), h, elements)
Pinned(h, r, delta) == PinElements(h, EfiHvBuildGpaPageRangeList(r), delta)
PinnedAll(h, ranges, delta) == FoldSeq(LAMBDA r, acc : Pinned(acc, r, delta), h, ranges)
Tracked(r, gaps) == [i \in DOMAIN gaps |-> [request |-> r, range |-> gaps[i]]]
RangesOf(entries) == [i \in DOMAIN entries |-> entries[i].range]

\* EfiHvpUnpinTrackedGpaPageRanges: every entry of the same request.
OfRequest(r) == SelectSeq(ctx.pins, LAMBDA e : e.request = r)
Others(r) == SelectSeq(ctx.pins, LAMBDA e : e.request # r)

\* EfiHvpPinAndTrackGpaPageRange fails after k elements (or all, when the entry cannot be
\* allocated): the pages of those are unpinned again.
PinUndone(h, r, k) ==
    LET elements == SubSeq(EfiHvBuildGpaPageRangeList(r), 1, k)
        pages == FoldSeq(LAMBDA e, n : n + e.count, 0, elements)
        done == PinElements(h, elements, 1)
    IN  IF pages = 0 THEN done ELSE Pinned(done, RangeAt(r.base, pages), -1)

\* A failure at gap f: the gaps before it are unpinned too, with whatever else is tracked for
\* the same request.
EfiHvPinAddressRange(r) ==
    LET gaps == ToPin(r.base, r.count)
    IN  /\ step = "idle" /\ r \notin ctx.pinned
        /\ \/ /\ host' = PinnedAll(host, gaps, 1)
              /\ ctx' = [ctx EXCEPT !.pins = @ \o Tracked(r, gaps), !.pinned = @ \cup {r},
                                    !.applied = IF gaps # <<>> THEN @ \cup {r} ELSE @]
              /\ UNCHANGED step
           \/ \E f \in DOMAIN gaps : \E k \in 0 .. Len(EfiHvBuildGpaPageRangeList(gaps[f])) :
                  LET done == PinUndone(PinnedAll(host, SubSeq(gaps, 1, f - 1), 1), gaps[f], k)
                      undo == SubSeq(gaps, 1, f - 1) \o RangesOf(OfRequest(r))
                  IN  /\ host' = PinnedAll(done, undo, -1)
                      /\ ctx' = [ctx EXCEPT !.pins = Others(r)]
                      /\ UNCHANGED step
           \/ FailFast

\* Only for a range whose pin was applied: one that is not tracked is fatal.
EfiHvUnpinAddressRange(r) ==
    /\ step = "idle" /\ r \in ctx.pinned
    /\ IF r \in ctx.applied
       THEN /\ host' = PinnedAll(host, RangesOf(OfRequest(r)), -1)
            /\ step' = IF OfRequest(r) = <<>> THEN "dead" ELSE "idle"
       ELSE UNCHANGED <<step, host>>
    /\ ctx' = [ctx EXCEPT !.pins = Others(r), !.pinned = @ \ {r}, !.applied = @ \ {r}]
-----------------------------------------------------------------------------
(* EfiHvDisconnectFromHypervisor                                           *)

\* The visible ranges are taken back in the order of the list, then the pins.
EfiHvDisconnectFromHypervisor ==
    /\ step = "idle"
    /\ LET private == FoldSeq(LAMBDA r, acc : Modify(acc, FALSE, r.base, r.count), host, ctx.visible)
       IN  host' = PinnedAll(private, RangesOf(ctx.pins), -1)
    /\ ctx' = [ctx EXCEPT !.visible = <<>>, !.pins = <<>>, !.granted = {}, !.applied = {}, !.pinned = {}]
    /\ step' = "off"

Next ==
    \/ Connect
    \/ \E r \in Ranges : \/ EfiHvMakeAddressRangeHostVisible(r)
                         \/ EfiHvMakeAddressRangeNotHostVisible(r)
                         \/ EfiHvPinAddressRange(r)
                         \/ EfiHvUnpinAddressRange(r)
    \/ EfiHvDisconnectFromHypervisor

Spec == Init /\ [][Next]_vars
-----------------------------------------------------------------------------
(* Properties                                                              *)

\* While the guest runs on, the host sees exactly the pages of the ranges that were made visible
\* for clients (and mHvPages): a hypercall that stops part way leaves nothing visible, and all
\* of a range is visible once the call has succeeded.
VisibleExactly ==
    step \in {"idle", "off"} =>
        host.visible = UNION {PagesOf(r) : r \in ctx.granted}
                         \cup (IF mBypassOnly /\ step = "idle" THEN PagesOf(HvPages) ELSE {})

\* Every page of a pinned range is pinned once or kept pinned by the hypervisor, and no other
\* page is pinned: the list of subranges may be cut short, the range split, or the pinning
\* fail at any gap.
PinsExactly ==
    step \in {"idle", "off"} =>
        \A p \in Pages : host.pins[p] = IF (\E r \in ctx.pinned : p \in PagesOf(r)) /\ p \notin host.always
                                        THEN 1 ELSE 0

\* Hypercall input is read from a page that the host sees.  "Done before the hypercall context is
\* torn down so the unpin hypercalls can still reach the hypervisor."
InputPageReadable == ~host.unreadable
=============================================================================
