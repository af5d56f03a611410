------------------------------- MODULE Vpcivsc -------------------------------
(***************************************************************************)
(* The driver of a virtual PCI bus: it opens the channel, waits for the    *)
(* host's list of devices, maps the base address registers (BARs) of the   *)
(* NVMe and HSM devices, powers them up and offers PCI I/O on each.        *)
(*                                                                         *)
(* The driver waits for the host in every exchange.  The host's lists      *)
(* arrive in a callback, whenever the driver waits, and each one replaces  *)
(* the list the driver is working from.                                    *)
(***************************************************************************)
EXTENDS Integers, Sequences, FiniteSets

CONSTANTS
    DeviceLists,  \* the lists the host may report: sequences of kinds of devices
    BarLayouts,   \* what a device may ask for: a size in pages for each BAR, 0 for none
    GapBase,      \* first page of the MMIO gap
    GapPages,     \* its size
    LargePages,   \* the size from which a length needs an encoding of its own
    SharedGpaBoundary,  \* where the shared alias of memory begins in an isolated VM
    Masks,        \* canonicalization masks: 0, or the bits from the boundary's on
    MaxLists,     \* number of lists the host sends
    Failures      \* the calls that may fail

VARIABLES held, step, ctx, host

vars == <<held, step, ctx, host>>

Bars == 0 .. 5
NoBars == [b \in Bars |-> [start |-> 0, size |-> 0]]
NoDevice == [kind |-> "none", raw |-> [b \in Bars |-> 0], mapped |-> NoBars]

IsNvmeDevice(kind) == kind = "nvme"
IsAziHsmDevice(kind) == kind = "hsm"
Served == {"nvme", "hsm"}
IsServed(kind) == IsNvmeDevice(kind) \/ IsAziHsmDevice(kind)

\* The driver's context: the list (Devices, DeviceCount), the arrays of contexts by
\* kind with the next free index of each, the PCI I/O children, what is left of the
\* MMIO gap, and the kind of VM.  host: lists still to send, and what the host was told
\* of each device.
Init ==
    /\ held = {}
    /\ step = <<"absent">>
    /\ \E isolated \in BOOLEAN, mask \in Masks : ctx = [devices |-> <<>>, arrays |-> [k \in Served |-> <<>>],
              next |-> [k \in Served |-> 1], children |-> {}, signaled |-> FALSE,
              free |-> GapBase, remaining |-> GapPages, ranges |-> {}, outside |-> FALSE,
              isolated |-> isolated, mask |-> mask]
    /\ host = [lists |-> MaxLists, bars |-> {}]
-----------------------------------------------------------------------------
(* AllocateMmioPages: never given back, aligned to the size asked for.     *)

AlignValue(x, a) == ((x + a - 1) \div a) * a
MmioBase(c, pages) == AlignValue(c.free, pages)
MmioFits(c, pages) == pages > 0 /\ MmioBase(c, pages) - c.free + pages <= c.remaining
AllocateMmioPagesUnaligned(c, pages) ==
    [c EXCEPT !.free = @ + pages, !.remaining = @ - pages,
              !.ranges = @ \cup {<<MmioBase(c, pages), pages>>}]
AllocateMmioPages(c, pages) ==
    LET total == MmioBase(c, pages) - c.free + pages
    IN  [c EXCEPT !.free = @ + total, !.remaining = @ - total,
                  !.ranges = @ \cup {<<MmioBase(c, pages), pages>>}]
-----------------------------------------------------------------------------
(* VpcivscDriverBindingStart                                               *)

Acquisitions == <<"emcl", "context", "emclOpen", "devicePath", "busEvent", "timer", "channel">>

\* A failed start gives back what it has, save its timer and those of its exchanges;
\* the children stay installed, on contexts that are freed.
Cleanup(h) == h \cap {"timer", "exchangeTimer"}
Fail ==
    /\ held' = Cleanup(held)
    /\ step' = <<"failed">>
    /\ UNCHANGED <<ctx, host>>

Start ==
    /\ step = <<"absent">>
    /\ step' = <<"acquire", 1>>
    /\ UNCHANGED <<held, ctx, host>>

\* The calls before the exchanges with the host, VpciChannelOpen the last.
Acquire ==
    /\ step[1] = "acquire"
    /\ LET call == Acquisitions[step[2]] IN
       \/ call \in Failures /\ Fail
       \/ /\ held' = held \cup {call}
          /\ step' = IF step[2] = Len(Acquisitions) THEN <<"negotiate">>
                                                    ELSE <<"acquire", step[2] + 1>>
          /\ UNCHANGED <<ctx, host>>

\* VpciChannelSendPacketSync closes the event of the completion, never that of its
\* timer.  An exchange that fails may have failed before or after it created the timer.
ExchangeTimer(h) == h \cup {"exchangeTimer"}
ExchangeFails(call) ==
    /\ call \in Failures
    /\ \E h \in {held, ExchangeTimer(held)} : held' = Cleanup(h)
    /\ step' = <<"failed">>
    /\ UNCHANGED <<ctx, host>>

\* VpciChannelNegotiateProtocol: one exchange, which the host may refuse.
VpciChannelNegotiateProtocol ==
    /\ step = <<"negotiate">>
    /\ \/ ExchangeFails("negotiation")
       \/ /\ held' = ExchangeTimer(held)
          /\ step' = <<"fdoD0">>
          /\ UNCHANGED <<ctx, host>>

\* VpciChannelFdoD0Entry: two pages of configuration space.
ConfigSpacePages == 2
VpciChannelFdoD0Entry ==
    /\ step = <<"fdoD0">>
    /\ \/ ~MmioFits(ctx, ConfigSpacePages) /\ Fail
       \/ ExchangeFails("fdoD0")
       \/ /\ MmioFits(ctx, ConfigSpacePages)
          /\ ctx' = AllocateMmioPages(ctx, ConfigSpacePages)
          /\ step' = <<"wait">>
          /\ UNCHANGED <<held, host>>

\* VpciChannelReceivePacketCallback: a list of devices.  It runs while the driver
\* waits for the host, so also after the list the driver started from.
VpciChannelReceivePacketCallback(list) ==
    /\ "channel" \in held /\ host.lists > 0
    /\ ctx' = [ctx EXCEPT !.devices = list, !.signaled = TRUE]
    /\ host' = [host EXCEPT !.lists = @ - 1]
    /\ UNCHANGED <<held, step>>

\* With the list there, the devices of each kind are counted and their contexts
\* allocated.  Without a device the driver stays started and has nothing to offer.
CountOf(k) == Cardinality({i \in 1 .. Len(ctx.devices) : ctx.devices[i] = k})
CountDevices ==
    /\ step = <<"wait">> /\ ctx.signaled
    /\ \/ /\ \A k \in Served : CountOf(k) = 0
          /\ held' = held \ {"busEvent", "timer"}
          /\ step' = <<"started">>
          /\ UNCHANGED ctx
       \/ /\ \E k \in Served : CountOf(k) # 0
          /\ held' = held \ {"busEvent", "timer"}
          /\ step' = <<"device", 1, "next">>
          /\ ctx' = [ctx EXCEPT
                 !.arrays = [k \in Served |-> [i \in 1 .. CountOf(k) |-> NoDevice]]]
       \/ /\ "arrays" \in Failures /\ \E k \in Served : CountOf(k) # 0
          /\ held' = Cleanup(held \ {"timer"})
          /\ step' = <<"failed">>
          /\ UNCHANGED ctx
    /\ UNCHANGED host
-----------------------------------------------------------------------------
(* One device after the other.                                             *)

Index == step[2]
Kind == ctx.devices[Index]
At(stage) == step[1] = "device" /\ step[3] = stage
Goto(stage) == step' = <<"device", Index, stage, step[4], step[5]>>
Dev == ctx.arrays[step[4]][step[5]]

\* InitializeVpciDeviceContext: a context of the device's kind is taken, unless the
\* list has grown since the contexts were counted.
NextDevice ==
    /\ At("next")
    /\ \/ /\ Index > Len(ctx.devices)
          /\ step' = <<"started">>
          /\ UNCHANGED <<held, ctx, host>>
       \/ /\ Index <= Len(ctx.devices) /\ ~IsServed(Kind)
          /\ step' = <<"device", Index + 1, "next">>
          /\ UNCHANGED <<held, ctx, host>>
       \/ /\ Index <= Len(ctx.devices) /\ IsServed(Kind)
          /\ ctx.next[Kind] > Len(ctx.arrays[Kind])
          /\ Fail
       \/ /\ Index <= Len(ctx.devices) /\ IsServed(Kind)
          /\ ctx.next[Kind] <= Len(ctx.arrays[Kind])
          /\ step' = <<"device", Index, "query", Kind, ctx.next[Kind]>>
          /\ ctx' = [ctx EXCEPT !.next[Kind] = @ + 1,
                                !.arrays[Kind][ctx.next[Kind]].kind = Kind]
          /\ UNCHANGED <<held, host>>

\* VpciChannelPdoQueryResourceRequirements: the host's masks of the six BARs.
VpciChannelPdoQueryResourceRequirements ==
    /\ At("query")
    /\ \/ ExchangeFails("query")
       \/ \E raw \in BarLayouts :
              /\ ctx' = [ctx EXCEPT !.arrays[step[4]][step[5]].raw = raw]
              /\ Goto("bars")
              /\ UNCHANGED <<held, host>>

\* VpciParseAndAllocateBars: every BAR is a 64-bit one and takes two registers.  A size
\* of -1 stands for a BAR of another type.  The result is the contexts' next value,
\* or no value when a BAR cannot be mapped.
VpciParseAndAllocateBars(c, raw) ==
    LET Mapped(r, b) ==
            IF ~r.ok \/ b < r.skip \/ raw[b] = 0 THEN r
            ELSE IF raw[b] < 0 \/ b = 5 \/ ~MmioFits(r.c, raw[b]) THEN [r EXCEPT !.ok = FALSE]
            ELSE [ok |-> TRUE, skip |-> b + 2, c |-> AllocateMmioPages(r.c, raw[b]),
                  bars |-> [r.bars EXCEPT ![b] = [start |-> MmioBase(r.c, raw[b]), size |-> raw[b]]]]
        result[b \in -1 .. 5] ==
            IF b = -1 THEN [ok |-> TRUE, skip |-> 0, c |-> c, bars |-> NoBars]
                      ELSE Mapped(result[b - 1], b)
    IN  result[5]

ParseBars ==
    LET r == VpciParseAndAllocateBars(ctx, Dev.raw)
    IN  /\ At("bars")
        /\ \/ ~r.ok /\ held' = Cleanup(held) /\ step' = <<"failed">> /\ ctx' = r.c
           \/ /\ r.ok
              /\ ctx' = [r.c EXCEPT !.arrays[step[4]][step[5]].mapped = r.bars]
              /\ Goto("assign")
              /\ UNCHANGED held
        /\ UNCHANGED host

\* EncodeBar: from LargePages on the shifted length is stored over the start.
EncodeBar(bar) ==
    IF bar.size < LargePages THEN bar ELSE [start |-> bar.size, size |-> 0]

\* The alias of a page above the shared GPA boundary, with the bits of the mask set.
Shared(page) ==
    LET alias == page + SharedGpaBoundary
    IN  IF ctx.mask = 0 THEN alias ELSE ctx.mask + (alias % SharedGpaBoundary)
ClientAddress(page) == IF ctx.isolated THEN Shared(page) ELSE page

\* VpciChannelPdoSendAssignedResourcesMessage: the host is told where the BARs are; in
\* an isolated VM the driver itself uses the shared alias from then on.
VpciChannelPdoSendAssignedResourcesMessage ==
    /\ At("assign")
    /\ \/ ExchangeFails("assign")
       \/ LET mapped == {x \in Bars : Dev.mapped[x].size # 0} IN
          /\ host' = [host EXCEPT !.bars = @ \cup
                {<<step[4], step[5], b, EncodeBar(Dev.mapped[b])>> : b \in mapped}]
          /\ ctx' = [ctx EXCEPT !.arrays[step[4]][step[5]].mapped =
                [b \in Bars |-> IF b \in mapped THEN [@[b] EXCEPT !.start = ClientAddress(@)]
                                                ELSE @[b]]]
          /\ Goto("power")
          /\ UNCHANGED held

\* VpciChannelPdoD0Entry.
VpciChannelPdoD0Entry ==
    /\ At("power")
    /\ \/ ExchangeFails("power")
       \/ Goto("child") /\ UNCHANGED <<held, ctx, host>>

\* VpciCreateChildDevice: PCI I/O and a device path on a handle of its own, which is
\* then opened by the child; when that fails they stay installed.
VpciCreateChildDevice ==
    /\ At("child")
    /\ \/ "child" \in Failures /\ Fail
       \/ /\ "childOpen" \in Failures
          /\ ctx' = [ctx EXCEPT !.children = @ \cup {<<step[4], step[5]>>}]
          /\ held' = Cleanup(held)
          /\ step' = <<"failed">>
          /\ UNCHANGED host
       \/ /\ ctx' = [ctx EXCEPT !.children = @ \cup {<<step[4], step[5]>>}]
          /\ step' = <<"device", Index + 1, "next">>
          /\ UNCHANGED <<held, host>>

\* VpcivscDriverBindingStop.  With children the call fails at its first OpenProtocol,
\* which is passed a null pointer for the interface, and changes nothing.
VpcivscDriverBindingStop ==
    /\ step = <<"started">> /\ ctx.children = {}
    /\ held' = held \ {"channel", "context", "emclOpen", "devicePath", "emcl"}
    /\ step' = <<"stopped">>
    /\ UNCHANGED <<ctx, host>>
-----------------------------------------------------------------------------
(* PCI I/O on a child, in arithmetic modulo W.                             *)

\* DecodePciIoProtocolWidth.
Widths == {1, 2, 4, 8}
W == 16

\* VpcivscValidateBarAccess: count items of a width from an offset of a BAR.
VpcivscValidateBarAccess(size, width, offset, count) ==
    LET total == (count * width + offset) % W
    IN  total >= offset /\ total <= size

\* VpcivscPciIoMemRead and VpcivscPciIoMemWrite: whether one that is let through leaves
\* the BAR.  A client's own size, count * width, can be represented.
PciIoMem ==
    /\ "context" \in held
    /\ \E c \in ctx.children : \E b \in Bars, width \in Widths, offset \in 0 .. W - 1, count \in 0 .. 2 :
           LET size == ctx.arrays[c[1]][c[2]].mapped[b].size IN
           /\ count * width < W
           /\ VpcivscValidateBarAccess(size, width, offset, count)
           /\ ctx' = [ctx EXCEPT !.outside = @ \/ offset + count * width > size]
           /\ UNCHANGED <<held, step, host>>
-----------------------------------------------------------------------------
Next ==
    \/ Start \/ Acquire \/ VpciChannelNegotiateProtocol \/ VpciChannelFdoD0Entry
    \/ \E list \in DeviceLists : VpciChannelReceivePacketCallback(list)
    \/ CountDevices \/ NextDevice \/ VpciChannelPdoQueryResourceRequirements \/ ParseBars
    \/ VpciChannelPdoSendAssignedResourcesMessage \/ VpciChannelPdoD0Entry
    \/ VpciCreateChildDevice \/ VpcivscDriverBindingStop \/ PciIoMem

Spec == Init /\ [][Next]_vars
-----------------------------------------------------------------------------

\* A child's context lives as long as the child.
ChildrenLive == ctx.children # {} => "context" \in held

\* Whatever list the host sends while the driver works through an earlier one, no
\* context outside the arrays counted from the first is used, and each child has one
\* of its kind; no access of a client leaves the BAR it is for.
ContextsInBounds ==
    /\ ~ctx.outside
    /\ \A k \in Served : ctx.next[k] <= Len(ctx.arrays[k]) + 1
    /\ \A c \in ctx.children : ctx.arrays[c[1]][c[2]].kind = c[1]

\* The configuration space and all BARs of all devices lie in the MMIO gap, apart
\* from each other, each aligned to its size.
MmioRangesDisjoint ==
    /\ \A r \in ctx.ranges : r[1] % r[2] = 0 /\ r[1] >= GapBase /\ r[1] + r[2] <= GapBase + GapPages
    /\ \A r, s \in ctx.ranges : r # s => r[1] + r[2] <= s[1] \/ s[1] + s[2] <= r[1]

\* The host has been told of every BAR below the first limit of a device that is
\* offered, where it is and how large it is, and the driver's clients reach it there:
\* at the same address or, in an isolated VM, at its shared alias.
BarsAsMapped ==
    \A c \in ctx.children : \A b \in Bars :
        LET bar == ctx.arrays[c[1]][c[2]].mapped[b] IN
        bar.size \in 1 .. LargePages - 1 =>
            \E told \in host.bars :
                /\ told[1] = c[1] /\ told[2] = c[2] /\ told[3] = b
                /\ told[4].size = bar.size /\ ClientAddress(told[4].start) = bar.start

\* Not so: the same for BARs of all sizes.
LargeBarsAsMapped ==
    \A c \in ctx.children : \A b \in Bars :
        LET bar == ctx.arrays[c[1]][c[2]].mapped[b] IN
        bar.size # 0 =>
            \E told \in host.bars :
                /\ told[1] = c[1] /\ told[2] = c[2] /\ told[3] = b
                /\ told[4].size = bar.size /\ ClientAddress(told[4].start) = bar.start
==============================================================================
