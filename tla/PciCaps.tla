------------------------------- MODULE PciCaps -------------------------------
(***************************************************************************)
(* The capabilities of a PCI device: the library that walks the two lists  *)
(* in config space into an ordered collection (BasePciCapLib), the access  *)
(* to config space below it (UefiPciCapPciIoLib), and the virtio driver    *)
(* that looks its register blocks up in the collection (ParseCapabilities  *)
(* of Virtio10Dxe).                                                        *)
(*                                                                         *)
(* Offsets are the real byte offsets.  A device is a record of where its   *)
(* lists start and of the header found at each offset; lists may loop.     *)
(***************************************************************************)
EXTENDS Integers, Sequences, FiniteSets, FiniteSetsExt

CONSTANTS
    Devices,    \* the devices: records [caps, first, normal, extended]
    Failures    \* the calls that may fail: "pool", "read", "readExtended"

VARIABLES
    held,   \* allocations: "proto", "list", "capabilities", "offsets"
    step,   \* "start", "normal", "extended", "hints", "parse", "done", "failed"
    ctx,    \* the collections under construction and the register blocks found
    host    \* the device

vars == <<held, step, ctx, host>>

PCI_MAX_CONFIG_OFFSET == 256
PCI_EXP_MAX_CONFIG_OFFSET == 4096
EFI_PCI_CAPABILITY_ID_VENDOR == 9
EFI_PCI_CAPABILITY_ID_PCIEXP == 16
SizeofVirtIoCap == 16
SizeofMultiplier == 4

\* The two low bits of a pointer are reserved: & 0xFC, & 0xFFC.
Masked(pointer) == pointer - (pointer % 4)

NoBlock == [exists |-> FALSE, from |-> 0, bar |-> "none"]

\* PCI_CAP_LIST: caps maps a key <<domain, id, instance>> to offset, version and MaxSizeHint; num
\* is the NumInstances kept in instance zero; offsets is CapHdrOffsets; live counts the PCI_CAPs
\* allocated; reads the bytes <<offset, size>> of the last accesses to config space.
Init ==
    /\ held = {}
    /\ step = "start"
    /\ ctx = [caps |-> [k \in {} |-> 0], num |-> [k \in {} |-> 0], offsets |-> {}, live |-> 0, at |-> 0,
              express |-> FALSE, vendor |-> 0, multiplier |-> 0, reads |-> {},
              blocks |-> [b \in {"common", "notify", "specific"} |-> NoBlock]]
    /\ host \in Devices

With(f, k, v) == [x \in DOMAIN f \cup {k} |-> IF x = k THEN v ELSE f[x]]

-----------------------------------------------------------------------------
\* UefiPciCapPciIoLib.

\* The widest access that is aligned and fits: a run of dwords, a word or a byte.  Accesses are
\* triples of offset, width and count.
RECURSIVE ProtoDevTransferConfig(_, _)
ProtoDevTransferConfig(offset, size) ==
    IF size = 0 THEN <<>>
    ELSE LET w == IF size >= 4 /\ offset % 4 = 0 THEN 4
                  ELSE IF size >= 2 /\ offset % 2 = 0 THEN 2 ELSE 1
             n == IF w = 4 THEN size \div 4 ELSE 1
         IN  <<[offset |-> offset, width |-> w, count |-> n]>>
             \o ProtoDevTransferConfig(offset + w * n, size - w * n)

-----------------------------------------------------------------------------
\* BasePciCapLib.
Free(c) == [c EXCEPT !.live = @ - Cardinality(DOMAIN c.caps), !.caps = [k \in {} |-> 0]]

\* Every path that fails empties both collections, then frees the list itself; the device is
\* released by the caller.
Fail(c) ==
    /\ step' = "failed"
    /\ held' = {}
    /\ ctx' = [Free(c) EXCEPT !.offsets = {}]
    /\ UNCHANGED host

Key(c, domain, id) ==
    <<domain, id, IF <<domain, id>> \in DOMAIN c.num THEN c.num[<<domain, id>>] ELSE 0>>

\* The new PCI_CAP goes into both collections, or into none: an offset that is already linked
\* means that the list loops, and the new PCI_CAP is unlinked and freed again.
InsertPciCap(c, domain, id, offset, version) ==
    LET key  == Key(c, domain, id)
        in   == [c EXCEPT !.caps = With(@, key, [offset |-> offset, version |-> version, hint |-> 0]),
                          !.live = @ + 1]
    IN  IF offset \in c.offsets
        THEN [status |-> "device error", ctx |-> [in EXCEPT !.caps = c.caps, !.live = c.live]]
        ELSE [status |-> "success",
              ctx |-> [in EXCEPT !.offsets = @ \cup {offset},
                                 !.num = With(@, <<domain, id>>, key[3] + 1)]]

\* A capability extends to the next header, but not across the end of its config space.
CalculatePciCapMaxSizeHintToEnd(offset, domain, offsets) ==
    (IF domain = "normal" THEN PCI_MAX_CONFIG_OFFSET ELSE PCI_EXP_MAX_CONFIG_OFFSET) - offset

CalculatePciCapMaxSizeHint(offset, domain, offsets) ==
    LET later == {o \in offsets : o > offset}
        end   == IF domain = "normal" THEN PCI_MAX_CONFIG_OFFSET ELSE PCI_EXP_MAX_CONFIG_OFFSET
    IN  (IF later = {} \/ Min(later) >= end THEN end ELSE Min(later)) - offset

\* PciCapListInit up to the first pointer of the normal list.
PciCapListInit ==
    /\ step = "start"
    /\ \/ "pool" \in Failures /\ Fail(ctx)
       \/ "read" \in Failures /\ Fail(ctx)
       \/ /\ held' = {"proto", "list", "capabilities", "offsets"}
          /\ step' = IF host.caps /\ Masked(host.first) # 0 THEN "normal" ELSE "hints"
          /\ ctx' = [ctx EXCEPT !.at = Masked(host.first)]
          /\ UNCHANGED host

\* One turn of the loop over the normal capabilities.
WalkNormal ==
    /\ step = "normal"
    /\ LET h == host.normal[ctx.at]
           r == InsertPciCap(ctx, "normal", h.id, ctx.at, 0)
           next == Masked(h.next)
           c == [r.ctx EXCEPT !.express = @ \/ h.id = EFI_PCI_CAPABILITY_ID_PCIEXP, !.at = next]
       IN  \/ Failures \cap {"read", "pool"} # {} /\ Fail(ctx)
           \/ r.status # "success" /\ Fail(r.ctx)
           \/ /\ r.status = "success"
              /\ step' = IF next # 0 THEN "normal" ELSE IF c.express THEN "extended" ELSE "hints"
              /\ ctx' = IF next = 0 THEN [c EXCEPT !.at = PCI_MAX_CONFIG_OFFSET] ELSE c
              /\ UNCHANGED <<held, host>>

\* One turn of the loop over the extended capabilities.  The first access may fail or find zeros:
\* there are none then.  A pointer back into the normal config space is an error.
WalkExtended ==
    /\ step = "extended"
    /\ LET h     == host.extended[ctx.at]
           r     == InsertPciCap(ctx, "extended", h.id, ctx.at, h.version)
           first == ctx.at = PCI_MAX_CONFIG_OFFSET
           none  == first /\ h.id = 0 /\ h.version = 0 /\ h.next = 0
           next  == Masked(h.next)
           wrong == next \in 1 .. PCI_MAX_CONFIG_OFFSET - 1
       IN  \/ /\ none \/ (first /\ "readExtended" \in Failures)
              /\ step' = "hints"
              /\ UNCHANGED <<held, ctx, host>>
           \/ ~none /\ ~first /\ "readExtended" \in Failures /\ Fail(ctx)
           \/ ~none /\ "pool" \in Failures /\ Fail(ctx)
           \/ ~none /\ (r.status # "success" \/ wrong) /\ Fail(r.ctx)
           \/ /\ ~none /\ r.status = "success" /\ ~wrong
              /\ step' = IF next # 0 THEN "extended" ELSE "hints"
              /\ ctx' = [r.ctx EXCEPT !.at = next]
              /\ UNCHANGED <<held, host>>

\* The size hints are computed in the order of the offsets while CapHdrOffsets is emptied.
ComputeHints ==
    /\ step = "hints"
    /\ step' = "parse"
    /\ held' = held \ {"offsets"}
    /\ ctx' = [ctx EXCEPT
           !.caps = [k \in DOMAIN ctx.caps |->
               [ctx.caps[k] EXCEPT !.hint = CalculatePciCapMaxSizeHint(ctx.caps[k].offset, k[1], ctx.offsets)]],
           !.offsets = {}]
    /\ UNCHANGED host

PciCapListFindCap(c, domain, id, instance) ==
    IF <<domain, id, instance>> \in DOMAIN c.caps THEN {c.caps[<<domain, id, instance>>]} ELSE {}

\* The first instance, in the order of the list, that has the version asked for.
PciCapListFindCapVersion(c, domain, id, version) ==
    LET fit == {i \in 0 .. 8 : \E cap \in PciCapListFindCap(c, domain, id, i) : cap.version >= version}
    IN  IF fit = {} THEN {} ELSE PciCapListFindCap(c, domain, id, Min(fit))

\* PciCapRead may not leave the capability.
PciCapReadFits(cap, offset, size) == offset + size <= cap.hint

-----------------------------------------------------------------------------
\* ParseCapabilities of the virtio driver.

\* PciCapListUninit and PciCapPciIoDeviceUninit.
Uninit(c, result) ==
    /\ step' = result
    /\ held' = {}
    /\ ctx' = Free(c)
    /\ UNCHANGED host

\* What is read of a vendor capability: its length, the virtio header, the multiplier.
ReadsOf(cap, h) ==
    {<<cap.offset + 2, 1>>}
    \cup (IF h.length >= SizeofVirtIoCap THEN {<<cap.offset, SizeofVirtIoCap>>} ELSE {})
    \cup (IF h.length >= SizeofVirtIoCap + SizeofMultiplier /\ h.type = "notify"
          THEN {<<cap.offset + SizeofVirtIoCap, SizeofMultiplier>>} ELSE {})

\* The register block a capability describes: its location is saved before the multiplier is
\* read, and the block exists once everything was.
Parsed(c, cap, h) ==
    LET block    == [c.blocks[h.type] EXCEPT !.from = cap.offset, !.bar = h.bar]
        tooSmall == h.type = "notify" /\ h.length < SizeofVirtIoCap + SizeofMultiplier
    IN  [c EXCEPT !.blocks[h.type] = IF tooSmall THEN block ELSE [block EXCEPT !.exists = TRUE],
                  !.multiplier = IF h.type = "notify" /\ ~tooSmall THEN cap.offset ELSE @]

ParseCapability(cap) ==
    LET h     == host.normal[cap.offset]
        reads == ReadsOf(cap, h)
        fits  == \A r \in reads : PciCapReadFits(cap, r[1] - cap.offset, r[2])
        known == h.length >= SizeofVirtIoCap /\ h.type \in {"common", "notify", "specific"}
        c     == [ctx EXCEPT !.vendor = @ + 1, !.reads = IF fits THEN reads ELSE {}]
    IN  \/ (~fits \/ "read" \in Failures \/ (known /\ h.bar = "none")) /\ Uninit(c, "failed")
        \/ /\ fits
           /\ known => h.bar # "none"
           /\ ctx' = IF known THEN Parsed(c, cap, h) ELSE c
           /\ UNCHANGED <<held, step, host>>

\* The vendor capabilities are looked up one instance after the other, until there is none.
ParseCapabilities ==
    /\ step = "parse"
    /\ LET found == PciCapListFindCap(ctx, "normal", EFI_PCI_CAPABILITY_ID_VENDOR, ctx.vendor)
       IN  \/ found = {} /\ Uninit(ctx, "done")
           \/ \E cap \in found : ParseCapability(cap)

Next == PciCapListInit \/ WalkNormal \/ WalkExtended \/ ComputeHints \/ ParseCapabilities

Spec == Init /\ [][Next]_vars

-----------------------------------------------------------------------------

\* The headers from an offset on, in the order of the list.
RECURSIVE Listed(_, _)
Listed(headers, at) ==
    IF at = 0 THEN <<>> ELSE <<at>> \o Listed(headers, 4 * (headers[at].next \div 4))

\* Once both lists are parsed, instance i of a capability is the i-th header with its identifier
\* in the order of the list, no header is missing, NumInstances counts them, and asking for a
\* version gives the first instance that has it (PciCapListFindCap, PciCapListFindCapVersion).
InstancesInOrder ==
    (step = "parse" /\ host.caps) =>
        LET order  == Listed(host.normal, 4 * (host.first \div 4))
            Of(id) == SelectSeq(order, LAMBDA o : host.normal[o].id = id)
            ids    == {host.normal[o].id : o \in {order[i] : i \in DOMAIN order}}
        IN  /\ \A id \in ids :
                 /\ ctx.num[<<"normal", id>>] = Len(Of(id))
                 /\ \A i \in 0 .. Len(Of(id)) :
                      {c.offset : c \in PciCapListFindCap(ctx, "normal", id, i)}
                          = IF i = Len(Of(id)) THEN {} ELSE {Of(id)[i + 1]}
            /\ \A k \in DOMAIN ctx.caps, v \in 0 .. 2 :
                 k[1] = "extended" =>
                   \A c \in PciCapListFindCapVersion(ctx, "extended", k[2], v) : c.version >= v

\* The part of config space that reads and writes of a capability may touch belongs to no other
\* capability and does not leave its config space; and the accesses a transfer is split into are
\* aligned and cover exactly the bytes asked for (CalculatePciCapMaxSizeHint, PciCapRead,
\* ProtoDevTransferConfig).
CapabilitiesDisjoint ==
    step = "parse" =>
        /\ \A k \in DOMAIN ctx.caps :
             LET c == ctx.caps[k]
             IN  /\ c.hint > 0
                 /\ k[1] = "normal" => c.offset + c.hint <= PCI_MAX_CONFIG_OFFSET
                 /\ k[1] = "extended" => c.offset + c.hint <= PCI_EXP_MAX_CONFIG_OFFSET
                 /\ \A l \in DOMAIN ctx.caps \ {k} :
                      ctx.caps[l].offset \notin c.offset .. c.offset + c.hint - 1
        /\ \A r \in ctx.reads :
             LET t == ProtoDevTransferConfig(r[1], r[2])
             IN  /\ UNION {t[i].offset .. t[i].offset + t[i].width * t[i].count - 1 : i \in DOMAIN t}
                        = r[1] .. r[1] + r[2] - 1
                 /\ \A i \in DOMAIN t : t[i].offset % t[i].width = 0
                 /\ \E k \in DOMAIN ctx.caps :
                      r[1] >= ctx.caps[k].offset
                        /\ r[1] + r[2] <= ctx.caps[k].offset + ctx.caps[k].hint

\* Where a register block is and how it is addressed come from one capability: the notification
\* block's place and its multiplier (ParseCapabilities).
BlockFromOneCapability ==
    ctx.blocks["notify"].exists => ctx.multiplier = ctx.blocks["notify"].from
=============================================================================
