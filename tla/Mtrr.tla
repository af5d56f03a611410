--------------------------------- MODULE Mtrr ---------------------------------
(***************************************************************************)
(* LegacyMtrrLib: the library that programs the memory type range          *)
(* registers (MTRRs) of a processor.                                       *)
(*                                                                         *)
(* A caller asks for a cache type on some address ranges.  The library     *)
(* reads the variable registers into a list of ranges that tiles the       *)
(* address space, changes the list, and computes a small set of registers  *)
(* that says the same: blocks of a power of two, where a block of a        *)
(* weaker type may be overlaid by smaller blocks of a type that wins over  *)
(* it.  The computation is a shortest path between the addresses where     *)
(* blocks may begin.  The first megabyte has registers of its own, one     *)
(* slot per fixed piece of memory.                                         *)
(*                                                                         *)
(* Addresses and lengths are counted in pages; `Low` pages stand for the   *)
(* first megabyte.  A register that is not valid has length 0.             *)
(***************************************************************************)
EXTENDS Integers, Sequences, FiniteSets, FiniteSetsExt, SequencesExt

CONSTANTS
    Top,          \* pages of the address space, a power of two
    Low,          \* pages below 1 MB
    FixedTable,   \* mMtrrLibFixedMtrrTable: <<[base, len]>>, len per slot
    SlotsPerMsr,  \* slots of a fixed register (8 in the code)
    Registers,    \* number of variable registers
    Reserved,     \* PcdCpuNumberOfReservedVariableMtrrs
    RangeRoom,    \* entries of the array WorkingRanges
    VertexRoom,   \* vertices the scratch buffer has room for
    Defaults,     \* default types the boot environment may have chosen
    Requests,     \* the lists of ranges callers ask for
    MaxCalls      \* bound on the calls

VARIABLES
    step,  \* what the library does next
    ctx,   \* what is left to write, and the settings a caller has saved
    call,  \* the call under way or the last one: request, status, old registers
    host   \* the processor: registers, and whether MTRRs and caches are on

vars == <<step, ctx, call, host>>

UC == 0
WC == 1
WT == 4
WP == 5
WB == 6
CacheTypes == {UC, WC, WT, WP, WB}

(***************************************************************************)
(* Lists of ranges.                                                        *)
(***************************************************************************)
MtrrRange(b, l, t) == [base |-> b, len |-> l, type |-> t]

End(r) == r.base + r.len

Covers(r, a) == r.base <= a /\ a < End(r)

IndexOf(rs, a) == CHOOSE i \in DOMAIN rs : Covers(rs[i], a)

\* The entries between the first and the last one are closed up, or room is
\* made, before the entry to the right of the new one is written: its type is
\* read from where the last entry stood, after the move.
Overwritten(rs, e, delta) == delta > 0 /\ e + delta <= Len(rs)
TypeAfterMove(rs, e, delta) ==
    IF Overwritten(rs, e, delta) THEN rs[e + delta].type ELSE rs[e].type

Replaced(rs, s, e, left, right, new, delta) ==
    SubSeq(rs, 1, s - 1)
    \o (IF left > 0 THEN <<[rs[s] EXCEPT !.len = left]>> ELSE <<>>)
    \o <<new>>
    \o (IF right > 0 THEN <<MtrrRange(End(new), right, TypeAfterMove(rs, e, delta))>> ELSE <<>>)
    \o SubSeq(rs, e + 1, Len(rs))

One(b) == IF b THEN 1 ELSE 0

\* s and e are the entries the range begins and ends in; the new range takes in
\* a neighbour of its type that it touches.
Merged(rs, s, e, base, limit, type) ==
    LET left    == base - rs[s].base
        right   == End(rs[e]) - limit
        before  == s > 1 /\ left = 0 /\ rs[s - 1].type = type
        after   == e < Len(rs) /\ right = 0 /\ rs[e + 1].type = type
        first   == s - One(before)
        final   == e + One(after)
        b       == IF before THEN rs[s - 1].base ELSE base
        l       == IF after THEN End(rs[e + 1]) ELSE limit
        delta   == final - first - 2 + One(left = 0) + One(right = 0)
    IN  [ranges  |-> Replaced(rs, first, final, left, right, MtrrRange(b, l - b, type), delta),
         misread |-> right > 0 /\ Overwritten(rs, final, delta)]

Set(status, rs, misread) == [status |-> status, ranges |-> rs, misread |-> misread]

SetMemoryTypeAt(rs, s, e, base, limit, type) ==
    IF s = e /\ rs[s].type = type THEN Set("alreadyStarted", rs, FALSE)
    ELSE LET new == Merged(rs, s, e, base, limit, type)
         IN  IF Len(new.ranges) > RangeRoom THEN Set("outOfResources", rs, FALSE)
             ELSE Set("success", new.ranges, new.misread)

MtrrLibSetMemoryType(rs, base, len, type) ==
    SetMemoryTypeAt(rs, IndexOf(rs, base), IndexOf(rs, base + len - 1),
                    base, base + len, type)

Noted(st, result) ==
    [status |-> result.status, ranges |-> result.ranges,
     modified |-> st.modified \/ result.status = "success",
     misread |-> st.misread \/ result.misread]

\* Set one after the other; the callers stop when the list is full.
RECURSIVE SetAll(_, _)
SetAll(st, todo) ==
    IF todo = <<>> \/ st.status = "outOfResources" THEN st
    ELSE LET r == Head(todo)
         IN  SetAll(Noted(st, MtrrLibSetMemoryType(st.ranges, r.base, r.len, r.type)), Tail(todo))

\* Whether a type was misread is no part of the program: it is kept for what follows.
Unmodified(rs, misread) ==
    [status |-> "success", ranges |-> rs, modified |-> FALSE, misread |-> misread]

\* Write back first, uncacheable last, so that the type that wins stands.
MtrrLibApplyVariableMtrrs(variables, rs) ==
    LET valid(keep) == SelectSeq(variables, LAMBDA r : r.len # 0 /\ r.type \in keep)
    IN  SetAll(Unmodified(rs, FALSE),
               valid({WB}) \o valid(CacheTypes \ {WB, UC}) \o valid({UC}))

(***************************************************************************)
(* The graph: one vertex where each block begins, and the end.  A block is *)
(* the largest one that is aligned and fits in what is left of its range.  *)
(***************************************************************************)
Powers == {2 ^ i : i \in 0..16}

MtrrLibIsPowerOfTwo(n) == n \in Powers

GetPowerOfTwo64(n) == Max({p \in Powers : p <= n})

\* No block is larger than half the address space.
MtrrLibBiggestAlignment(a) ==
    IF a = 0 THEN Top \div 2 ELSE Max({p \in Powers : a % p = 0})

Lesser(a, b) == IF a < b THEN a ELSE b

Vertex(a, len, type) ==
    [addr |-> a, align |-> MtrrLibBiggestAlignment(a), len |-> len, type |-> type]

RECURSIVE Blocks(_)
Blocks(r) ==
    IF r.len = 0 THEN <<>>
    ELSE LET n == Lesser(MtrrLibBiggestAlignment(r.base), GetPowerOfTwo64(r.len))
         IN  <<Vertex(r.base, n, r.type)>> \o Blocks(MtrrRange(r.base + n, r.len - n, r.type))

Vertices(rs) ==
    FlattenSeq([i \in DOMAIN rs |-> Blocks(rs[i])]) \o <<Vertex(End(rs[Len(rs)]), 0, UC)>>

TypesIn(v, s, t) == {v[i].type : i \in s..(t - 1)}

Extent(v, s, t) == v[t].addr - v[s].addr

\* Of the types of a block the one with the highest number loses to the others.
MtrrLibLowestTypeStrongest(types) == Min(types)

MtrrLibLowestType(types) == Max(types)

Infinite == 255

\* May one register cover the vertices s to t, with `count` types below it?
Coverable(v, s, t) ==
    /\ t > s + 1
    /\ Extent(v, s, t) <= v[s].align
    /\ MtrrLibIsPowerOfTwo(Extent(v, s, t))

\* The search for two types gives up at the first block that has not got two.
OfTwoTypes(v, s, t) ==
    \A u \in (s + 2)..t :
        Coverable(v, s, u) => Cardinality(TypesIn(v, s, u)) = 2

\* The maximal runs of vertices within s..t that do not have the lowest type.
Holes(v, s, t, lowest) ==
    SetToSortSeq(
        {<<a, b>> \in (s..(t - 1)) \X ((s + 1)..t) :
            /\ a < b
            /\ \A i \in a..(b - 1) : v[i].type # lowest
            /\ a = s \/ v[a - 1].type = lowest
            /\ b = t \/ v[b].type = lowest},
        LAMBDA x, y : x[1] < y[1])

(***************************************************************************)
(* Weight[<<x, y>>] with x < y is the number of registers that an edge     *)
(* needs; Weight[<<y, x>>] is what it needs more where the default type    *)
(* does not show through, inside a larger block.                           *)
(***************************************************************************)
M(x, y) == <<x, y>>
O(x, y) == <<y, x>>

\* One round of the shortest-path search: relax the edges of the vertex `at`,
\* then visit the nearest vertex.
Reached(w, d, i, optional) ==
    d.dist[d.at] + w[M(d.at, i)] + (IF optional THEN w[O(d.at, i)] ELSE 0)

Relaxed(w, d, optional) ==
    LET better == {i \in d.open : /\ w[M(d.at, i)] # Infinite
                                  /\ Reached(w, d, i, optional) <= d.dist[i]}
    IN  [d EXCEPT !.dist = [i \in DOMAIN @ |-> IF i \in better THEN Reached(w, d, i, optional)
                                               ELSE @[i]],
                  !.prev = [i \in DOMAIN @ |-> IF i \in better THEN d.at ELSE @[i]]]

Nearest(d) ==
    LET least == Min({d.dist[i] : i \in d.open})
    IN  Min({i \in d.open : d.dist[i] = least})

Visit(d, n) == [d EXCEPT !.at = n, !.open = @ \ {n}]

RECURSIVE Search(_, _, _, _)
Search(w, d, stop, optional) ==
    IF stop \notin d.open THEN d
    ELSE LET e == Relaxed(w, d, optional)
         IN  Search(w, Visit(e, Nearest(e)), stop, optional)

MtrrLibCalculateLeastMtrrs(w, start, stop, optional) ==
    Search(w, [at   |-> start,
               open |-> (start + 1)..stop,
               dist |-> [i \in start..stop |->
                            IF i = start \/ w[M(start, i)] = Infinite THEN w[M(start, i)]
                            ELSE w[M(start, i)] + (IF optional THEN w[O(start, i)] ELSE 0)],
               prev |-> [i \in start..stop |-> start]],
           stop, optional)

RECURSIVE SumOfHoles2(_)
SumOfHoles2(holes) ==
    IF holes = <<>> THEN 0 ELSE Head(holes)[2] - Head(holes)[1] + SumOfHoles2(Tail(holes))

EdgeOfOne(v, x, default) == One(v[x].type # default)

LowestIsDefault(v, s, t, default) == MtrrLibLowestType(TypesIn(v, s, t)) = default

\* Weights once the blocks of two types are known.
Weight2(v, default) ==
    [e \in (DOMAIN v) \X (DOMAIN v) |->
        LET x == e[1]
            y == e[2]
        IN  CASE x = y -> 0
              [] y = x + 1 -> EdgeOfOne(v, x, default)
              [] x = y + 1 -> 1 - EdgeOfOne(v, y, default)
              [] x < y -> IF Coverable(v, x, y) /\ OfTwoTypes(v, x, y)
                          THEN One(~LowestIsDefault(v, x, y, default))
                               + SumOfHoles2(Holes(v, x, y, MtrrLibLowestType(TypesIn(v, x, y))))
                          ELSE Infinite
              [] OTHER -> IF Coverable(v, y, x) /\ OfTwoTypes(v, y, x)
                          THEN One(LowestIsDefault(v, y, x, default))
                          ELSE 0]

\* Blocks of three types: a hole of two of them is filled along a shortest path.
HoleWeight(w, h) ==
    IF h[2] = h[1] + 1 THEN 1
    ELSE MtrrLibCalculateLeastMtrrs(w, h[1], h[2], TRUE).dist[h[2]]

RECURSIVE SumOfHoles3(_, _)
SumOfHoles3(w, holes) ==
    IF holes = <<>> THEN 0 ELSE HoleWeight(w, Head(holes)) + SumOfHoles3(w, Tail(holes))

OfThreeTypes(v, w, s, t) ==
    /\ w[M(s, t)] = Infinite
    /\ Coverable(v, s, t)
    /\ Cardinality(TypesIn(v, s, t)) = 3

Weight3(v, w, default) ==
    [e \in DOMAIN w |->
        LET x == e[1]
            y == e[2]
        IN  CASE x < y /\ OfThreeTypes(v, w, x, y) ->
                     One(~LowestIsDefault(v, x, y, default))
                     + SumOfHoles3(w, Holes(v, x, y, MtrrLibLowestType(TypesIn(v, x, y))))
              [] y < x /\ OfThreeTypes(v, w, y, x) -> One(LowestIsDefault(v, y, x, default))
              [] OTHER -> w[e]]

(***************************************************************************)
(* The registers of a path, from its end back to its beginning.            *)
(***************************************************************************)
Single(v, i) == MtrrRange(v[i].addr, v[i].len, v[i].type)

Singles(v, h) == [i \in 1..(h[2] - h[1]) |-> Single(v, h[1] + i - 1)]

Block(v, s, t, type) == MtrrRange(v[s].addr, Extent(v, s, t), type)

\* The registers of the holes of a block of two types.
Subtract2(v, s, t, lowest) ==
    FlattenSeq([i \in DOMAIN Holes(v, s, t, lowest) |-> Singles(v, Holes(v, s, t, lowest)[i])])

RECURSIVE HolePath(_, _, _, _, _, _)
HolePath(v, w, d, start, cur, types) ==
    IF cur = start THEN <<>>
    ELSE LET pre  == d.prev[cur]
             long == pre # cur - 1
         IN  (IF w[M(pre, cur)] + w[O(pre, cur)] # 0
              THEN <<Block(v, pre, cur, IF long THEN MtrrLibLowestType(types) ELSE v[pre].type)>>
              ELSE <<>>)
             \o (IF long THEN Subtract2(v, pre, cur, MtrrLibLowestType(types)) ELSE <<>>)
             \o HolePath(v, w, d, start, pre, types)

FillHole(v, w, h, types) ==
    IF h[2] = h[1] + 1 THEN Singles(v, h)
    ELSE HolePath(v, w, MtrrLibCalculateLeastMtrrs(w, h[1], h[2], TRUE), h[1], h[2], types)

Subtract3(v, w, holes, types) ==
    FlattenSeq([i \in DOMAIN holes |-> FillHole(v, w, holes[i], types)])

MtrrLibCalculateSubtractivePath(v, w, s, t, types) ==
    LET lowest == MtrrLibLowestType(types)
    IN  IF Cardinality(types) = 2 THEN Subtract2(v, s, t, lowest)
        ELSE Subtract3(v, w, Holes(v, s, t, lowest), types \ {lowest})

RECURSIVE Emitted(_, _, _, _)
Emitted(v, w, d, stop) ==
    IF stop = 1 THEN <<>>
    ELSE LET start == d.prev[stop]
             types == TypesIn(v, start, stop)
         IN  (IF w[M(start, stop)] # 0
              THEN <<Block(v, start, stop, MtrrLibLowestType(types))>> ELSE <<>>)
             \o (IF start # stop - 1
                 THEN MtrrLibCalculateSubtractivePath(v, w, start, stop, types) ELSE <<>>)
             \o Emitted(v, w, d, start)

Path(v, w) == Emitted(v, w, MtrrLibCalculateLeastMtrrs(w, 1, Len(v), FALSE), Len(v))

Weighted(v, w, default) == Path(v, Weight3(v, w, default))

MtrrLibCalculateMtrrs(v, default) == Weighted(v, Weight2(v, default), default)

(***************************************************************************)
(* The whole list of ranges.  Aligned blocks of one type are taken as they *)
(* come; where a range is not aligned, the block around it is computed.    *)
(***************************************************************************)
RECURSIVE MtrrLibGetCompatibleTypes(_)
MtrrLibGetCompatibleTypes(rs) ==
    CASE rs[1].type \in {WB, WT} -> {WB, WT, UC}
      [] rs[1].type \in {WC, WP} -> {rs[1].type, UC}
      [] OTHER -> IF Len(rs) = 1 THEN {UC} ELSE MtrrLibGetCompatibleTypes(Tail(rs))

\* The end of the ranges that follow the first one and have compatible types.
CompatibleEnd(rs, types) ==
    LET stop == {i \in 2..Len(rs) : rs[i].type \notin types}
    IN  End(rs[IF stop = {} THEN Len(rs) ELSE Min(stop) - 1])

Before(rs, a) ==
    LET i == IndexOf(rs, a - 1)
    IN  Append(SubSeq(rs, 1, i - 1), [rs[i] EXCEPT !.len = a - rs[i].base])

From(rs, a) ==
    LET i == IndexOf(rs, a - 1)
    IN  (IF End(rs[i]) = a THEN <<>> ELSE <<MtrrRange(a, End(rs[i]) - a, rs[i].type)>>)
        \o SubSeq(rs, i + 1, Len(rs))

BlockEnd(rs) ==
    rs[1].base + Lesser(MtrrLibBiggestAlignment(rs[1].base),
                        GetPowerOfTwo64(CompatibleEnd(rs, MtrrLibGetCompatibleTypes(rs))
                                        - rs[1].base))

\* A block whose vertices do not fit the scratch buffer is left out.
WithVertices(out, v, default) ==
    IF Len(v) > VertexRoom THEN [out EXCEPT !.small = TRUE]
    ELSE [out EXCEPT !.mtrrs = @ \o MtrrLibCalculateMtrrs(v, default)]

WithBlock(out, r, n, default) ==
    IF r.type = default \/ out.small THEN out
    ELSE [out EXCEPT !.mtrrs = Append(@, MtrrRange(r.base, n, r.type))]

RECURSIVE MtrrLibSetMemoryRanges(_, _, _)
MtrrLibSetMemoryRanges(rs, out, default) ==
    IF rs = <<>> THEN out
    ELSE LET r == rs[1]
             n == MtrrLibBiggestAlignment(r.base)
         IN  IF n <= r.len
             THEN MtrrLibSetMemoryRanges(From(rs, r.base + n), WithBlock(out, r, n, default), default)
             ELSE MtrrLibSetMemoryRanges(From(rs, BlockEnd(rs)),
                      WithVertices(out, Vertices(Before(rs, BlockEnd(rs))), default), default)

\* Registers that already say what is wanted stay; the others are cleared and
\* what is still missing goes to the free ones, in order.
Missing(variables, new) ==
    SelectSeq(new, LAMBDA r : r \notin Range(variables))

Cleared(variables, new) ==
    [i \in DOMAIN variables |->
        IF /\ variables[i] \in Range(new)
           /\ \A j \in 1..(i - 1) : variables[j] # variables[i]
        THEN variables[i] ELSE MtrrRange(0, 0, UC)]

Rank(variables, i) == Cardinality({j \in 1..i : variables[j].len = 0})

Filled(variables, missing) ==
    [i \in DOMAIN variables |->
        IF variables[i].len = 0 /\ Rank(variables, i) <= Len(missing)
        THEN missing[Rank(variables, i)] ELSE variables[i]]

MtrrLibMergeVariableMtrr(variables, new) ==
    Filled(Cleared(variables, new), Missing(variables, new))

\* The range below 1 MB was uncacheable in the list only.
WithoutLow(mtrrs) == SelectSeq(mtrrs, LAMBDA r : ~(r.base = 0 /\ r.len = Low))

AboveLow(r) == IF r.base < Low THEN MtrrRange(Low, End(r) - Low, r.type) ELSE r

FirmwareMtrrs == Registers - Reserved

NewVariables(variables, mtrrs) ==
    IF Len(mtrrs) > FirmwareMtrrs
    THEN [status |-> "outOfResources", variables |-> variables]
    ELSE [status |-> "success", variables |-> MtrrLibMergeVariableMtrr(variables, mtrrs)]

FromRanges(variables, out) ==
    IF Len(out.mtrrs) > FirmwareMtrrs + 1
    THEN [status |-> "outOfResources", variables |-> variables]
    ELSE IF out.small THEN [status |-> "bufferTooSmall", variables |-> variables]
    ELSE NewVariables(variables, WithoutLow(out.mtrrs))

FromChanged(set, st) ==
    CASE st.status = "outOfResources" -> [status |-> st.status, variables |-> set.variables]
      [] ~st.modified -> [status |-> "success", variables |-> set.variables]
      [] OTHER -> FromRanges(set.variables,
                      MtrrLibSetMemoryRanges(st.ranges, [mtrrs |-> <<>>, small |-> FALSE],
                                             set.def.type))

FromApplied(request, applied) ==
    LET low == MtrrLibSetMemoryType(applied.ranges, 0, Low, UC)
    IN  SetAll(Unmodified(low.ranges, applied.misread \/ low.misread),
               [i \in DOMAIN request |-> AboveLow(request[i])])

WithMisread(st, part) ==
    [status |-> part.status, variables |-> part.variables, misread |-> st.misread]

VariablePart(set, request) ==
    LET above == SelectSeq(request, LAMBDA r : End(r) > Low)
        applied == MtrrLibApplyVariableMtrrs(set.variables, <<MtrrRange(0, Top, set.def.type)>>)
        changed == FromApplied(above, applied)
    IN  IF above = <<>>
        THEN [status |-> "success", variables |-> set.variables, misread |-> FALSE]
        ELSE WithMisread(changed, FromChanged(set, changed))

(***************************************************************************)
(* The fixed registers: one slot per piece of memory.                      *)
(***************************************************************************)
MsrAt(a) == CHOOSE k \in DOMAIN FixedTable :
                Covers(MtrrRange(FixedTable[k].base, SlotsPerMsr * FixedTable[k].len, UC), a)

InSlots(fixed, k, from, n, type) ==
    [fixed EXCEPT ![k] = [s \in DOMAIN @ |-> IF from <= s /\ s < from + n THEN type ELSE @[s]]]

RECURSIVE MtrrLibSetBelow1MBMemoryAttribute(_, _, _, _)
MtrrLibSetBelow1MBMemoryAttribute(st, base, len, type) ==
    IF base >= Low \/ len = 0 \/ st.status # "success" THEN st
    ELSE LET k    == MsrAt(base)
             unit == FixedTable[k].len
             slot == (base - FixedTable[k].base) \div unit
             n    == Lesser(len, unit * (SlotsPerMsr - slot))
         IN  IF (base - FixedTable[k].base) % unit # 0 \/ n % unit # 0
             THEN [st EXCEPT !.status = "unsupported"]
             ELSE MtrrLibSetBelow1MBMemoryAttribute(
                      [st EXCEPT !.fixed = InSlots(@, k, slot, n \div unit, type)],
                      base + n, len - n, type)

RECURSIVE FixedPart(_, _)
FixedPart(st, request) ==
    IF request = <<>> \/ st.status # "success" THEN st
    ELSE FixedPart(MtrrLibSetBelow1MBMemoryAttribute(st, request[1].base, request[1].len,
                                                     request[1].type), Tail(request))

Valid(request) ==
    \A i \in DOMAIN request : /\ request[i].len > 0
                              /\ request[i].base < Top
                              /\ End(request[i]) <= Top
                              /\ request[i].type \in CacheTypes

Both(set, v, f) ==
    [status    |-> IF v.status # "success" THEN v.status ELSE f.status,
     fixed     |-> f.fixed,
     variables |-> v.variables,
     misread   |-> v.misread]

\* MtrrSetMemoryAttributesInMtrrSettings up to the first write.
Planned(set, request) ==
    IF ~Valid(request)
    THEN [status |-> "unsupported", fixed |-> set.fixed, variables |-> set.variables, misread |-> FALSE]
    ELSE Both(set, VariablePart(set, request),
              FixedPart([status |-> "success", fixed |-> set.fixed], request))

(***************************************************************************)
(* What a processor, and the library when asked, makes of the registers.   *)
(***************************************************************************)
MtrrLibPrecedence(x, y) ==
    CASE x = y -> x
      [] UC \in {x, y} -> UC
      [] {x, y} = {WT, WB} -> WT
      [] OTHER -> -1

RECURSIVE Precedent(_)
Precedent(types) ==
    IF Len(types) = 1 THEN types[1]
    ELSE MtrrLibPrecedence(types[1], Precedent(Tail(types)))

VariableType(set, hits) ==
    IF hits = <<>> THEN set.def.type
    ELSE Precedent([i \in DOMAIN hits |-> hits[i].type])

MtrrGetMemoryAttributeByAddressWorker(set, a) ==
    CASE ~set.def.on -> UC
      [] set.def.on /\ a < Low /\ set.def.fixedOn ->
             set.fixed[MsrAt(a)][(a - FixedTable[MsrAt(a)].base) \div FixedTable[MsrAt(a)].len]
      [] OTHER -> VariableType(set, SelectSeq(set.variables, LAMBDA r : Covers(r, a)))

(***************************************************************************)
(* Writing the registers.  A fixed register is one write; a variable one   *)
(* is two, its base with the type and its mask with the length.            *)
(***************************************************************************)
\* A fixed register is written when a range reaches into it, changed or not.
Touched(request) ==
    SetToSortSeq({k \in DOMAIN FixedTable :
                     \E i \in DOMAIN request :
                         /\ request[i].base < FixedTable[k].base + SlotsPerMsr * FixedTable[k].len
                         /\ FixedTable[k].base < End(request[i])}, <)

Changed(old, new) == SetToSortSeq({k \in DOMAIN old : old[k] # new[k]}, <)

Write(reg, k, to) == [reg |-> reg, at |-> k, to |-> to]

FixedWrites(ks, new) == [i \in DOMAIN ks |-> Write("fixed", ks[i], new[ks[i]])]

VariableWrites(ks, new) ==
    FlattenSeq([i \in DOMAIN ks |-> <<Write("base", ks[i], new[ks[i]]),
                                     Write("mask", ks[i], new[ks[i]])>>])

Written(set, w) ==
    CASE w.reg = "fixed" -> [set EXCEPT !.fixed[w.at] = w.to]
      [] w.reg = "base"  -> [set EXCEPT !.variables[w.at].base = w.to.base,
                                        !.variables[w.at].type = w.to.type]
      [] w.reg = "mask"  -> [set EXCEPT !.variables[w.at].len = w.to.len]
      [] OTHER           -> [set EXCEPT !.def = w.to]

Begun(kind, n, request, old) ==
    /\ step = "idle"
    /\ call.number + n <= MaxCalls
    /\ call' = [number |-> call.number + n, kind |-> kind, request |-> request,
                old |-> old, status |-> "none", misread |-> FALSE]

\* MtrrSetMemoryAttribute: the plan is made from the registers themselves.
MtrrSetMemoryAttribute(request) ==
    /\ Begun("live", 1, request, host.set)
    /\ ctx' = [ctx EXCEPT !.plan = Planned(host.set, request)]
    /\ step' = "planned"
    /\ UNCHANGED host

WriteOrReturn ==
    LET todo == FixedWrites(Touched(call.request), ctx.plan.fixed)
                \o VariableWrites(Changed(host.set.variables, ctx.plan.variables),
                                  ctx.plan.variables)
        none == ctx.plan.status # "success" \/ todo = <<>>
    IN  /\ step = "planned"
        /\ call' = [call EXCEPT !.status = ctx.plan.status, !.misread = ctx.plan.misread]
        /\ ctx' = [ctx EXCEPT !.todo = IF none THEN <<>> ELSE todo, !.plan = <<>>]
        /\ step' = IF none THEN "idle" ELSE "pre"
        /\ UNCHANGED host

\* The same, on settings in memory.
MtrrSetMemoryAttributesInMtrrSettings(request) ==
    /\ ctx.saved # <<>>
    /\ Begun("buffer", 1, request, ctx.saved[1])
    /\ ctx' = [ctx EXCEPT !.plan = Planned(ctx.saved[1], request)]
    /\ step' = "plannedBuffer"
    /\ UNCHANGED host

WriteBuffer ==
    /\ step = "plannedBuffer"
    /\ call' = [call EXCEPT !.status = ctx.plan.status, !.misread = ctx.plan.misread]
    /\ ctx' = [ctx EXCEPT
                 !.saved = IF ctx.plan.status # "success" THEN @
                           ELSE <<[fixed |-> ctx.plan.fixed, variables |-> ctx.plan.variables,
                                   def |-> [@[1].def EXCEPT !.on = TRUE, !.fixedOn = TRUE]]>>,
                 !.plan = <<>>]
    /\ step' = "idle"
    /\ UNCHANGED host

MtrrGetAllMtrrs ==
    /\ step = "idle"
    /\ ctx.saved = <<>>
    /\ ctx' = [ctx EXCEPT !.saved = <<host.set>>]
    /\ UNCHANGED <<step, call, host>>

MtrrSetAllMtrrs ==
    /\ ctx.saved # <<>>
    /\ Begun("all", 0, <<>>, ctx.saved[1])
    /\ ctx' = [ctx EXCEPT !.todo =
                 FixedWrites([k \in DOMAIN FixedTable |-> k], ctx.saved[1].fixed)
                 \o VariableWrites([i \in 1..Registers |-> i], ctx.saved[1].variables)
                 \o <<Write("def", 0, ctx.saved[1].def)>>,
                          !.saved = <<>>]
    /\ step' = "pre"
    /\ UNCHANGED host

MtrrLibPreMtrrChange(h) ==
    [h EXCEPT !.interrupts = FALSE, !.cache = FALSE, !.set.def.on = FALSE]

PreChange ==
    /\ step = "pre"
    /\ host' = MtrrLibPreMtrrChange(host)
    /\ ctx' = [ctx EXCEPT !.interrupts = host.interrupts]
    /\ step' = "writing"
    /\ UNCHANGED call

WriteRegister ==
    /\ step = "writing"
    /\ ctx.todo # <<>>
    /\ host' = [host EXCEPT !.set = Written(@, Head(ctx.todo))]
    /\ ctx' = [ctx EXCEPT !.todo = Tail(@)]
    /\ UNCHANGED <<step, call>>

MtrrLibPostMtrrChangeEnableCache(h) == [h EXCEPT !.cache = TRUE, !.interrupts = ctx.interrupts]

MtrrLibPostMtrrChange(h) ==
    MtrrLibPostMtrrChangeEnableCache([h EXCEPT !.set.def.on = TRUE, !.set.def.fixedOn = TRUE])

PostChange ==
    /\ step = "writing"
    /\ ctx.todo = <<>>
    /\ host' = IF call.kind = "all" THEN MtrrLibPostMtrrChangeEnableCache(host)
               ELSE MtrrLibPostMtrrChange(host)
    /\ call' = [call EXCEPT !.status = "success"]
    /\ step' = "idle"
    /\ UNCHANGED ctx

Init ==
    /\ step = "idle"
    /\ ctx = [plan |-> <<>>, todo |-> <<>>, saved |-> <<>>, interrupts |-> TRUE]
    /\ call = [number |-> 0, kind |-> "none", request |-> <<>>, old |-> <<>>, status |-> "none",
               misread |-> FALSE]
    /\ \E d \in Defaults :
         host = [set |-> [fixed     |-> [k \in DOMAIN FixedTable |-> [s \in 0..(SlotsPerMsr - 1) |-> UC]],
                          variables |-> [i \in 1..Registers |-> MtrrRange(0, 0, UC)],
                          def       |-> [type |-> d, on |-> TRUE, fixedOn |-> TRUE]],
                 cache |-> TRUE, interrupts |-> TRUE]

Next ==
    \/ \E r \in Requests : MtrrSetMemoryAttribute(r)
    \/ WriteOrReturn
    \/ \E r \in Requests : MtrrSetMemoryAttributesInMtrrSettings(r)
    \/ WriteBuffer
    \/ MtrrGetAllMtrrs
    \/ MtrrSetAllMtrrs
    \/ PreChange
    \/ WriteRegister
    \/ PostChange

Spec == Init /\ [][Next]_vars

(***************************************************************************)
(* Properties.                                                             *)
(***************************************************************************)
TypeAt(set, a) == MtrrGetMemoryAttributeByAddressWorker(set, a)

\* What a successful call asks for: of the ranges that hold the address the
\* last one decides, and elsewhere the type stays.
Wanted(a) ==
    LET hits == {i \in DOMAIN call.request : Covers(call.request[i], a)}
    IN  IF call.status = "success" /\ hits # {} THEN call.request[Max(hits)].type
        ELSE TypeAt(call.old, a)

Naturally(set) ==
    \A i \in DOMAIN set.variables :
        LET r == set.variables[i]
        IN  r.len # 0 => MtrrLibIsPowerOfTwo(r.len) /\ r.base % r.len = 0

\* When a call returns, every page has the type asked for last, or the one it had
\* where nothing was asked or the call failed (after MtrrSetAllMtrrs, the one of
\* the saved settings), whatever the registers held: overlaid registers mean what
\* the list of ranges said, and each can be expressed by a base and a mask.  If
\* MtrrLibSetMemoryType has read a type from an entry that it had overwritten,
\* this is so only for the pages of the last range of the call, or when it failed.
AttributesAsAsked ==
    step = "idle" /\ call.kind # "none"
        => LET set == IF call.kind = "buffer" THEN ctx.saved[1] ELSE host.set
               last == call.request[Len(call.request)]
               spared == call.misread /\ call.status = "success"
           IN  /\ Naturally(set)
               /\ \A a \in 0..(Top - 1) :
                      TypeAt(set, a) = Wanted(a) \/ (spared /\ ~Covers(last, a))

\* Not so: every page always has the type asked for last.
AttributesAlwaysAsAsked ==
    step = "idle" /\ call.kind = "live" => \A a \in 0..(Top - 1) : TypeAt(host.set, a) = Wanted(a)

\* While the registers are on no page has a type that is neither its old nor its
\* new one, whatever has been written: they are off from the first write of a
\* call to the last, and the caches with them.
NoTypeInBetween ==
    step \in {"pre", "writing"} /\ host.set.def.on /\ call.kind = "live"
        => \A a \in 0..(Top - 1) : TypeAt(host.set, a) = TypeAt(call.old, a)
===============================================================================
