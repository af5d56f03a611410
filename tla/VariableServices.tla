--------------------------- MODULE VariableServices ---------------------------
(***************************************************************************)
(* The variable runtime services.  Volatile variables are records in a     *)
(* store in memory: an update appends a record and marks the old one       *)
(* deleted, and deleted records are reclaimed when the store is full.      *)
(* All other variables are requests to the host's NVRAM.  The store is     *)
(* modelled cell by cell, since what matters is where records lie: one     *)
(* cell for a header with its name, one for each unit of data.             *)
(***************************************************************************)
EXTENDS Integers, Sequences, FiniteSetsExt

CONSTANTS
    Setups,      \* records [size, nvram, calls]: the store's size; whether NVRAM is allowed;
                 \* the SetVariable calls made
    MaxData,     \* EFI_MAX_VARIABLE_DATA_SIZE, in cells
    NvramNames,  \* the names the host may hold, in its order
    ReadOnly     \* names of read-only variables

VARIABLES step, ctx, host

vars == <<step, ctx, host>>

Size == ctx.setup.size
mNvramNotAllowed == ~ctx.setup.nvram
Free == [kind |-> "free", name |-> "", rt |-> FALSE, size |-> 0, state |-> "none", value |-> 0]
Byte(x) == [Free EXCEPT !.kind = "byte", !.value = x]
Header(n, rt, data) == [Free EXCEPT !.kind = "header", !.name = n, !.rt = rt, !.size = Len(data), !.state = "new"]
Cells(size) == 0 .. size + MaxData      \* STORE_MAIN_SIZE and STORE_SCRATCH_SIZE

NoCursor == [at |-> "off", seen |-> {}, twice |-> FALSE]

\* VariableInitialize.  History: want is what the calls that succeeded amount to, left the
\* variables whose last update found no room, misled that a reclaim misled what came after it.
Init ==
    /\ step = "ready"
    /\ \E s \in Setups :
        /\ ctx = [setup |-> s, mem |-> [c \in Cells(s.size) |-> Free], free |-> 0, wild |-> FALSE,
                  misled |-> FALSE, left |-> {}, runtime |-> FALSE, cursor |-> NoCursor, want |-> [c \in {d.name : d \in s.calls} |-> <<>>],
                  rt |-> {}, vsmAware |-> "unsent"]
        /\ host = [nvram |-> [n \in {NvramNames[i] : i \in DOMAIN NvramNames} |-> <<>>]]
-----------------------------------------------------------------------------
(* The store                                                               *)

IsValidVariableHeader(mem, p) == p \in DOMAIN mem /\ mem[p].kind = "header"
GetNextVariablePtr(mem, p) == p + 1 + mem[p].size
GetVariableDataPtr(mem, p) == [i \in 1 .. mem[p].size |-> mem[p + i].value]

\* The records from p to the end of the store.
RECURSIVE Records(_, _)
Records(mem, p) ==
    IF p < Size /\ IsValidVariableHeader(mem, p)
    THEN <<p>> \o Records(mem, GetNextVariablePtr(mem, p)) ELSE <<>>

Present(mem, p) == mem[p].state \in {"added", "transition"}

\* The first added record of the name, or else the last one in transition; -1 if neither.
NoRecord == -1
FindVariable(mem, n) ==
    LET ps == SelectSeq(Records(mem, 0), LAMBDA p : Present(mem, p) /\ (n = "" \/ mem[p].name = n))
        added == SelectSeq(ps, LAMBDA p : mem[p].state = "added")
    IN  IF added # <<>> THEN added[1] ELSE IF ps # <<>> THEN ps[Len(ps)] ELSE NoRecord

\* Variable->State &= mask, wherever Variable points now.
Mark(mem, p, state) ==
    [mem EXCEPT ![p] = IF @.kind = "header" THEN [@ EXCEPT !.state = IF @ = "deleted" THEN @ ELSE state]
                       ELSE IF @.kind = "byte" THEN Byte(0) ELSE @]

Closed(mem, p, next, free) ==
    [c \in DOMAIN mem |-> LET moved == IF c \in p .. p + (Size - next) - 1 THEN mem[c + (next - p)] ELSE mem[c]
                          IN  IF c \in free .. Size - 1 THEN Free ELSE moved]

\* The loop has no end test of its own: it stops at the first invalid header.
RECURSIVE ReclaimFrom(_, _)
ReclaimFrom(s, p) ==
    IF ~IsValidVariableHeader(s.mem, p) THEN s
    ELSE LET next == GetNextVariablePtr(s.mem, p)
         IN  IF Present(s.mem, p) THEN ReclaimFrom(s, next)
             ELSE IF next > Size THEN [s EXCEPT !.wild = TRUE]
             ELSE ReclaimFrom([s EXCEPT !.mem = Closed(s.mem, p, next, s.free), !.free = @ - (next - p)], p)
ReclaimKeepsFree(s) == [ReclaimFrom(s, 0) EXCEPT !.free = s.free]
Reclaim(s) == ReclaimFrom(s, 0)

RecordSize(data) == 1 + Len(data)

\* The new record is built in the scratch area, behind the store's end.
Scratch(mem, n, rt, data) ==
    [c \in DOMAIN mem |-> IF c < Size THEN mem[c]
                          ELSE IF c = Size THEN Header(n, rt, data)
                          ELSE IF c - Size <= Len(data) THEN Byte(data[c - Size]) ELSE Free]
CopiedIn(s, size) ==
    [s EXCEPT !.mem = [c \in DOMAIN s.mem |->
                          IF c = s.free THEN [s.mem[Size] EXCEPT !.state = "added"]
                          ELSE IF c \in s.free .. s.free + size - 1 THEN s.mem[Size + (c - s.free)] ELSE s.mem[c]],
              !.free = @ + size]

\* History: the cases in which a reclaim by an update, to a record of the given size, misleads
\* what comes after it.  The store is full to its last cell, and nothing but the scratch area
\* ends the walk; a deleted record lies before the old one, which then moves away from the
\* pointer to it; or the new record does not cover the cells that the last deleted record
\* gave up, which hold copies of the records behind it.
Misleads(s, size, old) ==
    LET ps == Records(s.mem, 0)
        gone == SelectSeq(ps, LAMBDA p : ~Present(s.mem, p))
        Given(p) == 1 + s.mem[p].size
        given == MapThenSumSet(Given, {gone[i] : i \in DOMAIN gone})
    IN  /\ size + s.free > Size
        /\ \/ s.free = Size
           \/ gone # <<>> /\ old # NoRecord /\ gone[1] < old
           \/ gone # <<>> /\ (size < Given(gone[Len(gone)]) \/ s.free - given + size > Size)

Accessible(attrs) == attrs \cap {"bs", "rt"} # {}
Result(s, status) == [s |-> s, status |-> status]

\* Appending a record for the variable, whose old record (if any) is at old.
Added(s, n, attrs, data, old) ==
    LET size == RecordSize(data)
        marked == IF old = NoRecord THEN s.mem ELSE Mark(s.mem, old, "transition")
        built == [s EXCEPT !.mem = Scratch(marked, n, "rt" \in attrs, data)]
        noted == [built EXCEPT !.misled = @ \/ Misleads(s, size, old)]
        roomy == IF size + s.free > Size THEN Reclaim(noted) ELSE noted
        copied == [CopiedIn(roomy, size) EXCEPT !.left = @ \ {n}]
    IN  IF size + roomy.free > Size
        THEN Result([roomy EXCEPT !.left = IF old = NoRecord THEN @ ELSE @ \cup {n}], "out of resources")
        ELSE Result(IF old = NoRecord THEN copied ELSE [copied EXCEPT !.mem = Mark(@, old, "deleted")], "success")

UpdateVariable(s, n, attrs, data, old) ==
    LET stored == GetVariableDataPtr(s.mem, old)
        value == IF "append" \in attrs THEN stored \o data ELSE data
    IN  IF "nv" \in attrs \/ "timeAuth" \in attrs THEN Result(s, "invalid")
        ELSE IF old # NoRecord
        THEN IF ctx.runtime THEN Result(s, "write protected")
             ELSE IF (data = <<>> /\ "append" \notin attrs) \/ ~Accessible(attrs)
                  THEN Result([s EXCEPT !.mem = Mark(@, old, "deleted"), !.left = @ \ {n}], "success")
             ELSE IF stored = data /\ "append" \notin attrs THEN Result(s, "success")
             ELSE IF Len(value) > MaxData THEN Result(s, "out of resources")
             ELSE Added(s, n, attrs, value, old)
        ELSE IF data = <<>> /\ "append" \in attrs THEN Result(s, "success")
        ELSE IF data = <<>> \/ ~Accessible(attrs) THEN Result(s, "not found")
        ELSE IF ctx.runtime THEN Result(s, "invalid")
        ELSE Added(s, n, attrs, data, NoRecord)
-----------------------------------------------------------------------------
(* The services                                                            *)

IsReadOnlyVariable(n) == n \in ReadOnly
Valid(c) ==
    /\ ~IsReadOnlyVariable(c.name)
    /\ c.attrs \cap {"bs", "rt"} # {"rt"}
    /\ "auth" \notin c.attrs
    /\ Len(c.data) <= MaxData

Store == [mem |-> ctx.mem, free |-> ctx.free, wild |-> ctx.wild, misled |-> ctx.misled, left |-> ctx.left]

\* What a successful call makes of a variable's value.
NewValue(old, c) ==
    IF ~Accessible(c.attrs) \/ (c.data = <<>> /\ "append" \notin c.attrs) THEN <<>>
    ELSE IF "append" \in c.attrs THEN old \o c.data ELSE c.data

ToStore(c, old) == old # NoRecord \/ ("nv" \notin c.attrs /\ c.data # <<>> /\ Accessible(c.attrs))

\* VariableServiceSetVariable for the volatile store.
SetVolatile(c) ==
    LET old == FindVariable(ctx.mem, c.name)
        r == UpdateVariable(Store, c.name, c.attrs, c.data, old)
    IN  /\ step = "ready" /\ Valid(c) /\ ToStore(c, old)
        /\ "timeAuth" \in c.attrs => old = NoRecord
        /\ ctx' = [ctx EXCEPT !.mem = r.s.mem, !.free = r.s.free, !.wild = r.s.wild, !.cursor = NoCursor,
                              !.misled = r.s.misled, !.left = r.s.left,
                              !.want[c.name] = IF r.status = "success" THEN NewValue(@, c) ELSE @,
                              !.rt = IF r.status # "success" \/ (old # NoRecord /\ r.s = Store) THEN @
                                     ELSE IF "rt" \in c.attrs THEN @ \cup {c.name} ELSE @ \ {c.name}]
        /\ step' = IF r.s.wild THEN "dead" ELSE "ready"
        /\ UNCHANGED host

\* NvramSetVariable: a request that the host carries out or refuses (IssueBiosDeviceNvramCommand
\* repeats it while the host is not ready); without NVRAM it succeeds and does nothing.
NvramSetVariable(c) ==
    /\ step = "ready" /\ Valid(c) /\ ~ToStore(c, FindVariable(ctx.mem, c.name))
    /\ IF mNvramNotAllowed \/ c.name \notin DOMAIN host.nvram
       THEN UNCHANGED <<ctx, host>>
       ELSE \E stored \in BOOLEAN :
                /\ host' = IF stored THEN [host EXCEPT !.nvram[c.name] = NewValue(@, c)] ELSE host
                /\ ctx' = [ctx EXCEPT !.cursor = NoCursor,
                                      !.want[c.name] = IF stored THEN NewValue(@, c) ELSE @,
                                      !.rt = IF ~stored THEN @
                                             ELSE IF "rt" \in c.attrs THEN @ \cup {c.name} ELSE @ \ {c.name}]
    /\ UNCHANGED step

NvramGetVariable(n) == IF n \in DOMAIN host.nvram /\ ~mNvramNotAllowed THEN host.nvram[n] ELSE <<>>

\* VariableServiceGetVariable: the volatile store first.
GetVariable(n) ==
    LET p == FindVariable(ctx.mem, n)
    IN  IF p # NoRecord THEN GetVariableDataPtr(ctx.mem, p)
        ELSE NvramGetVariable(n)

\* The host's enumeration of the variables it holds, from the one after position i.
HostNext(i) ==
    LET later == {j \in i + 1 .. Len(NvramNames) :
                     host.nvram[NvramNames[j]] # <<>> /\ (ctx.runtime => NvramNames[j] \in ctx.rt)}
    IN  IF mNvramNotAllowed \/ later = {} THEN "end" ELSE NvramNames[CHOOSE j \in later : \A k \in later : j <= k]
NvramGetFirstVariableName == HostNext(0)
NvramGetNextVariableName(n) ==
    IF n = "" THEN HostNext(0)
    ELSE IF \E i \in DOMAIN NvramNames : NvramNames[i] = n
         THEN HostNext(CHOOSE i \in DOMAIN NvramNames : NvramNames[i] = n) ELSE "end"

\* VariableServiceGetNextVariableName: records that are added (and visible at runtime), then the
\* host's variables.
VariableServiceGetNextVariableName(n) ==
    LET p == FindVariable(ctx.mem, n)
        from == IF n = "" THEN p ELSE GetNextVariablePtr(ctx.mem, p)
        found == SelectSeq(Records(ctx.mem, from),
                           LAMBDA q : ctx.mem[q].state = "added" /\ (ctx.runtime => ctx.mem[q].rt))
    IN  IF p = NoRecord THEN NvramGetNextVariableName(n)
        ELSE IF found = <<>> THEN NvramGetFirstVariableName ELSE ctx.mem[found[1]].name

\* A caller that enumerates all names.
Enumerate ==
    LET next == VariableServiceGetNextVariableName(IF ctx.cursor.at = "off" THEN "" ELSE ctx.cursor.at)
    IN  /\ step = "ready" /\ ctx.cursor.at # "end"
        /\ ctx' = [ctx EXCEPT !.cursor = [at |-> next, seen |-> @.seen \cup ({next} \ {"end"}),
                                          twice |-> @.twice \/ next \in @.seen]]
        /\ UNCHANGED <<step, host>>

\* VariableServiceQueryVariableInfo: what is left in the volatile store.
RemainingVariableStorageSize ==
    LET counted == SelectSeq(Records(ctx.mem, 0), LAMBDA p : ctx.runtime \/ ctx.mem[p].state = "added")
        Sum[i \in 0 .. Len(counted)] == IF i = 0 THEN 0 ELSE Sum[i - 1] + 1 + ctx.mem[counted[i]].size
    IN  Size - Sum[Len(counted)]

OSLOADER_INDICATIONS_NAME == "a"
Indications ==
    LET p == FindVariable(ctx.mem, OSLOADER_INDICATIONS_NAME)
    IN  IF p = NoRecord THEN <<>> ELSE GetVariableDataPtr(ctx.mem, p)

NvramExitBootServicesHandler(vsmAware) ==
    IF mNvramNotAllowed THEN "unsent" ELSE IF vsmAware THEN "yes" ELSE "no"

\* ExitBootServicesHandler: the host learns whether the loader set its indication.
ExitBootServicesHandler ==
    /\ step = "ready" /\ ~ctx.runtime
    /\ ctx' = [ctx EXCEPT !.runtime = TRUE, !.cursor = NoCursor,
                          !.vsmAware = NvramExitBootServicesHandler(Indications = <<1>>)]
    /\ UNCHANGED <<step, host>>

\* Bound: no call is followed beyond a reclaim that misleads, since nothing is said of it.
Next ==
    /\ ~ctx.misled
    /\ \/ \E c \in ctx.setup.calls : SetVolatile(c) \/ NvramSetVariable(c)
       \/ Enumerate
       \/ ExitBootServicesHandler

Spec == Init /\ [][Next]_vars
-----------------------------------------------------------------------------
(* Properties                                                              *)

\* GetVariable returns for every name what the successful SetVariable calls made of it.
\* "Variable was successfully stored as defined by its attributes."
\* Not so: the update of a variable that reclaims the store marks the old record deleted through
\* a pointer taken before the records moved.
GetReturnsLastSet == \A n \in DOMAIN ctx.want : GetVariable(n) = ctx.want[n]

\* The same until a reclaim misleads (see Misleads), however often the store is reclaimed: an
\* update of one variable never changes another, and one that fails changes none.
ReadsReturnLastSet == ctx.misled \/ GetReturnsLastSet

\* The variables that exist (at runtime, those that may be seen then).
Existing == {n \in DOMAIN ctx.want : ctx.want[n] # <<>> /\ (ctx.runtime => n \in ctx.rt)}

\* An enumeration that no SetVariable call disturbs returns no name twice, and when it ends it
\* has returned the variables that exist, but for those whose last update found no room: their
\* records stay in transition, which GetVariable finds and the enumeration does not.
EnumeratesAll ==
    ctx.misled \/ /\ ~ctx.cursor.twice
                  /\ ctx.cursor.at = "end" => ctx.cursor.seen = Existing \ ctx.left

\* Not so: the enumeration returns every variable that GetVariable finds.
EnumeratesExisting == ctx.misled \/ (ctx.cursor.at = "end" => ctx.cursor.seen = Existing)

\* Before runtime, a new variable that fits in what is reported, less extra cells, can be set.
CanBeSet(extra) ==
    step = "ready" /\ ~ctx.runtime /\ ~ctx.misled =>
        \A c \in ctx.setup.calls :
            Valid(c) /\ ctx.want[c.name] = <<>>
              /\ RecordSize(c.data) + extra <= RemainingVariableStorageSize
            => UpdateVariable(Store, c.name, c.attrs, c.data, NoRecord).status # "out of resources"

\* A new variable that fits in what QueryVariableInfo reports as remaining can be set, when the
\* records in transition are taken off, which it counts as free and Reclaim keeps.
RoomAsReported == CanBeSet(MapThenSumSet(LAMBDA n : RecordSize(ctx.want[n]), ctx.left))

\* Not so: one that fits in what is reported can be set.
RoomAlwaysAsReported == CanBeSet(0)
=============================================================================
