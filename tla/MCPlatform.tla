----------------------------- MODULE MCPlatform -----------------------------
(***************************************************************************)
(* The services of the platform on small instances, one at a time: Init    *)
(* chooses the service and no step leaves it.  As in MCDrivers they share  *)
(* the names of their variables: the step reached, the service's state,    *)
(* the call that runs, and the hypervisor or hardware below.               *)
(***************************************************************************)
EXTENDS Integers, Sequences, TLC

VARIABLES part, step, ctx, call, host

vars == <<part, step, ctx, call, host>>

---------------------------------------------------------------------------
(* Memory shared with the host.                                            *)

\* Ranges of five and two pages, in two rounds of the hypercall.
EfiHvMemory == INSTANCE EfiHvMemory WITH Platforms <- {"software", "paravisor", "bypassOnly"},
    LastPage <- 7, Ranges <- {[base |-> 1, count |-> 5], [base |-> 6, count |-> 2]},
    MaxSubranges <- 2, RangeMax <- 2, Batch <- 2, AlwaysPinned <- SUBSET (1 .. 6)

\* Five pages, two large ones among them; everything may be refused.
HostVisibility == INSTANCE HostVisibility WITH PageCount <- 5, LargePage <- 2, MaxEntries <- 2,
    Calls <- {"tdx", "snp", "svsm"} \X {"accept", "unaccept", "visible", "private"},
    Backings <- {{}, {0}, {0, 1}},
    Refusals <- {"accept", "validate", "request", "restore", "count"}

Mode(bounce, visibility, pinning, shared) ==
    [bounce |-> bounce, visibility |-> visibility, pinning |-> pinning, shared |-> shared]

\* Two buffers, one above 4 GB, and a pool that grows once.
IoMmu == INSTANCE IoMmu WITH
    Modes <- {Mode(FALSE, FALSE, FALSE, FALSE), Mode(TRUE, FALSE, TRUE, FALSE),
              Mode(TRUE, TRUE, FALSE, TRUE)},
    LowPages <- 6, HighPages <- 1, InitialPages <- 2, GrowthPages <- 2, Buffers <- {1, 2},
    BufferPages <- [b \in {1, 2} |-> b], HighBuffers <- {2}, MaxBlocks <- 2,
    AlwaysPinned <- {{1, 3}}, Failures <- {"pages", "pool", "visible", "pin"}

---------------------------------------------------------------------------
(* Variables, the clock and the memory types.                              *)

Setting(n, a, d) == [name |-> n, attrs |-> a, data |-> d]
Plain == {Setting("a", {"bs"}, <<1>>), Setting("b", {"bs", "rt"}, <<1>>),
          Setting("c", {"bs"}, <<2>>)}
Created == {Setting(n, {"bs"}, <<1>>) : n \in {"a", "b", "c"}}
           \cup {Setting("a", {"bs", "rt"}, <<2>>), Setting("b", {"bs"}, <<2, 2, 2>>)}
Deleted == {Setting(n, {"bs"}, <<>>) : n \in {"a", "b", "c"}}
Appended == {Setting("a", {"bs", "append"}, <<3>>), Setting("b", {"bs", "append"}, <<>>)}
Refused == {Setting("a", {"rt"}, <<1>>), Setting("a", {"bs", "timeAuth"}, <<1>>),
            Setting("b", {}, <<1>>), Setting("a", {"nv", "bs"}, <<1>>),
            Setting("r", {"nv", "bs"}, <<1>>)}
InNvram == {Setting("p", {"bs", "rt", "nv"}, <<1>>), Setting("p", {"nv", "bs"}, <<>>),
            Setting("q", {"bs", "nv"}, <<2>>), Setting("q", {"nv", "append", "bs"}, <<>>)}

\* A small store with all calls, one beside the host's NVRAM, a larger one with few calls; all
\* fill up and are reclaimed.
VariableServices == INSTANCE VariableServices WITH MaxData <- 3, NvramNames <- <<"p", "q">>,
    ReadOnly <- {"r"},
    Setups <- {[size |-> 7, nvram |-> FALSE,
                calls |-> Created \cup Deleted \cup Appended \cup Refused],
               [size |-> 4, nvram |-> TRUE, calls |-> Plain \cup InNvram],
               [size |-> 9, nvram |-> FALSE, calls |-> Plain \cup Deleted]}

\* A store that is reclaimed while variables with different sizes of data are
\* updated.
ReclaimedStore == INSTANCE VariableServices WITH MaxData <- 3, NvramNames <- <<>>, ReadOnly <- {},
    Setups <- {[size |-> 7, nvram |-> FALSE,
                calls |-> {Setting("a", {"bs"}, <<1>>), Setting("a", {"bs"}, <<2, 2>>),
                           Setting("b", {"bs"}, <<1>>), Setting("b", {"bs"}, <<>>),
                           Setting("c", {"bs"}, <<2>>)}]}

\* The ends of years, of February and of half days; one date that is none.
At(y, mo, d, h, mi, s) ==
    [year |-> y, month |-> mo, day |-> d, hour |-> h, minute |-> mi, second |-> s]

RealTimeClock == INSTANCE RealTimeClock WITH
    Times <- {At(1999, 12, 31, 23, 59, 59), At(2000, 1, 1, 12, 0, 0),
              At(2024, 2, 28, 23, 59, 59), At(2024, 2, 29, 12, 59, 59),
              At(2023, 2, 28, 23, 59, 59), At(2023, 3, 1, 0, 0, 0),
              At(2023, 2, 29, 1, 1, 1)},
    Zones <- {[tz |-> 2047, daylight |-> 0], [tz |-> -480, daylight |-> 1]},
    Modes <- {[mil |-> FALSE, dm |-> FALSE], [mil |-> FALSE, dm |-> TRUE]}, InitialMode <- [mil |-> TRUE, dm |-> FALSE],
    InitTime <- At(2024, 1, 1, 0, 0, 0), DefaultYear <- 1980, MinYear <- 1998, MaxYear <- 2097,
    MaxTicks <- 1, Failures <- {"wait", "variable", "read"}

\* Ranges that are misaligned, cross the fixed registers or need several registers; ranges
\* that overlap, in one call or in two.
TypeOver(b, l, t) == [base |-> b, len |-> l, type |-> t]
OneRange == {TypeOver(6, 3, 6), TypeOver(40, 0, 6), TypeOver(40, 25, 6), TypeOver(0, 3, 6)}
Overlapping == {TypeOver(b, 5, t) : b \in {8, 11, 15}, t \in {0, 6}} \cup {TypeOver(0, 21, 4)}
TwoRanges == {<<TypeOver(11, 5, 0), TypeOver(8, 5, 0)>>, <<TypeOver(24, 13, 4), TypeOver(16, 13, 0)>>,
              <<TypeOver(8, 13, 6), TypeOver(37, 13, 4)>>, <<TypeOver(9, 5, 1), TypeOver(24, 8, 0)>>}

Mtrr == INSTANCE Mtrr WITH Top <- 64, Low <- 8,
    FixedTable <- <<[base |-> 0, len |-> 2], [base |-> 4, len |-> 1], [base |-> 6, len |-> 1]>>,
    SlotsPerMsr <- 2, Registers <- 5, Reserved <- 1, RangeRoom <- 12, VertexRoom <- 12,
    Defaults <- {0, 6}, MaxCalls <- 2,
    Requests <- {<<r>> : r \in OneRange \cup Overlapping} \cup TwoRanges

---------------------------------------------------------------------------
(* Images to be started: where they come from, how their file is laid out, *)
(* who signed them; and the databases of the platform's owner.             *)

Disk == [fv |-> FALSE, media |-> "fixed", fileSystem |-> TRUE, node |-> "none"]
Network == [fv |-> FALSE, media |-> "none", fileSystem |-> FALSE, node |-> "mac"]

Section(a, n) == [at |-> a, size |-> n]
Layout(dir, secs, size, cert) ==
    [headers |-> 6, checksum |-> 2, directory |-> dir, sections |-> secs, size |-> size,
     cert |-> cert]
Table(c) == Layout(4, <<Section(9, 2), Section(6, 3), Section(0, 0)>>, 12 + c, c)

Signer(alg, chain, signs, t) ==
    [alg |-> alg, chain |-> chain, signs |-> signs, tsa |-> <<"tsa">>, time |-> t]
ByCa == Signer("sha256", <<<<"leaf">>, <<"ca">>>>, TRUE, 3)
ByOther == Signer("sha384", <<<<"leaf2">>>>, TRUE, 7)
Forged == Signer("sha256", <<<<"leaf">>>>, FALSE, 3)
Outdated == Signer("md5", <<<<"ca">>>>, TRUE, 3)

Entry(type, len, auth) == [type |-> type, len |-> len, auth |-> auth]
Image(n, source, valid, layout, table) ==
    [name |-> n, source |-> source, valid |-> valid, layout |-> layout, table |-> table]
Signed(n, size, table) == Image(n, Disk, TRUE, Table(size), table)

Cert(d) == [type |-> "x509", data |-> <<d>>, time |-> 0]
HashOf(alg, n) == [type |-> "hash", data |-> <<alg, n>>, time |-> 0]
Revoked(d, t) == [type |-> "certHash", data |-> <<d>>, time |-> t]
Database(db, dbx, dbt) == [db |-> db, dbx |-> dbx, dbt |-> dbt]

ImageVerification == INSTANCE ImageVerification WITH
    Images <- {Image("u", Disk, TRUE, Layout(0, <<Section(8, 2), Section(6, 2)>>, 11, 0), <<>>),
               Image("u", Network, TRUE, Layout(4, <<Section(6, 2)>>, 8, 0), <<>>),
               Image("f", [Disk EXCEPT !.fv = TRUE], TRUE, Layout(0, <<>>, 6, 0), <<>>),
               Image("n", [Network EXCEPT !.node = "none"], FALSE, Layout(0, <<>>, 6, 0), <<>>),
               Image("b", Disk, TRUE, Layout(4, <<Section(6, 5)>>, 12, 6), <<Entry("pkcs", 6, ByCa)>>),
               Signed("s", 6, <<Entry("pkcs", 5, ByCa)>>),
               Signed("s", 12, <<Entry("pkcs7Guid", 6, ByOther), Entry("pkcs", 5, ByCa)>>),
               Signed("s", 5, <<Entry("pkcs", 5, ByCa)>>),
               Signed("s", 8, <<Entry("pkcs", 6, ByCa), Entry("pkcs", 2, ByCa)>>),
               Signed("t", 12, <<Entry("pkcs", 5, ByCa), Entry("pkcs", 6, ByOther)>>),
               Signed("t", 16, <<Entry("other", 3, ByCa), Entry("otherGuid", 6, ByCa),
                                 Entry("pkcs", 6, Forged)>>),
               Signed("t", 6, <<Entry("pkcs", 5, Outdated)>>)},
    Databases <- {Database(<<Cert("ca")>>, <<>>, <<>>),
                  Database(<<Cert("leaf"), Cert("ca")>>, <<Revoked("leaf", 5)>>, <<Cert("tsa")>>),
                  Database(<<Cert("ca"), Cert("leaf2")>>, <<Revoked("ca", 2)>>, <<Cert("tsa")>>),
                  Database(<<Cert("leaf"), Cert("ca")>>, <<Cert("leaf2")>>, <<>>),
                  Database(<<HashOf("sha256", "u"), HashOf("sha384", "t"), Cert("ca")>>,
                           <<HashOf("sha384", "s")>>, <<>>),
                  Database(<<HashOf("sha512", "u"), HashOf("sha256", "u"), Cert("ca")>>,
                           <<Revoked("leaf2", 0), HashOf("sha256", "t")>>, <<Cert("tsa")>>)},
    Modes <- {"off", "on"}, Growth <- 1, MaxCalls <- 2,
    Failures <- {[what |-> w, of |-> {}] : w \in
                    {"secureBoot", "buffer", "signers", "dbt", "grow", "record", "measure",
                     "signatureList", "name", "table"}}
                \cup {[what |-> "hash", of |-> o] : o \in {{1}, {2, 3}}}
                \cup {[what |-> "certDigest", of |-> o] : o \in {{0}, {1, 2}}}
                \cup {[what |-> "dbx", of |-> o] : o \in {{1}, {2}, {3}}}
                \cup {[what |-> "db", of |-> {2}]}

---------------------------------------------------------------------------

\* A service that has no variable of a name leaves it at this value.
None == 0

Init ==
    \/ part = "efiHvMemory" /\ EfiHvMemory!Init /\ call = None
    \/ part = "hostVisibility" /\ HostVisibility!Init /\ call = None
    \/ part = "ioMmu" /\ IoMmu!Init
    \/ part = "variables" /\ VariableServices!Init /\ call = None
    \/ part = "clock" /\ RealTimeClock!Init /\ call = None
    \/ part = "mtrr" /\ Mtrr!Init
    \/ part = "images" /\ ImageVerification!Init /\ host = None

Next ==
    \/ part = "efiHvMemory" /\ EfiHvMemory!Next /\ UNCHANGED <<part, call>>
    \/ part = "hostVisibility" /\ HostVisibility!Next /\ UNCHANGED <<part, call>>
    \/ part = "ioMmu" /\ IoMmu!Next /\ UNCHANGED part
    \/ part = "variables" /\ VariableServices!Next /\ UNCHANGED <<part, call>>
    \/ part = "clock" /\ RealTimeClock!Next /\ UNCHANGED <<part, call>>
    \/ part = "mtrr" /\ Mtrr!Next /\ UNCHANGED part
    \/ part = "images" /\ ImageVerification!Next /\ UNCHANGED <<part, host>>

Spec == Init /\ [][Next]_vars

\* The reclaimed store by itself.
ReclaimSpec ==
    /\ part = "reclaim" /\ ReclaimedStore!Init /\ call = None
    /\ [][ReclaimedStore!Next /\ UNCHANGED <<part, call>>]_vars

---------------------------------------------------------------------------

\* GetVariable returns what SetVariable stored last, also in a store that is reclaimed
\* (Reclaim and the mark of the old record in UpdateVariable).
GetReturnsLastSet == ReclaimedStore!GetReturnsLastSet

\* A device sees in a mapped buffer what its client wrote, the client what the device wrote,
\* and no two mappings share a page, unless a call was interrupted between its search for
\* pages and its marking of them; the pages of the pool and of allocated buffers are visible
\* and pinned where that is required, no others are, and those of a freed buffer are free,
\* unless its address was an alias (IoMmuMap, IoMmuUnmap, IoMmuAcquireBouncePages,
\* IoMmuFreeBuffer).
DmaDataIntact ==
    part = "ioMmu" => /\ IoMmu!DmaDataIntact /\ IoMmu!DmaRangesReady
                      /\ IoMmu!FreedBuffersReturn

\* A routine that changes the acceptance, visibility or pinning of a range fails only when
\* refused (or, on SNP, when it takes visibility back, which it never can); it then leaves the
\* pages before the failure as asked, the others as they were, and reports the count, but for
\* the pages that it could not validate again; it touches no page of others (HostVisibilityLib,
\* EfiHvMakeAddressRangeHostVisible, EfiHvPinAddressRange).
RangeAsAsked ==
    /\ part = "hostVisibility" => HostVisibility!RangeAsAsked
    /\ part = "efiHvMemory" => EfiHvMemory!VisibleExactly /\ EfiHvMemory!PinsExactly

\* GetVariable returns what SetVariable stored last, the enumeration yields each variable once,
\* and the room reported can be used; until a reclaim leaves a pointer or copies of records
\* behind, and but for variables whose last update found no room, which stay readable and are
\* neither enumerated nor counted (UpdateVariable, Reclaim).
VariablesAsSet ==
    part = "variables" =>
        /\ VariableServices!ReadsReturnLastSet
        /\ VariableServices!EnumeratesAll
        /\ VariableServices!RoomAsReported

\* The time, the zone and the alarm read are those set, in every mode of the clock and over
\* resets, but for what a PcRtcInit that changes the mode, or fails in between, loses; an alarm
\* is accepted only within a day (ConvertRtcTimeToEfiTime, PcRtcInit, IsWithinOneDay).
ClockKept ==
    part = "clock" =>
        RealTimeClock!TimeKept /\ RealTimeClock!AlarmKept /\ RealTimeClock!AlarmsWithinADay

\* Every address has the type asked for last, or the one it had if the call failed, and no other
\* while registers are written; a call that reads the type of a remainder from an overwritten
\* entry ensures it for its last range only (MtrrSetMemoryAttributesInMtrrSettings,
\* MtrrLibSetMemoryType).
TypesAsAsked == part = "mtrr" => Mtrr!AttributesAsAsked /\ Mtrr!NoTypeInBetween

\* An image is started if and only if the policy says so or its signatures and digests, as far
\* as they could be read and hashed, are allowed and not forbidden, and its hash covers it all
\* (DxeImageVerificationHandler).
PolicyHeld ==
    part = "images" => ImageVerification!PolicyHeld /\ ImageVerification!HashCoversImage

\* The database entry that allowed an image is measured once, however many images it
\* allows (SecureBootHook, IsDataMeasured).
AuthoritiesMeasuredOnce == part = "images" => ImageVerification!AuthoritiesMeasuredOnce
==============================================================================
