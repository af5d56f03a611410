--------------------------- MODULE HostVisibility ----------------------------
(***************************************************************************)
(* The host visibility library, for hardware isolated guests without a     *)
(* paravisor: accepting pages, and changing whether the host sees them, on *)
(* SNP, on SNP with an SVSM and on TDX.  One action is one turn of the loop *)
(* of the routine that was called.                                         *)
(*                                                                         *)
(* A page is "shared", "private" (not accepted, no access) or "accepted".  *)
(***************************************************************************)
EXTENDS Integers, Sequences, FiniteSets

CONSTANTS
    PageCount,      \* pages of the guest
    LargePage,      \* SIZE_2MB / EFI_PAGE_SIZE
    MaxEntries,     \* entries that fit in the SVSM calling area
    Calls,          \* <<platform, operation>> pairs that are called
    Backings,       \* the sets of large pages that the host backs as large ones
    Refusals        \* what may be refused: subset of {"accept", "validate", "request",
                    \* "restore", "count"}, the last for an answer that makes no sense

VARIABLES step, ctx, host

vars == <<step, ctx, host>>

Pages == 0 .. PageCount - 1
Asked(op) ==
    CASE op = "accept" -> "accepted" [] op = "unaccept" -> "private"
      [] op = "visible" -> "shared" [] op = "private" -> "accepted"
\* What a page may be when the operation is asked for.
Before(op) ==
    CASE op = "accept" -> "private" [] op = "unaccept" -> "accepted"
      [] op = "visible" -> "accepted" [] op = "private" -> "shared"

NoCall == [platform |-> "none", op |-> "none", start |-> 0, count |-> 0]

\* The call, the first page left, how many pages were reported as processed, and
\* which of two SVSM calls in a row this is (two that do the same are two steps).
Init ==
    /\ step = "idle"
    /\ ctx = [call |-> NoCall, at |-> 0, processed |-> 0, failed |-> FALSE, turn |-> FALSE]
    /\ host \in [page : {[p \in Pages |-> "private"]}, large : Backings, refused : {{}}]

CallRoutine ==
    /\ step = "idle"
    /\ \E c \in Calls, start \in Pages, count \in 1 .. PageCount :
         /\ start + count <= PageCount
         /\ ctx' = [call |-> [platform |-> c[1], op |-> c[2], start |-> start, count |-> count],
                    at |-> start, processed |-> 0, failed |-> FALSE, turn |-> FALSE]
         /\ host' = [host EXCEPT !.page = [p \in Pages |-> Before(c[2])]]
    /\ step' = "loop"

Platform == ctx.call.platform
Op == ctx.call.op
EndPage == ctx.call.start + ctx.call.count
PagesLeft == EndPage - ctx.at
Set(h, first, count, state) ==
    [h EXCEPT !.page = [p \in Pages |-> IF p \in first .. first + count - 1 THEN state ELSE @[p]]]
Return(failed) ==
    /\ step' = "returned"
    /\ ctx' = [ctx EXCEPT !.failed = failed]
\* A request is refused, after which the pages are as in h.
Refuses(what, h) == what \in Refusals /\ host' = [h EXCEPT !.refused = @ \cup {what}]
-----------------------------------------------------------------------------
(* Acceptance                                                              *)

\* A large page can be accepted in one operation from its first page; the SNP routine compares
\* page numbers and counts with SIZE_2MB in bytes, so it takes pages one by one.
LargePageAt(page, left) == page % LargePage = 0 /\ left >= LargePage
TryLarge == Platform = "tdx" /\ LargePageAt(ctx.at, PagesLeft)
BackedLarge(page) == page \div LargePage \in host.large

\* EfiUpdatePageRangeAcceptanceTdx, EfiUpdatePageRangeAcceptanceSnp: a size mismatch on a large
\* page falls back to a small one.
UpdateAcceptanceLarge ==
    /\ TryLarge /\ BackedLarge(ctx.at)
    /\ host' = Set(host, ctx.at, LargePage, Asked(Op))
    /\ ctx' = [ctx EXCEPT !.at = @ + LargePage]
UpdateAcceptanceSmall ==
    /\ ~(TryLarge /\ BackedLarge(ctx.at))
    /\ host' = Set(host, ctx.at, 1, Asked(Op))
    /\ ctx' = [ctx EXCEPT !.at = @ + 1]

\* EfiUpdatePageRangeAcceptance: on TDX nothing is done when acceptance is revoked.
NoAction == Platform = "tdx" /\ Op = "unaccept"
EfiUpdatePageRangeAcceptance ==
    /\ step = "loop" /\ Platform \in {"snp", "tdx"} /\ Op \in {"accept", "unaccept"}
    /\ IF NoAction \/ PagesLeft = 0
       THEN Return(FALSE) /\ UNCHANGED host
       ELSE \/ (UpdateAcceptanceLarge \/ UpdateAcceptanceSmall) /\ UNCHANGED step
            \/ Refuses("accept", host) /\ Return(TRUE)

\* The entries of one SVSM call, as the number of pages each stands for: a large page wherever
\* one is possible.  errorCode has been reset, so a size mismatch of the last call is not seen.
SvsmEntries ==
    LET Fill[n \in 0 .. MaxEntries] ==
            IF n = 0 THEN [sizes |-> <<>>, page |-> ctx.at]
            ELSE LET f == Fill[n - 1]
                     size == IF LargePageAt(f.page, EndPage - f.page) THEN LargePage ELSE 1
                 IN  IF f.page = EndPage THEN f
                     ELSE [sizes |-> Append(f.sizes, size), page |-> f.page + size]
    IN  Fill[MaxEntries].sizes
EntryStart(sizes, i) ==
    LET Sum[n \in 0 .. Len(sizes)] == IF n = 0 THEN ctx.at ELSE Sum[n - 1] + sizes[n]
    IN  Sum[i - 1]
Mismatch(sizes, i) == sizes[i] = LargePage /\ ~BackedLarge(EntryStart(sizes, i))

\* EfiUpdatePageRangeAcceptanceSnpSvsm: the SVSM stops at the first entry of the wrong size, or
\* that it refuses; the entries before it are done.  Each entry asks for validation, whatever
\* Accept is.
EfiUpdatePageRangeAcceptanceSnpSvsm ==
    /\ step = "loop" /\ Platform = "svsm" /\ Op \in {"accept", "unaccept"}
    /\ IF PagesLeft = 0
       THEN Return(FALSE) /\ UNCHANGED host
       ELSE LET sizes == SvsmEntries
                wrong == {i \in DOMAIN sizes : Mismatch(sizes, i)}
                stop == IF wrong = {} THEN Len(sizes) + 1 ELSE CHOOSE i \in wrong : \A j \in wrong : i <= j
                Validated(page) == Set(host, ctx.at, page - ctx.at, "accepted")
            IN  \/ /\ host' = Validated(EntryStart(sizes, stop))
                   /\ ctx' = [ctx EXCEPT !.at = EntryStart(sizes, stop), !.turn = ~@]
                   /\ UNCHANGED step
                \/ /\ \E i \in 1 .. stop : Refuses("accept", Validated(EntryStart(sizes, i)))
                   /\ Return(TRUE)
-----------------------------------------------------------------------------
(* Visibility on SNP                                                       *)

\* VispPvalidateSinglePage: through the SVSM as asked; without one the instruction's argument
\* is zero, which revokes.  A page that the host sees cannot be validated.
VispPvalidateSinglePage(h, page, validate) ==
    IF h.page[page] = "shared" THEN h
    ELSE Set(h, page, 1, IF validate /\ Platform = "svsm" THEN "accepted" ELSE "private")

Processed == ctx' = [ctx EXCEPT !.at = @ + 1, !.processed = @ + 1]

\* EfiMakePageRangeHostVisibleSnp: unvalidate, which may be refused, request the shared state,
\* and validate again when the host refuses, without a look at the result.
EfiMakePageRangeHostVisibleSnpNoRestore ==
    /\ step = "loop" /\ Platform \in {"snp", "svsm"} /\ Op = "visible"
    /\ IF PagesLeft = 0
       THEN Return(FALSE) /\ UNCHANGED host
       ELSE LET unvalidated == VispPvalidateSinglePage(host, ctx.at, FALSE)
            IN  \/ host' = Set(unvalidated, ctx.at, 1, "shared") /\ Processed /\ UNCHANGED step
                \/ Refuses("validate", host) /\ Return(TRUE)
                \/ Refuses("request", unvalidated) /\ Return(TRUE)
EfiMakePageRangeHostVisibleSnp ==
    /\ step = "loop" /\ Platform \in {"snp", "svsm"} /\ Op = "visible"
    /\ IF PagesLeft = 0
       THEN Return(FALSE) /\ UNCHANGED host
       ELSE LET unvalidated == VispPvalidateSinglePage(host, ctx.at, FALSE)
            IN  \/ host' = Set(unvalidated, ctx.at, 1, "shared") /\ Processed /\ UNCHANGED step
                \/ Refuses("validate", host) /\ Return(TRUE)
                \/ Refuses("request", VispPvalidateSinglePage(unvalidated, ctx.at, TRUE)) /\ Return(TRUE)
                \/ /\ "restore" \in Refusals
                   /\ Refuses("request", [unvalidated EXCEPT !.refused = {"restore"}])
                   /\ Return(TRUE)

\* EfiMakePageRangeHostNotVisibleSnp: the request is for the shared state as well, so the page
\* cannot be validated.
EfiMakePageRangeHostNotVisibleSnp ==
    /\ step = "loop" /\ Platform \in {"snp", "svsm"} /\ Op = "private"
    /\ IF PagesLeft = 0
       THEN Return(FALSE) /\ UNCHANGED host
       ELSE \/ LET requested == Set(host, ctx.at, 1, "shared")
                   validated == VispPvalidateSinglePage(requested, ctx.at, TRUE)
               IN  /\ host' = validated
                   /\ IF validated = requested THEN Return(TRUE) ELSE Processed /\ UNCHANGED step
            \/ Refuses("request", host) /\ Return(TRUE)
-----------------------------------------------------------------------------
(* Visibility on TDX                                                       *)

\* EfiChangePageRangeHostVisibilityTdx: each MapGPA call changes n pages from the first one left
\* and says where to go on, or fails there.  Where that is no page of the range, all is taken
\* to have failed: no page counts as processed, although some may have changed.
TdxChanged(n) == Set(host, ctx.at, n, IF Op = "visible" THEN "shared" ELSE "private")
TdxReturned(processed, failed) ==
    /\ ctx' = [ctx EXCEPT !.at = ctx.call.start, !.processed = processed, !.failed = failed]
    /\ step' = "accept"
EfiChangePageRangeHostVisibilityTdx ==
    /\ step = "loop" /\ Platform = "tdx" /\ Op \in {"visible", "private"}
    /\ \E n \in 0 .. PagesLeft :
         \/ /\ n \in 1 .. PagesLeft - 1
            /\ host' = TdxChanged(n)
            /\ ctx' = [ctx EXCEPT !.at = @ + n, !.processed = @ + n]
            /\ UNCHANGED step
         \/ n = PagesLeft /\ host' = TdxChanged(n) /\ TdxReturned(ctx.call.count, FALSE)
         \/ Refuses("request", TdxChanged(n)) /\ TdxReturned(ctx.processed + n, TRUE)
         \/ Refuses("count", TdxChanged(n)) /\ TdxReturned(0, TRUE)

\* The pages that were made private are accepted again, in EfiUpdatePageRangeAcceptanceTdx.
ReacceptLeft == IF Op = "private" THEN ctx.call.start + ctx.processed - ctx.at ELSE 0
ReacceptLarge == LargePageAt(ctx.at, ReacceptLeft) /\ BackedLarge(ctx.at)
ReacceptTdx ==
    /\ step = "accept"
    /\ IF ReacceptLeft = 0
       THEN step' = "returned" /\ UNCHANGED <<ctx, host>>
       ELSE LET n == IF ReacceptLarge THEN LargePage ELSE 1
            IN  \/ /\ host' = Set(host, ctx.at, n, "accepted")
                   /\ ctx' = [ctx EXCEPT !.at = @ + n]
                   /\ UNCHANGED step
                \/ Refuses("accept", host) /\ Return(TRUE)

Done ==
    /\ step = "returned"
    /\ step' = "idle"
    /\ ctx' = [ctx EXCEPT !.call = NoCall, !.at = 0, !.processed = 0, !.failed = FALSE, !.turn = FALSE]
    /\ host' = [host EXCEPT !.page = [p \in Pages |-> "private"], !.refused = {}]

Next ==
    \/ CallRoutine \/ EfiUpdatePageRangeAcceptance \/ EfiUpdatePageRangeAcceptanceSnpSvsm
    \/ EfiMakePageRangeHostVisibleSnp \/ EfiMakePageRangeHostNotVisibleSnp
    \/ EfiChangePageRangeHostVisibilityTdx \/ ReacceptTdx \/ Done

Spec == Init /\ [][Next]_vars
FairSpec == Spec /\ WF_vars(Next)
-----------------------------------------------------------------------------
(* Properties                                                              *)

RangePages == {p \in Pages : ctx.call.start <= p /\ p < EndPage}

\* The calls that cannot succeed: EfiMakePageRangeHostNotVisibleSnp requests the shared state.
Hopeless == Platform \in {"snp", "svsm"} /\ Op = "private"
\* The calls that do nothing: on TDX none is needed; an SVSM is asked to validate pages that are.
Idle == Platform \in {"tdx", "svsm"} /\ Op = "unaccept"

\* The first a pages of the range are as asked, those up to k without access, all others of the
\* guest as they were.
Zones(a, k) ==
    \A p \in Pages :
        host.page[p] = IF p \in RangePages /\ p < ctx.call.start + a THEN Asked(Op)
                       ELSE IF p \in RangePages /\ p < ctx.call.start + k THEN "private"
                       ELSE Before(Op)

\* A routine fails if and only if it was refused something or is hopeless.  When it succeeds the
\* whole range is as asked, unless it has nothing to do; when it fails the pages before the
\* failure stay as asked and the others as they were.  Pages without access stay between them in
\* two cases only: one page, when it could not be shared and was not validated again (without an
\* SVSM it never is); and pages no longer shared that were not accepted or not counted.  Unless
\* the host's count was dismissed, PagesProcessed counts the pages shared, or no longer shared.
RangeAsAsked ==
    step = "returned" =>
        /\ ctx.failed <=> host.refused # {} \/ Hopeless
        /\ \E a \in 0 .. ctx.call.count, k \in 0 .. ctx.call.count :
             /\ a <= k /\ Zones(a, k)
             /\ ~ctx.failed => a = k /\ a = IF Idle THEN 0 ELSE ctx.call.count
             /\ k > a => \/ /\ Op = "visible" /\ k = a + 1 /\ "request" \in host.refused
                            /\ Platform = "snp" \/ "restore" \in host.refused
                         \/ /\ Op = "private" /\ host.refused \cap {"accept", "count"} # {}
             /\ Op \in {"visible", "private"} /\ "count" \notin host.refused =>
                    ctx.processed = IF Op = "visible" THEN a ELSE k

\* Not so: what the host does not refuse succeeds.
SucceedsUnlessRefused == step = "returned" /\ host.refused = {} => ~ctx.failed

\* Not so: a success leaves every page of the range as asked.
SuccessMeansDone ==
    step = "returned" /\ ~ctx.failed => \A p \in RangePages : host.page[p] = Asked(Op)

\* Not so: a page that could not be shared is accepted as before.
RefusedPageRestored ==
    step = "returned" /\ Op = "visible" => \A p \in RangePages : host.page[p] # "private"

\* A routine that was called returns.
RoutinesReturn == step = "loop" ~> step = "returned"
=============================================================================
