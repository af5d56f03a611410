------------------------ MODULE ImageVerification ------------------------
(***************************************************************************)
(* The verification of an image before it is executed                      *)
(* (MsvmPkg/Library/DxeImageVerificationLib): the policy of the place an   *)
(* image comes from, the walk over its table of signatures, the look-ups   *)
(* in the databases "db" (allowed), "dbx" (forbidden) and "dbt" (trusted   *)
(* time stamps), the bytes a digest covers, the authorities measured into  *)
(* the TPM, the table of refused images and the reason that is reported.   *)
(*                                                                         *)
(* A certificate is a model value, the digest of an image the pair of the  *)
(* algorithm and the image's name, a time a number (0 is no time).  A      *)
(* database is the sequence of its entries, whatever lists they are        *)
(* grouped in, or Absent.  One call of the handler is one step, in which   *)
(* one of the calls it makes may fail, for some or all of the signatures,  *)
(* algorithms or certificates that it is made for.                         *)
(***************************************************************************)
EXTENDS Naturals, Sequences, SequencesExt

CONSTANTS
    Images,       \* the images that are loaded
    Databases,    \* records [db, dbx, dbt]: the contents of the variables
    Modes,        \* values of the SecureBoot variable: "absent", "off", "on"
    Growth,       \* MEASURED_AUTHORITY_COUNT_MAX
    MaxCalls,     \* bound on the images loaded in one boot
    Failures      \* records [what, of]: the calls that may fail; of are the places, and
                  \* for "hash" and "certDigest" the indices that it fails for

VARIABLES step, ctx, call

vars == <<step, ctx, call>>

\* A variable with no data does not exist.
Absent == << >>

\* The algorithms of mHash that can be computed, in the table's order.
mHash == <<"sha256", "sha384", "sha512">>

\* The failure f of a call: wherever it is made, or at the place i.
NoFailure == [what |-> "none", of |-> {}]
FailsAt(f, what, i) == f.what = what /\ i \in f.of

\* The places where dbx and db are read.
Forbidding == 1
Allowing == 2
Looking == 3

---------------------------------------------------------------------------
(* The digest of an image.  A layout counts bytes in coarse units.         *)

\* The section headers ordered by PointerToRawData, equal ones kept in order.
SectionsSorted(l) ==
    SortSeq([i \in DOMAIN l.sections |-> <<l.sections[i], i>>],
            LAMBDA a, b : \/ a[1].at < b[1].at
                          \/ a[1].at = b[1].at /\ a[2] < b[2])

Run(from, to) == [i \in 1..(IF to > from THEN to - from ELSE 0) |-> from + i - 1]

\* The header without its checksum and its security directory entry.
HeaderBytes(l) ==
    Run(0, l.checksum) \o
    (IF l.directory = 0 THEN Run(l.checksum + 1, l.headers)
     ELSE Run(l.checksum + 1, l.directory) \o Run(l.directory + 1, l.headers))

SectionBytes(s) == FlattenSeq([i \in DOMAIN s |-> Run(s[i][1].at, s[i][1].at + s[i][1].size)])

SumOfBytesHashed(l) ==
    l.headers + FoldLeft(LAMBDA n, s : n + s.size, 0, l.sections)

CertSize(l) == IF l.directory = 0 THEN 0 ELSE l.cert

\* The bytes hashed, in order; ok is FALSE when the certificate table would
\* begin inside what the sections cover.
HashPeImage(l) ==
    LET sum == SumOfBytesHashed(l)
        end == l.size - CertSize(l)
    IN [ok    |-> l.size <= sum \/ l.size >= CertSize(l) + sum,
        bytes |-> HeaderBytes(l) \o SectionBytes(SectionsSorted(l)) \o
                  (IF l.size > sum /\ l.size > CertSize(l) + sum THEN Run(sum, end)
                   ELSE << >>)]

Digest(img, alg) == <<alg, img.name>>

\* HashPeImageByType, for the i-th signature: the algorithm is read from it.
HashPeImageByType(img, i, f) ==
    /\ img.table[i].auth.alg \in {mHash[n] : n \in DOMAIN mHash}
    /\ ~FailsAt(f, "hash", i) /\ HashPeImage(img.layout).ok

---------------------------------------------------------------------------
(* The authorities measured into the TPM.                                  *)

\* Room is made first and is kept when the copy of the data then fails.
\* forgotten is a history variable: what was measured and not remembered.
AddDataMeasured(c, entry, f) ==
    CASE Len(c.list) = c.max /\ f.what = "grow" -> [c EXCEPT !.forgotten = @ \cup {entry}]
      [] f.what = "record" -> [c EXCEPT !.max = IF Len(c.list) = @ THEN @ + Growth ELSE @,
                                   !.forgotten = @ \cup {entry}]
      [] OTHER -> [c EXCEPT !.max = IF Len(c.list) = @ THEN @ + Growth ELSE @,
                            !.list = Append(@, entry)]

IsDataMeasured(c, entry) == \E i \in DOMAIN c.list : c.list[i] = entry

MeasureVariable(c, entry) == [c EXCEPT !.log = Append(@, entry)]

SecureBootHookAlways(c, entry, f) ==
    IF f.what = "measure" THEN c ELSE AddDataMeasured(MeasureVariable(c, entry), entry, f)

SecureBootHook(c, entry, f) ==
    IF IsDataMeasured(c, entry) \/ f.what = "measure" THEN c
    ELSE AddDataMeasured(MeasureVariable(c, entry), entry, f)

---------------------------------------------------------------------------
(* The look-ups.                                                           *)

Entries(d, type) == SelectSeq(d, LAMBDA e : e.type = type)

\* AuthenticodeVerify and ImageTimestampVerify of the crypto library.
AuthenticodeVerify(auth, cert) == auth.signs /\ \E i \in DOMAIN auth.chain : auth.chain[i] = cert
ImageTimestampVerify(auth, cert) == auth.tsa = cert

\* The first entry for the certificate's hash decides its revocation time.  The
\* certificate is the i-th of a signature, or for 0 one of db.
IsCertHashFoundInDbx(c, cert, i, f) ==
    LET hits == SelectSeq(Entries(c.data.dbx, "certHash"), LAMBDA e : e.data = cert)
        ok == ~FailsAt(f, "certDigest", i)
    IN [ok |-> ok, found |-> ok /\ hits # << >>,
        time |-> IF hits = << >> THEN 0 ELSE hits[1].time]

IsTimeZero(t) == t = 0

IsValidSignatureByTimestamp(signing, revocation) == signing <= revocation

PassTimestampCheck(c, auth, revocation, f) ==
    /\ ~IsTimeZero(revocation) /\ f.what # "dbt"
    /\ LET roots == Entries(c.data.dbt, "x509")
       IN \E i \in DOMAIN roots :
              /\ ImageTimestampVerify(auth, roots[i].data)
              /\ IsValidSignatureByTimestamp(auth.time, revocation)

\* An error of the search for one certificate's hash is overwritten by the
\* end of the loop, so only the certificates that were found count.
IsForbiddenByDbx(c, auth, f) ==
    \/ FailsAt(f, "dbx", Forbidding)
    \/ /\ c.data.dbx # Absent
       /\ \/ f.what = "signers"
          \/ \E i \in DOMAIN c.data.dbx :
                c.data.dbx[i].type = "x509" /\ AuthenticodeVerify(auth, c.data.dbx[i].data)
          \/ \E i \in DOMAIN auth.chain :
                LET hit == IsCertHashFoundInDbx(c, auth.chain[i], i, f)
                IN hit.found /\ ~PassTimestampCheck(c, auth, hit.time, f)

\* The first certificate of db that verifies the signature decides.
DbRoot(c, auth, f) ==
    LET roots == IF FailsAt(f, "db", Allowing) \/ FailsAt(f, "dbx", Allowing) THEN << >>
                 ELSE SelectSeq(Entries(c.data.db, "x509"),
                                LAMBDA e : AuthenticodeVerify(auth, e.data))
    IN IF roots = << >> THEN Absent ELSE <<roots[1]>>

RootTrusted(c, auth, root, f) ==
    \/ c.data.dbx = Absent
    \/ LET hit == IsCertHashFoundInDbx(c, root.data, 0, f)
       IN hit.ok /\ (hit.found => PassTimestampCheck(c, auth, hit.time, f))

IsAllowedByDb(c, auth, f) ==
    LET root == DbRoot(c, auth, f)
        yes  == root # Absent /\ RootTrusted(c, auth, root[1], f)
    IN [yes |-> yes, ctx |-> IF yes THEN SecureBootHook(c, root[1], f) ELSE c]

\* A digest found in db is measured.
IsSignatureFoundInDatabase(c, name, digest, f) ==
    LET hits == SelectSeq(Entries(c.data[name], "hash"), LAMBDA e : e.data = digest)
        ok == ~FailsAt(f, name, Looking)
        found == ok /\ hits # << >>
    IN [ok |-> ok, found |-> found,
        ctx |-> IF found /\ name = "db" THEN SecureBootHook(c, hits[1], f) ELSE c]

---------------------------------------------------------------------------
(* DxeImageVerificationHandler.  Its locals travel in a record w.          *)

Fresh(c) == [ctx |-> c, on |-> TRUE, at |-> 0, verified |-> FALSE, action |-> "untested",
             cached |-> "none", reported |-> "none", digest |-> Absent]

\* Only the first reason of a call is reported.
ReportDxeImageVerificationStatusCode(w, code) ==
    [w EXCEPT !.reported = IF @ = "none" THEN code ELSE @]

\* One algorithm of the loop over an image with no signature; one that fails is
\* passed over.
UnsignedStep(w, img, n, f) ==
    LET dbx == IsSignatureFoundInDatabase(w.ctx, "dbx", Digest(img, mHash[n]), f)
        db  == IsSignatureFoundInDatabase(w.ctx, "db", Digest(img, mHash[n]), f)
    IN CASE ~w.on \/ FailsAt(f, "hash", n) \/ ~HashPeImage(img.layout).ok -> w
         [] ~dbx.ok \/ dbx.found -> [w EXCEPT !.on = FALSE, !.verified = FALSE,
                                              !.cached = "hashDenied"]
         [] OTHER -> [w EXCEPT !.ctx = db.ctx, !.verified = @ \/ (db.ok /\ db.found)]

\* The loop goes from the last algorithm of the table to the first.
Unsigned(c, img, f) ==
    LET w == FoldLeft(LAMBDA acc, n : UnsignedStep(acc, img, n, f), Fresh(c),
                      Reverse([n \in DOMAIN mHash |-> n]))
    IN IF w.on /\ ~w.verified THEN [w EXCEPT !.cached = "unsignedHashNotInDb"] ELSE w

Forbidden(w) ==
    [w EXCEPT !.on = FALSE, !.verified = FALSE, !.action = "sigFailed", !.cached = "certDenied"]

HashDeniedKeepsVerified(w) ==
    [w EXCEPT !.action = "sigFound", !.cached = "hashDenied"]

HashDenied(w) ==
    [w EXCEPT !.on = FALSE, !.verified = FALSE, !.action = "sigFound", !.cached = "hashDenied"]

\* The hash of the image, once its signature has been judged.
HashJudged(w, img, alg, f) ==
    LET dbx == IsSignatureFoundInDatabase(w.ctx, "dbx", Digest(img, alg), f)
        db  == IsSignatureFoundInDatabase(w.ctx, "db", Digest(img, alg), f)
    IN CASE ~dbx.ok \/ dbx.found -> HashDenied(w)
         [] w.verified -> w
         [] db.ok /\ db.found -> [w EXCEPT !.ctx = db.ctx, !.verified = TRUE]
         [] OTHER -> [w EXCEPT !.ctx = db.ctx, !.action = "sigNotFound",
                               !.cached = "signedHashNotFound"]

\* One signature whose digest can be computed.
SignatureJudged(w, img, auth, f) ==
    IF IsForbiddenByDbx(w.ctx, auth, f) THEN [Forbidden(w) EXCEPT !.digest = Digest(img, auth.alg)]
    ELSE LET allowed == IsAllowedByDb(w.ctx, auth, f)
             judged  == IF w.verified THEN w
                        ELSE [w EXCEPT !.ctx = allowed.ctx, !.verified = allowed.yes]
         IN HashJudged([judged EXCEPT !.digest = Digest(img, auth.alg)], img, auth.alg, f)

\* The lengths of WIN_CERTIFICATE and of its GUID form, in units, and ALIGN_SIZE.
Header == 2
GuidHeader == 4
Align(n) == n % 2
Padded(n) == n + Align(n)

\* The length with which an entry is too short for its type.
TooShort(e) ==
    \/ e.type = "pkcs" /\ e.len <= Header
    \/ e.type \in {"pkcs7Guid", "otherGuid"} /\ e.len <= GuidHeader
    \/ e.type = "other" /\ e.len < Header

\* One turn of the loop over the attribute certificate table: a break leaves
\* the offset where it is.
TableStep(w, i, img, f) ==
    LET e == img.table[i]
        left == img.layout.cert - w.at
        next(v) == IF v.on THEN [v EXCEPT !.at = @ + Padded(e.len)] ELSE v
    IN CASE ~w.on -> w
         [] \/ left <= Header
            \/ left < e.len
            \/ left - e.len < Align(e.len)
            \/ TooShort(e) -> [w EXCEPT !.on = FALSE]
         [] \/ e.type \in {"otherGuid", "other"}
            \/ ~HashPeImageByType(img, i, f) -> next(w)
         [] OTHER -> next(SignatureJudged(w, img, e.auth, f))

Signed(c, img, f) ==
    LET w == FoldLeft(LAMBDA acc, i : TableStep(acc, i, img, f), Fresh(c),
                      [i \in DOMAIN img.table |-> i])
        v == IF w.at = img.layout.cert THEN w
             ELSE ReportDxeImageVerificationStatusCode([w EXCEPT !.verified = FALSE], "failed")
    IN IF v.verified \/ v.action \in {"sigFailed", "sigFound"} THEN v
       ELSE [v EXCEPT !.cached = "neitherInDb"]

\* The entry carries the digest when a signature or a hash was refused.
ExeInfo(w, img, f) ==
    [image |-> img.name, action |-> w.action,
     digest |-> IF w.action \in {"sigFailed", "sigFound"} /\ f.what # "signatureList"
                THEN w.digest ELSE Absent]

\* AddImageExeInfo: a larger copy of the table replaces it.
AddImageExeInfo(w, img, f) ==
    [w.ctx EXCEPT !.table = IF f.what = "table" THEN @
                            ELSE <<Append(IF @ = Absent THEN << >> ELSE @[1], ExeInfo(w, img, f))>>]

\* The label Failed: the cached reason, the table, the generic reason.
Refused(w, img, f) ==
    LET v == IF w.cached = "none" THEN w ELSE ReportDxeImageVerificationStatusCode(w, w.cached)
    IN IF f.what = "name" THEN v
       ELSE ReportDxeImageVerificationStatusCode([v EXCEPT !.ctx = AddImageExeInfo(v, img, f)],
                                                 "failed")

GetImageType(src) ==
    CASE src.fv -> "fv"
      [] src.media \in {"removable", "fixed"} -> src.media
      [] src.fileSystem -> "fixed"
      [] src.node = "offsetRange" -> "optionRom"
      [] src.node = "mac" -> "removable"
      [] OTHER -> "unknown"

\* The policies are the platform's settings; an unknown source is denied.
Policy(type) == IF type = "fv" THEN "always" ELSE "deny"

Enforced(img, f) ==
    /\ Policy(GetImageType(img.source)) # "always"
    /\ ctx.secureBoot = "on" \/ f.what = "secureBoot"

Judged(img, f) ==
    CASE ~img.valid -> [Fresh(ctx) EXCEPT !.cached = "invalidImage"]
      [] CertSize(img.layout) = 0 -> Unsigned(ctx, img, f)
      [] OTHER -> Signed(ctx, img, f)

NoCall == [status |-> "none"]

Answer(img, f, w) ==
    /\ ctx' = [w.ctx EXCEPT !.calls = @ + 1]
    /\ call' = [image |-> img, failed |-> f, enforced |-> Enforced(img, f),
                verified |-> w.verified, status |-> IF w.verified THEN "success" ELSE "denied",
                cached |-> w.cached, reported |-> w.reported]

\* A call of the handler: accepted unseen, refused for want of a buffer, or judged.
DxeImageVerificationHandler(img, f) ==
    /\ call = NoCall /\ ctx.calls < MaxCalls
    /\ \/ /\ ~Enforced(img, f)
          /\ Answer(img, f, [Fresh(ctx) EXCEPT !.verified = TRUE])
       \/ /\ Enforced(img, f) /\ f.what = "buffer"
          /\ Answer(img, f, Fresh(ctx))
       \/ /\ Enforced(img, f) /\ f.what # "buffer"
          /\ LET w == Judged(img, f)
             IN Answer(img, f, IF w.verified THEN w ELSE Refused(w, img, f))
    /\ UNCHANGED step

\* Its caller has the status: the next image can be loaded.
Return ==
    /\ call # NoCall
    /\ call' = NoCall
    /\ UNCHANGED <<step, ctx>>

\* The table is installed, empty, if no image was refused before.
OnReadyToBoot ==
    /\ step = "dispatch"
    /\ \E f \in {NoFailure} \cup {g \in Failures : g.what = "table"} :
           ctx' = [ctx EXCEPT !.table = IF @ = Absent /\ f = NoFailure THEN << << >> >> ELSE @]
    /\ step' = "ready"
    /\ UNCHANGED call

DxeImageVerificationLibConstructor ==
    /\ step = "start"
    /\ step' = "dispatch"
    /\ UNCHANGED <<ctx, call>>

Init ==
    /\ step = "start"
    /\ \E d \in Databases, m \in Modes :
           ctx = [data |-> d, secureBoot |-> m, log |-> << >>, list |-> << >>, max |-> 0,
                  forgotten |-> {}, table |-> Absent, calls |-> 0]
    /\ call = NoCall

Next ==
    \/ DxeImageVerificationLibConstructor
    \/ step # "start" /\ \E img \in Images, f \in Failures \cup {NoFailure} :
           DxeImageVerificationHandler(img, f)
    \/ Return
    \/ OnReadyToBoot

Spec == Init /\ [][Next]_vars

---------------------------------------------------------------------------
(* The properties.                                                         *)

\* A table of signatures that is sound up to its end.
Sound(img) ==
    /\ FoldLeft(LAMBDA n, e : n + Padded(e.len), 0, img.table) = img.layout.cert
    /\ \A i \in DOMAIN img.table : ~TooShort(img.table[i])

\* The signatures and the digests of an image that can be computed when f fails.
Signatures(img, f) ==
    {img.table[i].auth : i \in {j \in DOMAIN img.table :
        img.table[j].type \in {"pkcs", "pkcs7Guid"} /\ HashPeImageByType(img, j, f)}}

Digests(img, f) ==
    {Digest(img, alg) : alg \in
        IF CertSize(img.layout) = 0 THEN {mHash[n] : n \in {m \in DOMAIN mHash : ~FailsAt(f, "hash", m)}}
        ELSE {a.alg : a \in Signatures(img, f)}}

In(d, type, data) == \E i \in DOMAIN Entries(d, type) : Entries(d, type)[i].data = data

\* Revoked, and not signed before its revocation under a trusted time stamp.
Revoked(cert, a) ==
    /\ In(ctx.data.dbx, "certHash", cert)
    /\ ~ \E i \in DOMAIN Entries(ctx.data.dbx, "certHash") :
            LET e == Entries(ctx.data.dbx, "certHash")[i]
            IN e.data = cert /\ e.time # 0 /\ a.time <= e.time /\ In(ctx.data.dbt, "x509", a.tsa)

Reflected(img, f) ==
    \/ \E d \in Digests(img, f) : In(ctx.data.dbx, "hash", d)
    \/ \E a \in Signatures(img, f) : \E i \in DOMAIN a.chain :
           \/ a.signs /\ In(ctx.data.dbx, "x509", a.chain[i])
           \/ Revoked(a.chain[i], a) /\ ~FailsAt(f, "certDigest", i)

Vouched(img, f) ==
    \/ \E d \in Digests(img, f) : In(ctx.data.db, "hash", d)
    \/ \E a \in Signatures(img, f) : \E i \in DOMAIN a.chain :
           a.signs /\ In(ctx.data.db, "x509", a.chain[i]) /\ ~Revoked(a.chain[i], a)

\* An image's headers and its table of signatures are sound, nothing of it is
\* reflected in dbx and a signature or a hash of it is in db: the policy in the
\* comment of DxeImageVerificationHandler, for what can be computed when f fails.
Right(img, f) ==
    /\ img.valid /\ HashPeImage(img.layout).ok
    /\ CertSize(img.layout) # 0 => Sound(img)
    /\ ~Reflected(img, f) /\ Vouched(img, f)

\* Images are free that come from the firmware volume, and all where the variable
\* SecureBoot is missing or says that it is off.
Free(img, f) == img.source.fv \/ (ctx.secureBoot \in {"absent", "off"} /\ f.what # "secureBoot")

\* A free image is accepted; another one if and only if it is right.  A call that
\* fails may only refuse an image, except that a digest of the image that cannot
\* be computed, or of a certificate that signed it, is passed over: what remains
\* decides.
PolicyHeld ==
    call.status # "none" =>
        LET img == call.image
            f   == call.failed
        IN IF Free(img, f) THEN call.status = "success"
           ELSE /\ call.status = "success" => Right(img, f)
                /\ Right(img, f) /\ f = NoFailure => call.status = "success"

\* Not so: a call that fails may only refuse an image.
FailuresOnlyRefuse ==
    call.status = "success" => Free(call.image, call.failed) \/ Right(call.image, NoFailure)

\* The digest that HashPeImage computes covers every byte of the file once
\* and in order, but for the checksum, the security directory entry and the
\* certificate table, whatever the order of the section headers.
HashCoversImage ==
    call.status # "none" =>
        LET l == call.image.layout
        IN HashPeImage(l).ok =>
               HashPeImage(l).bytes =
                   SelectSeq(Run(0, l.size - CertSize(l)),
                             LAMBDA n : n # l.checksum /\ (l.directory = 0 \/ n # l.directory))

\* Every entry of db that vouches for an image is measured once in a boot,
\* before the image runs: SecureBootHook remembers what it measured.  Memory
\* that runs out may make it forget, and a failing TPM may stop it.
AuthoritiesMeasuredOnce ==
    /\ \A i, j \in DOMAIN ctx.log :
           (i # j /\ ctx.log[i] = ctx.log[j]) => ctx.log[i] \in ctx.forgotten
    /\ (call.status = "success" /\ call.enforced /\ call.failed.what # "measure") =>
           \E i \in DOMAIN ctx.log :
               \/ ctx.log[i].type = "hash" /\ ctx.log[i].data \in Digests(call.image, call.failed)
               \/ ctx.log[i].type = "x509"
                  /\ \E a \in Signatures(call.image, call.failed) : AuthenticodeVerify(a, ctx.log[i].data)

\* "Report the specific verification failure reason if we cached one": the
\* reason reported for a refused image is the one the handler cached.
ReasonReported ==
    (call.status = "denied" /\ call.cached # "none") => call.reported = call.cached
===========================================================================
