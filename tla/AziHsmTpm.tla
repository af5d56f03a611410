------------------------------ MODULE AziHsmTpm -------------------------------
(***************************************************************************)
(* AziHsmBKS3.c: how the boot key is expanded, and how data is sealed to   *)
(* and unsealed from the TPM's null hierarchy.  Commands and responses are *)
(* byte sequences: sizes are big-endian, except the two lengths in front   *)
(* of the parts of a sealed blob, which are stored as the CPU keeps them.  *)
(***************************************************************************)
EXTENDS Naturals, Sequences

CONSTANTS
    Plains,        \* what may be sealed
    Bodies,        \* bodies the TPM may choose for the private and public part
    Cuts,          \* bytes missing at the end of a response or a stored blob
    MaxPlain,      \* MAX_DIGEST_BUFFER
    CommandBytes,  \* size of the parameter area of a create command
    BlobBytes,     \* size of a sealed buffer
    Digest,        \* SHA256_DIGEST_SIZE
    KeySizes,      \* sizes of the keys to derive
    Failures       \* TPM commands that may be refused

VARIABLES
    held,  \* TPM objects to flush
    step,  \* "idle", "seal", "load", "unseal", "derive"
    ctx,   \* [plain, blob, out, key, size]: buffers of the caller
    call,  \* the last command sent to the TPM
    host   \* [priv, pub, plain, loaded]: what the TPM sealed last

vars == <<held, step, ctx, call, host>>

(***************************************************************************)
(* Marshalling.                                                            *)
(***************************************************************************)
U16(v) == <<v \div 256, v % 256>>
U32(v) == <<0, 0>> \o U16(v)

\* A UINT16 as the CPU stores it.
Native(v) == <<v % 256, v \div 256>>

Sized(bytes) == U16(Len(bytes)) \o bytes

\* An output area: what has been written and what fits.  A write that does
\* not fit fails, and with it the command.
Area(cap) == [ok |-> TRUE, cap |-> cap, buf |-> <<>>]

Put(a, bytes) ==
    IF a.ok /\ Len(a.buf) + Len(bytes) <= a.cap
    THEN [a EXCEPT !.buf = @ \o bytes]
    ELSE [a EXCEPT !.ok = FALSE]

CopySensitiveData(a, auth, data) == Put(a, Sized(Sized(auth) \o Sized(data)))

\* The fields of publicArea in the order they are marshalled.
KeyedHash == [type |-> 8, scheme |-> 16, hashAlg |-> 11, policy |-> <<>>, unique |-> <<>>]

PublicDetail(p) ==
    IF p.type = 1
    THEN U16(6) \o U16(128) \o U16(67) \o U16(p.scheme) \o U16(2048) \o U32(0) \o U16(0)
    ELSE U16(p.scheme) \o (IF p.scheme # 16 THEN U16(p.hashAlg) ELSE <<>>) \o Sized(p.unique)

\* Sizes are computed field by field before the writes, and compared after them.
PublicContentSize(p) ==
    10 + Len(p.policy)
    + (IF p.type = 1 THEN 16
       ELSE 2 + (IF p.scheme # 16 THEN 2 ELSE 0) + 2 + Len(p.unique))

CopyPublicDataToBuffer(a, p) ==
    LET body == U16(p.type) \o U16(11) \o U32(82) \o Sized(p.policy) \o PublicDetail(p)
    IN  IF PublicContentSize(p) = Len(body)
        THEN Put(a, U16(PublicContentSize(p)) \o body)
        ELSE [a EXCEPT !.ok = FALSE]

\* The parameters of a create command: sensitive, public, outside info, PCRs.
CreateParameters(auth, data, p) ==
    Put(Put(CopyPublicDataToBuffer(CopySensitiveData(Area(CommandBytes), auth, data), p),
            U16(0)), U32(0))

(***************************************************************************)
(* Reading sized fields: a cursor [ok, buf, pos, val].                     *)
(***************************************************************************)
Cursor(bytes) == [ok |-> TRUE, buf |-> bytes, pos |-> 0, val |-> <<>>]

Read(c, n) ==
    IF c.ok /\ c.pos + n <= Len(c.buf)
    THEN [c EXCEPT !.pos = @ + n, !.val = SubSeq(c.buf, c.pos + 1, c.pos + n)]
    ELSE [c EXCEPT !.ok = FALSE, !.val = <<0, 0, 0, 0>>]

Big(bytes) == 256 * bytes[Len(bytes) - 1] + bytes[Len(bytes)]

Little(bytes) == bytes[1] + 256 * bytes[2]

ReadBody(c) == Read(c, Big(c.val))

ReadSized(c) == ReadBody(Read(c, 2))

Refuse(c, bad) == [c EXCEPT !.ok = @ /\ ~bad]

(***************************************************************************)
(* AziHsmTpmSealBuffer: the response to the create command holds the size  *)
(* of its parameters, the private and the public part; both are stored     *)
(* with their own size fields behind a native total.                       *)
(***************************************************************************)

BlobOf(priv, pub) ==
    Native(Len(priv) + 2) \o Sized(priv) \o Native(Len(pub) + 2) \o Sized(pub)

SealedFrom(priv, pub) ==
    IF pub.ok /\ Len(BlobOf(priv.val, pub.val)) <= BlobBytes
    THEN [ok |-> TRUE, blob |-> BlobOf(priv.val, pub.val)]
    ELSE [ok |-> FALSE, blob |-> <<>>]

SealedAfter(priv) == SealedFrom(priv, ReadSized(priv))

ParamSizeFits(c) == Refuse(c, Big(c.val) > Len(c.buf) - 4)

ParseCreated(bytes) == SealedAfter(ReadSized(ParamSizeFits(Read(Cursor(bytes), 4))))

(***************************************************************************)
(* AziHsmTpmLoadSealedBuffer: the two parts of the blob, each of which     *)
(* must have the size its own field says.                                  *)
(***************************************************************************)
PartRead(c) == Read(c, Little(c.val))

PartSound(part) == Len(part) > 2 /\ Big(SubSeq(part, 1, 2)) + 2 = Len(part)

LoadFrom(priv, pub) ==
    IF pub.ok /\ PartSound(priv.val) /\ PartSound(pub.val)
    THEN [ok |-> TRUE, params |-> priv.val \o pub.val]
    ELSE [ok |-> FALSE, params |-> <<>>]

LoadAfter(priv) == LoadFrom(priv, PartRead(Read(priv, 2)))

LoadParameters(blob) == LoadAfter(PartRead(Read(Cursor(blob), 2)))

\* AziHsmTpmUnsealBuffer: parameter size, data size, data.
ParamsEnd(c) == Refuse(c, Big(c.val) > Len(c.buf) - 4 \/ Big(c.val) < 2)

ParseUnsealed(bytes) == ReadSized(ParamsEnd(Read(Cursor(bytes), 4)))

(***************************************************************************)
(* ManualHkdfSha256Expand.  The keyed hash is a constructor: block n       *)
(* depends on the block before it (none for the first) and on n.           *)
(***************************************************************************)
Block(n) == [i \in 1..Digest |-> <<n, i>>]

NumBlocks(size) == (size + Digest - 1) \div Digest

\* [key, prev]: what has been copied out, and T_prev.
Expanded(size) ==
    LET f[n \in 0..NumBlocks(size)] ==
          IF n = 0 THEN <<>>
          ELSE LET left == size - Len(f[n - 1])
               IN  f[n - 1] \o SubSeq(Block(n), 1, IF left < Digest THEN left ELSE Digest)
    IN  f[NumBlocks(size)]

(***************************************************************************)
(* Actions.  Every routine flushes its objects at its exit label.          *)
(***************************************************************************)
Left == held' = {}

Begin(what) ==
    /\ step = "idle"
    /\ what = "load" => ctx.blob # <<>>
    /\ \/ "primary" \in Failures /\ UNCHANGED <<held, step>>     \* no object was made
       \/ held' = {"primary"} /\ step' = what
    /\ UNCHANGED <<ctx, call, host>>

AziHsmTpmSealBuffer(plain, priv, pub, cut) ==
    LET cmd == CreateParameters(<<>>, plain, KeyedHash)
        rsp == U32(4 + Len(priv) + Len(pub)) \o Sized(priv) \o Sized(pub)
        got == ParseCreated(SubSeq(rsp, 1, Len(rsp) - cut))
    IN  /\ step = "seal"
        /\ Left
        /\ step' = "idle"
        /\ \/ /\ Len(plain) \in 1..MaxPlain
              /\ cmd.ok
              /\ call' = cmd.buf
              /\ host' = [priv |-> priv, pub |-> pub, plain |-> plain, loaded |-> <<>>]
              /\ ctx' = [ctx EXCEPT !.plain = plain, !.blob = got.blob, !.out = <<>>]
           \/ /\ (Len(plain) \notin 1..MaxPlain \/ ~cmd.ok \/ "create" \in Failures)
              /\ ctx' = [ctx EXCEPT !.plain = <<>>, !.blob = <<>>, !.out = <<>>]
              /\ UNCHANGED <<call, host>>

\* The blob comes back from storage, whole or not; the TPM loads an object only
\* from the parts it made.
AziHsmTpmLoadSealedBuffer(cut) ==
    LET p == LoadParameters(SubSeq(ctx.blob, 1, Len(ctx.blob) - cut))
    IN  /\ step = "load"
        /\ cut <= Len(ctx.blob)
        /\ IF p.ok /\ p.params = Sized(host.priv) \o Sized(host.pub)
           THEN /\ held' = held \union {"object"}
                /\ step' = "unseal"
                /\ host' = [host EXCEPT !.loaded = host.plain]
           ELSE /\ Left
                /\ step' = "idle"
                /\ UNCHANGED host
        /\ call' = IF p.ok THEN p.params ELSE call
        /\ UNCHANGED ctx

AziHsmTpmUnsealBuffer(cut) ==
    LET rsp == U32(2 + Len(host.loaded)) \o Sized(host.loaded)
        got == ParseUnsealed(SubSeq(rsp, 1, Len(rsp) - cut))
    IN  /\ step = "unseal"
        /\ Left
        /\ step' = "idle"
        /\ host' = [host EXCEPT !.loaded = <<>>]
        /\ ctx' = [ctx EXCEPT !.out = IF got.ok /\ Len(got.val) <= BlobBytes
                                      THEN got.val ELSE <<>>]
        /\ UNCHANGED call

AziHsmDeriveBKS3fromId(size) ==
    /\ step = "idle"
    /\ ctx' = [ctx EXCEPT !.key = Expanded(size), !.size = size]
    /\ UNCHANGED <<held, step, call, host>>

Init ==
    /\ held = {}
    /\ step = "idle"
    /\ ctx = [plain |-> <<>>, blob |-> <<>>, out |-> <<>>, key |-> <<>>, size |-> 0]
    /\ call = <<>>
    /\ host = [priv |-> <<>>, pub |-> <<>>, plain |-> <<>>, loaded |-> <<>>]

Next ==
    \/ \E what \in {"seal", "load"} : Begin(what)
    \/ \E plain \in Plains, priv \in Bodies, pub \in Bodies, cut \in Cuts :
           AziHsmTpmSealBuffer(plain, priv, pub, cut)
    \/ \E cut \in Cuts : AziHsmTpmLoadSealedBuffer(cut) \/ AziHsmTpmUnsealBuffer(cut)
    \/ \E size \in KeySizes : AziHsmDeriveBKS3fromId(size)

Spec == Init /\ [][Next]_vars


\* A blob that seals comes from a whole response, and is taken apart into the
\* two parts the TPM made; what is unsealed from it is what was sealed.
SealRoundTrip ==
    /\ step = "idle" /\ ctx.blob # <<>> =>
           LoadParameters(ctx.blob) =
               [ok |-> Len(host.priv) > 0 /\ Len(host.pub) > 0,
                params |-> IF Len(host.priv) > 0 /\ Len(host.pub) > 0
                           THEN Sized(host.priv) \o Sized(host.pub) ELSE <<>>]
    /\ ctx.out # <<>> => ctx.out = ctx.plain

\* A create command as the TPM unmarshals it: a sensitive area of an empty
\* authorization and the plain data, then a public area that ends where the
\* outside info and the PCR selection start.
CommandsWellFormed ==
    step = "idle" /\ ctx.blob # <<>> /\ ctx.out = <<>> /\ call # Sized(host.priv) \o Sized(host.pub) =>
        LET sens == ReadSized(Cursor(call))
            auth == ReadSized(Cursor(sens.val))
            data == ReadSized(auth)
            pub  == ReadSized(sens)
        IN  /\ sens.ok /\ auth.ok /\ data.ok /\ pub.ok
            /\ auth.val = <<>> /\ data.val = ctx.plain
            /\ data.pos = Len(sens.val)
            /\ pub.pos + 6 = Len(call)

\* The derived key has the size asked for and is the digests of the blocks
\* 1, 2, ... end to end.
KeyExpanded ==
    /\ Len(ctx.key) = ctx.size
    /\ \A i \in DOMAIN ctx.key :
        ctx.key[i] = <<((i - 1) \div Digest) + 1, ((i - 1) % Digest) + 1>>
===============================================================================
