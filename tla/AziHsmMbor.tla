------------------------------ MODULE AziHsmMbor ------------------------------
(***************************************************************************)
(* The messages AziHsmDxe exchanges with the security module: the MBOR     *)
(* encoder and decoder (AziHsmMbor.c), the request and response layouts    *)
(* (AziHsmDdi.c) and the routines that send one and accept the other       *)
(* (AziHsmDdiApi.c).                                                       *)
(*                                                                         *)
(* The code writes and reads a message item by item and leaves at the      *)
(* first error, so a message is a sequence of items [k, v] and a layout a  *)
(* sequence of expected ones [k, want].  An encoder is [ok, cap, buf] and  *)
(* a decoder [ok, buf, pos, val, got]: `val` is what the last call         *)
(* returned and `got` the values of a layout; `ok` stays FALSE once a call *)
(* has failed.                                                             *)
(***************************************************************************)
EXTENDS Integers, Sequences, SequencesExt

CONSTANTS
    Requests,    \* [op, rev, session, data]: what the driver asks
    Capacities,  \* sizes of the request buffer
    Shapes,      \* what the device answers, see Reply
    GuidLength   \* AZIHSM_DDI_INIT_BKS3_RESP_GUID_LENGTH

VARIABLES
    step,  \* "idle", "sent", "answered", "failed" or "done"
    ctx,   \* the request sent, or what was decoded
    call,  \* the request being made
    host   \* [shape, bytes]: the device's answer

vars == <<step, ctx, call, host>>

GET_API_REV == 1002
INIT_BKS3 == 1111
GET_SEALED_BKS3 == 1112
SET_SEALED_BKS3 == 1113

BigEndian(v, n) == [i \in 1..n |-> (v \div 256 ^ (n - i)) % 256]

RECURSIVE FromBigEndian(_)
FromBigEndian(s) == IF s = <<>> THEN 0 ELSE 256 * FromBigEndian(Front(s)) + Last(s)

Zeros(n) == [i \in 1..n |-> 0]

(***************************************************************************)
(* The encoder.                                                            *)
(***************************************************************************)
AziHsmMborEncoderInit(cap) == [ok |-> cap # 0, cap |-> cap, buf |-> <<>>]

AziHsmMborEncoderEncode(e, bytes) ==
    IF e.ok /\ Len(e.buf) + Len(bytes) <= e.cap
    THEN [e EXCEPT !.buf = @ \o bytes]
    ELSE [e EXCEPT !.ok = FALSE]

AziHsmMborEncodeMarker(e, marker) == AziHsmMborEncoderEncode(e, <<marker>>)

AziHsmMborEncodeU8(e, v) ==
    AziHsmMborEncoderEncode(AziHsmMborEncodeMarker(e, 24), BigEndian(v, 1))

AziHsmMborEncodeU16(e, v) ==
    AziHsmMborEncoderEncode(AziHsmMborEncodeMarker(e, 25), BigEndian(v, 2))

AziHsmMborEncodeU32(e, v) ==
    AziHsmMborEncoderEncode(AziHsmMborEncodeMarker(e, 26), BigEndian(v, 4))

AziHsmMborEncodeBoolean(e, v) == AziHsmMborEncodeMarker(e, IF v THEN 21 ELSE 20)

AziHsmMborEncodeMap(e, n) ==
    IF n > 15 THEN [e EXCEPT !.ok = FALSE] ELSE AziHsmMborEncodeMarker(e, 160 + n)

AziHsmMborEncodeBytes(e, bytes) ==
    AziHsmMborEncoderEncode(
        AziHsmMborEncoderEncode(AziHsmMborEncodeMarker(e, 128), BigEndian(Len(bytes), 2)),
        bytes)

\* The data starts on a multiple of four.
AziHsmMborEncodePaddedBytesShort(e, bytes) ==
    LET pad == (4 - ((Len(e.buf) + 2) % 4)) % 4
    IN  AziHsmMborEncoderEncode(
            AziHsmMborEncoderEncode(AziHsmMborEncodeMarker(e, 128 + pad),
                                    BigEndian(Len(bytes), 2) \o Zeros(pad)), bytes)

AziHsmMborEncodePaddedBytes(e, bytes) ==
    LET pad == (4 - ((Len(e.buf) + 3) % 4)) % 4
    IN  AziHsmMborEncoderEncode(
            AziHsmMborEncoderEncode(AziHsmMborEncodeMarker(e, 128 + pad),
                                    BigEndian(Len(bytes), 2) \o Zeros(pad)), bytes)

EncodeItem(e, i) ==
    CASE i.k = "u8"     -> AziHsmMborEncodeU8(e, i.v)
      [] i.k = "u16"    -> AziHsmMborEncodeU16(e, i.v)
      [] i.k = "u32"    -> AziHsmMborEncodeU32(e, i.v)
      [] i.k = "bool"   -> AziHsmMborEncodeBoolean(e, i.v)
      [] i.k = "map"    -> AziHsmMborEncodeMap(e, i.v)
      [] i.k = "bytes"  -> AziHsmMborEncodeBytes(e, i.v)
      [] i.k = "padded" -> AziHsmMborEncodePaddedBytes(e, i.v)

RECURSIVE EncodeAll(_, _)
EncodeAll(e, items) ==
    IF ~e.ok \/ items = <<>> THEN e ELSE EncodeAll(EncodeItem(e, Head(items)), Tail(items))

Encode(cap, items) == EncodeAll(AziHsmMborEncoderInit(cap), items)

(***************************************************************************)
(* The decoder.                                                            *)
(***************************************************************************)
AziHsmMborDecoderInit(bytes) ==
    [ok |-> bytes # <<>>, buf |-> bytes, pos |-> 0, val |-> <<>>, got |-> <<>>]

AziHsmMborDecoderDecode(d, n) ==
    IF d.ok /\ d.pos + n <= Len(d.buf)
    THEN [d EXCEPT !.pos = @ + n, !.val = SubSeq(d.buf, d.pos + 1, d.pos + n)]
    ELSE [d EXCEPT !.ok = FALSE, !.val = <<>>]

Require(d, holds) == [d EXCEPT !.ok = @ /\ holds]

Returning(d, v) == [d EXCEPT !.val = v]

\* AziHsmMborDecodeU8, U16 and U32: a marker, then one, two or four bytes.
NumberRead(d) == Returning(d, FromBigEndian(d.val))

AfterMarker(d, marker, n) == AziHsmMborDecoderDecode(Require(d, d.val = <<marker>>), n)

DecodeNumber(d, marker, n) ==
    NumberRead(AfterMarker(AziHsmMborDecoderDecode(d, 1), marker, n))

Markers == [u8 |-> 24, u16 |-> 25, u32 |-> 26]
Widths  == [u8 |-> 1, u16 |-> 2, u32 |-> 4]

\* Every marker but MBOR_BOOLEAN_TRUE is read as FALSE.
BooleanRead(d) == Returning(d, d.val = <<21>>)

AziHsmMborDecodeBoolean(d) == BooleanRead(AziHsmMborDecoderDecode(d, 1))

MapRead(d) == Returning(Require(d, d.val \div 16 = 10), d.val % 16)

AziHsmMborDecodeMap(d) == MapRead(NumberRead(AziHsmMborDecoderDecode(d, 1)))

BytesRead(d) == AziHsmMborDecoderDecode(d, d.val)

AziHsmMborDecodeBytes(d) ==
    BytesRead(NumberRead(AfterMarker(AziHsmMborDecoderDecode(d, 1), 128, 2)))

\* The bytes after `n`, the padding having been read; all of it must be zero.
PastPadding(pad, n) ==
    AziHsmMborDecoderDecode(Require(pad, \A i \in DOMAIN pad.val : pad.val[i] = 0), n)

PaddedRead(d, marker) == PastPadding(AziHsmMborDecoderDecode(d, marker % 4), d.val)

PaddedLength(d) ==
    PaddedRead(NumberRead(AziHsmMborDecoderDecode(Require(d, d.val \div 4 = 32), 2)), d.val)

AziHsmMborDecodePaddedBytes(d) == PaddedLength(NumberRead(AziHsmMborDecoderDecode(d, 1)))

DecodeValue(d, k) ==
    CASE k \in DOMAIN Markers -> DecodeNumber(d, Markers[k], Widths[k])
      [] k = "bool"           -> AziHsmMborDecodeBoolean(d)
      [] k = "map"            -> AziHsmMborDecodeMap(d)
      [] k = "bytes"          -> AziHsmMborDecodeBytes(d)
      [] k = "padded"         -> AziHsmMborDecodePaddedBytes(d)

\* One item of a layout; an empty `want` accepts every value.
Wanted(d, want) ==
    IF d.ok /\ (want = {} \/ d.val \in want)
    THEN [d EXCEPT !.got = Append(@, d.val)]
    ELSE [d EXCEPT !.ok = FALSE]

DecodeItem(d, i) == Wanted(DecodeValue(d, i.k), i.want)

RECURSIVE DecodeAll(_, _)
DecodeAll(d, layout) ==
    IF ~d.ok \/ layout = <<>> THEN d ELSE DecodeAll(DecodeItem(d, Head(layout)), Tail(layout))

Decode(d, layout) == DecodeAll([d EXCEPT !.got = <<>>], layout)

(***************************************************************************)
(* Requests.  A revision or session of None is left out of the header.     *)
(***************************************************************************)
None == <<>>

Item(k, v) == [k |-> k, v |-> v]

AziHsmMborEncodeFieldId(id) == Item("u8", id)

EncodeApiRevision(rev) ==
    <<Item("map", 2), AziHsmMborEncodeFieldId(1), Item("u32", rev[1]),
      AziHsmMborEncodeFieldId(2), Item("u32", rev[2])>>

EncodeRequestHeader(r) ==
    <<Item("map", 1 + Len(r.session) + (IF r.rev = None THEN 0 ELSE 1))>>
    \o (IF r.rev = None THEN <<>> ELSE <<AziHsmMborEncodeFieldId(1)>> \o EncodeApiRevision(r.rev))
    \o <<AziHsmMborEncodeFieldId(2), Item("u32", r.op)>>
    \o (IF r.session = None THEN <<>>
        ELSE <<AziHsmMborEncodeFieldId(3), Item("u16", r.session[1])>>)

EncodeCommandRequestHeader(r) ==
    <<Item("map", 2), AziHsmMborEncodeFieldId(0)>> \o EncodeRequestHeader(r)

AzihsmEncodeGetApiRevReq(r) ==
    EncodeCommandRequestHeader(r) \o <<AziHsmMborEncodeFieldId(1), Item("map", 0)>>

AzihsmEncodeGetSealedBks3Req(r) ==
    EncodeCommandRequestHeader(r) \o <<AziHsmMborEncodeFieldId(1), Item("map", 0)>>

AzihsmEncodeInitBks3Req(r) ==
    EncodeCommandRequestHeader(r)
    \o <<AziHsmMborEncodeFieldId(1), Item("map", 1), AziHsmMborEncodeFieldId(1),
         Item("padded", r.data)>>

AzihsmEncodeSetSealedBks3Req(r) ==
    EncodeCommandRequestHeader(r)
    \o <<AziHsmMborEncodeFieldId(1), Item("map", 1), AziHsmMborEncodeFieldId(1),
         Item("padded", r.data)>>

RequestItems(r) ==
    CASE r.op = GET_API_REV     -> AzihsmEncodeGetApiRevReq(r)
      [] r.op = GET_SEALED_BKS3 -> AzihsmEncodeGetSealedBks3Req(r)
      [] r.op = INIT_BKS3       -> AzihsmEncodeInitBks3Req(r)
      [] r.op = SET_SEALED_BKS3 -> AzihsmEncodeSetSealedBks3Req(r)

(***************************************************************************)
(* Responses.                                                              *)
(***************************************************************************)
Want(k, vs) == [k |-> k, want |-> vs]
AnyOf(k) == Want(k, {})

AziHsmMborDecodeFieldId(ids) == Want("u8", ids)

\* The two numbers of a revision may come in either order, or one of them twice.
DecodeApiRevision ==
    <<Want("map", {2}), AziHsmMborDecodeFieldId({1, 2}), AnyOf("u32"),
      AziHsmMborDecodeFieldId({1, 2}), AnyOf("u32")>>

\* The revision assembled from what that layout got.
Revision(got) == [i \in 1..2 |-> IF got[4] = i THEN got[5] ELSE IF got[2] = i THEN got[3] ELSE 0]

FieldLayout(id) ==
    CASE id = 1        -> DecodeApiRevision
      [] id \in {2, 4} -> <<AnyOf("u32")>>
      [] id = 3        -> <<AnyOf("u16")>>
      [] OTHER         -> <<AnyOf("bool")>>

\* Each case of the switch refuses a field it has found before.
RefusesAgain(s, id) == id \in s.found

HeaderRecord(s, id, d) ==
    [d |-> d, found |-> s.found \union (IF d.ok THEN {id} ELSE {}),
     op     |-> IF d.ok /\ id = 2 THEN d.val ELSE s.op,
     status |-> IF d.ok /\ id = 4 THEN d.val ELSE s.status]

HeaderValue(s, f) ==
    HeaderRecord(s, f.val, Decode(Require(f, ~RefusesAgain(s, f.val)), FieldLayout(f.val)))

HeaderField(s) == HeaderValue(s, Decode(s.d, <<AziHsmMborDecodeFieldId(1..5)>>))

RECURSIVE HeaderFields(_, _)
HeaderFields(s, n) == IF ~s.d.ok \/ n = 0 THEN s ELSE HeaderFields(HeaderField(s), n - 1)

MandatoryFields == {2, 4, 5}

HeaderComplete(s) == [s EXCEPT !.d = Require(@, MandatoryFields \subseteq s.found)]

DecodeResponseHeader(d) ==
    HeaderComplete(HeaderFields([d |-> d, found |-> {}, op |-> 0, status |-> 0], d.val))

\* Up to the count of the header's own map.
DecodeCommandResponseHeader ==
    <<Want("map", 2..3), AziHsmMborDecodeFieldId({0}), Want("map", 3..5)>>

DecodeApiRevisionResponse ==
    <<AziHsmMborDecodeFieldId({1}), Want("map", {2}), AziHsmMborDecodeFieldId({1})>>
    \o DecodeApiRevision \o <<AziHsmMborDecodeFieldId({2})>> \o DecodeApiRevision

AzihsmDecodeInitBks3Resp ==
    <<AziHsmMborDecodeFieldId({1}), Want("map", {2}), AziHsmMborDecodeFieldId({1}),
      AnyOf("padded"), AziHsmMborDecodeFieldId({2}), AnyOf("bytes")>>

AzihsmDecodeSetSealedBks3Resp == <<AziHsmMborDecodeFieldId({1}), Want("map", {0})>>

AzihsmDecodeGetSealedBks3Resp ==
    <<AziHsmMborDecodeFieldId({1}), Want("map", {1}), AziHsmMborDecodeFieldId({1}), AnyOf("padded")>>

DataLayout(op) ==
    CASE op = GET_API_REV     -> DecodeApiRevisionResponse
      [] op = INIT_BKS3       -> AzihsmDecodeInitBks3Resp
      [] op = SET_SEALED_BKS3 -> AzihsmDecodeSetSealedBks3Resp
      [] op = GET_SEALED_BKS3 -> AzihsmDecodeGetSealedBks3Resp

\* What the routine hands to its caller; a refused SetSealedBks3 is not an
\* error, it is returned in *Response.
Result(op, got, status) ==
    CASE op = GET_API_REV     -> <<Revision(SubSeq(got, 4, 8)), Revision(SubSeq(got, 10, 14))>>
      [] op = INIT_BKS3       -> <<got[4], got[6]>>
      [] op = SET_SEALED_BKS3 -> <<status = 0>>
      [] op = GET_SEALED_BKS3 -> <<got[4]>>

\* The routines of AziHsmDdiApi.c require the whole answer to be consumed.
WholeAnswer(d) == d.pos = Len(d.buf)

GuidWhole(op, d) == op = INIT_BKS3 => Len(d.val) = GuidLength

AnswerResult(op, status, d) ==
    IF d.ok /\ GuidWhole(op, d) /\ WholeAnswer(d)
    THEN Returning(d, Result(op, d.got, status))
    ELSE Require(d, FALSE)

AnswerData(op, h) ==
    AnswerResult(op, h.status,
                 Decode(Require(h.d, h.op = op /\ (h.status = 0 \/ op = SET_SEALED_BKS3)),
                        DataLayout(op)))

DecodeAnswer(op, bytes) ==
    AnswerData(op, DecodeResponseHeader(
                       Decode(AziHsmMborDecoderInit(bytes), DecodeCommandResponseHeader)))

(***************************************************************************)
(* The device (external).  A shape is [order, op, status, data, cut, tail]:*)
(* the header fields in the order they are sent, the operation and status  *)
(* they carry, the payload, and how many bytes are missing or added.       *)
(***************************************************************************)
SentField(id, s) ==
    <<Item("u8", id)>> \o
    CASE id = 1 -> EncodeApiRevision(<<1, 0>>)
      [] id = 2 -> <<Item("u32", s.op)>>
      [] id = 3 -> <<Item("u16", 7)>>
      [] id = 4 -> <<Item("u32", s.status)>>
      [] id = 5 -> <<Item("bool", TRUE)>>

SentHeader(s) ==
    <<Item("map", 2), Item("u8", 0), Item("map", Len(s.order))>>
    \o FlattenSeq([i \in DOMAIN s.order |-> SentField(s.order[i], s)])

SentData(s) ==
    <<Item("u8", 1)>> \o
    CASE s.op = GET_API_REV ->
             <<Item("map", 2), Item("u8", 1)>> \o EncodeApiRevision(s.data[1])
             \o <<Item("u8", 2)>> \o EncodeApiRevision(s.data[2])
      [] s.op = INIT_BKS3 ->
             <<Item("map", 2), Item("u8", 1), Item("padded", s.data[1]),
               Item("u8", 2), Item("bytes", s.data[2])>>
      [] s.op = GET_SEALED_BKS3 ->
             <<Item("map", 1), Item("u8", 1), Item("padded", s.data[1])>>
      [] OTHER -> <<Item("map", 0)>>

PageBytes == 200

Reply(s) ==
    LET b == Encode(PageBytes, SentHeader(s) \o SentData(s)).buf
    IN  SubSeq(b, 1, Len(b) - s.cut) \o Zeros(s.tail)

(***************************************************************************)
(* Actions.                                                                *)
(***************************************************************************)
SendRequest(r, cap) ==
    /\ step = "idle"
    /\ call' = r
    /\ ctx' = Encode(cap, RequestItems(r))
    /\ step' = IF ctx'.ok THEN "sent" ELSE "failed"
    /\ UNCHANGED host

DeviceAnswers(s) ==
    /\ step = "sent"
    /\ step' = "answered"
    /\ host' = [shape |-> s, bytes |-> Reply(s)]
    /\ UNCHANGED <<ctx, call>>

TakeAnswer ==
    /\ step = "answered"
    /\ ctx' = DecodeAnswer(call.op, host.bytes)
    /\ step' = IF ctx'.ok THEN "done" ELSE "failed"
    /\ UNCHANGED <<call, host>>

Return ==
    /\ step \in {"done", "failed"}
    /\ step' = "idle"
    /\ ctx' = AziHsmMborEncoderInit(0)
    /\ call' = [op |-> 0, rev |-> None, session |-> None, data |-> None]
    /\ host' = [shape |-> [op |-> 0], bytes |-> None]

Init ==
    /\ step = "idle"
    /\ ctx = AziHsmMborEncoderInit(0)
    /\ call = [op |-> 0, rev |-> None, session |-> None, data |-> None]
    /\ host = [shape |-> [op |-> 0], bytes |-> None]

Next ==
    \/ \E r \in Requests, cap \in Capacities : SendRequest(r, cap)
    \/ \E s \in Shapes : DeviceAnswers(s)
    \/ TakeAnswer
    \/ Return

Spec == Init /\ [][Next]_vars

(***************************************************************************)
(* Properties.                                                             *)
(***************************************************************************)
\* A request as the device would read it: the items in their places.
RequestLayout(r) == [i \in DOMAIN RequestItems(r) |-> AnyOf(RequestItems(r)[i].k)]

\* A request that was encoded without error fits its buffer, is read back as
\* the operation, revision, session and data asked for, with nothing after
\* them, and its data starts on a multiple of four bytes.
RequestsReadBack ==
    step = "sent" =>
        LET d == Decode(AziHsmMborDecoderInit(ctx.buf), RequestLayout(call))
        IN  /\ Len(ctx.buf) <= ctx.cap
            /\ d.ok /\ d.pos = Len(ctx.buf)
            /\ d.got = [i \in DOMAIN RequestItems(call) |-> RequestItems(call)[i].v]
            /\ (d.pos - Len(call.data)) % 4 = 0 \/ call.data = None

Times(s, id) == Len(SelectSeq(s.order, LAMBDA x : x = id))

\* An answer is accepted exactly when it is a whole answer to the operation
\* asked, its header has each mandatory field once and no field twice, and it
\* reports success (a refused SetSealedBks3 is reported in its result); what
\* is returned is then what the device sent.
AcceptedIffSound ==
    step \in {"done", "failed"} /\ host.bytes # None =>
        LET s == host.shape
            sound ==
              /\ s.op = call.op
              /\ s.cut = 0 /\ s.tail = 0
              /\ \A id \in 1..5 : Times(s, id) <= 1
              /\ \A id \in MandatoryFields : Times(s, id) = 1
              /\ s.status = 0 \/ s.op = SET_SEALED_BKS3
              /\ s.op = INIT_BKS3 => Len(s.data[2]) = GuidLength
        IN  /\ step = "done" <=> sound
            /\ step = "done" =>
                   ctx.val = IF s.op = SET_SEALED_BKS3 THEN <<s.status = 0>> ELSE s.data
===============================================================================
