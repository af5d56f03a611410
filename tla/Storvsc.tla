------------------------------- MODULE Storvsc -------------------------------
(***************************************************************************)
(* The synthetic SCSI controller's driver (StorvscDxe): start and stop of  *)
(* the driver with every failure of a call on the way, the negotiation of  *)
(* the channel, the list of units built from REPORT LUNS, the walks over   *)
(* that list, and SCSI requests sent and completed in any order.           *)
(*                                                                         *)
(* held is what the driver has acquired and not yet given back.  A caller  *)
(* has at most one SCSI request, and waits for it when it passed no event; *)
(* nobody can give one up (the reset functions are unsupported and the     *)
(* time limit is only passed on to the host).  The driver's record of a    *)
(* request is a piece of its pool, which is used again once freed; the     *)
(* host gets its address and gives it back with the completion.  Buffer    *)
(* contents are left out: a request has its direction and the length of    *)
(* its buffer.                                                             *)
(***************************************************************************)
EXTENDS Integers, Sequences, FiniteSets, SequencesExt

CONSTANTS
    Callers,     \* who calls PassThru
    Sizes,       \* lengths of a transfer
    ReportSize,  \* length of the buffer of REPORT LUNS
    MaxTargets,  \* VMSTOR_MAX_TARGETS: targets are 0 .. MaxTargets
    Versions,    \* length of g_StorChannelSupportedVersions
    Records,     \* pieces of the pool for STORVSC_CHANNEL_REQUEST
    HostLuns,    \* what the host may report: functions of targets to sequences
    Failures     \* the calls of the driver's start that may fail

VARIABLES held, step, ctx, call, host

vars == <<held, step, ctx, call, host>>

None == <<>>
NoCaller == "free"
Idle == <<"idle", 0>>
NoRequest == [at |-> "idle", sync |-> FALSE, size |-> 0, length |-> 0]

Init ==
    /\ held = {}
    /\ step = Idle
    /\ ctx = [luns |-> <<>>, max |-> 0, dead |-> FALSE,
              request |-> [a \in Records |-> NoCaller], forgotten |-> {}]
    /\ call = [c \in Callers |-> NoRequest]
    /\ host \in [luns : HostLuns, pending : {{}}]

At(s) == ~ctx.dead /\ step = s
-----------------------------------------------------------------------------
(* StorvscDriverBindingStart                                               *)

\* StorChannelClose: the channel is stopped if it was started.
StorChannelClose(h) == h \ {"channel", "context"}


Cleanup(h) ==
    IF "emcl" \notin h THEN h
    ELSE (IF "context" \in h THEN StorChannelClose(h) ELSE h)
             \ {"instance", "open", "emcl"}

Fail ==
    /\ held' = Cleanup(held)
    /\ step' = Idle
    /\ ctx' = [ctx EXCEPT !.luns = <<>>,
                   !.dead = "instance" \in held /\ "open" \notin held]
    /\ UNCHANGED <<call, host>>

\* The calls of Start in their order: EmclInstallProtocol, the instance,
\* OpenProtocol (after it the list is initialised), then StorChannelOpen's
\* context and StartChannel.
Acquisitions == <<"emcl", "instance", "open", "context", "channel">>
Acquire ==
    \E i \in 1 .. Len(Acquisitions) :
        /\ At(<<"acquire", i>>)
        /\ \/ /\ held' = held \cup {Acquisitions[i]}
              /\ step' = IF i < Len(Acquisitions) THEN <<"acquire", i + 1>>
                                                  ELSE <<"begin", 0>>
              /\ UNCHANGED <<ctx, call, host>>
           \/ Acquisitions[i] \in Failures /\ Fail

Start ==
    /\ At(Idle) /\ held = {}
    /\ step' = <<"acquire", 1>>
    /\ UNCHANGED <<held, ctx, call, host>>

\* StorChannelSendSyntheticVstorPacket: the host answers, or the exchange fails.
SendSynthetic(next) ==
    \/ step' = next /\ UNCHANGED <<held, ctx, call, host>>
    \/ "negotiation" \in Failures /\ Fail

\* StorChannelEstablishCommunications: a version the host does not know is followed
\* by the next one.
Establish ==
    \/ At(<<"begin", 0>>) /\ SendSynthetic(<<"version", 1>>)
    \/ \E v \in 1 .. Versions :
           /\ At(<<"version", v>>)
           /\ \/ SendSynthetic(<<"properties", 0>>)
              \/ v < Versions /\ SendSynthetic(<<"version", v + 1>>)
              \/ v = Versions /\ Fail
    \/ /\ At(<<"properties", 0>>)
       /\ \/ /\ \E m \in Sizes : ctx' = [ctx EXCEPT !.max = m]
             /\ step' = <<"end", 0>> /\ UNCHANGED <<held, call, host>>
          \/ "negotiation" \in Failures /\ Fail
    \/ At(<<"end", 0>>) /\ SendSynthetic(<<"luns", 0>>)

\* StorChannelParseReportLunsResponse: the units of one target, as reported.
StorChannelParseReportLunsResponse(t, luns) ==
    [i \in 1 .. Len(luns) |-> <<t, luns[i]>>]

\* StorChannelInitReportLunsRequest: the buffer must fit the transfer size that the
\* host allows.
ReportLunsFits == ReportSize <= ctx.max

\* StorChannelBuildLunList: REPORT LUNS for one target, and its units appended.
BuildLunList ==
    \E t \in 0 .. MaxTargets :
        /\ At(<<"luns", t>>)
        /\ \/ /\ ReportLunsFits
              /\ ctx' = [ctx EXCEPT !.luns =
                     @ \o StorChannelParseReportLunsResponse(t, host.luns[t])]
              /\ step' = IF t < MaxTargets THEN <<"luns", t + 1>> ELSE <<"install", 0>>
              /\ UNCHANGED <<held, call, host>>
           \/ ~ReportLunsFits /\ Fail
           \/ "luns" \in Failures /\ Fail

InstallPassThru ==
    /\ At(<<"install", 0>>)
    /\ \/ held' = held \cup {"protocol"} /\ step' = Idle /\ UNCHANGED <<ctx, call, host>>
       \/ "protocol" \in Failures /\ Fail

\* StorvscDriverBindingStop.  EMCL's StopChannel forgets the requests the host has:
\* their records stay in the pool and their events are never signalled.
Stop ==
    /\ At(Idle) /\ "protocol" \in held
    /\ \A c \in Callers : ~call[c].sync
    /\ held' = StorChannelClose(held) \ {"protocol", "open", "instance", "emcl"}
    /\ ctx' = [ctx EXCEPT !.luns = <<>>,
                   !.forgotten = @ \cup {q.record : q \in host.pending}]
    /\ host' = [host EXCEPT !.pending = {}]
    /\ UNCHANGED <<step, call>>
-----------------------------------------------------------------------------
(* SCSI requests                                                           *)

\* StorChannelSearchLunList: the index of the first entry, or 0.
StorChannelSearchLunList(luns, u) ==
    SelectInSeq(luns, LAMBDA e : e = u)

\* StorChannelInitScsiPacket takes a request with a command, with buffers where it
\* gives lengths, and with one direction.
Requests == [dir : {"read", "write", "both"}, buffers : BOOLEAN, size : Sizes]
StorChannelInitScsiPacket(r) == r.buffers /\ r.dir # "both"

\* PassThru takes only units of the list.
Lookup(u) == StorChannelSearchLunList(ctx.luns, u) # 0

\* AllocateZeroPool: a free piece, or none.
FreeRecords == {a \in Records : ctx.request[a] = NoCaller}
AllocateRecord == CHOOSE a \in FreeRecords : \A b \in FreeRecords : a <= b

\* StorChannelSendScsiRequest, from PassThru with an event or from
\* StorChannelSendScsiRequestSync with an event of its own.  A transfer that is
\* too long gives the caller the longest length; a request that EMCL does not
\* take is freed.
PassThru(c, u, sync, r) ==
    /\ ~ctx.dead /\ "protocol" \in held /\ call[c].at = "idle"
    /\ \/ /\ Lookup(u) /\ StorChannelInitScsiPacket(r) /\ r.size <= ctx.max
          /\ FreeRecords # {}
          /\ ctx' = [ctx EXCEPT !.request[AllocateRecord] = c]
          /\ call' = [call EXCEPT ![c] = [at |-> "sent", sync |-> sync,
                                          size |-> r.size, length |-> r.size]]
          /\ host' = [host EXCEPT !.pending =
                 @ \cup {[record |-> AllocateRecord, buffer |-> c, size |-> r.size]}]
       \/ /\ \/ ~Lookup(u) \/ r.size > ctx.max \/ FreeRecords = {}
             \/ ~StorChannelInitScsiPacket(r) \/ "send" \in Failures
          /\ UNCHANGED <<ctx, call, host>>
    /\ UNCHANGED <<held, step>>

\* StorChannelCopyPacketDataToRequest: the length transferred (and the status).
StorChannelCopyPacketDataToRequest(r, n) == [r EXCEPT !.at = "done", !.length = n]

\* StorChannelCompletionRoutine, with the record that the request was sent with: a
\* length above the one asked for stops the firmware; else the length and the status
\* go to the request the record names, its event is signalled and the record freed.
Complete(q, n) ==
    LET c == ctx.request[q.record] IN
    /\ ~ctx.dead
    /\ IF n > call[c].length
       THEN ctx' = [ctx EXCEPT !.dead = TRUE] /\ UNCHANGED <<call, host>>
       ELSE /\ host' = [host EXCEPT !.pending = @ \ {q}]
            /\ call' = [call EXCEPT ![c] = StorChannelCopyPacketDataToRequest(@, n)]
            /\ ctx' = [ctx EXCEPT !.request[q.record] = NoCaller]
    /\ UNCHANGED <<held, step>>

\* The caller sees its event: WaitForEventInternal returns and the event is closed,
\* or the caller's own event was signalled.
ReturnsEarly(c) ==
    /\ call[c].at # "idle"
    /\ call' = [call EXCEPT ![c] = NoRequest]
    /\ UNCHANGED <<held, step, ctx, host>>
Returned(c) ==
    /\ call[c].at = "done"
    /\ call' = [call EXCEPT ![c] = NoRequest]
    /\ UNCHANGED <<held, step, ctx, host>>
-----------------------------------------------------------------------------
(* The walks over the units: the next one, None or -1 after the last.      *)

GetNextTargetLun(luns, u) ==
    LET i == IF u = None THEN 0 ELSE StorChannelSearchLunList(luns, u)
    IN  IF (u # None /\ i = 0) \/ i = Len(luns) THEN None ELSE luns[i + 1]

\* The loop ends at the last entry without looking at it.
GetNextTarget(luns, t) ==
    LET later == {luns[i][1] : i \in {j \in 1 .. Len(luns) - 1 : luns[j][1] > t}}
    IN  IF later = {} THEN -1 ELSE CHOOSE x \in later : \A y \in later : x <= y

\* The device path of a unit in the list, and the unit of a device path.
BuildDevicePath(luns, u) ==
    IF StorChannelSearchLunList(luns, u) = 0 THEN None ELSE u
GetTargetLun(luns, path) ==
    IF StorChannelSearchLunList(luns, path) = 0 THEN None ELSE path

\* The units that n steps of the first walk visit.
Walk(luns) ==
    LET visit[n \in 0 .. Len(luns)] ==
            IF n = 0 THEN None
            ELSE IF n > 1 /\ visit[n - 1] = None THEN None
            ELSE GetNextTargetLun(luns, visit[n - 1])
    IN  [n \in 1 .. Len(luns) |-> visit[n]]
-----------------------------------------------------------------------------
Next ==
    \/ Start \/ Acquire \/ Establish \/ BuildLunList \/ InstallPassThru \/ Stop
    \/ \E c \in Callers :
           \/ \E t \in 0 .. MaxTargets, l \in {0, 1}, sync \in BOOLEAN, r \in Requests :
                  PassThru(c, <<t, l>>, sync, r)
           \/ Returned(c)
    \/ \E q \in host.pending, n \in Sizes : Complete(q, n)

Spec == Init /\ [][Next]_vars
-----------------------------------------------------------------------------

\* A completion is credited to the request it is for, in whatever order completions
\* come and records are used again: the record the host has names the caller whose
\* buffer it has, and that caller still waits.  The other way round, a caller waits
\* only for what the host has, except for one with an event of its own whose request
\* was forgotten when the driver was stopped.  Each record of the pool is with the
\* host, free, or was forgotten so, and no more bytes are reported than the buffer
\* holds.
CompletionsFindTheirCaller ==
    /\ \A q \in host.pending :
           /\ ctx.request[q.record] = q.buffer
           /\ call[q.buffer].at = "sent" /\ call[q.buffer].size = q.size
    /\ \A c \in Callers : call[c].at = "sent" =>
           \/ \E q \in host.pending : q.buffer = c
           \/ ~call[c].sync /\ \E a \in ctx.forgotten : ctx.request[a] = c
    /\ {a \in Records : ctx.request[a] # NoCaller}
           = {q.record : q \in host.pending} \cup ctx.forgotten
    /\ \A c \in Callers : call[c].length <= call[c].size

\* The walk with GetNextTargetLun visits every unit the host reported, in order,
\* and the device path of each leads back to it.
UnitsReachable ==
    "protocol" \in held =>
        /\ Walk(ctx.luns) = ctx.luns
        /\ \A u \in Range(ctx.luns) : GetTargetLun(ctx.luns, BuildDevicePath(ctx.luns, u)) = u

\* Every target with a unit is the answer to some call of GetNextTarget.
EveryTargetFound ==
    \A i \in 1 .. Len(ctx.luns) :
        \E t \in -1 .. MaxTargets : GetNextTarget(ctx.luns, t) = ctx.luns[i][1]
==============================================================================
