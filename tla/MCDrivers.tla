------------------------------ MODULE MCDrivers ------------------------------
(***************************************************************************)
(* The drivers of the firmware's devices on small instances, one at a      *)
(* time: Init chooses the driver and no step leaves it.  The drivers use   *)
(* the same names for their state, so that one set of variables serves     *)
(* all: what is held, the step reached, the driver's context, the call of  *)
(* a client and the device or host on the other side.                      *)
(***************************************************************************)
EXTENDS Integers, Sequences, TLC

VARIABLES part, held, step, ctx, call, host

vars == <<part, held, step, ctx, call, host>>

---------------------------------------------------------------------------
(* The hypervisor driver and the timers.                                   *)

\* Two messages to one of two SINTs; interrupts come between any two steps.
EfiHv == INSTANCE EfiHv WITH Modes <- {"plain", "paravisor", "tdxParavisor", "bypassOnly"},
    Sints <- {0, 1}, Vectors <- {1, 2}, MaxPosts <- 2,
    Failures <- {"cpu", "ebsEvent", "present", "hvPages", "hvPagesVisible", "hypercallPage",
                 "inputPage", "privileges", "protocols"}

\* What the proofs about EfiHv assume of its constants.
ASSUME EfiHvAssumption == EfiHv!EfiHvConstants

\* A watchdog of one or three periods, with and without the device, for four ticks.
Timers == INSTANCE Timers WITH TickPeriods <- {0, 2}, Periods <- {0, 1, 3},
    Resolutions <- {0, 2}, MaxTime <- 4, Failures <- {"hv", "sint", "timer", "protocol"}

---------------------------------------------------------------------------
(* The drivers on VMBus.                                                   *)

\* Two callers, two targets of which one reports no or two units.
Storvsc == INSTANCE Storvsc WITH Callers <- {"a", "b"}, Sizes <- 0 .. 2, ReportSize <- 1,
    MaxTargets <- 1, Versions <- 2, Records <- 1 .. 3, HostLuns <- [0 .. 1 -> {<<>>, <<0>>, <<1, 0>>}],
    Failures <- {"emcl", "instance", "open", "context", "channel", "negotiation", "luns",
                 "protocol", "send"}

Netvsc == INSTANCE Netvsc WITH Flags <- {1, 2},
    Failures <- {"noSection", "filterSend", "RxFilterEvt", "StnAddrEvt", "InitRndisEvt",
                 "callback", "channel", "nvspInit", "ndisConfig", "ndisVersion", "RxBuffer",
                 "RxGpadl", "rxReport", "TxBuffer", "TxGpadl", "txReport",
                 "RxQueue", "FreeQueue", "TxedQueue", "rndisInit", "permanentAddress",
                 "currentAddress", "WaitForPacket", "emcl", "devicePathOpen", "emclOpen",
                 "adapter", "snp", "snpProtocol", "emclChild", "ebsEvent", "devicePath",
                 "devicePathProtocol"}

\* Two sections for three buffers; two transfers of up to two ranges.  The two
\* directions share nothing but the TPL at which the protocol's functions run.
NetvscTx == INSTANCE NetvscData WITH Sections <- 2, ClientBuffers <- {11, 12, 13},
    RxSections <- 4, Transfers <- {}, MaxRanges <- 2, Failures <- {"context", "send", "copy"}
NetvscRx == INSTANCE NetvscData WITH Sections <- 2, ClientBuffers <- {},
    RxSections <- 4, Transfers <- {1, 2}, MaxRanges <- 2, Failures <- {"context", "send", "copy"}

\* Sizes in pages of the BARs 0, 2 and 5; -1 is a size that wraps, 8 one that is large.
Bars(a, b, c) == 0 :> a @@ 1 :> 0 @@ 2 :> b @@ 3 :> 0 @@ 4 :> 0 @@ 5 :> c

Vpcivsc == INSTANCE Vpcivsc WITH
    DeviceLists <- {<<"nvme">>, <<"other">>, <<"other", "hsm">>, <<"nvme", "nvme">>,
                    <<"hsm", "nvme">>},
    BarLayouts <- {Bars(1, 4, 0), Bars(2, 0, 0), Bars(0, -1, 0), Bars(0, 0, 1), Bars(8, 1, 0)},
    GapBase <- 13, GapPages <- 18, LargePages <- 8, MaxLists <- 2, SharedGpaBoundary <- 32,
    Masks <- {0, 96},
    Failures <- {"emcl", "context", "emclOpen", "devicePath", "busEvent", "timer", "channel",
                 "negotiation", "fdoD0", "arrays", "query", "assign", "power", "child",
                 "childOpen"}

\* A file of four bytes read two at a time through a root and two handles.
Vmbfs == INSTANCE Vmbfs WITH Handles <- {"r", "f", "g"}, FileSize <- 4, MaxPayload <- 2,
    MaxRead <- 5,
    Failures <- {"emcl", "fileSystem", "devicePath", "emclOpen", "protocol", "event", "buffer",
                 "file", "callback", "channel", "version", "read"}

\* A buffer with room for two keys and two clients that register for a change of the flags, one
\* for any and one with Num Lock on.
Stroke(c, p) == [code |-> c, prefix |-> p, break |-> FALSE]
Registration(t, n) == [scan |-> "null", char |-> "null", shift |-> {}, toggle |-> t, fn |-> n]

SynthKey == INSTANCE SynthKey WITH BufferSize <- 3,
    Keystrokes <- {Stroke("ctrl", "none"), Stroke("alt", "E0"), Stroke("a", "none"),
                   Stroke("delete", "none"), Stroke("num", "none")},
    Registrations <- {Registration({}, 1), Registration({"valid", "exposed", "num"}, 2)},
    InCallback <- {"register", "unregister"},
    Failures <- {"emcl", "device", "devicePath", "emclOpen", "waitForKey", "waitForKeyEx",
                 "callback", "channel", "initEvent", "send", "accepted", "protocols"}

\* A screen of three lines in a frame buffer of four.
Video == INSTANCE Video WITH Columns <- 3, Rows <- 3, VramRows <- 4, Deltas <- {0, 3},
    Failures <- {"emcl", "context", "emclOpen", "initEvent", "callback", "channel", "version",
                 "vramLocation", "situationUpdate", "frameBuffer", "protocol"}

---------------------------------------------------------------------------
(* The PCI devices: Virtio and the HSM.                                    *)

Normal(i, n, l, t, b) == [id |-> i, next |-> n, length |-> l, type |-> t, bar |-> b]
Extended(i, n, v) == [id |-> i, next |-> n, version |-> v]

\* Lists of capabilities that end, loop, touch or lead out of their space; some pointers have
\* their reserved bits set.
Functions ==
    {[caps |-> TRUE, first |-> f, extended |-> e,
      normal |-> 64 :> Normal(9, n64, 16, "common", "mem") @@
                 80 :> Normal(9, n80, 20, "notify", b) @@
                 104 :> Normal(i, n104, 20, "specific", "io") @@
                 248 :> Normal(9, n248, l, "notify", "mem")]
        : f \in {64, 107}, n64 \in {0, 80}, n80 \in {2, 105, 64}, n104 \in {0, 67, 248},
          n248 \in {0, 80}, i \in {9, 16}, l \in {8, 18}, b \in {"mem", "none"},
          e \in {256 :> Extended(0, 0, 0),
                 256 :> Extended(1, 514, 1) @@ 512 :> Extended(1, 3, 2),
                 256 :> Extended(1, 512, 0) @@ 512 :> Extended(2, 256, 0),
                 256 :> Extended(3, 67, 1)}}
    \cup {[caps |-> FALSE, first |-> 64, normal |-> 64 :> Normal(9, 0, 16, "common", "mem"),
           extended |-> 256 :> Extended(0, 0, 0)]}

PciCaps == INSTANCE PciCaps WITH Devices <- Functions,
    Failures <- {"pool", "read", "readExtended"}

Offers(lo) == [lo |-> lo, hi |-> {"version1", "other"}]
Disk(s, b, o, q, t) ==
    [sectors |-> s, blkSize |-> b, offered |-> o, queueMax |-> q, takes |-> t]

Virtio == INSTANCE Virtio WITH MaxBlocks <- 2, MaxRequest <- 3, MaxLost <- 2, IndexModulus <- 4, Tags <- {1},
    Disks <- {Disk(4, 2, Offers({"blkSize", "flush", "x"}), 3, TRUE),
              Disk(2, 0, Offers({"ro"}), 4, TRUE), Disk(3, 2, Offers({"blkSize"}), 3, TRUE),
              Disk(2, 0, Offers({}), 2, TRUE), Disk(0, 0, Offers({}), 3, TRUE),
              Disk(2, 0, Offers({}), 3, FALSE)},
    Failures <- {"device", "pciIo", "pciRead", "capabilities", "getAttributes", "attributes",
                 "virtIo", "blk", "virtIoOpen", "features", "ring", "ringMap", "queueAddress",
                 "driverOk", "exitBoot", "blockIo", "request", "statusPages", "requestMap",
                 "dataMap", "statusMap", "notify", "unmap"}

\* Every call may fail and every command may be given up.
AziHsm == INSTANCE AziHsm WITH
    Timeouts <- {"identify", "setCount", "createCq", "createSq", "identifyAgain", "rollbackCq",
                 "deleteSq", "deleteCq", "apiRevision", "initBks3", "setSealedBks3"},
    Failures <- {"buffer", "doorbell", "devicePath", "pciIo", "state", "attributes", "protocol",
                 "registers", "disable", "adminSq", "adminCq", "addresses", "enable", "identify",
                 "hsmSq", "hsmCq", "setCount", "createCq", "createSq", "identifyAgain", "serial",
                 "apiRevision", "platformPrimary", "hmac", "derive", "initBks3", "guid", "key",
                 "iv", "input", "encrypted", "encrypt", "nullPrimary", "seal", "size",
                 "setSealedBks3", "measure", "rollbackCq", "deleteSq", "deleteCq",
                 "registersAgain", "disableAgain"}

\* Requests with and without revision, session and data; answers whose header
\* fields are permuted, missing or repeated, cut short, or with bytes after.
HsmRequests ==
    LET Ask(ops, data) == {[op |-> o, rev |-> v, session |-> s, data |-> d] :
                               o \in ops, v \in {<<>>, <<1, 258>>}, s \in {<<>>, <<300>>}, d \in data}
    IN Ask({1002, 1112}, {<<>>}) \cup Ask({1111, 1113}, {<<5>>, <<0, 9, 130>>})

HsmData(o) ==
    CASE o = 1002 -> {<<<<1, 0>>, <<2, 300>>>>}
      [] o = 1111 -> {<<<<7, 8, 9>>, <<1, 2>>>>, <<<<7>>, <<3>>>>}
      [] o = 1112 -> {<<<<6, 5>>>>}
      [] OTHER -> {<<>>}

HsmAnswers ==
    UNION {{[order |-> w, op |-> o, status |-> st, data |-> x, cut |-> c[1], tail |-> c[2]] :
                w \in {<<2, 4, 5>>, <<5, 4, 2, 3>>, <<1, 2, 3, 4, 5>>, <<4, 2>>, <<2, 2, 4, 5>>,
                       <<2, 3, 4>>, <<2, 4, 5, 4>>},
                st \in {0, 134217731}, x \in HsmData(o), c \in {<<0, 0>>, <<1, 0>>, <<0, 1>>}}
           : o \in {1002, 1111, 1112, 1113}}

AziHsmMbor == INSTANCE AziHsmMbor WITH Requests <- HsmRequests, Capacities <- {20, 40},
    Shapes <- HsmAnswers, GuidLength <- 2

AziHsmTpm == INSTANCE AziHsmTpm WITH
    Plains <- {<<>>, <<9>>, <<1, 2>>, <<1, 2, 3>>, <<1, 2, 3, 4, 5>>},
    Bodies <- {<<>>, <<7>>, <<200, 8, 1>>}, Cuts <- {0, 1, 2}, MaxPlain <- 4,
    CommandBytes <- 31, BlobBytes <- 13, Digest <- 2, KeySizes <- {1, 2, 3, 5},
    Failures <- {"primary", "create"}

---------------------------------------------------------------------------

\* A driver that has no variable of a name leaves it at this value.
None == 0

Init ==
    \/ part = "efiHv" /\ EfiHv!Init /\ call = None
    \/ part = "timers" /\ Timers!Init /\ call = None
    \/ part = "storvsc" /\ Storvsc!Init
    \/ part = "netvsc" /\ Netvsc!Init
    \/ part = "netvscTx" /\ NetvscTx!Init /\ held = None
    \/ part = "netvscRx" /\ NetvscRx!Init /\ held = None
    \/ part = "vpcivsc" /\ Vpcivsc!Init /\ call = None
    \/ part = "vmbfs" /\ Vmbfs!Init /\ host = None
    \/ part = "synthKey" /\ SynthKey!Init
    \/ part = "video" /\ Video!Init /\ call = None
    \/ part = "pciCaps" /\ PciCaps!Init /\ call = None
    \/ part = "virtio" /\ Virtio!Init
    \/ part = "aziHsm" /\ AziHsm!Init
    \/ part = "aziHsmMbor" /\ AziHsmMbor!Init /\ held = None
    \/ part = "aziHsmTpm" /\ AziHsmTpm!Init

Next ==
    \/ part = "efiHv" /\ EfiHv!Next /\ UNCHANGED <<part, call>>
    \/ part = "timers" /\ Timers!Next /\ UNCHANGED <<part, call>>
    \/ part = "storvsc" /\ Storvsc!Next /\ UNCHANGED part
    \/ part = "netvsc" /\ Netvsc!Next /\ UNCHANGED part
    \/ part = "netvscTx" /\ NetvscTx!Next /\ UNCHANGED <<part, held>>
    \/ part = "netvscRx" /\ NetvscRx!Next /\ UNCHANGED <<part, held>>
    \/ part = "vpcivsc" /\ Vpcivsc!Next /\ UNCHANGED <<part, call>>
    \/ part = "vmbfs" /\ Vmbfs!Next /\ UNCHANGED <<part, host>>
    \/ part = "synthKey" /\ SynthKey!Next /\ UNCHANGED part
    \/ part = "video" /\ Video!Next /\ UNCHANGED <<part, call>>
    \/ part = "pciCaps" /\ PciCaps!Next /\ UNCHANGED <<part, call>>
    \/ part = "virtio" /\ Virtio!Next /\ UNCHANGED part
    \/ part = "aziHsm" /\ AziHsm!Next /\ UNCHANGED part
    \/ part = "aziHsmMbor" /\ AziHsmMbor!Next /\ UNCHANGED <<part, held>>
    \/ part = "aziHsmTpm" /\ AziHsmTpm!Next /\ UNCHANGED part

Spec == Init /\ [][Next]_vars

---------------------------------------------------------------------------


\* No message of the hypervisor is stranded, and interrupts reach the handler that is
\* registered for them (EfiHvCompleteSintMessage, EfiHvConnectSint, EfiHvDisconnectSint).
NoStrandedMessage ==
    part = "efiHv" => EfiHv!NoStrandedMessage /\ EfiHv!VectorsRouted

\* A timer that is set ticks, and the watchdog fires when its period is over, never earlier
\* than that by the resolution of its device or, in software, by more than the time that had
\* gone by since the last tick when it was set (SynicTimerInterruptHandler,
\* WatchdogHwSetPeriod).
TimersOnTime == part = "timers" => Timers!TicksKeepComing /\ Timers!WatchdogOnTime

\* StorChannelCompletionRoutine, which finds the request by the record in the host's
\* completion, wakes the caller that record was allocated for, in whatever order the
\* completions come and the records are used again; and the units found can be reached.
CompletionsFindTheirCaller ==
    part = "storvsc" => Storvsc!CompletionsFindTheirCaller /\ Storvsc!UnitsReachable

\* What the network driver records is so, with the callbacks between any two accesses to
\* a queue.  A section of the send buffer is in the free queue or with the host, unless a
\* callback changed that queue in the middle of a sender's change of it or a packet could
\* not be sent (then the section is lost).  A client gets each buffer back once, unless
\* the queue of sent buffers ran over, which takes more sent buffers that were not
\* collected than there are sections.  The host gets a receive buffer back only when no
\* packet in it is queued.  The receive filter recorded is the one the host applies, unless
\* the message was not sent (TxQueueEnqueue, NetvscTransmitCallback, RxQueueDequeue,
\* NetvscSetFilter).
AdapterRecordsTrue ==
    /\ part = "netvscTx" =>
           /\ NetvscTx!SectionsConserved
           /\ NetvscTx!ClientBuffersReturned
           /\ NetvscTx!OverfullOnlyIfCrowded
    /\ part = "netvscRx" => NetvscRx!ReceiveBufferHeld
    /\ part = "netvsc" => Netvsc!FilterSettingTrue

\* The BARs of the devices offered are mapped to disjoint aligned pages of the gap, the
\* host was told of them, in an isolated VM clients access them through the alias above
\* the shared boundary, and accesses stay inside.  Excepted is what the client is told of a
\* BAR at or above the size whose length needs shifting (VpcivscValidateBarAccess).
BarsMapped ==
    part = "vpcivsc" =>
        Vpcivsc!MmioRangesDisjoint /\ Vpcivsc!BarsAsMapped /\ Vpcivsc!ContextsInBounds

\* A read of a file returns its bytes from the handle's position on, the channel is open as
\* long as a handle is, and nothing is closed twice unless CreateEvent failed (VmbfsRead,
\* VmbfsCloseVolume).
ReadReturnsFile == part = "vmbfs" => Vmbfs!ReadReturnsFile /\ Vmbfs!VolumeOpenWithHandles

\* Keys are read in the order they were typed, and each registered function is
\* called once for a key, also when a function registers or unregisters another.
KeysInOrder == part = "synthKey" => SynthKey!KeysInOrder /\ SynthKey!NotifiedOnce

\* The graphics protocol is installed only when the host was told where the frame buffer is
\* and what its mode is, provided that the host sends no answer it was not asked for; and a
\* transfer copies what was there before, also onto itself (VideoChannelReceivePacketCallback,
\* VideoGraphicsOutputBlt).
ScreenShown == part = "video" => Video!ShownIfAnnounced /\ Video!TransfersExact

\* Each capability is found once, instances in order, and the bytes that may be
\* read of one do not reach into the next (InsertPciCap, CalculatePciCapMaxSizeHint).
CapabilitiesFound ==
    part = "pciCaps" => PciCaps!InstancesInOrder /\ PciCaps!CapabilitiesDisjoint

\* A block request that succeeds did what its caller asked (SynchronousRequest).
RequestsExact == part = "virtio" => Virtio!RequestsExact


\* An answer is taken for the command it is for, unless a command on the same queue was
\* given up since the device was last reset (AziHsmAdminIssueCmd).
AnswersMatch == part = "aziHsm" => AziHsm!AnswersMatch

\* What the encoders write is what the device and the TPM read; the decoders
\* accept an answer exactly if it is sound; what was sealed is what is unsealed.
MessagesReadBack ==
    /\ part = "aziHsmMbor" => AziHsmMbor!RequestsReadBack /\ AziHsmMbor!AcceptedIffSound
    /\ part = "aziHsmTpm" =>
           AziHsmTpm!SealRoundTrip /\ AziHsmTpm!CommandsWellFormed /\ AziHsmTpm!KeyExpanded
==============================================================================
