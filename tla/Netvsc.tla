-------------------------------- MODULE Netvsc --------------------------------
(***************************************************************************)
(* The life of the synthetic network adapter: the driver's start and stop, *)
(* the simple network protocol (Snp) it offers, with its states stopped,   *)
(* started and initialized, NetvscInit and NetvscShutdown behind it, and   *)
(* the receive filter.  NetvscData has the data path.                      *)
(*                                                                         *)
(* All calls run at TPL_CALLBACK one after the other, so each is one step; *)
(* it has one outcome for every call inside it that may fail.  held is     *)
(* what the driver has acquired and not yet given back.                    *)
(***************************************************************************)
EXTENDS Integers, Sequences, FiniteSets, SequencesExt

CONSTANTS
    Flags,     \* the filter flags of ReceiveFilterMask
    Failures   \* the calls that may fail

VARIABLES held, step, ctx, call, host

vars == <<held, step, ctx, call, host>>

Init ==
    /\ held = {}
    /\ step = "absent"
    /\ ctx = [state |-> "stopped", RxFilter |-> {}, setting |-> {}, receiving |-> FALSE,
              unsent |-> FALSE, eventsKept |-> FALSE]
    /\ call = "none"
    /\ host = {}
-----------------------------------------------------------------------------
(* NetvscInit and NetvscShutdown                                           *)

Events == {"RxFilterEvt", "StnAddrEvt", "InitRndisEvt"}

\* The calls of NetvscInit in their order; those in Kept leave something to give back.
\* In an isolated VM it returns before the first of them; such a VM is left out.
EventCalls == <<"RxFilterEvt", "StnAddrEvt", "InitRndisEvt", "callback", "channel">>
VersionCalls == <<"nvspInit", "ndisConfig", "ndisVersion">>
BufferCalls == <<"RxBuffer", "RxGpadl", "rxReport", "TxBuffer", "TxGpadl", "txReport">>
QueueCalls == <<"RxQueue", "FreeQueue", "TxedQueue">>
RndisCalls == <<"rndisInit", "permanentAddress", "currentAddress">>
InitCalls == EventCalls \o VersionCalls \o BufferCalls \o QueueCalls \o RndisCalls
Kept == Events \cup {"channel", "RxBuffer", "RxGpadl", "TxBuffer", "TxGpadl", "RxQueue",
                     "FreeQueue", "TxedQueue"}

\* NetvscShutdown: the GPADLs go with the channel, everything else on its own.
NetvscShutdown(h) ==
    (IF "channel" \in h THEN h \ {"channel", "RxGpadl", "TxGpadl"} ELSE h)
        \ (Kept \ {"channel", "RxGpadl", "TxGpadl"})

\* What NetvscInit may end with.  Without a receive callback or a channel the events
\* stay; without receive pages the code leaves with EFI_SUCCESS; else it shuts down.
\* filter says that the recorded filter is still the old one.
Acquired(h, n) == h \cup (Kept \cap {InitCalls[i] : i \in 1 .. n})
InitOutcome(h, n) ==
    CASE n = Len(InitCalls) -> [ok |-> TRUE, held |-> Acquired(h, n), receiving |-> TRUE, filter |-> FALSE]
      [] InitCalls[n + 1] \in {"callback", "channel"} ->
             [ok |-> FALSE, held |-> Acquired(h, n), receiving |-> FALSE, filter |-> TRUE]
      [] InitCalls[n + 1] = "RxBuffer" ->
             [ok |-> TRUE, held |-> Acquired(h, n), receiving |-> FALSE, filter |-> TRUE]
      [] OTHER -> [ok |-> FALSE, held |-> NetvscShutdown(Acquired(h, n)), receiving |-> FALSE,
                   filter |-> "TxedQueue" \notin Acquired(h, n)]
NetvscInit(h) ==
    {InitOutcome(h, n) : n \in {k \in 0 .. Len(InitCalls) :
        k = Len(InitCalls) \/ InitCalls[k + 1] \in Failures}}
-----------------------------------------------------------------------------
(* NetvscSetFilter: the new filter is recorded first, and taken back only  *)
(* when the host refuses it.                                               *)

\* The outcomes: what the driver has recorded, what the host has set, and whether the
\* driver's is one that never reached the host.  An adapter that is not running has no
\* section to send from; a running one has none when all are with the host.
Outcome(ok, driver, hosts, unsent) ==
    {[ok |-> ok, driver |-> driver, host |-> hosts, unsent |-> unsent]}
NetvscSetFilter(new, old, hosts, unsent, running) ==
    CASE new = old -> Outcome(TRUE, new, hosts, unsent)
      [] ~running -> Outcome(FALSE, new, hosts, TRUE)
      [] OTHER -> Outcome(TRUE, new, new, FALSE) \cup Outcome(FALSE, old, hosts, unsent)
                  \cup IF Failures \cap {"noSection", "filterSend"} = {} THEN {}
                       ELSE Outcome(FALSE, new, hosts, TRUE)

\* PxeRecvFilterEnable and, unless that failed with outcome e, PxeRecvFilterDisable.
FilterEnable(enable) ==
    IF enable = {} THEN Outcome(TRUE, ctx.RxFilter, host, ctx.unsent)
    ELSE NetvscSetFilter(ctx.RxFilter \cup enable, ctx.RxFilter, host, ctx.unsent,
                         ctx.receiving)
FilterDisable(disable, e) ==
    IF disable = {} \/ ~e.ok THEN {e}
    ELSE NetvscSetFilter(e.driver \ disable, e.driver, e.host, e.unsent, ctx.receiving)

\* SnpUndi32ReceiveFilters: enable, then disable, then read the setting back.
ReceiveFilters(enable, disable) ==
    /\ step = "present" /\ ctx.state = "initialized" /\ enable \cup disable # {}
    /\ \E e \in FilterEnable(enable) : \E d \in FilterDisable(disable, e) :
           /\ ctx' = [ctx EXCEPT !.RxFilter = d.driver, !.unsent = d.unsent,
                                 !.setting = IF d.ok THEN d.driver ELSE @]
           /\ host' = d.host
           /\ call' = IF d.ok THEN "filtersSet" ELSE "failed"
    /\ UNCHANGED <<held, step>>
-----------------------------------------------------------------------------
(* The simple network protocol                                             *)

SnpStart ==
    /\ step = "present" /\ ctx.state = "stopped"
    /\ ctx' = [ctx EXCEPT !.state = "started"] /\ call' = "started"
    /\ UNCHANGED <<held, step, host>>

SnpStop ==
    /\ step = "present" /\ ctx.state = "started"
    /\ ctx' = [ctx EXCEPT !.state = "stopped"] /\ call' = "stopped"
    /\ UNCHANGED <<held, step, host>>

\* The channel starts with no filter, and NetvscInit with none recorded.
AfterInit(o) ==
    /\ ctx' = [ctx EXCEPT !.receiving = o.receiving, !.setting = {},
                   !.state = IF o.ok THEN "initialized" ELSE @,
                   !.RxFilter = IF o.filter THEN @ ELSE {},
                   !.unsent = o.filter /\ ctx.RxFilter # {},
                   !.eventsKept = @ \/ (~o.ok /\ Events \subseteq o.held)]
    /\ host' = IF "channel" \in o.held THEN {} ELSE host

\* SnpUndi32Initialize; an event that NetvscInit creates again is lost.
SnpInitialize ==
    /\ step = "present" /\ ctx.state = "started"
    /\ \/ /\ \E o \in NetvscInit(held \cup {"WaitForPacket"}) :
                 /\ AfterInit(o)
                 /\ held' = (IF o.ok THEN o.held ELSE o.held \ {"WaitForPacket"})
                                \cup IF held \cap Events # {} THEN {"lostEvents"} ELSE {}
                 /\ call' = IF o.ok THEN "initialized" ELSE "failed"
       \/ "WaitForPacket" \in Failures /\ call' = "failed" /\ UNCHANGED <<held, ctx, host>>
    /\ UNCHANGED step

SnpShutdown ==
    /\ step = "present" /\ ctx.state = "initialized"
    /\ held' = NetvscShutdown(held) \ {"WaitForPacket"}
    /\ ctx' = [ctx EXCEPT !.state = "started", !.setting = {}, !.receiving = FALSE]
    /\ call' = "shutdown"
    /\ UNCHANGED <<step, host>>

\* PxeReset: the adapter is shut down and initialized, and its filter set again.
\* The state stays initialized whatever fails.
PxeReset ==
    /\ \E o \in NetvscInit(NetvscShutdown(held)) :
       \E f \in LET old == IF o.filter THEN ctx.RxFilter ELSE {}
                    unsent == old # {}
                IN  IF o.ok THEN NetvscSetFilter(ctx.RxFilter, old, {}, unsent, o.receiving)
                    ELSE Outcome(FALSE, old, {}, unsent) :
           /\ held' = o.held
           /\ ctx' = [ctx EXCEPT !.receiving = o.receiving, !.RxFilter = f.driver,
                  !.unsent = f.unsent, !.eventsKept = @ \/ (~o.ok /\ Events \subseteq o.held)]
           /\ host' = f.host
           /\ call' = IF f.ok THEN "reset" ELSE "failed"
    /\ UNCHANGED step
SnpReset == step = "present" /\ ctx.state = "initialized" /\ PxeReset
-----------------------------------------------------------------------------
(* The driver: NetvscInitializeController and NetvscCreateDevice           *)

ControllerCalls == <<"emcl", "devicePathOpen", "emclOpen">>
DeviceCalls == <<"adapter", "snp", "snpProtocol", "emclChild", "init", "ebsEvent",
                 "devicePath", "devicePathProtocol">>

\* NetvscCleanupDevice and NetvscCleanupController.
NetvscCleanupDevice(h) == NetvscShutdown(h) \ Range(DeviceCalls)
NetvscCleanupController(h) == h \ Range(ControllerCalls)

\* SimpleNetworkDriverStart: the adapter is initialized to learn its address and shut
\* down again.  A failure gives back the device and the controller.
Failing(calls, h) == {h \cup {calls[i] : i \in 1 .. n} :
                         n \in {k \in 0 .. Len(calls) - 1 : calls[k + 1] \in Failures}}
SimpleNetworkDriverStart ==
    LET controller == held \cup Range(ControllerCalls)
        beforeInit == controller \cup {"adapter", "snp", "snpProtocol", "emclChild"}
    IN  /\ step = "absent"
        /\ \/ /\ \E h \in Failing(ControllerCalls, held) : held' = NetvscCleanupController(h)
              /\ UNCHANGED step
           \/ /\ \E h \in Failing(DeviceCalls, controller) \cup
                             {o.held : o \in {x \in NetvscInit(beforeInit) : ~x.ok}} :
                     held' = NetvscCleanupController(NetvscCleanupDevice(h))
              /\ UNCHANGED step
           \/ /\ \E o \in NetvscInit(beforeInit) :
                     o.ok /\ held' = NetvscShutdown(o.held) \cup Range(DeviceCalls)
              /\ step' = "present"
        /\ ctx' = [ctx EXCEPT !.state = "stopped", !.setting = {}, !.RxFilter = {},
                              !.unsent = FALSE]
        /\ call' = IF step' = "present" THEN "bound" ELSE "failed"
        /\ host' = {}

\* SimpleNetworkDriverStop, for the child and then for the controller.  Its clients
\* have been disconnected and have shut the adapter down.
SimpleNetworkDriverStop ==
    /\ step = "present" /\ ctx.state # "initialized"
    /\ held' = NetvscCleanupController(NetvscCleanupDevice(held))
    /\ step' = "absent" /\ call' = "unbound"
    /\ UNCHANGED <<ctx, host>>
-----------------------------------------------------------------------------
Next ==
    \/ SimpleNetworkDriverStart \/ SimpleNetworkDriverStop
    \/ SnpStart \/ SnpStop \/ SnpInitialize \/ SnpShutdown \/ SnpReset
    \/ \E enable, disable \in SUBSET Flags : ReceiveFilters(enable, disable)

Spec == Init /\ [][Next]_vars
-----------------------------------------------------------------------------

\* When ReceiveFilters or Reset of a running adapter returns success, the filter the
\* driver has recorded, and after ReceiveFilters the setting its client reads, is the
\* one the host filters with, whatever earlier calls the host refused.  The exception
\* is a filter that was recorded and could not be sent, as long as it stays recorded:
\* asking for it again succeeds and sends nothing.
FilterSettingTrue ==
    /\ ctx.receiving /\ call \in {"filtersSet", "reset"} =>
           /\ ctx.RxFilter = host \/ ctx.unsent
           /\ call = "filtersSet" => ctx.setting = ctx.RxFilter
    /\ ctx.receiving /\ call = "reset" => ctx.RxFilter = host

\* The same without the exception.
FilterAlwaysTrue ==
    ctx.receiving /\ call \in {"filtersSet", "reset"} => ctx.RxFilter = host

\* An adapter whose Initialize succeeded has its channel, its buffers and its queues.
InitializedIsRunning ==
    call \in {"initialized", "reset"} => Kept \subseteq held /\ ctx.receiving
==============================================================================
