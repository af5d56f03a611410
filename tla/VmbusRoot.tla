----------------------------- MODULE VmbusRoot -----------------------------
(***************************************************************************)
(* The VMBus root driver: the connection to the host from DriverStart to    *)
(* DriverStop or ExitBootServices, the one-message SINT slot that messages  *)
(* of the host arrive in, the interrupt that dispatches them, and the two   *)
(* events that turn a hot offer into a channel.                             *)
(*                                                                          *)
(* Four actors share the root context.  The SINT interrupt runs at          *)
(* TPL_HIGH_LEVEL and is one step.  HotAddAllocation runs at TPL_NOTIFY,    *)
(* HotAdd at TPL_APPLICATION + 1, and the thread that starts and stops the  *)
(* driver at its caller's TPL.  A lower actor only steps when no higher one *)
(* is signalled.  The host is external.                                     *)
(***************************************************************************)
EXTENDS Integers, Sequences, FiniteSets

CONSTANTS
    Cold,           \* the channels offered in answer to RequestOffers
    Hot,            \* the channels the host may add later
    Allowed,        \* the channels VmbusRootIsChannelAllowed lets through
    Paravisor,      \* IsHardwareIsolated() && IsParavisorPresent()
    Latency,        \* code may run between a message and its interrupt
    EarlyHot,       \* hot offers may directly follow AllOffersDelivered
    SharedInterrupt,\* when event flags of channels raise the same interrupt:
                    \* "slotEmpty" (no message is in the slot) or "always"
    StopTpls,       \* the TPLs DriverStop is called at
    MaxStarts       \* bound: how often the driver is started

ASSUME VmbusRootAssumption ==
    /\ Cardinality(Cold) \in Nat /\ Cold \cap Hot = {} /\ Allowed \subseteq Cold \cup Hot
    /\ {Paravisor, Latency, EarlyHot} \subseteq BOOLEAN
    /\ SharedInterrupt \in {"slotEmpty", "always"}
    /\ StopTpls \subseteq {"application", "callback"}
    /\ MaxStarts \in Nat

VARIABLES
    root,       \* VMBUS_ROOT_CONTEXT
    app,        \* the thread in DriverStart, DriverStop or ExitBootServices
    signaled,   \* the signalled ones of the context's three events
    allocating, \* HotAddAllocation holds a pointer to the slot's message
    adding,     \* the list HotAdd has taken
    sint,       \* the SINT: connected, slot, its payload, interrupt pending
    host,       \* the host's side of the connection
    failFast,   \* FAIL_FAST_UNEXPECTED_HOST_BEHAVIOR was reached
    badFree,    \* memory that is no hot message was freed as one
    lost,       \* hot channels dropped for want of memory
    stopped     \* channels destroyed by DriverStop

vars == <<root, app, signaled, allocating, adding, sint, host, failFast,
          badFree, lost, stopped>>

Ids == Cold \cup Hot
Versions == {1, 2}                      \* VMBUS_VERSION_COPPER, WIN8_1
Features == {"clientId", "paravisor"}
\* A VersionResponse that does not accept the version is "VersionRefused".
Message == [type : {"None", "Offer", "AllOffersDelivered", "VersionResponse",
                    "VersionRefused", "UnloadComplete", "Rescind"},
            id : Ids \cup {0}, features : SUBSET Features]

Msg(type, id) == [type |-> type, id |-> id, features |-> {}]
NoMessage == Msg("None", 0)
Waiting == {"version", "offers", "unload"}

TypeOK ==
    /\ root \in [Confidential : BOOLEAN, SintConnected : BOOLEAN,
                 ContactInitiated : BOOLEAN, OffersDelivered : BOOLEAN,
                 FeatureFlags : SUBSET Features, Channels : SUBSET Ids,
                 HotMessageList : Seq(Hot)]
    /\ app \in [pc : {"down", "contact", "enumerate", "up", "destroy",
                      "teardown", "exited", "stopFailed"} \cup Waiting,
                step : {"event", "get", "copy", "complete", "handle"},
                msg : Message, version : Versions,
                tpl : {"application", "callback"}, exiting : BOOLEAN,
                starts : 0..MaxStarts]
    /\ signaled \in SUBSET {"WaitForMessage", "HotAllocationEvent", "HotEvent"}
    /\ allocating \in BOOLEAN
    /\ adding \in Seq(Hot)
    /\ sint \in [connected : BOOLEAN, slot : Message, payload : Message,
                 irq : BOOLEAN]
    /\ host \in [inbox : Seq(Message),
                 phase : {"idle", "contacted", "offered"},
                 offered : SUBSET Ids, rescinded : SUBSET Ids]
    /\ {failFast, badFree} \subseteq BOOLEAN
    /\ lost \subseteq Hot
    /\ stopped \subseteq Ids

\* VmbusRootInitializeContext zeroes the context.
NewContext ==
    [Confidential |-> Paravisor, SintConnected |-> FALSE,
     ContactInitiated |-> FALSE, OffersDelivered |-> FALSE,
     FeatureFlags |-> {}, Channels |-> {}, HotMessageList |-> <<>>]

Init ==
    /\ root = NewContext
    /\ app = [pc |-> "down", step |-> "event", msg |-> NoMessage,
              version |-> 1, tpl |-> "application", exiting |-> FALSE,
              starts |-> 0]
    /\ signaled = {}
    /\ allocating = FALSE
    /\ adding = <<>>
    /\ sint = [connected |-> FALSE, slot |-> NoMessage,
               payload |-> NoMessage, irq |-> FALSE]
    /\ host = [inbox |-> <<>>, phase |-> "idle", offered |-> {},
               rescinded |-> {}]
    /\ failFast = FALSE
    /\ badFree = FALSE
    /\ lost = {}
    /\ stopped = {}

-----------------------------------------------------------------------------
(* Which actor may step.                                                    *)

BelowHigh == ~failFast /\ (Latency \/ ~sint.irq)

BelowNotify ==
    BelowHigh /\ ~allocating /\ "HotAllocationEvent" \notin signaled

AppRuns ==
    /\ BelowNotify
    /\ adding = <<>>
    /\ app.tpl = "application" => "HotEvent" \notin signaled

\* EfiHvCompleteSintMessage: the type is cleared, the payload stays, and the
\* hypervisor may deliver the next message.
CompleteSintMessage == [sint EXCEPT !.slot = NoMessage]

-----------------------------------------------------------------------------
(* The hypervisor and the host.                                             *)

Deliver ==
    /\ ~failFast
    /\ sint.connected /\ sint.slot.type = "None" /\ host.inbox # <<>>
    /\ sint' = [sint EXCEPT !.slot = Head(host.inbox),
                            !.payload = Head(host.inbox), !.irq = TRUE]
    /\ host' = [host EXCEPT !.inbox = Tail(@)]
    /\ UNCHANGED <<root, app, signaled, allocating, adding, failFast, badFree,
                   lost, stopped>>

HostHotOffer(id) ==
    /\ ~failFast
    /\ host.phase = "offered" /\ id \notin host.offered
    /\ EarlyHot \/ root.OffersDelivered
    /\ host' = [host EXCEPT !.offered = @ \cup {id},
                            !.inbox = Append(@, Msg("Offer", id))]
    /\ UNCHANGED <<root, app, signaled, allocating, adding, sint, failFast,
                   badFree, lost, stopped>>

HostRescind(id) ==
    /\ ~failFast
    /\ host.phase = "offered" /\ id \in host.offered \ host.rescinded
    /\ host' = [host EXCEPT !.rescinded = @ \cup {id},
                            !.inbox = Append(@, Msg("Rescind", id))]
    /\ UNCHANGED <<root, app, signaled, allocating, adding, sint, failFast,
                   badFree, lost, stopped>>

\* An open channel's event flag raises the interrupt that messages share.
EventFlagInterrupt ==
    /\ ~failFast
    /\ sint.connected /\ ~sint.irq
    /\ SharedInterrupt = "slotEmpty" => sint.slot.type = "None"
    /\ app.pc = "up" \/ app.exiting
    /\ root.Channels # {}
    /\ sint' = [sint EXCEPT !.irq = TRUE]
    /\ UNCHANGED <<root, app, signaled, allocating, adding, host, failFast,
                   badFree, lost, stopped>>

\* The host's answers to the messages of the root driver.
ContactAccepted(features) ==
    [inbox |-> Append(host.inbox, [type |-> "VersionResponse", id |-> 0,
                                   features |-> features]),
     phase |-> "contacted", offered |-> {}, rescinded |-> {}]

ContactRefused ==
    [host EXCEPT !.inbox = Append(@, Msg("VersionRefused", 0))]

OffersRequested(order) ==
    [host EXCEPT
       !.phase = "offered", !.offered = Cold,
       !.inbox = @ \o [i \in DOMAIN order |-> Msg("Offer", order[i])]
                   \o <<Msg("AllOffersDelivered", 0)>>]

Unloaded ==
    [host EXCEPT !.phase = "idle",
                 !.inbox = Append(@, Msg("UnloadComplete", 0))]

-----------------------------------------------------------------------------
(* VmbusRootSintNotify: a message is completed only when the dispatch says  *)
(* so; the others stay in the slot for the one the signalled event wakes.   *)

\* The mutated dispatch completes a hot offer although it is still needed.
DispatchCompletesOffer(m) ==
    [signals |-> CASE m.type = "Offer" /\ root.OffersDelivered ->
                        {"HotAllocationEvent"}
                   [] m.type = "Rescind" -> {}
                   [] OTHER -> {"WaitForMessage"},
     complete |-> m.type = "Rescind"
                    \/ (m.type = "Offer" /\ root.OffersDelivered)]

VmbusRootDispatchMessage(m) ==
    [signals |-> CASE m.type = "Offer" /\ root.OffersDelivered ->
                        {"HotAllocationEvent"}
                   [] m.type = "Rescind" -> {}
                   [] OTHER -> {"WaitForMessage"},
     complete |-> m.type = "Rescind"]

VmbusRootSintNotify ==
    /\ ~failFast
    /\ sint.connected /\ sint.irq
    /\ IF sint.slot.type = "None"
       THEN /\ sint' = [sint EXCEPT !.irq = FALSE]
            /\ UNCHANGED signaled
       ELSE LET d == VmbusRootDispatchMessage(sint.slot)
            IN  /\ sint' = IF d.complete
                           THEN [CompleteSintMessage EXCEPT !.irq = FALSE]
                           ELSE [sint EXCEPT !.irq = FALSE]
                /\ signaled' = signaled \cup d.signals
    /\ UNCHANGED <<root, app, allocating, adding, host, failFast, badFree,
                   lost, stopped>>

-----------------------------------------------------------------------------
(* The hot events.                                                          *)

HotAddAllocationBegin ==
    /\ BelowHigh /\ ~allocating
    /\ "HotAllocationEvent" \in signaled
    /\ signaled' = signaled \ {"HotAllocationEvent"}
    /\ IF sint.slot.type = "None"
       THEN failFast' = TRUE /\ UNCHANGED allocating
       ELSE allocating' = TRUE /\ UNCHANGED failFast
    /\ UNCHANGED <<root, app, adding, sint, host, badFree, lost, stopped>>

\* The mutated allocation returns at once when there is no memory.
HotAddAllocationKeepsMessage ==
    /\ BelowHigh /\ allocating
    /\ allocating' = FALSE
    /\ \/ /\ lost' = lost \cup {sint.payload.id}
          /\ UNCHANGED <<root, signaled, sint>>
       \/ /\ sint' = CompleteSintMessage
          /\ root' = [root EXCEPT !.HotMessageList = Append(@, sint.payload.id)]
          /\ signaled' = signaled \cup {"HotEvent"}
          /\ UNCHANGED lost
    /\ UNCHANGED <<app, adding, host, failFast, badFree, stopped>>

\* From the allocation of the hot message to CompleteSintMessage.
HotAddAllocationEnd ==
    /\ BelowHigh /\ allocating
    /\ allocating' = FALSE
    /\ LET id == sint.payload.id
       IN  \/ /\ lost' = lost \cup {id}           \* AllocatePool fails
             /\ sint' = CompleteSintMessage
             /\ UNCHANGED <<root, signaled, failFast>>
          \/ /\ \/ sint.payload.type # "Offer"
                \/ id \in root.Channels
             /\ failFast' = TRUE
             /\ UNCHANGED <<root, signaled, sint, lost>>
          \/ /\ sint.payload.type = "Offer"
             /\ id \notin root.Channels
             /\ IF id \in Allowed
                THEN /\ root' = [root EXCEPT !.HotMessageList = Append(@, id)]
                     /\ signaled' = signaled \cup {"HotEvent"}
                ELSE UNCHANGED <<root, signaled>>
             /\ sint' = CompleteSintMessage
             /\ UNCHANGED <<failFast, lost>>
    /\ UNCHANGED <<app, adding, host, badFree, stopped>>

\* The mutated HotAdd takes the first message and forgets the others.
HotAddTakeOne ==
    /\ BelowNotify /\ adding = <<>>
    /\ app.tpl = "application"
    /\ "HotEvent" \in signaled
    /\ signaled' = signaled \ {"HotEvent"}
    /\ adding' = SubSeq(root.HotMessageList, 1, 1)
    /\ root' = [root EXCEPT !.HotMessageList = <<>>]
    /\ UNCHANGED <<app, allocating, sint, host, failFast, badFree, lost,
                   stopped>>

HotAddTake ==
    /\ BelowNotify /\ adding = <<>>
    /\ app.tpl = "application"
    /\ "HotEvent" \in signaled
    /\ signaled' = signaled \ {"HotEvent"}
    /\ adding' = root.HotMessageList
    /\ root' = [root EXCEPT !.HotMessageList = <<>>]
    /\ UNCHANGED <<app, allocating, sint, host, failFast, badFree, lost,
                   stopped>>

\* VmbusRootCreateChannel of the first message of the taken list, and the
\* ConnectController that follows it.
HotAddCreate ==
    /\ BelowNotify /\ adding # <<>>
    /\ adding' = Tail(adding)
    /\ \/ /\ lost' = lost \cup {Head(adding)}
          /\ UNCHANGED <<root, failFast>>
       \/ /\ Head(adding) \in root.Channels
          /\ failFast' = TRUE
          /\ UNCHANGED <<root, lost>>
       \/ /\ Head(adding) \notin root.Channels
          /\ root' = [root EXCEPT !.Channels = @ \cup {Head(adding)}]
          /\ UNCHANGED <<failFast, lost>>
    /\ UNCHANGED <<app, signaled, allocating, sint, host, badFree, stopped>>

-----------------------------------------------------------------------------
(* VmbusRootWaitForMessage, shared by the three loops that wait.  Polling   *)
(* starts at the second step.                                               *)

Wait(pc) == [app EXCEPT !.pc = pc, !.step = "event", !.msg = NoMessage]
Poll(pc) == [app EXCEPT !.pc = pc, !.step = "get", !.msg = NoMessage]
Goto(pc) == [app EXCEPT !.pc = pc, !.step = "event", !.msg = NoMessage]
WaitAgain == [app EXCEPT !.step = IF app.pc = "unload" THEN "get" ELSE "event",
                         !.msg = NoMessage]

WaitForEvent ==
    /\ AppRuns /\ app.pc \in Waiting /\ app.step = "event"
    /\ "WaitForMessage" \in signaled
    /\ signaled' = signaled \ {"WaitForMessage"}
    /\ app' = [app EXCEPT !.step = "get"]
    /\ UNCHANGED <<root, allocating, adding, sint, host, failFast, badFree,
                   lost, stopped>>

GetSintMessage ==
    /\ AppRuns /\ app.pc \in Waiting /\ app.step = "get"
    /\ sint.slot.type # "None"
    /\ app' = [app EXCEPT !.step = "copy"]
    /\ UNCHANGED <<root, signaled, allocating, adding, sint, host, failFast,
                   badFree, lost, stopped>>

CopyMessage ==
    /\ AppRuns /\ app.pc \in Waiting /\ app.step = "copy"
    /\ app' = [app EXCEPT !.step = "complete", !.msg = sint.payload]
    /\ UNCHANGED <<root, signaled, allocating, adding, sint, host, failFast,
                   badFree, lost, stopped>>

CompleteMessage ==
    /\ AppRuns /\ app.pc \in Waiting /\ app.step = "complete"
    /\ app' = [app EXCEPT !.step = "handle"]
    /\ sint' = CompleteSintMessage
    /\ UNCHANGED <<root, signaled, allocating, adding, host, failFast,
                   badFree, lost, stopped>>

-----------------------------------------------------------------------------
(* VmbusRootDriverStart.                                                    *)

\* A failure before the SINT is connected leaves nothing behind.
DriverStart ==
    /\ AppRuns /\ app.pc = "down" /\ app.starts < MaxStarts
    /\ root' = [NewContext EXCEPT !.SintConnected = TRUE]
    /\ sint' = [sint EXCEPT !.connected = TRUE]
    /\ app' = [app EXCEPT !.pc = "contact", !.step = "event", !.version = 1,
                          !.tpl = "application", !.exiting = FALSE,
                          !.starts = @ + 1]
    /\ stopped' = {} /\ lost' = {}
    /\ UNCHANGED <<signaled, allocating, adding, host, failFast, badFree>>

\* The feature flags of an InitiateContact message.
Requested(version, confidential) ==
    IF version = 1
    THEN {"clientId"} \cup (IF confidential THEN {"paravisor"} ELSE {})
    ELSE {}

\* The context after the fallback from a confidential connection.
FallenBack(r, version) ==
    [r EXCEPT !.Confidential = FALSE,
              !.FeatureFlags = Requested(version, FALSE)]

Answered(r, conn) ==
    /\ \/ \E features \in SUBSET Features : host' = ContactAccepted(features)
       \/ host' = ContactRefused
    /\ root' = r /\ sint' = conn /\ app' = Wait("version")

\* NegotiateVersion's call of VmbusRootInitiateContact up to the wait.
InitiateContact ==
    LET asked == [root EXCEPT
                    !.FeatureFlags = Requested(app.version, root.Confidential)]
        again == FallenBack(asked, app.version)
    IN  /\ AppRuns /\ app.pc = "contact"
        /\ \/ Answered(asked, sint)
           \/ /\ ~root.Confidential                      \* the post fails
              /\ root' = asked /\ app' = Goto("destroy")
              /\ UNCHANGED <<sint, host>>
           \/ /\ root.Confidential
              /\ Answered(again, sint)
           \/ /\ root.Confidential                       \* and fails again
              /\ root' = again /\ app' = Goto("destroy")
              /\ UNCHANGED <<sint, host>>
           \/ /\ root.Confidential                       \* ConnectSint fails
              /\ root' = [asked EXCEPT !.Confidential = FALSE]
              /\ sint' = [sint EXCEPT !.connected = FALSE, !.irq = FALSE]
              /\ app' = Goto("destroy")
              /\ UNCHANGED host
        /\ UNCHANGED <<signaled, allocating, adding, failFast, badFree, lost,
                       stopped>>

Handling(pc) == AppRuns /\ app.pc = pc /\ app.step = "handle"

\* The rest of InitiateContact, and the choice of the next version; then the
\* exit boot services event is created, which may fail.
VersionAnswered ==
    /\ Handling("version")
    /\ CASE app.msg.type = "VersionResponse" ->
              /\ root' = [root EXCEPT
                    !.ContactInitiated = TRUE,
                    !.FeatureFlags = IF app.version = 1
                                     THEN @ \cap app.msg.features ELSE @]
              /\ app' \in {Goto("enumerate"), Goto("destroy")}
         [] app.msg.type = "VersionRefused" ->
              /\ app' = IF app.version = 1
                        THEN [Goto("contact") EXCEPT !.version = 2]
                        ELSE Goto("destroy")
              /\ UNCHANGED root
         [] OTHER -> app' = WaitAgain /\ UNCHANGED root
    /\ UNCHANGED <<signaled, allocating, adding, sint, host, failFast, badFree,
                   lost, stopped>>

Orders == {order \in [1..Cardinality(Cold) -> Cold] :
              /\ \A c \in Cold : \E i \in DOMAIN order : order[i] = c
              /\ \A i, j \in DOMAIN order : order[i] = order[j] => i = j}

EnumerateChildren ==
    /\ AppRuns /\ app.pc = "enumerate"
    /\ app' = Wait("offers")
    /\ \E order \in Orders : host' = OffersRequested(order)
    /\ UNCHANGED <<root, signaled, allocating, adding, sint, failFast, badFree,
                   lost, stopped>>

\* One message of the loop of VmbusRootEnumerateChildren; after the last one
\* DriverStart opens the root protocol, which may fail.
OfferAnswered ==
    /\ Handling("offers")
    /\ \/ /\ app.msg.type = "AllOffersDelivered"
          /\ root' = [root EXCEPT !.OffersDelivered = TRUE]
          /\ app' \in {Goto("up"), Goto("destroy")}
          /\ UNCHANGED failFast
       \/ /\ app.msg.type \notin {"AllOffersDelivered", "Offer"}
          /\ app' = Goto("destroy")
          /\ UNCHANGED <<root, failFast>>
       \/ /\ app.msg.type = "Offer" /\ app.msg.id \in root.Channels
          /\ failFast' = TRUE
          /\ UNCHANGED <<root, app>>
       \/ /\ app.msg.type = "Offer" /\ app.msg.id \notin root.Channels
          /\ \/ /\ app.msg.id \notin Allowed
                /\ app' = WaitAgain
                /\ UNCHANGED root
             \/ /\ app.msg.id \in Allowed
                /\ app' = WaitAgain
                /\ root' = [root EXCEPT !.Channels = @ \cup {app.msg.id}]
             \/ /\ app.msg.id \in Allowed                \* no memory
                /\ app' = Goto("destroy")
                /\ UNCHANGED root
          /\ UNCHANGED failFast
    /\ UNCHANGED <<signaled, allocating, adding, sint, host, badFree, lost,
                   stopped>>

-----------------------------------------------------------------------------
(* VmbusRootDriverStop, ExitBootServices and VmbusRootDestroyContext.       *)

\* DriverStop for a child: VmbusRootDestroyChannel.
StopChild(id) ==
    /\ AppRuns /\ app.pc = "up" /\ id \in root.Channels
    /\ root' = [root EXCEPT !.Channels = @ \ {id}]
    /\ stopped' = stopped \cup {id}
    /\ UNCHANGED <<app, signaled, allocating, adding, sint, host, failFast,
                   badFree, lost>>

DriverStop ==
    /\ AppRuns /\ app.pc = "up"
    /\ \E tpl \in StopTpls : app' = [Goto("destroy") EXCEPT !.tpl = tpl]
    /\ UNCHANGED <<root, signaled, allocating, adding, sint, host, failFast,
                   badFree, lost, stopped>>

\* The callback runs at TPL_CALLBACK and sends the unload message.
ExitBootServices ==
    /\ AppRuns /\ app.pc = "up"
    /\ app' = [Poll("unload") EXCEPT !.tpl = "callback", !.exiting = TRUE]
    /\ host' = Unloaded
    /\ UNCHANGED <<root, signaled, allocating, adding, sint, failFast, badFree,
                   lost, stopped>>

\* The mutated destruction only unloads once the offers were delivered.
DestroyContextOffered ==
    /\ AppRuns /\ app.pc = "destroy"
    /\ IF root.OffersDelivered
       THEN app' = Poll("unload") /\ host' = Unloaded
       ELSE app' = Goto("teardown") /\ UNCHANGED host
    /\ UNCHANGED <<root, signaled, allocating, adding, sint, failFast, badFree,
                   lost, stopped>>

DestroyContext ==
    /\ AppRuns /\ app.pc = "destroy"
    /\ IF root.ContactInitiated
       THEN app' = Poll("unload") /\ host' = Unloaded
       ELSE app' = Goto("teardown") /\ UNCHANGED host
    /\ UNCHANGED <<root, signaled, allocating, adding, sint, failFast, badFree,
                   lost, stopped>>

\* VmbusRootSendUnload ignores everything but UnloadComplete.
UnloadAnswered ==
    /\ Handling("unload")
    /\ \/ /\ app.msg.type # "UnloadComplete"
          /\ app' = WaitAgain /\ UNCHANGED root
       \/ /\ app.msg.type = "UnloadComplete" /\ app.exiting
          /\ app' = Goto("exited") /\ UNCHANGED root
       \/ /\ app.msg.type = "UnloadComplete" /\ ~app.exiting
          /\ app' = Goto("teardown")
          /\ root' = [root EXCEPT !.ContactInitiated = FALSE,
                                  !.OffersDelivered = FALSE]
    /\ UNCHANGED <<signaled, allocating, adding, sint, host, failFast, badFree,
                   lost, stopped>>

\* The rest of VmbusRootDestroyContext.  RemoveEntryList returns the entry
\* after the one it removes, and that is what is freed.
Teardown ==
    /\ AppRuns /\ app.pc = "teardown"
    /\ sint' = IF root.SintConnected
               THEN [sint EXCEPT !.connected = FALSE, !.irq = FALSE] ELSE sint
    /\ \/ /\ root' = [root EXCEPT !.SintConnected = FALSE, !.Channels = {},
                                  !.HotMessageList = <<>>]
          /\ signaled' = {}
          /\ badFree' = (root.HotMessageList # <<>>)
          /\ app' = [Goto("down") EXCEPT !.tpl = "application"]
       \/ \E left \in SUBSET root.Channels :            \* a channel is in use
             /\ left # {}
             /\ root' = [root EXCEPT !.SintConnected = FALSE,
                                     !.Channels = left]
             /\ app' = Goto("stopFailed")
             /\ UNCHANGED <<signaled, badFree>>
    /\ UNCHANGED <<allocating, adding, host, failFast, lost, stopped>>

-----------------------------------------------------------------------------
HotEvents ==
    HotAddAllocationBegin \/ HotAddAllocationEnd \/ HotAddTake \/ HotAddCreate

Progress ==
    \/ WaitForEvent \/ GetSintMessage \/ CopyMessage \/ CompleteMessage
    \/ VersionAnswered \/ OfferAnswered \/ UnloadAnswered
    \/ InitiateContact \/ EnumerateChildren \/ DestroyContext \/ Teardown

Next ==
    \/ Deliver
    \/ \E id \in Hot : HostHotOffer(id)
    \/ \E id \in Ids : HostRescind(id)
    \/ EventFlagInterrupt
    \/ VmbusRootSintNotify
    \/ HotEvents
    \/ Progress
    \/ DriverStart
    \/ \E id \in Ids : StopChild(id)
    \/ DriverStop
    \/ ExitBootServices

Spec == Init /\ [][Next]_vars

\* The hypervisor delivers what is posted, interrupts are taken and signalled
\* events run, and the thread of a started operation goes on.  It is strong
\* fairness for what interrupts preempt: code runs between two interrupts.
Fairness ==
    /\ WF_vars(Deliver)
    /\ WF_vars(VmbusRootSintNotify)
    /\ SF_vars(HotEvents)
    /\ SF_vars(Progress)

FairSpec == Spec /\ Fairness

-----------------------------------------------------------------------------
(* The host model never breaks the protocol: an offer is for a channel that *)
(* has not been offered, and every message is valid.  Then no check of the  *)
(* host's behaviour stops the firmware, in particular HotAddAllocation      *)
(* finds its message in the slot and no channel exists twice.               *)
NoFailFast == ~failFast

(* Features that need a connection to the paravisor are in use only on a    *)
(* confidential connection: a channel is treated as confidential            *)
(* (EFI_VMBUS_PROTOCOL_FLAGS, ConfidentialRing) only if FeatureFlags says   *)
(* so, and the fallback to the untrusted host withdraws them.               *)
ParavisorFeaturesConfidential ==
    root.ContactInitiated /\ "paravisor" \in root.FeatureFlags
        => root.Confidential

(* Whenever the driver is down the host has been told: whatever step of     *)
(* DriverStart failed, a connection the host accepted is unloaded before    *)
(* the SINT is disconnected, and nothing of it is left in the SINT.         *)
DownMeansUnloaded ==
    app.pc = "down" =>
        /\ host.phase = "idle" /\ ~sint.connected
        /\ host.inbox = <<>> /\ sint.slot.type = "None"

(* When enumeration ends with success, the channels are exactly the allowed *)
(* ones the host offered, less those stopped since.                         *)
EnumeratedExactly ==
    /\ root.Channels \subseteq Allowed
    /\ app.pc = "up" => Cold \cap Allowed \subseteq root.Channels \cup stopped

(* No hot offer is mislaid while the driver is up: an offered channel that  *)
(* is allowed is on its way (in the host's queue, the slot, HotMessageList  *)
(* with HotAdd signalled, or HotAdd's list), a channel, stopped, or dropped *)
(* for want of memory.                                                      *)
HotOffersAccounted ==
    app.pc = "up" =>
        \A id \in host.offered \cap Allowed :
            \/ \E i \in DOMAIN host.inbox :
                   host.inbox[i].type = "Offer" /\ host.inbox[i].id = id
            \/ sint.slot.type = "Offer" /\ sint.slot.id = id
            \/ /\ "HotEvent" \in signaled
               /\ \E i \in DOMAIN root.HotMessageList : root.HotMessageList[i] = id
            \/ \E i \in DOMAIN adding : adding[i] = id
            \/ id \in root.Channels \cup stopped \cup lost

(* The driver and the host agree on the connection: while the driver is     *)
(* down the host has none, features of the paravisor are in use only on a   *)
(* connection to it, the channels are the allowed ones the host offered and *)
(* no later offer is mislaid (VmbusRootDestroyContext,                      *)
(* VmbusRootInitiateContact, VmbusRootEnumerateChildren, HotAdd).           *)
ConnectionAgreed ==
    /\ DownMeansUnloaded /\ ParavisorFeaturesConfidential /\ EnumeratedExactly
    /\ HotOffersAccounted

(* DestroyContext frees hot messages and nothing else, the code's intent    *)
(* for the loop over HotMessageList.  So it does when the driver is stopped *)
(* below TPL_CALLBACK, because the loop then finds an empty list; when it   *)
(* is stopped at TPL_CALLBACK it frees what is not a message.               *)
FreesHotMessages == ~badFree

(* A message the interrupt leaves in the slot is someone's: the thread      *)
(* waits for it, or the event that handles it is signalled or running, or   *)
(* the interrupt is still to come.  Otherwise every later message of the    *)
(* host is stuck behind it.                                                 *)
SlotAttended ==
    sint.connected /\ sint.slot.type # "None" /\ ~failFast =>
        \/ sint.irq \/ allocating \/ "HotAllocationEvent" \in signaled
        \/ app.pc \in Waiting \cup {"contact", "enumerate", "destroy"}

(* A hot offer of an allowed channel becomes a channel, unless memory runs  *)
(* out or the driver is stopped.                                            *)
HotOfferBecomesChannel ==
    \A id \in Hot \cap Allowed :
        (app.pc = "up" /\ id \in host.offered) ~>
            (id \in root.Channels \cup lost \cup stopped \/ app.pc # "up")

(* VmbusRootSendUnload returns, so DriverStop and ExitBootServices do.      *)
UnloadReturns == app.pc = "unload" ~> app.pc # "unload"
=============================================================================
