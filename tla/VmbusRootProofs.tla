-------------------------- MODULE VmbusRootProofs ---------------------------
(***************************************************************************)
(* Proofs about VmbusRoot: at every point of the thread that connects and  *)
(* disconnects, what the host owes it is under way; so the driver never    *)
(* fails fast, and agrees with the host on the connection and the offers.  *)
(***************************************************************************)
EXTENDS VmbusRootOffersProofs

(* What each point of the thread says of the connection.                   *)

\* The steps of the host, the interrupt and the events.
Background ==
    \/ Deliver \/ EventFlagInterrupt \/ VmbusRootSintNotify \/ HotEvents
    \/ \E id \in Hot : HostHotOffer(id)
    \/ \E id \in Ids : HostRescind(id)

(***************************************************************************)
(* Where the steps of the thread lead.                                     *)
(***************************************************************************)
LEMMA ThreadMoves ==
    ASSUME app \in AppType
    PROVE  /\ Background => app' = app
           /\ WaitForEvent \/ GetSintMessage \/ CopyMessage \/ CompleteMessage =>
                  app'.pc = app.pc /\ app.pc \in Waiting
           /\ DriverStart => app.pc = "down" /\ app'.pc = "contact"
           /\ InitiateContact => app.pc = "contact" /\ app'.pc \in {"version", "destroy"}
           /\ VersionAnswered => /\ app.pc = "version"
                                 /\ app'.pc \in {"enumerate", "destroy", "contact", "version"}
           /\ EnumerateChildren => app.pc = "enumerate" /\ app'.pc = "offers"
           /\ OfferAnswered => app.pc = "offers" /\ app'.pc \in {"offers", "up", "destroy"}
           /\ (\E id \in Ids : StopChild(id)) => app.pc = "up" /\ app' = app
           /\ DriverStop => app.pc = "up" /\ app'.pc = "destroy"
           /\ ExitBootServices => app.pc = "up" /\ app'.pc = "unload"
           /\ DestroyContext => app.pc = "destroy" /\ app'.pc \in {"unload", "teardown"}
           /\ UnloadAnswered => app.pc = "unload" /\ app'.pc \in {"unload", "exited", "teardown"}
           /\ Teardown => app.pc = "teardown" /\ app'.pc \in {"down", "stopFailed"}
<1>1. Background => app' = app
  BY DEF Background, Deliver, EventFlagInterrupt, VmbusRootSintNotify, HotEvents,
         HotAddAllocationBegin, HotAddAllocationEnd, HotAddTake, HotAddCreate,
         HostHotOffer, HostRescind
<1>2. WaitForEvent \/ GetSintMessage \/ CopyMessage \/ CompleteMessage =>
          app'.pc = app.pc /\ app.pc \in Waiting
  BY DEF WaitForEvent, GetSintMessage, CopyMessage, CompleteMessage, AppType
<1>3. DriverStart => app.pc = "down" /\ app'.pc = "contact"
  BY DEF DriverStart, AppType
<1>4. InitiateContact => app.pc = "contact" /\ app'.pc \in {"version", "destroy"}
  BY DEF InitiateContact, Answered, Wait, Goto, AppType
<1>5. VersionAnswered => /\ app.pc = "version"
                         /\ app'.pc \in {"enumerate", "destroy", "contact", "version"}
  BY DEF VersionAnswered, Handling, Goto, WaitAgain, AppType
<1>6. EnumerateChildren => app.pc = "enumerate" /\ app'.pc = "offers"
  BY DEF EnumerateChildren, Wait, AppType
<1>7. OfferAnswered => app.pc = "offers" /\ app'.pc \in {"offers", "up", "destroy"}
  BY DEF OfferAnswered, Handling, Goto, WaitAgain, AppType
<1>8. (\E id \in Ids : StopChild(id)) => app.pc = "up" /\ app' = app
  BY DEF StopChild
<1>9. DriverStop => app.pc = "up" /\ app'.pc = "destroy"
  BY DEF DriverStop, Goto, AppType
<1>10. ExitBootServices => app.pc = "up" /\ app'.pc = "unload"
  BY DEF ExitBootServices, Poll, AppType
<1>11. DestroyContext => app.pc = "destroy" /\ app'.pc \in {"unload", "teardown"}
  BY DEF DestroyContext, Poll, Goto, AppType
<1>12. UnloadAnswered => app.pc = "unload" /\ app'.pc \in {"unload", "exited", "teardown"}
  BY DEF UnloadAnswered, Handling, WaitAgain, Goto, AppType
<1>13. Teardown => app.pc = "teardown" /\ app'.pc \in {"down", "stopFailed"}
  BY DEF Teardown, Goto, AppType
<1> QED  BY <1>1, <1>2, <1>3, <1>4, <1>5, <1>6, <1>7, <1>8, <1>9, <1>10, <1>11, <1>12, <1>13

(***************************************************************************)
(* What the steps of the others change.                                    *)
(***************************************************************************)
LEMMA BackgroundQuiet ==
    ASSUME IInv, Background, Quiet
    PROVE  /\ host.phase # "offered" => Quiet' /\ host' = host
           /\ sint'.connected = sint.connected
           /\ root'.ContactInitiated = root.ContactInitiated
           /\ root'.OffersDelivered = root.OffersDelivered
           /\ Fresh => Fresh'
<1>0. /\ root \in RootType /\ sint \in SintType /\ host \in HostType
  BY TypeParts DEF IInv
<1>1. ~allocating /\ "HotAllocationEvent" \notin signaled /\ host.inbox = <<>>
      /\ sint.slot.type = "None"
  BY DEF IInv, SlotOwned, Quiet
<1>2. CASE Deliver \/ HotAddAllocationBegin \/ HotAddAllocationEnd
  BY <1>1, <1>2 DEF Deliver, HotAddAllocationBegin, HotAddAllocationEnd
<1>3. CASE \/ \E id \in Hot : HostHotOffer(id)
           \/ \E id \in Ids : HostRescind(id)
  BY <1>3 DEF HostHotOffer, HostRescind, Fresh
<1>4. CASE EventFlagInterrupt \/ VmbusRootSintNotify
  <2>1. sint'.slot = sint.slot /\ sint'.connected = sint.connected
    BY <1>0, <1>1, <1>4 DEF EventFlagInterrupt, VmbusRootSintNotify, SintType
  <2> QED  BY <1>1, <1>4, <2>1 DEF EventFlagInterrupt, VmbusRootSintNotify, Quiet, Fresh
<1>5. CASE HotAddTake
  <2>1. /\ root'.ContactInitiated = root.ContactInitiated
        /\ root'.OffersDelivered = root.OffersDelivered /\ root'.Channels = root.Channels
        /\ root'.HotMessageList = <<>>
    BY <1>0, <1>5 DEF HotAddTake, RootType
  <2> QED  BY <1>5, <2>1 DEF HotAddTake, Quiet, Fresh
<1>6. CASE HotAddCreate
  <2>1. /\ root'.ContactInitiated = root.ContactInitiated
        /\ root'.OffersDelivered = root.OffersDelivered
    BY <1>0, <1>6 DEF HotAddCreate, RootType
  <2>2. ~Fresh
    BY <1>6 DEF HotAddCreate, Fresh
  <2> QED  BY <1>6, <2>1, <2>2 DEF HotAddCreate, Quiet
<1> QED  BY <1>2, <1>3, <1>4, <1>5, <1>6 DEF Background, HotEvents

\* Once the connection is gone nothing of it is left.
LEMMA QuietStep ==
    ASSUME IInv, [Next]_vars
    PROVE  QuietInv'
<1>0. /\ root \in RootType /\ sint \in SintType /\ host \in HostType /\ app \in AppType
  BY TypeParts DEF IInv
<1> DEFINE Pcs == {"down", "teardown", "stopFailed", "exited"}
<1>1. CASE app'.pc \notin Pcs
  BY <1>1 DEF QuietInv
<1>2. ASSUME app.pc \in Pcs, Background PROVE QuietInv'
  <2>1. Quiet /\ host.phase = "idle" /\ (app.pc = "down" => ~sint.connected)
    BY <1>2 DEF IInv, Phases, QuietInv
  <2>2. Quiet' /\ host' = host /\ sint'.connected = sint.connected /\ app' = app
    BY <1>0, <1>2, <2>1, BackgroundQuiet, ThreadMoves
  <2> QED  BY <2>1, <2>2 DEF QuietInv
<1>3. CASE DestroyContext /\ app'.pc \in Pcs
  <2>1. ~root.ContactInitiated /\ host' = host /\ sint' = sint /\ app.pc = "destroy"
        /\ app'.pc # "down"
    BY <1>0, <1>3, ThreadMoves DEF DestroyContext, Poll, AppType
  <2>2. Quiet /\ host.phase = "idle"
    BY <2>1 DEF IInv, Phases, DestroyInv
  <2> QED  BY <2>1, <2>2 DEF QuietInv, Quiet
<1>4. CASE UnloadAnswered /\ app'.pc \in Pcs
  <2>1. /\ app.pc = "unload" /\ app.step = "handle" /\ app.msg.type = "UnloadComplete"
        /\ host' = host /\ sint' = sint /\ app'.pc # "down"
    <3>1. /\ app.pc = "unload" /\ app.step = "handle" /\ host' = host /\ sint' = sint
          /\ app.msg.type # "UnloadComplete" => app' = WaitAgain
      BY <1>4 DEF UnloadAnswered, Handling
    <3>2. WaitAgain.pc = app.pc
      BY <1>0 DEF WaitAgain, AppType
    <3>3. app'.pc # "down"
      BY <1>0, <1>4, ThreadMoves
    <3> QED  BY <1>4, <3>1, <3>2, <3>3
  <2>2. Quiet /\ host.phase = "idle"
    BY <2>1 DEF IInv, Phases, UnloadInv, UnloadPending, Quiet
  <2> QED  BY <2>1, <2>2 DEF QuietInv, Quiet
<1>5. CASE Teardown
  <2>1. app.pc = "teardown" /\ host' = host /\ sint'.slot = sint.slot
    BY <1>0, <1>5 DEF Teardown, SintType
  <2>2. ~sint'.connected
    BY <1>0, <1>5 DEF Teardown, SintType, IInv, SlotOwned
  <2>3. Quiet /\ host.phase = "idle"
    BY <2>1 DEF IInv, Phases, QuietInv
  <2> QED  BY <2>1, <2>2, <2>3 DEF QuietInv, Quiet
<1>6. CASE UNCHANGED vars
  BY <1>6 DEF vars, IInv, Phases, QuietInv, Quiet
<1>7. ASSUME app'.pc \in Pcs, Next
      PROVE  \/ Background /\ app.pc \in Pcs
             \/ DestroyContext \/ UnloadAnswered \/ Teardown
  BY <1>0, <1>7, ThreadMoves DEF Next, Background, HotEvents, Progress, Waiting
<1> QED  BY <1>1, <1>2, <1>3, <1>4, <1>5, <1>6, <1>7

\* A start begins with nothing under way and no channel.
LEMMA ContactStep ==
    ASSUME IInv, [Next]_vars
    PROVE  ContactInv'
<1>0. /\ root \in RootType /\ sint \in SintType /\ host \in HostType /\ app \in AppType
  BY TypeParts DEF IInv
<1>1. CASE app'.pc # "contact"
  BY <1>1 DEF ContactInv
<1>2. ASSUME app.pc = "contact", Background PROVE ContactInv'
  <2>1. Quiet /\ Fresh /\ host.phase = "idle" /\ ~root.ContactInitiated
    BY <1>2 DEF IInv, Phases, ContactInv
  <2>2. Quiet' /\ Fresh' /\ host' = host /\ root'.ContactInitiated = root.ContactInitiated
    BY <1>0, <1>2, <2>1, BackgroundQuiet
  <2> QED  BY <2>1, <2>2 DEF ContactInv
<1>3. CASE DriverStart
  <2>1. app.pc = "down" /\ adding = <<>> /\ adding' = adding /\ host' = host
        /\ sint'.slot = sint.slot
    BY <1>0, <1>3 DEF DriverStart, AppRuns, SintType
  <2>2. Quiet /\ host.phase = "idle"
    BY <2>1 DEF IInv, Phases, QuietInv
  <2>3. /\ root'.Channels = {} /\ root'.HotMessageList = <<>> /\ ~root'.OffersDelivered
        /\ ~root'.ContactInitiated
    BY <1>3 DEF DriverStart, NewContext
  <2> QED  BY <2>1, <2>2, <2>3 DEF ContactInv, Quiet, Fresh
<1>4. CASE VersionAnswered /\ app'.pc = "contact"
  <2>1. /\ app.pc = "version" /\ app.step = "handle" /\ app.msg.type = "VersionRefused"
        /\ root' = root /\ sint' = sint /\ host' = host /\ adding' = adding
    BY <1>0, <1>4 DEF VersionAnswered, Handling, Goto, WaitAgain, AppType
  <2>2. Fresh /\ ~root.ContactInitiated /\ Quiet /\ host.phase = "idle"
    BY <2>1 DEF IInv, Phases, VersionInv, VersionPending, Answer
  <2> QED  BY <2>1, <2>2 DEF ContactInv, Quiet, Fresh
<1>5. CASE UNCHANGED vars
  BY <1>5 DEF vars, IInv, Phases, ContactInv, Quiet, Fresh
<1>6. ASSUME app'.pc = "contact", Next
      PROVE  (Background /\ app.pc = "contact") \/ DriverStart \/ VersionAnswered
  BY <1>0, <1>6, ThreadMoves DEF Next, Background, HotEvents, Progress, Waiting
<1> QED  BY <1>1, <1>2, <1>3, <1>4, <1>5, <1>6

\* The point the thread waits at, before and after a step of the others.
LEMMA VersionStep ==
    ASSUME IInv, [Next]_vars
    PROVE  VersionInv'
<1>0. /\ root \in RootType /\ sint \in SintType /\ host \in HostType /\ app \in AppType
  BY TypeParts DEF IInv
<1>1. CASE app'.pc # "version"
  BY <1>1 DEF VersionInv
<1>2. ASSUME app.pc = "version"
      PROVE  /\ Fresh /\ ~root.ContactInitiated /\ VersionPending
             /\ ~allocating /\ "HotAllocationEvent" \notin signaled
  BY <1>2 DEF IInv, Phases, VersionInv, SlotOwned, Fresh
<1>3. ASSUME app.pc = "version", Background PROVE VersionInv'
  <2>1. app' = app
    BY <1>0, <1>3, ThreadMoves
  <2>2. CASE Deliver
    <3>1. /\ host.inbox # <<>> /\ host.inbox \in Seq(Message) /\ root' = root /\ adding' = adding
          /\ sint'.slot = Head(host.inbox) /\ host'.inbox = Tail(host.inbox)
          /\ host'.phase = host.phase
      BY <1>0, <2>2 DEF Deliver, SintType, HostType
    <3>2. /\ Len(host.inbox) = 1 /\ app.step \in {"event", "get"} /\ Answer(host.inbox[1])
      BY <1>2, <1>3, <3>1 DEF VersionPending
    <3>3. sint'.slot = host.inbox[1] /\ host'.inbox = <<>>
      <4>1. Head(host.inbox) = host.inbox[1] /\ Len(Tail(host.inbox)) = 0
            /\ Tail(host.inbox) \in Seq(Message)
        BY <3>1, <3>2, TailOffer
      <4>2. \A t \in Seq(Message) : Len(t) = 0 => t = <<>>
        OBVIOUS
      <4> QED  BY <3>1, <4>1, <4>2
    <3>4. sint'.slot.type # "None"
      BY <3>2, <3>3 DEF Answer
    <3> QED  BY <1>2, <1>3, <2>1, <3>1, <3>2, <3>3, <3>4 DEF VersionInv, VersionPending, Fresh, Answer
  <2>3. CASE EventFlagInterrupt
    <3>1. sint'.slot = sint.slot /\ root' = root /\ host' = host /\ adding' = adding
      BY <1>0, <2>3 DEF EventFlagInterrupt, SintType
    <3> QED  BY <1>2, <1>3, <2>1, <3>1 DEF VersionInv, VersionPending, Fresh, Answer, Quiet
  <2>4. CASE VmbusRootSintNotify
    <3>1. root' = root /\ host' = host /\ adding' = adding
      BY <2>4 DEF VmbusRootSintNotify
    <3>2. sint.slot.type # "Rescind"
      BY <1>2, <1>3 DEF VersionPending, Answer
    <3>3. sint'.slot = sint.slot
      BY <1>0, <2>4, <3>2 DEF VmbusRootSintNotify, VmbusRootDispatchMessage, SintType
    <3> QED  BY <1>2, <1>3, <2>1, <3>1, <3>3 DEF VersionInv, VersionPending, Fresh, Answer, Quiet
  <2>5. CASE HotAddAllocationBegin \/ HotAddAllocationEnd \/ HotAddCreate
    BY <1>2, <1>3, <2>5 DEF HotAddAllocationBegin, HotAddAllocationEnd, HotAddCreate, Fresh
  <2>6. CASE HotAddTake
    <3>1. /\ host' = host /\ sint' = sint /\ adding' = root.HotMessageList
          /\ root'.HotMessageList = <<>> /\ root'.Channels = root.Channels
          /\ root'.ContactInitiated = root.ContactInitiated
          /\ root'.OffersDelivered = root.OffersDelivered
          /\ root'.FeatureFlags = root.FeatureFlags /\ root'.Confidential = root.Confidential
      BY <1>0, <2>6 DEF HotAddTake, RootType
    <3> QED  BY <1>2, <1>3, <2>1, <3>1 DEF VersionInv, VersionPending, Fresh, Answer, Quiet
  <2>8. CASE \/ \E id \in Hot : HostHotOffer(id)
             \/ \E id \in Ids : HostRescind(id)
    BY <1>2, <1>3, <2>8 DEF HostHotOffer, HostRescind, VersionPending
  <2> QED  BY <1>3, <2>2, <2>3, <2>4, <2>5, <2>6, <2>8 DEF Background, HotEvents
<1>4. ASSUME app.pc = "version", UNCHANGED <<root, sint, host, adding>>,
             \/ app'.step \in {"event", "get"}
             \/ app'.step = "copy" /\ sint.slot.type # "None"
             \/ app'.step = "complete" /\ app.step = "copy" /\ app'.msg = sint.slot
      PROVE  VersionInv'
  BY <1>2, <1>4 DEF VersionInv, VersionPending, Fresh, Answer, Quiet
<1>5. CASE WaitForEvent \/ GetSintMessage \/ CopyMessage
  <2>1. UNCHANGED <<root, sint, host, adding>>
    BY <1>5 DEF WaitForEvent, GetSintMessage, CopyMessage
  <2>2. CASE WaitForEvent
    <3>1. app'.step = "get"
      BY <1>0, <2>2 DEF WaitForEvent, AppType
    <3> QED  BY <1>1, <1>4, <1>5, <2>1, <3>1, <1>0, ThreadMoves
  <2>3. CASE GetSintMessage
    <3>1. app'.step = "copy" /\ sint.slot.type # "None"
      BY <1>0, <2>3 DEF GetSintMessage, AppType
    <3> QED  BY <1>1, <1>4, <1>5, <2>1, <3>1, <1>0, ThreadMoves
  <2>4. CASE CopyMessage /\ app.pc = "version"
    <3>1. app'.step = "complete" /\ app.step = "copy" /\ app'.msg = sint.payload
      BY <1>0, <2>4 DEF CopyMessage, AppType
    <3>2. sint.payload = sint.slot
      BY <1>2, <2>4, <3>1 DEF VersionPending, IInv, SlotOwned
    <3> QED  BY <1>4, <2>1, <2>4, <3>1, <3>2
  <2> QED  BY <1>0, <1>1, <1>5, <2>2, <2>3, <2>4, ThreadMoves
<1>6. CASE CompleteMessage /\ app.pc = "version"
  <2>1. /\ UNCHANGED <<root, host, adding>> /\ app'.step = "handle" /\ app'.msg = app.msg
        /\ app.step = "complete" /\ sint'.slot.type = "None"
    BY <1>0, <1>6, MessageTypes DEF CompleteMessage, CompleteSintMessage, SintType, AppType
  <2>2. app.msg = sint.slot /\ host.inbox = <<>> /\ Answer(sint.slot)
    BY <1>2, <1>6, <2>1 DEF VersionPending
  <2> QED  BY <1>2, <1>6, <2>1, <2>2 DEF VersionInv, VersionPending, Fresh, Answer, Quiet
<1>7. CASE InitiateContact /\ app'.pc = "version"
  <2>1. Quiet /\ Fresh /\ host.phase = "idle" /\ ~root.ContactInitiated
    BY <1>7 DEF InitiateContact, IInv, Phases, ContactInv
  <2>2. Goto("destroy").pc = "destroy" /\ Wait("version").step = "event"
    BY <1>0 DEF Goto, Wait, AppType
  <2>3. PICK r : /\ Answered(r, sint)
                 /\ \/ r = [root EXCEPT !.FeatureFlags = Requested(app.version, root.Confidential)]
                    \/ r = FallenBack([root EXCEPT
                              !.FeatureFlags = Requested(app.version, root.Confidential)],
                                     app.version)
    BY <1>7, <2>2 DEF InitiateContact
  <2>4. /\ root'.Channels = root.Channels /\ root'.HotMessageList = root.HotMessageList
        /\ root'.OffersDelivered = root.OffersDelivered
        /\ root'.ContactInitiated = root.ContactInitiated
    BY <1>0, <2>3 DEF Answered, FallenBack, RootType
  <2>5. "paravisor" \in root'.FeatureFlags => root'.Confidential
    <3>1. \A v : \A c \in BOOLEAN : "paravisor" \in Requested(v, c) => c = TRUE
      BY DEF Requested
    <3>2. \/ /\ root'.FeatureFlags = Requested(app.version, root.Confidential)
             /\ root'.Confidential = root.Confidential
          \/ root'.FeatureFlags = Requested(app.version, FALSE)
      BY <1>0, <2>3 DEF Answered, FallenBack, RootType
    <3>3. root.Confidential \in BOOLEAN
      BY <1>0 DEF RootType
    <3> QED  BY <3>1, <3>2, <3>3
  <2>6. sint' = sint /\ adding' = adding /\ app'.step = "event"
    BY <1>7, <2>2, <2>3 DEF Answered, InitiateContact
  <2>7. /\ host'.phase # "offered" /\ Len(host'.inbox) = 1 /\ Answer(host.inbox[1])'
    <3>1. CASE host' = ContactRefused
      <4>1. host'.inbox = Append(<<>>, Msg("VersionRefused", 0)) /\ host'.phase = "idle"
        BY <1>0, <2>1, <3>1 DEF ContactRefused, Quiet, HostType
      <4>2. Len(host'.inbox) = 1 /\ host'.inbox[1] = Msg("VersionRefused", 0)
        BY <4>1
      <4>3. host'.inbox[1].type = "VersionRefused"
        BY <4>2, MessageTypes
      <4> QED  BY <4>1, <4>2, <4>3 DEF Answer
    <3>2. ASSUME NEW f \in SUBSET Features, host' = ContactAccepted(f)
          PROVE  host'.phase # "offered" /\ Len(host'.inbox) = 1 /\ Answer(host.inbox[1])'
      <4> DEFINE m == [type |-> "VersionResponse", id |-> 0, features |-> f]
      <4>1. host'.inbox = Append(<<>>, m) /\ host'.phase = "contacted"
        BY <2>1, <3>2 DEF ContactAccepted, Quiet
      <4>2. m.type = "VersionResponse"
        OBVIOUS
      <4> HIDE DEF m
      <4>3. Len(host'.inbox) = 1 /\ host'.inbox[1] = m
        BY <4>1
      <4> QED  BY <4>1, <4>2, <4>3 DEF Answer
    <3> QED  BY <2>3, <3>1, <3>2 DEF Answered
  <2> QED  BY <2>1, <2>4, <2>5, <2>6, <2>7 DEF VersionInv, VersionPending, Fresh, Quiet
<1>8. CASE VersionAnswered /\ app'.pc = "version"
  <2>1. app.pc = "version" /\ app.step = "handle"
    BY <1>8 DEF VersionAnswered, Handling
  <2>2. app.msg.type \in {"VersionResponse", "VersionRefused"}
    BY <1>2, <2>1 DEF VersionPending, Answer
  <2>3. app'.pc \in {"enumerate", "destroy", "contact"}
    BY <1>0, <1>8, <2>2 DEF VersionAnswered, Goto, AppType
  <2> QED  BY <1>8, <2>3
<1>9. CASE UNCHANGED vars
  BY <1>9 DEF vars, IInv, Phases, VersionInv, VersionPending, Fresh, Answer, Quiet
<1>10. ASSUME app'.pc = "version", Next
       PROVE  \/ app.pc = "version" /\ \/ Background \/ WaitForEvent \/ GetSintMessage
                                       \/ CopyMessage \/ CompleteMessage
              \/ InitiateContact \/ VersionAnswered
  BY <1>0, <1>10, ThreadMoves DEF Next, Background, HotEvents, Progress, Waiting
<1> QED  BY <1>1, <1>3, <1>5, <1>6, <1>7, <1>8, <1>9, <1>10

\* After the version is agreed the host waits for RequestOffers.
LEMMA EnumerateStep ==
    ASSUME IInv, [Next]_vars
    PROVE  EnumerateInv'
<1>0. /\ root \in RootType /\ sint \in SintType /\ host \in HostType /\ app \in AppType
  BY TypeParts DEF IInv
<1>1. CASE app'.pc # "enumerate"
  BY <1>1 DEF EnumerateInv
<1>2. ASSUME app.pc = "enumerate", Background PROVE EnumerateInv'
  <2>1. Quiet /\ Fresh /\ host.phase = "contacted" /\ root.ContactInitiated
    BY <1>2 DEF IInv, Phases, EnumerateInv
  <2>2. Quiet' /\ Fresh' /\ host' = host /\ root'.ContactInitiated = root.ContactInitiated
    BY <1>0, <1>2, <2>1, BackgroundQuiet
  <2> QED  BY <2>1, <2>2 DEF EnumerateInv
<1>3. CASE VersionAnswered /\ app'.pc = "enumerate"
  <2>1. /\ app.pc = "version" /\ app.step = "handle" /\ app.msg.type = "VersionResponse"
        /\ sint' = sint /\ host' = host /\ adding' = adding
    BY <1>0, <1>3 DEF VersionAnswered, Handling, Goto, WaitAgain, AppType
  <2>2. /\ root'.ContactInitiated /\ root'.OffersDelivered = root.OffersDelivered
        /\ root'.Channels = root.Channels /\ root'.HotMessageList = root.HotMessageList
    BY <1>0, <1>3, <2>1 DEF VersionAnswered, RootType
  <2>3. Fresh /\ Quiet /\ host.phase = "contacted"
    BY <2>1 DEF IInv, Phases, VersionInv, VersionPending, Answer
  <2> QED  BY <2>1, <2>2, <2>3 DEF EnumerateInv, Quiet, Fresh
<1>4. CASE UNCHANGED vars
  BY <1>4 DEF vars, IInv, Phases, EnumerateInv, Quiet, Fresh
<1>5. ASSUME app'.pc = "enumerate", Next
      PROVE  (Background /\ app.pc = "enumerate") \/ VersionAnswered
  BY <1>0, <1>5, ThreadMoves DEF Next, Background, HotEvents, Progress, Waiting
<1> QED  BY <1>1, <1>2, <1>3, <1>4, <1>5

\* ParavisorFeaturesConfidential needs that the flags of a fallback are withdrawn.
LEMMA ParavisorStep ==
    ASSUME IInv, [Next]_vars
    PROVE  ParavisorFeaturesConfidential'
<1>0. root \in RootType /\ app \in AppType /\ ParavisorFeaturesConfidential
  BY TypeParts DEF IInv, Phases
<1>1. ASSUME root'.ContactInitiated => root.ContactInitiated,
             root'.FeatureFlags = root.FeatureFlags, root'.Confidential = root.Confidential
      PROVE  ParavisorFeaturesConfidential'
  BY <1>0, <1>1 DEF ParavisorFeaturesConfidential
<1>2. CASE DriverStart
  BY <1>2 DEF DriverStart, NewContext, ParavisorFeaturesConfidential
<1>3. CASE InitiateContact
  <2>1. ~root.ContactInitiated
    BY <1>3 DEF InitiateContact, IInv, Phases, ContactInv
  <2>2. root'.ContactInitiated = root.ContactInitiated
    BY <1>0, <1>3 DEF InitiateContact, Answered, FallenBack, RootType
  <2> QED  BY <2>1, <2>2 DEF ParavisorFeaturesConfidential
<1>4. CASE VersionAnswered
  <2>1. "paravisor" \in root.FeatureFlags => root.Confidential
    BY <1>4 DEF VersionAnswered, Handling, IInv, Phases, VersionInv, VersionPending
  <2>2. root'.FeatureFlags \subseteq root.FeatureFlags /\ root'.Confidential = root.Confidential
    <3>1. \/ root' = root
          \/ root' = [root EXCEPT !.ContactInitiated = TRUE, !.FeatureFlags = @]
          \/ root' = [root EXCEPT !.ContactInitiated = TRUE,
                                  !.FeatureFlags = @ \cap app.msg.features]
      BY <1>4 DEF VersionAnswered
    <3> QED  BY <1>0, <3>1 DEF RootType
  <2> QED  BY <2>1, <2>2 DEF ParavisorFeaturesConfidential
<1>5. CASE HotEvents \/ OfferAnswered \/ UnloadAnswered \/ Teardown
  <2>1. /\ root'.ContactInitiated => root.ContactInitiated
        /\ root'.FeatureFlags = root.FeatureFlags /\ root'.Confidential = root.Confidential
    BY <1>0, <1>5 DEF HotEvents, HotAddAllocationBegin, HotAddAllocationEnd, HotAddTake,
         HotAddCreate, OfferAnswered, UnloadAnswered, Teardown, RootType
  <2> QED  BY <1>1, <2>1
<1>6. ASSUME NEW id \in Ids, StopChild(id) PROVE ParavisorFeaturesConfidential'
  <2>1. /\ root'.ContactInitiated = root.ContactInitiated
        /\ root'.FeatureFlags = root.FeatureFlags /\ root'.Confidential = root.Confidential
    BY <1>0, <1>6 DEF StopChild, RootType
  <2> QED  BY <1>1, <2>1
<1>7. CASE root' = root
  BY <1>1, <1>7
<1>8. ASSUME NEW id \in Ids, HostRescind(id) \/ (id \in Hot /\ HostHotOffer(id)) PROVE root' = root
  BY <1>8 DEF HostRescind, HostHotOffer
<1>9. ASSUME \/ Deliver \/ EventFlagInterrupt \/ VmbusRootSintNotify \/ WaitForEvent
             \/ GetSintMessage \/ CopyMessage \/ CompleteMessage \/ EnumerateChildren
             \/ DestroyContext \/ DriverStop \/ ExitBootServices \/ UNCHANGED vars
      PROVE  root' = root
  BY <1>9 DEF Deliver, EventFlagInterrupt, VmbusRootSintNotify, WaitForEvent,
       GetSintMessage, CopyMessage, CompleteMessage, EnumerateChildren, DestroyContext,
       DriverStop, ExitBootServices, vars
<1> QED  BY <1>2, <1>3, <1>4, <1>5, <1>6, <1>7, <1>8, <1>9 DEF Next, Progress, Ids

-----------------------------------------------------------------------------
(* The enumeration.                                                        *)

\* What holds while the thread enumerates.
LEMMA Enumerating ==
    ASSUME IInv, app.pc = "offers"
    PROVE  /\ root.ContactInitiated /\ ~root.OffersDelivered
           /\ root.HotMessageList = <<>> /\ adding = <<>>
           /\ OffersUnderWay /\ CopyCurrent /\ HeldUnique /\ DeliveredLast /\ OffersAccounted
           /\ ~allocating /\ "HotAllocationEvent" \notin signaled
BY DEF IInv, Phases, OffersInv, OffersPending, SlotOwned

\* A message of the enumeration reaches the slot.
LEMMA DeliverOffers ==
    ASSUME IInv, app.pc = "offers", Deliver
    PROVE  OffersInv'
<1>0. /\ sint \in SintType /\ host \in HostType /\ app' = app /\ root' = root /\ adding' = adding
  BY TypeParts DEF IInv, Deliver
<1>1. /\ host.inbox # <<>> /\ host.inbox \in Seq(Message) /\ sint.slot.type = "None"
      /\ sint'.slot = Head(host.inbox) /\ sint'.payload = Head(host.inbox)
      /\ host'.inbox = Tail(host.inbox) /\ host'.phase = host.phase
      /\ host'.offered = host.offered
  BY <1>0 DEF Deliver, SintType, HostType
<1>2. /\ OffersUnderWay /\ CopyCurrent /\ HeldUnique /\ DeliveredLast /\ OffersAccounted
      /\ root.ContactInitiated /\ ~root.OffersDelivered
      /\ root.HotMessageList = <<>> /\ adding = <<>>
  BY Enumerating
<1>3. /\ Len(host.inbox) \in Nat /\ Len(host.inbox) >= 1 /\ DOMAIN host.inbox = 1 .. Len(host.inbox)
      /\ sint'.slot = host.inbox[1] /\ sint'.payload = host.inbox[1]
      /\ DOMAIN host'.inbox = 1 .. Len(host.inbox) - 1
      /\ \A i \in DOMAIN host'.inbox : /\ i + 1 \in DOMAIN host.inbox
                                       /\ host'.inbox[i] = host.inbox[i + 1]
      /\ OfferIds(host.inbox) = OfferId(Head(host.inbox)) \cup OfferIds(host'.inbox)
  BY <1>1, TailOffer
<1>4. 1 \in DOMAIN host.inbox
  BY <1>3
<1>5. Pending' = Pending /\ Used' = Used /\ Held' = Held
  BY <1>0, <1>1, <1>3 DEF Pending, SlotOffer, OfferId, Used, Listed, Adding, Held
<1>6. OffersUnderWay'
  BY <1>1, <1>2, <1>3, <1>4 DEF OffersUnderWay
<1>7. CopyCurrent'
  BY <1>0, <1>1, <1>2, <1>3, <1>4 DEF OffersUnderWay, CopyCurrent
<1>8. HeldUnique' /\ OffersAccounted'
  BY <1>0, <1>1, <1>2, <1>5 DEF HeldUnique, OffersAccounted
<1>9. DeliveredLast'
  <2>1. ASSUME NEW i \in DOMAIN host'.inbox, NEW j \in DOMAIN host'.inbox,
               host'.inbox[i].type = "AllOffersDelivered", i < j
        PROVE  Late(host'.inbox[j])
    <3>1. i + 1 \in DOMAIN host.inbox /\ j + 1 \in DOMAIN host.inbox
          /\ host.inbox[i + 1].type = "AllOffersDelivered" /\ host'.inbox[j] = host.inbox[j + 1]
      BY <1>3, <2>1
    <3>2. i + 1 < j + 1
      BY <1>3, <2>1
    <3> QED  BY <1>2, <3>1, <3>2 DEF DeliveredLast
  <2>2. ASSUME host.inbox[1].type = "AllOffersDelivered"
        PROVE  \A j \in DOMAIN host'.inbox : Late(host'.inbox[j])
    <3> TAKE j \in DOMAIN host'.inbox
    <3>1. 1 < j + 1 /\ j + 1 \in DOMAIN host.inbox /\ host'.inbox[j] = host.inbox[j + 1]
      BY <1>3
    <3> QED  BY <1>2, <1>4, <2>2, <3>1 DEF DeliveredLast
  <2>3. ASSUME AllLate PROVE Late(host.inbox[1]) /\ \A j \in DOMAIN host'.inbox : Late(host'.inbox[j])
    BY <1>3, <1>4, <2>3 DEF AllLate
  <2> QED  BY <1>0, <1>2, <1>3, <2>1, <2>2, <2>3 DEF DeliveredLast, AllLate, Late
<1> QED  BY <1>0, <1>2, <1>6, <1>7, <1>8, <1>9 DEF OffersInv, OffersPending

\* The host adds or takes back a channel during the enumeration.
LEMMA PostOffers ==
    ASSUME IInv, app.pc = "offers", NEW m \in Message, Late(m),
           UNCHANGED <<root, app, adding, sint>>,
           host'.inbox = Append(host.inbox, m), host'.phase = host.phase,
           host'.offered = host.offered \cup OfferId(m),
           OfferId(m) \cap host.offered = {}
    PROVE  OffersInv'
<1>0. host.inbox \in Seq(Message)
  BY TypeParts DEF IInv, HostType
<1>2. /\ OffersUnderWay /\ CopyCurrent /\ HeldUnique /\ DeliveredLast /\ OffersAccounted
      /\ root.ContactInitiated /\ ~root.OffersDelivered
      /\ root.HotMessageList = <<>> /\ adding = <<>>
  BY Enumerating
<1>3. /\ OfferIds(host'.inbox) = OfferIds(host.inbox) \cup OfferId(m)
      /\ DOMAIN host.inbox = 1 .. Len(host.inbox) /\ DOMAIN host'.inbox = 1 .. Len(host.inbox) + 1
      /\ \A i \in DOMAIN host'.inbox : \/ i \in DOMAIN host.inbox /\ host'.inbox[i] = host.inbox[i]
                                       \/ i = Len(host.inbox) + 1 /\ host'.inbox[i] = m
  BY <1>0, AppendOffer
<1>4. Pending' = Pending \cup OfferId(m) /\ Used' = Used /\ Held' = Held
  BY <1>3 DEF Pending, SlotOffer, Used, Listed, Adding, Held
<1>5. OffersUnderWay' /\ CopyCurrent'
  BY <1>2, <1>3 DEF OffersUnderWay, CopyCurrent, Late
<1>6. Used \subseteq host.offered
  BY DEF IInv, OffersUnique
<1>7. HeldUnique' /\ OffersAccounted'
  BY <1>2, <1>4, <1>6 DEF HeldUnique, OffersAccounted
<1>8. AllLate => AllLate'
  BY <1>3 DEF AllLate, Late
<1>9. DeliveredLast'
  <2>1. ASSUME NEW i \in DOMAIN host'.inbox, NEW j \in DOMAIN host'.inbox,
               host'.inbox[i].type = "AllOffersDelivered", i < j
        PROVE  Late(host'.inbox[j])
    <3>1. CASE j \in DOMAIN host.inbox /\ host'.inbox[j] = host.inbox[j]
      <4>1. Len(host.inbox) \in Nat /\ i \in Nat /\ j \in Nat /\ i \in 1 .. Len(host.inbox) + 1
            /\ j <= Len(host.inbox)
        BY <1>0, <1>3, <3>1
      <4>2. i # Len(host.inbox) + 1
        BY <2>1, <4>1
      <4>3. i \in DOMAIN host.inbox /\ host'.inbox[i] = host.inbox[i]
        BY <1>3, <4>2
      <4> QED  BY <1>2, <2>1, <3>1, <4>3 DEF DeliveredLast
    <3>2. CASE host'.inbox[j] = m
      BY <3>2
    <3> QED  BY <1>3, <3>1, <3>2
  <2> QED  BY <1>2, <1>8, <2>1 DEF DeliveredLast, AllLate, Late
<1> QED  BY <1>2, <1>5, <1>7, <1>9 DEF OffersInv, OffersPending

\* Steps that leave the queue of the host and the context alone.
LEMMA OffersFrame ==
    ASSUME IInv, app.pc = "offers", app'.pc = "offers",
           UNCHANGED <<root, adding, host>>,
           sint' = sint,
           app'.step # "handle",
           app'.step = "copy" => sint.slot.type # "None",
           app'.step = "complete" => app.step = "copy" /\ app'.msg = sint.payload,
           app.step = "handle" => host.offered \cap Allowed \subseteq root.Channels \cup Pending
    PROVE  OffersInv'
<1>2. /\ OffersUnderWay /\ CopyCurrent /\ HeldUnique /\ DeliveredLast /\ OffersAccounted
      /\ root.ContactInitiated /\ ~root.OffersDelivered
      /\ root.HotMessageList = <<>> /\ adding = <<>>
      /\ sint.slot.type # "None" => sint.slot = sint.payload
  BY Enumerating DEF IInv, SlotOwned
<1>3. Pending' = Pending /\ Used' = Used /\ Held' = {} /\ (AllLate <=> AllLate')
  BY DEF Pending, SlotOffer, Used, Listed, Adding, Held, AllLate, Late
<1>4. OffersUnderWay' /\ HeldUnique' /\ DeliveredLast'
  BY <1>2, <1>3 DEF OffersUnderWay, HeldUnique, DeliveredLast, Late
<1>5. CopyCurrent'
  BY <1>2 DEF CopyCurrent
<1>6. OffersAccounted'
  BY <1>2, <1>3 DEF OffersAccounted, Held
<1> QED  BY <1>2, <1>4, <1>5, <1>6 DEF OffersInv, OffersPending

\* The thread completes the message it has copied.
LEMMA CompleteOffers ==
    ASSUME IInv, app.pc = "offers", CompleteMessage
    PROVE  OffersInv'
<1>0. sint \in SintType /\ app \in AppType
  BY TypeParts DEF IInv
<1>1. /\ root' = root /\ adding' = adding /\ host' = host /\ sint'.slot = NoMessage
      /\ app.step = "complete" /\ app'.step = "handle" /\ app'.msg = app.msg
      /\ app'.pc = app.pc /\ NoMessage.type = "None"
  BY <1>0, MessageTypes DEF CompleteMessage, CompleteSintMessage, SintType, AppType
<1>2. /\ OffersUnderWay /\ CopyCurrent /\ HeldUnique /\ DeliveredLast /\ OffersAccounted
      /\ root.ContactInitiated /\ ~root.OffersDelivered
      /\ root.HotMessageList = <<>> /\ adding = <<>>
  BY Enumerating
<1>3. /\ app.msg.type # "None" /\ (app.msg.type # "Rescind" => sint.slot = app.msg)
      /\ Held = {}
  BY <1>1, <1>2 DEF CopyCurrent, Held
<1>4. /\ app.msg.type \in {"Offer", "AllOffersDelivered", "Rescind"}
      /\ app.msg.type = "Offer" => SlotOffer = {app.msg.id} /\ Held' = {app.msg.id}
      /\ app.msg.type # "Offer" => Held' = {}
      /\ app.msg.type = "AllOffersDelivered" => SlotOffer = {}
      /\ Used' = Used /\ Pending' = OfferIds(host.inbox) /\ SlotOffer' = {}
  BY <1>1, <1>2, <1>3
  DEF OffersUnderWay, SlotOffer, Held, Used, Listed, Adding, Pending
<1>5. /\ SlotOffer \cap OfferIds(host.inbox) = {} /\ SlotOffer \cap Used = {}
      /\ SlotOffer \subseteq host.offered
  BY DEF IInv, OffersUnique, Pending
<1>6. OffersUnderWay' /\ CopyCurrent'
  BY <1>1, <1>2, <1>3 DEF OffersUnderWay, CopyCurrent
<1>7. HeldUnique'
  BY <1>1, <1>4, <1>5 DEF HeldUnique
<1>8. OffersAccounted'
  BY <1>1, <1>2, <1>3, <1>4 DEF OffersAccounted, Pending
<1>9. DeliveredLast'
  BY <1>1, <1>2, <1>3 DEF DeliveredLast, AllLate, Late
<1> QED  BY <1>1, <1>2, <1>6, <1>7, <1>8, <1>9 DEF OffersInv, OffersPending

\* The answer to RequestOffers.
LEMMA EnumerateOffers ==
    ASSUME IInv, EnumerateChildren
    PROVE  OffersInv'
<1>0. host \in HostType /\ app \in AppType /\ app.pc = "enumerate"
  BY TypeParts DEF IInv, EnumerateChildren
<1>1. Quiet /\ Fresh /\ root.ContactInitiated
  BY <1>0 DEF IInv, Phases, EnumerateInv
<1>2. /\ root' = root /\ adding' = adding /\ sint' = sint
      /\ app'.pc = "offers" /\ app'.step = "event"
  BY <1>0 DEF EnumerateChildren, Wait, AppType
<1>3. PICK order \in Orders : host' = OffersRequested(order)
  BY DEF EnumerateChildren
<1>4. /\ host'.phase = "offered" /\ host'.offered = Cold
      /\ host'.inbox = <<>> \o [i \in DOMAIN order |-> Msg("Offer", order[i])]
                            \o <<Msg("AllOffersDelivered", 0)>>
  BY <1>0, <1>1, <1>3 DEF OffersRequested, HostType, Quiet
<1>5. /\ OfferIds(host'.inbox) = Cold
      /\ \A i \in DOMAIN host'.inbox : host'.inbox[i].type \in {"Offer", "AllOffersDelivered"}
      /\ \A i, j \in DOMAIN host'.inbox :
            host'.inbox[i].type = "AllOffersDelivered" => ~(i < j)
  BY <1>4, RequestedQueue
<1>6. Held' = {} /\ Pending' = Cold /\ sint'.slot.type = "None"
  BY <1>1, <1>2, <1>5 DEF Held, Pending, SlotOffer, Quiet
<1>7. OffersUnderWay' /\ CopyCurrent' /\ HeldUnique'
  BY <1>2, <1>4, <1>5, <1>6 DEF OffersUnderWay, CopyCurrent, HeldUnique
<1>8. DeliveredLast' /\ OffersAccounted'
  BY <1>2, <1>4, <1>5, <1>6 DEF DeliveredLast, OffersAccounted
<1> QED  BY <1>1, <1>2, <1>7, <1>8 DEF OffersInv, OffersPending, Fresh

\* The interrupt completes a rescind that the thread may be about to copy.
LEMMA NotifyOffers ==
    ASSUME IInv, app.pc = "offers", UNCHANGED <<root, adding, host, app>>,
           sint'.payload = sint.payload,
           \/ sint'.slot = sint.slot
           \/ sint.slot.type = "Rescind" /\ sint'.slot.type = "None"
    PROVE  OffersInv'
<1>2. /\ OffersUnderWay /\ CopyCurrent /\ HeldUnique /\ DeliveredLast /\ OffersAccounted
      /\ root.ContactInitiated /\ ~root.OffersDelivered
      /\ root.HotMessageList = <<>> /\ adding = <<>>
  BY Enumerating
<1>3. Pending' = Pending /\ Used' = Used /\ Held' = Held /\ (AllLate <=> AllLate')
  BY DEF Pending, SlotOffer, Used, Listed, Adding, Held, AllLate, Late
<1>4. OffersUnderWay' /\ CopyCurrent' /\ HeldUnique'
  BY <1>2, <1>3 DEF OffersUnderWay, CopyCurrent, HeldUnique
<1>5. DeliveredLast' /\ OffersAccounted'
  BY <1>2, <1>3 DEF DeliveredLast, OffersAccounted, Late
<1> QED  BY <1>2, <1>4, <1>5 DEF OffersInv, OffersPending

\* The thread handles an offer and waits for the next message.
LEMMA OfferAnsweredOffers ==
    ASSUME IInv, OfferAnswered, app'.pc = "offers"
    PROVE  OffersInv'
<1>0. /\ root \in RootType /\ app \in AppType /\ app.pc = "offers" /\ app.step = "handle"
      /\ host' = host /\ sint' = sint /\ adding' = adding /\ ~failFast'
  BY TypeParts, OfferUnique DEF IInv, OfferAnswered, Handling
<1>1. /\ Goto("up").pc = "up" /\ Goto("destroy").pc = "destroy"
      /\ WaitAgain.step \in {"get", "event"} /\ WaitAgain.msg = NoMessage
  BY <1>0, Moves
<1>2. /\ app.msg.type = "Offer" /\ app' = WaitAgain
      /\ \/ app.msg.id \notin Allowed /\ root' = root
         \/ root' = [root EXCEPT !.Channels = @ \cup {app.msg.id}]
  BY <1>0, <1>1 DEF OfferAnswered
<1>3. /\ OffersUnderWay /\ CopyCurrent /\ HeldUnique /\ DeliveredLast /\ OffersAccounted
      /\ root.ContactInitiated /\ ~root.OffersDelivered
      /\ root.HotMessageList = <<>> /\ adding = <<>>
  BY <1>0, Enumerating
<1>4. Held = {app.msg.id} /\ Held' = {} /\ Pending' = Pending
  BY <1>0, <1>1, <1>2 DEF Held, Pending, SlotOffer
<1>5. /\ root'.ContactInitiated = root.ContactInitiated
      /\ root'.OffersDelivered = root.OffersDelivered
      /\ root'.HotMessageList = root.HotMessageList
      /\ \/ app.msg.id \notin Allowed /\ root'.Channels = root.Channels
         \/ root'.Channels = root.Channels \cup {app.msg.id}
  BY <1>0, <1>2 DEF RootType
<1>6. OffersUnderWay' /\ CopyCurrent'
  BY <1>0, <1>1, <1>2, <1>3 DEF OffersUnderWay, CopyCurrent
<1>7. HeldUnique' /\ OffersAccounted'
  BY <1>0, <1>2, <1>3, <1>4, <1>5 DEF HeldUnique, OffersAccounted
<1>8. DeliveredLast'
  BY <1>0, <1>1, <1>2, <1>3 DEF DeliveredLast, AllLate, Late
<1> QED  BY <1>0, <1>3, <1>5, <1>6, <1>7, <1>8 DEF OffersInv, OffersPending

\* The enumeration mislays no offer.
LEMMA OffersStep ==
    ASSUME IInv, [Next]_vars
    PROVE  OffersInv'
<1>0. /\ root \in RootType /\ sint \in SintType /\ host \in HostType /\ app \in AppType
  BY TypeParts DEF IInv
<1>1. CASE app'.pc # "offers"
  BY <1>1 DEF OffersInv
<1>2. ASSUME app.pc = "offers"
      PROVE  /\ ~root.OffersDelivered /\ root.HotMessageList = <<>> /\ adding = <<>>
             /\ ~allocating /\ "HotAllocationEvent" \notin signaled
             /\ app.step # "handle" => Held = {}
  BY <1>2, Enumerating DEF Held
<1>3. ASSUME app.pc = "offers", Background PROVE OffersInv'
  <2>1. CASE Deliver
    BY <1>3, <2>1, DeliverOffers
  <2>2. ASSUME NEW id \in Hot, HostHotOffer(id) PROVE OffersInv'
    <3>1. /\ Msg("Offer", id) \in Message /\ Late(Msg("Offer", id))
          /\ OfferId(Msg("Offer", id)) = {id}
      BY <1>2, <1>3, <2>2, MessageTypes DEF Ids, Late, OfferId, HostHotOffer
    <3>2. /\ UNCHANGED <<root, app, adding, sint>>
          /\ host'.inbox = Append(host.inbox, Msg("Offer", id)) /\ host'.phase = host.phase
          /\ host'.offered = host.offered \cup {id} /\ id \notin host.offered
      BY <1>0, <2>2 DEF HostHotOffer, HostType
    <3> QED  BY <1>3, <3>1, <3>2, PostOffers
  <2>3. ASSUME NEW id \in Ids, HostRescind(id) PROVE OffersInv'
    <3>1. /\ Msg("Rescind", id) \in Message /\ Late(Msg("Rescind", id))
          /\ OfferId(Msg("Rescind", id)) = {}
      BY MessageTypes DEF Late, OfferId
    <3>2. /\ UNCHANGED <<root, app, adding, sint>>
          /\ host'.inbox = Append(host.inbox, Msg("Rescind", id)) /\ host'.phase = host.phase
          /\ host'.offered = host.offered
      BY <1>0, <2>3 DEF HostRescind, HostType
    <3> QED  BY <1>3, <3>1, <3>2, PostOffers
  <2>4. CASE EventFlagInterrupt
    <3>1. /\ UNCHANGED <<root, adding, host, app>> /\ sint'.payload = sint.payload
          /\ sint'.slot = sint.slot
      BY <1>0, <2>4 DEF EventFlagInterrupt, SintType
    <3> QED  BY <1>3, <3>1, NotifyOffers
  <2>5. CASE VmbusRootSintNotify
    <3>1. /\ UNCHANGED <<root, adding, host, app>> /\ sint'.payload = sint.payload
          /\ \/ sint'.slot = sint.slot
             \/ sint.slot.type = "Rescind" /\ sint'.slot = NoMessage
      BY <1>0, <2>5
      DEF VmbusRootSintNotify, VmbusRootDispatchMessage, CompleteSintMessage, SintType
    <3> QED  BY <1>3, <3>1, NotifyOffers, MessageTypes
  <2>6. CASE HotAddAllocationBegin \/ HotAddAllocationEnd \/ HotAddCreate
    BY <1>2, <1>3, <2>6 DEF HotAddAllocationBegin, HotAddAllocationEnd, HotAddCreate
  <2>7. CASE HotAddTake
    <3>1. root' = root
      BY <1>0, <1>2, <1>3, <2>7 DEF HotAddTake, RootType
    <3>2. adding' = adding /\ host' = host /\ sint' = sint /\ app' = app
      BY <1>2, <1>3, <2>7 DEF HotAddTake
    <3> QED  BY <1>3, <3>1, <3>2, NotifyOffers
  <2> QED  BY <1>3, <2>1, <2>2, <2>3, <2>4, <2>5, <2>6, <2>7 DEF Background, HotEvents
<1>4. CASE (WaitForEvent \/ GetSintMessage \/ CopyMessage) /\ app.pc = "offers"
  <2>1. /\ UNCHANGED <<root, adding, host>> /\ sint' = sint /\ app'.pc = "offers"
        /\ app.step # "handle" /\ app'.step # "handle"
        /\ app'.step = "copy" => sint.slot.type # "None"
        /\ app'.step = "complete" => app.step = "copy" /\ app'.msg = sint.payload
    BY <1>0, <1>4 DEF WaitForEvent, GetSintMessage, CopyMessage, AppType
  <2> QED  BY <1>4, <2>1, OffersFrame
<1>5. CASE CompleteMessage /\ app.pc = "offers"
  BY <1>5, CompleteOffers
<1>6. CASE EnumerateChildren
  BY <1>6, EnumerateOffers
<1>7. CASE OfferAnswered /\ app'.pc = "offers"
  BY <1>7, OfferAnsweredOffers
<1>8. CASE UNCHANGED vars /\ app.pc = "offers"
  <2>1. UNCHANGED <<root, adding, host, app>> /\ sint'.payload = sint.payload
        /\ sint'.slot = sint.slot
    BY <1>8 DEF vars
  <2> QED  BY <1>8, <2>1, NotifyOffers
<1>9. ASSUME app'.pc = "offers", Next
      PROVE  \/ app.pc = "offers" /\ \/ Background \/ WaitForEvent \/ GetSintMessage
                                     \/ CopyMessage \/ CompleteMessage
             \/ EnumerateChildren \/ OfferAnswered
  BY <1>0, <1>9, ThreadMoves DEF Next, Background, HotEvents, Progress, Waiting
<1>10. UNCHANGED vars => app'.pc = app.pc
  BY DEF vars
<1> QED  BY <1>1, <1>3, <1>4, <1>5, <1>6, <1>7, <1>8, <1>9, <1>10

-----------------------------------------------------------------------------
(* The driver is up.                                                       *)

\* The host and the interrupt while the driver is up.
LEMMA PostRunning ==
    ASSUME IInv, Running, NEW m \in Message, m.type \in {"Offer", "Rescind"},
           UNCHANGED <<root, adding, sint, allocating, signaled, lost, stopped>>,
           host'.inbox = Append(host.inbox, m),
           host'.offered = host.offered \cup OfferId(m)
    PROVE  Running'
<1>0. host.inbox \in Seq(Message)
  BY TypeParts DEF IInv, HostType
<1>1. /\ OfferIds(host'.inbox) = OfferIds(host.inbox) \cup OfferId(m)
      /\ \A i \in DOMAIN host'.inbox : \/ i \in DOMAIN host.inbox /\ host'.inbox[i] = host.inbox[i]
                                       \/ host'.inbox[i] = m
  BY <1>0, AppendOffer
<1>2. Pending' = Pending \cup OfferId(m) /\ Used' = Used
  BY <1>1 DEF Pending, SlotOffer, Used, Listed, Adding
<1> QED  BY <1>1, <1>2 DEF Running

\* A message of a running connection reaches the slot.
LEMMA DeliverRunning ==
    ASSUME IInv, Running, Deliver
    PROVE  Running'
<1>0. sint \in SintType /\ host \in HostType
  BY TypeParts DEF IInv
<1>1. /\ host.inbox # <<>> /\ host.inbox \in Seq(Message) /\ sint.slot.type = "None"
      /\ sint'.slot = Head(host.inbox) /\ host'.inbox = Tail(host.inbox) /\ sint'.irq
      /\ host'.offered = host.offered /\ root' = root /\ adding' = adding
      /\ lost' = lost /\ stopped' = stopped
  BY <1>0 DEF Deliver, SintType, HostType
<1>2. /\ 1 \in DOMAIN host.inbox /\ Head(host.inbox) = host.inbox[1]
      /\ \A i \in DOMAIN host'.inbox : /\ i + 1 \in DOMAIN host.inbox
                                       /\ host'.inbox[i] = host.inbox[i + 1]
      /\ OfferIds(host.inbox) = OfferId(Head(host.inbox)) \cup OfferIds(host'.inbox)
  <2>1. /\ Len(host.inbox) \in Nat /\ Len(host.inbox) >= 1
        /\ DOMAIN host.inbox = 1 .. Len(host.inbox) /\ Head(host.inbox) = host.inbox[1]
    BY <1>1, TailOffer
  <2>2. \A i \in DOMAIN Tail(host.inbox) : /\ i + 1 \in DOMAIN host.inbox
                                            /\ Tail(host.inbox)[i] = host.inbox[i + 1]
    BY <1>1, TailOffer
  <2>3. OfferIds(host.inbox) = OfferId(Head(host.inbox)) \cup OfferIds(Tail(host.inbox))
    BY <1>1, TailOffer
  <2>4. 1 \in DOMAIN host.inbox
    BY <2>1
  <2> QED  BY <1>1, <2>1, <2>2, <2>3, <2>4, Zenon
<1>3. Pending' = Pending /\ Used' = Used
  BY <1>1, <1>2 DEF Pending, SlotOffer, OfferId, Used, Listed, Adding
<1> QED  BY <1>1, <1>2, <1>3 DEF Running

\* The hot events mislay no offer.
LEMMA HotRunning ==
    ASSUME IInv, Running, HotEvents
    PROVE  Running'
<1>0. /\ sint \in SintType /\ host \in HostType /\ root \in RootType /\ adding \in Seq(Hot)
      /\ ~failFast
  BY TypeParts DEF IInv
<1>1. CASE HotAddAllocationBegin
  <2>1. sint.slot.type = "Offer"
    BY <1>1 DEF HotAddAllocationBegin, IInv, SlotOwned
  <2>2. /\ UNCHANGED <<root, adding, sint, host, lost, stopped>> /\ allocating'
    BY <1>1, <2>1 DEF HotAddAllocationBegin
  <2>3. Pending' = Pending /\ Used' = Used
    BY <2>2 DEF Pending, SlotOffer, Used, Listed, Adding
  <2> QED  BY <2>2, <2>3 DEF Running
<1>2. CASE HotAddAllocationEnd
  <2> DEFINE id == sint.payload.id
  <2>1. /\ sint.payload = sint.slot /\ sint.slot.type = "Offer" /\ id \in Hot
        /\ SlotOffer = {id} /\ id \notin root.Channels
    BY <1>2, HotSlot DEF HotAddAllocationEnd, Used
  <2>2. CompleteSintMessage.slot.type = "None"
    BY <1>0, MessageTypes DEF CompleteSintMessage, SintType
  <2>3. /\ sint' = CompleteSintMessage /\ UNCHANGED <<host, adding, stopped>>
        /\ \/ root' = root /\ lost' = lost \cup {id}
           \/ root' = root /\ lost' = lost /\ id \notin Allowed
           \/ root' = [root EXCEPT !.HotMessageList = Append(@, id)] /\ lost' = lost
    BY <1>2, <2>1 DEF HotAddAllocationEnd
  <2>4. /\ root'.OffersDelivered = root.OffersDelivered /\ root'.Channels = root.Channels
        /\ \/ root'.HotMessageList = root.HotMessageList /\ lost' = lost \cup {id}
           \/ root'.HotMessageList = root.HotMessageList /\ lost' = lost /\ id \notin Allowed
           \/ root'.HotMessageList = Append(root.HotMessageList, id) /\ lost' = lost
    BY <1>0, <2>3 DEF RootType
  <2>5. Entries(Append(root.HotMessageList, id)) = Listed \cup {id}
    BY <1>0, <2>1, AppendList DEF RootType, Listed
  <2>6. Pending' = OfferIds(host.inbox) /\ Pending = OfferIds(host.inbox) \cup {id}
    BY <2>1, <2>2, <2>3 DEF Pending, SlotOffer
  <2>7. \/ Used' = Used /\ lost' = lost \cup {id}
        \/ Used' = Used /\ lost' = lost /\ id \notin Allowed
        \/ Used' = Used \cup {id} /\ lost' = lost
    BY <2>3, <2>4, <2>5 DEF Used, Listed, Adding
  <2> QED  BY <2>2, <2>3, <2>4, <2>6, <2>7 DEF Running
<1>3. CASE HotAddTake
  <2>1. /\ adding = <<>> /\ adding' = root.HotMessageList /\ root'.HotMessageList = <<>>
        /\ root'.Channels = root.Channels /\ root'.OffersDelivered = root.OffersDelivered
        /\ UNCHANGED <<host, sint, allocating, lost, stopped>>
        /\ "HotAllocationEvent" \in signaled => "HotAllocationEvent" \in signaled'
    BY <1>0, <1>3 DEF HotAddTake, RootType
  <2>2. Used' = Used /\ Pending' = Pending
    BY <2>1, EmptyLists DEF Adding, Listed, Used, Pending, SlotOffer
  <2> QED  BY <2>1, <2>2 DEF Running
<1>4. CASE HotAddCreate
  <2> DEFINE id == Head(adding)
  <2>1. Entries(adding) = Entries(Tail(adding)) \cup {id}
    BY <1>0, <1>4, TailList DEF HotAddCreate
  <2>2. /\ ~failFast' /\ UNCHANGED <<host, sint, allocating, signaled, stopped>>
        /\ adding' = Tail(adding)
    BY <1>4, CreateUnique DEF HotAddCreate
  <2>3. \/ root' = root /\ lost' = lost \cup {id}
        \/ root' = [root EXCEPT !.Channels = @ \cup {id}] /\ lost' = lost
    BY <1>4, <2>2 DEF HotAddCreate
  <2>4. /\ root'.OffersDelivered = root.OffersDelivered
        /\ root'.HotMessageList = root.HotMessageList
        /\ \/ root'.Channels = root.Channels /\ lost' = lost \cup {id}
           \/ root'.Channels = root.Channels \cup {id} /\ lost' = lost
    BY <1>0, <2>3 DEF RootType
  <2>5. Pending' = Pending /\ Used \cup lost \subseteq Used' \cup lost'
    BY <2>1, <2>2, <2>4 DEF Pending, SlotOffer, Used, Listed, Adding
  <2> QED  BY <2>2, <2>4, <2>5 DEF Running
<1> QED  BY <1>1, <1>2, <1>3, <1>4 DEF HotEvents

\* The interrupt signals the allocation event for an offer it leaves.
LEMMA NotifyRunning ==
    ASSUME IInv, Running, EventFlagInterrupt \/ VmbusRootSintNotify
    PROVE  Running'
<1>0. sint \in SintType
  BY TypeParts DEF IInv
<1>1. /\ UNCHANGED <<root, adding, host, allocating, lost, stopped>>
      /\ sint'.connected = sint.connected
  BY <1>0 DEF EventFlagInterrupt, VmbusRootSintNotify, CompleteSintMessage, SintType
<1>2. \/ sint'.slot = sint.slot
      \/ sint.slot.type = "Rescind" /\ sint'.slot = NoMessage
  BY <1>0 DEF EventFlagInterrupt, VmbusRootSintNotify, VmbusRootDispatchMessage,
              CompleteSintMessage, SintType
<1>3. Pending' = Pending /\ Used' = Used
  BY <1>1, <1>2, MessageTypes DEF Pending, SlotOffer, Used, Listed, Adding
<1>4. ASSUME sint'.slot.type = "Offer"
      PROVE  sint'.irq \/ allocating' \/ "HotAllocationEvent" \in signaled'
  <2>1. CASE EventFlagInterrupt
    BY <1>0, <2>1 DEF EventFlagInterrupt, SintType
  <2>2. CASE VmbusRootSintNotify
    <3>1. sint.slot.type = "Offer" /\ root.OffersDelivered
      BY <1>2, <1>4, MessageTypes DEF Running
    <3>2. VmbusRootDispatchMessage(sint.slot).signals = {"HotAllocationEvent"}
      BY <3>1 DEF VmbusRootDispatchMessage
    <3> QED  BY <2>2, <3>1, <3>2 DEF VmbusRootSintNotify
  <2> QED  BY <2>1, <2>2
<1> QED  BY <1>1, <1>2, <1>3, <1>4, MessageTypes DEF Running

\* While the driver is up no offer is mislaid.
LEMMA UpStep ==
    ASSUME IInv, [Next]_vars
    PROVE  UpInv'
<1>0. /\ root \in RootType /\ sint \in SintType /\ host \in HostType /\ app \in AppType
  BY TypeParts DEF IInv
<1>1. CASE app'.pc # "up"
  BY <1>1 DEF UpInv
<1>2. ASSUME app.pc = "up" PROVE root.ContactInitiated /\ Running
  BY <1>2 DEF IInv, Phases, UpInv
<1>3. ASSUME app.pc = "up", Background PROVE UpInv'
  <2>1. root'.ContactInitiated = root.ContactInitiated
    BY <1>0, <1>3 DEF Background, Deliver, EventFlagInterrupt, VmbusRootSintNotify, HotEvents,
         HotAddAllocationBegin, HotAddAllocationEnd, HotAddTake, HotAddCreate, HostHotOffer,
         HostRescind, RootType
  <2>2. ASSUME NEW id \in Hot, HostHotOffer(id) PROVE Running'
    <3>1. /\ Msg("Offer", id) \in Message /\ Msg("Offer", id).type = "Offer"
          /\ OfferId(Msg("Offer", id)) = {id}
      BY MessageTypes DEF Ids, OfferId
    <3>2. /\ UNCHANGED <<root, adding, sint, allocating, signaled, lost, stopped>>
          /\ host'.inbox = Append(host.inbox, Msg("Offer", id))
          /\ host'.offered = host.offered \cup {id}
      BY <1>0, <2>2 DEF HostHotOffer, HostType
    <3> QED  BY <1>2, <1>3, <3>1, <3>2, PostRunning
  <2>3. ASSUME NEW id \in Ids, HostRescind(id) PROVE Running'
    <3>1. /\ Msg("Rescind", id) \in Message /\ Msg("Rescind", id).type = "Rescind"
          /\ OfferId(Msg("Rescind", id)) = {}
      BY MessageTypes DEF OfferId
    <3>2. /\ UNCHANGED <<root, adding, sint, allocating, signaled, lost, stopped>>
          /\ host'.inbox = Append(host.inbox, Msg("Rescind", id))
          /\ host'.offered = host.offered
      BY <1>0, <2>3 DEF HostRescind, HostType
    <3> QED  BY <1>2, <1>3, <3>1, <3>2, PostRunning
  <2>4. Running'
    BY <1>2, <1>3, <2>2, <2>3, DeliverRunning, NotifyRunning, HotRunning DEF Background
  <2> QED  BY <1>2, <1>3, <2>1, <2>4 DEF UpInv
<1>4. CASE OfferAnswered /\ app'.pc = "up"
  <2>0. /\ app.pc = "offers" /\ app.step = "handle" /\ host' = host /\ sint' = sint
        /\ adding' = adding
    BY <1>4 DEF OfferAnswered, Handling
  <2>a. WaitAgain.pc = "offers" /\ Goto("destroy").pc = "destroy"
    BY <1>0, <2>0, Moves
  <2>1. app.msg.type = "AllOffersDelivered" /\ root' = [root EXCEPT !.OffersDelivered = TRUE]
    BY <1>4, <2>0, <2>a DEF OfferAnswered
  <2>2. /\ OffersUnderWay /\ DeliveredLast /\ OffersAccounted
        /\ root.ContactInitiated
    BY <2>0, Enumerating
  <2>3. /\ root'.OffersDelivered /\ root'.Channels = root.Channels
        /\ root'.ContactInitiated = root.ContactInitiated
    BY <1>0, <2>1 DEF RootType
  <2>4. AllLate /\ (sint.slot.type = "None" \/ Late(sint.slot)) /\ Held = {}
    BY <2>0, <2>1, <2>2 DEF DeliveredLast, Held
  <2>5. host.offered \cap Allowed \subseteq root.Channels \cup Pending
    BY <2>1, <2>2, <2>4 DEF OffersAccounted
  <2>6. Pending' = Pending /\ root.Channels \subseteq Used'
    BY <2>0, <2>3 DEF Pending, SlotOffer, Used
  <2>7. Running'
    BY <2>0, <2>2, <2>3, <2>4, <2>5, <2>6 DEF Running, AllLate, Late, OffersUnderWay
  <2> QED  BY <2>2, <2>3, <2>7 DEF UpInv
<1>5. ASSUME NEW id \in Ids, StopChild(id), app.pc = "up" PROVE UpInv'
  <2>1. /\ root'.Channels = root.Channels \ {id} /\ stopped' = stopped \cup {id}
        /\ root'.HotMessageList = root.HotMessageList
        /\ root'.OffersDelivered = root.OffersDelivered
        /\ root'.ContactInitiated = root.ContactInitiated
        /\ UNCHANGED <<host, sint, adding, lost, allocating, signaled>>
    BY <1>0, <1>5 DEF StopChild, RootType
  <2>2. Pending' = Pending /\ Used \subseteq Used' \cup {id}
    BY <2>1 DEF Pending, SlotOffer, Used, Listed, Adding
  <2> QED  BY <1>2, <1>5, <2>1, <2>2 DEF UpInv, Running
<1>6. CASE UNCHANGED vars
  <2>1. Pending' = Pending /\ Used' = Used
    BY <1>6 DEF vars, Pending, SlotOffer, Used, Listed, Adding
  <2> QED  BY <1>2, <1>6, <2>1 DEF vars, UpInv, Running
<1>7. ASSUME app'.pc = "up", Next
      PROVE  \/ app.pc = "up" /\ (Background \/ \E id \in Ids : StopChild(id))
             \/ OfferAnswered
  BY <1>0, <1>7, ThreadMoves DEF Next, Background, HotEvents, Progress, Waiting
<1> QED  BY <1>1, <1>3, <1>4, <1>5, <1>6, <1>7

-----------------------------------------------------------------------------
(* The connection is destroyed.                                            *)

\* No step of the others posts UnloadComplete.
LEMMA NoUnloadBackground ==
    ASSUME IInv, NoUnload, Background
    PROVE  NoUnload'
<1>0. /\ sint \in SintType /\ host \in HostType
  BY TypeParts DEF IInv
<1>1. CASE Deliver
  <2>1. /\ host.inbox # <<>> /\ host.inbox \in Seq(Message)
        /\ sint'.slot = Head(host.inbox) /\ host'.inbox = Tail(host.inbox)
    BY <1>0, <1>1 DEF Deliver, SintType, HostType
  <2>2. /\ 1 \in DOMAIN host.inbox /\ Head(host.inbox) = host.inbox[1]
        /\ \A i \in DOMAIN host'.inbox : /\ i + 1 \in DOMAIN host.inbox
                                         /\ host'.inbox[i] = host.inbox[i + 1]
    BY <2>1, TailOffer
  <2> QED  BY <2>1, <2>2 DEF NoUnload
<1>2. ASSUME NEW m \in Message, m.type # "UnloadComplete", sint' = sint,
             host'.inbox = Append(host.inbox, m)
      PROVE  NoUnload'
  <2>1. \A i \in DOMAIN host'.inbox : \/ i \in DOMAIN host.inbox /\ host'.inbox[i] = host.inbox[i]
                                      \/ host'.inbox[i] = m
    BY <1>0, <1>2, AppendOffer DEF HostType
  <2> QED  BY <1>2, <2>1 DEF NoUnload
<1>3. ASSUME NEW id \in Hot, HostHotOffer(id) PROVE NoUnload'
  <2>1. sint' = sint /\ host'.inbox = Append(host.inbox, Msg("Offer", id))
    BY <1>0, <1>3 DEF HostHotOffer, HostType
  <2>2. Msg("Offer", id) \in Message /\ Msg("Offer", id).type = "Offer"
    BY MessageTypes DEF Ids
  <2> QED  BY <1>2, <2>1, <2>2
<1>4. ASSUME NEW id \in Ids, HostRescind(id) PROVE NoUnload'
  <2>1. sint' = sint /\ host'.inbox = Append(host.inbox, Msg("Rescind", id))
    BY <1>0, <1>4 DEF HostRescind, HostType
  <2>2. Msg("Rescind", id) \in Message /\ Msg("Rescind", id).type = "Rescind"
    BY MessageTypes
  <2> QED  BY <1>2, <2>1, <2>2
<1>5. CASE EventFlagInterrupt \/ VmbusRootSintNotify \/ HotEvents
  <2>1. host' = host /\ (sint'.slot = sint.slot \/ sint'.slot = NoMessage)
    BY <1>0, <1>5 DEF EventFlagInterrupt, VmbusRootSintNotify, HotEvents,
         HotAddAllocationBegin, HotAddAllocationEnd, HotAddTake, HotAddCreate,
         CompleteSintMessage, SintType
  <2> QED  BY <2>1, MessageTypes DEF NoUnload
<1> QED  BY <1>1, <1>3, <1>4, <1>5 DEF Background

\* Only the thread decides whether the connection is initiated.
LEMMA BackgroundContact ==
    ASSUME root \in RootType, Background
    PROVE  root'.ContactInitiated = root.ContactInitiated
BY DEF Background, Deliver, EventFlagInterrupt, VmbusRootSintNotify, HotEvents,
       HotAddAllocationBegin, HotAddAllocationEnd, HotAddTake, HotAddCreate, HostHotOffer,
       HostRescind, RootType

\* Whatever step of DriverStart failed, either the host has no connection or
\* the context says that it has one.
LEMMA DestroyStep ==
    ASSUME IInv, [Next]_vars
    PROVE  DestroyInv'
<1>0. /\ root \in RootType /\ sint \in SintType /\ host \in HostType /\ app \in AppType
  BY TypeParts DEF IInv
<1>1. CASE app'.pc # "destroy"
  BY <1>1 DEF DestroyInv
<1>2. ASSUME app.pc = "destroy", Background PROVE DestroyInv'
  <2>1. root'.ContactInitiated = root.ContactInitiated
    BY <1>0, <1>2, BackgroundContact
  <2>2. CASE root.ContactInitiated
    <3>1. NoUnload
      BY <1>2, <2>2 DEF IInv, Phases, DestroyInv
    <3> QED  BY <1>2, <2>1, <2>2, <3>1, NoUnloadBackground DEF DestroyInv
  <2>3. CASE ~root.ContactInitiated
    <3>1. Quiet /\ host.phase = "idle"
      BY <1>2, <2>3 DEF IInv, Phases, DestroyInv
    <3>2. Quiet' /\ host' = host
      BY <1>2, <3>1, BackgroundQuiet
    <3> QED  BY <2>1, <2>3, <3>1, <3>2 DEF DestroyInv
  <2> QED  BY <2>2, <2>3
<1>a. Quiet => NoUnload
  BY EmptyLists DEF Quiet, NoUnload
<1>b. ASSUME NoUnload, sint' = sint, host' = host PROVE NoUnload'
  BY <1>b DEF NoUnload
<1>3. CASE InitiateContact /\ app'.pc = "destroy"
  <2>1. Quiet /\ host.phase = "idle" /\ ~root.ContactInitiated
    BY <1>3 DEF InitiateContact, IInv, Phases, ContactInv
  <2>2. Wait("version").pc = "version"
    BY <1>0 DEF Wait, AppType
  <2>3. host' = host /\ sint'.slot = sint.slot
    BY <1>0, <1>3, <2>2 DEF InitiateContact, Answered, SintType
  <2>4. root'.ContactInitiated = root.ContactInitiated
    BY <1>0, <1>3 DEF InitiateContact, Answered, FallenBack, RootType
  <2> QED  BY <2>1, <2>3, <2>4 DEF DestroyInv, Quiet
<1>4. CASE VersionAnswered /\ app'.pc = "destroy"
  <2>1. app.pc = "version" /\ app.step = "handle" /\ host' = host /\ sint' = sint
    BY <1>4 DEF VersionAnswered, Handling
  <2>2. Quiet /\ Answer(app.msg) /\ ~root.ContactInitiated
    BY <2>1 DEF IInv, Phases, VersionInv, VersionPending
  <2>3. CASE app.msg.type = "VersionResponse"
    <3>1. root'.ContactInitiated
      BY <1>0, <1>4, <2>3 DEF VersionAnswered, RootType
    <3> QED  BY <1>a, <1>b, <2>1, <2>2, <3>1 DEF DestroyInv
  <2>4. CASE app.msg.type = "VersionRefused" /\ host.phase = "idle"
    <3>1. root' = root
      BY <1>4, <2>4 DEF VersionAnswered
    <3> QED  BY <2>1, <2>2, <2>4, <3>1 DEF DestroyInv, Quiet
  <2> QED  BY <2>2, <2>3, <2>4 DEF Answer
<1>5. CASE OfferAnswered
  <2>1. app.pc = "offers" /\ host' = host /\ sint' = sint
    BY <1>5 DEF OfferAnswered, Handling
  <2>2. root.ContactInitiated /\ OffersUnderWay
    BY <2>1, Enumerating
  <2>3. root'.ContactInitiated = root.ContactInitiated
    BY <1>0, <1>5 DEF OfferAnswered, RootType
  <2>4. NoUnload
    BY <2>2 DEF NoUnload, OffersUnderWay
  <2> QED  BY <1>b, <2>1, <2>2, <2>3, <2>4 DEF DestroyInv
<1>6. CASE DriverStop
  <2>1. app.pc = "up" /\ host' = host /\ sint' = sint /\ root' = root
    BY <1>6 DEF DriverStop
  <2>2. root.ContactInitiated /\ NoUnload
    BY <2>1 DEF IInv, Phases, UpInv, Running, NoUnload
  <2> QED  BY <1>b, <2>1, <2>2 DEF DestroyInv
<1>7. CASE UNCHANGED vars
  BY <1>7 DEF vars, IInv, Phases, DestroyInv, NoUnload, Quiet
<1>8. ASSUME app'.pc = "destroy", Next
      PROVE  \/ app.pc = "destroy" /\ Background
             \/ InitiateContact \/ VersionAnswered \/ OfferAnswered \/ DriverStop
  BY <1>0, <1>8, ThreadMoves DEF Next, Background, HotEvents, Progress, Waiting
<1> QED  BY <1>1, <1>2, <1>3, <1>4, <1>5, <1>6, <1>7, <1>8

\* The unload request: UnloadComplete is posted behind everything else.
LEMMA UnloadSent ==
    ASSUME IInv, NoUnload, root.ContactInitiated, host' = Unloaded, sint' = sint,
           root' = root, app'.step = "get"
    PROVE  UnloadInv'
<1>0. host \in HostType /\ host.inbox \in Seq(Message)
  BY TypeParts DEF IInv, HostType
<1> DEFINE m == Msg("UnloadComplete", 0)
<1>1. host'.inbox = Append(host.inbox, m) /\ host'.phase = "idle" /\ m \in Message
  BY <1>0, MessageTypes DEF Unloaded, HostType
<1> HIDE DEF m
<1>2. /\ Len(host'.inbox) = Len(host.inbox) + 1
      /\ \A i \in DOMAIN host'.inbox :
            \/ i \in DOMAIN host.inbox /\ host'.inbox[i] = host.inbox[i]
            \/ i = Len(host.inbox) + 1
  BY <1>0, <1>1, AppendOffer
<1> QED  BY <1>1, <1>2 DEF UnloadInv, UnloadPending, NoUnload

\* The others leave UnloadComplete the last message.
LEMMA UnloadBackground ==
    ASSUME IInv, app.pc = "unload", Background
    PROVE  UnloadInv'
<1>0. /\ root \in RootType /\ sint \in SintType /\ host \in HostType /\ app \in AppType
  BY TypeParts DEF IInv
<1>1. UnloadPending /\ root.ContactInitiated /\ root'.ContactInitiated /\ app' = app
  BY <1>0, BackgroundContact, ThreadMoves DEF IInv, Phases, UnloadInv
<1>2. CASE Deliver
  <2>1. /\ host.inbox # <<>> /\ host.inbox \in Seq(Message)
        /\ sint'.slot = Head(host.inbox) /\ sint'.payload = Head(host.inbox)
        /\ host'.inbox = Tail(host.inbox) /\ host'.phase = host.phase
    BY <1>0, <1>2 DEF Deliver, SintType, HostType
  <2>2. /\ 1 \in DOMAIN host.inbox /\ Head(host.inbox) = host.inbox[1] /\ Len(host.inbox) \in Nat
        /\ Len(host'.inbox) = Len(host.inbox) - 1 /\ host'.inbox \in Seq(Message)
        /\ DOMAIN host.inbox = 1 .. Len(host.inbox)
        /\ \A i \in DOMAIN host'.inbox : /\ i + 1 \in DOMAIN host.inbox
                                         /\ host'.inbox[i] = host.inbox[i + 1]
        /\ DOMAIN host'.inbox = 1 .. Len(host.inbox) - 1
    BY <2>1, TailOffer
  <2>3. ASSUME host.inbox[1].type = "UnloadComplete" PROVE host'.inbox = <<>>
    <3>a. 1 = Len(host.inbox)
      BY <1>1, <2>2, <2>3 DEF UnloadPending
    <3>1. Len(host'.inbox) = 0
      BY <2>2, <3>a
    <3>2. \A t \in Seq(Message) : Len(t) = 0 => t = <<>>
      OBVIOUS
    <3> QED  BY <2>2, <3>1, <3>2
  <2>4. \A i \in DOMAIN host'.inbox :
            host'.inbox[i].type = "UnloadComplete" => i = Len(host'.inbox)
    <3> TAKE i \in DOMAIN host'.inbox
    <3>1. host'.inbox[i].type = "UnloadComplete" => i + 1 = Len(host.inbox)
      BY <1>1, <2>2 DEF UnloadPending
    <3> QED  BY <2>2, <3>1
  <2> QED  BY <1>1, <2>1, <2>2, <2>3, <2>4 DEF UnloadInv, UnloadPending
<1>3. CASE EventFlagInterrupt \/ VmbusRootSintNotify \/ HotEvents
  <2>1. /\ host' = host /\ (sint'.slot = sint.slot \/ sint'.slot = NoMessage)
        /\ sint'.payload = sint.payload
    BY <1>0, <1>3 DEF EventFlagInterrupt, VmbusRootSintNotify, HotEvents,
         HotAddAllocationBegin, HotAddAllocationEnd, HotAddTake, HotAddCreate,
         CompleteSintMessage, SintType
  <2> QED  BY <1>1, <2>1, MessageTypes DEF UnloadInv, UnloadPending
<1>4. ASSUME NEW id \in Ids, HostRescind(id) \/ HostHotOffer(id) PROVE FALSE
  BY <1>1, <1>4 DEF HostRescind, HostHotOffer, UnloadPending
<1> QED  BY <1>2, <1>3, <1>4 DEF Background, Ids

\* While the thread waits for UnloadComplete it is the last message.
LEMMA UnloadStep ==
    ASSUME IInv, [Next]_vars
    PROVE  UnloadInv'
<1>0. /\ root \in RootType /\ sint \in SintType /\ host \in HostType /\ app \in AppType
  BY TypeParts DEF IInv
<1>1. CASE app'.pc # "unload"
  BY <1>1 DEF UnloadInv
<1>2. ASSUME app.pc = "unload" PROVE root.ContactInitiated /\ UnloadPending
  BY <1>2 DEF IInv, Phases, UnloadInv
<1>3. CASE Background /\ app.pc = "unload"
  BY <1>3, UnloadBackground
<1>4. CASE (WaitForEvent \/ GetSintMessage \/ CopyMessage) /\ app.pc = "unload"
  <2>1. /\ host' = host /\ sint' = sint /\ root' = root
        /\ \/ app'.step = "get"
           \/ app'.step = "copy" /\ sint.slot.type # "None"
           \/ app'.step = "complete" /\ app.step = "copy" /\ app'.msg = sint.payload
    BY <1>0, <1>4 DEF WaitForEvent, GetSintMessage, CopyMessage, AppType
  <2>2. sint.slot.type # "None" => sint.slot = sint.payload
    BY DEF IInv, SlotOwned
  <2> QED  BY <1>2, <1>4, <2>1, <2>2 DEF UnloadInv, UnloadPending
<1>5. CASE CompleteMessage /\ app.pc = "unload"
  <2>1. /\ host' = host /\ root' = root /\ sint'.slot.type = "None"
        /\ app.step = "complete" /\ app'.step = "handle" /\ app'.msg = app.msg
    BY <1>0, <1>5, MessageTypes DEF CompleteMessage, CompleteSintMessage, SintType, AppType
  <2> QED  BY <1>2, <1>5, <2>1 DEF UnloadInv, UnloadPending
<1>6. CASE ExitBootServices
  <2>1. /\ app.pc = "up" /\ host' = Unloaded /\ sint' = sint /\ root' = root
        /\ app'.step = "get"
    BY <1>0, <1>6 DEF ExitBootServices, Poll, AppType
  <2>2. root.ContactInitiated /\ NoUnload
    BY <2>1 DEF IInv, Phases, UpInv, Running, NoUnload
  <2> QED  BY <2>1, <2>2, UnloadSent
<1>7. CASE DestroyContext /\ app'.pc = "unload"
  <2>1. Goto("teardown").pc = "teardown" /\ Poll("unload").step = "get"
    BY <1>0, Moves DEF Waiting
  <2>2. /\ app.pc = "destroy" /\ root.ContactInitiated /\ host' = Unloaded /\ sint' = sint
        /\ root' = root /\ app'.step = "get"
    BY <1>7, <2>1 DEF DestroyContext
  <2>3. NoUnload
    BY <2>2 DEF IInv, Phases, DestroyInv
  <2> QED  BY <2>2, <2>3, UnloadSent
<1>8. CASE UnloadAnswered /\ app'.pc = "unload"
  <2>1. app.pc = "unload" /\ host' = host /\ sint' = sint
    BY <1>8 DEF UnloadAnswered, Handling
  <2>2. /\ Goto("exited").pc = "exited" /\ Goto("teardown").pc = "teardown"
        /\ WaitAgain.step \in {"get", "event"}
    BY <1>0, Moves
  <2>3. app' = WaitAgain /\ root' = root
    BY <1>8, <2>2 DEF UnloadAnswered
  <2> QED  BY <1>2, <2>1, <2>2, <2>3 DEF UnloadInv, UnloadPending
<1>9. CASE UNCHANGED vars
  BY <1>2, <1>9 DEF vars, UnloadInv, UnloadPending
<1>10. ASSUME app'.pc = "unload", Next
       PROVE  \/ app.pc = "unload" /\ \/ Background \/ WaitForEvent \/ GetSintMessage
                                      \/ CopyMessage \/ CompleteMessage
              \/ ExitBootServices \/ DestroyContext \/ UnloadAnswered
  BY <1>0, <1>10, ThreadMoves DEF Next, Background, HotEvents, Progress, Waiting
<1> QED  BY <1>1, <1>3, <1>4, <1>5, <1>6, <1>7, <1>8, <1>9, <1>10

-----------------------------------------------------------------------------
(* The theorems.                                                           *)

\* The initial states satisfy the invariant.
LEMMA RootInit ==
    Init => IInv
<1> SUFFICES ASSUME Init PROVE IInv
  OBVIOUS
<1>1. /\ host.inbox = <<>> /\ sint.slot.type = "None" /\ root.HotMessageList = <<>>
      /\ adding = <<>> /\ root.Channels = {} /\ ~root.OffersDelivered
      /\ ~root.ContactInitiated /\ ~sint.connected /\ host.phase = "idle"
      /\ app.pc = "down" /\ ~allocating /\ signaled = {} /\ ~failFast
  BY MessageTypes DEF Init, NewContext
<1>2. TypeOK
  <2>1. /\ root \in RootType /\ NoMessage \in Message /\ MaxStarts \in Nat
        /\ <<>> \in Seq(Message) /\ <<>> \in Seq(Hot)
    BY NewTypes, MessageTypes, VmbusRootAssumption, SMTT(30) DEF Init
  <2>2. app \in AppType
    BY <2>1, SMTT(30) DEF Init, AppType, Versions, Waiting
  <2>3. sint \in SintType /\ host \in HostType
    BY <2>1 DEF Init, SintType, HostType
  <2> QED  BY <2>1, <2>2, <2>3, TypeParts DEF Init
<1>3. Pending = {} /\ SlotOffer = {} /\ Used = {} /\ Listed = {} /\ Adding = {}
  BY <1>1, EmptyLists DEF Pending, SlotOffer, Used, Listed, Adding
<1>4. OffersUnique
  BY <1>1, <1>3, EmptyLists DEF OffersUnique
<1>5. SlotOwned
  BY <1>1 DEF SlotOwned
<1>6. Phases
  BY <1>1 DEF Phases, QuietInv, ContactInv, VersionInv, EnumerateInv, OffersInv, UpInv,
              DestroyInv, UnloadInv, ParavisorFeaturesConfidential, Quiet
<1> QED  BY <1>1, <1>2, <1>4, <1>5, <1>6 DEF IInv

\* Every step preserves the invariant.
LEMMA RootStep ==
    ASSUME QuietInterrupt, IInv, [Next]_vars
    PROVE  IInv'
<1>1. TypeOK' /\ OffersUnique' /\ ~failFast' /\ SlotOwned'
  BY TypeStep, UniqueStep, SlotStep
<1>2. QuietInv' /\ ContactInv' /\ VersionInv' /\ EnumerateInv'
  BY QuietStep, ContactStep, VersionStep, EnumerateStep
<1>3. OffersInv' /\ UpInv' /\ DestroyInv' /\ UnloadInv' /\ ParavisorFeaturesConfidential'
  BY OffersStep, UpStep, DestroyStep, UnloadStep, ParavisorStep
<1> QED  BY <1>1, <1>2, <1>3 DEF IInv, Phases

(***************************************************************************)
(* The inductive invariant: every offer is in one place, the slot is owned *)
(* by one actor at a time, and the point the thread has reached says what  *)
(* is under way between host and driver.                                   *)
(***************************************************************************)
THEOREM RootInvariant ==
    ASSUME QuietInterrupt
    PROVE  Spec => []IInv
<1>1. Init => IInv
  BY RootInit
<1>2. IInv /\ [Next]_vars => IInv'
  BY RootStep
<1> QED  BY <1>1, <1>2, PTL DEF Spec

(***************************************************************************)
(* No check of the host's behaviour stops the firmware                     *)
(* (FAIL_FAST_UNEXPECTED_HOST_BEHAVIOR in HotAddAllocation,                *)
(* VmbusRootCreateChannel and VmbusRootEnumerateChildren).                 *)
(***************************************************************************)
THEOREM RootNeverFailsFast ==
    ASSUME QuietInterrupt
    PROVE  Spec => []NoFailFast
<1>1. IInv => NoFailFast
  BY DEF IInv, NoFailFast
<1> QED  BY <1>1, RootInvariant, PTL

\* HotAdd is signalled for as long as a hot message is listed.
ListSignalled == root.HotMessageList # <<>> => "HotEvent" \in signaled

\* Every step keeps HotAdd signalled while a hot message is listed.
LEMMA ListStep ==
    ASSUME TypeOK, ListSignalled, [Next]_vars
    PROVE  ListSignalled'
<1>0. root \in RootType /\ app \in AppType
  BY TypeParts
<1>1. ASSUME root'.HotMessageList = root.HotMessageList,
             "HotEvent" \in signaled => "HotEvent" \in signaled'
      PROVE  ListSignalled'
  BY <1>1 DEF ListSignalled
<1>2. CASE \/ Deliver \/ EventFlagInterrupt \/ VmbusRootSintNotify \/ HotAddAllocationBegin
           \/ \E id \in Hot : HostHotOffer(id)
           \/ \E id \in Ids : HostRescind(id)
           \/ UNCHANGED vars
  <2>1. root' = root /\ ("HotEvent" \in signaled => "HotEvent" \in signaled')
    BY <1>2 DEF Deliver, EventFlagInterrupt, VmbusRootSintNotify, HotAddAllocationBegin,
                HostHotOffer, HostRescind, vars
  <2> QED  BY <1>1, <2>1
<1>3. CASE HotAddAllocationEnd
  <2>1. \/ root' = root /\ signaled' = signaled
        \/ "HotEvent" \in signaled'
    BY <1>3 DEF HotAddAllocationEnd
  <2> QED  BY <2>1 DEF ListSignalled
<1>4. CASE HotAddTake
  <2>1. root'.HotMessageList = <<>>
    BY <1>0, <1>4 DEF HotAddTake, RootType
  <2> QED  BY <2>1 DEF ListSignalled
<1>5. CASE HotAddCreate \/ \E id \in Ids : StopChild(id)
  <2>1. signaled' = signaled /\ root'.HotMessageList = root.HotMessageList
    BY <1>0, <1>5 DEF HotAddCreate, StopChild, RootType
  <2> QED  BY <1>1, <2>1
<1>6. CASE WaitForEvent \/ GetSintMessage \/ CopyMessage \/ CompleteMessage
  <2>1. root' = root /\ ("HotEvent" \in signaled => "HotEvent" \in signaled')
    BY <1>6 DEF WaitForEvent, GetSintMessage, CopyMessage, CompleteMessage
  <2> QED  BY <1>1, <2>1
<1>7. CASE DriverStart
  <2>1. root'.HotMessageList = <<>>
    BY <1>0, <1>7 DEF DriverStart, NewContext
  <2> QED  BY <2>1 DEF ListSignalled
<1>8. CASE \/ InitiateContact \/ VersionAnswered \/ EnumerateChildren \/ OfferAnswered
           \/ DestroyContext \/ UnloadAnswered \/ DriverStop \/ ExitBootServices
  <2>1. signaled' = signaled
    BY <1>8 DEF InitiateContact, VersionAnswered, EnumerateChildren, OfferAnswered,
                DestroyContext, UnloadAnswered, DriverStop, ExitBootServices
  <2>2. root'.HotMessageList = root.HotMessageList
    BY <1>0, <1>8 DEF InitiateContact, VersionAnswered, EnumerateChildren, OfferAnswered,
                DestroyContext, UnloadAnswered, DriverStop, ExitBootServices, Answered,
                FallenBack, RootType
  <2> QED  BY <1>1, <2>1, <2>2
<1>9. CASE Teardown
  <2>1. \/ root'.HotMessageList = <<>>
        \/ root'.HotMessageList = root.HotMessageList /\ signaled' = signaled
    BY <1>0, <1>9 DEF Teardown, RootType
  <2> QED  BY <1>1, <2>1 DEF ListSignalled
<1> QED  BY <1>2, <1>3, <1>4, <1>5, <1>6, <1>7, <1>8, <1>9 DEF Next, Progress, HotEvents

(***************************************************************************)
(* The driver and the host agree on the connection:                        *)
(* VmbusRootDestroyContext unloads what VmbusRootInitiateContact set up,   *)
(* and every allowed offer becomes a channel or is accounted for.          *)
(***************************************************************************)
THEOREM RootConnectionAgreed ==
    ASSUME QuietInterrupt
    PROVE  Spec => []ConnectionAgreed
<1>1. IInv /\ ListSignalled => ConnectionAgreed
  <2> SUFFICES ASSUME IInv, ListSignalled PROVE ConnectionAgreed
    OBVIOUS
  <2>1. DownMeansUnloaded
    BY DEF IInv, Phases, QuietInv, Quiet, DownMeansUnloaded
  <2>2. ParavisorFeaturesConfidential
    BY DEF IInv, Phases
  <2>3. ASSUME app.pc = "up"
        PROVE  /\ host.offered \cap Allowed \subseteq Pending \cup Used \cup lost \cup stopped
               /\ root.OffersDelivered /\ Cold \subseteq host.offered
    BY <2>3 DEF IInv, Phases, UpInv, Running
  <2>4. EnumeratedExactly
    <3>1. root.Channels \subseteq Allowed
      BY DEF IInv, OffersUnique, Used
    <3>2. ASSUME app.pc = "up" PROVE Cold \cap Allowed \subseteq root.Channels \cup stopped
      <4>1. /\ Pending \subseteq Hot /\ Listed \cup Adding \subseteq Hot
        BY <2>3, <3>2 DEF IInv, OffersUnique
      <4>2. lost \subseteq Hot /\ Cold \cap Hot = {} /\ Cold \subseteq host.offered
        BY <2>3, <3>2, TypeParts, VmbusRootAssumption DEF IInv
      <4> QED  BY <2>3, <3>2, <4>1, <4>2 DEF Used
    <3> QED  BY <3>1, <3>2 DEF EnumeratedExactly
  <2>5. HotOffersAccounted
    <3> SUFFICES ASSUME app.pc = "up", NEW id \in host.offered \cap Allowed
                 PROVE  \/ \E i \in DOMAIN host.inbox :
                              host.inbox[i].type = "Offer" /\ host.inbox[i].id = id
                        \/ sint.slot.type = "Offer" /\ sint.slot.id = id
                        \/ /\ "HotEvent" \in signaled
                           /\ \E i \in DOMAIN root.HotMessageList : root.HotMessageList[i] = id
                        \/ \E i \in DOMAIN adding : adding[i] = id
                        \/ id \in root.Channels \cup stopped \cup lost
      BY DEF HotOffersAccounted
    <3>1. id \in OfferIds(host.inbox) \cup SlotOffer \cup Listed \cup Adding
                   \cup root.Channels \cup stopped \cup lost
      BY <2>3 DEF Pending, Used
    <3>2. ASSUME id \in Listed
          PROVE  /\ "HotEvent" \in signaled
                 /\ \E i \in DOMAIN root.HotMessageList : root.HotMessageList[i] = id
      <4>1. PICK i \in DOMAIN root.HotMessageList : root.HotMessageList[i] = id
        BY <3>2 DEF Listed, Entries
      <4>2. root.HotMessageList # <<>>
        BY <4>1
      <4> QED  BY <4>1, <4>2 DEF ListSignalled
    <3> QED  BY <3>1, <3>2 DEF OfferIds, SlotOffer, Adding, Entries
  <2> QED  BY <2>1, <2>2, <2>4, <2>5 DEF ConnectionAgreed
<1>2. Init => ListSignalled
  BY SMTT(30) DEF Init, NewContext, ListSignalled
<1>3. IInv /\ ListSignalled /\ [Next]_vars => ListSignalled'
  BY ListStep DEF IInv
<1> QED  BY <1>1, <1>2, <1>3, RootInvariant, PTL DEF Spec

(***************************************************************************)
(* A message the interrupt leaves in the slot is someone's, provided the   *)
(* host adds no channel right behind AllOffersDelivered.                   *)
(***************************************************************************)
THEOREM RootSlotAttended ==
    ASSUME QuietInterrupt, ~EarlyHot
    PROVE  Spec => []SlotAttended
<1>1. IInv => SlotAttended
  <2> SUFFICES ASSUME IInv, sint.connected, sint.slot.type # "None", ~sint.irq, ~allocating,
                      "HotAllocationEvent" \notin signaled
               PROVE  app.pc \in Waiting \cup {"contact", "enumerate", "destroy"}
    BY DEF SlotAttended
  <2>1. app \in AppType
    BY TypeParts DEF IInv
  <2>2. app.pc \notin {"down", "teardown", "stopFailed", "exited"}
    BY DEF IInv, Phases, QuietInv, Quiet
  <2>3. app.pc # "up"
    <3>1. sint.slot.type # "Rescind"
      BY DEF IInv, SlotOwned
    <3> QED  BY <3>1 DEF IInv, Phases, UpInv, Running
  <2> QED  BY <2>1, <2>2, <2>3 DEF AppType
<1> QED  BY <1>1, RootInvariant, PTL
=============================================================================
