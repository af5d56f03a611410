-------------------------------- MODULE EfiHv --------------------------------
(***************************************************************************)
(* The hypervisor driver: connecting to the hypervisor and to its synthetic *)
(* interrupt controller (SynIC), interrupt sources (SINTs) and timers, the  *)
(* message slot that the hypervisor fills and this driver empties, and the  *)
(* disconnection when boot services end or when initialisation fails.       *)
(*                                                                          *)
(* The guest's store that empties the slot goes through a store buffer that *)
(* drains at any time; a memory barrier waits until it has.                 *)
(***************************************************************************)
EXTENDS Integers, Sequences

CONSTANTS
    Modes,      \* subset of {"plain", "paravisor", "tdxParavisor", "bypassOnly"}
    Sints,      \* 0 .. HV_SYNIC_SINT_COUNT - 1; messages are posted to SINT 1
    Vectors,    \* interrupt vectors, all above 0
    MaxPosts,   \* messages the hypervisor posts in a behaviour
    Failures    \* the calls of EfiHvInitialize that may fail

VARIABLES held, step, ctx, host

vars == <<held, step, ctx, host>>

MessageSint == 1
NoVector == 0

EfiHvConstants == MessageSint \in Sints /\ NoVector \notin Vectors

mUseBypassContext == ctx.mode # "plain"
mBypassOnly == ctx.mode = "bypassOnly"

\* The contexts whose SINT registers EfiHvConnectSint and EfiHvDisconnectSint write.
ContextsInUse == (IF mUseBypassContext THEN {"bypass"} ELSE {})
            \cup (IF mBypassOnly THEN {} ELSE {"normal"})

\* mSintConfiguration, mVectorSint, mTimerConfiguration, mDirectTimerInterruptHandlers and
\* the slot clearing that is still in the store buffer.  "masked" is SINT register content.
Init ==
    /\ held = {}
    /\ step = "absent"
    /\ ctx \in [mode : Modes,
                sint : {[s \in Sints |-> NoVector]},
                vectorSint : {[v \in Vectors |-> 0]},
                timer : {[enable |-> FALSE, direct |-> FALSE, vector |-> NoVector]},
                direct : {{}},
                buffered : {FALSE},
                input : {[p \in {"own", "shared"} |-> "none"]},
                filled : {"none"},
                after : {"none"}]
    /\ host = [cpu |-> [v \in Vectors |-> "none"],
               register |-> [c \in {"bypass", "normal"} |-> [s \in Sints |-> "masked"]],
               armed |-> FALSE, torn |-> {},
               slot |-> 0, pending |-> FALSE, queue |-> <<>>, posted |-> 0,
               at |-> "idle", irq |-> FALSE, missed |-> FALSE, taken |-> <<>>]
-----------------------------------------------------------------------------
(* EfiHvInitialize, EfiHvConnectToHypervisor, EfiHvConnectToSynic          *)

ConnectCalls ==
    CASE ctx.mode = "plain" -> <<"present", "hvPages", "hypercallPage", "connect", "privileges">>
      [] ctx.mode = "paravisor" -> <<"hvPages", "hypercallPage", "connect", "bypass">>
      [] ctx.mode = "tdxParavisor" -> <<"hvPages", "hypercallPage", "connect", "inputPage", "bypass">>
      [] ctx.mode = "bypassOnly" -> <<"hvPages", "hvPagesVisible", "bypass">>

InitializeCalls == <<"cpu", "ebsEvent">> \o ConnectCalls \o <<"synic", "protocols">>
CanFail == {"cpu", "ebsEvent", "present", "hvPages", "hvPagesVisible", "hypercallPage",
            "inputPage", "privileges", "protocols"}
Owned == {"ebsEvent", "hvPages", "hvPagesVisible", "hypercallPage", "connect", "inputPage",
          "bypass", "synic", "protocols"}
HeldAfter(n) == {InitializeCalls[i] : i \in 1 .. n} \cap Owned

\* Visibility is revoked first, then the input page, both contexts and the pages follow.
EfiHvDisconnectFromHypervisor(h) ==
    h \ {"hvPagesVisible", "inputPage", "connect", "bypass", "hvPages", "hypercallPage"}

\* The failure path closes the event, then disconnects as the end of boot services does.
EfiHvInitialize ==
    /\ step = "absent"
    /\ \/ \E i \in 1 .. Len(InitializeCalls) :
              LET h == HeldAfter(i - 1) \ {"ebsEvent"}
              IN  /\ InitializeCalls[i] \in Failures \cap CanFail
                  /\ IF "synic" \in h
                     THEN /\ held' = h
                          /\ step' = "disconnect"
                          /\ ctx' = [ctx EXCEPT !.after = "failed"]
                     ELSE /\ held' = EfiHvDisconnectFromHypervisor(h)
                          /\ step' = "failed"
                          /\ UNCHANGED ctx
       \/ /\ held' = HeldAfter(Len(InitializeCalls))
          /\ step' = "idle"
          /\ UNCHANGED ctx
    /\ UNCHANGED host
-----------------------------------------------------------------------------
(* Interrupt sources and timers                                            *)

WriteSint(reg, s, value) ==
    [c \in DOMAIN reg |-> IF c \in ContextsInUse THEN [reg[c] EXCEPT ![s] = value] ELSE reg[c]]

\* RegisterInterruptHandler (external) refuses a vector that has a handler.
EfiHvConnectSint(s, v) ==
    /\ step = "idle" /\ ctx.sint[s] = NoVector
    /\ IF host.cpu[v] # "none"
       THEN UNCHANGED <<ctx, host>>
       ELSE /\ ctx' = [ctx EXCEPT !.sint[s] = v, !.vectorSint[v] = s]
            /\ host' = [host EXCEPT !.cpu[v] = "sint", !.register = WriteSint(@, s, "vector")]
    /\ UNCHANGED <<held, step>>

\* The state after EfiHvDisconnectSint of every SINT in S; messages not taken yet are missed.
DisconnectedCtx(c, S) ==
    [c EXCEPT !.vectorSint = [v \in Vectors |-> IF \E s \in S : c.sint[s] = v THEN 0 ELSE @[v]],
              !.sint = [s \in Sints |-> IF s \in S THEN NoVector ELSE @[s]]]
DisconnectedHost(c, h, S) ==
    [h EXCEPT !.register = [x \in DOMAIN @ |->
                               [s \in Sints |-> IF s \in S /\ x \in ContextsInUse
                                                THEN "masked" ELSE @[x][s]]],
              !.cpu = [v \in Vectors |-> IF \E s \in S : c.sint[s] = v THEN "none" ELSE @[v]],
              !.missed = @ \/ (MessageSint \in S /\ h.slot # 0)]

EfiHvDisconnectSint(s) ==
    /\ step = "idle"
    /\ ctx' = DisconnectedCtx(ctx, {s})
    /\ host' = DisconnectedHost(ctx, host, {s})
    /\ UNCHANGED <<held, step>>

\* One timer; "direct" is the set of vectors with a direct timer handler.
EfiHvConfigureTimer(direct, v) ==
    /\ step = "idle"
    /\ LET t == ctx.timer
           refused == IF direct
                      THEN IF t.enable THEN ~t.direct \/ t.vector # v ELSE host.cpu[v] # "none"
                      ELSE t.direct
       IN  /\ ~refused
           /\ ctx' = [ctx EXCEPT !.timer = [enable |-> TRUE, direct |-> direct,
                                            vector |-> IF direct THEN v ELSE NoVector],
                                 !.direct = IF direct THEN @ \cup {v} ELSE @]
           /\ host' = [host EXCEPT !.cpu[v] = IF direct THEN "timer" ELSE @, !.armed = TRUE]
    /\ UNCHANGED <<held, step>>
-----------------------------------------------------------------------------
(* Hypercall input: EfiHvPostMessage, EfiHvpModifySparseGpaPageHostVisibility, *)
(* EfiHvpPinUnpinGpaPageRanges, EfiHvpQueryAlwaysPinnedSubranges and           *)
(* EfiHvStartApplicationProcessor                                              *)

Hypercalls == {"postMessage", "modifyVisibility", "pin", "queryPinned", "startProcessor"}

\* mHvInputPage is a page of its own only on TDX with a paravisor.
InputPage(c) == IF c = "postMessage" /\ ctx.mode = "tdxParavisor" THEN "own" ELSE "shared"

\* Between RaiseTPL(TPL_HIGH_LEVEL) and RestoreTPL nothing else runs on the processor.
RaisesTpl(c) == c \in {"postMessage", "modifyVisibility", "pin"}

\* The hypervisor reads what the page holds; "torn" are the callers that it did not read.
Issue(c, input) ==
    /\ ctx' = [ctx EXCEPT !.input[InputPage(c)] = "none",
                          !.filled = IF @ = c THEN "none" ELSE @]
    /\ host' = [host EXCEPT !.torn = IF input[InputPage(c)] = c THEN @ ELSE @ \cup {c}]

\* A raised caller may interrupt one that is not, between its two steps.
HypercallRaised(c) ==
    /\ step = "idle" /\ RaisesTpl(c)
    /\ Issue(c, [ctx.input EXCEPT ![InputPage(c)] = c])
    /\ UNCHANGED <<held, step>>

FillInput(c) ==
    /\ step = "idle" /\ ctx.filled = "none" /\ ~RaisesTpl(c)
    /\ ctx' = [ctx EXCEPT !.input[InputPage(c)] = c, !.filled = c]
    /\ UNCHANGED <<held, step, host>>

IssueFilled(c) ==
    /\ step = "idle" /\ ctx.filled = c
    /\ Issue(c, ctx.input)
    /\ UNCHANGED <<held, step>>
-----------------------------------------------------------------------------
(* The message slot: the hypervisor's side (external)                      *)

Listening == "synic" \in held

HostPost ==
    /\ Listening /\ host.posted < MaxPosts
    /\ host' = [host EXCEPT !.posted = @ + 1, !.queue = Append(@, host.posted + 1),
                            !.at = IF @ = "idle" THEN "try" ELSE @]
    /\ UNCHANGED <<held, step, ctx>>

\* Writing a message sets the pending flag when more are queued, and interrupts.
Deliver(h) ==
    IF h.queue = <<>>
    THEN [h EXCEPT !.at = "idle"]
    ELSE [h EXCEPT !.slot = Head(h.queue), !.queue = Tail(@), !.pending = Len(h.queue) > 1,
                   !.irq = (ctx.sint[MessageSint] # NoVector), !.at = "idle",
                   !.missed = @ \/ ctx.sint[MessageSint] = NoVector]

\* For a new message a free slot is filled.  An occupied one gets the pending flag and is
\* looked at once more, then only for an end-of-message.
HostDeliver ==
    /\ Listening /\ host.at = "try"
    /\ host' = IF host.slot = 0
               THEN Deliver(host)
               ELSE [host EXCEPT !.pending = TRUE, !.at = "recheck"]
    /\ UNCHANGED <<held, step, ctx>>

HostRecheck ==
    /\ Listening /\ host.at = "recheck"
    /\ host' = IF host.slot = 0 THEN Deliver(host) ELSE [host EXCEPT !.at = "idle"]
    /\ UNCHANGED <<held, step, ctx>>

\* The store buffer drains.
StoreDrains ==
    /\ ctx.buffered
    /\ ctx' = [ctx EXCEPT !.buffered = FALSE]
    /\ host' = [host EXCEPT !.slot = 0]
    /\ UNCHANGED <<held, step>>
-----------------------------------------------------------------------------
(* The message slot: EfiHvInterruptHandler and EfiHvCompleteSintMessage    *)

\* What EfiHvGetSintMessage sees: the processor's own buffered store comes first.
EfiHvGetSintMessage == IF ctx.buffered THEN 0 ELSE host.slot

\* The handler of the SINT that mVectorSint names takes the message.
EfiHvInterruptHandler ==
    /\ step = "idle" /\ host.irq
    /\ LET v == ctx.sint[MessageSint]
           called == v # NoVector /\ host.cpu[v] = "sint" /\ ctx.vectorSint[v] = MessageSint
                       /\ EfiHvGetSintMessage # 0
       IN  IF called
           THEN /\ host' = [host EXCEPT !.irq = FALSE, !.taken = Append(@, host.slot)]
                /\ step' = "clear"
           ELSE host' = [host EXCEPT !.irq = FALSE] /\ UNCHANGED step
    /\ UNCHANGED <<held, ctx>>

\* EfiHvCompleteSintMessage: MessageType becomes HvMessageTypeNone ...
ClearSlot ==
    /\ step \in {"clear", "drainClear"}
    /\ ctx' = [ctx EXCEPT !.buffered = TRUE]
    /\ step' = IF step = "clear" THEN "check" ELSE "drainCheck"
    /\ UNCHANGED <<held, host>>

\* ... and once that store is visible, a pending message asks for the end-of-message
\* register, for which the hypervisor looks at its queue again.
SynicEom(h) == IF h.slot = 0 THEN Deliver(h) ELSE h
Checked == step' = IF step = "check" THEN "idle" ELSE "drain"
CheckPendingNoBarrier ==
    /\ step \in {"check", "drainCheck"}
    /\ host' = IF host.pending THEN SynicEom(host) ELSE host
    /\ Checked
    /\ UNCHANGED <<held, ctx>>
CheckPending ==
    /\ step \in {"check", "drainCheck"} /\ ~ctx.buffered
    /\ host' = IF host.pending THEN SynicEom(host) ELSE host
    /\ Checked
    /\ UNCHANGED <<held, ctx>>
-----------------------------------------------------------------------------
(* EfiHvExitBootServices, EfiHvDisconnectFromSynic                         *)

EfiHvExitBootServices ==
    /\ step = "idle"
    /\ step' = "disconnect"
    /\ ctx' = [ctx EXCEPT !.after = "exited"]
    /\ UNCHANGED <<held, host>>

\* Timers are stopped and every SINT disconnected ...
DisconnectSints ==
    /\ step = "disconnect"
    /\ ctx' = DisconnectedCtx(ctx, Sints)
    /\ host' = [DisconnectedHost(ctx, host, Sints) EXCEPT !.armed = FALSE, !.irq = FALSE]
    /\ step' = "drain"
    /\ UNCHANGED held

\* ... messages are completed until the slot is empty, then the pages are disabled.
DrainMessages ==
    /\ step = "drain"
    /\ IF EfiHvGetSintMessage # 0
       THEN step' = "drainClear" /\ UNCHANGED held
       ELSE /\ held' = EfiHvDisconnectFromHypervisor(held \ {"synic"})
            /\ step' = ctx.after
    /\ UNCHANGED <<ctx, host>>

Next ==
    \/ EfiHvInitialize
    \/ \E s \in Sints, v \in Vectors : EfiHvConnectSint(s, v)
    \/ \E s \in Sints : EfiHvDisconnectSint(s)
    \/ \E direct \in BOOLEAN, v \in Vectors : EfiHvConfigureTimer(direct, v)
    \/ \E c \in Hypercalls : HypercallRaised(c) \/ FillInput(c) \/ IssueFilled(c)
    \/ HostPost \/ HostDeliver \/ HostRecheck \/ StoreDrains
    \/ EfiHvInterruptHandler \/ ClearSlot \/ CheckPending
    \/ EfiHvExitBootServices \/ DisconnectSints \/ DrainMessages

Spec == Init /\ [][Next]_vars
-----------------------------------------------------------------------------
(* Properties                                                              *)


\* A message is never stranded in the hypervisor's queue: once the guest and the hypervisor
\* are both at rest, with the SINT connected ever since it was posted, every message was
\* taken, once and in order (EfiHvCompleteSintMessage's barrier before it reads the flag).
NoStrandedMessage ==
    /\ \A i \in DOMAIN host.taken : i > 1 => host.taken[i - 1] < host.taken[i]
    /\ (step = "idle" /\ host.at = "idle" /\ ~host.irq /\ ~ctx.buffered /\ ~host.missed)
           => /\ host.queue = <<>> /\ host.slot = 0
              /\ Len(host.taken) = host.posted

\* The processor's vectors, mVectorSint, mSintConfiguration and the SINT registers agree: a
\* connected SINT is unmasked in each context in use and its interrupts reach its handler, a
\* vector with a handler belongs to one connected SINT or to the direct timer.
VectorsRouted ==
    \A v \in Vectors :
        LET owners == {s \in Sints : ctx.sint[s] = v}
        IN  /\ \A s \in owners : /\ host.cpu[v] = "sint" /\ ctx.vectorSint[v] = s
                                 /\ \A c \in ContextsInUse : host.register[c][s] = "vector"
            /\ host.cpu[v] = "sint" => \E s \in owners : owners = {s}
            /\ host.cpu[v] = "timer" => owners = {} /\ ctx.timer.direct /\ ctx.timer.vector = v

\* Not so: a hypercall acts on the input its caller wrote.  EfiHvpQueryAlwaysPinnedSubranges
\* and EfiHvStartApplicationProcessor fill the page without raising the TPL, and a hypercall
\* of a callback or an interrupt handler in between writes over it.
InputsAlwaysIntact == host.torn = {}
=============================================================================
