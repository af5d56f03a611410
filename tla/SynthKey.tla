------------------------------- MODULE SynthKey -------------------------------
(***************************************************************************)
(* The synthetic keyboard: the driver's start and stop, keystroke messages *)
(* of the host turned into EFI keys, the functions registered for a key,   *)
(* and the ring of keys a client reads.                                    *)
(*                                                                         *)
(* The receive callback runs above the clients' priority: a message may    *)
(* arrive between any two of their steps that are not raised together.  A  *)
(* scan code, a character and a flag are names; the layout has a member of *)
(* each class its translation tells apart.                                 *)
(***************************************************************************)
EXTENDS Integers, Sequences, FiniteSets, SequencesExt

CONSTANTS
    BufferSize,     \* SYNTHKEY_KEY_BUFFER_SIZE
    Keystrokes,     \* the messages the host may send
    Registrations,  \* the registrations clients may make: [scan, char, shift, toggle, fn]
    InCallback,     \* what a notification function may do: "register", "unregister", "self"
    Failures        \* the calls that may fail

VARIABLES held, step, ctx, call, host

vars == <<held, step, ctx, call, host>>

NoKey == [scan |-> "null", char |-> "null", shift |-> {}, toggle |-> {}]
\* Where KeyNotifyFire is in the list: at an entry, at the end, or not at work.
WalkEnd == 0
NoWalk == -1
Idle == [at |-> NoWalk, key |-> NoKey, must |-> {}, called |-> <<>>, pressed |-> {},
         led |-> "none", flags |-> {}, read |-> FALSE]

\* SYNTH_KEYBOARD_STATE, the ring of keys and the notification list; "want" is what a
\* client may still read.
Init ==
    /\ held = {}
    /\ step = "absent"
    /\ ctx = [connected |-> FALSE, shift |-> {}, toggle |-> {}, pause |-> FALSE,
              head |-> 0, tail |-> 0, buffer |-> [i \in 0 .. BufferSize - 1 |-> NoKey],
              notify |-> <<>>, want |-> <<>>]
    /\ call = Idle
    /\ host = [leds |-> {}, pausing |-> FALSE]
-----------------------------------------------------------------------------
(* SynthKeyDriverStart, SimpleTextInInitialize, SynthKeyChannelOpen        *)

DriverCalls == <<"emcl", "device", "devicePath", "emclOpen">>
TextInCalls == <<"waitForKey", "waitForKeyEx">>
ChannelCalls == <<"callback", "channel", "initEvent", "send", "accepted">>
StartCalls == DriverCalls \o TextInCalls \o ChannelCalls \o <<"protocols">>

\* The calls that leave something to give back.
Owned == {"emcl", "device", "devicePath", "emclOpen", "waitForKey", "waitForKeyEx", "channel",
          "initEvent", "protocols"}
HeldAfter(n) == {StartCalls[i] : i \in 1 .. n} \cap Owned

SynthKeyChannelClose(h) == h \ {"channel", "initEvent"}
SimpleTextInCleanup(h) == SynthKeyChannelClose(h) \ {"protocols", "waitForKey", "waitForKeyEx"}
SynthKeyDriverCleanup(h) == SimpleTextInCleanup(h) \ {"devicePath", "emclOpen", "device"}

\* KeyNotifyCleanup follows the links of the list: SimpleTextInInitialize must have set
\* them.  Start gives the EMCL protocol back through the structure it has just freed,
\* which must have existed.
NotifyListValid(h) == "emclOpen" \in h
CleanupFaults(h) == "emcl" \in h /\ ("device" \notin h \/ ~NotifyListValid(h))

SynthKeyDriverStart ==
    /\ step = "absent"
    /\ \/ \E i \in 1 .. Len(StartCalls) :
              LET h == HeldAfter(i - 1) IN
              /\ StartCalls[i] \in Failures
              /\ IF CleanupFaults(h)
                 THEN held' = h /\ step' = "fault"
                 ELSE held' = SynthKeyDriverCleanup(h) \ {"emcl"} /\ UNCHANGED step
              /\ UNCHANGED ctx
       \/ /\ held' = HeldAfter(Len(StartCalls))
          /\ step' = "started"
          /\ ctx' = [ctx EXCEPT !.connected = TRUE]
    /\ UNCHANGED <<call, host>>

\* KeyNotifyCleanup empties the list.
SynthKeyDriverStop ==
    /\ step = "started" /\ call = Idle
    /\ held' = SynthKeyDriverCleanup(held) \ {"emcl"}
    /\ step' = "stopped"
    /\ ctx' = [ctx EXCEPT !.connected = FALSE, !.notify = <<>>]
    /\ UNCHANGED <<call, host>>
-----------------------------------------------------------------------------
(* The ring of keys: one slot stays empty, a key more drops the oldest.  A *)
(* slot that was read is not read again, and its content is forgotten.     *)

Inc(i) == (i + 1) % BufferSize
KeyBufferIsEmpty(c) == c.head = c.tail
KeyBufferInitialize(c) ==
    [c EXCEPT !.head = 0, !.tail = 0, !.buffer = [i \in DOMAIN @ |-> NoKey], !.want = <<>>]

Wanted(c, key) == Append(IF Len(c.want) = BufferSize - 1 THEN Tail(c.want) ELSE c.want, key)
KeyBufferInsert(c, key) ==
    [c EXCEPT !.head = IF Inc(c.tail) = @ THEN Inc(@) ELSE @,
              !.buffer = [@ EXCEPT ![c.tail] = key, ![Inc(c.tail)] = NoKey], !.tail = Inc(@), !.want = Wanted(c, key)]
KeyBufferRemove(c) == [c EXCEPT !.head = Inc(@), !.buffer[c.head] = NoKey, !.want = Tail(@)]

Content(c) == [i \in 1 .. (c.tail - c.head + BufferSize) % BufferSize |-> c.buffer[(c.head + i - 1) % BufferSize]]

KeyNotifyIsPartialKey(key) == key.scan = "null" /\ key.char = "null"
-----------------------------------------------------------------------------
(* SynthKeyLayoutUpdateKeyState, SynthKeyLayoutTranslateKey                *)

ScanCodeToEfiKey_En_Us ==
    [a      |-> [scan |-> "null",   char |-> "a", shifted |-> "A"],
     one    |-> [scan |-> "null",   char |-> "1", shifted |-> "!"],
     delete |-> [scan |-> "delete", char |-> ".", shifted |-> "."],
     minus  |-> [scan |-> "null",   char |-> "-", shifted |-> "-"]]
KeyPad == {"delete", "minus"}

CtrlActive(s) == s \cap {"leftCtrl", "rightCtrl"} # {}
AltActive(s) == s \cap {"leftAlt", "rightAlt"} # {}
ShiftActive(s) == s \cap {"leftShift", "rightShift"} # {}

NewShiftState(m) ==
    CASE m.code = "ctrl" /\ m.prefix = "E0" -> {"rightCtrl"}
      [] m.code = "ctrl" /\ m.prefix = "none" -> {"leftCtrl"}
      [] m.code = "alt" -> {IF m.prefix = "E0" THEN "rightAlt" ELSE "leftAlt"}
      [] m.code = "leftShift" /\ m.prefix # "E0" -> {"leftShift"}
      [] m.code \in {"rightShift", "logo", "menu", "sysReqAlt"} -> {m.code}
      [] m.code = "sysReq" /\ m.prefix = "E0" -> {"sysReqAlt"}
      [] OTHER -> {}
NewToggleState(m, pause) ==
    CASE m.code = "caps" -> {"caps"}
      [] m.code = "num" /\ ~pause -> {"num"}
      [] m.code = "scroll" /\ m.prefix # "E0" -> {"scroll"}
      [] OTHER -> {}

\* The state after the message and the kind of change.
SynthKeyLayoutUpdateKeyState(m, c) ==
    LET pause == c.pause \/ (m.code = "ctrl" /\ m.prefix = "E1")
        shift == NewShiftState(m)
        toggle == NewToggleState(m, pause)
        change == CASE m.code = "unicode" -> "none"
                    [] shift # {} -> IF ~m.break \/ shift \subseteq c.shift THEN "shift" ELSE "none"
                    [] toggle # {} /\ ~m.break -> "toggle"
                    [] OTHER -> "none"
    IN  [change |-> change,
         ctx |-> [c EXCEPT !.pause = pause,
                     !.shift = IF change # "shift" THEN @ ELSE IF m.break THEN @ \ shift ELSE @ \cup shift,
                     !.toggle = IF change = "toggle" THEN SymDiff(@, toggle) ELSE @]]

CapsOf(c) == CASE c = "a" -> "A" [] c = "A" -> "a" [] OTHER -> c
ControlOf(c) == IF c \in {"a", "A"} THEN "^A" ELSE c

HasMapping(m) == ~m.break /\ m.prefix # "E1"

TableKey(m, c) ==
    IF m.code \notin DOMAIN ScanCodeToEfiKey_En_Us THEN NoKey
    ELSE LET e == ScanCodeToEfiKey_En_Us[m.code]
             shifted == IF ShiftActive(c.shift) THEN e.shifted ELSE e.char
             capital == IF "caps" \in c.toggle THEN CapsOf(shifted) ELSE shifted
         IN  [NoKey EXCEPT !.scan = e.scan,
                           !.char = IF CtrlActive(c.shift) THEN ControlOf(capital) ELSE capital]

SynthKeyLayoutTranslateKey(m, c) ==
    CASE m.code = "unicode" -> [NoKey EXCEPT !.char = "u"]
      [] m.code = "num" /\ c.pause -> [NoKey EXCEPT !.scan = "pause"]
      [] m.code = "scroll" /\ m.prefix = "E0" -> [NoKey EXCEPT !.scan = "pause"]
      [] m.code \in KeyPad ->
             IF "num" \in c.toggle /\ ~ShiftActive(c.shift) /\ m.prefix # "E0"
             THEN [TableKey(m, c) EXCEPT !.scan = "null"]
             ELSE IF m.code = "minus" THEN TableKey(m, c)
             ELSE [TableKey(m, c) EXCEPT !.char = "null"]
      [] OTHER -> TableKey(m, c)
-----------------------------------------------------------------------------
(* The receive callback: OnMessageEvent, SimpleTextInQueueKey,             *)
(* KeyNotifyFire                                                           *)

\* A flag state of zero stands for any.
KeyNotifyIsKeyRegistered(r, key) ==
    /\ r.scan = key.scan /\ r.char = key.char
    /\ r.shift # {} => r.shift = key.shift
    /\ r.toggle # {} => r.toggle = key.toggle

\* SimpleTextInQueueKey: ctrl-alt-delete resets the machine and does not return.
SimpleTextInQueueKey(key, c) ==
    IF CtrlActive(c.shift) /\ AltActive(c.shift) /\ key.scan = "delete"
    THEN step' = "reset" /\ UNCHANGED call
    ELSE /\ call' = [call EXCEPT !.key = key, !.called = <<>>, !.pressed = c.shift,
                        !.at = IF c.notify = <<>> THEN WalkEnd ELSE 1,
                        !.must = {r \in ToSet(c.notify) : KeyNotifyIsKeyRegistered(r, key)}]
         /\ UNCHANGED step

\* The key of a change of the flags; that they are valid is a flag too, and always set.
PartialKey(c) ==
    [NoKey EXCEPT !.shift = c.shift \cup {"valid"}, !.toggle = c.toggle \cup {"valid"}]

OnMessageEvent(m) ==
    /\ step = "started" /\ call.at = NoWalk
    /\ LET u == SynthKeyLayoutUpdateKeyState(m, ctx) IN
       /\ ctx' = u.ctx
       /\ host' = [leds |-> IF u.change = "toggle" THEN u.ctx.toggle \ {"exposed"} ELSE host.leds,
                   pausing |-> m.prefix = "E1" \/ (host.pausing /\ ~(m.code = "num" /\ m.break))]
       /\ IF u.change # "none"
          THEN IF "exposed" \in u.ctx.toggle
               THEN SimpleTextInQueueKey(PartialKey(u.ctx), u.ctx)
               ELSE UNCHANGED <<step, call>>
          ELSE IF HasMapping(m)
               THEN SimpleTextInQueueKey(SynthKeyLayoutTranslateKey(m, u.ctx), u.ctx)
               ELSE UNCHANGED <<step, call>>
    /\ UNCHANGED held

\* What a notification function may do to the list while KeyNotifyFire walks it.
Register(n, r) == IF r \in ToSet(n) THEN n ELSE Append(n, r)
Unregister(n, r) == SelectSeq(n, LAMBDA x : x # r)
AfterFunction(n, r) ==
    {n} \cup (IF "register" \in InCallback THEN {Register(n, x) : x \in Registrations} ELSE {})
        \cup (IF "unregister" \in InCallback THEN {Unregister(n, x) : x \in Registrations \ {r}} ELSE {})
        \cup (IF "self" \in InCallback THEN {Unregister(n, r)} ELSE {})

\* The next link is read after the function has returned.
Link(n, r) == LET i == CHOOSE i \in 1 .. Len(n) : n[i] = r IN IF i = Len(n) THEN WalkEnd ELSE i + 1
KeyNotifyNextFirst(n, r, fires) == IF fires THEN WalkEnd ELSE Link(n, r)
KeyNotifyNext(n, r, fires) == Link(n, r)

KeyNotifyFire ==
    /\ call.at > WalkEnd
    /\ LET r == ctx.notify[call.at]
           fires == KeyNotifyIsKeyRegistered(r, call.key)
       IN  \E n \in IF fires THEN AfterFunction(ctx.notify, r) ELSE {ctx.notify} :
               /\ ctx' = [ctx EXCEPT !.notify = n]
               /\ IF r \notin ToSet(n)
                  THEN step' = "fault" /\ UNCHANGED call
                  ELSE /\ call' = [call EXCEPT !.at = KeyNotifyNext(n, r, fires),
                                      !.called = IF fires THEN Append(@, r) ELSE @,
                                      !.must = @ \cap ToSet(n)]
                       /\ UNCHANGED step
    /\ UNCHANGED <<held, host>>

Queued ==
    /\ call.at = WalkEnd
    /\ ctx' = KeyBufferInsert(ctx, call.key)
    /\ call' = [call EXCEPT !.at = NoWalk, !.key = NoKey, !.must = {}, !.called = <<>>, !.pressed = {}]
    /\ UNCHANGED <<held, step, host>>
-----------------------------------------------------------------------------
(* The clients' calls; they run when no message is being handled.          *)

Client == step = "started" /\ call.at = NoWalk

\* ReadKeyStroke: one dequeue after another until the key is not a partial one.
SimpleTextInReadKeyStroke ==
    /\ Client
    /\ \/ KeyBufferIsEmpty(ctx) /\ call' = [call EXCEPT !.read = FALSE] /\ call.read /\ UNCHANGED ctx
       \/ /\ ~KeyBufferIsEmpty(ctx)
          /\ call' = [call EXCEPT !.read = KeyNotifyIsPartialKey(ctx.buffer[ctx.head])]
          /\ ctx' = KeyBufferRemove(ctx)
    /\ UNCHANGED <<held, step, host>>

SimpleTextInReadKeyStrokeEx ==
    /\ Client /\ ~call.read /\ ~KeyBufferIsEmpty(ctx)
    /\ ctx' = KeyBufferRemove(ctx)
    /\ UNCHANGED <<held, step, call, host>>

\* SimpleTextInWaitForKey drops the partial keys at the head of the ring.
SimpleTextInWaitForKey ==
    /\ Client /\ ctx.connected
    /\ LET keys == Content(ctx)
           n == Max({k \in 0 .. Len(keys) : \A i \in 1 .. k : KeyNotifyIsPartialKey(keys[i])})
       IN  ctx' = [ctx EXCEPT !.head = (@ + n) % BufferSize, !.want = SubSeq(@, n + 1, Len(@)),
                      !.buffer = [i \in DOMAIN @ |-> IF (i - ctx.head + BufferSize) % BufferSize < n
                                                     THEN NoKey ELSE @[i]]]
    /\ UNCHANGED <<held, step, call, host>>

\* SimpleTextInReset forgets the keys and the flags; the LEDs are left as they are.
SimpleTextInReset ==
    /\ Client
    /\ ctx' = [KeyBufferInitialize(ctx) EXCEPT !.shift = {}, !.toggle = {}]
    /\ UNCHANGED <<held, step, call, host>>

\* SimpleTextInSetState assigns the flags with messages held off; they are let through
\* before SynthKeyChannelSetIndicators sends the flags it has read.
SimpleTextInSetState(toggle) ==
    /\ Client /\ call.led = "none"
    /\ ctx' = [ctx EXCEPT !.toggle = toggle]
    /\ call' = [call EXCEPT !.led = "send", !.flags = toggle \ {"exposed"}]
    /\ UNCHANGED <<held, step, host>>

SynthKeyChannelSetIndicators ==
    /\ Client /\ call.led = "send"
    /\ host' = [host EXCEPT !.leds = call.flags]
    /\ call' = [call EXCEPT !.led = "none", !.flags = {}]
    /\ UNCHANGED <<held, step, ctx>>

SimpleTextInRegisterKeyNotify(r) ==
    /\ Client
    /\ ctx' = [ctx EXCEPT !.notify = Register(@, r)]
    /\ UNCHANGED <<held, step, call, host>>

SimpleTextInUnregisterKeyNotify(r) ==
    /\ Client /\ r \in ToSet(ctx.notify)
    /\ ctx' = [ctx EXCEPT !.notify = Unregister(@, r)]
    /\ UNCHANGED <<held, step, call, host>>
-----------------------------------------------------------------------------
Next ==
    \/ SynthKeyDriverStart \/ SynthKeyDriverStop \/ KeyNotifyFire \/ Queued
    \/ \E m \in Keystrokes : OnMessageEvent(m)
    \/ SimpleTextInReadKeyStroke \/ SimpleTextInReadKeyStrokeEx \/ SimpleTextInWaitForKey
    \/ SimpleTextInReset \/ SynthKeyChannelSetIndicators
    \/ SimpleTextInSetState({"exposed"})
    \/ \E r \in Registrations : SimpleTextInRegisterKeyNotify(r) \/ SimpleTextInUnregisterKeyNotify(r)

Spec == Init /\ [][Next]_vars
-----------------------------------------------------------------------------

\* The ring holds, in order, the keys that were queued and not read, and when there were
\* more than it has room for, the latest of them.
KeysInOrder == Content(ctx) = ctx.want

\* When the walk of the notification list ends, every function that was registered for
\* the key when it arrived, and still is, has been called once, whatever the functions
\* called before it registered and unregistered.
NotifiedOnce ==
    call.at = WalkEnd =>
        \A r \in call.must : Cardinality({i \in 1 .. Len(call.called) : call.called[i] = r}) = 1

\* Not so: the clean-up of a start that failed runs to its end, however little was initialised.
CleanupHandlesPartial == step # "fault"

\* A key comes with the shift state it was pressed in.
KeyStateReported == call.at # NoWalk => call.key.shift \ {"valid"} = call.pressed

\* Outside the four messages of the Pause key, which begin with one prefixed E1 and end
\* with the release of Num Lock, Num Lock is not taken for Pause.
NumLockTranslated ==
    call.at # NoWalk /\ ~host.pausing => call.key.scan # "pause"
===============================================================================
