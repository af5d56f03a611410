---------------------------- MODULE EfiHvProofs -----------------------------
(***************************************************************************)
(* Proofs about EfiHv for every number of messages, interrupt sources and  *)
(* vectors: no message is stranded in the hypervisor's queue, although the *)
(* store that empties the slot reaches memory late; vectors are routed to  *)
(* the interrupt source that is connected.                                 *)
(***************************************************************************)
EXTENDS EfiHv, TLAPS

Contexts == {"bypass", "normal"}
Live == {"absent", "idle", "clear", "check"}
Disconnecting == {"disconnect", "drain", "drainClear", "drainCheck"}

CtxType ==
    [mode : Modes,
     sint : [Sints -> Vectors \cup {NoVector}],
     vectorSint : [Vectors -> Sints \cup {0}],
     timer : [enable : BOOLEAN, direct : BOOLEAN, vector : Vectors \cup {NoVector}],
     direct : SUBSET Vectors,
     buffered : BOOLEAN,
     input : [{"own", "shared"} -> Hypercalls \cup {"none"}],
     filled : Hypercalls \cup {"none"},
     after : {"none", "failed", "exited"}]

HostType ==
    [cpu : [Vectors -> {"none", "sint", "timer"}],
     register : [Contexts -> [Sints -> {"masked", "vector"}]],
     armed : BOOLEAN, torn : SUBSET Hypercalls,
     slot : Nat, pending : BOOLEAN, queue : Seq(Nat), posted : Nat,
     at : {"idle", "try", "recheck"}, irq : BOOLEAN, missed : BOOLEAN,
     taken : Seq(Nat)]

TypeOK ==
    /\ held \subseteq Owned
    /\ step \in Live \cup Disconnecting \cup {"failed", "exited"}
    /\ ctx \in CtxType
    /\ host \in HostType
    /\ step \in Disconnecting => ctx.after # "none"

\* Messages are numbered as they are posted: the queue holds the last ones, the slot the one
\* before them, and what was taken is older.
Delivered == host.posted - Len(host.queue)

Numbered ==
    /\ Len(host.queue) <= host.posted
    /\ \A i \in 1 .. Len(host.queue) : host.queue[i] = Delivered + i
    /\ host.slot # 0 => host.slot = Delivered
    /\ \A i \in 1 .. Len(host.taken) : host.taken[i] <= Delivered
    /\ \A i \in 2 .. Len(host.taken) : host.taken[i - 1] < host.taken[i]

\* The message in the slot has not been taken yet.
Untaken == host.slot # 0 /\ step # "clear" /\ ~ctx.buffered

\* Between EfiHvGetSintMessage and the store that clears the slot the message in it has been
\* taken; any other one has its interrupt coming, and what waits behind it is announced by
\* the pending flag, or by the hypervisor that has not looked yet.
SlotInv ==
    /\ ctx.buffered => step = "check"
    /\ step = "clear" \/ ctx.buffered => host.slot # 0 /\ ~host.irq
    /\ host.irq => host.slot # 0
    /\ Untaken => \A i \in 1 .. Len(host.taken) : host.taken[i] < host.slot
    /\ ~host.missed =>
         /\ Untaken => host.irq
         /\ host.irq => ctx.sint[MessageSint] # NoVector
         /\ Len(host.taken) = IF Untaken THEN Delivered - 1 ELSE Delivered
    /\ host.queue # <<>> /\ host.at = "idle" =>
         host.pending /\ (host.slot # 0 \/ step = "check")
    /\ host.at = "recheck" => host.pending

\* The owner of a vector is unique, and the direct timer keeps the vector it was given.
Routed ==
    /\ \A s \in Sints : ctx.sint[s] # NoVector =>
         /\ host.cpu[ctx.sint[s]] = "sint"
         /\ ctx.vectorSint[ctx.sint[s]] = s
         /\ \A c \in ContextsInUse : host.register[c][s] = "vector"
    /\ \A v \in Vectors : host.cpu[v] = "sint" => \E s \in Sints : ctx.sint[s] = v
    /\ \A v \in Vectors : host.cpu[v] = "timer" => ctx.timer.direct /\ ctx.timer.vector = v
    /\ ctx.timer.direct => /\ ctx.timer.enable
                           /\ ctx.timer.vector \in Vectors
                           /\ host.cpu[ctx.timer.vector] = "timer"

IInv == TypeOK /\ Numbered /\ (step \in Live => SlotInv) /\ Routed
-----------------------------------------------------------------------------
(***************************************************************************)
(* The invariant holds before EfiHvInitialize.                             *)
(***************************************************************************)
LEMMA InitIInv == Init => IInv
<1> SUFFICES ASSUME Init PROVE IInv  OBVIOUS
<1>1. TypeOK
  <2>1. ctx \in CtxType
    <3>1. /\ ctx.mode \in Modes /\ ctx.sint = [s \in Sints |-> NoVector]
          /\ ctx.vectorSint = [v \in Vectors |-> 0]
          /\ ctx.timer = [enable |-> FALSE, direct |-> FALSE, vector |-> NoVector]
          /\ ctx.direct = {} /\ ctx.buffered = FALSE
          /\ ctx.input = [p \in {"own", "shared"} |-> "none"]
          /\ ctx.filled = "none" /\ ctx.after = "none"
      BY Zenon DEF Init
    <3>2. ctx = [mode |-> ctx.mode, sint |-> ctx.sint, vectorSint |-> ctx.vectorSint,
                 timer |-> ctx.timer, direct |-> ctx.direct, buffered |-> ctx.buffered,
                 input |-> ctx.input, filled |-> ctx.filled, after |-> ctx.after]
      BY DEF Init
    <3>3. /\ ctx.sint \in [Sints -> Vectors \cup {NoVector}]
          /\ ctx.vectorSint \in [Vectors -> Sints \cup {0}]
          /\ ctx.timer \in [enable : BOOLEAN, direct : BOOLEAN, vector : Vectors \cup {NoVector}]
          /\ ctx.input \in [{"own", "shared"} -> Hypercalls \cup {"none"}]
      BY <3>1
    <3> QED  BY <3>1, <3>2, <3>3, Zenon DEF CtxType
  <2>2. host \in HostType
    BY DEF Init, HostType, Contexts
  <2>3. held \subseteq Owned /\ step = "absent"
    BY DEF Init
  <2> QED  BY <2>1, <2>2, <2>3 DEF TypeOK, Live, Disconnecting
<1>2. Numbered
  BY DEF Init, Numbered, Delivered
<1>3. SlotInv
  <2>1. ctx.buffered = FALSE /\ step = "absent"
    BY Zenon DEF Init
  <2>6. host.irq = FALSE
    BY DEF Init
  <2>2. /\ host.slot = 0 /\ host.queue = <<>> /\ host.at = "idle"
        /\ host.taken = <<>> /\ host.posted = 0
    BY DEF Init
  <2>3. ~ctx.buffered /\ ~host.irq
    BY <2>1, <2>6, Zenon
  <2>5. ~Untaken
    BY <2>2 DEF Untaken
  <2>4. Len(host.taken) = Delivered
    <3>1. Len(host.taken) = 0 /\ Len(host.queue) = 0 /\ host.posted = 0
      BY DEF Init
    <3> QED  BY <3>1 DEF Delivered
  <2> QED  BY <2>1, <2>2, <2>3, <2>4, <2>5 DEF SlotInv
<1>4. Routed
  BY DEF Init, Routed
<1> QED  BY <1>1, <1>2, <1>3, <1>4 DEF IInv

(***************************************************************************)
(* Deliver, the hypervisor writing its next message, keeps the types.      *)
(***************************************************************************)
LEMMA DeliverType ==
    ASSUME host \in HostType
    PROVE  Deliver(host) \in HostType
<1>1. CASE host.queue = <<>>
  BY <1>1 DEF HostType, Deliver
<1>2. CASE host.queue # <<>>
  <2> DEFINE more == Len(host.queue) > 1
             on == ctx.sint[MessageSint] # NoVector
             lost == host.missed \/ ctx.sint[MessageSint] = NoVector
  <2>1. host.queue \in Seq(Nat)  BY DEF HostType
  <2>2. Head(host.queue) \in Nat /\ Tail(host.queue) \in Seq(Nat)
    BY <1>2, <2>1
  <2>3. Deliver(host) = [host EXCEPT !.slot = Head(host.queue), !.queue = Tail(host.queue),
                                     !.pending = more, !.irq = on, !.at = "idle",
                                     !.missed = lost]
    BY <1>2 DEF Deliver
  <2>4. more \in BOOLEAN /\ on \in BOOLEAN /\ lost \in BOOLEAN
    OBVIOUS
  <2> HIDE DEF more, on, lost
  <2> QED  BY <2>2, <2>3, <2>4, ZenonT(60) DEF HostType
<1> QED  BY <1>1, <1>2

(***************************************************************************)
(* EfiHvDisconnectSint of some of the SINTs keeps the types.               *)
(***************************************************************************)
LEMMA DisconnectedType ==
    ASSUME ctx \in CtxType, host \in HostType, NEW S \in SUBSET Sints
    PROVE  DisconnectedCtx(ctx, S) \in CtxType /\ DisconnectedHost(ctx, host, S) \in HostType
<1>1. DisconnectedCtx(ctx, S) \in CtxType
  <2> DEFINE vs == [v \in Vectors |-> IF \E s \in S : ctx.sint[s] = v THEN 0
                                      ELSE ctx.vectorSint[v]]
             si == [s \in Sints |-> IF s \in S THEN NoVector ELSE ctx.sint[s]]
  <2>1. DisconnectedCtx(ctx, S) = [ctx EXCEPT !.vectorSint = vs, !.sint = si]
    BY DEF DisconnectedCtx, CtxType
  <2>2. vs \in [Vectors -> Sints \cup {0}] /\ si \in [Sints -> Vectors \cup {NoVector}]
    BY DEF CtxType
  <2> HIDE DEF vs, si
  <2> QED  BY <2>1, <2>2, Zenon DEF CtxType
<1>2. DisconnectedHost(ctx, host, S) \in HostType
  <2> DEFINE re == [x \in DOMAIN host.register |->
                       [s \in Sints |-> IF s \in S /\ x \in ContextsInUse
                                        THEN "masked" ELSE host.register[x][s]]]
             cp == [v \in Vectors |-> IF \E s \in S : ctx.sint[s] = v THEN "none"
                                      ELSE host.cpu[v]]
             lost == host.missed \/ (MessageSint \in S /\ host.slot # 0)
  <2>1. DisconnectedHost(ctx, host, S) = [host EXCEPT !.register = re, !.cpu = cp, !.missed = lost]
    BY DEF DisconnectedHost, HostType
  <2>2. re \in [Contexts -> [Sints -> {"masked", "vector"}]]
    BY DEF HostType
  <2>3. cp \in [Vectors -> {"none", "sint", "timer"}]
    BY DEF HostType
  <2>4. lost \in BOOLEAN
    OBVIOUS
  <2> HIDE DEF re, cp, lost
  <2> QED  BY <2>1, <2>2, <2>3, <2>4, ZenonT(60) DEF HostType
<1> QED  BY <1>1, <1>2

(***************************************************************************)
(* Every step keeps the types.                                             *)
(***************************************************************************)
LEMMA TypeStep == TypeOK /\ [Next]_vars => TypeOK'
<1> SUFFICES ASSUME TypeOK, [Next]_vars PROVE TypeOK'  OBVIOUS
<1> USE DEF TypeOK, Live, Disconnecting
<1>1. CASE EfiHvInitialize
  <2>1. held' \subseteq Owned
    BY <1>1 DEF EfiHvInitialize, EfiHvDisconnectFromHypervisor, HeldAfter
  <2>2. ctx' \in CtxType
    BY <1>1, ZenonT(60) DEF EfiHvInitialize, CtxType
  <2>3. host' = host
    BY <1>1 DEF EfiHvInitialize
  <2>4. /\ step' \in {"disconnect", "failed", "idle"}
        /\ step' = "disconnect" => ctx'.after # "none"
    BY <1>1, Zenon DEF EfiHvInitialize, CtxType
  <2> QED  BY <2>1, <2>2, <2>3, <2>4
<1>2. ASSUME NEW s \in Sints, NEW v \in Vectors, EfiHvConnectSint(s, v) PROVE TypeOK'
  <2>1. CASE host.cpu[v] # "none"
    BY <1>2, <2>1 DEF EfiHvConnectSint
  <2>2. CASE host.cpu[v] = "none"
    <3>1. ctx' \in CtxType
      <4>1. ctx' = [ctx EXCEPT !.sint = [ctx.sint EXCEPT ![s] = v],
                               !.vectorSint = [ctx.vectorSint EXCEPT ![v] = s]]
        BY <1>2, <2>2 DEF EfiHvConnectSint, CtxType
      <4>2. /\ [ctx.sint EXCEPT ![s] = v] \in [Sints -> Vectors \cup {NoVector}]
            /\ [ctx.vectorSint EXCEPT ![v] = s] \in [Vectors -> Sints \cup {0}]
        BY DEF CtxType
      <4> QED  BY <4>1, <4>2, Zenon DEF CtxType
    <3>2. WriteSint(host.register, s, "vector") \in [Contexts -> [Sints -> {"masked", "vector"}]]
      BY DEF WriteSint, HostType
    <3>3. host' = [host EXCEPT !.cpu[v] = "sint",
                               !.register = WriteSint(host.register, s, "vector")]
      BY <1>2, <2>2 DEF EfiHvConnectSint, HostType
    <3>4. host' \in HostType
      BY <3>2, <3>3, Zenon DEF HostType
    <3> QED  BY <1>2, <3>1, <3>4 DEF EfiHvConnectSint
  <2> QED  BY <2>1, <2>2
<1>3. ASSUME NEW s \in Sints, EfiHvDisconnectSint(s) PROVE TypeOK'
  <2>1. ctx' \in CtxType /\ host' \in HostType
    BY <1>3, DisconnectedType DEF EfiHvDisconnectSint
  <2> QED  BY <1>3, <2>1 DEF EfiHvDisconnectSint
<1>4. ASSUME NEW direct \in BOOLEAN, NEW v \in Vectors, EfiHvConfigureTimer(direct, v)
      PROVE  TypeOK'
  <2>1. ctx' \in CtxType /\ host' \in HostType
    BY <1>4, ZenonT(60) DEF EfiHvConfigureTimer, CtxType, HostType
  <2> QED  BY <1>4, <2>1 DEF EfiHvConfigureTimer
<1>5. ASSUME NEW c \in Hypercalls, HypercallRaised(c) \/ FillInput(c) \/ IssueFilled(c)
      PROVE  TypeOK'
  <2>1. InputPage(c) \in {"own", "shared"}
    BY DEF InputPage
  <2> DEFINE inp(x) == [ctx.input EXCEPT ![InputPage(c)] = x]
  <2>2. \A x \in Hypercalls \cup {"none"} :
          inp(x) \in [{"own", "shared"} -> Hypercalls \cup {"none"}]
    BY <2>1 DEF CtxType
  <2>3. /\ [ctx EXCEPT !.input = inp("none"), !.filled = "none"] \in CtxType
        /\ [ctx EXCEPT !.input = inp("none")] \in CtxType
        /\ [ctx EXCEPT !.input = inp(c), !.filled = c] \in CtxType
    BY <2>2, Zenon DEF CtxType
  <2>4. ctx' \in {[ctx EXCEPT !.input = inp("none"), !.filled = "none"],
                  [ctx EXCEPT !.input = inp("none")],
                  [ctx EXCEPT !.input = inp(c), !.filled = c]}
    <3>1. CASE FillInput(c)
      BY <3>1 DEF FillInput, CtxType
    <3>2. CASE HypercallRaised(c) \/ IssueFilled(c)
      BY <3>2, ZenonT(60) DEF HypercallRaised, IssueFilled, Issue, CtxType
    <3> QED  BY <1>5, <3>1, <3>2
  <2>5. host' \in {host, [host EXCEPT !.torn = host.torn \cup {c}]}
    BY <1>5 DEF HypercallRaised, FillInput, IssueFilled, Issue, HostType
  <2>6. [host EXCEPT !.torn = host.torn \cup {c}] \in HostType
    BY Zenon DEF HostType
  <2> QED  BY <1>5, <2>3, <2>4, <2>5, <2>6 DEF HypercallRaised, FillInput, IssueFilled
<1>6. CASE HostPost
  <2>1. Append(host.queue, host.posted + 1) \in Seq(Nat) /\ host.posted + 1 \in Nat
    BY DEF HostType
  <2>2. host' \in HostType
    BY <1>6, <2>1, Zenon DEF HostPost, HostType
  <2> QED  BY <1>6, <2>2 DEF HostPost
<1>7. CASE HostDeliver \/ HostRecheck
  <2>1. host' \in HostType
    <3>1. CASE host.slot = 0
      BY <1>7, <3>1, DeliverType DEF HostDeliver, HostRecheck
    <3>2. CASE host.slot # 0
      <4>1. /\ [host EXCEPT !.pending = TRUE, !.at = "recheck"] \in HostType
            /\ [host EXCEPT !.at = "idle"] \in HostType
        BY ZenonT(60) DEF HostType
      <4>2. host' \in {[host EXCEPT !.pending = TRUE, !.at = "recheck"], [host EXCEPT !.at = "idle"]}
        BY <1>7, <3>2 DEF HostDeliver, HostRecheck
      <4> QED  BY <4>1, <4>2
    <3> QED  BY <3>1, <3>2
  <2> QED  BY <1>7, <2>1 DEF HostDeliver, HostRecheck
<1>8. CASE StoreDrains
  <2>1. ctx' \in CtxType /\ host' \in HostType
    BY <1>8, Zenon DEF StoreDrains, CtxType, HostType
  <2>2. ctx'.after = ctx.after
    BY <1>8 DEF StoreDrains, CtxType
  <2> QED  BY <1>8, <2>1, <2>2 DEF StoreDrains
<1>9. CASE EfiHvInterruptHandler
  <2>1. Append(host.taken, host.slot) \in Seq(Nat)
    BY DEF HostType
  <2>3. /\ [host EXCEPT !.irq = FALSE, !.taken = Append(host.taken, host.slot)] \in HostType
        /\ [host EXCEPT !.irq = FALSE] \in HostType
    BY <2>1, Zenon DEF HostType
  <2>2. host' \in HostType /\ step' \in {"idle", "clear"}
    BY <1>9, <2>3, Zenon DEF EfiHvInterruptHandler
  <2> QED  BY <1>9, <2>2 DEF EfiHvInterruptHandler
<1>10. CASE ClearSlot
  <2>1. ctx' \in CtxType /\ ctx'.after = ctx.after
    BY <1>10, Zenon DEF ClearSlot, CtxType
  <2> QED  BY <1>10, <2>1 DEF ClearSlot
<1>11. CASE CheckPending
  <2>1. host' \in HostType
    BY <1>11, DeliverType DEF CheckPending, SynicEom
  <2> QED  BY <1>11, <2>1 DEF CheckPending, Checked
<1>12. CASE EfiHvExitBootServices
  <2>1. ctx' \in CtxType /\ ctx'.after # "none"
    BY <1>12 DEF EfiHvExitBootServices, CtxType
  <2> QED  BY <1>12, <2>1 DEF EfiHvExitBootServices
<1>13. CASE DisconnectSints
  <2>1. ctx' \in CtxType /\ DisconnectedHost(ctx, host, Sints) \in HostType
    BY <1>13, DisconnectedType DEF DisconnectSints
  <2>2. host' \in HostType
    BY <1>13, <2>1, ZenonT(60) DEF DisconnectSints, HostType
  <2>3. ctx'.after = ctx.after
    BY <1>13 DEF DisconnectSints, DisconnectedCtx, CtxType
  <2> QED  BY <1>13, <2>1, <2>2, <2>3 DEF DisconnectSints
<1>14. CASE DrainMessages
  <2>1. ctx.after \in {"failed", "exited"}
    BY <1>14 DEF DrainMessages, CtxType
  <2> QED  BY <1>14, <2>1 DEF DrainMessages, EfiHvDisconnectFromHypervisor
<1>15. CASE UNCHANGED vars
  BY <1>15 DEF vars
<1> QED
  BY <1>1, <1>2, <1>3, <1>4, <1>5, <1>6, <1>7, <1>8, <1>9, <1>10, <1>11, <1>12, <1>13, <1>14,
     <1>15 DEF Next

(***************************************************************************)
(* Vectors stay with the SINT or the timer they were given to.             *)
(***************************************************************************)
LEMMA RoutedStep ==
    ASSUME EfiHvConstants, TypeOK, Routed, [Next]_vars
    PROVE  Routed'
<1>1. ASSUME ctx'.mode = ctx.mode, ctx'.sint = ctx.sint, ctx'.vectorSint = ctx.vectorSint,
             ctx'.timer = ctx.timer, host'.cpu = host.cpu, host'.register = host.register
      PROVE  Routed'
  BY <1>1 DEF Routed, ContextsInUse, mUseBypassContext, mBypassOnly
<1>2. ASSUME NEW S \in SUBSET Sints, ctx' = DisconnectedCtx(ctx, S),
             host'.cpu = DisconnectedHost(ctx, host, S).cpu,
             host'.register = DisconnectedHost(ctx, host, S).register
      PROVE  Routed'
  <2>1. /\ ctx'.mode = ctx.mode /\ ctx'.timer = ctx.timer
        /\ ctx'.sint = [s \in Sints |-> IF s \in S THEN NoVector ELSE ctx.sint[s]]
        /\ ctx'.vectorSint = [v \in Vectors |-> IF \E s \in S : ctx.sint[s] = v THEN 0
                                                ELSE ctx.vectorSint[v]]
    BY <1>2 DEF DisconnectedCtx, TypeOK, CtxType
  <2>2. /\ host'.cpu = [v \in Vectors |-> IF \E s \in S : ctx.sint[s] = v THEN "none"
                                          ELSE host.cpu[v]]
        /\ host'.register = [x \in Contexts |->
                                [s \in Sints |-> IF s \in S /\ x \in ContextsInUse
                                                 THEN "masked" ELSE host.register[x][s]]]
    BY <1>2 DEF DisconnectedHost, TypeOK, HostType
  <2>3. ContextsInUse' = ContextsInUse /\ ContextsInUse \subseteq Contexts
    BY <2>1 DEF ContextsInUse, mUseBypassContext, mBypassOnly, Contexts
  <2>4. ASSUME NEW s \in Sints, ctx'.sint[s] # NoVector
        PROVE  /\ host'.cpu[ctx'.sint[s]] = "sint"
               /\ ctx'.vectorSint[ctx'.sint[s]] = s
               /\ \A c \in ContextsInUse' : host'.register[c][s] = "vector"
    <3>1. s \notin S /\ ctx'.sint[s] = ctx.sint[s] /\ ctx.sint[s] \in Vectors
      BY <2>1, <2>4 DEF TypeOK, CtxType
    <3>2. \A t \in S : ctx.sint[t] # ctx.sint[s]
      BY <2>4, <3>1 DEF Routed
    <3> QED  BY <2>1, <2>2, <2>3, <2>4, <3>1, <3>2 DEF Routed
  <2>5. ASSUME NEW v \in Vectors, host'.cpu[v] = "sint"
        PROVE  \E s \in Sints : ctx'.sint[s] = v
    BY <2>1, <2>2, <2>5 DEF Routed
  <2>6. ASSUME NEW v \in Vectors, host'.cpu[v] = "timer"
        PROVE  ctx'.timer.direct /\ ctx'.timer.vector = v
    <3>1. host.cpu[v] = "timer"
      BY <2>2, <2>6
    <3> QED  BY <2>1, <3>1 DEF Routed
  <2>7. ASSUME ctx'.timer.direct
        PROVE  /\ ctx'.timer.enable
               /\ ctx'.timer.vector \in Vectors
               /\ host'.cpu[ctx'.timer.vector] = "timer"
    <3>1. ctx.timer.enable /\ ctx.timer.vector \in Vectors /\ host.cpu[ctx.timer.vector] = "timer"
      BY <2>1, <2>7 DEF Routed
    <3>2. \A s \in S : ctx.sint[s] # ctx.timer.vector
      BY <3>1 DEF Routed, EfiHvConstants
    <3> QED  BY <2>1, <2>2, <3>1, <3>2
  <2> QED  BY <2>4, <2>5, <2>6, <2>7 DEF Routed
<1>3. ASSUME NEW s \in Sints, NEW v \in Vectors, EfiHvConnectSint(s, v) PROVE Routed'
  <2>1. CASE host.cpu[v] # "none"
    BY <1>1, <1>3, <2>1 DEF EfiHvConnectSint
  <2>2. CASE host.cpu[v] = "none"
    <3>1. /\ ctx'.mode = ctx.mode /\ ctx'.timer = ctx.timer
          /\ ctx'.sint = [ctx.sint EXCEPT ![s] = v]
          /\ ctx'.vectorSint = [ctx.vectorSint EXCEPT ![v] = s]
      BY <1>3, <2>2, ZenonT(60) DEF EfiHvConnectSint, TypeOK, CtxType
    <3>2. /\ host'.cpu = [host.cpu EXCEPT ![v] = "sint"]
          /\ host'.register = WriteSint(host.register, s, "vector")
      BY <1>3, <2>2, Zenon DEF EfiHvConnectSint, TypeOK, HostType
    <3>3. ContextsInUse' = ContextsInUse /\ ContextsInUse \subseteq Contexts
      BY <3>1 DEF ContextsInUse, mUseBypassContext, mBypassOnly, Contexts
    <3>4. \A c \in ContextsInUse, t \in Sints :
             host'.register[c][t] = IF t = s THEN "vector" ELSE host.register[c][t]
      BY <3>2, <3>3 DEF WriteSint, TypeOK, HostType
    <3>5. ctx.sint \in [Sints -> Vectors \cup {NoVector}] /\ ctx.vectorSint \in [Vectors -> Sints \cup {0}]
          /\ host.cpu \in [Vectors -> {"none", "sint", "timer"}]
      BY DEF TypeOK, CtxType, HostType
    <3>6. ASSUME NEW t \in Sints, ctx'.sint[t] # NoVector
          PROVE  /\ host'.cpu[ctx'.sint[t]] = "sint"
                 /\ ctx'.vectorSint[ctx'.sint[t]] = t
                 /\ \A c \in ContextsInUse' : host'.register[c][t] = "vector"
      <4>1. CASE t = s
        BY <3>1, <3>2, <3>3, <3>4, <3>5, <4>1
      <4>2. CASE t # s
        <5>1. ctx'.sint[t] = ctx.sint[t] /\ ctx.sint[t] \in Vectors
          BY <3>1, <3>5, <3>6, <4>2
        <5>2. host.cpu[ctx.sint[t]] = "sint" /\ ctx.vectorSint[ctx.sint[t]] = t
              /\ \A c \in ContextsInUse : host.register[c][t] = "vector"
          BY <3>6, <5>1 DEF Routed
        <5>3. ctx.sint[t] # v
          BY <2>2, <5>2
        <5> QED  BY <3>1, <3>2, <3>3, <3>4, <3>5, <4>2, <5>1, <5>2, <5>3
      <4> QED  BY <4>1, <4>2
    <3>7. ASSUME NEW w \in Vectors, host'.cpu[w] = "sint"
          PROVE  \E t \in Sints : ctx'.sint[t] = w
      <4>1. CASE w = v
        BY <3>1, <3>5, <4>1
      <4>2. CASE w # v
        <5>1. PICK t \in Sints : ctx.sint[t] = w
          BY <3>2, <3>5, <3>7, <4>2 DEF Routed
        <5>2. t # s
          BY <1>3, <5>1 DEF EfiHvConnectSint, EfiHvConstants
        <5> QED  BY <3>1, <3>5, <5>1, <5>2
      <4> QED  BY <4>1, <4>2
    <3>8. ASSUME NEW w \in Vectors, host'.cpu[w] = "timer"
          PROVE  ctx'.timer.direct /\ ctx'.timer.vector = w
      <4>1. host.cpu[w] = "timer"
        BY <3>2, <3>5, <3>8
      <4> QED  BY <3>1, <4>1 DEF Routed
    <3>9. ASSUME ctx'.timer.direct
          PROVE  /\ ctx'.timer.enable
                 /\ ctx'.timer.vector \in Vectors
                 /\ host'.cpu[ctx'.timer.vector] = "timer"
      <4>1. ctx.timer.enable /\ ctx.timer.vector \in Vectors /\ host.cpu[ctx.timer.vector] = "timer"
        BY <3>1, <3>9 DEF Routed
      <4> QED  BY <2>2, <3>1, <3>2, <3>5, <4>1
    <3> QED  BY <3>6, <3>7, <3>8, <3>9 DEF Routed
  <2> QED  BY <2>1, <2>2
<1>4. ASSUME NEW direct \in BOOLEAN, NEW v \in Vectors, EfiHvConfigureTimer(direct, v)
      PROVE  Routed'
  <2>1. /\ ctx'.mode = ctx.mode /\ ctx'.sint = ctx.sint /\ ctx'.vectorSint = ctx.vectorSint
        /\ ctx'.timer = [enable |-> TRUE, direct |-> direct,
                         vector |-> IF direct THEN v ELSE NoVector]
    BY <1>4 DEF EfiHvConfigureTimer, TypeOK, CtxType
  <2>2. /\ host'.register = host.register
        /\ host'.cpu = [host.cpu EXCEPT ![v] = IF direct THEN "timer" ELSE host.cpu[v]]
    BY <1>4 DEF EfiHvConfigureTimer, TypeOK, HostType
  <2>3. ContextsInUse' = ContextsInUse
    BY <2>1 DEF ContextsInUse, mUseBypassContext, mBypassOnly
  <2>4. /\ ctx.sint \in [Sints -> Vectors \cup {NoVector}]
        /\ host.cpu \in [Vectors -> {"none", "sint", "timer"}]
    BY DEF TypeOK, CtxType, HostType
  <2>5. ctx'.timer.enable /\ (ctx'.timer.direct <=> direct)
    BY <2>1
  <2>6. CASE direct
    <3>1. ctx'.timer.vector = v /\ host'.cpu = [host.cpu EXCEPT ![v] = "timer"]
      BY <2>1, <2>2, <2>6
    <3>2. host.cpu[v] # "sint" /\ \A w \in Vectors : host.cpu[w] = "timer" => w = v
      <4>1. CASE ctx.timer.enable
        BY <1>4, <2>6, <4>1 DEF EfiHvConfigureTimer, Routed
      <4>2. CASE ~ctx.timer.enable
        BY <1>4, <2>6, <4>2 DEF EfiHvConfigureTimer, Routed
      <4> QED  BY <4>1, <4>2
    <3>3. \A s \in Sints : ctx.sint[s] # v
      BY <3>2 DEF Routed, EfiHvConstants
    <3>4. \A w \in Vectors : host'.cpu[w] = IF w = v THEN "timer" ELSE host.cpu[w]
      BY <2>4, <3>1
    <3>5. ASSUME NEW s \in Sints, ctx'.sint[s] # NoVector
          PROVE  /\ host'.cpu[ctx'.sint[s]] = "sint"
                 /\ ctx'.vectorSint[ctx'.sint[s]] = s
                 /\ \A c \in ContextsInUse' : host'.register[c][s] = "vector"
      BY <2>1, <2>2, <2>3, <2>4, <3>3, <3>4, <3>5 DEF Routed
    <3>6. \A w \in Vectors : host'.cpu[w] = "sint" => \E s \in Sints : ctx'.sint[s] = w
      BY <2>1, <3>4 DEF Routed
    <3>7. \A w \in Vectors : host'.cpu[w] = "timer" => ctx'.timer.direct /\ ctx'.timer.vector = w
      BY <2>5, <2>6, <3>1, <3>2, <3>4
    <3>8. ctx'.timer.enable /\ ctx'.timer.vector \in Vectors /\ host'.cpu[ctx'.timer.vector] = "timer"
      BY <2>5, <3>1, <3>4
    <3> QED  BY <3>5, <3>6, <3>7, <3>8 DEF Routed
  <2>7. CASE ~direct
    <3>1. ~ctx.timer.direct
      BY <1>4, <2>7 DEF EfiHvConfigureTimer
    <3>2. host'.cpu = host.cpu
      BY <2>2, <2>4, <2>7
    <3>3. \A w \in Vectors : host.cpu[w] # "timer"
      BY <3>1 DEF Routed
    <3> QED  BY <2>1, <2>2, <2>3, <2>5, <2>7, <3>2, <3>3 DEF Routed
  <2> QED  BY <2>6, <2>7
<1>5. ASSUME NEW c \in Hypercalls, HypercallRaised(c) \/ FillInput(c) \/ IssueFilled(c)
      PROVE  Routed'
  BY <1>1, <1>5, ZenonT(120) DEF HypercallRaised, FillInput, IssueFilled, Issue, TypeOK, CtxType, HostType
<1>6. CASE EfiHvInitialize \/ EfiHvExitBootServices \/ ClearSlot
  BY <1>1, <1>6, ZenonT(60) DEF EfiHvInitialize, EfiHvExitBootServices, ClearSlot, TypeOK, CtxType
<1>7. CASE HostPost \/ HostDeliver \/ HostRecheck \/ CheckPending
  BY <1>1, <1>7, Zenon DEF HostPost, HostDeliver, HostRecheck, CheckPending, SynicEom, Deliver, TypeOK, HostType
<1>8. CASE StoreDrains
  BY <1>1, <1>8 DEF StoreDrains, TypeOK, CtxType, HostType
<1>9. CASE EfiHvInterruptHandler
  BY <1>1, <1>9, Zenon DEF EfiHvInterruptHandler, TypeOK, HostType
<1>10. CASE DrainMessages \/ UNCHANGED vars
  BY <1>1, <1>10 DEF DrainMessages, vars
<1>11. ASSUME NEW s \in Sints, EfiHvDisconnectSint(s) PROVE Routed'
  BY <1>2, <1>11 DEF EfiHvDisconnectSint
<1>12. CASE DisconnectSints
  <2>1. /\ host'.cpu = DisconnectedHost(ctx, host, Sints).cpu
        /\ host'.register = DisconnectedHost(ctx, host, Sints).register
    BY <1>12, DisconnectedType DEF DisconnectSints, TypeOK, HostType
  <2> QED  BY <1>2, <1>12, <2>1 DEF DisconnectSints
<1> QED
  BY <1>3, <1>4, <1>5, <1>6, <1>7, <1>8, <1>9, <1>10, <1>11, <1>12 DEF Next

(***************************************************************************)
(* A delivery into the empty slot, from the hypervisor's own look at it or *)
(* for the end-of-message register.                                        *)
(***************************************************************************)
LEMMA DeliverStep ==
    ASSUME TypeOK, Numbered, step \in Live => SlotInv,
           host.slot = 0, host' = Deliver(host), ctx' = ctx,
           step' \in Live => step \in Live /\ (step' = step \/ (step = "check" /\ step' = "idle"))
    PROVE  Numbered' /\ (step' \in Live => SlotInv')
<1>1. CASE host.queue = <<>>
  <2>1. /\ host'.slot = 0 /\ host'.queue = <<>> /\ host'.posted = host.posted
        /\ host'.taken = host.taken /\ host'.at = "idle"
    BY <1>1 DEF Deliver, TypeOK, HostType
  <2>2. host'.irq = host.irq /\ host'.missed = host.missed
    BY <1>1 DEF Deliver, TypeOK, HostType
  <2>3. Numbered'
    BY <1>1, <2>1 DEF Numbered, Delivered
  <2>4. ASSUME step' \in Live PROVE SlotInv'
    <3>1. SlotInv /\ step # "clear" /\ ~ctx.buffered /\ ~host.irq
      BY <2>4 DEF SlotInv
    <3>2. ~Untaken /\ ~Untaken' /\ Delivered' = Delivered
      BY <1>1, <2>1 DEF Untaken, Delivered
    <3>3. step' # "clear" /\ ~ctx'.buffered /\ ~host'.irq
      BY <2>2, <2>4, <3>1
    <3>4. ~host.missed => Len(host.taken) = Delivered
      BY <3>1, <3>2 DEF SlotInv
    <3> QED  BY <2>1, <2>2, <3>2, <3>3, <3>4 DEF SlotInv
  <2> QED  BY <2>3, <2>4
<1>2. CASE host.queue # <<>>
  <2>1. host.queue \in Seq(Nat) /\ host.posted \in Nat
    BY DEF TypeOK, HostType
  <2>2. /\ host'.slot = Head(host.queue) /\ host'.queue = Tail(host.queue)
        /\ host'.posted = host.posted /\ host'.taken = host.taken /\ host'.at = "idle"
    BY <1>2 DEF Deliver, TypeOK, HostType
  <2>3. /\ host'.pending = (Len(host.queue) > 1)
        /\ host'.irq = (ctx.sint[MessageSint] # NoVector)
        /\ host'.missed = (host.missed \/ ctx.sint[MessageSint] = NoVector)
    BY <1>2 DEF Deliver, TypeOK, HostType
  <2>4. Len(host.queue) \in Nat /\ Len(host.queue) > 0 /\ Len(host'.queue) = Len(host.queue) - 1
        /\ \A i \in 1 .. Len(host'.queue) : host'.queue[i] = host.queue[i + 1]
    BY <1>2, <2>1, <2>2
  <2>5. Delivered \in Nat /\ Delivered' = Delivered + 1
    BY <2>1, <2>2, <2>4 DEF Delivered, Numbered
  <2>6. host'.slot = Delivered + 1
    BY <1>2, <2>1, <2>2, <2>4 DEF Numbered
  <2>7. host.taken \in Seq(Nat) /\ Len(host.taken) \in Nat
        /\ \A i \in 1 .. Len(host.taken) : host.taken[i] \in Nat
    BY DEF TypeOK, HostType
  <2>8. Numbered'
    <3>1. Len(host'.queue) <= host'.posted
      BY <2>1, <2>2, <2>4 DEF Numbered
    <3>2. \A i \in 1 .. Len(host'.queue) : host'.queue[i] = Delivered' + i
      BY <2>4, <2>5 DEF Numbered
    <3>3. \A i \in 1 .. Len(host'.taken) : host'.taken[i] <= Delivered'
      BY <2>2, <2>5, <2>7 DEF Numbered
    <3> QED  BY <2>2, <2>5, <2>6, <3>1, <3>2, <3>3 DEF Numbered
  <2>9. ASSUME step' \in Live PROVE SlotInv'
    <3>1. SlotInv /\ step # "clear" /\ ~ctx.buffered /\ step' # "clear" /\ ~ctx'.buffered
      BY <2>9 DEF SlotInv
    <3>2. ~Untaken /\ Untaken'
      BY <2>5, <2>6, <3>1 DEF Untaken
    <3>3. \A i \in 1 .. Len(host'.taken) : host'.taken[i] < host'.slot
      BY <2>2, <2>5, <2>6, <2>7 DEF Numbered
    <3>4. ~host'.missed => ~host.missed /\ host'.irq /\ ctx'.sint[MessageSint] # NoVector
      BY <2>3, Zenon
    <3>5. ~host.missed => Len(host'.taken) = Delivered' - 1
      BY <2>2, <2>5, <2>7, <3>1, <3>2 DEF SlotInv
    <3>6. host'.queue # <<>> => host'.pending
      <4>1. host'.queue # <<>> => Len(host.queue) > 1
        BY <2>1, <2>2, <2>4
      <4> QED  BY <2>3, <4>1, Zenon
    <3>7. host'.slot # 0 /\ host'.at = "idle"
      BY <2>2, <2>5, <2>6
    <3> QED  BY <3>1, <3>2, <3>3, <3>4, <3>5, <3>6, <3>7 DEF SlotInv
  <2> QED  BY <2>8, <2>9
<1> QED  BY <1>1, <1>2

(***************************************************************************)
(* Every step keeps the messages numbered, the slot's message accounted    *)
(* for, and the queue behind it announced.                                 *)
(***************************************************************************)
LEMMA SlotStep ==
    ASSUME EfiHvConstants, IInv, TypeOK', [Next]_vars
    PROVE  Numbered' /\ (step' \in Live => SlotInv')
<1> DEFINE Same == /\ host'.slot = host.slot /\ host'.queue = host.queue
                   /\ host'.posted = host.posted /\ host'.taken = host.taken
           Goal == Numbered' /\ (step' \in Live => SlotInv')
<1> SUFFICES Goal  OBVIOUS
<1> USE DEF IInv
<1>t. /\ host.slot \in Nat /\ host.queue \in Seq(Nat) /\ host.posted \in Nat
      /\ host.taken \in Seq(Nat) /\ Len(host.taken) \in Nat /\ Len(host.queue) \in Nat
      /\ \A i \in 1 .. Len(host.taken) : host.taken[i] \in Nat
  BY DEF TypeOK, HostType
<1>d. Delivered \in Nat
  BY <1>t DEF Delivered, Numbered
<1>1. ASSUME Same PROVE Numbered'
  BY <1>1 DEF Numbered, Delivered
<1>2. ASSUME Same, step' \notin Live PROVE Goal
  BY <1>1, <1>2
<1>3. ASSUME Same, host'.irq = host.irq, host'.missed = host.missed, host'.at = host.at,
             host'.pending = host.pending, ctx'.buffered = ctx.buffered,
             ctx.sint[MessageSint] # NoVector => ctx'.sint[MessageSint] # NoVector,
             step' = step \/ (step = "absent" /\ step' = "idle")
      PROVE  Goal
  <2>1. ASSUME step' \in Live PROVE SlotInv'
    <3>1. SlotInv /\ (step' = "clear" <=> step = "clear") /\ (step' = "check" <=> step = "check")
      BY <1>3, <2>1 DEF Live
    <3>2. (Untaken' <=> Untaken) /\ Delivered' = Delivered
      BY <1>3, <3>1 DEF Untaken, Delivered
    <3> QED  BY <1>3, <3>1, <3>2 DEF SlotInv
  <2> QED  BY <1>1, <1>3, <2>1
<1>4. CASE EfiHvInitialize
  <2>1. host' = host /\ ctx'.buffered = ctx.buffered /\ ctx'.sint = ctx.sint
        /\ step = "absent" /\ step' \in {"idle", "disconnect", "failed"}
    BY <1>4, ZenonT(60) DEF EfiHvInitialize, TypeOK, CtxType
  <2> QED  BY <1>2, <1>3, <2>1 DEF Live
<1>5. ASSUME NEW s \in Sints, NEW v \in Vectors, EfiHvConnectSint(s, v) PROVE Goal
  <2>1. CASE host.cpu[v] # "none"
    BY <1>3, <1>5, <2>1 DEF EfiHvConnectSint
  <2>2. CASE host.cpu[v] = "none"
    <3>1. /\ Same /\ host'.irq = host.irq /\ host'.missed = host.missed
          /\ host'.at = host.at /\ host'.pending = host.pending
      BY <1>5, <2>2, Zenon DEF EfiHvConnectSint, TypeOK, HostType
    <3>2. ctx'.buffered = ctx.buffered /\ ctx'.sint = [ctx.sint EXCEPT ![s] = v]
      BY <1>5, <2>2, ZenonT(60) DEF EfiHvConnectSint, TypeOK, CtxType
    <3>3. ctx.sint[MessageSint] # NoVector => ctx'.sint[MessageSint] # NoVector
      BY <3>2 DEF EfiHvConstants, TypeOK, CtxType
    <3> QED  BY <1>3, <1>5, <3>1, <3>2, <3>3 DEF EfiHvConnectSint
  <2> QED  BY <2>1, <2>2
<1>6. ASSUME NEW s \in Sints, EfiHvDisconnectSint(s) PROVE Goal
  <2>1. /\ Same /\ host'.irq = host.irq
        /\ host'.at = host.at /\ host'.pending = host.pending
    BY <1>6, ZenonT(60) DEF EfiHvDisconnectSint, DisconnectedHost, TypeOK, HostType
  <2>2. host'.missed = (host.missed \/ (MessageSint \in {s} /\ host.slot # 0))
    BY <1>6, ZenonT(60) DEF EfiHvDisconnectSint, DisconnectedHost, TypeOK, HostType
  <2>3. ctx'.buffered = ctx.buffered
        /\ ctx'.sint = [t \in Sints |-> IF t \in {s} THEN NoVector ELSE ctx.sint[t]]
    BY <1>6, Zenon DEF EfiHvDisconnectSint, DisconnectedCtx, TypeOK, CtxType
  <2>4. step' = step /\ step = "idle" /\ SlotInv
    BY <1>6 DEF EfiHvDisconnectSint, Live
  <2>5. (Untaken' <=> Untaken) /\ Delivered' = Delivered
    BY <2>1, <2>3, <2>4 DEF Untaken, Delivered
  <2>6. ~host'.missed => ~host.missed /\ (s = MessageSint => host.slot = 0)
    BY <2>2, ZenonT(60)
  <2>7. ~host'.missed /\ host'.irq => ctx'.sint[MessageSint] # NoVector
    BY <2>1, <2>3, <2>4, <2>6 DEF SlotInv, EfiHvConstants
  <2>8. SlotInv'
    BY <2>1, <2>3, <2>4, <2>5, <2>6, <2>7 DEF SlotInv
  <2> QED  BY <1>1, <2>1, <2>8
<1>7. ASSUME NEW direct \in BOOLEAN, NEW v \in Vectors, EfiHvConfigureTimer(direct, v) PROVE Goal
  <2>1. /\ Same /\ host'.irq = host.irq /\ host'.missed = host.missed
        /\ host'.at = host.at /\ host'.pending = host.pending
    BY <1>7 DEF EfiHvConfigureTimer, TypeOK, HostType
  <2>2. ctx'.buffered = ctx.buffered /\ ctx'.sint = ctx.sint /\ step' = step
    BY <1>7 DEF EfiHvConfigureTimer, TypeOK, CtxType
  <2> QED  BY <1>3, <2>1, <2>2
<1>8. ASSUME NEW c \in Hypercalls, HypercallRaised(c) \/ FillInput(c) \/ IssueFilled(c) PROVE Goal
  <2>1. /\ Same /\ host'.irq = host.irq /\ host'.missed = host.missed
        /\ host'.at = host.at /\ host'.pending = host.pending
    BY <1>8 DEF HypercallRaised, FillInput, IssueFilled, Issue, TypeOK, HostType
  <2>2. ctx'.buffered = ctx.buffered /\ ctx'.sint = ctx.sint /\ step' = step
    BY <1>8, ZenonT(60) DEF HypercallRaised, FillInput, IssueFilled, Issue, TypeOK, CtxType
  <2> QED  BY <1>3, <2>1, <2>2
<1>9. CASE HostPost
  <2>1. /\ host'.posted = host.posted + 1 /\ host'.queue = Append(host.queue, host.posted + 1)
        /\ host'.slot = host.slot /\ host'.taken = host.taken
        /\ host'.at \in {"try", "recheck"} /\ (host'.at = "recheck" => host.at = "recheck")
    BY <1>9 DEF HostPost, TypeOK, HostType
  <2>2. host'.irq = host.irq /\ host'.missed = host.missed /\ host'.pending = host.pending
    BY <1>9 DEF HostPost, TypeOK, HostType
  <2>3. ctx' = ctx /\ step' = step
    BY <1>9 DEF HostPost
  <2>4. /\ Len(host'.queue) = Len(host.queue) + 1
        /\ \A i \in 1 .. Len(host.queue) : host'.queue[i] = host.queue[i]
        /\ host'.queue[Len(host.queue) + 1] = host.posted + 1
    BY <1>t, <2>1
  <2>5. Delivered' = Delivered
    <3>1. host'.posted = host.posted + 1 /\ Len(host'.queue) = Len(host.queue) + 1
      BY <2>1, <2>4
    <3>2. host.posted \in Nat /\ Len(host.queue) \in Nat
      BY <1>t
    <3>3. Delivered' = host'.posted - Len(host'.queue)
      BY Zenon DEF Delivered
    <3>4. Delivered = host.posted - Len(host.queue)
      BY Zenon DEF Delivered
    <3> HIDE <2>1, <2>4
    <3> QED  BY <3>1, <3>2, <3>3, <3>4
  <2>6. Numbered'
    <3>1. \A i \in 1 .. Len(host'.queue) : host'.queue[i] = Delivered' + i
      <4> TAKE i \in 1 .. Len(host'.queue)
      <4>1. CASE i = Len(host.queue) + 1
        BY <1>t, <2>4, <2>5, <4>1 DEF Delivered
      <4>2. CASE i # Len(host.queue) + 1
        <5>1. i \in 1 .. Len(host.queue)
          BY <1>t, <2>4, <4>2
        <5> QED  BY <2>4, <2>5, <5>1 DEF Numbered
      <4> QED  BY <4>1, <4>2
    <3>2. Len(host'.queue) <= host'.posted
      BY <1>t, <2>1, <2>4 DEF Numbered
    <3> QED  BY <2>1, <2>5, <3>1, <3>2 DEF Numbered
  <2>7. ASSUME step' \in Live PROVE SlotInv'
    <3>1. SlotInv /\ (Untaken' <=> Untaken)
      BY <2>1, <2>3, <2>7 DEF Untaken
    <3> QED  BY <2>1, <2>2, <2>3, <2>5, <3>1 DEF SlotInv
  <2> QED  BY <2>6, <2>7
<1>10. CASE HostDeliver \/ HostRecheck
  <2>1. CASE host.slot = 0
    BY <1>10, <2>1, DeliverStep DEF HostDeliver, HostRecheck
  <2>2. CASE host.slot # 0
    <3>1. Same /\ host'.at \in {"recheck", "idle"} /\ ctx' = ctx /\ step' = step
      BY <1>10, <2>2, ZenonT(60) DEF HostDeliver, HostRecheck, TypeOK, HostType
    <3>2. host'.irq = host.irq /\ host'.missed = host.missed
      BY <1>10, <2>2, ZenonT(60) DEF HostDeliver, HostRecheck, TypeOK, HostType
    <3>3. ASSUME step' \in Live PROVE SlotInv'
      <4>1. SlotInv /\ (Untaken' <=> Untaken) /\ Delivered' = Delivered
        BY <3>1, <3>3 DEF Untaken, Delivered
      <4>2. host'.pending
        <5>1. CASE HostDeliver
          BY <2>2, <5>1 DEF HostDeliver, TypeOK, HostType
        <5>2. CASE HostRecheck
          <6>1. host.at = "recheck" /\ host'.pending = host.pending
            BY <2>2, <5>2 DEF HostRecheck, TypeOK, HostType
          <6> QED  BY <4>1, <6>1 DEF SlotInv
        <5> QED  BY <1>10, <5>1, <5>2
      <4> QED  BY <2>2, <3>1, <3>2, <4>1, <4>2 DEF SlotInv
    <3> QED  BY <1>1, <3>1, <3>3
  <2> QED  BY <2>1, <2>2
<1>11. CASE StoreDrains
  <2>1. /\ host'.slot = 0 /\ host'.queue = host.queue /\ host'.posted = host.posted
        /\ host'.taken = host.taken /\ host'.at = host.at
    BY <1>11 DEF StoreDrains, TypeOK, HostType
  <2>2. host'.irq = host.irq /\ host'.missed = host.missed /\ host'.pending = host.pending
    BY <1>11 DEF StoreDrains, TypeOK, HostType
  <2>3. ctx.buffered /\ ~ctx'.buffered /\ ctx'.sint = ctx.sint /\ step' = step
    BY <1>11 DEF StoreDrains, TypeOK, CtxType
  <2>4. Delivered' = Delivered
    BY <2>1 DEF Delivered
  <2>5. Numbered'
    BY <2>1, <2>4 DEF Numbered
  <2>6. ASSUME step' \in Live PROVE SlotInv'
    <3>1. SlotInv /\ step = "check" /\ ~host.irq /\ ~Untaken
      BY <2>3, <2>6 DEF SlotInv, Untaken
    <3>2. ~Untaken'
      BY <2>1 DEF Untaken
    <3>3. ~host.missed => Len(host.taken) = Delivered
      BY <3>1 DEF SlotInv
    <3> QED  BY <2>1, <2>2, <2>3, <2>4, <3>1, <3>2, <3>3 DEF SlotInv
  <2> QED  BY <2>5, <2>6
<1>12. CASE EfiHvInterruptHandler
  <2> DEFINE v == ctx.sint[MessageSint]
             called == /\ v # NoVector /\ host.cpu[v] = "sint" /\ ctx.vectorSint[v] = MessageSint
                       /\ EfiHvGetSintMessage # 0
  <2>1. step = "idle" /\ host.irq /\ SlotInv /\ ctx' = ctx
    BY <1>12 DEF EfiHvInterruptHandler, Live
  <2>2. ~ctx.buffered /\ host.slot # 0 /\ Untaken
    BY <2>1 DEF SlotInv, Untaken
  <2>3. CASE called
    <3>1. step' = "clear" /\ host' = [host EXCEPT !.irq = FALSE, !.taken = Append(@, host.slot)]
      BY <1>12, <2>3 DEF EfiHvInterruptHandler
    <3>2. /\ host'.slot = host.slot /\ host'.queue = host.queue /\ host'.posted = host.posted
          /\ host'.at = host.at /\ host'.taken = Append(host.taken, host.slot)
      BY <3>1 DEF TypeOK, HostType
    <3>3. ~host'.irq /\ host'.missed = host.missed /\ host'.pending = host.pending
      BY <3>1 DEF TypeOK, HostType
    <3>4. /\ Len(host'.taken) = Len(host.taken) + 1
          /\ \A i \in 1 .. Len(host.taken) : host'.taken[i] = host.taken[i]
          /\ host'.taken[Len(host.taken) + 1] = host.slot
      BY <1>t, <3>2
    <3>5. Delivered' = Delivered /\ host.slot = Delivered
      BY <2>2, <3>2 DEF Delivered, Numbered
    <3>6. \A i \in 1 .. Len(host.taken) : host.taken[i] < host.slot
      BY <2>1, <2>2 DEF SlotInv
    <3>7. \A i \in 2 .. Len(host'.taken) : host'.taken[i - 1] < host'.taken[i]
      <4> TAKE i \in 2 .. Len(host'.taken)
      <4>1. CASE i = Len(host.taken) + 1
        <5>1. i - 1 \in 1 .. Len(host.taken) /\ host'.taken[i] = host.slot
          BY <1>t, <3>4, <4>1
        <5> QED  BY <3>4, <3>6, <5>1
      <4>2. CASE i # Len(host.taken) + 1
        <5>1. i \in 2 .. Len(host.taken) /\ i \in 1 .. Len(host.taken)
              /\ i - 1 \in 1 .. Len(host.taken)
          BY <1>t, <3>4, <4>2
        <5> QED  BY <3>4, <5>1 DEF Numbered
      <4> QED  BY <4>1, <4>2
    <3>8. \A i \in 1 .. Len(host'.taken) : host'.taken[i] <= Delivered'
      <4> TAKE i \in 1 .. Len(host'.taken)
      <4>1. CASE i = Len(host.taken) + 1
        BY <1>d, <3>4, <3>5, <4>1
      <4>2. CASE i # Len(host.taken) + 1
        <5>1. i \in 1 .. Len(host.taken)
          BY <1>t, <3>4, <4>2
        <5> QED  BY <3>4, <3>5, <5>1 DEF Numbered
      <4> QED  BY <4>1, <4>2
    <3>9. Numbered'
      BY <3>2, <3>5, <3>7, <3>8 DEF Numbered
    <3>10. ~Untaken' /\ ~ctx'.buffered
      BY <2>1, <2>2, <3>1 DEF Untaken
    <3>11. ~host'.missed => Len(host'.taken) = Delivered'
      <4>1. ~host.missed => Len(host.taken) = Delivered - 1
        BY <2>1, <2>2 DEF SlotInv
      <4> QED  BY <1>t, <1>d, <3>3, <3>4, <3>5, <4>1
    <3>12. SlotInv'
      BY <2>1, <2>2, <3>1, <3>2, <3>3, <3>10, <3>11 DEF SlotInv
    <3> QED  BY <3>9, <3>12
  <2>4. CASE ~called
    <3>1. step' = step /\ host' = [host EXCEPT !.irq = FALSE]
      BY <1>12, <2>4 DEF EfiHvInterruptHandler
    <3>2. Same /\ host'.at = host.at
      BY <3>1 DEF TypeOK, HostType
    <3>3. ~host'.irq /\ host'.missed = host.missed /\ host'.pending = host.pending
      BY <3>1 DEF TypeOK, HostType
    <3>4. host.missed
      <4>1. SUFFICES ASSUME ~host.missed PROVE called
        BY <2>4
      <4>2. v # NoVector
        BY <2>1, <4>1 DEF SlotInv
      <4>3. host.cpu[v] = "sint" /\ ctx.vectorSint[v] = MessageSint
        BY <4>2 DEF Routed, EfiHvConstants
      <4> QED  BY <2>2, <4>2, <4>3 DEF EfiHvGetSintMessage
    <3>5. Untaken' /\ Delivered' = Delivered /\ ~ctx'.buffered
      BY <2>1, <2>2, <3>1, <3>2 DEF Untaken, Delivered
    <3>6. SlotInv'
      BY <2>1, <2>2, <3>1, <3>2, <3>3, <3>4, <3>5 DEF SlotInv
    <3> QED  BY <1>1, <3>2, <3>6
  <2> QED  BY <2>3, <2>4
<1>13. CASE ClearSlot
  <2>1. host' = host /\ ctx'.sint = ctx.sint /\ ctx'.buffered
    BY <1>13 DEF ClearSlot, TypeOK, CtxType
  <2>2. ASSUME step' \in Live PROVE SlotInv'
    <3>1. step = "clear" /\ step' = "check" /\ SlotInv
      BY <1>13, <2>2 DEF ClearSlot, Live
    <3>2. ~Untaken /\ ~Untaken' /\ Delivered' = Delivered
      BY <2>1, <3>1 DEF Untaken, Delivered
    <3> QED  BY <2>1, <3>1, <3>2 DEF SlotInv
  <2> QED  BY <1>1, <2>1, <2>2
<1>14. CASE CheckPending
  <2>1. /\ step \in {"check", "drainCheck"} /\ ~ctx.buffered /\ ctx' = ctx
        /\ step' = IF step = "check" THEN "idle" ELSE "drain"
    BY <1>14 DEF CheckPending, Checked
  <2>2. CASE host.pending /\ host.slot = 0
    <3>1. host' = Deliver(host)
      BY <1>14, <2>2 DEF CheckPending, SynicEom
    <3>2. step' \in Live => step \in Live /\ (step' = step \/ (step = "check" /\ step' = "idle"))
      BY <2>1 DEF Live
    <3> QED  BY <2>1, <2>2, <3>1, <3>2, DeliverStep
  <2>3. CASE ~(host.pending /\ host.slot = 0)
    <3>1. host' = host
      BY <1>14, <2>3 DEF CheckPending, SynicEom
    <3>2. ASSUME step' \in Live PROVE SlotInv'
      <4>1. step = "check" /\ step' = "idle" /\ SlotInv
        BY <2>1, <3>2 DEF Live
      <4>2. (Untaken' <=> Untaken) /\ Delivered' = Delivered
        BY <2>1, <3>1, <4>1 DEF Untaken, Delivered
      <4> QED  BY <2>1, <2>3, <3>1, <4>1, <4>2 DEF SlotInv
    <3> QED  BY <1>1, <3>1, <3>2
  <2> QED  BY <2>2, <2>3
<1>15. CASE DisconnectSints
  <2>1. Same /\ step' = "drain"
    BY <1>15, Zenon DEF DisconnectSints, DisconnectedHost, TypeOK, HostType
  <2> QED  BY <1>2, <2>1 DEF Live
<1>16. CASE EfiHvExitBootServices \/ DrainMessages
  <2>1. host' = host /\ step' \notin Live
    BY <1>16 DEF EfiHvExitBootServices, DrainMessages, Live, Disconnecting, TypeOK, CtxType
  <2> QED  BY <1>2, <2>1
<1>17. CASE UNCHANGED vars
  BY <1>3, <1>17 DEF vars
<1> HIDE DEF Goal, IInv
<1> QED
  BY <1>4, <1>5, <1>6, <1>7, <1>8, <1>9, <1>10, <1>11, <1>12, <1>13, <1>14, <1>15, <1>16, <1>17
  DEF Next
-----------------------------------------------------------------------------
(***************************************************************************)
(* The inductive invariant: types, numbering, the slot and the vectors, in *)
(* every behaviour of the hypervisor driver.                               *)
(***************************************************************************)
THEOREM EfiHvInvariant ==
    ASSUME EfiHvConstants
    PROVE  Spec => []IInv
<1>1. Init => IInv
  BY InitIInv
<1>2. IInv /\ [Next]_vars => IInv'
  <2> SUFFICES ASSUME IInv, [Next]_vars PROVE IInv'  OBVIOUS
  <2>1. TypeOK'  BY TypeStep DEF IInv
  <2>2. Numbered' /\ (step' \in Live => SlotInv')  BY <2>1, SlotStep
  <2>3. Routed'  BY RoutedStep DEF IInv
  <2>4. (step \in Live => SlotInv)' = (step' \in Live => SlotInv')
    BY DEF Live
  <2> QED  BY <2>1, <2>2, <2>3, <2>4 DEF IInv, Live
<1> QED  BY <1>1, <1>2, PTL DEF Spec

(***************************************************************************)
(* For every number of messages: none is stranded in the hypervisor's      *)
(* queue, each is taken once and in order, although the store with which   *)
(* EfiHvCompleteSintMessage empties the slot may reach memory late.        *)
(***************************************************************************)
THEOREM EfiHvNoStrandedMessage ==
    ASSUME EfiHvConstants
    PROVE  Spec => []NoStrandedMessage
<1>1. IInv => NoStrandedMessage
  <2> SUFFICES ASSUME IInv PROVE NoStrandedMessage  OBVIOUS
  <2>1. /\ host.taken \in Seq(Nat) /\ Len(host.taken) \in Nat
        /\ host.queue \in Seq(Nat) /\ host.posted \in Nat
    BY DEF IInv, TypeOK, HostType
  <2>2. \A i \in DOMAIN host.taken : i > 1 => host.taken[i - 1] < host.taken[i]
    <3> SUFFICES ASSUME NEW i \in DOMAIN host.taken, i > 1
                 PROVE  host.taken[i - 1] < host.taken[i]
      OBVIOUS
    <3>1. i \in 2 .. Len(host.taken)  BY <2>1
    <3> QED  BY <3>1 DEF IInv, Numbered
  <2>3. ASSUME step = "idle", host.at = "idle", ~host.irq, ~ctx.buffered, ~host.missed
        PROVE  host.queue = <<>> /\ host.slot = 0 /\ Len(host.taken) = host.posted
    <3>1. SlotInv  BY <2>3 DEF IInv, Live
    <3>2. ~Untaken  BY <2>3, <3>1 DEF SlotInv
    <3>3. host.slot = 0  BY <2>3, <3>2 DEF Untaken
    <3>4. host.queue = <<>>  BY <2>3, <3>1, <3>3 DEF SlotInv
    <3>5. Len(host.taken) = Delivered  BY <2>3, <3>1, <3>2 DEF SlotInv
    <3>6. Delivered = host.posted  BY <2>1, <3>4 DEF Delivered
    <3> QED  BY <3>3, <3>4, <3>5, <3>6
  <2> QED  BY <2>2, <2>3 DEF NoStrandedMessage
<1> QED  BY <1>1, EfiHvInvariant, PTL

(***************************************************************************)
(* For every set of SINTs and vectors: EfiHvConnectSint, EfiHvDisconnectSint*)
(* and EfiHvConfigureTimer keep mVectorSint, the processor's handlers and  *)
(* the SINT registers in agreement.                                        *)
(***************************************************************************)
THEOREM EfiHvVectorsRouted ==
    ASSUME EfiHvConstants
    PROVE  Spec => []VectorsRouted
<1>1. IInv => VectorsRouted
  <2> SUFFICES ASSUME IInv, NEW v \in Vectors
               PROVE  LET owners == {s \in Sints : ctx.sint[s] = v}
                      IN  /\ \A s \in owners :
                               /\ host.cpu[v] = "sint" /\ ctx.vectorSint[v] = s
                               /\ \A c \in ContextsInUse : host.register[c][s] = "vector"
                          /\ host.cpu[v] = "sint" => \E s \in owners : owners = {s}
                          /\ host.cpu[v] = "timer" =>
                               owners = {} /\ ctx.timer.direct /\ ctx.timer.vector = v
    BY DEF VectorsRouted
  <2> DEFINE owners == {s \in Sints : ctx.sint[s] = v}
  <2>1. \A s \in owners : /\ host.cpu[v] = "sint" /\ ctx.vectorSint[v] = s
                          /\ \A c \in ContextsInUse : host.register[c][s] = "vector"
    BY DEF IInv, Routed, EfiHvConstants
  <2>2. ASSUME host.cpu[v] = "sint" PROVE \E s \in owners : owners = {s}
    <3>1. PICK s \in Sints : ctx.sint[s] = v
      BY <2>2 DEF IInv, Routed
    <3>2. owners = {s}
      BY <2>1, <3>1
    <3> QED  BY <3>2
  <2>3. ASSUME host.cpu[v] = "timer"
        PROVE  owners = {} /\ ctx.timer.direct /\ ctx.timer.vector = v
    BY <2>1, <2>3 DEF IInv, Routed
  <2> QED  BY <2>1, <2>2, <2>3
<1> QED  BY <1>1, EfiHvInvariant, PTL
=============================================================================
