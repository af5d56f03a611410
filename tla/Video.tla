-------------------------------- MODULE Video --------------------------------
(***************************************************************************)
(* The synthetic video driver: start and stop, the exchange that tells the *)
(* host where the frame buffer is, in which the receive callback sends     *)
(* each next message, and block transfers on the frame buffer.             *)
(*                                                                         *)
(* The frame buffer is a function from addresses, in pixels, to pixels;    *)
(* the screen is the first Rows of its VramRows lines.  Coordinates whose  *)
(* sum with a width or height overflows are left out.                      *)
(***************************************************************************)
EXTENDS Integers, Sequences, FiniteSets, SequencesExt

CONSTANTS
    Columns, Rows,  \* ModeInfo.HorizontalResolution, ModeInfo.VerticalResolution
    VramRows,       \* Mode.FrameBufferSize, in lines
    Deltas,         \* what clients pass as Delta, in pixels
    Failures        \* the calls that may fail

VARIABLES held, step, ctx, host

vars == <<held, step, ctx, host>>

Vram == 0 .. Columns * VramRows - 1
Screen == 0 .. Columns * Rows - 1
Fill == -1          \* the pixel an EfiBltVideoFill writes
Beyond == -3        \* what is read past the frame buffer
Fresh == [a \in Vram |-> a]

\* The client's buffer: the addresses a transfer can reach, before one, and as a source.
Buffer == 0 .. Columns * (VramRows + Rows)
Empty == [a \in Buffer |-> -2]
Client == [a \in Buffer |-> Columns * VramRows + a]

Blt(op, sx, sy, dx, dy, w, h, delta) ==
    [op |-> op, sx |-> sx, sy |-> sy, dx |-> dx, dy |-> dy, w |-> w, h |-> h, delta |-> delta]
NoBlt == Blt("none", 0, 0, 0, 0, 0, 0, 0)

Messages == {"version", "vramLocation", "situationUpdate"}

\* VIDEODXE_CONTEXT, the frame buffer, the client's buffer and the transfer made.  Of the
\* host: the messages it knows, those it owes an answer to, and whether it sent an answer
\* it did not owe.
Init ==
    /\ held = {}
    /\ step = "absent"
    /\ ctx = [initStatus |-> "ok", signaled |-> FALSE, pixels |-> Fresh, buffer |-> Empty, blt |-> NoBlt]
    /\ host = [knows |-> {}, owes |-> {}, unasked |-> FALSE]
-----------------------------------------------------------------------------
(* VideoDxeDriverBindingStart, VideoChannelOpen                            *)

StartCalls == <<"emcl", "context", "emclOpen", "frameBuffer", "initEvent", "callback", "channel", "version">>
Owned == {"emcl", "context", "emclOpen", "frameBuffer", "initEvent", "channel"}
HeldAfter(n) == {StartCalls[i] : i \in 1 .. n} \cap Owned

\* VideoChannelClose, then both EMCL calls undone.  The context and the frame buffer's
\* address space are never given back.
VideoChannelClose(h) == h \ {"channel", "initEvent"}
Cleanup(h) == VideoChannelClose(h) \ {"emclOpen", "emcl"}

\* The frame buffer has one place, at the start of the gap: allocating it twice fails.
Fails(c) == c \in Failures \/ (c = "frameBuffer" /\ "frameBuffer" \in held)

VideoDxeDriverBindingStart ==
    /\ step \in {"absent", "stopped"}
    /\ \/ \E i \in 1 .. Len(StartCalls) :
              /\ Fails(StartCalls[i])
              /\ held' = held \cup Cleanup(HeldAfter(i - 1))
              /\ step' = "stopped"
              /\ UNCHANGED <<ctx, host>>
       \/ /\ "frameBuffer" \notin held
          /\ held' = held \cup HeldAfter(Len(StartCalls))
          /\ step' = "waiting"
          /\ ctx' = [ctx EXCEPT !.initStatus = "ok", !.signaled = FALSE]
          /\ host' = [knows |-> {"version"}, owes |-> {"version"}, unasked |-> FALSE]

\* The host sends an answer, which it may owe, and VideoChannelReceivePacketCallback calls
\* its handler whatever the state of the exchange.
Answer(message) ==
    [host EXCEPT !.owes = @ \ {message}, !.unasked = @ \/ message \notin host.owes]

\* A handler's next message, or the status of the send that failed and the event.
SendNext(message, h) ==
    \/ /\ host' = [h EXCEPT !.knows = @ \cup {message}, !.owes = @ \cup {message}]
       /\ UNCHANGED ctx
    \/ /\ message \in Failures
       /\ host' = h
       /\ ctx' = [ctx EXCEPT !.initStatus = "failed", !.signaled = TRUE]

VideoChannelOnVersionResponse ==
    /\ "channel" \in held
    /\ \/ SendNext("vramLocation", Answer("version"))
       \/ /\ host' = Answer("version")
          /\ ctx' = [ctx EXCEPT !.initStatus = "failed", !.signaled = TRUE]
    /\ UNCHANGED <<held, step>>

VideoChannelOnVramLocationAckLast ==
    /\ "channel" \in held
    /\ host' = Answer("vramLocation")
    /\ ctx' = [ctx EXCEPT !.initStatus = "ok", !.signaled = TRUE]
    /\ UNCHANGED <<held, step>>
VideoChannelOnVramLocationAck ==
    /\ "channel" \in held
    /\ SendNext("situationUpdate", Answer("vramLocation"))
    /\ UNCHANGED <<held, step>>

\* The exchange is over.
VideoChannelOnSituatioUpdateAck ==
    /\ "channel" \in held
    /\ host' = Answer("situationUpdate")
    /\ ctx' = [ctx EXCEPT !.initStatus = "ok", !.signaled = TRUE]
    /\ UNCHANGED <<held, step>>

\* WaitForEvent has returned; the graphics protocol is installed on success.
Initialized ==
    /\ step = "waiting" /\ ctx.signaled
    /\ \/ /\ ctx.initStatus = "ok"
          /\ held' = held \cup {"protocol"}
          /\ step' = "started"
       \/ /\ ctx.initStatus # "ok" \/ "protocol" \in Failures
          /\ held' = Cleanup(held)
          /\ step' = "stopped"
    /\ UNCHANGED <<ctx, host>>

VideoDxeDriverBindingStop ==
    /\ step = "started"
    /\ held' = Cleanup(held) \ {"protocol"}
    /\ step' = "stopped"
    /\ UNCHANGED <<ctx, host>>
-----------------------------------------------------------------------------
(* VideoGraphicsOutputBlt: an operation on a rectangle of w by h pixels    *)
(* with its source at <<sx, sy>> and its destination at <<dx, dy>>.  Each  *)
(* pixel has a value of its own before the one transfer of a behaviour.    *)

Address(delta, x, y) == y * delta + x
InVram(x, y) == Address(Columns, x, y)

\* One CopyMem of a line of n pixels: what the destination holds afterwards.
Pixel(from, a) == IF a \in DOMAIN from THEN from[a] ELSE Beyond
CopyMem(to, toAt, from, fromAt, n) ==
    [a \in DOMAIN to |-> IF a \in toAt .. toAt + n - 1 THEN Pixel(from, fromAt + a - toAt) ELSE to[a]]

\* The order in which the lines of a transfer inside the frame buffer are copied.
Line(sy, dy, h, i) == IF dy <= sy THEN i ELSE h - i - 1

BltVideoToVideo(p, sx, sy, dx, dy, w, h) ==
    FoldLeft(LAMBDA q, i : LET l == Line(sy, dy, h, i) IN
                           CopyMem(q, InVram(dx, dy + l), q, InVram(sx, sy + l), w),
             p, [k \in 1 .. h |-> k - 1])

\* The first line is filled and the others are copies of it.
BltVideoFill(p, dx, dy, w, h) ==
    LET first == [a \in Vram |-> IF a \in InVram(dx, dy) .. InVram(dx, dy) + w - 1 THEN Fill ELSE p[a]]
    IN  FoldLeft(LAMBDA q, i : CopyMem(q, InVram(dx, dy + i), q, InVram(dx, dy), w),
                 first, [k \in 1 .. h - 1 |-> k])

\* To and from the client's buffer, whose lines are Delta pixels apart, or as many as the
\* rectangle is wide if Delta is 0.
Delta(delta, w) == IF delta = 0 THEN w ELSE delta
BltLines(to, toDelta, from, fromDelta, sx, sy, dx, dy, w, h) ==
    FoldLeft(LAMBDA b, i : CopyMem(b, Address(toDelta, dx, dy + i),
                                   from, Address(fromDelta, sx, sy + i), w),
             to, [k \in 1 .. h |-> k - 1])

InScreen(x, y, w, h) == y + h <= Rows /\ x + w <= Columns

\* The rectangle checked is the one on the screen: the source of a transfer to the client's
\* buffer, the destination of every other.  A call that is refused changes nothing.
VideoGraphicsOutputBlt(sx, sy, dx, dy, w, h) ==
    /\ step = "started" /\ ctx.blt = NoBlt
    /\ \/ /\ InScreen(dx, dy, w, h)
          /\ ctx' = [ctx EXCEPT !.pixels = BltVideoToVideo(@, sx, sy, dx, dy, w, h),
                                !.blt = Blt("videoToVideo", sx, sy, dx, dy, w, h, 0)]
       \/ /\ InScreen(dx, dy, w, h) /\ sx = dx /\ sy = dy
          /\ ctx' = [ctx EXCEPT !.pixels = BltVideoFill(@, dx, dy, w, h),
                                !.blt = Blt("fill", sx, sy, dx, dy, w, h, 0)]
       \/ \E delta \in Deltas : LET d == Delta(delta, w) IN
          \/ /\ InScreen(sx, sy, w, h)
             /\ ctx' = [ctx EXCEPT !.buffer = BltLines(@, d, ctx.pixels, Columns, sx, sy, dx, dy, w, h),
                                   !.blt = Blt("videoToBuffer", sx, sy, dx, dy, w, h, d)]
          \/ /\ InScreen(dx, dy, w, h)
             /\ ctx' = [ctx EXCEPT !.pixels = BltLines(@, Columns, Client, d, sx, sy, dx, dy, w, h),
                                   !.blt = Blt("bufferToVideo", sx, sy, dx, dy, w, h, d)]
    /\ UNCHANGED <<held, step, host>>
-----------------------------------------------------------------------------
Next ==
    \/ VideoDxeDriverBindingStart \/ VideoDxeDriverBindingStop \/ Initialized
    \/ VideoChannelOnVersionResponse \/ VideoChannelOnVramLocationAck \/ VideoChannelOnSituatioUpdateAck
    \/ \E sx, dx \in 0 .. Columns - 1, sy \in 0 .. VramRows - 1, dy \in 0 .. Rows - 1, w \in 1 .. Columns, h \in 1 .. Rows :
           VideoGraphicsOutputBlt(sx, sy, dx, dy, w, h)

Spec == Init /\ [][Next]_vars
-----------------------------------------------------------------------------

\* The graphics protocol is there only while the channel is open and the host was told the
\* frame buffer's address and the mode, provided that the host answers nothing it was not
\* asked: the handlers do not look at what was sent.
ShownIfAnnounced ==
    "protocol" \in held => "channel" \in held /\ (host.unasked \/ host.knows = Messages)

\* A transfer leaves at each place of the destination the pixel that was at its place of the
\* source before, also where the two overlap, and nothing else changes.  Lines of the
\* client's buffer are Delta apart, or follow each other if Delta is 0.
TransfersExact ==
    LET b == ctx.blt
        stride == IF b.op = "videoToBuffer" THEN b.delta ELSE Columns
        before == IF b.op = "videoToBuffer" THEN Empty ELSE Fresh
        after == IF b.op = "videoToBuffer" THEN ctx.buffer ELSE ctx.pixels
        To(i, j) == Address(stride, b.dx + i, b.dy + j)
        From(i, j) ==
            CASE b.op = "fill" -> Fill
              [] b.op = "bufferToVideo" -> Client[Address(b.delta, b.sx + i, b.sy + j)]
              [] OTHER -> Pixel(Fresh, InVram(b.sx + i, b.sy + j))
    IN  /\ \A i \in 0 .. b.w - 1, j \in 0 .. b.h - 1 : after[To(i, j)] = From(i, j)
        /\ \A a \in DOMAIN after \ {To(i, j) : i \in 0 .. b.w - 1, j \in 0 .. b.h - 1} :
               after[a] = before[a]

\* The protocol is there only while the host knows the screen (an answer it was not asked
\* for is enough).
AlwaysAnnounced == "protocol" \in held => host.knows = Messages

\* What a transfer inside the frame buffer shows was on the screen before (only the
\* destination is checked).
SourceOnScreen ==
    ctx.blt.op = "videoToVideo" => \A a \in Screen : ctx.pixels[a] \in Screen

\* A driver that was stopped can be started again.
Restartable == step = "stopped" => "frameBuffer" \notin held
==============================================================================
