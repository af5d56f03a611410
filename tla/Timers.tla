------------------------------- MODULE Timers -------------------------------
(***************************************************************************)
(* The two timers of the firmware and the clock they share: the system     *)
(* timer (SynicTimerDxe) that drives the boot services' time from a timer  *)
(* of the hypervisor, and the watchdog (WatchdogTimerDxe and its library)  *)
(* that resets the machine, either with the counter of the BIOS device or, *)
(* when there is none, with a timer event of the boot services, which only *)
(* fires when the system timer ticks.                                      *)
(*                                                                         *)
(* Time is counted in units of one second of the code.  An interrupt that  *)
(* is pending is taken before the next unit passes.  The boot services'    *)
(* timer queue, the hypervisor's timer and the BIOS device are external.   *)
(***************************************************************************)
EXTENDS Integers, FiniteSets

CONSTANTS
    TickPeriods,    \* timer periods given to SynicTimerSetTimerPeriod (0 stops the timer)
    Periods,        \* periods given to the watchdog (0 disables it)
    Resolutions,    \* answers of the BIOS device: its resolution, 0 when there is no counter
    MaxTime,        \* bound: length of a behaviour in units of time
    Failures        \* the calls of SynicTimerInitialize that may fail

VARIABLES
    held,   \* what SynicTimerInitialize has acquired: "sint", "handler", "armed"
    step,   \* "off", "failed", "running", "runtime" (after ExitBootServices), "reset"
    ctx,    \* the global variables of the two drivers
    host    \* the hypervisor's timer, the BIOS device and the boot services' clock

vars == <<held, step, ctx, host>>

Running == {"configured", "enabled"}

\* direct, lastTime, notify and tick are mUseDirectTimer, mLastTime, mTimerNotifyFunction and
\* mTimerPeriod; period, resolution and handler are mWatchdogTimerPeriod,
\* mWatchdogTimerHwResolution and mWatchdogTimerNotifyFunction; prev is what WatchdogSuspend
\* answered to a caller that has not called WatchdogResume yet.
\* sysTime is the boot services' clock, due the time at which the watchdog's event fires (0 when
\* it is cancelled), next the time left on the hypervisor's timer, pending and message an
\* interrupt and a message of it; config, count and left are the registers and counter of the
\* BIOS device.  The rest is history: asked, ran and lag are the period the watchdog was last set
\* to, how long ago that is, not counting the time it was suspended, and how old the last tick was then; set is when the
\* timer was last set, and steady says that it has ticked since the watchdog was set, with the
\* handler registered.
Init ==
    /\ held = {}
    /\ step = "off"
    /\ \E d \in BOOLEAN, r \in Resolutions :
         ctx = [direct |-> d, lastTime |-> 0, notify |-> FALSE, tick |-> 0, period |-> 0,
                resolution |-> r, handler |-> FALSE, prev |-> "none"]
    /\ host = [now |-> 0, sysTime |-> 0, due |-> 0, next |-> 0, pending |-> FALSE,
               message |-> FALSE, notified |-> 0, config |-> {}, count |-> 0, left |-> 0,
               asked |-> 0, ran |-> 0, lag |-> 0, set |-> 0, steady |-> FALSE]

SoftwareWatchdog == ctx.resolution = 0

-----------------------------------------------------------------------------
\* The system timer.

\* The hypervisor starts or stops its timer (EfiHvSetTimer).
SetTimer(h, period) == [h EXCEPT !.next = period, !.set = h.now, !.steady = @ /\ period # 0]

SynicTimerSetTimerPeriod(period) ==
    /\ step = "running"
    /\ host' = SetTimer(host, period)
    /\ ctx' = [ctx EXCEPT !.tick = period]
    /\ held' = IF period = 0 THEN held \ {"armed"} ELSE held \cup {"armed"}
    /\ UNCHANGED step

\* What a failing initialization gives back: the timer is stopped if it was configured, and the
\* interrupt source is disconnected.  The handler ConfigureTimer registers for a direct timer
\* stays registered.
SynicTimerCleanup(h) == h \ {"armed", "sint"}

\* What delivers the timer's interrupts: connected before the timer is configured, or
\* registered by that.
Delivery == IF ctx.direct THEN "handler" ELSE "sint"
HeldBefore(f) ==
    CASE f \in {"hv", "sint"} -> {}
      [] f = "timer" -> {Delivery} \ {"handler"}
      [] f = "protocol" -> {Delivery, "armed"}

SynicTimerInitialize(period) ==
    /\ step = "off"
    /\ \/ \E f \in Failures :
            /\ f = "sint" => ~ctx.direct
            /\ step' = "failed"
            /\ held' = SynicTimerCleanup(HeldBefore(f))
            /\ host' = SetTimer(host, 0)
            /\ ctx' = [ctx EXCEPT !.tick = 0]
       \/ /\ step' = "running"
          /\ held' = {Delivery, "armed"}
          /\ host' = SetTimer(host, period)
          /\ ctx' = [ctx EXCEPT !.tick = period]

\* Registering needs a free slot and unregistering a registered handler; the call is refused
\* otherwise.  A boot services core registers its tick once.
SynicTimerRegisterHandler(fn) ==
    /\ step = "running"
    /\ fn # ctx.notify
    /\ ctx' = [ctx EXCEPT !.notify = fn]
    /\ host' = [host EXCEPT !.steady = @ /\ fn]
    /\ UNCHANGED <<held, step>>

\* WatchdogSoftTimer: the handler is told, then the machine is reset in any case.
WatchdogSoftTimer(h) ==
    /\ host' = [h EXCEPT !.notified = IF ctx.handler THEN ctx.period ELSE 0]
    /\ step' = "reset"

\* SynicTimerCallNotifyFunction: the boot services' clock moves on by the time since the last
\* call, and the timer event of the software watchdog fires when its time has come.
SynicTimerCallNotifyFunction(h) ==
    LET now == IF ctx.notify THEN h.sysTime + (h.now - ctx.lastTime) ELSE h.sysTime
        g   == [h EXCEPT !.sysTime = now]
    IN  /\ ctx' = [ctx EXCEPT !.lastTime = h.now]
        /\ IF ctx.notify /\ h.due # 0 /\ now >= h.due
           THEN WatchdogSoftTimer([g EXCEPT !.due = 0])
           ELSE host' = g /\ UNCHANGED step

SynicTimerGenerateSoftInterrupt ==
    /\ step = "running"
    /\ host.now > ctx.lastTime
    /\ SynicTimerCallNotifyFunction(host)
    /\ UNCHANGED held

\* The interrupt handler; a timer that is not direct has left a message, which is completed
\* first, or the hypervisor could not deliver the next one.
SynicTimerInterruptHandlerKeepsMessage ==
    /\ step = "running"
    /\ host.pending
    /\ SynicTimerCallNotifyFunction([host EXCEPT !.pending = FALSE])
    /\ UNCHANGED held

SynicTimerInterruptHandler ==
    /\ step = "running"
    /\ host.pending
    /\ SynicTimerCallNotifyFunction([host EXCEPT !.pending = FALSE, !.message = FALSE])
    /\ UNCHANGED held

-----------------------------------------------------------------------------
\* The watchdog.

\* WatchdogConfigure: the count is written before the configuration, and none when the watchdog
\* is disabled.  The device loads its counter when it starts to run.
WatchdogConfigure(h, count, resolution) ==
    IF count # 0
    THEN [h EXCEPT !.count = count, !.config = Running \cup {"oneShot"}, !.left = count * resolution]
    ELSE [h EXCEPT !.config = {}]

WatchdogSoftSetPeriod(period) ==
    /\ step = "running"
    /\ SoftwareWatchdog
    /\ ctx' = [ctx EXCEPT !.period = period]
    /\ host' = [host EXCEPT !.due = IF period = 0 THEN 0 ELSE host.sysTime + period,
                            !.asked = period, !.ran = 0, !.lag = host.now - ctx.lastTime,
                            !.steady = ctx.notify /\ ctx.tick # 0]
    /\ UNCHANGED <<held, step>>

\* A period below the resolution is refused and the watchdog goes on as it was.
WatchdogHwSetPeriod(period) ==
    /\ step = "running"
    /\ ~SoftwareWatchdog
    /\ period # 0 => period >= ctx.resolution
    /\ LET off == WatchdogConfigure(host, 0, ctx.resolution)
       IN  /\ ctx' = [ctx EXCEPT !.period = period]
           /\ host' = [WatchdogConfigure(off, period \div ctx.resolution, ctx.resolution)
                         EXCEPT !.asked = period, !.ran = 0]
    /\ UNCHANGED <<held, step>>

WatchdogRegisterHandler(fn) ==
    /\ step = "running"
    /\ fn # ctx.handler
    /\ ctx' = [ctx EXCEPT !.handler = fn]
    /\ UNCHANGED <<held, step, host>>

\* WatchdogSuspend answers whether the watchdog was running; the caller hands the answer to
\* WatchdogResume.
WatchdogSuspend ==
    /\ step = "running"
    /\ ~SoftwareWatchdog
    /\ ctx.prev = "none"
    /\ ctx' = [ctx EXCEPT !.prev = IF Running \subseteq host.config THEN "ran" ELSE "stopped"]
    /\ host' = [host EXCEPT !.config = @ \ {"enabled"}]
    /\ UNCHANGED <<held, step>>

WatchdogResume ==
    /\ step = "running"
    /\ ctx.prev # "none"
    /\ ctx' = [ctx EXCEPT !.prev = "none"]
    /\ host' = [host EXCEPT !.config = @ \cup IF ctx.prev = "ran" THEN {"enabled"} ELSE {}]
    /\ UNCHANGED <<held, step>>

\* ExitBootServices: the handler of the watchdog disables the device; the boot services' core
\* stops the system timer, and with it every timer event.
ExitBootServicesHandler ==
    /\ step = "running"
    /\ step' = "runtime"
    /\ host' = [SetTimer(WatchdogConfigure(host, 0, ctx.resolution), 0)
                  EXCEPT !.due = 0, !.pending = FALSE, !.asked = 0]
    /\ ctx' = [ctx EXCEPT !.tick = 0]
    /\ held' = held \ {"armed"}

-----------------------------------------------------------------------------
\* A unit of time passes.  The hypervisor's timer raises an interrupt when its period is over,
\* unless its message slot is still full; the device counts down while it runs.
Tick ==
    /\ step \in {"running", "runtime"}
    /\ ~host.pending
    /\ host.now < MaxTime
    /\ LET fires   == host.next = 1
           counts  == Running \subseteq host.config /\ host.left > 0
           expires == counts /\ host.left = 1
           blocked == fires /\ ~ctx.direct /\ host.message
       IN  /\ host' = [host EXCEPT
                  !.now = @ + 1,
                  !.next = IF fires THEN ctx.tick ELSE IF @ = 0 THEN 0 ELSE @ - 1,
                  !.pending = fires /\ ~blocked,
                  !.message = @ \/ (fires /\ ~ctx.direct),
                  !.left = IF counts THEN @ - 1 ELSE @,
                  !.config = IF expires THEN {} ELSE @,
                  !.ran = IF host.config \cap Running = {"configured"} THEN @ ELSE @ + 1]
           /\ step' = IF expires THEN "reset" ELSE step
    /\ UNCHANGED <<held, ctx>>

Next ==
    \/ \E p \in TickPeriods \ {0} : SynicTimerInitialize(p)
    \/ \E p \in TickPeriods : SynicTimerSetTimerPeriod(p)
    \/ \E fn \in BOOLEAN : SynicTimerRegisterHandler(fn)
    \/ SynicTimerGenerateSoftInterrupt
    \/ SynicTimerInterruptHandler
    \/ \E p \in Periods : WatchdogSoftSetPeriod(p)
    \/ \E p \in Periods : WatchdogHwSetPeriod(p)
    \/ \E fn \in BOOLEAN : WatchdogRegisterHandler(fn)
    \/ WatchdogSuspend
    \/ WatchdogResume
    \/ ExitBootServicesHandler
    \/ Tick

Spec == Init /\ [][Next]_vars

-----------------------------------------------------------------------------

\* A timer that is set ticks: no more than its period goes by without a tick, whatever was
\* changed before (SynicTimerInterruptHandler).
TicksKeepComing ==
    (step = "running" /\ ctx.tick # 0 /\ ~host.pending) =>
        \/ host.now - ctx.lastTime < ctx.tick
        \/ host.now - host.set < ctx.tick

\* The watchdog resets the machine if and only if it was armed and its period is over, to within
\* the resolution of the device or one tick of the system timer, whichever of the two it uses,
\* whether it was set again, suspended or resumed in between; and never after
\* ExitBootServices (WatchdogHwSetPeriod, WatchdogSoftSetPeriod, ExitBootServicesHandler).
WatchdogOnTime ==
    /\ step = "reset" =>
          /\ host.asked # 0
          /\ ~SoftwareWatchdog => host.ran \in (host.asked - ctx.resolution + 1) .. host.asked
          /\ SoftwareWatchdog /\ host.steady => host.ran + host.lag >= host.asked
    /\ (step = "running" /\ host.asked # 0) =>
          /\ ~SoftwareWatchdog => host.ran < host.asked
          /\ (SoftwareWatchdog /\ host.steady /\ ctx.notify) =>
                host.ran - (host.now - ctx.lastTime) < host.asked

\* A driver that failed to initialize is called for no interrupt (the handler of a direct timer
\* stays registered when the protocol cannot be installed).
HandlerGivenBack == step = "failed" => held = {}
=============================================================================
