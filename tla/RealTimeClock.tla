---------------------------- MODULE RealTimeClock ----------------------------
(***************************************************************************)
(* The real-time clock driver: it reads and sets the time and the alarm of *)
(* the clock chip, whose registers are binary or BCD, in 12 or 24 hours,   *)
(* and hold two digits of the year.  The time zone and the alarm's date    *)
(* are variables, since the chip has no place for them.                    *)
(***************************************************************************)
EXTENDS Integers, Sequences, FiniteSets

CONSTANTS
    Times,          \* records of Time: the times that callers set, valid or not
    Zones,          \* records [tz, daylight] they set with them
    Modes,          \* register B as the driver may find it: records [mil, dm]
    InitialMode,    \* PcdInitialValueRtcRegisterB
    MinYear, MaxYear,
    InitTime,       \* RTC_INIT_...
    DefaultYear,    \* PcdRtcDefaultYear
    MaxTicks,       \* bound: seconds that pass
    Failures        \* subset of {"wait", "variable", "read"}: the chip does not get ready, a
                    \* variable cannot be set, or cannot be read

VARIABLES step, ctx, host

vars == <<step, ctx, host>>

Unspecified == 2047
NoZone == [tz |-> Unspecified, daylight |-> 0]
\* What mModuleGlobal holds when the driver is loaded.
ZeroZone == [tz |-> 0, daylight |-> 0]
Time(y, mo, d, h, mi, s) == [year |-> y, month |-> mo, day |-> d, hour |-> h, minute |-> mi, second |-> s]
NoTime == Time(0, 0, 0, 0, 0, 0)
-----------------------------------------------------------------------------
(* Calendar and conversions                                                *)

IsLeapYear(y) == y % 4 = 0 /\ (y % 100 = 0 => y % 400 = 0)
mDayOfMonth == <<31, 29, 31, 30, 31, 30, 31, 31, 30, 31, 30, 31>>
DayValid(t) ==
    /\ t.day \in 1 .. mDayOfMonth[t.month]
    /\ ~(t.month = 2 /\ ~IsLeapYear(t.year) /\ t.day > 28)
RtcTimeFieldsValid(t) ==
    /\ t.year \in MinYear .. MaxYear /\ t.month \in 1 .. 12 /\ DayValid(t)
    /\ t.hour \in 0 .. 23 /\ t.minute \in 0 .. 59 /\ t.second \in 0 .. 59

Bcd(x) == 16 * (x \div 10) + (x % 10)

\* 0xff stands for a byte that is not BCD.
Invalid == 255
CheckAndConvertBcd8ToDecimal8(b) == IF b < 160 /\ b % 16 < 10 THEN 10 * (b \div 16) + (b % 16) ELSE Invalid

Hour12(h) == IF h >= 13 THEN h - 12 ELSE IF h = 0 THEN 12 ELSE h
ConvertEfiTimeToRtcTime(t, b) ==
    LET hour == IF b.mil THEN t.hour ELSE Hour12(t.hour)
        E(x) == IF b.dm THEN x ELSE Bcd(x)
    IN  Time(E(t.year % 100), E(t.month), E(t.day),
             E(hour) + (IF ~b.mil /\ t.hour >= 12 THEN 128 ELSE 0), E(t.minute), E(t.second))

Years(yy) == (MinYear \div 100 + (IF yy < MinYear % 100 THEN 1 ELSE 0)) * 100 + yy

\* <<>> when a field is not BCD.
ConvertRtcTimeToEfiTimeNoonAlways(r, b) ==
    LET pm == ~b.mil /\ r.hour >= 128
        D(x) == IF b.dm THEN x ELSE CheckAndConvertBcd8ToDecimal8(x)
        h == D(IF b.mil THEN r.hour ELSE r.hour % 128)
        fields == {D(r.year), D(r.month), D(r.day), h, D(r.minute), D(r.second)}
    IN  IF Invalid \in fields THEN <<>>
        ELSE <<Time(Years(D(r.year)), D(r.month), D(r.day), IF pm THEN h + 12 ELSE h, D(r.minute), D(r.second))>>
ConvertRtcTimeToEfiTime(r, b) ==
    LET pm == ~b.mil /\ r.hour >= 128
        D(x) == IF b.dm THEN x ELSE CheckAndConvertBcd8ToDecimal8(x)
        h == D(IF b.mil THEN r.hour ELSE r.hour % 128)
        hour == IF b.mil THEN h ELSE IF pm /\ h < 12 THEN h + 12 ELSE IF ~pm /\ h = 12 THEN 0 ELSE h
        fields == {D(r.year), D(r.month), D(r.day), h, D(r.minute), D(r.second)}
    IN  IF Invalid \in fields THEN <<>>
        ELSE <<Time(Years(D(r.year)), D(r.month), D(r.day), hour, D(r.minute), D(r.second))>>

Valid(ts) == ts # <<>> /\ RtcTimeFieldsValid(ts[1])

Before(a, b) == \* CompareHMS < 0
    \/ a.hour < b.hour
    \/ a.hour = b.hour /\ a.minute < b.minute
    \/ a.hour = b.hour /\ a.minute = b.minute /\ a.second < b.second
IsWithinOneDay(from, to) ==
    \/ /\ <<from.year, from.month>> = <<to.year, to.month>>
       /\ \/ from.day + 1 = to.day /\ ~Before(from, to)
          \/ from.day = to.day /\ ~Before(to, from)
    \/ /\ from.year = to.year /\ from.month + 1 = to.month /\ to.day = 1
       /\ from.day = IF from.month = 2 /\ ~IsLeapYear(from.year) THEN 28 ELSE mDayOfMonth[from.month]
       /\ ~Before(from, to)
    \/ /\ from.year + 1 = to.year /\ <<from.month, from.day, to.month, to.day>> = <<12, 31, 1, 1>>
       /\ ~Before(from, to)

\* The zone is packed in a variable: the low half is the zone as an INT16.
Packed(z) == z.daylight * 65536 + (z.tz % 65536)
Unpacked(v) ==
    LET low == v % 65536 IN [tz |-> IF low >= 32768 THEN low - 65536 ELSE low, daylight |-> v \div 65536]
-----------------------------------------------------------------------------
(* The chip, and calendar arithmetic of its own                            *)

DaysIn(t) == IF t.month = 2 THEN (IF IsLeapYear(t.year) THEN 29 ELSE 28)
             ELSE IF t.month \in {4, 6, 9, 11} THEN 30 ELSE 31
Later(t) ==
    IF t.second < 59 THEN [t EXCEPT !.second = @ + 1]
    ELSE IF t.minute < 59 THEN [t EXCEPT !.second = 0, !.minute = @ + 1]
    ELSE IF t.hour < 23 THEN [t EXCEPT !.second = 0, !.minute = 0, !.hour = @ + 1]
    ELSE IF t.day < DaysIn(t) THEN Time(t.year, t.month, t.day + 1, 0, 0, 0)
    ELSE IF t.month < 12 THEN Time(t.year, t.month + 1, 1, 0, 0, 0)
    ELSE Time(t.year + 1, 1, 1, 0, 0, 0)
Shown(t, b) ==
    LET h == IF b.mil THEN t.hour ELSE ((t.hour + 11) % 12) + 1
        E(x) == IF b.dm THEN x ELSE Bcd(x)
    IN  Time(E(t.year % 100), E(t.month), E(t.day), E(h) + (IF ~b.mil /\ t.hour > 11 THEN 128 ELSE 0),
             E(t.minute), E(t.second))

\* ctx: the zone saved in mModuleGlobal; what a caller set and a failure has undone since: lost.
\* host: now is the time by what was set and the seconds since (NoTime: none was ever set), regs
\* and alarm are the chip's registers, zone and date the variables, keptZone the zone last set.
Init ==
    /\ step = "off"
    /\ ctx = [zone |-> ZeroZone, want |-> NoTime, ticks |-> 0, lost |-> {}]
    /\ \E b \in Modes, t \in Times :
        host = [now |-> IF RtcTimeFieldsValid(t) THEN t ELSE NoTime,
                regs |-> IF RtcTimeFieldsValid(t) THEN Shown(t, b) ELSE Time(Invalid, 0, 0, 0, 0, 0),
                alarm |-> Time(0, 0, 0, 0, 0, 0), b |-> b, aie |-> FALSE, zone |-> <<>>, date |-> <<>>,
                keptZone |-> NoZone]

\* Registers in the format of another mode do not advance in any way that matters.
Tick ==
    /\ ctx.ticks < MaxTicks /\ host.now # NoTime /\ Later(host.now).year <= MaxYear
    /\ host' = [host EXCEPT !.now = Later(@),
                            !.regs = IF "time" \in ctx.lost THEN @ ELSE Shown(Later(host.now), host.b)]
    /\ ctx' = [ctx EXCEPT !.ticks = @ + 1]
    /\ UNCHANGED step
-----------------------------------------------------------------------------
(* The services.  RtcWaitToUpdate or a variable may fail.                  *)

Fails(what) == what \in Failures

\* PcRtcSetTimeZone: no variable for an unspecified zone.
PcRtcSetTimeZone(h, z) == [h EXCEPT !.zone = IF z = NoZone THEN <<>> ELSE <<Packed(z)>>]

\* The registers, written while the chip's updates are held.
Written(h, t) == [h EXCEPT !.regs = ConvertEfiTimeToRtcTime(t, h.b)]

PcRtcSetTime(t, z) ==
    /\ step = "on" /\ RtcTimeFieldsValid(t)
    /\ host' = [Written(PcRtcSetTimeZone(host, z), t) EXCEPT !.now = t, !.keptZone = z]
    /\ ctx' = [ctx EXCEPT !.zone = z, !.lost = @ \ {"time", "zone", "start"}]
    /\ UNCHANGED step

\* What PcRtcGetTime returns: <<>> or a time, with the saved zone.
PcRtcGetTime == ConvertRtcTimeToEfiTime(host.regs, host.b)

\* What PcRtcGetWakeupTime returns: the alarm registers with the date of the variable, if there
\* is one, or else today's.
AlarmDate(h) == IF h.date # <<>> THEN h.date[1] ELSE h.regs
PcRtcGetWakeupTime(h) ==
    ConvertRtcTimeToEfiTime(Time(AlarmDate(h).year, AlarmDate(h).month, AlarmDate(h).day,
                                 h.alarm.hour, h.alarm.minute, h.alarm.second), h.b)

Acceptable(t) == RtcTimeFieldsValid(t) /\ Valid(PcRtcGetTime) /\ IsWithinOneDay(PcRtcGetTime[1], t)
PcRtcSetWakeupTime(enable, t) ==
    /\ step = "on" /\ (enable => Acceptable(t))
    /\ LET r == IF enable THEN ConvertEfiTimeToRtcTime(t, host.b) ELSE host.regs
       IN  /\ host' = [host EXCEPT !.date = <<r>>, !.alarm = IF enable THEN r ELSE @, !.aie = enable]
           /\ ctx' = [ctx EXCEPT !.want = IF enable THEN t ELSE NoTime, !.lost = @ \ {"alarm"}]
           /\ UNCHANGED step

\* PcRtcSetTime or PcRtcSetWakeupTime fails: both wait, and set their variable, before they
\* write a register.
SetFails ==
    /\ step = "on" /\ (Fails("wait") \/ Fails("variable"))
    /\ UNCHANGED vars

\* PcRtcInit reads the time in the mode that it finds, and the zone from its variable; a time
\* that is not valid is replaced, with the zone.
Found == IF Valid(PcRtcGetTime) THEN PcRtcGetTime[1] ELSE InitTime
FoundZones ==
    IF ~Valid(PcRtcGetTime) \/ host.zone = <<>> THEN {NoZone}
    ELSE {Unpacked(host.zone[1])} \cup (IF Fails("read") THEN {NoZone} ELSE {})

\* The chip is not ready: the zone is unspecified.
InitNotReady ==
    /\ Fails("wait")
    /\ ctx' = [ctx EXCEPT !.zone = NoZone, !.lost = @ \cup {"start"}]
    /\ UNCHANGED host

\* Register B gets its initial value, in which the alarm is read from then on; the time is to be
\* written again, but PcRtcSetTime, or PcRtcSetTimeZone where the time need not be, fails.
NewMode == host.b # InitialMode
NeedRtcUpdate == NewMode \/ ~Valid(PcRtcGetTime)
WithMode == [host EXCEPT !.b = InitialMode]
AlarmMisread == IF NewMode /\ ctx.want # NoTime THEN {"alarm"} ELSE {}
InitNotSet ==
    /\ Fails("variable") \/ (Fails("wait") /\ NeedRtcUpdate)
    /\ host' = WithMode
    /\ ctx' = [ctx EXCEPT !.lost = @ \cup {"start"} \cup AlarmMisread
                                    \cup (IF NewMode /\ host.now # NoTime THEN {"time"} ELSE {})]

\* The time and the zone are set; zone is unspecified also when the variable could not be read.
TimeSet(zone) ==
    LET h == PcRtcSetTimeZone(WithMode, zone)
    IN  IF ~Valid(PcRtcGetTime) THEN [Written(h, InitTime) EXCEPT !.now = InitTime, !.keptZone = NoZone]
        ELSE IF NewMode THEN Written(h, Found) ELSE h
LostAfter(zone) ==
    (ctx.lost \ (IF Valid(PcRtcGetTime) THEN {} ELSE {"time", "zone"}))
    \cup AlarmMisread
    \cup (IF Valid(PcRtcGetTime) /\ zone = NoZone /\ host.zone # <<>> THEN {"zone"} ELSE {})

\* The alarm is reset if it cannot be read and is not enabled.  When the wait in
\* PcRtcGetWakeupTime fails Enabled is not assigned and the alarm may be reset as well.  The
\* reset may fail; the alarm stays enabled if it was.
AlarmReset(h) ==
    LET year == IF DefaultYear < MinYear THEN MinYear ELSE IF DefaultYear > MaxYear THEN MaxYear ELSE DefaultYear
        r == ConvertEfiTimeToRtcTime([InitTime EXCEPT !.year = year], h.b)
    IN  [h EXCEPT !.date = <<r>>, !.alarm = r]
Readable(h) ==
    \/ Valid(PcRtcGetWakeupTime(h))
    \/ Fails("read") /\ Valid(PcRtcGetWakeupTime([h EXCEPT !.date = <<>>]))
Unreadable(h) ==
    \/ ~Valid(PcRtcGetWakeupTime(h))
    \/ Fails("read") /\ ~Valid(PcRtcGetWakeupTime([h EXCEPT !.date = <<>>]))
InitSet ==
    \E zone \in FoundZones :
        LET h == TimeSet(zone)
        IN  \/ /\ Readable(h) \/ h.aie \/ Fails("wait") \/ Fails("variable")
               /\ host' = h
               /\ ctx' = [ctx EXCEPT !.zone = zone, !.lost = LostAfter(zone)]
            \/ /\ (Unreadable(h) /\ ~h.aie) \/ Fails("wait")
               /\ host' = AlarmReset(h)
               /\ ctx' = [ctx EXCEPT !.zone = zone,
                          !.lost = LostAfter(zone) \cup (IF ctx.want # NoTime THEN {"alarm"} ELSE {})]

\* InitializePcRtc only asserts that PcRtcInit succeeds: the services are installed anyway.
PcRtcInit ==
    /\ step = "off"
    /\ InitNotReady \/ InitNotSet \/ InitSet
    /\ step' = "on"

\* A reset of the machine: the chip and the variables stay.
Reset ==
    /\ step = "on"
    /\ step' = "off"
    /\ ctx' = [ctx EXCEPT !.zone = ZeroZone, !.lost = @ \ {"start"}]
    /\ UNCHANGED host

Next ==
    \/ Tick
    \/ PcRtcInit
    \/ \E t \in Times : \/ \E z \in Zones : PcRtcSetTime(t, z)
                        \/ PcRtcSetWakeupTime(TRUE, t)
    \/ PcRtcSetWakeupTime(FALSE, NoTime)
    \/ SetFails
    \/ Reset

Spec == Init /\ [][Next]_vars
-----------------------------------------------------------------------------
(* Properties                                                              *)

\* The time that GetTime returns is the one last set, as many seconds later as have passed, in
\* every register format, over ends of months and years, over resets and whatever failed; except
\* after a PcRtcInit that changed the mode and could not write the time again.  A clock that was
\* never set gives none.  The zone is the one last set as well, except after a PcRtcInit that
\* failed or that could not read its variable.
TimeKept ==
    step = "on" =>
        /\ "time" \notin ctx.lost =>
               IF host.now = NoTime THEN ~Valid(PcRtcGetTime) ELSE PcRtcGetTime = <<host.now>>
        /\ ctx.lost \cap {"start", "zone"} = {} => ctx.zone = host.keptZone

\* An alarm that was set is reported with its own date and time for as long as it is enabled,
\* whatever the clock shows by then; except after a PcRtcInit that changed the mode, or whose
\* first wait in PcRtcGetWakeupTime failed.
AlarmKept ==
    step = "on" /\ ctx.want # NoTime =>
        host.aie /\ ("alarm" \notin ctx.lost => PcRtcGetWakeupTime(host) = <<ctx.want>>)

\* Not so: the time, the zone, the alarm are kept whatever fails in PcRtcInit.
TimeAlwaysKept == step = "on" /\ host.now # NoTime => PcRtcGetTime = <<host.now>>
ZoneAlwaysKept == step = "on" => ctx.zone = host.keptZone
AlarmAlwaysKept == step = "on" /\ ctx.want # NoTime => PcRtcGetWakeupTime(host) = <<ctx.want>>

\* PcRtcSetWakeupTime accepts an alarm exactly for the 24 hours that follow, counted on a
\* calendar, unless the time is not the one set.
DayNumber(t) ==
    LET Months[m \in 1 .. 12] == IF m = 1 THEN 0 ELSE Months[m - 1] + DaysIn([t EXCEPT !.month = m - 1])
        y == t.year - 1
    IN  365 * y + y \div 4 - y \div 100 + y \div 400 + Months[t.month] + t.day
SecondOfDay(t) == (t.hour * 60 + t.minute) * 60 + t.second
AlarmsWithinADay ==
    step = "on" /\ host.now # NoTime /\ "time" \notin ctx.lost =>
        \A t \in {u \in Times : RtcTimeFieldsValid(u)} :
        LET days == DayNumber(t) - DayNumber(host.now)
            secs == SecondOfDay(t) - SecondOfDay(host.now)
        IN  Acceptable(t) <=> (days = 0 /\ secs >= 0) \/ (days = 1 /\ secs <= 0)
=============================================================================
