----------------------------- MODULE BootEvents -----------------------------
(***************************************************************************)
(* The boot event log: the status codes the boot manager reports drive the *)
(* boot event channel (MsvmPkg/EventLogDxe/StatusCode.c, BootEventLogLib). *)
(* Each attempt to boot a device starts a pending event, which later       *)
(* reports update and complete.  The boot manager itself is not part of the*)
(* repository: phase is what it may report next.                           *)
(***************************************************************************)
EXTENDS EventChannel

CONSTANTS MaxAttempts
ASSUME AttemptsAssumption == MaxAttempts \in Nat

VARIABLES attempt,                \* the boot attempt under way
          phase,                  \* of the boot manager
          EventAlreadyUpdated,
          owner,                  \* the attempt each event was started for
          outcome                 \* what each attempt came to

boot == <<attempt, phase, EventAlreadyUpdated, owner, outcome>>
bvars == <<vars, boot>>

\* A status tells which attempt it is about.
OsLoaded == 0
LoadFailed == 1
ReturnedFailure == 2
NoDevices == 3
Status(a, kind) == 4 * a + kind

BootInit ==
    /\ Init
    /\ attempt = 0 /\ phase = "idle" /\ EventAlreadyUpdated = FALSE
    /\ owner = [id \in 1 .. MaxId |-> 0]
    /\ outcome = [a \in 0 .. MaxAttempts |-> Status(a, NoDevices)]
-----------------------------------------------------------------------------
\* BootDeviceEventStart; memory for the event may not be available.
BootDeviceEventStart(c, total, status) == {c} \cup EventLog(c, total, TRUE, status)
BootDeviceEventUpdate(c, status) == PendingUpdate(c, status)
BootDeviceEventComplete(c) == EventPendingCommit(c)

MayStart == attempt < MaxAttempts /\ channel.nextId <= MaxId

\* A boot option is loaded.  The boot manager's own menu is not logged.
OsLoaderLoad(total, menu) ==
    /\ phase \in {"idle", "failed"} /\ MayStart
    /\ attempt' = attempt + 1 /\ phase' = "loading" /\ EventAlreadyUpdated' = FALSE
    /\ outcome' = [outcome EXCEPT ![attempt + 1] = Status(attempt + 1, OsLoaded)]
    /\ owner' = [owner EXCEPT ![channel.nextId] = attempt + 1]
    /\ channel' \in IF menu THEN {channel}
                    ELSE BootDeviceEventStart(channel, total, Status(attempt + 1, OsLoaded))
    /\ UNCHANGED device

\* Loading failed; image verification and the boot manager may both say so.
LoadError ==
    /\ phase \in {"loading", "failed"} /\ phase' = "failed"
    /\ EventAlreadyUpdated' = TRUE
    /\ IF EventAlreadyUpdated THEN UNCHANGED <<channel, outcome>>
       ELSE /\ channel' = BootDeviceEventComplete(
                              BootDeviceEventUpdate(channel, Status(attempt, LoadFailed)))
            /\ outcome' = [outcome EXCEPT ![attempt] = Status(attempt, LoadFailed)]
    /\ UNCHANGED <<device, attempt, owner>>

StartImage ==
    /\ phase = "loading" /\ phase' = "running"
    /\ UNCHANGED <<vars, attempt, EventAlreadyUpdated, owner, outcome>>

\* Mutant: the event is completed before it is updated.
BootOptionFailedLate ==
    /\ phase = "running" /\ phase' = "idle"
    /\ channel' = BootDeviceEventUpdate(BootDeviceEventComplete(channel),
                                        Status(attempt, ReturnedFailure))
    /\ outcome' = [outcome EXCEPT ![attempt] = Status(attempt, ReturnedFailure)]
    /\ UNCHANGED <<device, attempt, EventAlreadyUpdated, owner>>

\* The image returned with an error.
BootOptionFailed ==
    /\ phase = "running" /\ phase' = "idle"
    /\ channel' = BootDeviceEventComplete(
                      BootDeviceEventUpdate(channel, Status(attempt, ReturnedFailure)))
    /\ outcome' = [outcome EXCEPT ![attempt] = Status(attempt, ReturnedFailure)]
    /\ UNCHANGED <<device, attempt, EventAlreadyUpdated, owner>>

\* The image returned.
BootOptionComplete ==
    /\ phase = "running" /\ phase' = "idle"
    /\ channel' = BootDeviceEventComplete(channel)
    /\ UNCHANGED <<device, attempt, EventAlreadyUpdated, owner, outcome>>

\* The operating system takes over: the callback of ExitBootServices.
ExitBootServices ==
    /\ phase = "running" /\ phase' = "done"
    /\ channel' = Flushed(BootDeviceEventUpdate(channel, Status(attempt, OsLoaded)))
    /\ device' = channel'.log
    /\ UNCHANGED <<attempt, EventAlreadyUpdated, owner, outcome>>

\* GenerateBootSummary, when no device is left to boot from; an empty log gets
\* an event that says that there is none.
GenerateBootSummary(total) ==
    /\ phase \in {"idle", "failed"} /\ phase' = "summary" /\ MayStart
    /\ IF channel.written = 0
       THEN /\ attempt' = attempt + 1
            /\ owner' = [owner EXCEPT ![channel.nextId] = attempt + 1]
            /\ \E c \in BootDeviceEventStart(channel, total, Status(attempt + 1, NoDevices)) :
                   channel' = Flushed(BootDeviceEventComplete(c))
       ELSE channel' = Flushed(channel) /\ UNCHANGED <<attempt, owner>>
    /\ device' = channel'.log
    /\ UNCHANGED <<EventAlreadyUpdated, outcome>>

\* DisplayBootSummary clears the log before the boot order is tried again.
DisplayBootSummary ==
    /\ phase = "summary" /\ phase' = "idle"
    /\ channel' = EventChannelReset(channel)
    /\ UNCHANGED <<device, attempt, EventAlreadyUpdated, owner, outcome>>

BootNext ==
    \/ \E total \in Totals, menu \in BOOLEAN : OsLoaderLoad(total, menu)
    \/ LoadError \/ StartImage \/ BootOptionFailed \/ BootOptionComplete
    \/ ExitBootServices
    \/ \E total \in Totals : GenerateBootSummary(total)
    \/ DisplayBootSummary
BootSpec == BootInit /\ [][BootNext]_bvars
-----------------------------------------------------------------------------
\* An event of an attempt that is not pending any more says what the attempt came
\* to.
OutcomesLogged ==
    \A r \in Records :
        ~r.pending /\ owner[r.id] # 0 => r.status = outcome[owner[r.id]]

\* A boot event that is not pending any more says what its attempt came to; a commit
\* succeeds, and the pending event shows its own data (BootDeviceEventUpdate,
\* EventPendingCommit, EventPendingGet).
EventOutcomesLogged == CommitSucceeds /\ ShowsOwnData /\ OutcomesLogged

\* A boot event is completed when the operating system is booted: no event
\* that reaches the host then is marked incomplete.
BootCompletes == phase = "done" => \A i \in DOMAIN device : ~device[i].incomplete
=============================================================================
