-------------------------------- MODULE AziHsm --------------------------------
(***************************************************************************)
(* AziHsmDxe, the driver of the integrated hardware security module: how   *)
(* it binds to the controller, brings the device up through its registers, *)
(* issues commands over an admin and an HSM queue pair of two slots each,  *)
(* derives and seals the boot key, and takes all of it down again.         *)
(*                                                                         *)
(* A command is posted in the submission slot `tail`, the doorbell is      *)
(* rung, and the driver polls the completion slot `head` until its phase   *)
(* bit differs from the value it had before the command was posted, or     *)
(* 100 ms have passed.  The device answers when it likes, so an answer may *)
(* arrive after the driver gave up.  Either way the driver then frees the  *)
(* buffers of the command.                                                 *)
(***************************************************************************)
EXTENDS Naturals, Sequences

CONSTANTS
    Failures,  \* the calls that may fail, the commands the device may refuse;
               \* "buffer" and "doorbell" are steps of every command
    Timeouts   \* the commands the driver may give up waiting for

VARIABLES
    held,  \* protocols, memory and TPM objects the driver holds
    step,  \* [run, at, posted]: the routine that runs, its next call, polling?
    ctx,   \* AZIHSM_CONTROLLER_STATE and the buffers of the sealing workflow
    call,  \* the last answer taken: [asked, got, late]
    host   \* the device: registers, queues, and what it has been sent

vars == <<held, step, ctx, call, host>>

Queues == {"admin", "hsm"}
Slots  == 0..1

(***************************************************************************)
(* The calls of the start, in the order of the code, group by group.       *)
(***************************************************************************)
Binding == <<"devicePath", "pciIo", "state", "attributes", "protocol">>

AziHsmHciInitialize ==
    <<"registers", "disable", "adminSq", "adminCq", "addresses", "enable", "identify">>

AziHsmInitHsm == <<"hsmSq", "hsmCq", "setCount", "createCq", "createSq">>

Identified == <<"identifyAgain", "serial", "apiRevision">>

AziHsmGetTpmPlatformSecret == <<"platformPrimary", "hmac">>

Aes256CbcEncrypt == <<"encrypt">>

AziHsmMeasureGuidEvent == <<"measure">>

AziHsmSealToTpmNullHierarchy == <<"nullPrimary", "seal">>

AziHsmPerformBks3SealingWorkflow ==
    AziHsmGetTpmPlatformSecret
    \o <<"derive", "initBks3", "guid", "key", "iv", "input", "encrypted">>
    \o Aes256CbcEncrypt
    \o AziHsmSealToTpmNullHierarchy
    \o <<"size", "setSealedBks3">>
    \o AziHsmMeasureGuidEvent

StartCalls == Binding \o AziHsmHciInitialize \o AziHsmInitHsm \o Identified
              \o AziHsmPerformBks3SealingWorkflow

Calls(s) == {s[i] : i \in DOMAIN s}

\* The routines that issue calls one after the other.
AziHsmAdminDeleteDeviceIoQueuePair == <<"deleteSq", "deleteCq">>

AziHsmHciUninitialize ==
    AziHsmAdminDeleteDeviceIoQueuePair \o <<"registersAgain", "disableAgain", "freed">>

Routine == [start     |-> StartCalls,
            rollback  |-> <<"rollbackCq">>,
            undo      |-> AziHsmHciUninitialize]

Now == Routine[step.run][step.at]

(***************************************************************************)
(* Commands: the queue each one travels on, and what the device does.      *)
(***************************************************************************)
AdminCommands == {"identify", "setCount", "createCq", "createSq", "identifyAgain",
                  "rollbackCq", "deleteSq", "deleteCq"}
HsmCommands   == {"apiRevision", "initBks3", "setSealedBks3"}
Commands      == AdminCommands \union HsmCommands

QueueOf(c) == IF c \in HsmCommands THEN "hsm" ELSE "admin"

\* The commands that come with memory the device reads or writes.
WithBuffers == HsmCommands \union {"identify", "identifyAgain"}

\* Both routines ignore the device's status for a deletion.
StatusIgnored == {"deleteSq", "deleteCq", "rollbackCq"}

EmptyQueue == [tail  |-> 0, sqHead |-> 0, cqTail |-> 0, phase |-> 1,
               taken |-> "none",
               sq    |-> [s \in Slots |-> "none"],
               cq    |-> [s \in Slots |-> [phase |-> 0, of |-> "none", good |-> TRUE]]]

\* The device's side of a queue starts over; the memory keeps what it holds.
Fresh(q) == [q EXCEPT !.tail = 0, !.sqHead = 0, !.cqTail = 0, !.phase = 1,
                      !.taken = "none"]

AziHsmCreateCplQueue(h) == [h EXCEPT !.made = @ \union {"cq"}]

AziHsmCreateSubQueue(h) == [h EXCEPT !.made = @ \union {"sq"}, !.q.hsm = Fresh(@)]

AziHsmDeleteSubQueue(h) == [h EXCEPT !.made = @ \ {"sq"}]

AziHsmDeleteCplQueue(h) == [h EXCEPT !.made = @ \ {"cq"}]

DeviceDoes(h, c) ==
    CASE c = "createCq"                  -> AziHsmCreateCplQueue(h)
      [] c = "createSq"                  -> AziHsmCreateSubQueue(h)
      [] c = "deleteSq"                  -> AziHsmDeleteSubQueue(h)
      [] c \in {"deleteCq", "rollbackCq"} -> AziHsmDeleteCplQueue(h)
      [] OTHER                           -> h

(***************************************************************************)
(* Registers.                                                              *)
(***************************************************************************)
EnableController(h) == [h EXCEPT !.ready = TRUE, !.q.admin = Fresh(@)]

\* Disabled, the device forgets its queues and the commands it was sent.
DisableController(h) ==
    [h EXCEPT !.ready = FALSE, !.made = {},
              !.q = [q \in Queues |-> Fresh(h.q[q])]]

\* AziHsmDmaBufferAlloc clears the page it hands out.
Cleared(h, q) == [h EXCEPT !.q[q] = EmptyQueue]

Resets == {"disable", "disableAgain"}

RegisterWrite(h, n) ==
    CASE n \in Resets                      -> DisableController(h)
      [] n = "enable"                      -> EnableController(h)
      [] n = "adminCq"                     -> Cleared(h, "admin")
      [] n = "hsmCq"                       -> Cleared(h, "hsm")
      [] OTHER                             -> h

(***************************************************************************)
(* What each call acquires, what the end of a call gives back, and which   *)
(* buffers of the workflow it fills with key material.                     *)
(***************************************************************************)
Gets(n) ==
    IF n \in {"devicePath", "pciIo", "state", "protocol", "adminSq", "adminCq",
              "hsmSq", "hsmCq", "platformPrimary", "nullPrimary", "input", "encrypted"}
    THEN {n} ELSE {}

QueueMemory == {"adminSq", "adminCq", "hsmSq", "hsmCq"}

\* AziHsmTpmCleanup flushes the primary object whatever the call returned.
AziHsmTpmCleanup(n) ==
    CASE n = "hmac" -> {"platformPrimary"}
      [] n = "seal" -> {"nullPrimary"}
      [] OTHER      -> {}

Ends(n) ==
    CASE n = "measure" -> {"input", "encrypted"}
      [] n = "freed"   -> QueueMemory
      [] OTHER         -> {}

Fills(n) ==
    CASE n = "hmac"      -> {"TpmDerivedSecret", "TpmPlatformSecret"}
      [] n = "derive"    -> {"BKS3Key"}
      [] n = "initBks3"  -> {"WrappedBKS3"}
      [] n = "key"       -> {"Aes256Key"}
      [] n = "iv"        -> {"Iv"}
      [] n = "encrypted" -> {"InputData"}
      [] n = "encrypt"   -> {"EncryptedData", "KeyIvRecord", "KeyIvBuffer"}
      [] n = "seal"      -> {"SealedAesSecret"}
      [] n = "size"      -> {"SealedBKS3Buffer"}
      [] OTHER           -> {}

ErasedAtExit    == {"BKS3Key", "TpmPlatformSecret", "TpmDerivedSecret"}
ErasedAtCleanup == {"SealedBKS3Buffer", "SealedAesSecret", "Aes256Key", "Iv",
                    "WrappedBKS3", "EncryptedData", "InputData"}

\* Up to the first allocation a failure leaves through Exit, past Cleanup.
LeavesThroughExit == {"platformPrimary", "hmac", "derive", "initBks3", "guid",
                      "key", "iv", "input"}

NotErased == {"guid", "key", "iv", "input"}

ErasedBy(n) == IF n \in LeavesThroughExit THEN ErasedAtExit
               ELSE ErasedAtExit \union ErasedAtCleanup

(***************************************************************************)
(* Leaving a routine.                                                      *)
(***************************************************************************)
Idle == [run |-> "none", at |-> 1, posted |-> FALSE]

Entered(r) == [run |-> r, at |-> 1, posted |-> FALSE]

\* The labels CleanupAziHsmProtocol and below: the queue memory is not theirs.
Unbound(h) == h \ Calls(Binding)

\* A call failed: the buffers the call owns go, then the routine's own exit.
FailedCall(n, h) ==
    LET kept == h \ (AziHsmTpmCleanup(n) \union {"input", "encrypted"}
                     \union (IF n = "adminCq" THEN {"adminSq"} ELSE {})
                     \union (IF n = "hsmCq" THEN {"hsmSq"} ELSE {}))
    IN  CASE n \in Calls(Binding) \union Calls(AziHsmHciInitialize) ->
                 /\ held' = Unbound(kept)
                 /\ step' = Idle
          [] n = "createSq" -> held' = kept /\ step' = Entered("rollback")
          [] n \in Calls(AziHsmHciUninitialize) ->
                 /\ held' = Unbound(kept)
                 /\ step' = Idle
          [] OTHER -> held' = kept /\ step' = Entered("undo")

AfterCall(h) ==
    CASE step.run = "start" /\ step.at = Len(StartCalls) ->
             held' = h /\ step' = [Idle EXCEPT !.run = "started"]
      [] step.run = "rollback" -> held' = h /\ step' = Entered("undo")
      [] step.run = "undo" /\ step.at = Len(AziHsmHciUninitialize) ->
             held' = Unbound(h) /\ step' = Idle
      [] OTHER -> held' = h /\ step' = [step EXCEPT !.at = @ + 1, !.posted = FALSE]

Secrets(n, ok) ==
    LET filled == ctx.secrets \union (IF ok THEN Fills(n) ELSE {})
    IN  IF n \in Calls(AziHsmPerformBks3SealingWorkflow) /\ (~ok \/ n = "measure")
        THEN filled \ ErasedBy(n)
        ELSE filled

Outcome(n, ok, c) ==
    /\ ctx' = [c EXCEPT !.secrets = Secrets(n, ok),
                        !.created = @ \/ (ok /\ n = "createSq"),
                        !.exited = @ \/ (~ok /\ n \in NotErased),
                        !.failed = IF ok THEN @ ELSE @ \union {n}]
    /\ IF ok \/ n = "rollbackCq"
       THEN AfterCall((held \union Gets(n)) \ (AziHsmTpmCleanup(n) \union Ends(n)))
       ELSE FailedCall(n, held)

(***************************************************************************)
(* Actions.                                                                *)
(***************************************************************************)
\* What outlives a start: the secrets in memory, the pages nobody knows of, the queues
\* with a command that was given up, and whether a workflow left its keys behind.
NewState(secrets, left, abandoned, exited) ==
    [tail |-> [q \in Queues |-> 0], head |-> [q \in Queues |-> 0], before |-> 0,
     created |-> FALSE, secrets |-> secrets, abandoned |-> abandoned, failed |-> {},
     left |-> left, exited |-> exited]

\* The state is allocated and cleared.  Nobody knows any more of pages that an earlier
\* start left behind.
AziHsmDriverBindingStart ==
    /\ step.run = "none"
    /\ step' = Entered("start")
    /\ ctx' = NewState(ctx.secrets, ctx.left \union held, ctx.abandoned, ctx.exited)
    /\ held' = {}
    /\ UNCHANGED <<call, host>>

AziHsmDriverBindingStop ==
    /\ step.run = "started"
    /\ step' = Entered("undo")
    /\ UNCHANGED <<held, ctx, call, host>>

Running == step.run \in DOMAIN Routine

\* AziHsmAdminDeleteDeviceIoQueuePair returns at once when nothing was created.
Skipped == step.run = "undo" /\ Now \in Calls(AziHsmAdminDeleteDeviceIoQueuePair) /\ ~ctx.created

SkipDeletion ==
    /\ Running
    /\ Skipped
    /\ step' = [step EXCEPT !.at = @ + 1]
    /\ UNCHANGED <<held, ctx, call, host>>

PlainCall(ok) ==
    /\ Running
    /\ Now \notin Commands
    /\ ok \/ Now \in Failures
    /\ host' = IF ok THEN RegisterWrite(host, Now) ELSE host
    /\ Outcome(Now, ok, IF ok /\ Now \in Resets THEN [ctx EXCEPT !.abandoned = {}] ELSE ctx)
    /\ UNCHANGED call

\* AziHsmAdminIssueCmd and AziHsmFireHsmCmd, up to the doorbell.
PhaseBeforeZero(q) == 0

PhaseBefore(q) == host.q[q].cq[ctx.head[q]].phase

CommandNext == Running /\ ~Skipped /\ Now \in Commands /\ ~step.posted

PostCommand ==
    LET q == QueueOf(Now)
        t == 1 - ctx.tail[q]
    IN  /\ CommandNext
        /\ step' = [step EXCEPT !.posted = TRUE]
        /\ ctx' = [ctx EXCEPT !.before = PhaseBefore(q), !.tail[q] = t]
        /\ host' = [host EXCEPT !.q[q].sq[ctx.tail[q]] = Now, !.q[q].tail = t]
        /\ UNCHANGED <<held, call>>

\* No memory for the command's buffers: nothing is posted.
CommandUnsent ==
    /\ CommandNext
    /\ "buffer" \in Failures /\ Now \in WithBuffers
    /\ Outcome(Now, FALSE, ctx)
    /\ UNCHANGED <<call, host>>

\* The doorbell write fails when the entry is in its slot and the tail is advanced;
\* the next doorbell on the queue tells the device of it.
DoorbellFails ==
    LET q == QueueOf(Now)
    IN  /\ CommandNext
        /\ "doorbell" \in Failures
        /\ Outcome(Now, FALSE, [ctx EXCEPT !.tail[q] = 1 - @, !.abandoned = @ \union {q}])
        /\ host' = [host EXCEPT !.q[q].sq[ctx.tail[q]] = Now]
        /\ UNCHANGED call

Attended(q) == host.ready /\ (q = "hsm" => {"sq", "cq"} \subseteq host.made)

\* The device fetches the next entry ...
Fetches(q) ==
    LET d == host.q[q]
    IN  /\ Attended(q)
        /\ d.taken = "none"
        /\ d.sqHead # d.tail
        /\ host' = [host EXCEPT !.q[q].taken = d.sq[d.sqHead], !.q[q].sqHead = 1 - @]
        /\ UNCHANGED <<held, step, ctx, call>>

\* ... and some time later does it or refuses it, and answers.
Completes(q, good) ==
    LET d    == host.q[q]
        c    == d.taken
        done == IF good THEN DeviceDoes(host, c) ELSE host
    IN  /\ Attended(q)
        /\ c # "none"
        /\ good \/ c \in Failures
        /\ host' = [done EXCEPT
                      !.q[q].taken  = "none",
                      !.q[q].cqTail = 1 - d.cqTail,
                      !.q[q].phase  = IF d.cqTail = 1 THEN 1 - d.phase ELSE d.phase,
                      !.q[q].cq[d.cqTail] = [phase |-> d.phase, of |-> c, good |-> good]]
        /\ UNCHANGED <<held, step, ctx, call>>

\* The phase bit differs from the one read before the command was posted.
Answered(q) == host.q[q].cq[ctx.head[q]].phase # ctx.before

TakeAnswer ==
    LET q == QueueOf(Now)
        a == host.q[q].cq[ctx.head[q]]
    IN  /\ Running
        /\ step.posted
        /\ Answered(q)
        /\ call' = [asked |-> Now, got |-> a.of, late |-> q \in ctx.abandoned]
        /\ Outcome(Now, a.good \/ Now \in StatusIgnored,
                   [ctx EXCEPT !.head[q] = 1 - @])
        /\ UNCHANGED host

\* The time is up.  The command's buffers are unmapped and freed, although the device
\* may not have come to it yet.
GiveUp ==
    /\ Running
    /\ step.posted
    /\ Now \in Timeouts
    /\ ~Answered(QueueOf(Now))
    /\ Outcome(Now, FALSE, [ctx EXCEPT !.abandoned = @ \union {QueueOf(Now)}])
    /\ UNCHANGED <<call, host>>

Init ==
    /\ held = {}
    /\ step = Idle
    /\ ctx = NewState({}, {}, {}, FALSE)
    /\ call = [asked |-> "none", got |-> "none", late |-> FALSE]
    /\ host = [ready |-> FALSE, made |-> {}, q |-> [q \in Queues |-> EmptyQueue]]

Next ==
    \/ AziHsmDriverBindingStart
    \/ AziHsmDriverBindingStop
    \/ SkipDeletion
    \/ \E ok \in BOOLEAN : PlainCall(ok)
    \/ PostCommand
    \/ CommandUnsent
    \/ DoorbellFails
    \/ \E q \in Queues : Fetches(q)
    \/ \E q \in Queues, good \in BOOLEAN : Completes(q, good)
    \/ TakeAnswer
    \/ GiveUp

Spec == Init /\ [][Next]_vars


\* A completion the driver accepts by its phase bit is the completion of the
\* command it is waiting for, unless a command on the same queue was given up since
\* the device was last reset (AziHsmAdminIssueCmd, AziHsmFireHsmCmd).
AnswersMatch == call.asked = call.got \/ call.late

\* While the controller runs, the queue memory its registers and its queues
\* point to is allocated: AziHsmHciUninitialize stops the device before it
\* frees, and frees nothing when it could not be stopped.
QueueMemoryLive ==
    host.ready => /\ {"adminSq", "adminCq"} \subseteq held \union ctx.left
                  /\ host.made # {} => {"hsmSq", "hsmCq"} \subseteq held \union ctx.left

\* The commands the device has been told of and has not answered.
Outstanding(q) ==
    LET d == host.q[q]
    IN  {d.taken} \union (IF d.sqHead # d.tail THEN {d.sq[d.sqHead]} ELSE {})

\* The buffers of a command the device may still work on are those of the command
\* the driver waits for, unless a command on that queue was given up since the device
\* was last reset.
CommandBuffersLive ==
    \A q \in Queues :
        Attended(q) /\ q \notin ctx.abandoned =>
            \A c \in Outstanding(q) \intersect WithBuffers :
                Running /\ step.posted /\ Now = c

\* Once the sealing workflow has returned, its derived keys, the platform's secret,
\* the input and the output of the encryption and the sealed blobs are erased.  What
\* stays is the record the AES key and its vector were sealed from and, if a workflow
\* failed after it had wrapped its key and before there was an input buffer, the wrapped
\* key, the AES key and the vector.
SecretsErased ==
    step.run # "start" \/ Now \notin Calls(AziHsmPerformBks3SealingWorkflow)
        => ctx.secrets \subseteq {"KeyIvRecord", "KeyIvBuffer"}
               \union (IF ctx.exited THEN {"WrappedBKS3", "Aes256Key", "Iv"} ELSE {})

\* Each of the next four fails: the same statements without the cases named above.
NoMemoryLeft == step.run = "none" => held = {}

AnswersAlwaysMatch == call.asked = call.got

CommandBuffersAlwaysLive ==
    \A q \in Queues : Attended(q) =>
        \A c \in Outstanding(q) \intersect WithBuffers : Running /\ step.posted /\ Now = c

NoSecretLeft == step.run = "started" => ctx.secrets = {}
===============================================================================
