-------------------------------- MODULE Vmbfs --------------------------------
(***************************************************************************)
(* The read-only file system the host serves over a channel: the driver's  *)
(* start and stop, the volume that is opened with the first handle and     *)
(* closed with the last, and reads, which go to the host in pieces.        *)
(*                                                                         *)
(* A handle is a member of Handles, the root or another directory or the   *)
(* one file, and a byte of the file is its offset.  Requests are           *)
(* serialised: an exchange with the host ends before the next begins.      *)
(* Left out is a client that calls the protocol after Stop, which leaves   *)
(* it installed with its structure freed.                                  *)
(***************************************************************************)
EXTENDS Integers, Sequences, FiniteSets, FiniteSetsExt, SequencesExt

CONSTANTS
    Handles,     \* the handles clients may have
    FileSize,    \* size of the file
    MaxPayload,  \* what one exchange can carry
    MaxRead,     \* largest read of a client
    Failures     \* the calls that may fail

VARIABLES held, step, ctx, call

vars == <<held, step, ctx, call>>

NoRead == [handle |-> "none", want |-> 0, got |-> <<>>, done |-> FALSE]

\* ReferenceCount, the open handles with their offsets and those of directories, what the
\* structure still points to of a volume that was closed, whether CreateEvent failed, and
\* whether something was closed twice.
Init ==
    /\ held = {}
    /\ step = "absent"
    /\ ctx = [refs |-> 0, offset |-> [h \in {} |-> 0], directories |-> {}, stale |-> {},
              noEvent |-> FALSE, twice |-> FALSE, result |-> "none"]
    /\ call = NoRead
-----------------------------------------------------------------------------
(* VmbfsStart, VmbfsStop                                                   *)

StartCalls == <<"emcl", "fileSystem", "devicePath", "emclOpen", "protocol">>
Failing(calls) == {i \in 1 .. Len(calls) : calls[i] \in Failures}
UpTo(calls, n) == {calls[i] : i \in 1 .. n}

\* VmbfsCleanup gives back what the structure names, Start the EMCL protocol.
VmbfsCleanup(h) == h \ {"emclOpen", "devicePath", "fileSystem"}

VmbfsStart ==
    /\ step = "absent"
    /\ \/ \E i \in Failing(StartCalls) :
              LET h == UpTo(StartCalls, i - 1) IN
              /\ held' = (IF "fileSystem" \in h THEN VmbfsCleanup(h) ELSE h) \ {"emcl"}
              /\ ctx' = [ctx EXCEPT !.result = "failed"]
              /\ UNCHANGED step
       \/ /\ held' = UpTo(StartCalls, Len(StartCalls))
          /\ ctx' = [ctx EXCEPT !.stale = {}, !.result = "ok"]
          /\ step' = "started"
    /\ UNCHANGED call

\* The protocol stays installed: the call that should uninstall it names no interface.
VmbfsStop ==
    /\ step = "started" /\ ctx.refs = 0
    /\ held' = VmbfsCleanup(held) \ {"emcl"}
    /\ step' = "stopped"
    /\ UNCHANGED <<ctx, call>>
-----------------------------------------------------------------------------
(* VmbfsOpenVolume, VmbfsCloseVolume                                       *)

VolumeCalls == <<"event", "buffer", "file", "callback", "channel", "version">>

\* VmbfsCloseVolume: the pointers to the event and the buffer are not cleared, so what
\* an earlier call closed is closed once more when the first call of OpenVolume fails.
VmbfsCloseVolume(h, opened) == h \ ({"event", "buffer"} \cup IF opened THEN {"channel"} ELSE {})

VmbfsOpenVolume(root) ==
    /\ step = "started" /\ call = NoRead
    /\ \/ /\ ctx.refs > 0
          /\ ctx' = [ctx EXCEPT !.result = "volumeOpen"]
          /\ UNCHANGED held
       \/ /\ ctx.refs = 0
          /\ \E i \in Failing(VolumeCalls) :
                 LET h == UpTo(VolumeCalls, i - 1)
                     closed == IF i = 1 THEN ctx.stale ELSE h \cap {"event", "buffer"}
                 IN  /\ held' = VmbfsCloseVolume(held \cup (h \ {"file", "callback"}), "channel" \in h)
                     /\ ctx' = [ctx EXCEPT !.result = "failed", !.stale = closed,
                                           !.noEvent = @ \/ i = 1,
                                           !.twice = @ \/ ~(closed \subseteq h)]
       \/ /\ ctx.refs = 0
          /\ held' = held \cup {"event", "buffer", "channel"}
          /\ ctx' = [ctx EXCEPT !.refs = 1, !.offset = [h \in {root} |-> 0],
                                !.directories = {root}, !.stale = {}, !.result = "root"]
    /\ UNCHANGED <<step, call>>

\* VmbfsOpen from an open handle of the file or, the host says which, of a directory; the
\* host may not find it.
VmbfsOpen(from, h) ==
    /\ call = NoRead
    /\ from \in DOMAIN ctx.offset /\ h \notin DOMAIN ctx.offset
    /\ \/ ctx' = [ctx EXCEPT !.result = "failed"]
       \/ \E directory \in SUBSET {h} :
              ctx' = [ctx EXCEPT !.refs = @ + 1, !.result = "ok",
                         !.directories = @ \cup directory,
                         !.offset = [x \in DOMAIN @ \cup {h} |-> IF x = h THEN 0 ELSE @[x]]]
    /\ UNCHANGED <<held, step, call>>

\* VmbfsClose: the volume goes with its last handle.
VmbfsClose(h) ==
    /\ call = NoRead /\ h \in DOMAIN ctx.offset
    /\ held' = IF ctx.refs = 1 THEN VmbfsCloseVolume(held, TRUE) ELSE held
    /\ ctx' = [ctx EXCEPT !.refs = @ - 1, !.result = "ok",
                  !.stale = IF ctx.refs = 1 THEN {"event", "buffer"} ELSE @,
                  !.directories = @ \ {h},
                  !.offset = [x \in DOMAIN @ \ {h} |-> @[x]]]
    /\ UNCHANGED <<step, call>>
-----------------------------------------------------------------------------
(* VmbfsRead: one exchange after the other until the client's buffer or    *)
(* the file is at its end.  A directory is not read.                       *)

VmbfsRead(h, n) ==
    /\ call = NoRead /\ h \in DOMAIN ctx.offset
    /\ \/ /\ h \in ctx.directories
          /\ ctx' = [ctx EXCEPT !.result = "failed"]
          /\ UNCHANGED call
       \/ /\ h \notin ctx.directories
          /\ call' = [handle |-> h, want |-> n, got |-> <<>>, done |-> FALSE]
          /\ UNCHANGED ctx
    /\ UNCHANGED <<held, step>>

Position == ctx.offset[call.handle] + Len(call.got)
More == Len(call.got) < call.want /\ Position < FileSize

\* VmbfsReadPayload and VmbfsReadRdma: the host returns at most what is asked for, and at
\* least a byte (the loop has no other end).
PayloadFromStart == ctx.offset[call.handle]
PayloadFrom == ctx.offset[call.handle] + Len(call.got)
VmbfsReadPayload ==
    /\ call # NoRead /\ ~call.done /\ More
    /\ \/ \E n \in 1 .. Min({call.want - Len(call.got), MaxPayload, FileSize - Position}) :
              call' = [call EXCEPT !.got = @ \o [i \in 1 .. n |-> PayloadFrom + i - 1]]
       \/ "read" \in Failures /\ call' = NoRead
    /\ UNCHANGED <<held, step, ctx>>

\* The offset moves past what was read; a read that failed left it alone.
ReadReturns ==
    /\ call # NoRead
    /\ \/ /\ ~call.done /\ ~More
          /\ ctx' = [ctx EXCEPT !.offset[call.handle] = @ + Len(call.got)]
          /\ call' = [call EXCEPT !.done = TRUE]
       \/ call.done /\ call' = NoRead /\ UNCHANGED ctx
    /\ UNCHANGED <<held, step>>

\* VmbfsSetPosition: a position in the file, or its last byte for the largest number; of a
\* directory 0 is the only one, and nothing moves.
EndOfFile == -1
VmbfsSetPosition(h, p) ==
    /\ call = NoRead /\ h \in DOMAIN ctx.offset
    /\ \/ /\ h \in ctx.directories
          /\ ctx' = [ctx EXCEPT !.result = IF p = 0 THEN "ok" ELSE "failed"]
       \/ /\ h \notin ctx.directories /\ p \in 0 .. FileSize - 1
          /\ ctx' = [ctx EXCEPT !.offset[h] = p, !.result = "ok"]
       \/ /\ h \notin ctx.directories /\ p = EndOfFile
          /\ ctx' = [ctx EXCEPT !.offset[h] = FileSize - 1, !.result = "end"]
       \/ /\ h \notin ctx.directories /\ p >= FileSize
          /\ ctx' = [ctx EXCEPT !.result = "failed"]
    /\ UNCHANGED <<held, step, call>>
-----------------------------------------------------------------------------
Next ==
    \/ VmbfsStart \/ VmbfsStop \/ VmbfsReadPayload \/ ReadReturns
    \/ \E h \in Handles :
           \/ VmbfsOpenVolume(h) \/ VmbfsClose(h)
           \/ \E from \in Handles : VmbfsOpen(from, h)
           \/ \E n \in 0 .. MaxRead : VmbfsRead(h, n)
           \/ \E p \in EndOfFile .. FileSize : VmbfsSetPosition(h, p)

Spec == Init /\ [][Next]_vars
-----------------------------------------------------------------------------

\* The channel, the event and the packet buffer of the volume exist exactly while a
\* handle is open, and the count is the number of open handles.  Nothing is closed twice
\* unless CreateEvent failed: then OpenVolume closes the event and frees the buffer of the
\* volume closed before.
VolumeOpenWithHandles ==
    /\ ctx.refs = Cardinality(DOMAIN ctx.offset)
    /\ \A r \in {"channel", "event", "buffer"} : r \in held <=> ctx.refs > 0
    /\ ctx.twice => ctx.noEvent

\* A read that succeeds returns the bytes of the file from the handle's offset on, as
\* many as the client asked for or the file has, in whatever pieces the host sent
\* them, and leaves the offset after the last of them.
ReadReturnsFile ==
    call # NoRead /\ call.done =>
        LET end == ctx.offset[call.handle]
            n == Len(call.got)
        IN  /\ call.handle \notin ctx.directories
            /\ call.got = [i \in 1 .. n |-> end - n + i - 1]
            /\ n = call.want \/ end >= FileSize

\* Stop gives back all that Start took (it leaves the protocol).
NothingLeftByStop == step = "stopped" => held = {}

\* Nothing is closed twice (it is after a failed CreateEvent).
NothingClosedTwice == ~ctx.twice

\* A call of OpenVolume that succeeds returns a handle for the root directory.
RootReturned == ctx.result # "volumeOpen"

\* Seeking to the largest position goes to the end of the file.
SeekToEnd == ctx.result = "end" => \E h \in DOMAIN ctx.offset : ctx.offset[h] = FileSize
==============================================================================
