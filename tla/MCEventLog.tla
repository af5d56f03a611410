----------------------------- MODULE MCEventLog -----------------------------
(***************************************************************************)
(* The parts of the event log on small instances, one at a time: Init      *)
(* chooses the part and no step leaves it.                                 *)
(*                                                                         *)
(* "boot": BootEvents, a ring with room for two or three events and more   *)
(* attempts than that.  "clients": EventChannel with clients that call     *)
(* anything; the ring holds three small records, or one small and one      *)
(* large.                                                                  *)
(*                                                                         *)
(* "ring": EfiRing with a buffer of eight bytes and headers of two, records*)
(* of even sizes and old records overwritten; the key of handles wraps at  *)
(* 256.  "bootRing": the boot channel's way to use it, with records of any *)
(* size and none overwritten.                                              *)
(*                                                                         *)
(* "table": EfiHandleTable, two tables as large as their indices allow, and*)
(* one object too many.                                                    *)
(***************************************************************************)
EXTENDS BootEvents

VARIABLES part,
    RingHead, RingTail, HandleKey, Buffer, nextId, log, issued, retired,
    Enumerator, seen,
    Handles, NextFree, granted

ring  == <<RingHead, RingTail, HandleKey, Buffer, nextId, log, issued, retired,
           Enumerator, seen>>
table == <<Handles, NextFree, granted>>

Clients  == INSTANCE EventChannel WITH Totals <- {2, 3}, Statuses <- {1, 2}
Ring     == INSTANCE EfiRing WITH Size <- 8, HeaderSize <- 2, Totals <- {2, 4, 6, 8},
                Overwrite <- TRUE, Word <- 256, MaxId <- 6, KeepsHandles <- FALSE
BootRing == INSTANCE EfiRing WITH Size <- 8, HeaderSize <- 2, Totals <- {2, 3, 5},
                Overwrite <- FALSE, Word <- 256, MaxId <- 6, KeepsHandles <- FALSE
Table    == INSTANCE EfiHandleTable WITH Tables <- {8, 16}, IndexRange <- 4,
                Size <- 2, Guids <- {1, 2, 3, 4}

ASSUME Ring!RingConstants /\ BootRing!RingConstants /\ Table!TableConstants

MCInit ==
    /\ part \in {"boot", "clients", "ring", "bootRing", "table"}
    /\ BootInit /\ Ring!Init /\ Table!Init

MCNext ==
    \/ part = "boot" /\ BootNext /\ UNCHANGED <<part, ring, table>>
    \/ part = "clients" /\ Clients!Next /\ UNCHANGED <<part, boot, ring, table>>
    \/ part = "ring" /\ Ring!Next /\ UNCHANGED <<part, bvars, table>>
    \/ part = "bootRing" /\ BootRing!Next /\ UNCHANGED <<part, bvars, table>>
    \/ part = "table" /\ Table!Next /\ UNCHANGED <<part, bvars, ring>>

MCSpec == MCInit /\ [][MCNext]_<<part, bvars, ring, table>>
-----------------------------------------------------------------------------
\* A handle leads to the record it was returned for or is refused, an enumeration
\* sees the oldest records in order, and a handle of EfiHandleTable leads to its own
\* object (RingBufferHandleIsValid, RingBufferHandleEnumerate,
\* EfiHandleTableLookupByHandle).
HandlesSound ==
    /\ part \in {"ring", "bootRing"} => Ring!HandlesSound /\ Ring!EnumeratesInOrder
    /\ part = "table" => Table!HandlesLead

\* A ring is a log of records: what RingBufferFlatten finds is what the log
\* holds.  An overwriting one drops the oldest records, only for room; the other
\* refuses what does not fit, for records of any size.
RingImplementsLog ==
    /\ part = "ring" => Ring!ImplementsLog
    /\ part = "bootRing" => BootRing!ImplementsLog
=============================================================================
