---------------------------- MODULE MCVmbusRoot ----------------------------
(***************************************************************************)
(* The VMBus root with two channels offered at start, one of them not      *)
(* allowed, and one later.  In "plain" event flags raise the interrupt     *)
(* while no message is in the slot; in "flags" they do so at any time, and *)
(* no channel is offered later.                                            *)
(***************************************************************************)
EXTENDS VmbusRoot

VARIABLE part

Flags == INSTANCE VmbusRoot WITH Hot <- {}, Allowed <- {1}, SharedInterrupt <- "always",
             StopTpls <- {"application", "callback"}, MaxStarts <- 1

MCInit == part \in {"plain", "flags"} /\ Init
MCNext ==
    \/ part = "plain" /\ Next /\ UNCHANGED part
    \/ part = "flags" /\ Flags!Next /\ UNCHANGED part
MCSpec == MCInit /\ [][MCNext]_<<part, vars>>
=============================================================================
