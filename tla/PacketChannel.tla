--------------------------- MODULE PacketChannel ----------------------------
(***************************************************************************)
(* What one direction of a VMBus channel promises its users: packets come  *)
(* out unchanged, in the order in which they went in, none lost and none   *)
(* delivered twice.                                                        *)
(***************************************************************************)
EXTENDS Sequences

CONSTANT Packet         \* the packets that can be sent

VARIABLES queue,        \* packets sent and not yet delivered
          delivered     \* the packet delivered last (initially none)

Init == queue = <<>> /\ delivered = <<>>

Send == \E p \in Packet : queue' = Append(queue, p) /\ UNCHANGED delivered

Deliver == /\ queue # <<>>
           /\ delivered' = Head(queue)
           /\ queue' = Tail(queue)

Next == Send \/ Deliver

Spec == Init /\ [][Next]_<<queue, delivered>>

=============================================================================
