------------------------------ MODULE RecordLog -----------------------------
(***************************************************************************)
(* What a ring buffer of records promises: a sequence of records of a      *)
(* bounded total size.  A record that does not fit is refused, or takes    *)
(* the place of as few of the oldest records as are needed.                *)
(***************************************************************************)
EXTENDS Integers, Sequences

CONSTANTS Capacity, Overwrite

Weight(s) ==
    LET sum[n \in 0 .. Len(s)] == IF n = 0 THEN 0 ELSE s[n].total + sum[n - 1]
    IN  sum[Len(s)]
Fits(s, total) == Weight(s) + total <= Capacity
From(s, i) == SubSeq(s, i + 1, Len(s))

\* As few of the oldest records as make room.
Dropped(s, total) ==
    CHOOSE i \in 0 .. Len(s) :
        /\ Fits(From(s, i), total)
        /\ \A j \in 0 .. i - 1 : ~Fits(From(s, j), total)

Accepted(s, total) == total <= Capacity /\ (Overwrite \/ Fits(s, total))

\* The log after a record is added.
Added(s, record) ==
    IF Accepted(s, record.total)
    THEN Append(From(s, Dropped(s, record.total)), record) ELSE s
=============================================================================
