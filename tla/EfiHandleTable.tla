---------------------------- MODULE EfiHandleTable --------------------------
(***************************************************************************)
(* Handle tables (MsvmPkg/EventLogDxe/EfiHandleTable.c) and the creation of*)
(* event channels in one (EventChannelCreate).  A handle is the index of   *)
(* its object with the table's key above it, biased by one.                *)
(***************************************************************************)
EXTENDS Integers, FiniteSets

CONSTANTS Tables,         \* the table keys, shifted above the index
          IndexRange,     \* 2^16, the range of an index
          Size,           \* slots of a table
          Guids           \* object keys; 0 is none

TableConstants ==
    /\ IndexRange \in Nat /\ Size \in Nat \ {0} /\ Size <= IndexRange - 2
    /\ \A t \in Tables : t \in Nat /\ t % IndexRange = 0
    /\ 0 \notin Guids

VARIABLES Handles,        \* the objects of each table, by their keys
          NextFree,       \* the hint of each table
          granted         \* what each handle was returned for
vars == <<Handles, NextFree, granted>>

Slots == 0 .. Size - 1
INVALID == -1

Init ==
    /\ Handles = [t \in Tables |-> [i \in Slots |-> 0]]
    /\ NextFree = [t \in Tables |-> 0]
    /\ granted = {}
-----------------------------------------------------------------------------
\* HANDLE_TABLE_ENCODE, _INDEX and _KEY.
Encode(index, t) == index + t + 1
Index(handle) == (handle % IndexRange) - 1
Key(handle) == handle - (handle % IndexRange)

EfiHandleTableLookupByHandle(t, handle) ==
    IF handle # INVALID /\ Key(handle) = t /\ Index(handle) \in Slots
    THEN Handles[t][Index(handle)] ELSE 0

\* EfiHandleTableLookupByKey: the handle of the first object with the key.
First(S) == CHOOSE i \in S : \A j \in S : i <= j
EfiHandleTableLookupByKey(t, guid) ==
    LET found == {i \in Slots : Handles[t][i] = guid}
    IN  IF found = {} THEN INVALID ELSE Encode(First(found), t)

FreeSlots(t) == {i \in Slots : i >= NextFree[t] /\ Handles[t][i] = 0}

EfiHandleTableAllocateObject(t, guid) ==
    /\ FreeSlots(t) # {}
    /\ LET i == First(FreeSlots(t)) IN
       /\ Handles' = [Handles EXCEPT ![t][i] = guid]
       /\ NextFree' = [NextFree EXCEPT ![t] = @ + 1]
       /\ granted' = granted \cup {[handle |-> Encode(i, t), table |-> t, guid |-> guid]}

\* EventChannelCreate: a channel that exists is opened.  A full table, or no
\* memory, creates nothing.
EventChannelCreate(t, guid) ==
    LET handle == EfiHandleTableLookupByKey(t, guid) IN
    IF handle # INVALID
    THEN /\ granted' = granted \cup {[handle |-> handle, table |-> t, guid |-> guid]}
         /\ UNCHANGED <<Handles, NextFree>>
    ELSE EfiHandleTableAllocateObject(t, guid)

Next == \E t \in Tables, guid \in Guids : EventChannelCreate(t, guid)
Spec == Init /\ [][Next]_vars
-----------------------------------------------------------------------------
\* A handle leads to the object it was returned for, in its own table, and in
\* no other table.
HandlesLead ==
    \A g \in granted, t \in Tables :
        EfiHandleTableLookupByHandle(t, g.handle) = IF t = g.table THEN g.guid ELSE 0
=============================================================================
