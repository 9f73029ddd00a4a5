------------------------------ MODULE ReadSlots ------------------------------
(* The array of server read requests of a request manager: slots are handed   *)
(* out in order by next_rdreq_ndx while that is below the last slot, and by a  *)
(* search from the beginning afterwards (rm_reserve_read_req,                  *)
(* release_read_req in unifyfs_request_manager.c).                             *)
EXTENDS Integers, FiniteSets

CONSTANT MaxReads   \* UNIFYFS_SERVER_MAX_READS

ASSUME MaxReadsAssumption == MaxReads \in Nat \ {0}

VARIABLES
    inUse,   \* the slots with in_use set
    next,    \* next_rdreq_ndx
    num      \* num_read_reqs

slotVars == <<inUse, next, num>>

Slots == 0 .. MaxReads - 1

SlotInit == inUse = {} /\ next = 0 /\ num = 0

\* The search for an unused slot takes the first one.
FirstUnused(i) == i \in Slots \ inUse /\ \A k \in Slots \ inUse : i <= k

\* rm_reserve_read_req returns slot i.
Reserve(i) ==
    /\ num < MaxReads
    /\ \/ next < MaxReads - 1 /\ i = next /\ next' = next + 1
       \/ next >= MaxReads - 1 /\ FirstUnused(i) /\ UNCHANGED next
    /\ inUse' = inUse \cup {i}
    /\ num' = num + 1

\* release_read_req: the counter goes back only when the slot before it is
\* released, and to the start when no slot is left in use.
Release(i) ==
    /\ i \in inUse
    /\ next' = IF num = 1 THEN 0 ELSE IF i = next - 1 THEN next - 1 ELSE next
    /\ inUse' = inUse \ {i}
    /\ num' = num - 1

SlotNext == \E i \in Slots : Reserve(i) \/ Release(i)

SlotSpec == SlotInit /\ [][SlotNext]_slotVars

------------------------------------------------------------------------------
\* Type invariant of the array.
SlotsTypeOK ==
    /\ inUse \subseteq Slots
    /\ next \in 0 .. MaxReads - 1
    /\ num \in 0 .. MaxReads

\* The slot that the counter hands out next is free: the assertion of
\* rm_reserve_read_req, although slots are released in any order and the search
\* fills slots on both sides of the counter.
NextFree == next < MaxReads - 1 => next \notin inUse

\* While the array is not full by the count num_read_reqs, the search of
\* rm_reserve_read_req finds a slot: it never falls off the end of the array
\* with the last slot, which may be in use, in its hands.
SearchFinds == num < MaxReads => \E i \in Slots : i \notin inUse

------------------------------------------------------------------------------
\* Everything from the counter up to the last slot but one is free, and the
\* count is exact.
SlotInv ==
    /\ SlotsTypeOK
    /\ \A i \in Slots : next <= i /\ i < MaxReads - 1 => i \notin inUse
    /\ num = Cardinality(inUse)
=============================================================================
