------------------------------ MODULE ExtentTree ------------------------------
(***************************************************************************)
(* The extent tree of an inode (server/src/extent_tree.c): which bytes of  *)
(* the file are in which write log.  The tree is a set of ranges here; the *)
(* red-black tree below it only finds ranges.  An operation holds the lock *)
(* of the tree; its loop is one action per iteration.                      *)
(***************************************************************************)
EXTENDS Ranges, FiniteSets

CONSTANTS
    MaxOffset,  \* last offset of the file
    MaxPos,     \* last position in a log at which an added extent starts
    Logs,       \* the write logs: <<svr_rank, app_id, cli_id>>
    MaxOps      \* bound on the number of operations

ASSUME BoundsAssumption == MaxOffset \in Nat /\ MaxPos \in Nat /\ MaxOps \in Nat

VARIABLES
    nodes,  \* the ranges in the tree
    count,  \* tree->count
    max,    \* tree->max
    busy,   \* the operation that holds the lock
    ref,    \* what the operations so far define: the location of each byte
    nops    \* number of operations so far

vars == <<nodes, count, max, busy, ref, nops>>

Offsets == 0 .. MaxOffset
Extents == {e \in [start : Offsets, end : Offsets, pos : 0 .. MaxPos, log : Logs] :
                e.start <= e.end}
Hole == <<>>
Unlocked == [op |-> "none"]

Init ==
    /\ nodes = {}
    /\ count = 0
    /\ max = 0
    /\ busy = Unlocked
    /\ ref = [o \in Offsets |-> Hole]
    /\ nops = 0

Lock(op) ==
    /\ busy = Unlocked
    /\ nops < MaxOps
    /\ nops' = nops + 1
    /\ busy' = op

------------------------------------------------------------------------------
(* extent_tree_add *)

AddStart(e) ==
    /\ Lock([op |-> "add", ext |-> e])
    /\ ref' = [o \in Offsets |-> IF Covers(e, o) THEN Loc(e, o) ELSE ref[o]]
    /\ UNCHANGED <<nodes, count, max>>

\* RB_INSERT returns a node c that overlaps the new extent e.
Conflict(c, e) == c \in nodes /\ Overlap(c, e)

Adding(e) == busy = [op |-> "add", ext |-> e]

\* The new extent covers the conflicting one: it is removed.
RemoveCovered(c, e) ==
    /\ Adding(e)
    /\ Conflict(c, e)
    /\ e.start <= c.start /\ c.end <= e.end
    /\ nodes' = nodes \ {c}
    /\ count' = count - 1
    /\ UNCHANGED <<max, busy, ref, nops>>

\* get_non_overlapping_range: the part of the conflicting extent in front of the
\* new one, with the rest as an extent of its own for the next iteration; or
\* else the part behind the new one.
Split(c, e) ==
    IF c.start < e.start
    THEN {Piece(c, c.start, e.start - 1), Piece(c, e.start, c.end)}
    ELSE {Piece(c, e.end + 1, c.end)}

\* Part of the conflicting extent stays.
SplitConflict(c, e) ==
    /\ Adding(e)
    /\ Conflict(c, e)
    /\ ~(e.start <= c.start /\ c.end <= e.end)
    /\ nodes' = (nodes \ {c}) \cup Split(c, e)
    /\ count' = IF c.start < e.start THEN count + 1 ELSE count
    /\ UNCHANGED <<max, busy, ref, nops>>

\* A mistake: extents of different logs are merged.
MutCanMerge(m, n) == Contiguous(m, n)

CanMerge(m, n) == m.log = n.log /\ Contiguous(m, n)

\* The new extent and what is merged with it: the extent before it, and then the
\* extent after the result.
Merge(ns, e) ==
    LET before == {p \in ns : CanMerge(p, e)}
        target == IF before = {} THEN e
                  ELSE [(CHOOSE p \in before : TRUE) EXCEPT !.end = e.end]
        after  == {n \in ns : CanMerge(target, n)}
    IN  [gone |-> before \cup after,
         node |-> IF after = {} THEN target
                  ELSE [target EXCEPT !.end = (CHOOSE n \in after : TRUE).end]]

\* No conflict is left: the extent is inserted and merged with its neighbours.
Insert(e) ==
    /\ Adding(e)
    /\ \A c \in nodes : ~Overlap(c, e)
    /\ LET m == Merge(nodes, e) IN
       /\ nodes' = (nodes \ m.gone) \cup {m.node}
       /\ count' = count + 1 - Cardinality(m.gone)
    /\ max' = IF e.end > max THEN e.end ELSE max
    /\ busy' = Unlocked
    /\ UNCHANGED <<ref, nops>>

------------------------------------------------------------------------------
(* extent_tree_truncate *)

Truncated(size) == [o \in Offsets |-> IF o < size THEN ref[o] ELSE Hole]

\* Size 0: extent_tree_clear, which leaves an empty tree alone.
Clear ==
    /\ busy = Unlocked /\ nops < MaxOps
    /\ nops' = nops + 1
    /\ nodes' = {}
    /\ IF nodes = {} THEN UNCHANGED <<count, max>> ELSE count' = 0 /\ max' = 0
    /\ ref' = Truncated(0)
    /\ UNCHANGED busy

TruncateStart(size) ==
    /\ size > 0
    /\ Lock([op |-> "truncate", size |-> size])
    /\ ref' = Truncated(size)
    /\ UNCHANGED <<nodes, count, max>>

Truncating(size) == busy = [op |-> "truncate", size |-> size]

\* RB_MAX, and RB_PREV after the maximum is removed.
IsLast(n) == n \in nodes /\ \A m \in nodes : m.end <= n.end

\* The last extent lies behind the new size.
TruncateRemove(n, size) ==
    /\ Truncating(size)
    /\ IsLast(n)
    /\ n.start >= size
    /\ nodes' = nodes \ {n}
    /\ count' = count - 1
    /\ UNCHANGED <<max, busy, ref, nops>>

\* The new size falls into the last extent.
TruncateCut(n, size) ==
    /\ Truncating(size)
    /\ IsLast(n)
    /\ n.start < size /\ n.end >= size
    /\ nodes' = (nodes \ {n}) \cup {[n EXCEPT !.end = size - 1]}
    /\ max' = size - 1
    /\ busy' = Unlocked
    /\ UNCHANGED <<count, ref, nops>>

\* The extents that are left lie below the new size.
TruncateEnd(size) ==
    /\ Truncating(size)
    /\ \A n \in nodes : n.end < size
    /\ \/ nodes = {} /\ max' = 0
       \/ \E n \in nodes : IsLast(n) /\ max' = n.end
    /\ busy' = Unlocked
    /\ UNCHANGED <<nodes, count, ref, nops>>

------------------------------------------------------------------------------
(* extent_tree_get_chunk_list *)

\* extent_tree_find, and extent_tree_iter up to the end of the request.
Found(a, b) == {n \in nodes : n.end >= a /\ n.start <= b}

\* A mistake: the log position is not moved when the front is trimmed.
MutChunk(n, a, b) ==
    [offset |-> IF n.start < a THEN a ELSE n.start,
     nbytes |-> Length(n) - (IF n.start < a THEN a - n.start ELSE 0)
                          - (IF n.end > b THEN n.end - b ELSE 0),
     log_offset |-> n.pos,
     log |-> n.log]

\* chunk_req_from_extent: the extent trimmed to the request.
Chunk(n, a, b) ==
    LET diff == IF n.start < a THEN a - n.start ELSE 0 IN
    [offset |-> n.start + diff,
     nbytes |-> Length(n) - diff - (IF n.end > b THEN n.end - b ELSE 0),
     log_offset |-> n.pos + diff,
     log |-> n.log]

Chunks(a, b) == {Chunk(n, a, b) : n \in Found(a, b)}

\* extent_covered: the extents found leave no gap.
ExtentCovered(a, b) ==
    /\ \E first \in Found(a, b) : first.start <= a
    /\ \E last \in Found(a, b) : last.end >= b
    /\ \A n \in Found(a, b) :
        (\E m \in Found(a, b) : m.start < n.start) => \E m \in Found(a, b) : m.end + 1 = n.start

------------------------------------------------------------------------------
AddStep(e) == \/ \E c \in nodes : RemoveCovered(c, e) \/ SplitConflict(c, e)
              \/ Insert(e)

TruncateStep(size) == \/ \E n \in nodes : TruncateRemove(n, size) \/ TruncateCut(n, size)
                      \/ TruncateEnd(size)

Continue == \/ busy.op = "add" /\ AddStep(busy.ext)
            \/ busy.op = "truncate" /\ TruncateStep(busy.size)

Next == \/ \E e \in Extents : AddStart(e)
        \/ Clear
        \/ \E size \in Offsets : TruncateStart(size)
        \/ Continue

Spec == Init /\ [][Next]_vars

\* A thread that holds the lock goes on.
FairSpec == Spec /\ WF_vars(Continue)

------------------------------------------------------------------------------
(* Properties *)

Nodes == [start : Offsets, end : Offsets, pos : Nat, log : Logs]
Operations == {Unlocked} \cup [op : {"add"}, ext : Extents]
                         \cup [op : {"truncate"}, size : Offsets \ {0}]
Locations == {Hole} \cup (Logs \X Nat)

\* Type invariant of the tree: every range is a proper range.
TypeOK ==
    /\ nodes \subseteq Nodes
    /\ \A n \in nodes : n.start <= n.end
    /\ count \in Nat /\ max \in Offsets
    /\ busy \in Operations
    /\ ref \in [Offsets -> Locations]
    /\ nops \in 0 .. MaxOps

\* The ranges in the tree never overlap, also between two iterations of the loop
\* of extent_tree_add.  The order of the red-black tree depends on it.
NonOverlapping == \A m, n \in nodes : Overlap(m, n) => m = n

Holds(o) == {Loc(n, o) : n \in {m \in nodes : Covers(m, o)}}

\* The tree represents the file: when no operation is running, each byte is at
\* the location where the latest extent put it that was not truncated since.
RepresentsFile ==
    busy = Unlocked => \A o \in Offsets : Holds(o) = IF ref[o] = Hole THEN {} ELSE {ref[o]}

\* tree->count is the number of ranges, whatever was split, covered or merged.
CountExact == count = Cardinality(nodes)

\* tree->max is the last offset that the tree covers (0 if there is none):
\* unifyfs_inode_add_extents computes the file size from it.
MaxExact == busy = Unlocked =>
    IF nodes = {} THEN max = 0 ELSE \E n \in nodes : IsLast(n) /\ n.end = max

\* A lookup finds for every byte of the request where it is, and "covered" means
\* that no byte is missing: the servers then do not ask the owner.
LookupExact == busy = Unlocked => \A a, b \in Offsets : a <= b =>
    /\ ExtentCovered(a, b) <=> \A o \in a .. b : ref[o] # Hole
    /\ \A o \in Offsets :
        {<<c.log, c.log_offset + (o - c.offset)>> :
            c \in {d \in Chunks(a, b) : o \in d.offset .. (d.offset + d.nbytes - 1)}}
        = IF o \in a .. b /\ ref[o] # Hole THEN {ref[o]} ELSE {}

------------------------------------------------------------------------------
(* The inductive invariant *)

\* Offsets that the running operation leaves alone.
Stable(o) == /\ busy.op = "add" => ~Covers(busy.ext, o)
             /\ busy.op = "truncate" => o < busy.size

\* The tree agrees with the file at these offsets.
Agrees ==
    \A o \in Offsets : Stable(o) =>
        /\ \A n \in nodes : Covers(n, o) => ref[o] = Loc(n, o)
        /\ ref[o] # Hole => \E n \in nodes : Covers(n, o)

\* What the running operation will make of the other offsets.
Intended ==
    \A o \in Offsets :
        /\ busy.op = "add" /\ Covers(busy.ext, o) => ref[o] = Loc(busy.ext, o)
        /\ busy.op = "truncate" /\ o >= busy.size => ref[o] = Hole

\* tree->max is a bound, and exact unless the extent being added ends later.
MaxBounds ==
    /\ busy.op # "truncate" => \A n \in nodes : n.end <= max
    /\ busy.op = "add" /\ max > busy.ext.end => \E n \in nodes : n.end = max
    /\ busy = Unlocked => (nodes = {} /\ max = 0) \/ \E n \in nodes : n.end = max

IInv == TypeOK /\ NonOverlapping /\ Agrees /\ Intended /\ MaxBounds
        /\ IsFiniteSet(nodes) /\ CountExact
=============================================================================
