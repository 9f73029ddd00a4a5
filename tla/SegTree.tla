------------------------------- MODULE SegTree -------------------------------
(***************************************************************************)
(* The segment trees of a file at a client (common/src/seg_tree.c) and     *)
(* what uses them: "sync" holds the writes that the server has not been    *)
(* told of (extents_sync), "local" the extents that reads are served from  *)
(* without the server (extents).  A library call leaves a sequence of      *)
(* steps to do; a loop of the tree is one action per iteration.  A range   *)
(* has a client id in its field "log".                                     *)
(***************************************************************************)
EXTENDS Ranges, Sequences, FiniteSets

CONSTANTS
    LastByte,    \* last offset of the file
    LastPos,     \* last log position at which a write starts
    Me,          \* this client
    Neighbours,  \* the other clients of the application on this node
    MaxEntries,  \* max_write_index_entries
    MaxCalls     \* bound on the number of library calls

ASSUME SegTreeAssumption == /\ LastByte \in Nat /\ LastPos \in Nat /\ MaxCalls \in Nat
                            /\ MaxEntries \in Nat /\ MaxEntries > 2 /\ Me \notin Neighbours

VARIABLES
    trees,    \* the two trees
    todo,     \* what is left to do of the running call
    index,    \* the index entries of the latest sync
    told,     \* the location of each byte as the server was told
    written,  \* the location of each byte as this client wrote it
    known,    \* the location of each byte of which the local tree was told
    caching,  \* "own": use_local_extents; "node": use_node_local_extents
    calls     \* number of library calls

segVars == <<trees, todo, index, told, written, known, caching, calls>>

Bytes == 0 .. LastByte
Segments(writers) == {e \in [start : Bytes, end : Bytes, pos : 0 .. LastPos, log : writers] :
                          e.start <= e.end}
Nowhere == <<>>
EmptyTree == [nodes |-> {}, count |-> 0, max |-> 0]

SegInit ==
    /\ trees = [t \in {"sync", "local"} |-> EmptyTree]
    /\ todo = <<>>
    /\ index = {}
    /\ told = [o \in Bytes |-> Nowhere]
    /\ written = [o \in Bytes |-> Nowhere]
    /\ known = [o \in Bytes |-> Nowhere]
    /\ caching \in {"own", "node"}
    /\ calls = 0

Call(steps) ==
    /\ todo = <<>> /\ calls < MaxCalls
    /\ calls' = calls + 1
    /\ todo' = steps
    /\ UNCHANGED caching

\* The location of each byte after the ranges of ns were put over loc.
Over(loc, ns) ==
    [o \in Bytes |-> IF \E n \in ns : Covers(n, o)
                     THEN Loc(CHOOSE n \in ns : Covers(n, o), o) ELSE loc[o]]
CutAt(loc, size) == [o \in Bytes |-> IF o < size THEN loc[o] ELSE Nowhere]

Add(t, e) == [op |-> "add", tree |-> t, ext |-> e]
RemoveStep(t, a, b) == [op |-> "remove", tree |-> t, a |-> a, b |-> b]
Step(op) == [op |-> op, tree |-> "sync"]

Doing(op) == todo # <<>> /\ Head(todo).op = op
Tree == trees[Head(todo).tree]
Set(tree) == trees' = [trees EXCEPT ![Head(todo).tree] = tree]

------------------------------------------------------------------------------
(* seg_tree_add *)

\* get_non_overlapping_range: the part in front of the new range, with the rest as
\* a range of its own for the next iteration, or else the part behind it.  The
\* parts get the client id of the new range.
SegSplit(c, e) ==
    LET part(a, b) == [Piece(c, a, b) EXCEPT !.log = e.log] IN
    IF c.start < e.start THEN {part(c.start, e.start - 1), part(e.start, c.end)}
    ELSE IF c.end > e.end THEN {part(e.end + 1, c.end)}
    ELSE {}

\* RB_INSERT finds a range c that overlaps the new one.
SegConflict(c) ==
    /\ Doing("add")
    /\ Overlap(c, Head(todo).ext)
    /\ LET parts == SegSplit(c, Head(todo).ext) IN
       Set([Tree EXCEPT !.nodes = (@ \ {c}) \cup parts,
                        !.count = @ - 1 + Cardinality(parts)])
    /\ UNCHANGED <<todo, index, told, written, known, caching, calls>>

\* Mistake: ranges are merged that are not adjacent in the log.
MutCoalesce(ns, e) ==
    LET before == {p \in ns : p.end + 1 = e.start}
        target == IF before = {} THEN e
                  ELSE [(CHOOSE p \in before : TRUE) EXCEPT !.end = e.end]
    IN  [gone |-> before, node |-> target]

\* The new range is merged with the range before it, and the result with the range
\* after it, where they are adjacent in the file and in the log.
Coalesce(ns, e) ==
    LET before == {p \in ns : Contiguous(p, e)}
        target == IF before = {} THEN e
                  ELSE [(CHOOSE p \in before : TRUE) EXCEPT !.end = e.end]
        after  == {n \in ns : Contiguous(target, n)}
    IN  [gone |-> before \cup after,
         node |-> IF after = {} THEN target
                  ELSE [target EXCEPT !.end = (CHOOSE n \in after : TRUE).end]]

\* No range overlaps any more: the new one is inserted.
SegInsert ==
    /\ Doing("add")
    /\ LET e == Head(todo).ext
           m == Coalesce(Tree.nodes, e) IN
       /\ \A c \in Tree.nodes : ~Overlap(c, e)
       /\ Set([nodes |-> (Tree.nodes \ m.gone) \cup {m.node},
               count |-> Tree.count + 1 - Cardinality(m.gone),
               max |-> IF e.end > Tree.max THEN e.end ELSE Tree.max])
    /\ todo' = Tail(todo)
    /\ UNCHANGED <<index, told, written, known, caching, calls>>

------------------------------------------------------------------------------
(* seg_tree_find_nolock, seg_tree_remove and seg_tree_clear *)

\* The range with the lowest offset that overlaps [a, b]: RB_NFIND of the byte a.
FindNolock(ns, a, b) ==
    {n \in ns : n.end >= a /\ n.start <= b /\ \A m \in ns : m.end >= a => n.start <= m.start}

\* The part of the range n in [a, b] goes.  The part behind it is added by
\* seg_tree_add, for which the lock is released; then the search goes on.
SegRemove(n) ==
    /\ Doing("remove")
    /\ LET a == Head(todo).a
           b == Head(todo).b
           front == IF n.start < a THEN {[n EXCEPT !.end = a - 1]} ELSE {}
           back  == IF n.end > b THEN {Piece(n, b + 1, n.end)} ELSE {} IN
       /\ n \in FindNolock(Tree.nodes, a, b)
       /\ IF front # {} /\ back # {}
          THEN /\ Set([Tree EXCEPT !.nodes = (@ \ {n}) \cup front])
               /\ todo' = <<Add(Head(todo).tree, Piece(n, b + 1, n.end))>> \o todo
          ELSE /\ Set([Tree EXCEPT !.nodes = (@ \ {n}) \cup front \cup back,
                                   !.count = IF front \cup back = {} THEN @ - 1 ELSE @])
               /\ UNCHANGED todo
    /\ UNCHANGED <<index, told, written, known, caching, calls>>

SegRemoveEnd ==
    /\ Doing("remove")
    /\ FindNolock(Tree.nodes, Head(todo).a, Head(todo).b) = {}
    /\ todo' = Tail(todo)
    /\ UNCHANGED <<trees, index, told, written, known, caching, calls>>

SegClear ==
    /\ Doing("clear")
    /\ Set(IF Tree.nodes = {} THEN Tree ELSE EmptyTree)
    /\ todo' = Tail(todo)
    /\ UNCHANGED <<index, told, written, known, caching, calls>>

------------------------------------------------------------------------------
(* The client's use of the trees *)

\* unifyfs_fid_write records the extent that it wrote to the log.
add_write_meta_to_index(e) ==
    /\ Call((IF caching = "own" THEN <<Add("local", e)>> ELSE <<>>)
            \o <<Step("check"), Add("sync", e)>>)
    /\ written' = Over(written, {e})
    /\ known' = IF caching = "own" THEN Over(known, {e}) ELSE known
    /\ UNCHANGED <<trees, index, told>>

\* Mistake: the sync comes when the index is full.
MutCheckRoom ==
    /\ Doing("check")
    /\ todo' = (IF Tree.count >= MaxEntries THEN <<Step("rewrite")>> ELSE <<>>) \o Tail(todo)
    /\ UNCHANGED <<trees, index, told, written, known, caching, calls>>

\* A write can add two ranges: the sync comes before that overflows the index.
CheckRoom ==
    /\ Doing("check")
    /\ todo' = (IF Tree.count >= MaxEntries - 2 THEN <<Step("rewrite")>> ELSE <<>>) \o Tail(todo)
    /\ UNCHANGED <<trees, index, told, written, known, caching, calls>>

\* rewrite_index_from_seg_tree and the sync RPC: the ranges become index entries,
\* the tree is cleared and the server told.
RewriteIndex ==
    /\ Doing("rewrite")
    /\ index' = Tree.nodes
    /\ told' = Over(told, Tree.nodes)
    /\ todo' = <<Step("clear")>> \o Tail(todo)
    /\ UNCHANGED <<trees, written, known, caching, calls>>

unifyfs_fid_sync_extents ==
    /\ Call(<<Step("rewrite")>>)
    /\ UNCHANGED <<trees, index, told, written, known>>

\* The truncation of the server follows the sync of what is left.
TruncateRpc ==
    /\ Doing("truncate")
    /\ told' = CutAt(told, Head(todo).size)
    /\ todo' = Tail(todo)
    /\ UNCHANGED <<trees, index, written, known, caching, calls>>

\* fid_truncate_write_meta cuts both trees, at any offset up to the last (ULONG_MAX).
unifyfs_fid_truncate(size) ==
    LET cut(t) == IF size = 0 THEN [op |-> "clear", tree |-> t] ELSE RemoveStep(t, size, LastByte) IN
    /\ Call(<<cut("sync")>> \o (IF caching = "own" THEN <<cut("local")>> ELSE <<>>)
            \o <<Step("rewrite"), [op |-> "truncate", tree |-> "sync", size |-> size]>>)
    /\ written' = CutAt(written, size)
    /\ known' = IF caching = "own" THEN CutAt(known, size) ELSE known
    /\ UNCHANGED <<trees, index, told>>

\* process_gfid_reads: the extents of a laminated file, once, from the server's
\* extent tree: in the order of their offsets, two of one log never adjacent.
LearnExtents(e, f) ==
    /\ caching = "node" /\ known = [o \in Bytes |-> Nowhere]
    /\ e.end < f.start /\ ~(Contiguous(e, f) /\ e.log = f.log)
    /\ Call(<<Add("local", e), Add("local", f)>>)
    /\ known' = Over(known, {e, f})
    /\ UNCHANGED <<trees, index, told, written>>

\* seg_tree_remove of any range, as the unit tests use it.
RemoveRange(a, b) ==
    /\ caching = "node"
    /\ Call(<<RemoveStep("local", a, b)>>)
    /\ known' = [o \in Bytes |-> IF o \in a .. b THEN Nowhere ELSE known[o]]
    /\ UNCHANGED <<trees, index, told, written>>

------------------------------------------------------------------------------
(* service_local_reqs: the read of [a, b] from the local tree *)

\* The extents that the loop visits: from the one with the first byte on.
Visited(a, b) == LET ns == trees["local"].nodes IN
    IF FindNolock(ns, a, a) = {} THEN {} ELSE {n \in ns : n.end >= a /\ n.start <= b}

\* No byte of the request is missing: each extent starts where the one before ended.
HaveLocal(a, b) ==
    /\ \E n \in Visited(a, b) : n.start <= a
    /\ \E n \in Visited(a, b) : n.end >= b
    /\ \A n \in Visited(a, b) : n.start <= a \/ \E m \in Visited(a, b) : m.end + 1 = n.start

\* get_extent_coverage: where the bytes come from that an extent has of the request.
Coverage(n, a, b) ==
    LET start == IF a > n.start THEN a ELSE n.start
        end   == IF b < n.end THEN b ELSE n.end
    IN  [at |-> start - a, len |-> end - start + 1, pos |-> n.pos + (start - n.start), log |-> n.log]

\* The location from which each byte of the request buffer is copied.
CopiedFrom(a, b) ==
    LET cs == {Coverage(n, a, b) : n \in Visited(a, b)} IN
    [i \in 0 .. (b - a) |-> {<<c.log, c.pos + (i - c.at)>> :
                                c \in {d \in cs : d.at <= i /\ i < d.at + d.len}}]

------------------------------------------------------------------------------
SegNext ==
    \/ \E e \in Segments({Me}) : add_write_meta_to_index(e)
    \/ unifyfs_fid_sync_extents
    \/ \E size \in Bytes : unifyfs_fid_truncate(size)
    \/ \E e, f \in Segments({Me} \cup Neighbours) : LearnExtents(e, f)
    \/ \E a, b \in Bytes : a <= b /\ RemoveRange(a, b)
    \/ todo # <<>> /\ \E n \in Tree.nodes : SegConflict(n) \/ SegRemove(n)
    \/ SegInsert \/ SegRemoveEnd \/ SegClear
    \/ CheckRoom \/ RewriteIndex \/ TruncateRpc

SegSpec == SegInit /\ [][SegNext]_segVars

------------------------------------------------------------------------------
(* Properties *)

\* No write is lost or misplaced on the way to the server: between two library calls
\* the server and the extents not yet synced know each byte where the application
\* wrote it last, unless it was truncated.  The extents not yet synced, which the
\* client counts to know when to sync, always fit the index.
IndexExact ==
    todo = <<>> => /\ Over(told, trees["sync"].nodes) = written
                   /\ trees["sync"].count = Cardinality(trees["sync"].nodes)
                   /\ trees["sync"].count <= MaxEntries

\* A read is served from the local extents exactly if they have all its bytes, and
\* each byte comes from the place in the log where it was written.
LocalReadsExact ==
    todo = <<>> => \A a, b \in Bytes : a <= b =>
        /\ HaveLocal(a, b) <=> \A o \in a .. b : known[o] # Nowhere
        /\ HaveLocal(a, b) => \A i \in 0 .. (b - a) : CopiedFrom(a, b)[i] = {known[a + i]}
=============================================================================
