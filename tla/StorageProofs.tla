---------------------------- MODULE StorageProofs ----------------------------
(***************************************************************************)
(* Proofs about the parts of the program that keep account of bytes.       *)
(* The extent tree, for files and logs of every length and every number of *)
(* operations: the tree is a faithful map of the file, and its counters    *)
(* are exact.  The slot map of a log, for any number of slots, any number  *)
(* of bits in a byte and any sizes of reservations.  The copy of a file by *)
(* the ranks of an application, for every size of the file and of the      *)
(* buffer and every number of ranks.                                       *)
(***************************************************************************)
EXTENDS ExtentTree, SlotMap, TransferFile, FiniteSetTheorems, WellFoundedInduction, TLAPS

------------------------------------------------------------------------------
(* The extent tree: ranges *)

\* Ranges overlap (etn_compare_func returns 0) when they have an offset in common.
LEMMA SharedOffset ==
    ASSUME NEW m \in Nodes, NEW n \in Nodes, m.start <= m.end, n.start <= n.end
    PROVE  Overlap(m, n) <=> \E o \in Offsets : Covers(m, o) /\ Covers(n, o)
<1>1. ASSUME Overlap(m, n) PROVE \E o \in Offsets : Covers(m, o) /\ Covers(n, o)
    <2>1. CASE m.start <= n.start
        <3>1. n.start \in Offsets /\ Covers(m, n.start) /\ Covers(n, n.start)
            BY <1>1, <2>1, BoundsAssumption DEF Overlap, Covers, Nodes, Offsets
        <3> QED BY <3>1, Zenon
    <2>2. CASE n.start <= m.start
        <3>1. m.start \in Offsets /\ Covers(m, m.start) /\ Covers(n, m.start)
            BY <1>1, <2>2, BoundsAssumption DEF Overlap, Covers, Nodes, Offsets
        <3> QED BY <3>1, Zenon
    <2> QED BY <2>1, <2>2, BoundsAssumption DEF Nodes, Offsets
<1>2. ASSUME NEW o \in Offsets, Covers(m, o), Covers(n, o) PROVE Overlap(m, n)
    BY <1>2, BoundsAssumption DEF Overlap, Covers, Nodes, Offsets
<1> QED BY <1>1, <1>2, Zenon

\* A location is not a hole.
LEMMA LocIsNoHole == \A n, o : Loc(n, o) # Hole
    BY Zenon DEF Loc, Hole

\* Every byte of a range is somewhere in a log.
LEMMA LocType ==
    ASSUME NEW n \in Nodes, NEW o \in Offsets, Covers(n, o)
    PROVE  Loc(n, o) \in Locations
<1>1. n.log \in Logs /\ n.pos + (o - n.start) \in Nat
    BY BoundsAssumption DEF Covers, Nodes, Offsets
<1> QED BY <1>1, Zenon DEF Loc, Locations

\* An extent that a client adds is a proper range.
LEMMA ExtentIsNode == \A e \in Extents : e \in Nodes /\ e.start <= e.end
    BY BoundsAssumption DEF Extents, Nodes, Offsets

\* What is left of a conflicting extent (get_non_overlapping_range) is made of
\* proper ranges that cover what it covered, at the same locations.
LEMMA SplitKeeps ==
    ASSUME NEW c \in Nodes, NEW e \in Nodes, c.start <= c.end, e.start <= e.end,
           Overlap(c, e), ~(e.start <= c.start /\ c.end <= e.end)
    PROVE  /\ \A p \in Split(c, e) : p \in Nodes /\ p.start <= p.end
           /\ \A p \in Split(c, e) : \A o \in Offsets :
                Covers(p, o) => Covers(c, o) /\ Loc(p, o) = Loc(c, o)
           /\ \A o \in Offsets : Covers(c, o) /\ ~Covers(e, o) =>
                \E p \in Split(c, e) : Covers(p, o)
           /\ \A p, q \in Split(c, e) : Overlap(p, q) => p = q
           /\ \E p \in Split(c, e) : p.end = c.end
           /\ \A p \in Split(c, e) : p.end <= c.end
<1> USE BoundsAssumption DEF Nodes, Offsets
<1>1. CASE c.start < e.start
    <2> DEFINE p == Piece(c, c.start, e.start - 1)
               q == Piece(c, e.start, c.end)
    <2>1. Split(c, e) = {p, q}
        BY <1>1, Zenon DEF Split
    <2>2. p \in Nodes /\ p.start = c.start /\ p.end = e.start - 1 /\ p.pos = c.pos /\ p.log = c.log
        BY <1>1 DEF Piece, Overlap
    <2>3. q \in Nodes /\ q.start = e.start /\ q.end = c.end /\ q.pos = c.pos + (e.start - c.start)
          /\ q.log = c.log
        BY <1>1 DEF Piece, Overlap
    <2> HIDE DEF p, q
    <2>4. \A o \in Offsets : /\ Covers(p, o) => Covers(c, o) /\ Loc(p, o) = Loc(c, o)
                             /\ Covers(q, o) => Covers(c, o) /\ Loc(q, o) = Loc(c, o)
        BY <1>1, <2>2, <2>3 DEF Overlap, Covers, Loc
    <2>5. \A o \in Offsets : Covers(c, o) => Covers(p, o) \/ Covers(q, o)
        BY <1>1, <2>2, <2>3 DEF Overlap, Covers
    <2>6. ~Overlap(p, q) /\ ~Overlap(q, p) /\ p.start <= p.end /\ q.start <= q.end
          /\ p.end <= c.end
        BY <1>1, <2>2, <2>3 DEF Overlap
    <2> QED BY <2>1, <2>2, <2>3, <2>4, <2>5, <2>6
<1>2. CASE ~(c.start < e.start)
    <2> DEFINE p == Piece(c, e.end + 1, c.end)
    <2>1. Split(c, e) = {p}
        BY <1>2, Zenon DEF Split
    <2>2. p \in Nodes /\ p.start = e.end + 1 /\ p.end = c.end
          /\ p.pos = c.pos + (e.end + 1 - c.start) /\ p.log = c.log
        BY <1>2 DEF Piece, Overlap
    <2> HIDE DEF p
    <2>3. \A o \in Offsets : /\ Covers(p, o) => Covers(c, o) /\ Loc(p, o) = Loc(c, o)
                             /\ Covers(c, o) /\ ~Covers(e, o) => Covers(p, o)
        BY <1>2, <2>2 DEF Overlap, Covers, Loc
    <2>4. p.start <= p.end /\ p.end <= c.end
        BY <1>2, <2>2 DEF Overlap
    <2> QED BY <2>1, <2>2, <2>3, <2>4, Zenon
<1> QED BY <1>1, <1>2, Zenon

\* Ranges of the tree that end, or start, at the same offset are the same.
LEMMA OneNeighbour ==
    ASSUME TypeOK, NonOverlapping, NEW p \in nodes, NEW q \in nodes,
           p.end = q.end \/ p.start = q.start
    PROVE  p = q
<1>1. p \in Nodes /\ q \in Nodes /\ p.start <= p.end /\ q.start <= q.end
    BY Zenon DEF TypeOK
<1>2. Overlap(p, q)
    BY <1>1, BoundsAssumption, Zenon DEF Overlap, Nodes, Offsets
<1> QED BY <1>2, Zenon DEF NonOverlapping

\* A node with a new end.
LEMMA NewEnd ==
    ASSUME NEW n \in Nodes, NEW x \in Offsets
    PROVE  LET t == [n EXCEPT !.end = x] IN
           /\ t \in Nodes /\ t.start = n.start /\ t.end = x /\ t.pos = n.pos /\ t.log = n.log
           /\ \A y : [t EXCEPT !.end = y] = [n EXCEPT !.end = y]
    BY Zenon DEF Nodes

\* What extent_tree_add merges a new extent with: nothing, the extent before it,
\* the extent after it, or both.
LEMMA MergeCases ==
    ASSUME TypeOK, NonOverlapping, NEW e \in Extents
    PROVE  LET m == Merge(nodes, e) IN
           \/ m.gone = {} /\ m.node = e
           \/ \E p \in nodes : CanMerge(p, e) /\ m.gone = {p} /\ m.node = [p EXCEPT !.end = e.end]
           \/ \E n \in nodes : CanMerge(e, n) /\ m.gone = {n} /\ m.node = [e EXCEPT !.end = n.end]
           \/ \E p, n \in nodes : /\ CanMerge(p, e) /\ CanMerge(e, n)
                                 /\ m.gone = {p, n} /\ m.node = [p EXCEPT !.end = n.end]
<1> DEFINE before == {p \in nodes : CanMerge(p, e)}
           target == IF before = {} THEN e
                     ELSE [(CHOOSE p \in before : TRUE) EXCEPT !.end = e.end]
           after  == {n \in nodes : CanMerge(target, n)}
           m == Merge(nodes, e)
<1>0. e \in Nodes /\ e.start <= e.end /\ nodes \subseteq Nodes
    BY ExtentIsNode, Zenon DEF TypeOK
<1>1. ASSUME NEW p \in nodes, NEW q \in nodes, CanMerge(p, e), CanMerge(q, e) PROVE p = q
    <2>1. p.end = q.end
        BY <1>0, <1>1, BoundsAssumption DEF CanMerge, Contiguous, Nodes, Offsets
    <2> QED BY <2>1, OneNeighbour, Zenon
<1>2. ASSUME NEW p \in nodes, NEW q \in nodes, CanMerge(e, p), CanMerge(e, q) PROVE p = q
    <2>1. p.start = q.start
        BY <1>0, <1>2, BoundsAssumption, Zenon DEF CanMerge, Contiguous, Nodes, Offsets
    <2> QED BY <2>1, OneNeighbour, Zenon
<1>3. /\ m.gone = before \cup after
      /\ m.node = IF after = {} THEN target
                  ELSE [target EXCEPT !.end = (CHOOSE n \in after : TRUE).end]
    BY Zenon DEF Merge
<1>4. CASE before = {}
    <2>1. target = e
        BY <1>4, Zenon
    <2>2. CASE after = {}
        BY <1>3, <1>4, <2>1, <2>2, Zenon
    <2>3. CASE after # {}
        <3>1. PICK n \in after : TRUE
            BY <2>3, Zenon
        <3>2. n \in nodes /\ CanMerge(e, n)
            BY <3>1, <2>1, Zenon
        <3>3. after = {n} /\ (CHOOSE x \in after : TRUE) = n
            <4>1. after = {n}
                <5> HIDE DEF target
                <5> QED BY <1>2, <2>1, <3>1, <3>2, Zenon
            <4> QED BY <4>1, Zenon
        <3>4. m.gone = {n} /\ m.node = [e EXCEPT !.end = n.end]
            <4> HIDE DEF before, target, after, m
            <4> QED BY <1>3, <1>4, <2>1, <2>3, <3>3, Zenon
        <3> QED BY <3>2, <3>4, Zenon
    <2> QED BY <2>2, <2>3, Zenon
<1>5. CASE before # {}
    <2>1. PICK p \in before : TRUE
        BY <1>5, Zenon
    <2>2. p \in nodes /\ CanMerge(p, e)
        BY <2>1, Zenon
    <2>3. before = {p} /\ (CHOOSE x \in before : TRUE) = p
        BY <1>1, <2>1, <2>2, Zenon
    <2>4. target = [p EXCEPT !.end = e.end]
        BY <1>5, <2>3, Zenon
    <2>5. /\ target \in Nodes /\ target.start = p.start /\ target.end = e.end
          /\ target.pos = p.pos /\ target.log = p.log
          /\ \A y : [target EXCEPT !.end = y] = [p EXCEPT !.end = y]
        <3>1. e.end \in Offsets /\ p \in Nodes
            BY <1>0, <2>2, Zenon DEF Nodes
        <3> HIDE DEF target
        <3> QED BY <2>4, <3>1, NewEnd, Zenon
    <2>6. \A n \in nodes : CanMerge(target, n) <=> CanMerge(e, n)
        <3>1. p \in Nodes
            BY <1>0, <2>2, Zenon
        <3> HIDE DEF target
        <3> QED BY <2>2, <2>5, <3>1, <1>0, BoundsAssumption
            DEF CanMerge, Contiguous, Length, Nodes, Offsets
    <2>7. CASE after = {}
        <3>1. m.gone = {p} /\ m.node = [p EXCEPT !.end = e.end]
            <4> HIDE DEF before, target, after, m
            <4> QED BY <1>3, <2>3, <2>4, <2>7, Zenon
        <3> QED BY <2>2, <3>1, Zenon
    <2>8. CASE after # {}
        <3>1. PICK n \in after : TRUE
            BY <2>8, Zenon
        <3>2. n \in nodes /\ CanMerge(e, n)
            BY <3>1, <2>6, Zenon
        <3>3. after = {n} /\ (CHOOSE x \in after : TRUE) = n
            BY <1>2, <2>6, <3>1, <3>2, Zenon
        <3>4. m.gone = {p, n} /\ m.node = [p EXCEPT !.end = n.end]
            <4> HIDE DEF before, target, after, m
            <4> QED BY <1>3, <2>3, <2>5, <2>8, <3>3, Zenon
        <3> QED BY <2>2, <3>2, <3>4, Zenon
    <2> QED BY <2>7, <2>8, Zenon
<1> QED BY <1>4, <1>5, Zenon

\* Range t is made of the ranges ps: it covers what they cover, at the same
\* locations.
Joins(t, ps) ==
    /\ t \in Nodes /\ t.start <= t.end
    /\ \A o \in Offsets : Covers(t, o) <=> \E p \in ps : Covers(p, o)
    /\ \A p \in ps : \A o \in Offsets : Covers(p, o) => Loc(t, o) = Loc(p, o)
    /\ \A p \in ps : p.end <= t.end
    /\ \E p \in ps : p.end = t.end

\* Extents that follow each other in the file and in the log can be joined.
LEMMA JoinTwo ==
    ASSUME NEW p \in Nodes, NEW n \in Nodes, p.start <= p.end, n.start <= n.end, CanMerge(p, n)
    PROVE  Joins([p EXCEPT !.end = n.end], {p, n})
<1> DEFINE t == [p EXCEPT !.end = n.end]
<1>1. t \in Nodes /\ t.start = p.start /\ t.end = n.end /\ t.pos = p.pos /\ t.log = p.log
    BY NewEnd, Zenon DEF Nodes
<1> HIDE DEF t
<1> USE BoundsAssumption DEF Nodes, Offsets
<1>2. \A o \in Offsets : Covers(t, o) <=> Covers(p, o) \/ Covers(n, o)
    BY <1>1 DEF Covers, CanMerge, Contiguous
<1>3. \A o \in Offsets : /\ Covers(p, o) => Loc(t, o) = Loc(p, o)
                         /\ Covers(n, o) => Loc(t, o) = Loc(n, o)
    BY <1>1 DEF Covers, Loc, CanMerge, Contiguous, Length
<1>4. t.start <= t.end /\ p.end <= t.end /\ n.end = t.end
    BY <1>1 DEF CanMerge, Contiguous
<1>5. Joins(t, {p, n})
    BY <1>1, <1>2, <1>3, <1>4 DEF Joins
<1> QED BY <1>5, Zenon DEF t

\* A new node between two neighbours that both continue it (extent_tree_add joins
\* on both sides) leaves one node with the bytes of the three.
LEMMA JoinThree ==
    ASSUME NEW p \in Nodes, NEW e \in Nodes, NEW n \in Nodes,
           p.start <= p.end, e.start <= e.end, n.start <= n.end,
           CanMerge(p, e), CanMerge(e, n)
    PROVE  Joins([p EXCEPT !.end = n.end], {p, n, e})
<1> DEFINE t == [p EXCEPT !.end = n.end]
<1>1. t \in Nodes /\ t.start = p.start /\ t.end = n.end /\ t.pos = p.pos /\ t.log = p.log
    BY NewEnd, Zenon DEF Nodes
<1> HIDE DEF t
<1> USE BoundsAssumption DEF Nodes, Offsets
<1>2. \A o \in Offsets : Covers(t, o) <=> Covers(p, o) \/ Covers(n, o) \/ Covers(e, o)
    BY <1>1 DEF Covers, CanMerge, Contiguous
<1>3. \A o \in Offsets : /\ Covers(p, o) => Loc(t, o) = Loc(p, o)
                         /\ Covers(n, o) => Loc(t, o) = Loc(n, o)
                         /\ Covers(e, o) => Loc(t, o) = Loc(e, o)
    BY <1>1 DEF Covers, Loc, CanMerge, Contiguous, Length
<1>4. t.start <= t.end /\ p.end <= t.end /\ e.end <= t.end /\ n.end = t.end
    BY <1>1 DEF CanMerge, Contiguous
<1>5. Joins(t, {p, n, e})
    BY <1>1, <1>2, <1>3, <1>4 DEF Joins
<1> QED BY <1>5, Zenon DEF t

\* The merged extent joins the new one and those it replaces.
LEMMA MergeKeeps ==
    ASSUME TypeOK, NonOverlapping, IsFiniteSet(nodes), NEW e \in Extents
    PROVE  LET m == Merge(nodes, e) IN
           /\ m.gone \subseteq nodes
           /\ Joins(m.node, m.gone \cup {e})
           /\ IsFiniteSet(nodes \ m.gone)
           /\ Cardinality(nodes \ m.gone) = Cardinality(nodes) - Cardinality(m.gone)
<1> DEFINE m == Merge(nodes, e)
<1>0. /\ e \in Nodes /\ e.start <= e.end
      /\ \A n \in nodes : n \in Nodes /\ n.start <= n.end
      /\ Cardinality(nodes) \in Nat
    BY ExtentIsNode, FS_CardinalityType, Zenon DEF TypeOK
<1>1. CASE m.gone = {} /\ m.node = e
    <2>1. Joins(e, {e})
        BY <1>0 DEF Joins, Nodes, Offsets
    <2>2. m.gone \cup {e} = {e} /\ nodes \ m.gone = nodes /\ Cardinality(m.gone) = 0
        BY <1>1, FS_EmptySet, Zenon
    <2>3. /\ m.gone \subseteq nodes
          /\ Joins(m.node, m.gone \cup {e})
          /\ IsFiniteSet(nodes \ m.gone)
          /\ Cardinality(nodes \ m.gone) = Cardinality(nodes) - Cardinality(m.gone)
        <3> HIDE DEF m
        <3> QED BY <1>0, <1>1, <2>1, <2>2
    <2> QED BY <2>3, Zenon
<1>2. CASE \E p \in nodes : CanMerge(p, e) /\ m.gone = {p} /\ m.node = [p EXCEPT !.end = e.end]
    <2>1. PICK p \in nodes : CanMerge(p, e) /\ m.gone = {p} /\ m.node = [p EXCEPT !.end = e.end]
        BY <1>2, Zenon
    <2>2. Joins(m.node, {p, e}) /\ m.gone \cup {e} = {p, e}
        BY <1>0, <2>1, JoinTwo, Zenon
    <2>3. IsFiniteSet(nodes \ {p}) /\ Cardinality(nodes \ {p}) = Cardinality(nodes) - 1
          /\ Cardinality({p}) = 1
        BY FS_RemoveElement, FS_Singleton, Zenon
    <2>4. /\ m.gone \subseteq nodes
          /\ Joins(m.node, m.gone \cup {e})
          /\ IsFiniteSet(nodes \ m.gone)
          /\ Cardinality(nodes \ m.gone) = Cardinality(nodes) - Cardinality(m.gone)
        <3> HIDE DEF m
        <3> QED BY <2>1, <2>2, <2>3, Zenon
    <2> QED BY <2>4, Zenon
<1>3. CASE \E n \in nodes : CanMerge(e, n) /\ m.gone = {n} /\ m.node = [e EXCEPT !.end = n.end]
    <2>1. PICK n \in nodes : CanMerge(e, n) /\ m.gone = {n} /\ m.node = [e EXCEPT !.end = n.end]
        BY <1>3, Zenon
    <2>2. Joins(m.node, {e, n}) /\ m.gone \cup {e} = {e, n}
        BY <1>0, <2>1, JoinTwo, Zenon
    <2>3. IsFiniteSet(nodes \ {n}) /\ Cardinality(nodes \ {n}) = Cardinality(nodes) - 1
          /\ Cardinality({n}) = 1
        BY FS_RemoveElement, FS_Singleton, Zenon
    <2>4. /\ m.gone \subseteq nodes
          /\ Joins(m.node, m.gone \cup {e})
          /\ IsFiniteSet(nodes \ m.gone)
          /\ Cardinality(nodes \ m.gone) = Cardinality(nodes) - Cardinality(m.gone)
        <3> HIDE DEF m
        <3> QED BY <2>1, <2>2, <2>3, Zenon
    <2> QED BY <2>4, Zenon
<1>4. CASE \E p, n \in nodes : /\ CanMerge(p, e) /\ CanMerge(e, n)
                              /\ m.gone = {p, n} /\ m.node = [p EXCEPT !.end = n.end]
    <2>1. PICK p \in nodes, n \in nodes : /\ CanMerge(p, e) /\ CanMerge(e, n)
                                         /\ m.gone = {p, n} /\ m.node = [p EXCEPT !.end = n.end]
        BY <1>4, Zenon
    <2>2. Joins(m.node, {p, n, e}) /\ m.gone \cup {e} = {p, n, e}
        BY <1>0, <2>1, JoinThree
    <2>3. p # n
        BY <1>0, <2>1, BoundsAssumption DEF CanMerge, Contiguous, Nodes, Offsets
    <2>4. IsFiniteSet(nodes \ {p}) /\ Cardinality(nodes \ {p}) = Cardinality(nodes) - 1
        BY FS_RemoveElement, Zenon
    <2>5. /\ IsFiniteSet((nodes \ {p}) \ {n})
          /\ Cardinality((nodes \ {p}) \ {n}) = Cardinality(nodes) - 2
        <3>1. n \in nodes \ {p}
            BY <2>3, Zenon
        <3>2. /\ IsFiniteSet((nodes \ {p}) \ {n})
              /\ Cardinality((nodes \ {p}) \ {n}) = Cardinality(nodes \ {p}) - 1
            BY <2>4, <3>1, FS_RemoveElement, Zenon
        <3> QED BY <1>0, <2>4, <3>2
    <2>6. Cardinality({p} \cup {n}) = 2
        <3>1. IsFiniteSet({p}) /\ Cardinality({p}) = 1 /\ n \notin {p}
            BY <2>3, FS_Singleton, Zenon
        <3>2. Cardinality({p} \cup {n}) = Cardinality({p}) + 1
            BY <3>1, FS_AddElement, Zenon
        <3> QED BY <3>1, <3>2
    <2>7. (nodes \ {p}) \ {n} = nodes \ m.gone /\ {p} \cup {n} = m.gone
        BY <2>1, Zenon
    <2>8. /\ m.gone \subseteq nodes
          /\ Joins(m.node, m.gone \cup {e})
          /\ IsFiniteSet(nodes \ m.gone)
          /\ Cardinality(nodes \ m.gone) = Cardinality(nodes) - Cardinality(m.gone)
        <3> HIDE DEF m
        <3> QED BY <1>0, <2>1, <2>2, <2>5, <2>6, <2>7, Zenon
    <2> QED BY <2>8, Zenon
<1> QED BY <1>1, <1>2, <1>3, <1>4, MergeCases, Zenon

------------------------------------------------------------------------------
(* The inductive invariant *)

\* An empty tree (extent_tree_init) satisfies the invariant.
LEMMA InitIInv == Init => IInv
<1> SUFFICES ASSUME Init PROVE IInv
    BY Zenon
<1> USE BoundsAssumption DEF Init
<1>1. TypeOK
    BY DEF TypeOK, Offsets, Operations, Locations
<1>2. NonOverlapping /\ Agrees /\ Intended /\ MaxBounds
    BY Zenon DEF NonOverlapping, Agrees, Intended, MaxBounds, Unlocked
<1>3. IsFiniteSet(nodes) /\ CountExact
    BY FS_EmptySet, Zenon DEF CountExact
<1> QED BY <1>1, <1>2, <1>3, Zenon DEF IInv

\* The start of an addition takes the offsets of the new extent out of Stable.
LEMMA AddStartIInv == ASSUME IInv, NEW e \in Extents, AddStart(e) PROVE IInv'
<1> USE BoundsAssumption DEF AddStart, Lock, IInv
<1>1. e \in Nodes /\ e.start <= e.end
    BY ExtentIsNode, Zenon
<1>2. /\ busy = Unlocked /\ busy' = [op |-> "add", ext |-> e]
      /\ busy'.op = "add" /\ busy'.ext = e /\ busy.op = "none" /\ busy' # Unlocked
    BY Zenon DEF Unlocked
<1>3. \A o \in Offsets : ref'[o] = IF Covers(e, o) THEN Loc(e, o) ELSE ref[o]
    BY Zenon
<1>4. TypeOK'
    <2>1. \A o \in Offsets : Covers(e, o) => Loc(e, o) \in Locations
        BY <1>1, LocType, Zenon
    <2>2. ref' \in [Offsets -> Locations]
        BY <2>1, Zenon DEF TypeOK
    <2>3. busy' \in Operations
        BY <1>2, Zenon DEF Operations
    <2> QED BY <2>2, <2>3 DEF TypeOK
<1>5. Agrees'
    BY <1>2, <1>3, Zenon DEF Agrees, Stable
<1>6. Intended'
    BY <1>2, <1>3, Zenon DEF Intended
<1>7. MaxBounds'
    BY <1>1, <1>2 DEF MaxBounds, TypeOK, Nodes, Offsets
<1>8. NonOverlapping' /\ IsFiniteSet(nodes)' /\ CountExact'
    BY Zenon DEF NonOverlapping, CountExact
<1> QED BY <1>4, <1>5, <1>6, <1>7, <1>8, Zenon

\* extent_tree_clear empties the tree and the file.
LEMMA ClearIInv == ASSUME IInv, Clear PROVE IInv'
<1> USE BoundsAssumption DEF Clear, IInv
<1>1. nodes' = {} /\ busy = Unlocked /\ busy' = Unlocked /\ busy.op = "none" /\ busy'.op = "none"
    BY Zenon DEF Unlocked
<1>2. \A o \in Offsets : ref'[o] = Hole
    BY DEF Truncated, Offsets
<1>3. count' = 0 /\ max' = 0
    <2>1. CASE nodes = {}
        BY <1>1, <2>1, FS_EmptySet, Zenon DEF CountExact, MaxBounds
    <2> QED BY <2>1, Zenon
<1>4. TypeOK'
    BY <1>1, <1>3 DEF TypeOK, Truncated, Offsets, Locations
<1>5. NonOverlapping' /\ Agrees' /\ Intended' /\ MaxBounds'
    BY <1>1, <1>2, <1>3, Zenon DEF NonOverlapping, Agrees, Intended, MaxBounds
<1>6. IsFiniteSet(nodes)' /\ CountExact'
    BY <1>1, <1>3, FS_EmptySet, Zenon DEF CountExact
<1> QED BY <1>4, <1>5, <1>6, Zenon

\* The start of a truncation takes the offsets from the new size on out of Stable.
LEMMA TruncateStartIInv == ASSUME IInv, NEW size \in Offsets, TruncateStart(size) PROVE IInv'
<1> USE BoundsAssumption DEF TruncateStart, Lock, IInv
<1>1. /\ busy = Unlocked /\ busy' = [op |-> "truncate", size |-> size]
      /\ busy'.op = "truncate" /\ busy'.size = size /\ busy.op = "none" /\ busy' # Unlocked
    BY Zenon DEF Unlocked
<1>2. \A o \in Offsets : ref'[o] = IF o < size THEN ref[o] ELSE Hole
    BY Zenon DEF Truncated
<1>3. TypeOK'
    <2>1. ref' \in [Offsets -> Locations]
        <3>1. \A o \in Offsets : (IF o < size THEN ref[o] ELSE Hole) \in Locations
            BY Zenon DEF TypeOK, Locations
        <3> QED BY <3>1, Zenon DEF Truncated
    <2>2. busy' \in Operations
        BY <1>1 DEF Operations, Offsets
    <2> QED BY <2>1, <2>2 DEF TypeOK
<1>4. Agrees' /\ Intended' /\ MaxBounds'
    BY <1>1, <1>2 DEF Agrees, Stable, Intended, MaxBounds, Offsets
<1>5. NonOverlapping' /\ IsFiniteSet(nodes)' /\ CountExact'
    BY Zenon DEF NonOverlapping, CountExact
<1> QED BY <1>3, <1>4, <1>5, Zenon

\* A conflicting extent that the new one covers is removed: only offsets of the
\* new extent lose their location.
LEMMA RemoveCoveredIInv ==
    ASSUME IInv, NEW e \in Extents, NEW c \in nodes, RemoveCovered(c, e) PROVE IInv'
<1> USE BoundsAssumption DEF RemoveCovered, Adding, IInv
<1>1. e \in Nodes /\ e.start <= e.end /\ c \in Nodes
    BY ExtentIsNode, Zenon DEF TypeOK
<1>2. busy.op = "add" /\ busy.ext = e /\ busy' = busy /\ busy # Unlocked /\ ref' = ref /\ max' = max
    BY Zenon DEF Unlocked
<1>3. \A o \in Offsets : Covers(c, o) => Covers(e, o)
    BY <1>1 DEF Covers, Nodes, Offsets
<1>4. /\ IsFiniteSet(nodes \ {c}) /\ Cardinality(nodes \ {c}) = Cardinality(nodes) - 1
      /\ Cardinality(nodes \ {c}) \in Nat
    BY FS_RemoveElement, FS_CardinalityType, Zenon
<1>5. IsFiniteSet(nodes)' /\ CountExact'
    BY <1>4, Zenon DEF CountExact
<1>6. TypeOK'
    BY <1>2, <1>4, Zenon DEF TypeOK, CountExact
<1>7. NonOverlapping'
    BY Zenon DEF NonOverlapping
<1>8. Agrees'
    BY <1>2, <1>3, Zenon DEF Agrees, Stable
<1>9. Intended'
    BY <1>2, Zenon DEF Intended
<1>10. MaxBounds'
    <2>1. ASSUME max > e.end PROVE \E n \in nodes' : n.end = max
        <3>1. PICK n \in nodes : n.end = max
            BY <1>2, <2>1, Zenon DEF MaxBounds
        <3>2. c.end \in Int /\ e.end \in Int /\ c.end <= e.end
            BY <1>1 DEF Nodes, Offsets
        <3>3. max \in Int
            BY DEF TypeOK, Offsets
        <3>4. n.end # c.end
            BY <2>1, <3>1, <3>2, <3>3
        <3> QED BY <3>1, <3>4, Zenon
    <2>2. \A n \in nodes' : n.end <= max
        BY <1>2, Zenon DEF MaxBounds
    <2> QED BY <1>2, <2>1, <2>2, Zenon DEF MaxBounds
<1> QED BY <1>5, <1>6, <1>7, <1>8, <1>9, <1>10, Zenon

\* The parts of a conflicting extent replace it.
LEMMA SplitConflictIInv ==
    ASSUME IInv, NEW e \in Extents, NEW c \in nodes, SplitConflict(c, e) PROVE IInv'
<1> USE BoundsAssumption DEF SplitConflict, Adding, Conflict, IInv
<1>1. e \in Nodes /\ e.start <= e.end /\ c \in Nodes /\ c.start <= c.end
    BY ExtentIsNode, Zenon DEF TypeOK
<1>2. busy.op = "add" /\ busy.ext = e /\ busy' = busy /\ busy # Unlocked /\ ref' = ref /\ max' = max
    BY Zenon DEF Unlocked
<1>3. /\ \A p \in Split(c, e) : p \in Nodes /\ p.start <= p.end
      /\ \A p \in Split(c, e) : \A o \in Offsets :
            Covers(p, o) => Covers(c, o) /\ Loc(p, o) = Loc(c, o)
      /\ \A o \in Offsets : Covers(c, o) /\ ~Covers(e, o) => \E p \in Split(c, e) : Covers(p, o)
      /\ \A p, q \in Split(c, e) : Overlap(p, q) => p = q
      /\ \E p \in Split(c, e) : p.end = c.end
      /\ \A p \in Split(c, e) : p.end <= c.end
    BY <1>1, SplitKeeps, Zenon
<1>4. \A p \in Split(c, e) : \A n \in nodes \ {c} : ~Overlap(p, n) /\ ~Overlap(n, p)
    <2> SUFFICES ASSUME NEW p \in Split(c, e), NEW n \in nodes \ {c},
                        Overlap(p, n) \/ Overlap(n, p)
                 PROVE  FALSE
        BY Zenon
    <2>1. n \in Nodes /\ n.start <= n.end
        BY Zenon DEF TypeOK
    <2>2. PICK o \in Offsets : Covers(p, o) /\ Covers(n, o)
        BY <1>3, <2>1, SharedOffset, Zenon
    <2>3. Covers(c, o)
        BY <1>3, <2>2, Zenon
    <2>4. Overlap(c, n)
        BY <1>1, <2>1, <2>2, <2>3, SharedOffset, Zenon
    <2> QED BY <2>4, Zenon DEF NonOverlapping
<1>5. NonOverlapping'
    BY <1>3, <1>4, Zenon DEF NonOverlapping
<1>6. Agrees'
    <2> SUFFICES ASSUME NEW o \in Offsets, ~Covers(e, o)
                 PROVE  /\ \A n \in nodes' : Covers(n, o) => ref[o] = Loc(n, o)
                        /\ ref[o] # Hole => \E n \in nodes' : Covers(n, o)
        BY <1>2, Zenon DEF Agrees, Stable
    <2>1. /\ \A n \in nodes : Covers(n, o) => ref[o] = Loc(n, o)
          /\ ref[o] # Hole => \E n \in nodes : Covers(n, o)
        BY <1>2, Zenon DEF Agrees, Stable
    <2> QED BY <2>1, <1>3, Zenon
<1>7. Intended'
    BY <1>2, Zenon DEF Intended
<1>8. MaxBounds'
    <2>1. \A n \in nodes' : n.end <= max
        <3>1. \A n \in nodes : n.end <= max
            BY <1>2, Zenon DEF MaxBounds
        <3>2. \A p \in Split(c, e) : p.end <= max
            <4>1. \A p \in Split(c, e) : p.end \in Int /\ p.end <= c.end
                BY <1>3 DEF Nodes, Offsets
            <4>2. c.end \in Int /\ max \in Int /\ c.end <= max
                BY <1>1, <3>1 DEF TypeOK, Nodes, Offsets
            <4> QED BY <4>1, <4>2
        <3> QED BY <3>1, <3>2, Zenon
    <2>2. \A n \in nodes : \E p \in nodes' : p.end = n.end
        BY <1>3, Zenon
    <2> QED BY <1>2, <2>1, <2>2, Zenon DEF MaxBounds
<1>9. IsFiniteSet(nodes)' /\ CountExact' /\ count' \in Nat
    <2>0. Cardinality(nodes) \in Nat
        BY FS_CardinalityType, Zenon
    <2>1. IsFiniteSet(nodes \ {c}) /\ Cardinality(nodes \ {c}) = Cardinality(nodes) - 1
        BY FS_RemoveElement, Zenon
    <2>2. \A p \in Split(c, e) : p \notin nodes \ {c}
        BY <1>3, <1>4, Zenon DEF Overlap
    <2>3. CASE c.start < e.start
        <3> DEFINE p == Piece(c, c.start, e.start - 1)
                   q == Piece(c, e.start, c.end)
        <3>1. Split(c, e) = {p, q}
            BY <2>3, Zenon DEF Split
        <3>2. p # q
            <4>1. p.start = c.start /\ q.start = e.start
                BY Zenon DEF Piece
            <4> QED BY <2>3, <4>1, <1>1 DEF Nodes, Offsets
        <3> HIDE DEF p, q
        <3>3. /\ IsFiniteSet((nodes \ {c}) \cup {p})
              /\ Cardinality((nodes \ {c}) \cup {p}) = Cardinality(nodes \ {c}) + 1
            BY <2>1, <2>2, <3>1, FS_AddElement, Zenon
        <3>4. q \notin (nodes \ {c}) \cup {p}
            BY <2>2, <3>1, <3>2, Zenon
        <3>5. /\ IsFiniteSet(((nodes \ {c}) \cup {p}) \cup {q})
              /\ Cardinality(((nodes \ {c}) \cup {p}) \cup {q})
                    = Cardinality((nodes \ {c}) \cup {p}) + 1
            BY <3>3, <3>4, FS_AddElement, Zenon
        <3>6. ((nodes \ {c}) \cup {p}) \cup {q} = nodes'
            BY <3>1, Zenon
        <3>7. /\ IsFiniteSet(nodes')
              /\ Cardinality(nodes') = Cardinality((nodes \ {c}) \cup {p}) + 1
            BY <3>5, <3>6, Zenon
        <3> QED BY <2>0, <2>1, <2>3, <3>3, <3>7 DEF CountExact
    <2>4. CASE ~(c.start < e.start)
        <3> DEFINE p == Piece(c, e.end + 1, c.end)
        <3>1. Split(c, e) = {p}
            BY <2>4, Zenon DEF Split
        <3> HIDE DEF p
        <3>2. /\ IsFiniteSet((nodes \ {c}) \cup {p})
              /\ Cardinality((nodes \ {c}) \cup {p}) = Cardinality(nodes \ {c}) + 1
            BY <2>1, <2>2, <3>1, FS_AddElement, Zenon
        <3>3. (nodes \ {c}) \cup {p} = nodes'
            BY <3>1, Zenon
        <3>4. IsFiniteSet(nodes') /\ Cardinality(nodes') = Cardinality(nodes \ {c}) + 1
            BY <3>2, <3>3, Zenon
        <3> QED BY <2>0, <2>1, <2>4, <3>4 DEF CountExact
    <2> QED BY <2>3, <2>4, Zenon
<1>10. TypeOK'
    BY <1>2, <1>3, <1>9, Zenon DEF TypeOK
<1> QED BY <1>5, <1>6, <1>7, <1>8, <1>9, <1>10, Zenon

\* The new extent, joined with its neighbours, takes its place in the tree.
LEMMA InsertIInv == ASSUME IInv, NEW e \in Extents, Insert(e) PROVE IInv'
<1> DEFINE gone == Merge(nodes, e).gone
           node == Merge(nodes, e).node
<1> USE BoundsAssumption DEF Insert, Adding, IInv
<1>1. e \in Nodes /\ e.start <= e.end
    BY ExtentIsNode, Zenon
<1>2. /\ busy.op = "add" /\ busy.ext = e /\ busy # Unlocked
      /\ busy' = Unlocked /\ busy'.op = "none" /\ ref' = ref
      /\ nodes' = (nodes \ gone) \cup {node} /\ count' = count + 1 - Cardinality(gone)
      /\ max' = IF e.end > max THEN e.end ELSE max
    BY Zenon DEF Unlocked
<1>3. /\ gone \subseteq nodes /\ Joins(node, gone \cup {e})
      /\ IsFiniteSet(nodes \ gone)
      /\ Cardinality(nodes \ gone) = Cardinality(nodes) - Cardinality(gone)
    BY MergeKeeps, Zenon
<1>4. \A n \in nodes : n \in Nodes /\ n.start <= n.end /\ ~Overlap(n, e)
    BY Zenon DEF TypeOK
<1> HIDE DEF gone, node, Insert
<1>5. node \in Nodes /\ node.start <= node.end
    BY <1>3, Zenon DEF Joins
<1>6. \A n \in nodes \ gone : ~Overlap(n, node) /\ ~Overlap(node, n)
    <2> SUFFICES ASSUME NEW n \in nodes \ gone, Overlap(n, node) \/ Overlap(node, n) PROVE FALSE
        BY Zenon
    <2>1. PICK o \in Offsets : Covers(n, o) /\ Covers(node, o)
        BY <1>4, <1>5, SharedOffset, Zenon
    <2>2. PICK g \in gone \cup {e} : Covers(g, o)
        BY <1>3, <2>1, Zenon DEF Joins
    <2>3. g \in Nodes /\ g.start <= g.end
        BY <1>1, <1>3, <1>4, Zenon
    <2>4. Overlap(n, g)
        BY <1>4, <2>1, <2>2, <2>3, SharedOffset, Zenon
    <2> QED BY <1>3, <1>4, <2>4, Zenon DEF NonOverlapping
<1>7. NonOverlapping'
    BY <1>2, <1>6, Zenon DEF NonOverlapping
<1>8. Agrees'
    <2> SUFFICES ASSUME NEW o \in Offsets
                 PROVE  /\ \A n \in nodes' : Covers(n, o) => ref[o] = Loc(n, o)
                        /\ ref[o] # Hole => \E n \in nodes' : Covers(n, o)
        BY <1>2, Zenon DEF Agrees
    <2>1. CASE Covers(e, o)
        <3>1. ref[o] = Loc(e, o)
            BY <1>2, <2>1, Zenon DEF Intended
        <3>2. Covers(node, o) /\ Loc(node, o) = Loc(e, o)
            BY <1>3, <2>1, Zenon DEF Joins
        <3>3. \A n \in nodes : ~Covers(n, o)
            BY <1>1, <1>4, <2>1, SharedOffset, Zenon
        <3> QED BY <1>2, <3>1, <3>2, <3>3, Zenon
    <2>2. CASE ~Covers(e, o)
        <3>1. /\ \A n \in nodes : Covers(n, o) => ref[o] = Loc(n, o)
              /\ ref[o] # Hole => \E n \in nodes : Covers(n, o)
            BY <1>2, <2>2, Zenon DEF Agrees, Stable
        <3>2. /\ Covers(node, o) <=> \E g \in gone : Covers(g, o)
              /\ \A g \in gone : Covers(g, o) => Loc(node, o) = Loc(g, o)
            BY <1>3, <2>2, Zenon DEF Joins
        <3> QED BY <1>2, <1>3, <3>1, <3>2, Zenon
    <2> QED BY <2>1, <2>2, Zenon
<1>9. Intended'
    BY <1>2, Zenon DEF Intended
<1>10. MaxBounds'
    <2>1. max \in Int /\ e.end \in Int /\ node.end \in Int /\ \A n \in nodes : n.end \in Int
        BY <1>1, <1>4, <1>5 DEF TypeOK, Nodes, Offsets
    <2>2. /\ \A g \in gone \cup {e} : g.end <= node.end
          /\ \E g \in gone \cup {e} : g.end = node.end
        BY <1>3, Zenon DEF Joins
    <2>3. \A n \in nodes : n.end <= max
        BY <1>2, Zenon DEF MaxBounds
    <2>4. max > e.end => \E n \in nodes : n.end = max
        BY <1>2, Zenon DEF MaxBounds
    <2>5. \A n \in nodes' : n.end <= max'
        BY <1>2, <1>3, <2>1, <2>2, <2>3
    <2>6. \E n \in nodes' : n.end = max'
        <3>1. CASE max > e.end
            <4>1. PICK n \in nodes : n.end = max
                BY <2>4, <3>1, Zenon
            <4>2. CASE n \in gone
                BY <1>2, <2>1, <2>2, <2>5, <3>1, <4>1, <4>2
            <4> QED BY <1>2, <2>1, <3>1, <4>1, <4>2
        <3>2. CASE ~(max > e.end)
            BY <1>2, <2>1, <2>2, <2>5, <3>2
        <3> QED BY <3>1, <3>2, Zenon
    <2> QED BY <1>2, <2>5, <2>6, Zenon DEF MaxBounds
<1>11. IsFiniteSet(nodes)' /\ CountExact' /\ count' \in Nat
    <2>1. Cardinality(nodes) \in Nat /\ Cardinality(nodes \ gone) \in Nat
        BY <1>3, FS_CardinalityType, Zenon
    <2>2. IsFiniteSet(gone) /\ Cardinality(gone) \in Nat
        BY <1>3, FS_Subset, FS_CardinalityType, Zenon
    <2>3. node \notin nodes \ gone
        BY <1>5, <1>6, Zenon DEF Overlap
    <2>4. /\ IsFiniteSet((nodes \ gone) \cup {node})
          /\ Cardinality((nodes \ gone) \cup {node}) = Cardinality(nodes \ gone) + 1
        BY <1>3, <2>3, FS_AddElement, Zenon
    <2>5. IsFiniteSet(nodes') /\ Cardinality(nodes') = Cardinality(nodes \ gone) + 1
        BY <1>2, <2>4, Zenon
    <2> QED BY <1>2, <1>3, <2>1, <2>2, <2>5 DEF CountExact
<1>12. TypeOK'
    <2>1. max' \in Offsets
        BY <1>1, <1>2, Zenon DEF TypeOK, Nodes
    <2>2. nops' = nops /\ Unlocked \in Operations
        BY Zenon DEF Insert, Operations
    <2>3. nodes' \subseteq Nodes /\ \A n \in nodes' : n.start <= n.end
        BY <1>2, <1>4, <1>5, Zenon
    <2> QED BY <1>2, <1>11, <2>1, <2>2, <2>3, Zenon DEF TypeOK
<1> QED BY <1>7, <1>8, <1>9, <1>10, <1>11, <1>12, Zenon

\* The last extent, behind the new size, is removed.
LEMMA TruncateRemoveIInv ==
    ASSUME IInv, NEW size \in Offsets \ {0}, NEW n \in nodes, TruncateRemove(n, size) PROVE IInv'
<1> USE BoundsAssumption DEF TruncateRemove, Truncating, IInv
<1>1. /\ busy.op = "truncate" /\ busy.size = size /\ busy' = busy /\ busy # Unlocked
      /\ ref' = ref /\ n \in Nodes
    BY Zenon DEF Unlocked, TypeOK
<1>2. \A o \in Offsets : o < size => ~Covers(n, o)
    BY <1>1 DEF Covers, Nodes, Offsets
<1>3. /\ IsFiniteSet(nodes \ {n}) /\ Cardinality(nodes \ {n}) = Cardinality(nodes) - 1
      /\ Cardinality(nodes \ {n}) \in Nat
    BY FS_RemoveElement, FS_CardinalityType, Zenon
<1>4. IsFiniteSet(nodes)' /\ CountExact'
    BY <1>3, Zenon DEF CountExact
<1>5. TypeOK'
    BY <1>1, <1>3, Zenon DEF TypeOK, CountExact
<1>6. NonOverlapping' /\ Intended' /\ MaxBounds'
    BY <1>1, Zenon DEF NonOverlapping, Intended, MaxBounds
<1>7. Agrees'
    BY <1>1, <1>2, Zenon DEF Agrees, Stable
<1> QED BY <1>4, <1>5, <1>6, <1>7, Zenon

\* The extents before the last one end before it starts.
LEMMA BeforeLast ==
    ASSUME TypeOK, NonOverlapping, NEW n \in nodes, IsLast(n), NEW k \in nodes \ {n}
    PROVE  k.end < n.start
<1>1. n \in Nodes /\ n.start <= n.end /\ k \in Nodes /\ k.start <= k.end /\ k.end <= n.end
    BY Zenon DEF TypeOK, IsLast
<1>2. ~Overlap(k, n)
    BY Zenon DEF NonOverlapping
<1> QED BY <1>1, <1>2, BoundsAssumption DEF Overlap, Nodes, Offsets

\* The last extent is cut at the new size, and the truncation is done.
LEMMA TruncateCutIInv ==
    ASSUME IInv, NEW size \in Offsets \ {0}, NEW n \in nodes, TruncateCut(n, size) PROVE IInv'
<1> DEFINE t == [n EXCEPT !.end = size - 1]
<1> USE BoundsAssumption DEF TruncateCut, Truncating, IInv
<1>1. /\ busy.op = "truncate" /\ busy.size = size /\ busy' = Unlocked /\ busy'.op = "none"
      /\ ref' = ref /\ max' = size - 1 /\ count' = count /\ nops' = nops
      /\ nodes' = (nodes \ {n}) \cup {t} /\ n.start < size /\ n.end >= size
      /\ n \in Nodes /\ n.start <= n.end
    <2>1. n \in Nodes /\ n.start <= n.end
        BY Zenon DEF TypeOK
    <2> QED BY <2>1, Zenon DEF Unlocked
<1>2. size - 1 \in Offsets
    BY DEF Offsets
<1>3. t \in Nodes /\ t.start = n.start /\ t.end = size - 1 /\ t.pos = n.pos /\ t.log = n.log
    BY <1>1, <1>2, NewEnd, Zenon
<1>4. \A k \in nodes \ {n} : k.end < n.start /\ k \in Nodes /\ k.start <= k.end
    BY BeforeLast, Zenon DEF TypeOK
<1> HIDE DEF t, TruncateCut
<1>5. t.start <= t.end
    BY <1>1, <1>3 DEF Nodes, Offsets
<1>6. \A k \in nodes \ {n} : ~Overlap(k, t) /\ ~Overlap(t, k)
    BY <1>1, <1>3, <1>4 DEF Overlap, Nodes, Offsets
<1>7. NonOverlapping'
    BY <1>1, <1>6, Zenon DEF NonOverlapping
<1>8. TypeOK'
    BY <1>1, <1>2, <1>3, <1>4, <1>5, Zenon DEF TypeOK, Operations
<1>9. Agrees'
    <2> SUFFICES ASSUME NEW o \in Offsets
                 PROVE  /\ \A k \in nodes' : Covers(k, o) => ref[o] = Loc(k, o)
                        /\ ref[o] # Hole => \E k \in nodes' : Covers(k, o)
        BY <1>1, Zenon DEF Agrees
    <2>1. CASE o < size
        <3>1. /\ \A k \in nodes : Covers(k, o) => ref[o] = Loc(k, o)
              /\ ref[o] # Hole => \E k \in nodes : Covers(k, o)
            BY <1>1, <2>1, Zenon DEF Agrees, Stable
        <3>2. Covers(t, o) <=> Covers(n, o)
            BY <1>1, <1>3, <2>1 DEF Covers, Nodes, Offsets
        <3>3. Loc(t, o) = Loc(n, o)
            BY <1>3, Zenon DEF Loc
        <3> QED BY <1>1, <3>1, <3>2, <3>3, Zenon
    <2>2. CASE o >= size
        <3>1. ref[o] = Hole
            BY <1>1, <2>2, Zenon DEF Intended
        <3>2. \A k \in nodes' : ~Covers(k, o)
            BY <1>1, <1>3, <1>4, <2>2 DEF Covers, Nodes, Offsets
        <3> QED BY <3>1, <3>2, Zenon
    <2> QED BY <2>1, <2>2 DEF Offsets
<1>10. Intended'
    BY <1>1, Zenon DEF Intended
<1>11. MaxBounds'
    <2>1. \A k \in nodes' : k.end <= max'
        BY <1>1, <1>3, <1>4 DEF Nodes, Offsets
    <2> QED BY <1>1, <1>3, <2>1, Zenon DEF MaxBounds
<1>12. IsFiniteSet(nodes)' /\ CountExact'
    <2>1. IsFiniteSet(nodes \ {n}) /\ Cardinality(nodes \ {n}) = Cardinality(nodes) - 1
          /\ Cardinality(nodes) \in Nat
        BY FS_RemoveElement, FS_CardinalityType, Zenon
    <2>2. t \notin nodes \ {n}
        BY <1>5, <1>6, Zenon DEF Overlap
    <2>3. /\ IsFiniteSet((nodes \ {n}) \cup {t})
          /\ Cardinality((nodes \ {n}) \cup {t}) = Cardinality(nodes \ {n}) + 1
        BY <2>1, <2>2, FS_AddElement, Zenon
    <2>4. IsFiniteSet(nodes') /\ Cardinality(nodes') = Cardinality(nodes \ {n}) + 1
        BY <1>1, <2>3, Zenon
    <2> QED BY <1>1, <2>1, <2>4 DEF CountExact
<1> QED BY <1>7, <1>8, <1>9, <1>10, <1>11, <1>12, Zenon

\* The truncation is done when nothing reaches the new size.
LEMMA TruncateEndIInv == ASSUME IInv, NEW size \in Offsets \ {0}, TruncateEnd(size) PROVE IInv'
<1> USE BoundsAssumption DEF TruncateEnd, Truncating, IInv
<1>1. /\ busy.op = "truncate" /\ busy.size = size /\ busy' = Unlocked /\ busy'.op = "none"
      /\ ref' = ref /\ nodes' = nodes /\ count' = count /\ nops' = nops
      /\ \A n \in nodes : n.end < size /\ n \in Nodes
    BY Zenon DEF Unlocked, TypeOK
<1>2. MaxBounds' /\ max' \in Offsets
    <2>1. CASE nodes = {} /\ max' = 0
        BY <1>1, <2>1 DEF MaxBounds, Offsets
    <2>2. CASE \E n \in nodes : IsLast(n) /\ max' = n.end
        BY <1>1, <2>2, Zenon DEF MaxBounds, IsLast, Nodes
    <2> QED BY <2>1, <2>2, Zenon
<1>3. Agrees'
    <2> SUFFICES ASSUME NEW o \in Offsets
                 PROVE  /\ \A n \in nodes : Covers(n, o) => ref[o] = Loc(n, o)
                        /\ ref[o] # Hole => \E n \in nodes : Covers(n, o)
        BY <1>1, Zenon DEF Agrees
    <2>1. CASE o < size
        BY <1>1, <2>1, Zenon DEF Agrees, Stable
    <2>2. CASE o >= size
        <3>1. ref[o] = Hole
            BY <1>1, <2>2, Zenon DEF Intended
        <3>2. \A n \in nodes : ~Covers(n, o)
            BY <1>1, <2>2 DEF Covers, Nodes, Offsets
        <3> QED BY <3>1, <3>2, Zenon
    <2> QED BY <2>1, <2>2 DEF Offsets
<1>4. TypeOK'
    BY <1>1, <1>2, Zenon DEF TypeOK, Operations
<1>5. NonOverlapping' /\ Intended' /\ IsFiniteSet(nodes)' /\ CountExact'
    BY <1>1, Zenon DEF NonOverlapping, Intended, CountExact
<1> QED BY <1>2, <1>3, <1>4, <1>5, Zenon

\* Every iteration of every operation keeps the invariant.
LEMMA StepIInv == IInv /\ [Next]_vars => IInv'
<1> SUFFICES ASSUME IInv, [Next]_vars PROVE IInv'
    BY Zenon
<1>1. ASSUME NEW e \in Extents, AddStart(e) PROVE IInv'
    BY <1>1, AddStartIInv, Zenon
<1>2. CASE Clear
    BY <1>2, ClearIInv, Zenon
<1>3. ASSUME NEW size \in Offsets, TruncateStart(size) PROVE IInv'
    BY <1>3, TruncateStartIInv, Zenon
<1>4. CASE busy.op = "add" /\ AddStep(busy.ext)
    <2>1. busy.ext \in Extents
        BY <1>4 DEF IInv, TypeOK, Operations, Unlocked
    <2> QED BY <1>4, <2>1, RemoveCoveredIInv, SplitConflictIInv, InsertIInv, Zenon DEF AddStep
<1>5. CASE busy.op = "truncate" /\ TruncateStep(busy.size)
    <2>1. busy.size \in Offsets \ {0}
        BY <1>5 DEF IInv, TypeOK, Operations, Unlocked
    <2> QED BY <1>5, <2>1, TruncateRemoveIInv, TruncateCutIInv, TruncateEndIInv, Zenon DEF TruncateStep
<1>6. CASE UNCHANGED vars
    BY <1>6, Zenon DEF vars, IInv, TypeOK, NonOverlapping, Agrees, Stable, Intended, MaxBounds, CountExact
<1> QED BY <1>1, <1>2, <1>3, <1>4, <1>5, <1>6, Zenon DEF Next, Continue

\* The invariant holds in every behaviour of the tree.
LEMMA Invariance == Spec => []IInv
    BY InitIInv, StepIInv, PTL DEF Spec

------------------------------------------------------------------------------
(* The theorems *)

\* Every range in the tree is a proper range within the file, and the counters
\* are natural numbers.
THEOREM TypeCorrect == Spec => []TypeOK
<1>1. IInv => TypeOK
    BY Zenon DEF IInv
<1> QED BY <1>1, Invariance, PTL

\* The ranges of the tree never overlap, at no point of extent_tree_add's loop:
\* the comparison function orders them totally, as the red-black tree needs.
THEOREM NeverOverlaps == Spec => []NonOverlapping
<1>1. IInv => NonOverlapping
    BY Zenon DEF IInv
<1> QED BY <1>1, Invariance, PTL

\* tree->count is the number of ranges whatever extents are added and truncated:
\* unifyfs_inode_get_extents allocates the array it copies them to with it.
THEOREM CountIsExact == Spec => []CountExact
<1>1. IInv => CountExact
    BY Zenon DEF IInv
<1> QED BY <1>1, Invariance, PTL

\* tree->max is the last offset that the tree covers, after every operation.
THEOREM MaxIsExact == Spec => []MaxExact
<1>1. ASSUME IInv PROVE MaxExact
    <2> SUFFICES ASSUME busy = Unlocked, nodes # {}
                 PROVE  \E n \in nodes : IsLast(n) /\ n.end = max
        BY <1>1, Zenon DEF MaxExact, IInv, MaxBounds
    <2>1. busy.op = "none"
        BY Zenon DEF Unlocked
    <2> QED BY <1>1, <2>1, Zenon DEF IInv, MaxBounds, IsLast
<1> QED BY <1>1, Invariance, PTL

\* After every operation the tree says of each byte of the file where the latest
\* extent put it that was not truncated since, and nothing else.
THEOREM TreeRepresentsFile == Spec => []RepresentsFile
<1>1. ASSUME IInv PROVE RepresentsFile
    <2> SUFFICES ASSUME busy = Unlocked, NEW o \in Offsets
                 PROVE  Holds(o) = IF ref[o] = Hole THEN {} ELSE {ref[o]}
        BY Zenon DEF RepresentsFile
    <2>1. /\ \A n \in nodes : Covers(n, o) => ref[o] = Loc(n, o)
          /\ ref[o] # Hole => \E n \in nodes : Covers(n, o)
        BY <1>1, Zenon DEF IInv, Agrees, Stable, Unlocked
    <2>2. CASE ref[o] = Hole
        BY <2>1, <2>2, LocIsNoHole, Zenon DEF Holds
    <2>3. CASE ref[o] # Hole
        BY <2>1, <2>3, Zenon DEF Holds
    <2> QED BY <2>2, <2>3, Zenon
<1> QED BY <1>1, Invariance, PTL

------------------------------------------------------------------------------
(* The slot map *)

\* A search for at most a byte has found no room in the bytes it passed.
NoRoomBefore ==
    Reserving /\ search.num <= ByteBits =>
      \A b \in 0 .. search.byte - 1, s \in 0 .. ByteBits - 1 : ~FreeBits(b, s, search.num)

\* The inductive invariant.  The hints where a search starts do not occur in it
\* except for their type: what is found depends on the bits alone.
MapInv == MapTypeOK /\ NoSharedSlot /\ UsedExact /\ NoRoomBefore

------------------------------------------------------------------------------
(* Bytes and bits *)

\* The bits of a byte lie below those of the bytes after it.
LEMMA TimesMonotone ==
    ASSUME NEW a \in Nat, NEW b \in Nat, a < b
    PROVE  /\ a * ByteBits \in Nat /\ b * ByteBits \in Nat
           /\ a * ByteBits + ByteBits <= b * ByteBits
<1> DEFINE d == b - (a + 1)
<1>1. d \in Nat /\ b = (a + 1) + d
    OBVIOUS
<1>2. b * ByteBits = a * ByteBits + ByteBits + d * ByteBits
    BY <1>1, SlotMapAssumption
<1>3. d * ByteBits \in Nat /\ a * ByteBits \in Nat /\ b * ByteBits \in Nat
    BY <1>1, SlotMapAssumption
<1> QED
    BY <1>2, <1>3, SlotMapAssumption

\* Division by the number of bits of a byte.
LEMMA Division ==
    ASSUME NEW n \in Nat
    PROVE  /\ n \div ByteBits \in Nat
           /\ n % ByteBits \in 0 .. ByteBits - 1
           /\ n = (n \div ByteBits) * ByteBits + (n % ByteBits)
<1> DEFINE q == n \div ByteBits
<1>1. q \in Int /\ n = ByteBits * q + (n % ByteBits) /\ n % ByteBits \in 0 .. (ByteBits - 1)
    BY SlotMapAssumption
<1> HIDE DEF q
<1>2. ByteBits * q = q * ByteBits /\ q * ByteBits \in Int
    BY <1>1, SlotMapAssumption
<1>3. ASSUME q < 0 PROVE FALSE
    <2> DEFINE d == - (q + 1)
    <2>1. d \in Nat /\ q = - d - 1
        BY <1>1, <1>3
    <2>2. d * ByteBits \in Nat
        BY <2>1, SlotMapAssumption
    <2>3. q * ByteBits = - (d * ByteBits) - ByteBits
        BY <2>1, SlotMapAssumption
    <2> QED
        BY <1>1, <1>2, <2>2, <2>3, SlotMapAssumption
<1>4. q \in Nat
    BY <1>1, <1>3
<1> QED
    BY <1>1, <1>2, <1>4, Zenon DEF q

\* slot_map_bytes returns enough bytes, and no bit more than needed when the
\* slots fill their bytes.
LEMMA EnoughBytes ==
    ASSUME NEW n \in Nat
    PROVE  /\ slot_map_bytes(n) \in Nat
           /\ slot_map_bytes(n) * ByteBits \in Nat
           /\ n <= slot_map_bytes(n) * ByteBits
           /\ n % ByteBits = 0 => n = slot_map_bytes(n) * ByteBits
<1> DEFINE q == n \div ByteBits
<1>1. q \in Nat /\ n % ByteBits \in 0 .. ByteBits - 1 /\ n = q * ByteBits + (n % ByteBits)
    BY Division, Zenon
<1>2. q * ByteBits \in Nat /\ (q + 1) * ByteBits = q * ByteBits + ByteBits
    <2> HIDE DEF q
    <2> QED
        BY <1>1, SlotMapAssumption
<1>3. CASE n % ByteBits = 0
    BY <1>1, <1>2, <1>3 DEF slot_map_bytes
<1>4. CASE n % ByteBits # 0
    <2>1. slot_map_bytes(n) = q + 1
        BY <1>4, <1>1, Zenon DEF slot_map_bytes
    <2> QED
        BY <1>1, <1>2, <1>4, <2>1, SlotMapAssumption
<1> QED
    BY <1>3, <1>4, Zenon

\* At most ByteBits slots need one byte.
LEMMA OneByte ==
    ASSUME NEW n \in Nat, n <= ByteBits
    PROVE  slot_map_bytes(n) <= 1
<1> DEFINE q == n \div ByteBits
<1>1. /\ q \in Nat /\ n % ByteBits \in 0 .. ByteBits - 1
      /\ n = q * ByteBits + (n % ByteBits)
    BY Division, Zenon
<1>2. slot_map_bytes(n) = q + (IF n % ByteBits = 0 THEN 0 ELSE 1)
    BY Zenon DEF slot_map_bytes
<1> HIDE DEF q
<1>3. q * ByteBits \in Nat /\ 1 * ByteBits = ByteBits
    BY <1>1, SlotMapAssumption
<1>4. ~ (1 < q)
    BY <1>1, <1>3, TimesMonotone, SlotMapAssumption
<1>5. CASE q = 1
    <2>1. n % ByteBits = 0
        BY <1>1, <1>3, <1>5, SlotMapAssumption
    <2> QED
        BY <2>1, <1>2, <1>5
<1>6. CASE q = 0
    BY <1>2, <1>6
<1> QED
    BY <1>1, <1>4, <1>5, <1>6

\* The number of bits of the map.
LEMMA MapBits ==
    /\ MapBytes \in Nat
    /\ MapBytes * ByteBits \in Nat
    /\ TotalSlots <= MapBytes * ByteBits
    /\ TotalSlots % ByteBits = 0 => TotalSlots = MapBytes * ByteBits
    BY EnoughBytes, SlotMapAssumption, Zenon DEF MapBytes

\* The bits of n slots that start a byte lie in the bytes slot_map_bytes counts.
LEMMA InWholeBytes ==
    ASSUME NEW b \in Nat, NEW n \in Nat, NEW s \in Slots(b * ByteBits, n)
    PROVE  \E i \in 0 .. slot_map_bytes(n) - 1 : s \in Byte(b + i)
<1> DEFINE q == s \div ByteBits
           m == slot_map_bytes(n)
<1>1. b * ByteBits \in Nat
    BY SlotMapAssumption
<1>2. s \in Nat /\ b * ByteBits <= s /\ s < b * ByteBits + n
    BY <1>1 DEF Slots
<1>3. q \in Nat /\ q * ByteBits \in Nat /\ q * ByteBits <= s /\ s < q * ByteBits + ByteBits
    BY <1>2, Division, SlotMapAssumption
<1>4. m \in Nat /\ m * ByteBits \in Nat /\ n <= m * ByteBits
    BY EnoughBytes, Zenon
<1>5. (b + m) * ByteBits = b * ByteBits + m * ByteBits
    BY <1>4, SlotMapAssumption
<1> HIDE DEF q, m
<1>6. q >= b
    <2>1. ASSUME q < b PROVE FALSE
        BY <2>1, <1>1, <1>2, <1>3, TimesMonotone, SlotMapAssumption
    <2> QED
        BY <2>1, <1>3
<1>7. q < b + m
    <2>1. ASSUME b + m < q \/ b + m = q PROVE FALSE
        <3>1. CASE b + m < q
            BY <3>1, <1>1, <1>2, <1>3, <1>4, <1>5, TimesMonotone, SlotMapAssumption
        <3>2. CASE b + m = q
            BY <3>2, <1>1, <1>2, <1>3, <1>4, <1>5
        <3> QED
            BY <2>1, <3>1, <3>2, Zenon
    <2> QED
        BY <2>1, <1>3, <1>4
<1>8. q - b \in 0 .. m - 1 /\ b + (q - b) = q
    BY <1>3, <1>4, <1>6, <1>7
<1>9. s \in Byte(b + (q - b))
    BY <1>2, <1>3, <1>8, SlotMapAssumption DEF Byte
<1> QED
    BY <1>8, <1>9, Zenon DEF m

------------------------------------------------------------------------------
(* Least and greatest used slots *)

\* A set of natural numbers has a least element.
LEMMA Least ==
    ASSUME NEW S, S \subseteq Nat, S # {}
    PROVE  \E n \in S : \A m \in S : n <= m
<1> DEFINE Less == OpToRel(<, Nat)
<1>1. \A m, n \in Nat : <<m, n>> \in Less <=> m < n
    BY Zenon DEF OpToRel
<1>2. IsWellFoundedOn(Less, Nat)
    BY NatLessThanWellFounded, Zenon
<1> HIDE DEF Less
<1>3. \E n \in S : \A m \in S : ~ (<<m, n>> \in Less)
    BY <1>2, WFMin, Zenon
<1>4. PICK n \in S : \A m \in S : ~ (<<m, n>> \in Less)
    BY <1>3, Zenon
<1>5. \A m \in S : m \in Nat /\ n \in Nat /\ ~ (m < n)
    BY <1>1, <1>4, Zenon
<1>6. \A m \in S : n <= m
    BY <1>5
<1> QED
    BY <1>6, Zenon

\* A set of natural numbers below a bound has a greatest element.
LEMMA Greatest ==
    ASSUME NEW b \in Nat, NEW S, S \subseteq 0 .. b, S # {}
    PROVE  \E n \in S : \A m \in S : m <= n
<1> DEFINE T == {b - n : n \in S}
<1>1. T \subseteq Nat
    <2>1. \A n \in S : b - n \in Nat
        OBVIOUS
    <2> QED
        BY <2>1, Zenon
<1>0. T # {}
    BY Zenon
<1>2. PICK t \in T : \A m \in T : t <= m
    BY <1>0, <1>1, Least, Zenon
<1>3. PICK n \in S : t = b - n
    BY <1>2, Zenon
<1>4. \A m \in S : b - n <= b - m
    BY <1>2, <1>3, Zenon
<1>5. \A m \in S : m \in 0 .. b
    BY Zenon
<1>6. \A m \in S : m <= n
    BY <1>3, <1>4, <1>5
<1> QED
    BY <1>6, Zenon

\* The searches of slotmap_release return a used slot, -1, or a slot past the last.
LEMMA HintTypes ==
    ASSUME NEW used, used \subseteq BitSlots, NEW s \in BitSlots
    PROVE  /\ NextUsed(used, s) \in -1 .. MapBytes * ByteBits
           /\ PrevUsed(used, s) \in -1 .. MapBytes * ByteBits
<1>1. MapBytes * ByteBits \in Nat /\ BitSlots \subseteq Nat
    BY MapBits DEF BitSlots
<1>2. NextUsed(used, s) \in -1 .. MapBytes * ByteBits
    <2>1. CASE \E i \in used : i > s /\ i < TotalSlots
        <3> DEFINE S == {i \in used : i > s}
        <3>1. S \subseteq Nat /\ S # {}
            BY <1>1, <2>1, Zenon
        <3>2. \E i \in S : \A j \in S : i <= j
            BY <3>1, Least, Zenon
        <3>3. \E i \in used : i > s /\ \A j \in used : j > s => i <= j
            BY <3>2, Zenon
        <3>4. NextUsed(used, s) \in used
            BY <2>1, <3>3, Zenon DEF NextUsed
        <3>5. NextUsed(used, s) \in BitSlots
            BY <3>4, Zenon
        <3> QED
            BY <1>1, <3>5 DEF BitSlots
    <2>2. CASE ~ \E i \in used : i > s /\ i < TotalSlots
        BY <1>1, <2>2 DEF NextUsed, BitSlots
    <2> QED
        BY <2>1, <2>2, Zenon
<1>3. PrevUsed(used, s) \in -1 .. MapBytes * ByteBits
    <2>1. CASE \E i \in used : i < s
        <3> DEFINE S == {i \in used : i < s}
        <3>0. s \in Nat /\ used \subseteq Nat
            BY <1>1, Zenon
        <3>1. S \subseteq 0 .. s
            <4>1. \A i \in used : i < s => i \in 0 .. s
                BY <3>0
            <4> QED
                BY <4>1, Zenon
        <3>2. S # {}
            BY <2>1, Zenon
        <3>3. \E i \in S : \A j \in S : j <= i
            BY <3>0, <3>1, <3>2, Greatest, Zenon
        <3>4. \E i \in used : i < s /\ \A j \in used : j < s => j <= i
            BY <3>3, Zenon
        <3>5. PrevUsed(used, s) \in used
            BY <2>1, <3>4, Zenon DEF PrevUsed
        <3>6. PrevUsed(used, s) \in BitSlots
            BY <3>5, Zenon
        <3> QED
            BY <1>1, <3>6 DEF BitSlots
    <2>2. CASE ~ \E i \in used : i < s
        BY <1>1, <2>2 DEF PrevUsed
    <2> QED
        BY <2>1, <2>2, Zenon
<1> QED
    BY <1>2, <1>3, Zenon

------------------------------------------------------------------------------
(* The inductive invariant *)

\* The slots of a reservation, and how many they are.
LEMMA SlotsOf ==
    ASSUME NEW start \in Nat, NEW num \in Nat \ {0}
    PROVE  /\ IsFiniteSet(Slots(start, num))
           /\ Cardinality(Slots(start, num)) = num
           /\ start \in Slots(start, num)
<1>1. start \in Int /\ start + num - 1 \in Int
    OBVIOUS
<1>2. /\ IsFiniteSet(start .. (start + num - 1))
      /\ Cardinality(start .. (start + num - 1)) =
           IF start > start + num - 1 THEN 0 ELSE (start + num - 1) - start + 1
    BY <1>1, FS_Interval, Zenon
<1>3. (IF start > start + num - 1 THEN 0 ELSE (start + num - 1) - start + 1) = num
    OBVIOUS
<1>4. start \in start .. (start + num - 1)
    OBVIOUS
<1> QED
    BY <1>2, <1>3, <1>4, Zenon DEF Slots

\* The use map is finite.
LEMMA FiniteMap ==
    ASSUME MapTypeOK
    PROVE  IsFiniteSet(usemap) /\ Cardinality(usemap) \in Nat
<1>1. 0 \in Int /\ MapBytes * ByteBits - 1 \in Int
    BY MapBits
<1>2. IsFiniteSet(BitSlots)
    BY <1>1, FS_Interval, Zenon DEF BitSlots
<1>3. usemap \in SUBSET BitSlots
    BY Zenon DEF MapTypeOK
<1>4. IsFiniteSet(usemap)
    BY <1>2, <1>3, FS_Subset, Zenon
<1> QED
    BY <1>4, FS_CardinalityType, Zenon

\* Initially no slot is used.
LEMMA InitMapInv == MapInit => MapInv
<1> SUFFICES ASSUME MapInit PROVE MapInv
    BY Zenon
<1>1. MapTypeOK
    BY MapBits DEF MapInit, MapTypeOK, Idle
<1>2. NoSharedSlot
    BY Zenon DEF MapInit, NoSharedSlot
<1>3. UsedExact
    BY FS_EmptySet, Zenon DEF MapInit, UsedExact
<1>4. NoRoomBefore
    BY Zenon DEF MapInit, NoRoomBefore, Reserving
<1> QED
    BY <1>1, <1>2, <1>3, <1>4, Zenon DEF MapInv

\* Taking free slots of the map keeps the invariant.
LEMMA TakeIInv ==
    ASSUME MapInv, Reserving, NEW start \in Nat, Take(start),
           start + search.num <= MapBytes * ByteBits,
           Slots(start, search.num) \cap usemap = {}
    PROVE  MapInv'
<1> DEFINE num == search.num
           new == Slots(start, num)
           r   == [start |-> start, num |-> num]
<1>1. num \in Sizes /\ num \in Nat \ {0}
    BY SlotMapAssumption, Zenon DEF MapInv, MapTypeOK, Reserving
<1>2. MapBytes * ByteBits \in Nat
    BY MapBits, Zenon
<1>3. new \subseteq BitSlots /\ start \in BitSlots /\ start + num - 1 \in BitSlots
    BY <1>1, <1>2 DEF Slots, BitSlots
<1>4. /\ usemap' = usemap \cup new
      /\ used_slots' = used_slots + num
      /\ held' = held \cup {r}
      /\ search' = Idle
    BY Zenon DEF Take
<1>5. MapTypeOK'
    <2>1. used_slots \in Nat /\ used_slots' \in Nat
        BY <1>1, <1>4 DEF MapInv, MapTypeOK
    <2>2. first_used_slot' \in BitSlots \cup {-1}
        BY <1>3, Zenon DEF Take, MapInv, MapTypeOK
    <2>3. BitSlots \subseteq -1 .. MapBytes * ByteBits
        BY <1>2 DEF BitSlots
    <2>4. last_used_slot' \in -1 .. MapBytes * ByteBits
        BY <1>3, <2>3, Zenon DEF Take, MapInv, MapTypeOK
    <2>5. r \in Reservations
        BY <1>1, <1>3, Zenon DEF Reservations
    <2> QED
        BY <1>3, <1>4, <2>1, <2>2, <2>4, <2>5, Zenon DEF MapInv, MapTypeOK
<1>6. NoSharedSlot'
    <2>1. \A h \in held : Slots(h.start, h.num) \subseteq usemap
        BY Zenon DEF MapInv, NoSharedSlot
    <2>2. r.start = start /\ r.num = num
        BY Zenon
    <2> HIDE DEF r, new
    <2>3. \A h \in held : Slots(h.start, h.num) \cap new = {}
        BY <2>1, Zenon DEF new
    <2>4. Slots(r.start, r.num) = new
        BY <2>2, Zenon DEF new
    <2>5. \A g, h \in held' : g # h => Slots(g.start, g.num) \cap Slots(h.start, h.num) = {}
        <3> SUFFICES ASSUME NEW g \in held', NEW h \in held', g # h
                     PROVE  Slots(g.start, g.num) \cap Slots(h.start, h.num) = {}
            BY Zenon
        <3>1. CASE g \in held /\ h \in held
            BY <3>1, Zenon DEF MapInv, NoSharedSlot
        <3>2. CASE g \in held /\ h = r
            BY <3>2, <2>3, <2>4, Zenon
        <3>3. CASE g = r /\ h \in held
            BY <3>3, <2>3, <2>4, Zenon
        <3> QED
            BY <1>4, <3>1, <3>2, <3>3, Zenon
    <2>6. UNION {Slots(h.start, h.num) : h \in held'} =
            (UNION {Slots(h.start, h.num) : h \in held}) \cup new
        BY <1>4, <2>4, Zenon
    <2>7. usemap' = UNION {Slots(h.start, h.num) : h \in held'}
        BY <1>4, <2>6, Zenon DEF MapInv, NoSharedSlot
    <2> QED
        BY <2>5, <2>7, Zenon DEF NoSharedSlot
<1>7. UsedExact'
    <2> HIDE DEF num, new
    <2>1. IsFiniteSet(usemap) /\ Cardinality(usemap) \in Nat
        BY FiniteMap, Zenon DEF MapInv
    <2>2. IsFiniteSet(new) /\ Cardinality(new) = num
        BY <1>1, SlotsOf, Zenon DEF new
    <2>3. usemap \cap new = {}
        BY Zenon DEF new, num
    <2>4. Cardinality(usemap \cup new) = Cardinality(usemap) + Cardinality(new) - Cardinality(usemap \cap new)
        BY <2>1, <2>2, FS_Union, Zenon
    <2>5. Cardinality(usemap \cap new) = 0
        BY <2>3, FS_EmptySet, Zenon
    <2>6. Cardinality(usemap \cup new) = Cardinality(usemap) + num
        BY <2>1, <2>2, <2>4, <2>5, <1>1
    <2>7. Cardinality(usemap') = used_slots'
        BY <1>4, <2>6, Zenon DEF MapInv, UsedExact
    <2> QED
        BY <2>7, Zenon DEF UsedExact
<1>8. NoRoomBefore'
    BY <1>4, Zenon DEF NoRoomBefore, Reserving
<1> QED
    BY <1>5, <1>6, <1>7, <1>8, Zenon DEF MapInv

\* Going on to another byte keeps the invariant, when the bytes passed have no
\* room for a small reservation.
LEMMA AdvanceIInv ==
    ASSUME MapInv, Reserving, NEW byte \in 0 .. MapBytes, Advance(byte),
           search.num <= ByteBits =>
             \A b \in search.byte .. byte - 1, s \in 0 .. ByteBits - 1 : ~FreeBits(b, s, search.num)
    PROVE  MapInv'
<1>1. MapTypeOK'
    BY Zenon DEF MapInv, MapTypeOK, Advance, Reserving, Idle
<1>2. NoSharedSlot' /\ UsedExact'
    BY Zenon DEF MapInv, NoSharedSlot, UsedExact, Advance
<1>3. NoRoomBefore'
    <2>1. search \in [num : Sizes, byte : 0 .. MapBytes]
        BY Zenon DEF MapInv, MapTypeOK, Reserving
    <2>2. search'.num = search.num /\ search'.byte = byte /\ usemap' = usemap
        BY <2>1, Zenon DEF Advance
    <2>3. byte \in Int /\ search.byte \in Int /\ search.num \in Int
        <3>1. search.num \in Sizes /\ search.byte \in 0 .. MapBytes
            BY <2>1, Zenon
        <3>2. search.num \in Nat
            BY <3>1, SlotMapAssumption, Zenon
        <3> QED
            BY <3>1, <3>2, MapBits
    <2> SUFFICES ASSUME search.num <= ByteBits,
                        NEW b \in 0 .. byte - 1, NEW s \in 0 .. ByteBits - 1
                 PROVE  ~FreeBits(b, s, search.num)'
        BY <2>2, Zenon DEF NoRoomBefore
    <2>4. FreeBits(b, s, search.num)' <=> FreeBits(b, s, search.num)
        BY <2>2, Zenon DEF FreeBits
    <2>5. CASE b < search.byte
        BY <2>3, <2>4, <2>5 DEF MapInv, NoRoomBefore
    <2>6. CASE b >= search.byte
        <3>1. b \in search.byte .. byte - 1
            BY <2>3, <2>6
        <3> QED
            BY <3>1, <2>4, Zenon
    <2> QED
        BY <2>3, <2>5, <2>6
<1> QED
    BY <1>1, <1>2, <1>3, Zenon DEF MapInv

\* What a release of a piece leaves: reservations that do not share a slot, and
\* together have the slots that are not given back.
LEMMA RestOf ==
    ASSUME NEW h, h.start \in Nat, h.num \in Nat \ {0},
           NEW start \in Nat, NEW num \in Nat \ {0},
           h.start <= start, start + num <= h.start + h.num
    PROVE  /\ \A r \in Rest(h, start, num) :
                 r.start \in Nat /\ r.num \in Nat \ {0} /\ r.start \in Slots(h.start, h.num)
           /\ \A r, q \in Rest(h, start, num) :
                 r # q => Slots(r.start, r.num) \cap Slots(q.start, q.num) = {}
           /\ UNION {Slots(r.start, r.num) : r \in Rest(h, start, num)} =
                 Slots(h.start, h.num) \ Slots(start, num)
           /\ Slots(start, num) \subseteq Slots(h.start, h.num)
<1> DEFINE ln == start - h.start
           rs == start + num
           rn == h.start + h.num - (start + num)
           left  == [start |-> h.start, num |-> ln]
           right == [start |-> rs, num |-> rn]
           R == Rest(h, start, num)
<1>1. ln \in Nat /\ rs \in Nat /\ rn \in Nat /\ h.start <= rs
    OBVIOUS
<1>2. /\ left.start = h.start /\ left.num = ln
      /\ right.start = rs /\ right.num = rn
    BY Zenon
<1>3. \A r : r \in R <=> (r = left \/ r = right) /\ r.num > 0
    BY Zenon DEF Rest
<1> HIDE DEF left, right, R
<1>4. /\ \A x : x \in Slots(h.start, ln) <=> x \in Int /\ h.start <= x /\ x < start
      /\ \A x : x \in Slots(rs, rn) <=> x \in Int /\ rs <= x /\ x < h.start + h.num
      /\ \A x : x \in Slots(h.start, h.num) <=> x \in Int /\ h.start <= x /\ x < h.start + h.num
      /\ \A x : x \in Slots(start, num) <=> x \in Int /\ start <= x /\ x < start + num
    BY DEF Slots
<1>5. \A r \in R : r.start \in Nat /\ r.num \in Nat \ {0} /\ r.start \in Slots(h.start, h.num)
    <2> SUFFICES ASSUME NEW r \in R
                 PROVE  r.start \in Nat /\ r.num \in Nat \ {0} /\ r.start \in Slots(h.start, h.num)
        BY Zenon
    <2>1. (r = left \/ r = right) /\ r.num > 0
        BY <1>3, Zenon
    <2>2. \/ r.start = h.start /\ r.num = ln
          \/ r.start = rs /\ r.num = rn
        BY <1>2, <2>1, Zenon
    <2> QED
        BY <1>1, <1>4, <2>1, <2>2
<1>6. Slots(h.start, ln) \cap Slots(rs, rn) = {}
    BY <1>4
<1>7. \A r, q \in R : r # q => Slots(r.start, r.num) \cap Slots(q.start, q.num) = {}
    <2> SUFFICES ASSUME NEW r \in R, NEW q \in R, r # q
                 PROVE  Slots(r.start, r.num) \cap Slots(q.start, q.num) = {}
        BY Zenon
    <2>1. (r = left /\ q = right) \/ (r = right /\ q = left)
        <3>1. (r = left \/ r = right) /\ (q = left \/ q = right)
            BY <1>3
        <3> QED
            BY <3>1
    <2>2. Slots(left.start, left.num) \cap Slots(right.start, right.num) = {}
        BY <1>2, <1>6, Zenon
    <2>3. Slots(right.start, right.num) \cap Slots(left.start, left.num) = {}
        BY <2>2, Zenon
    <2> QED
        BY <2>1, <2>2, <2>3, Zenon
<1>8. ~ (ln > 0) => Slots(h.start, ln) = {}
    BY <1>1 DEF Slots
<1>9. ~ (rn > 0) => Slots(rs, rn) = {}
    BY <1>1 DEF Slots
<1>10. Slots(h.start, h.num) \ Slots(start, num) = Slots(h.start, ln) \cup Slots(rs, rn)
    BY <1>1, <1>4
<1>11. UNION {Slots(r.start, r.num) : r \in R} = Slots(h.start, ln) \cup Slots(rs, rn)
    <2>1. ASSUME NEW r \in R PROVE Slots(r.start, r.num) \in {Slots(h.start, ln), Slots(rs, rn)}
        BY <1>2, <1>3, Zenon
    <2>2. ASSUME NEW x \in Slots(h.start, ln) PROVE \E r \in R : x \in Slots(r.start, r.num)
        <3>1. left \in R
            BY <1>2, <1>3, <1>8, <2>2, Zenon
        <3> QED
            BY <1>2, <2>2, <3>1, Zenon
    <2>3. ASSUME NEW x \in Slots(rs, rn) PROVE \E r \in R : x \in Slots(r.start, r.num)
        <3>1. right \in R
            BY <1>2, <1>3, <1>9, <2>3, Zenon
        <3> QED
            BY <1>2, <2>3, <3>1, Zenon
    <2> QED
        BY <2>1, <2>2, <2>3, Zenon
<1>12. Slots(start, num) \subseteq Slots(h.start, h.num)
    BY <1>4
<1> QED
    BY <1>5, <1>7, <1>10, <1>11, <1>12, Zenon DEF R

\* Releasing a reservation or a piece of it keeps the invariant.
LEMMA ReleaseIInv ==
    ASSUME MapInv, NEW h \in held, NEW start \in Slots(h.start, h.num), NEW num \in 1 .. h.num,
           Release(h, start, num)
    PROVE  MapInv'
<1> DEFINE old  == Slots(start, num)
           used == usemap \ old
           end  == start + num - 1
           R    == Rest(h, start, num)
<1>1. h.start \in BitSlots /\ h.num \in Nat \ {0} /\ h.start \in Nat
    <2>1. h \in Reservations
        BY Zenon DEF MapInv, MapTypeOK
    <2>2. h.start \in BitSlots /\ h.num \in Nat \ {0}
        BY <2>1, Zenon DEF Reservations
    <2> QED
        BY <2>2, MapBits DEF BitSlots
<1>2. /\ start \in Nat /\ num \in Nat \ {0}
      /\ h.start <= start /\ start + num <= h.start + h.num
    BY <1>1 DEF Slots, Release
<1>3. /\ \A r \in R : r.start \in Nat /\ r.num \in Nat \ {0} /\ r.start \in Slots(h.start, h.num)
      /\ \A r, q \in R : r # q => Slots(r.start, r.num) \cap Slots(q.start, q.num) = {}
      /\ UNION {Slots(r.start, r.num) : r \in R} = Slots(h.start, h.num) \ old
      /\ old \subseteq Slots(h.start, h.num)
    BY <1>1, <1>2, RestOf, Zenon
<1>4. Slots(h.start, h.num) \subseteq usemap /\ old \subseteq usemap
    BY <1>3, Zenon DEF MapInv, NoSharedSlot
<1>5. start \in BitSlots /\ end \in BitSlots
    <2>1. start \in old /\ end \in old
        BY <1>2 DEF Slots
    <2> QED
        BY <1>4, <2>1, Zenon DEF MapInv, MapTypeOK
<1>6. /\ usemap' = used /\ used_slots' = used_slots - num
      /\ held' = (held \ {h}) \cup R /\ search' = search
    BY Zenon DEF Release
<1> HIDE DEF R
<1>7. UsedExact' /\ used_slots' \in Nat
    <2> HIDE DEF old
    <2>1. IsFiniteSet(usemap) /\ Cardinality(usemap) \in Nat
        BY FiniteMap, Zenon DEF MapInv
    <2>2. Cardinality(old) = num
        BY <1>2, SlotsOf, Zenon DEF old
    <2>3. IsFiniteSet(used) /\ Cardinality(used) = Cardinality(usemap) - Cardinality(usemap \cap old)
        BY <2>1, FS_Difference, Zenon
    <2>4. usemap \cap old = old
        BY <1>4, Zenon
    <2>5. Cardinality(used) \in Nat
        BY <2>3, FS_CardinalityType, Zenon
    <2>6. Cardinality(used) = Cardinality(usemap) - num
        BY <2>2, <2>3, <2>4, Zenon
    <2>7. used_slots' = Cardinality(usemap')
        BY <1>6, <2>6, Zenon DEF MapInv, UsedExact
    <2> QED
        BY <1>6, <2>5, <2>7, Zenon DEF UsedExact
<1>8. NoSharedSlot'
    <2> DEFINE Of(g) == Slots(g.start, g.num)
    <2>1. \A g \in held \ {h} : Of(g) \cap Of(h) = {}
        BY Zenon DEF MapInv, NoSharedSlot
    <2>2. \A g, q \in held : g # q => Of(g) \cap Of(q) = {}
        BY Zenon DEF MapInv, NoSharedSlot
    <2>3. usemap = UNION {Of(g) : g \in held}
        BY Zenon DEF MapInv, NoSharedSlot
    <2>4. UNION {Of(r) : r \in R} = Of(h) \ old /\ old \subseteq Of(h)
        BY <1>3, Zenon
    <2>5. \A r, q \in R : r # q => Of(r) \cap Of(q) = {}
        BY <1>3, Zenon
    <2> HIDE DEF Of, old
    <2>6. \A r \in R : Of(r) \subseteq Of(h) /\ Of(r) \cap old = {}
        BY <2>4, Zenon
    <2>7. \A g, q \in held' : g # q => Of(g) \cap Of(q) = {}
        <3> SUFFICES ASSUME NEW g \in held', NEW q \in held', g # q PROVE Of(g) \cap Of(q) = {}
            BY Zenon
        <3>1. CASE g \in held \ {h} /\ q \in held \ {h}
            BY <2>2, <3>1, Zenon
        <3>2. CASE g \in held \ {h} /\ q \in R
            BY <2>1, <2>6, <3>2, Zenon
        <3>3. CASE g \in R /\ q \in held \ {h}
            BY <2>1, <2>6, <3>3, Zenon
        <3>4. CASE g \in R /\ q \in R
            BY <2>5, <3>4, Zenon
        <3> QED
            BY <1>6, <3>1, <3>2, <3>3, <3>4, Zenon
    <2>8. used = UNION {Of(g) : g \in held'}
        <3>1. ASSUME NEW s \in used PROVE \E g \in held' : s \in Of(g)
            <4>1. PICK g \in held : s \in Of(g)
                BY <2>3, <3>1, Zenon
            <4>2. CASE g # h
                BY <1>6, <4>1, <4>2, Zenon
            <4>3. CASE g = h
                <5>1. s \in UNION {Of(r) : r \in R}
                    BY <2>4, <3>1, <4>1, <4>3, Zenon
                <5> QED
                    BY <1>6, <5>1, Zenon
            <4> QED
                BY <4>2, <4>3, Zenon
        <3>2. ASSUME NEW g \in held \ {h}, NEW s \in Of(g) PROVE s \in used
            BY <2>1, <2>3, <2>4, <3>2, Zenon
        <3>3. ASSUME NEW g \in R, NEW s \in Of(g) PROVE s \in used
            <4>1. s \in Of(h) /\ s \notin old
                BY <2>6, <3>3, Zenon
            <4> QED
                BY <2>3, <4>1, Zenon
        <3> QED
            BY <1>6, <3>1, <3>2, <3>3, Zenon
    <2> QED
        BY <1>6, <2>7, <2>8, Zenon DEF NoSharedSlot, Of
<1>9. MapTypeOK'
    <2>1. used \subseteq BitSlots
        BY Zenon DEF MapInv, MapTypeOK
    <2>2. /\ NextUsed(used, end) \in -1 .. MapBytes * ByteBits
          /\ PrevUsed(used, start) \in -1 .. MapBytes * ByteBits
        BY <1>5, <2>1, HintTypes, Zenon
    <2>3. -1 \in -1 .. MapBytes * ByteBits /\ last_used_slot \in -1 .. MapBytes * ByteBits
        BY MapBits DEF MapInv, MapTypeOK
    <2> HIDE DEF used, end
    <2>4. last_used_slot' \in -1 .. MapBytes * ByteBits
        <3> DEFINE last == IF start = first_used_slot THEN NextUsed(used, end) ELSE last_used_slot
        <3>1. last \in -1 .. MapBytes * ByteBits
            BY <2>2, <2>3, Zenon
        <3>2. \/ last_used_slot' = -1
              \/ last_used_slot' = (IF end = last THEN PrevUsed(used, start) ELSE last)
            BY Zenon DEF Release, used, end
        <3> QED
            BY <2>2, <2>3, <3>1, <3>2, Zenon
    <2>5. first_used_slot' \in BitSlots \cup {-1}
        BY Zenon DEF Release, MapInv, MapTypeOK
    <2>6. R \subseteq Reservations
        <3> SUFFICES ASSUME NEW r \in R PROVE r \in Reservations
            BY Zenon
        <3>1. r.start \in BitSlots /\ r.num \in Nat \ {0}
            BY <1>3, <1>4, Zenon DEF MapInv, MapTypeOK
        <3>2. r = [start |-> r.start, num |-> r.num]
            BY Zenon DEF R, Rest
        <3> QED
            BY <3>1, <3>2, Zenon DEF Reservations
    <2> QED
        BY <1>6, <1>7, <2>1, <2>4, <2>5, <2>6, Zenon DEF MapInv, MapTypeOK, used
<1>10. NoRoomBefore'
    BY <1>6, Zenon DEF Release, NoRoomBefore, Reserving
<1> QED
    BY <1>7, <1>8, <1>9, <1>10, Zenon DEF MapInv

\* The steps of a search that go on to another byte, find slots or give up.
LEMMA ReserveStartIInv ==
    ASSUME MapInv, NEW n \in Sizes, ReserveStart(n)
    PROVE  MapInv'
<1>1. n \in Nat \ {0}
    BY SlotMapAssumption, Zenon
<1>2. search_start(n) \in 0 .. MapBytes
    <2>1. CASE last_used_slot = -1 \/ ~ (slot_map_bytes(n) > 1)
        BY <2>1, MapBits DEF search_start
    <2>2. CASE last_used_slot # -1 /\ slot_map_bytes(n) > 1
        <3> DEFINE q == last_used_slot \div ByteBits
        <3>1. last_used_slot \in Nat /\ last_used_slot <= MapBytes * ByteBits
            BY <2>2, MapBits DEF MapInv, MapTypeOK
        <3>2. /\ q \in Nat
              /\ last_used_slot % ByteBits \in 0 .. ByteBits - 1
              /\ last_used_slot = q * ByteBits + (last_used_slot % ByteBits)
            BY <3>1, Division, Zenon
        <3>3. search_start(n) = q
            BY <2>2, Zenon DEF search_start
        <3> HIDE DEF q
        <3>4. q * ByteBits \in Nat
            BY <3>2, SlotMapAssumption
        <3>5. ~ (MapBytes < q)
            BY <3>1, <3>2, <3>4, MapBits, TimesMonotone, SlotMapAssumption
        <3> QED
            BY <3>2, <3>3, <3>5, MapBits
    <2> QED
        BY <2>1, <2>2, Zenon
<1>3. search' = [num |-> n, byte |-> search_start(n)]
    BY Zenon DEF ReserveStart
<1>4. MapTypeOK'
    <2>1. search' \in [num : Sizes, byte : 0 .. MapBytes]
        BY <1>2, <1>3, Zenon
    <2> QED
        BY <2>1, Zenon DEF MapInv, MapTypeOK, ReserveStart
<1>5. NoSharedSlot' /\ UsedExact'
    BY Zenon DEF MapInv, NoSharedSlot, UsedExact, ReserveStart
<1>6. NoRoomBefore'
    <2>1. search'.num = n /\ search'.byte = search_start(n)
        BY <1>3, Zenon
    <2>2. n <= ByteBits => slot_map_bytes(n) <= 1
        BY <1>1, OneByte, Zenon
    <2>3. n <= ByteBits => search_start(n) = 0
        BY <2>2, EnoughBytes, <1>1 DEF search_start
    <2>4. ASSUME n <= ByteBits, NEW b \in 0 .. search_start(n) - 1 PROVE FALSE
        BY <2>3, <2>4
    <2> QED
        BY <2>1, <2>4, Zenon DEF NoRoomBefore
<1> QED
    BY <1>4, <1>5, <1>6, Zenon DEF MapInv

\* What the type invariant says of a search that goes on.
LEMMA SearchType ==
    ASSUME MapInv, Scanning
    PROVE  /\ search.num \in Nat \ {0}
           /\ search.byte \in Nat /\ search.byte + 1 \in 0 .. MapBytes
           /\ search.byte * ByteBits \in Nat
           /\ search.byte * ByteBits + ByteBits <= MapBytes * ByteBits
           /\ Reserving
<1>1. search \in [num : Sizes, byte : 0 .. MapBytes] /\ search.byte < MapBytes
    BY Zenon DEF MapInv, MapTypeOK, Scanning, Reserving
<1>2. search.num \in Nat \ {0} /\ search.byte \in Nat
    <2>1. search.num \in Sizes /\ search.byte \in 0 .. MapBytes
        BY <1>1, Zenon
    <2>2. search.num \in Nat \ {0}
        BY <2>1, SlotMapAssumption, Zenon
    <2> QED
        BY <2>1, <2>2, MapBits
<1> QED
    BY <1>1, <1>2, MapBits, TimesMonotone DEF Scanning

\* A full byte has no room.
LEMMA SkipByteIInv == ASSUME MapInv, SkipByte PROVE MapInv'
<1> DEFINE b == search.byte
<1>1. Scanning /\ Full(b) /\ Advance(b + 1)
    BY Zenon DEF SkipByte
<1>2. ASSUME NEW s \in 0 .. ByteBits - 1 PROVE ~FreeBits(b, s, search.num)
    <2>1. b * ByteBits \in Nat /\ search.num \in Nat \ {0}
        BY <1>1, SearchType, Zenon
    <2>2. b * ByteBits + s \in Byte(b)
        BY <2>1, SlotMapAssumption DEF Byte
    <2>3. b * ByteBits + s \in Slots(b * ByteBits + s, search.num)
        BY <2>1, SlotMapAssumption DEF Slots
    <2> QED
        BY <1>1, <2>2, <2>3, Zenon DEF Full, FreeBits
<1>3. \A c \in b .. (b + 1) - 1 : c = b
    BY <1>1, SearchType
<1> QED
    BY <1>1, <1>2, <1>3, SearchType, AdvanceIInv, Zenon

\* Whole bytes that are empty have room; large reservations only take those.
LEMMA ScanBytesIInv == ASSUME MapInv, ScanBytes PROVE MapInv'
<1> DEFINE b == search.byte
           slot_bytes == slot_map_bytes(search.num)
<1>1. PICK run_count \in 0 .. slot_bytes :
         /\ \A i \in 0 .. run_count - 1 : Empty(b + i)
         /\ IF run_count = slot_bytes
            THEN Take(b * ByteBits)
            ELSE ~Empty(b + run_count) /\ Advance(b + run_count + 1)
    BY Zenon DEF ScanBytes
<1>2. /\ Scanning /\ slot_bytes > 1 /\ b + slot_bytes <= MapBytes
    BY Zenon DEF ScanBytes, WholeBytes
<1>3. /\ search.num \in Nat \ {0} /\ b \in Nat /\ b * ByteBits \in Nat /\ Reserving
    BY <1>2, SearchType, Zenon
<1>4. /\ slot_bytes \in Nat /\ slot_bytes * ByteBits \in Nat
      /\ search.num <= slot_bytes * ByteBits
    BY <1>3, EnoughBytes, Zenon
<1>5. CASE run_count = slot_bytes
    <2>1. Take(b * ByteBits)
        BY <1>1, <1>5, Zenon
    <2>2. Slots(b * ByteBits, search.num) \cap usemap = {}
        <3> SUFFICES ASSUME NEW s \in Slots(b * ByteBits, search.num) PROVE s \notin usemap
            BY Zenon
        <3>1. PICK i \in 0 .. slot_bytes - 1 : s \in Byte(b + i)
            BY <1>3, InWholeBytes, Zenon
        <3> QED
            BY <1>1, <1>5, <3>1, Zenon DEF Empty
    <2>3. b * ByteBits + search.num <= MapBytes * ByteBits
        <3> HIDE DEF b, slot_bytes
        <3>1. (b + slot_bytes) * ByteBits = b * ByteBits + slot_bytes * ByteBits
            BY <1>3, <1>4, SlotMapAssumption
        <3>2. (b + slot_bytes) * ByteBits <= MapBytes * ByteBits
            <4>1. CASE b + slot_bytes < MapBytes
                BY <4>1, <1>3, <1>4, TimesMonotone, MapBits, SlotMapAssumption
            <4>2. CASE b + slot_bytes = MapBytes
                BY <4>2, MapBits
            <4> QED
                BY <1>2, <1>3, <1>4, <4>1, <4>2, MapBits
        <3> QED
            BY <1>3, <1>4, <3>1, <3>2, MapBits
    <2> QED
        BY <1>3, <2>1, <2>2, <2>3, TakeIInv, Zenon
<1>6. CASE run_count # slot_bytes
    <2>1. Advance(b + run_count + 1)
        BY <1>1, <1>6, Zenon
    <2>2. b + run_count + 1 \in 0 .. MapBytes
        BY <1>1, <1>2, <1>3, <1>4, <1>6, MapBits
    <2>3. ~ (search.num <= ByteBits)
        BY <1>2, <1>3, <1>4, OneByte
    <2> QED
        BY <1>3, <2>1, <2>2, <2>3, AdvanceIInv, Zenon
<1> QED
    BY <1>5, <1>6, Zenon

\* A run of free bits of one byte, or of two, has room; and a byte whose longest
\* run is too short has none.
LEMMA ScanBitsIInv == ASSUME MapInv, ScanBits PROVE MapInv'
<1> DEFINE b == search.byte
           num == search.num
<1>1. PICK start \in 0 .. ByteBits - 1, free_bits \in 1 .. ByteBits :
         /\ LongestRun(b, start, free_bits)
         /\ IF free_bits >= num \/ RunGoesOn(b, start, free_bits)
            THEN Take(b * ByteBits + start)
            ELSE Advance(b + 1)
    BY Zenon DEF ScanBits
<1>2. Scanning
    BY Zenon DEF ScanBits
<1>3. /\ num \in Nat \ {0} /\ b \in Nat /\ b * ByteBits \in Nat /\ Reserving
      /\ b + 1 \in 0 .. MapBytes /\ b * ByteBits + ByteBits <= MapBytes * ByteBits
    BY <1>2, SearchType, Zenon
<1>4. /\ start + free_bits <= ByteBits
      /\ Slots(b * ByteBits + start, free_bits) \cap usemap = {}
    BY <1>1, Zenon DEF LongestRun, FreeBits
<1>5. b * ByteBits + start \in Nat
    BY <1>3, SlotMapAssumption
<1>6. CASE free_bits >= num
    <2>1. Take(b * ByteBits + start)
        BY <1>1, <1>6, Zenon
    <2>2. Slots(b * ByteBits + start, num) \subseteq Slots(b * ByteBits + start, free_bits)
        BY <1>3, <1>5, <1>6, SlotMapAssumption DEF Slots
    <2>3. Slots(b * ByteBits + start, num) \cap usemap = {}
        BY <1>4, <2>2, Zenon
    <2>4. b * ByteBits + start + num <= MapBytes * ByteBits
        BY <1>3, <1>4, <1>6, MapBits, SlotMapAssumption
    <2> QED
        BY <1>3, <1>5, <2>1, <2>3, <2>4, TakeIInv, Zenon
<1>7. CASE ~ (free_bits >= num) /\ RunGoesOn(b, start, free_bits)
    <2>1. Take(b * ByteBits + start)
        BY <1>1, <1>7, Zenon
    <2>2. b + 1 < MapBytes /\ start = ByteBits - free_bits
        BY <1>7, Zenon DEF RunGoesOn
    <2>3. PICK n \in 1 .. ByteBits : LongestRun(b + 1, 0, n) /\ n >= num - free_bits
        BY <1>7, Zenon DEF RunGoesOn
    <2>4. (b + 1) * ByteBits = b * ByteBits + ByteBits
        <3> HIDE DEF b
        <3> QED
            BY <1>3, SlotMapAssumption
    <2>5. (b + 1) * ByteBits + ByteBits <= MapBytes * ByteBits
        BY <1>3, <2>2, MapBits, TimesMonotone
    <2>6. Slots((b + 1) * ByteBits + 0, n) \cap usemap = {}
        BY <2>3, Zenon DEF LongestRun, FreeBits
    <2> HIDE DEF b, num
    <2>7. Slots(b * ByteBits + start, num) \subseteq
            Slots(b * ByteBits + start, free_bits) \cup Slots((b + 1) * ByteBits + 0, n)
        <3> SUFFICES ASSUME NEW s \in Slots(b * ByteBits + start, num)
                     PROVE  \/ s \in Slots(b * ByteBits + start, free_bits)
                            \/ s \in Slots((b + 1) * ByteBits + 0, n)
            BY Zenon
        <3>1. s \in Int /\ b * ByteBits + start <= s /\ s <= b * ByteBits + start + num - 1
            BY <1>5, <1>3 DEF Slots
        <3>2. CASE s < b * ByteBits + ByteBits
            BY <3>1, <3>2, <2>2, <1>3, SlotMapAssumption DEF Slots
        <3>3. CASE s >= b * ByteBits + ByteBits
            BY <3>1, <3>3, <2>2, <2>3, <2>4, <1>3, SlotMapAssumption DEF Slots
        <3> QED
            BY <3>1, <3>2, <3>3, <1>3, SlotMapAssumption
    <2>8. Slots(b * ByteBits + start, num) \cap usemap = {}
        BY <1>4, <2>6, <2>7, Zenon
    <2>9. b * ByteBits + start + num <= MapBytes * ByteBits
        BY <1>3, <2>2, <2>3, <2>4, <2>5, MapBits, SlotMapAssumption
    <2> QED
        BY <1>3, <1>5, <2>1, <2>8, <2>9, TakeIInv, Zenon DEF b, num
<1>8. CASE ~ (free_bits >= num) /\ ~RunGoesOn(b, start, free_bits)
    <2>1. Advance(b + 1)
        BY <1>1, <1>8, Zenon
    <2>2. ASSUME num <= ByteBits, NEW s \in 0 .. ByteBits - 1 PROVE ~FreeBits(b, s, num)
        <3>1. num \in 1 .. ByteBits
            BY <1>3, <2>2, SlotMapAssumption
        <3>2. FreeBits(b, s, num) => num < free_bits \/ num = free_bits
            BY <1>1, <3>1, Zenon DEF LongestRun
        <3> QED
            BY <1>8, <3>1, <3>2
    <2>3. \A c \in b .. (b + 1) - 1 : c = b
        BY <1>3
    <2> QED
        BY <1>3, <2>1, <2>2, <2>3, AdvanceIInv, Zenon
<1> QED
    BY <1>6, <1>7, <1>8, Zenon

\* Every step keeps the invariant.
LEMMA StepMapInv == MapInv /\ [MapNext]_mapVars => MapInv'
<1> SUFFICES ASSUME MapInv, [MapNext]_mapVars PROVE MapInv'
    BY Zenon
<1>1. CASE \E n \in Sizes : ReserveStart(n)
    BY <1>1, ReserveStartIInv, Zenon
<1>2. CASE SkipByte
    BY <1>2, SkipByteIInv, Zenon
<1>3. CASE ScanBytes
    BY <1>3, ScanBytesIInv, Zenon
<1>4. CASE ScanBits
    BY <1>4, ScanBitsIInv, Zenon
<1>5. CASE ReserveFail
    BY <1>5, Zenon DEF MapInv, MapTypeOK, NoSharedSlot, UsedExact, NoRoomBefore, ReserveFail, Reserving
<1>6. CASE \E h \in held : \E start \in Slots(h.start, h.num), num \in 1 .. h.num :
               Release(h, start, num)
    BY <1>6, ReleaseIInv, Zenon
<1>7. CASE ClearMap
    <2>1. MapTypeOK'
        BY <1>7, MapBits DEF MapInv, MapTypeOK, ClearMap
    <2>2. NoSharedSlot'
        BY <1>7, Zenon DEF NoSharedSlot, ClearMap
    <2>3. UsedExact'
        BY <1>7, FS_EmptySet, Zenon DEF UsedExact, ClearMap
    <2>4. NoRoomBefore'
        BY <1>7, Zenon DEF ClearMap, NoRoomBefore, Reserving
    <2> QED
        BY <2>1, <2>2, <2>3, <2>4, Zenon DEF MapInv
<1>8. CASE UNCHANGED mapVars
    BY <1>8, Zenon DEF mapVars, MapInv, MapTypeOK, NoSharedSlot, UsedExact, NoRoomBefore, Reserving, FreeBits
<1> QED
    BY <1>1, <1>2, <1>3, <1>4, <1>5, <1>6, <1>7, <1>8, Zenon DEF MapNext

\* The invariant holds of every behaviour of the slot map.
LEMMA MapInvariance == MapSpec => []MapInv
<1> QED
    BY InitMapInv, StepMapInv, PTL DEF MapSpec

------------------------------------------------------------------------------
(* Theorems *)

\* Two reservations never share a slot, and the bits of the map are the slots
\* that are held: slotmap_reserve only takes bits that are clear, in whichever of
\* its three branches it finds them.
THEOREM ReservationsDisjoint == MapSpec => []NoSharedSlot
<1>1. MapInv => NoSharedSlot
    BY Zenon DEF MapInv
<1> QED
    BY <1>1, MapInvariance, PTL

\* used_slots counts the set bits, and so the early refusal of slotmap_reserve is
\* right.
THEOREM CounterExact == MapSpec => []UsedExact
<1>1. MapInv => UsedExact
    BY Zenon DEF MapInv
<1> QED
    BY <1>1, MapInvariance, PTL

\* slotmap_reserve never runs past the bytes of the map, whatever the number of
\* slots and the hints at which its searches start.
THEOREM SlotsInBitmap == MapSpec => []InBitmap
<1>1. ASSUME MapInv PROVE InBitmap
    <2> SUFFICES ASSUME NEW h \in held PROVE h.start + h.num <= MapBytes * ByteBits
        BY Zenon DEF InBitmap
    <2>1. h.start \in BitSlots /\ h.num \in Nat \ {0}
        BY <1>1, Zenon DEF MapInv, MapTypeOK, Reservations
    <2>2. h.start \in Nat
        BY <2>1, MapBits DEF BitSlots
    <2>3. h.start + h.num - 1 \in Slots(h.start, h.num)
        BY <2>1, <2>2 DEF Slots
    <2>4. h.start + h.num - 1 \in BitSlots
        BY <1>1, <2>3, Zenon DEF MapInv, NoSharedSlot, MapTypeOK
    <2> QED
        BY <2>1, <2>2, <2>4, MapBits DEF BitSlots
<1> QED
    BY <1>1, MapInvariance, PTL

\* slotmap_reserve refuses a reservation of at most a byte only when no byte of
\* the map has room for it.
THEOREM SmallReservationsFit == MapSpec => SmallFits
<1>1. ASSUME MapInv, ReserveFail, search.num <= ByteBits,
             NEW b \in 0 .. MapBytes - 1, NEW s \in 0 .. ByteBits - 1
      PROVE  ~FreeBits(b, s, search.num)
    <2>1. search.byte \in 0 .. MapBytes /\ search.byte >= MapBytes /\ Reserving
        BY <1>1, Zenon DEF MapInv, MapTypeOK, ReserveFail, Reserving
    <2>2. b \in 0 .. search.byte - 1
        BY <2>1, MapBits
    <2> QED
        BY <1>1, <2>1, <2>2, Zenon DEF MapInv, NoRoomBefore
<1>2. MapInv => (ReserveFail /\ search.num <= ByteBits =>
         \A b \in 0 .. MapBytes - 1, s \in 0 .. ByteBits - 1 : ~FreeBits(b, s, search.num))
    BY <1>1, Zenon
<1> QED
    BY <1>2, MapInvariance, PTL DEF SmallFits

------------------------------------------------------------------------------
(* The transfer of a file: the chunks of the ranks cover it, and no order of *)
(* the ranks loses one of them *)

-----------------------------------------------------------------------------
(* Arithmetic.                                                               *)

LEMMA DivMod ==
    ASSUME NEW a \in Nat, NEW d \in Nat \ {0}
    PROVE  a \div d \in Nat /\ a % d \in 0 .. d - 1 /\ a = d * (a \div d) + (a % d)
  BY Z3

LEMMA TimesMono ==
    ASSUME NEW a \in Nat, NEW b \in Nat, NEW c \in Nat, a <= b
    PROVE  a * c \in Nat /\ b * c \in Nat /\ a * c <= b * c
  BY Z3

LEMMA TimesLess ==
    ASSUME NEW a \in Nat, NEW b \in Nat, NEW c \in Nat, a * c < b * c
    PROVE  a < b
  BY Z3

LEMMA TimesSum ==
    ASSUME NEW a \in Nat, NEW b \in Nat, NEW c \in Nat
    PROVE  (a + b) * c = a * c + b * c
  BY Z3

\* The number of a byte's chunk, and the place of the byte in it.
LEMMA InChunk ==
    ASSUME NEW b \in Nat, NEW d \in Nat \ {0}
    PROVE  \E k \in Nat : k = b \div d /\ k * d <= b /\ b < k * d + d
<1> PICK k \in Nat : k = b \div d
  BY DivMod, Zenon
<1> PICK m \in 0 .. d - 1 : m = b % d
  BY DivMod, Zenon
<1>1. b = d * k + m
  BY DivMod, Zenon
<1>2. d * k = k * d /\ k * d \in Nat
  BY Z3
<1> QED BY <1>1, <1>2

-----------------------------------------------------------------------------
(* The chunks.                                                               *)

Job == job \in [ranks : Nat \ {0}, size : Nat, buf : Nat \ {0}]

\* What the numbers of transfer_file_parallel say of each other.
LEMMA ChunkCounts ==
    ASSUME Job
    PROVE  /\ total_chunks \in Nat /\ n_chunks_per_rank \in Nat
           /\ n_chunks_remainder \in 0 .. job.ranks - 1
           /\ last_chunk_size \in 0 .. job.buf - 1
           /\ total_chunks = n_chunks_per_rank * job.ranks + n_chunks_remainder
           /\ last_chunk_size # 0 => job.size = (total_chunks - 1) * job.buf + last_chunk_size
           /\ last_chunk_size = 0 => job.size = total_chunks * job.buf
<1> PICK n \in Nat \ {0}, s \in Nat, f \in Nat \ {0} : n = job.ranks /\ s = job.size /\ f = job.buf
  BY Zenon DEF Job
<1> PICK d \in Nat, m \in 0 .. f - 1 : d = s \div f /\ m = s % f
  BY DivMod, Zenon
<1>1. s = d * f + m
  <2>1. s = f * d + m
    BY DivMod, Zenon
  <2>2. f * d = d * f
    BY Z3
  <2> QED BY <2>1, <2>2, Zenon
<1> PICK t \in Nat : t = d + (IF m # 0 THEN 1 ELSE 0)
  OBVIOUS
<1>2. t = total_chunks /\ m = last_chunk_size
  BY Zenon DEF total_chunks, last_chunk_size
<1> PICK q \in Nat, e \in 0 .. n - 1 : q = t \div n /\ e = t % n
  BY DivMod, Zenon
<1>3. q = n_chunks_per_rank /\ e = n_chunks_remainder
  BY <1>2, Zenon DEF n_chunks_per_rank, n_chunks_remainder
<1>4. t = q * n + e
  <2>1. t = n * q + e
    <3>1. t = n * (t \div n) + (t % n)
      BY DivMod, t \in Nat, n \in Nat \ {0}, ZenonT(30)
    <3> QED BY <3>1, Zenon
  <2>2. n * q = q * n
    BY Z3
  <2> QED BY <2>1, <2>2, Zenon
<1>5. ASSUME m # 0 PROVE s = (t - 1) * f + m
  <2>1. t - 1 = d
    BY <1>5
  <2> QED BY <1>1, <2>1, Zenon
<1>6. ASSUME m = 0 PROVE s = t * f
  <2>1. t = d
    BY <1>6
  <2>2. PICK p \in Nat : p = d * f
    <3>1. d * f \in Nat
      BY Z3
    <3> QED BY <3>1, Zenon
  <2>3. s = d * f
    <3>1. s = p + m
      BY <1>1, <2>2, Zenon
    <3>2. p + m = p
      BY <1>6
    <3> QED BY <2>2, <3>1, <3>2, Zenon
  <2> QED BY <2>1, <2>3, Zenon
<1> QED BY <1>2, <1>3, <1>4, <1>5, <1>6, Zenon

\* Every byte of the file is in a chunk of some rank.
LEMMA ChunksCover ==
    ASSUME Job, NEW b \in 0 .. job.size - 1
    PROVE  \E r \in TRanks : b \in FirstPart(r) \cup RemainderPart(r)
<1> PICK n \in Nat \ {0}, s \in Nat, f \in Nat \ {0} : n = job.ranks /\ s = job.size /\ f = job.buf
  BY Zenon DEF Job
<1> PICK t \in Nat, q \in Nat, e \in 0 .. n - 1, m \in 0 .. f - 1 :
        /\ t = total_chunks /\ q = n_chunks_per_rank /\ e = n_chunks_remainder /\ m = last_chunk_size
  BY ChunkCounts, Zenon
<1>1. /\ t = q * n + e
      /\ m # 0 => s = (t - 1) * f + m
      /\ m = 0 => s = t * f
  BY ChunkCounts, Zenon
<1>0. b \in Nat /\ b < s
  OBVIOUS
<1> PICK k \in Nat : k * f <= b /\ b < k * f + f
  BY <1>0, InChunk, Zenon
<1>2. k < t
  <2>1. CASE m = 0
    <3>1. k * f < t * f
      <4>1. k * f \in Nat /\ t * f \in Nat
        BY Z3
      <4> QED BY <1>0, <1>1, <2>1, <4>1
    <3> QED BY <3>1, TimesLess, Zenon
  <2>2. CASE m # 0
    <3>1. t # 0
      <4>1. t = 0 => (t - 1) * f = 0 - f
        BY Z3
      <4> QED BY <1>0, <1>1, <2>2, <4>1
    <3> PICK u \in Nat : u = t - 1
      BY <3>1
    <3>2. k * f < (u + 1) * f
      <4>1. k * f \in Nat /\ u * f \in Nat /\ (u + 1) * f = u * f + f
        BY Z3
      <4> QED BY <1>0, <1>1, <2>2, <4>1
    <3>3. k < u + 1
      BY <3>2, TimesLess
    <3> QED BY <3>3
  <2> QED BY <2>1, <2>2, Zenon
<1>3. CASE k < q * n
  <2>1. q # 0
    <3>1. q = 0 => q * n = 0
      BY Z3
    <3> QED BY <1>3, <3>1
  <2> PICK r \in Nat : r * q <= k /\ k < r * q + q
    BY <2>1, InChunk, Zenon
  <2>2. r < n
    <3>1. n * q = q * n /\ r * q \in Nat /\ n * q \in Nat
      BY Z3
    <3>2. r * q < n * q
      BY <1>3, <3>1
    <3> QED BY <3>2, TimesLess, Zenon
  <2> PICK g \in Nat : g = q * r
    BY Z3
  <2>3. g <= k /\ k + 1 <= g + q
    <3>1. g = r * q
      BY Z3
    <3> QED BY <3>1
  <2>4. g * f \in Nat /\ g * f <= k * f
    BY <2>3, TimesMono, Zenon
  <2>5. (k + 1) * f <= (g + q) * f
    BY <2>3, TimesMono
  <2>6. (k + 1) * f = k * f + f /\ (g + q) * f = g * f + q * f
    BY TimesSum, 1 * f = f
  <2>7. g * f <= b /\ b < g * f + q * f
    <3>1. k * f \in Nat /\ q * f \in Nat
      BY Z3
    <3> QED BY <1>0, <2>4, <2>5, <2>6, <3>1
  <2>8. b \in FirstPart(r)
    BY <2>7, Zenon DEF FirstPart, do_transfer_data
  <2> QED BY <2>2, <2>8 DEF TRanks
<1>4. CASE ~(k < q * n)
  <2> PICK p \in Nat : p = q * n
    BY Z3
  <2> PICK r \in Nat : r = k - p
    BY <1>4
  <2>1. r < e /\ t - e + r = k
    BY <1>1, <1>2
  <2> DEFINE c == IF m # 0 /\ r = e - 1 THEN m ELSE f
  <2>2. b < k * f + c
    <3>1. CASE m # 0 /\ r = e - 1
      <4>1. t - 1 = k
        BY <2>1, <3>1
      <4> QED BY <1>0, <1>1, <3>1, <4>1, Zenon
    <3>2. CASE ~(m # 0 /\ r = e - 1)
      BY <3>2, Zenon
    <3> QED BY <3>1, <3>2, Zenon
  <2>3. b \in RemainderPart(r)
    BY <2>1, <2>2, Zenon DEF RemainderPart, do_transfer_data
  <2> QED BY <2>1, <2>3 DEF TRanks
<1> QED BY <1>3, <1>4, Zenon

-----------------------------------------------------------------------------
(* The ranks.                                                                *)

\* What is in the destination for rank r: nothing that counts until rank 0 has
\* created it, then the parts that the rank is past.
Copied(r) ==
    /\ Small /\ r = 0 /\ tpc[r] = "done" => 0 .. job.size - 1 \subseteq dst
    /\ ~Small /\ tpc[r] = "rest" => exists /\ FirstPart(r) \subseteq dst
    /\ ~Small /\ tpc[r] = "done" /\ ~tret[r] =>
          exists /\ FirstPart(r) \subseteq dst /\ RemainderPart(r) \subseteq dst

FileInv ==
    /\ Job
    /\ tpc \in [TRanks -> {"begin", "open", "rest", "done"}]
    /\ tret \in [TRanks -> BOOLEAN]
    /\ exists <=> tpc[0] # "begin"
    /\ dst \subseteq 0 .. job.size - 1
    /\ \A r \in TRanks : Copied(r)

LEMMA InitFile == FileInit => FileInv
<1> SUFFICES ASSUME FileInit PROVE FileInv
  BY Zenon
<1>1. Job
  BY FileSetupsAssumption, Zenon DEF FileInit, Job
<1>2. 0 \in TRanks
  BY <1>1 DEF Job, TRanks
<1> QED BY <1>1, <1>2, Zenon DEF FileInit, FileInv, Copied

\* The definitions that depend on the job alone do not change with it.
LEMMA SameJob ==
    ASSUME UNCHANGED job
    PROVE  /\ Job' = Job /\ TRanks' = TRanks /\ Small' = Small
           /\ \A r : FirstPart(r)' = FirstPart(r) /\ RemainderPart(r)' = RemainderPart(r)
  BY Zenon DEF Job, TRanks, Small, FirstPart, RemainderPart, do_transfer_data, total_chunks,
         last_chunk_size, n_chunks_per_rank, n_chunks_remainder

LEMMA NextFile == FileInv /\ [FileNext]_fileVars => FileInv'
<1> SUFFICES ASSUME FileInv, [FileNext]_fileVars PROVE FileInv'
  BY Zenon
<1>0. UNCHANGED job
  BY Zenon DEF FileNext, fileVars, unifyfs_transfer_file, transfer_file_serial, transfer_file_parallel
<1>j. /\ Job' = Job /\ TRanks' = TRanks /\ Small' = Small
      /\ \A r : FirstPart(r)' = FirstPart(r) /\ RemainderPart(r)' = RemainderPart(r)
  BY <1>0, SameJob, Zenon
<1>z. 0 \in TRanks
  BY DEF FileInv, Job, TRanks
<1>p. \A r : FirstPart(r) \subseteq 0 .. job.size - 1 /\ RemainderPart(r) \subseteq 0 .. job.size - 1
  BY Zenon DEF FirstPart, RemainderPart, do_transfer_data
<1>1. ASSUME NEW r \in TRanks, unifyfs_transfer_file(r) PROVE FileInv'
  <2>1. CASE r = 0
    BY <1>0, <1>j, <1>z, <1>1, <2>1, Zenon DEF unifyfs_transfer_file, FileInv, Copied
  <2>2. CASE r # 0
    BY <1>0, <1>j, <1>z, <1>1, <2>2, Zenon DEF unifyfs_transfer_file, FileInv, Copied
  <2> QED BY <2>1, <2>2, Zenon
<1>2. ASSUME NEW r \in TRanks, transfer_file_serial(r) PROVE FileInv'
  <2>1. do_transfer_data(0, job.size) = 0 .. job.size - 1
    BY DEF do_transfer_data, FileInv, Job
  <2> QED BY <1>0, <1>j, <1>z, <1>2, <2>1, Zenon DEF transfer_file_serial, Returns, FileInv, Copied
<1>3. ASSUME NEW r \in TRanks, transfer_file_parallel(r) PROVE FileInv'
  BY <1>0, <1>j, <1>z, <1>p, <1>3, Zenon DEF transfer_file_parallel, Returns, FileInv, Copied
<1>4. CASE UNCHANGED fileVars
  BY <1>j, <1>4, Zenon DEF fileVars, FileInv, Copied
<1> QED BY <1>1, <1>2, <1>3, <1>4, Zenon DEF FileNext

\* When every rank of unifyfs_transfer_file returns success the destination has
\* every byte of the source: for every size of the file, every size of the transfer
\* buffer and every number of ranks, in whatever order the ranks come.
THEOREM TransferIsExact == FileSpec => []FileTransferExact
<1>1. FileInv => FileTransferExact
  <2> SUFFICES ASSUME FileInv, \A r \in TRanks : tpc[r] = "done" /\ ~tret[r]
               PROVE  dst = 0 .. job.size - 1
    BY Zenon DEF FileTransferExact
  <2>1. 0 \in TRanks /\ Job
    BY DEF FileInv, Job, TRanks
  <2>2. ASSUME NEW b \in 0 .. job.size - 1 PROVE b \in dst
    <3>1. CASE Small
      BY <2>1, <3>1, Zenon DEF FileInv, Copied
    <3>2. CASE ~Small
      <4>1. PICK r \in TRanks : b \in FirstPart(r) \cup RemainderPart(r)
        BY <2>1, ChunksCover, Zenon
      <4> QED BY <3>2, <4>1, Zenon DEF FileInv, Copied
    <3> QED BY <3>1, <3>2, Zenon
  <2>3. dst \subseteq 0 .. job.size - 1
    BY Zenon DEF FileInv
  <2> QED BY <2>2, <2>3, Zenon
<1> QED BY <1>1, InitFile, NextFile, PTL DEF FileSpec
=============================================================================
