-------------------------------- MODULE Ranges --------------------------------
(***************************************************************************)
(* Ranges of file offsets and where their bytes are: byte "start" of the   *)
(* range is at offset "pos" of the write log "log", the following bytes    *)
(* after it.  These are the nodes of the extent trees of the servers       *)
(* (extent_metadata) and of the segment trees of the clients               *)
(* (seg_tree_node).                                                        *)
(***************************************************************************)
EXTENDS Integers

Covers(n, o) == n.start <= o /\ o <= n.end

\* The comparison functions of the trees treat ranges that overlap as equal.
Overlap(m, n) == m.start <= n.end /\ n.start <= m.end

Length(n) == n.end - n.start + 1

\* Where the byte at offset o of range n is.
Loc(n, o) == <<n.log, n.pos + (o - n.start)>>

\* The part [a, b] of range n.
Piece(n, a, b) == [start |-> a, end |-> b, pos |-> n.pos + (a - n.start), log |-> n.log]

\* m ends where n starts, in the file and in the log.
Contiguous(m, n) == m.end + 1 = n.start /\ m.pos + Length(m) = n.pos
=============================================================================
