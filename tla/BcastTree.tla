------------------------------ MODULE BcastTree ------------------------------
(***************************************************************************)
(* The k-ary tree over the server ranks along which every collective of    *)
(* the servers travels (server/src/unifyfs_tree.c).  The tree is not       *)
(* stored anywhere: each server computes its own parent and children from  *)
(* its rank, the number of ranks, the rank of the root and the degree, so  *)
(* the collectives work only if the views of all servers fit together.     *)
(***************************************************************************)
EXTENDS Integers

CONSTANTS
    N,  \* number of servers (glb_pmi_size)
    K   \* degree of the tree (UNIFYFS_BCAST_K_ARY)

ASSUME NAssumption == N \in Nat \ {0}
ASSUME KAssumption == K \in Nat \ {0}

Servers == 0 .. (N - 1)

\* Distance of a rank from the root: the ranks are rotated so that the root is 0.
Rotate(rank, root) == IF rank - root < 0 THEN rank - root + N ELSE rank - root

\* The inverse rotation, from tree positions back to server ranks.
Unrotate(pos, root) == IF pos + root >= N THEN pos + root - N ELSE pos + root

NoParent == -1

ParentPos(pos) == (pos - 1) \div K

Parent(rank, root) ==
    IF Rotate(rank, root) > 0
    THEN Unrotate(ParentPos(Rotate(rank, root)), root)
    ELSE NoParent

\* A mistake: the last rank is cut off as well.
MutChildPosShort(pos) == {p \in (pos * K + 1) .. (pos * K + K) : p + 1 < N}

\* Positions of the children of a position, cut off at the number of ranks.
ChildPos(pos) == {p \in (pos * K + 1) .. (pos * K + K) : p < N}

Children(rank, root) == {Unrotate(p, root) : p \in ChildPos(Rotate(rank, root))}
=============================================================================
