------------------------------ MODULE MCSegTree -----------------------------
(* A client and another client of the same node.                            *)
EXTENDS SegTree

CONSTANTS c1, c2
=============================================================================
