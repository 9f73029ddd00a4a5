---------------------------- MODULE MCAttributes ----------------------------
(* One file at its owner and at a server with one thread that looks it up.  *)
EXTENDS Attributes, TLC

CONSTANT t1

Lookup == {t1 :> "metaget"}
=============================================================================
