------------------------------- MODULE FileData -------------------------------
(***************************************************************************)
(* The data of one file, as the specifications of the servers see it.      *)
(* Contents are blocks; a block holds the number of the sync that wrote    *)
(* it, or 0 (a hole).  Module ExtentTree shows that the extent trees       *)
(* behave like these functions from blocks to writers.                     *)
(***************************************************************************)
EXTENDS Integers, FiniteSets

CONSTANTS
    Clients,
    NBlocks,   \* length of the file, in blocks
    MaxOps     \* bound on the number of calls

ASSUME BlocksAssumption == NBlocks \in Nat \ {0} /\ MaxOps \in Nat

Blocks == 0 .. (NBlocks - 1)
Sizes  == 0 .. NBlocks
Data   == 0 .. MaxOps
NoData == 0
Contents == [Blocks -> Data]
Empty == [b \in Blocks |-> NoData]

Max2(a, b) == IF a >= b THEN a ELSE b

\* Blocks first .. last replaced by what one sync wrote.
Write(ext, first, last, data) ==
    [b \in Blocks |-> IF b \in first .. last THEN data ELSE ext[b]]

\* Everything from a size on cut off.
Cut(ext, size) == [b \in Blocks |-> IF b < size THEN ext[b] ELSE NoData]

\* Contents written over other contents; holes write nothing.
Overlay(ext, over) == [b \in Blocks |-> IF over[b] = NoData THEN ext[b] ELSE over[b]]

\* The calls of the clients.
Idle == [op |-> "idle"]
Calls == {[op |-> o] : o \in {"create", "laminate", "unlink", "read", "size"}}
         \cup [op : {"truncate"}, size : Sizes]
         \cup [op : {"sync"}, first : Blocks, last : Blocks, data : Data \ {NoData}]

\* What a call returns: success or not, and what a read or a size query found.
Results == [ok : BOOLEAN, size : Sizes, ext : Contents]
Answer(ok)     == [ok |-> ok, size |-> 0, ext |-> Empty]
AnswerSize(n)  == [ok |-> TRUE, size |-> n, ext |-> Empty]
AnswerExt(ext) == [ok |-> TRUE, size |-> 0, ext |-> ext]
=============================================================================
