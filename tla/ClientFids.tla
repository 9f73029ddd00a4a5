----------------------------- MODULE ClientFids -----------------------------
(* The local file ids of one client (client/src/unifyfs_fid.c): the stack of *)
(* free ids, the list of names, and the metadata kept for each id, with the  *)
(* writes that the server has not been told of.  The functions of the layer  *)
(* call each other several deep inside one library call, so each is an       *)
(* operator from the state of the layer to its next state.                   *)
(*                                                                           *)
(* A global file id is a hash of the path: the path stands for it.  After a  *)
(* rename the name of an id and its gfid differ.                             *)
EXTENDS Integers, Sequences, FiniteSets

CONSTANTS Paths,        \* the file names, and with them the global file ids
          NFids,        \* client->max_files
          MaxWrites,    \* bound: writes by the application
          None          \* no name, no id

ASSUME FidsAssumption ==
    NFids \in Nat \ {0} /\ MaxWrites \in Nat /\ Paths # {} /\ None \notin Paths \cup Int

Fids == 0 .. NFids - 1
Writes == 1 .. MaxWrites

\* A stack of the numbers below n, the lowest on top.
StackInit(n) == [i \in 1 .. n |-> n - i]
Top(s) == s[Len(s)]
Pop(s) == SubSeq(s, 1, Len(s) - 1)
Push(s, v) == Append(s, v)

\* Metadata of an id: live is meta->fid = fid, store is FILE_STORAGE_LOGIO, ext
\* is the extents_sync tree, needs is needs_writes_sync, pend is pending_unlink.
NoMeta(p) == [live |-> FALSE, gfid |-> p, dir |-> FALSE, lam |-> FALSE, mode |-> TRUE,
              store |-> FALSE, needs |-> FALSE, pend |-> FALSE, ext |-> {}]

FidsInit == [free |-> StackInit(NFids), list |-> [f \in Fids |-> None],
             meta |-> [f \in Fids |-> NoMeta(CHOOSE p \in Paths : TRUE)]]

\* The first id in use with this name, or with this gfid; none is {}.
FromPath(c, p) == {f \in Fids : c.list[f] = p /\ \A g \in Fids : c.list[g] = p => f <= g}
InUse(c, p) == {f \in Fids : c.list[f] # None /\ c.meta[f].gfid = p}
FromGfid(c, p) == {f \in InUse(c, p) : \A g \in InUse(c, p) : f <= g}

FidAlloc(c) == Top(c.free)
FidFree(c, f) == [c EXCEPT !.free = Push(@, f)]

\* Storage of an id: the extents that were not synced are released with it, and
\* the metadata is no longer valid.
StorageAlloc(m) == [m EXCEPT !.store = TRUE, !.ext = {}]
StorageFree(m) == [m EXCEPT !.live = FALSE, !.store = FALSE, !.pend = FALSE, !.ext = {}]

\* Mutant: the id is pushed whether or not the metadata is valid.
MutDelete(c, f) == [FidFree(c, f) EXCEPT !.list[f] = None, !.meta[f] = StorageFree(@)]

\* The name goes; if the metadata is of this id its storage is released and the
\* id is pushed on the stack.  A pending unlink is carried out by the lookup
\* inside, once, and the outer call then finds nothing to free.
Delete(c, f) ==
    IF c.meta[f].live
    THEN [FidFree(c, f) EXCEPT !.list[f] = None, !.meta[f] = StorageFree(@)]
    ELSE [c EXCEPT !.list[f] = None]

\* Delete reports success only when it freed the id itself.
Deletes(c, f) == c.meta[f].live /\ ~c.meta[f].pend

\* The lookup of the metadata of f: it returns NULL when an unlink was pending,
\* after it has deleted the id.
Pending(c, f) == c.meta[f].live /\ c.meta[f].pend
GetMeta(c, f) == IF Pending(c, f) THEN Delete(c, f) ELSE c

\* A new id for p, which needs a free one.  Storage is allocated for files only.
CreateFile(c, p, dir) ==
    LET f == FidAlloc(c)
        m == [NoMeta(p) EXCEPT !.live = TRUE, !.dir = dir]
    IN  [free |-> Pop(c.free), list |-> [c.list EXCEPT ![f] = p],
         meta |-> [c.meta EXCEPT ![f] = IF dir THEN m ELSE StorageAlloc(m)]]

\* The attributes of the server replace the local ones.
UpdateMeta(c, f, a) ==
    IF Pending(c, f) THEN Delete(c, f)
    ELSE [c EXCEPT !.meta[f].gfid = a.gfid, !.meta[f].dir = a.dir,
                   !.meta[f].lam = a.lam, !.meta[f].mode = a.mode]

\* All extents are in the index, the tree is empty and the file counts as synced.
Flushed(c, f) == [c EXCEPT !.meta[f].ext = {}, !.meta[f].needs = FALSE]

\* Mutant: the file is not marked for the next sync.
MutRecord(c, f, w) == [c EXCEPT !.meta[f].ext = @ \cup {w}]

\* A write is recorded, and the file is to be synced.
Record(c, f, w) == [c EXCEPT !.meta[f].ext = @ \cup {w}, !.meta[f].needs = TRUE]

\* What a sync of f finds to send.
ToSend(c, f) == IF c.meta[f].live /\ ~c.meta[f].pend /\ c.meta[f].needs
                THEN c.meta[f].ext ELSE {}

\* The name of an id is overwritten; a slot that is not in use stays so.
Rename(c, f, q) == IF c.list[f] = None THEN c ELSE [c EXCEPT !.list[f] = q]
=============================================================================
