------------------------------ MODULE MCStorage ------------------------------
(* The data structures below the files, one per initial value of "part": the   *)
(* extent tree of a server, the segment trees of a client, the slot map and    *)
(* the write log.                                                              *)
EXTENDS ExtentTree, SegTree, SlotMap, LogStore

CONSTANTS l1, l2, c1  \* two logs and a client

\* 1 and 2 slots fit in a byte of three or span two; 3 fill a byte, 5 take two.  The
\* last of the 8 slots is not the last bit of its byte.
ThreeBitSizes == {1, 2, 3, 5}

VARIABLE part

storageVars == <<part, vars, segVars, mapVars, logVars>>

StorageInit ==
    /\ part \in {"extents", "segments", "slots", "log"}
    /\ Init /\ SegInit /\ MapInit /\ LogInit
    /\ part # "segments" => caching = "own"

StorageNext ==
    /\ UNCHANGED part
    /\ \/ part = "extents" /\ Next /\ UNCHANGED <<segVars, mapVars, logVars>>
       \/ part = "segments" /\ SegNext /\ UNCHANGED <<vars, mapVars, logVars>>
       \/ part = "slots" /\ MapNext /\ UNCHANGED <<vars, segVars, logVars>>
       \/ part = "log" /\ LogNext /\ UNCHANGED <<vars, segVars, mapVars>>

\* A thread that holds the lock of the extent tree goes on.
StorageSpec ==
    /\ StorageInit /\ [][StorageNext]_storageVars
    /\ WF_storageVars(part = "extents" /\ Continue /\ UNCHANGED <<part, segVars, mapVars, logVars>>)

\* Every operation on the extent tree ends (the loops of extent_tree_add and
\* extent_tree_truncate), and then extent_tree_get_chunk_list finds every byte.
TreeAnswers == [](LookupExact /\ <>(busy = Unlocked))

\* The log at rest and at work: as long as every allocation is made of consecutive
\* chunks that the logs have, no write overwrites live data and the counts of the
\* slot maps are exact; headers are left locked only where a second attempt in the
\* spill log fails (unifyfs_logio_alloc, its roll-backs and early returns).
LogSound == ("astray" \notin mishaps => DataIntact /\ CountsExact) /\ HeadersFree
=============================================================================
