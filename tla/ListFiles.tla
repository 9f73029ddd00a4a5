------------------------------ MODULE ListFiles ------------------------------
(* The list of all files of the servers (metaget_all): every server sends the *)
(* attributes of the files that it owns up the broadcast tree, and the root   *)
(* adds its own (server/src/unifyfs_group_rpc.c, unifyfs_service_manager.c).  *)
(* Files come and go meanwhile, and one merge may fail.  Collective has the   *)
(* memory, the other failures and the timers of the collective itself.        *)
(*                                                                            *)
(* The attributes cannot carry a pointer: a name travels as an offset into    *)
(* one string of all names, and its end is the beginning of the next.         *)
EXTENDS BcastTree, Sequences, FiniteSets, SequencesExt

CONSTANTS Gfids,        \* the files, numbers
          MaxEdits      \* bound: files created or removed during the call

ASSUME ListAssumption == Gfids \subseteq Nat /\ MaxEdits \in Nat

VARIABLES inodes,       \* the inode tree of each server: own files and copies
          lroot,        \* the server that asks
          lst,          \* the collective at each server
          lpend,        \* children that have not been merged yet
          lout,         \* metaget_all_bcast_out_t of each server
          lcall,        \* the caller: "idle", "fetch", "wait", "done", "failed"
          mine,         \* files of the root itself
          listed,       \* what the caller gets
          always, ever, \* files that existed during the whole call, or once
          edits,        \* files created or removed so far
          whole         \* no merge failed

listVars == <<inodes, lroot, lst, lpend, lout, lcall, mine, listed, always, ever, edits, whole>>

\* hash_gfid_to_server, and a name: characters that occur nowhere else.
hash_gfid_to_server(g) == g % N
Name(g) == [i \in 1 .. 1 + (g % 2) |-> <<g, i>>]

Empty == [names |-> <<>>, attrs |-> <<>>]

ListInit ==
    /\ lroot \in Servers
    /\ \E exist \in SUBSET Gfids : \E copied \in SUBSET exist :     \* copies at the next server
          inodes = [s \in Servers |-> {g \in exist : hash_gfid_to_server(g) = s}
                                      \cup {g \in copied : hash_gfid_to_server(g + 1) = s}]
    /\ lst = [s \in Servers |-> "none"] /\ lpend = [s \in Servers |-> {}]
    /\ lout = [s \in Servers |-> Empty]
    /\ lcall = "idle" /\ mine = <<>> /\ listed = <<>>
    /\ always = {} /\ ever = {} /\ edits = 0 /\ whole = TRUE

\* The tree is walked in the order of the gfids; copies are left out.
unifyfs_get_owned_files(s) ==
    SetToSortSeq({g \in inodes[s] : hash_gfid_to_server(g) = s}, LAMBDA a, b : a < b)

\* The names in one string, and where each begins.
Packed(gs) ==
    LET names(n) == FlattenSeq([i \in 1 .. n |-> Name(gs[i])]) IN
    [names |-> names(Len(gs)),
     attrs |-> [i \in 1 .. Len(gs) |-> [gfid |-> gs[i], off |-> Len(names(i - 1))]]]

\* A mistake: the offsets of the child are kept.
MutMerge(p, c) == [names |-> p.names \o c.names, attrs |-> p.attrs \o c.attrs]

\* The child's names and attributes are appended, and its offsets moved.
merge_metaget_all_bcast_outputs(p, c) ==
    [names |-> p.names \o c.names,
     attrs |-> p.attrs \o [i \in 1 .. Len(c.attrs) |-> [c.attrs[i] EXCEPT !.off = @ + Len(p.names)]]]

\* The ways in which it fails: memory or a bulk transfer is missing before anything
\* is changed, or the names are joined and the attributes cannot be.
FailedMerges(p, c) == {p, [p EXCEPT !.names = @ \o c.names]}

\* The names as the caller cuts them out of the string again.
Unpacked(o) ==
    [i \in 1 .. Len(o.attrs) |->
        [gfid |-> o.attrs[i].gfid,
         name |-> SubSeq(o.names, o.attrs[i].off + 1,
                         IF i < Len(o.attrs) THEN o.attrs[i + 1].off ELSE Len(o.names))]]

Existing == {g \in Gfids : g \in inodes[hash_gfid_to_server(g)]}
LKids(s) == Children(s, lroot)

------------------------------------------------------------------------------
\* The request goes to the children; the local part is left to the caller.
unifyfs_invoke_broadcast_metaget_all ==
    /\ lcall = "idle" /\ lcall' = "fetch"
    /\ lst' = [s \in Servers |-> IF s = lroot THEN "progress" ELSE IF s \in LKids(lroot) THEN "sent" ELSE "none"]
    /\ lpend' = [lpend EXCEPT ![lroot] = LKids(lroot)]
    /\ always' = Existing /\ ever' = Existing
    /\ UNCHANGED <<inodes, lroot, lout, mine, listed, edits, whole>>

OwnFiles ==
    /\ lcall = "fetch" /\ lcall' = "wait"
    /\ mine' = unifyfs_get_owned_files(lroot)
    /\ UNCHANGED <<inodes, lroot, lst, lpend, lout, listed, always, ever, edits, whole>>

\* The handler forwards the request and queues the local part.
metaget_all_bcast_rpc(s) ==
    /\ lst[s] = "sent"
    /\ lst' = [t \in Servers |-> IF t = s THEN "queued" ELSE IF t \in LKids(s) THEN "sent" ELSE lst[t]]
    /\ UNCHANGED <<inodes, lroot, lpend, lout, lcall, mine, listed, always, ever, edits, whole>>

\* The local part sets the output; the replies of the children are taken after it.
process_metaget_bcast_rpc(s) ==
    /\ lst[s] = "queued" /\ lst' = [lst EXCEPT ![s] = "progress"]
    /\ lpend' = [lpend EXCEPT ![s] = LKids(s)]
    /\ lout' = [lout EXCEPT ![s] = Packed(unifyfs_get_owned_files(s))]
    /\ UNCHANGED <<inodes, lroot, lcall, mine, listed, always, ever, edits, whole>>

\* The children answer in any order; whether the merge succeeded is not looked at.
get_child_response(s) ==
    /\ lst[s] = "progress"
    /\ \E c \in {k \in lpend[s] : lst[k] = "replied"} :
        /\ \/ /\ lout' = [lout EXCEPT ![s] = merge_metaget_all_bcast_outputs(@, lout[c])]
              /\ UNCHANGED whole
           \/ /\ whole /\ whole' = FALSE
              /\ \E o \in FailedMerges(lout[s], lout[c]) : lout' = [lout EXCEPT ![s] = o]
        /\ lpend' = [lpend EXCEPT ![s] = @ \ {c}]
    /\ UNCHANGED <<inodes, lroot, lst, lcall, mine, listed, always, ever, edits>>

bcast_progress_rpc(s) ==
    /\ lst[s] = "progress" /\ lpend[s] = {} /\ lst' = [lst EXCEPT ![s] = "replied"]
    /\ UNCHANGED <<inodes, lroot, lpend, lout, lcall, mine, listed, always, ever, edits, whole>>

\* The caller's wait is over: its own files come last, with their own strings.
ReturnList ==
    /\ lcall = "wait"
    /\ \/ /\ lst[lroot] = "replied" /\ lcall' = "done"
          /\ listed' = Unpacked(lout[lroot])
                       \o [i \in 1 .. Len(mine) |-> [gfid |-> mine[i], name |-> Name(mine[i])]]
       \/ lst[lroot] # "replied" /\ lcall' = "failed" /\ UNCHANGED listed
    /\ UNCHANGED <<inodes, lroot, lst, lpend, lout, mine, always, ever, edits, whole>>

\* A file is created or removed at its owner.
CreateOwned(g) ==
    /\ inodes' = [inodes EXCEPT ![hash_gfid_to_server(g)] = @ \cup {g}]
    /\ ever' = ever \cup {g} /\ UNCHANGED always
RemoveOwned(g) ==
    /\ inodes' = [s \in Servers |-> inodes[s] \ {g}]
    /\ always' = always \ {g} /\ UNCHANGED ever
Edit ==
    /\ lcall \in {"fetch", "wait"} /\ edits < MaxEdits /\ edits' = edits + 1
    /\ \E g \in Gfids : IF g \in Existing THEN RemoveOwned(g) ELSE CreateOwned(g)
    /\ UNCHANGED <<lroot, lst, lpend, lout, lcall, mine, listed, whole>>

ListNext ==
    \/ unifyfs_invoke_broadcast_metaget_all \/ OwnFiles \/ ReturnList \/ Edit
    \/ \E s \in Servers : \/ metaget_all_bcast_rpc(s) \/ process_metaget_bcast_rpc(s)
                          \/ get_child_response(s) \/ bcast_progress_rpc(s)

\* The list has no file twice and none that never existed during the call; when no
\* merge failed it also has every file that existed during the whole call, and for
\* each file its own name: the offsets fit together however the tree merged the
\* strings (merge_metaget_all_bcast_outputs).  A merge that failed is not reported
\* to the caller; then files are missing, and names may be run together.
ListExact ==
    lcall = "done" =>
        LET files == {listed[i].gfid : i \in 1 .. Len(listed)} IN
        /\ files \subseteq ever
        /\ Cardinality(files) = Len(listed)
        /\ whole => /\ always \subseteq files
                    /\ \A i \in 1 .. Len(listed) : listed[i].name = Name(listed[i].gfid)
==============================================================================
