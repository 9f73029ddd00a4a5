----------------------------- MODULE Attributes -----------------------------
(* The attributes of one file at two servers: its owner, and another server   *)
(* that keeps a copy.  Threads of the other server look the attributes up in  *)
(* the copy while it is fresh and ask the owner otherwise, one at a time      *)
(* (p2p metaget, filesize and metaset RPCs); the owner's changes reach the    *)
(* copy by broadcasts that may overtake each other.                           *)
(*                                                                            *)
(* The contents of the extent tree are a set of blocks (ExtentTree has the    *)
(* tree itself), a size is a number of blocks and a time a number of ticks.   *)
EXTENDS Integers, FiniteSets

CONSTANTS Threads,          \* request manager threads of the other server
          Plans,            \* which call each thread may make
          CACHE_SECONDS,    \* UNIFYFS_METADATA_CACHE_SECONDS
          MaxTime,          \* bound: ticks of the clock
          MaxChanges,       \* bound: changes made by clients of the owner
          MaxSize           \* bound: blocks of the file

ASSUME AttributesAssumption ==
    CACHE_SECONDS \in Nat /\ MaxTime \in Nat /\ MaxChanges \in Nat /\ MaxSize \in Nat \ {0}
    /\ Plans \subseteq [Threads -> {"metaget", "filesize", "metaset"}]

VARIABLES clock,      \* the time in seconds
          own, loc,   \* the inode at the owner and at the other server
          pending,    \* the gfid is in pending_metagets of the other server
          bcasts,        \* broadcasts under way to the other server
          fcall,      \* the call of each thread
          changes     \* changes made so far

attrVars == <<clock, own, loc, pending, bcasts, fcall, changes>>

INVALID == -1
NoInode == [here |-> FALSE, size |-> 0, mode |-> 0, mtime |-> 0, lam |-> 0, blocks |-> {},
            last_update |-> 0]

\* The four fields that the calls tell apart: uid and gid go with mode, atime and
\* ctime with mtime.
Fields(i) == [size |-> i.size, mode |-> i.mode, mtime |-> i.mtime, lam |-> i.lam]

\* What a client sends with its request to create the file or to change its mode.
unifyfs_file_attr_set_invalid == [size |-> INVALID, mode |-> INVALID, mtime |-> 0, lam |-> INVALID]
Created == [size |-> 0, mode |-> 0, mtime |-> 1, lam |-> 0]
Chmod(m) == [unifyfs_file_attr_set_invalid EXCEPT !.mode = m]

\* Each operation sets its own fields, and only from valid values; the time of
\* the update is kept whatever the operation.
unifyfs_file_attr_update(op, dst, src) ==
    [dst EXCEPT
        !.last_update = clock,
        !.mode = IF src.mode # INVALID /\ op \in {"chmod", "create", "laminate"} THEN src.mode ELSE @,
        !.size = IF src.size # INVALID /\ op \in {"create", "laminate"} THEN src.size ELSE @,
        !.mtime = IF src.mtime # 0 /\ op \in {"create", "utime", "laminate"} THEN src.mtime ELSE @,
        !.lam = IF src.lam # INVALID /\ op \in {"create", "laminate"} THEN src.lam ELSE @]

\* The inode functions: from an inode to the next one.
unifyfs_inode_alloc(a) == unifyfs_file_attr_update("create", [NoInode EXCEPT !.here = TRUE], a)
unifyfs_inode_create(i, a) == IF i.here THEN i ELSE unifyfs_inode_alloc(a)
unifyfs_inode_update_attr(i, op, a) == IF i.here THEN unifyfs_file_attr_update(op, i, a) ELSE i
unifyfs_inode_metaset(i, op, a) ==
    IF op = "create" THEN unifyfs_inode_create(i, a) ELSE unifyfs_inode_update_attr(i, op, a)

\* The largest size the blocks account for, if it is larger than the current one.
unifyfs_inode_add_extents(i, bs) ==
    IF i.here /\ i.lam = 0
    THEN [i EXCEPT !.blocks = @ \cup bs,
                   !.size = IF \E b \in i.blocks \cup bs : b > i.size
                            THEN CHOOSE b \in i.blocks \cup bs : \A d \in i.blocks \cup bs : d <= b
                            ELSE @]
    ELSE i

\* A mistake: a laminated file is truncated like any other.
MutTruncate(i, n) == IF i.here THEN [i EXCEPT !.size = n, !.blocks = {b \in @ : b <= n}] ELSE i

unifyfs_inode_truncate(i, n) ==
    IF i.here /\ i.lam = 0 THEN [i EXCEPT !.size = n, !.blocks = {b \in @ : b <= n}] ELSE i

unifyfs_inode_laminate(i) == IF i.here THEN [i EXCEPT !.lam = 1] ELSE i
unifyfs_inode_unlink(i) == NoInode

------------------------------------------------------------------------------
(* The owner: requests of its own clients and of other servers than the one  *)
(* modelled.  Each change is one step under the lock of the inode, and a      *)
(* broadcast starts with what the inode is then.                              *)

\* seen of a call: what the owner's inode has been since the call began; exact and
\* sized, once it is over: it returned one of those, or the size of one.
Idle == [pc |-> "idle", kind |-> "none", need |-> FALSE, ok |-> FALSE, got |-> Fields(NoInode),
         path |-> "none", mode |-> 0, seen |-> {}, exact |-> FALSE, sized |-> FALSE]
Seen(i) == fcall' = [t \in Threads |-> IF fcall[t].pc \in {"idle", "done"} THEN fcall[t]
                                       ELSE [fcall[t] EXCEPT !.seen = @ \cup {Fields(i)}]]

Bcast(op, i) == [op |-> op, attr |-> Fields(i), blocks |-> i.blocks, id |-> changes]

OwnerChange(i) == own' = i /\ changes' = changes + 1 /\ changes < MaxChanges

\* sm_set_fileattr at the owner: a new file is announced to the others.
OwnerCreate ==
    /\ changes = 0 /\ ~own.here
    /\ OwnerChange(unifyfs_inode_metaset(own, "create", Created))
    /\ bcasts' = bcasts \cup {Bcast("create", own')}

OwnerChmod == /\ own.here /\ own.lam = 0    \* a client refuses a laminated file
              /\ OwnerChange(unifyfs_inode_metaset(own, "chmod", Chmod(changes + 1)))
              /\ UNCHANGED bcasts

\* process_add_extents_rpc
sm_add_extents ==
    /\ own.here
    /\ \E b \in 1 .. MaxSize : OwnerChange(unifyfs_inode_add_extents(own, {b}))
    /\ UNCHANGED bcasts

\* The others are told only if the file shrinks.
sm_truncate(n) ==
    /\ own.here
    /\ OwnerChange(unifyfs_inode_truncate(own, n))
    /\ bcasts' = IF own.lam = 0 /\ n < own.size THEN bcasts \cup {Bcast("truncate", own')} ELSE bcasts

\* unifyfs_invoke_broadcast_laminate sends the attributes and all extents.
sm_laminate ==
    /\ own.here
    /\ OwnerChange(unifyfs_inode_laminate(own))
    /\ bcasts' = bcasts \cup {Bcast("laminate", own')}

OwnerUnlink ==
    /\ own.here
    /\ OwnerChange(unifyfs_inode_unlink(own))
    /\ bcasts' = bcasts \cup {Bcast("unlink", own)}

Owner ==
    /\ \/ OwnerCreate \/ OwnerChmod \/ sm_add_extents \/ sm_laminate \/ OwnerUnlink
       \/ \E n \in 0 .. MaxSize : sm_truncate(n)
    /\ Seen(own')
    /\ UNCHANGED <<clock, loc, pending>>

------------------------------------------------------------------------------
(* Broadcasts applied by the service manager of the other server *)

Applies(m, i) ==
    /\ m \in bcasts
    /\ bcasts' = bcasts \ {m}
    /\ loc' = i
    /\ UNCHANGED <<clock, own, pending, fcall, changes>>

\* A duplicate create is ignored.
process_fileattr_bcast_rpc ==
    \E m \in {x \in bcasts : x.op = "create"} : Applies(m, unifyfs_inode_metaset(loc, "create", m.attr))

process_truncate_bcast_rpc ==
    \E m \in {x \in bcasts : x.op = "truncate"} : Applies(m, unifyfs_inode_truncate(loc, m.attr.size))

process_unlink_bcast_rpc ==
    \E m \in {x \in bcasts : x.op = "unlink"} : Applies(m, unifyfs_inode_unlink(loc))

\* An inode that is missing is created unlaminated so that the extents can be
\* added; the attributes come last, whether or not the extents were added.
process_laminate_bcast_rpc ==
    \E m \in {x \in bcasts : x.op = "laminate"} :
        LET there == unifyfs_inode_create(loc, [m.attr EXCEPT !.lam = 0])
            full  == unifyfs_inode_add_extents(there, m.blocks)
        IN  Applies(m, unifyfs_inode_metaset(full, "laminate", m.attr))

------------------------------------------------------------------------------
(* The calls of the other server *)

Begin(t) == fcall[t].pc = "idle"
Return(t, ok, got, path) ==
    LET seen == IF Begin(t) THEN {Fields(own)} ELSE fcall[t].seen IN
    fcall' = [fcall EXCEPT ![t] = [Idle EXCEPT !.pc = "done", !.kind = fcall[t].kind, !.ok = ok, !.path = path,
                                               !.exact = got \in seen,
                                               !.sized = \E a \in seen : a.size = got.size]]
Starts(t, kind) == fcall[t].kind = kind /\ Begin(t)

\* add_pending_metaget: the second of two threads waits for the first.
AskOwner(t) ==
    /\ fcall' = [fcall EXCEPT ![t] = [@ EXCEPT !.pc = IF pending THEN "poll" ELSE "rpc",
                                               !.need = ~loc.here, !.seen = {Fields(own)}]]
    /\ pending' = TRUE

\* Owner of a laminated or recently updated copy: no need to ask.
Fresh == loc.here /\ (loc.lam = 1 \/ clock <= loc.last_update + CACHE_SECONDS)

\* unifyfs_invoke_metaget_rpc up to its RPC.
unifyfs_invoke_metaget_rpc(t) ==
    /\ Starts(t, "metaget")
    /\ IF Fresh
       THEN Return(t, TRUE, Fields(loc), "local") /\ UNCHANGED pending
       ELSE AskOwner(t)
    /\ UNCHANGED <<clock, own, loc, bcasts, changes>>

\* A mistake: the size of a recently updated copy is used.
MutFilesize(t) ==
    /\ Starts(t, "filesize")
    /\ IF Fresh
       THEN Return(t, TRUE, Fields(loc), "local") /\ UNCHANGED pending
       ELSE AskOwner(t)
    /\ UNCHANGED <<clock, own, loc, bcasts, changes>>

\* The size of an unlaminated file is never taken from the copy.
unifyfs_invoke_filesize_rpc(t) ==
    /\ Starts(t, "filesize")
    /\ IF loc.here /\ loc.lam = 1
       THEN Return(t, TRUE, Fields(loc), "local") /\ UNCHANGED pending
       ELSE AskOwner(t)
    /\ UNCHANGED <<clock, own, loc, bcasts, changes>>

\* metaget_rpc submits the request to the owner's service manager.
metaget_rpc(t) ==
    /\ fcall[t].pc = "rpc"
    /\ fcall[t].kind # "metaset"
    /\ fcall' = [fcall EXCEPT ![t].pc = "queued"]
    /\ UNCHANGED <<clock, own, loc, pending, bcasts, changes>>

sm_process_metaget_rpc(t) ==
    /\ fcall[t].pc = "queued"
    /\ fcall' = [fcall EXCEPT ![t] = [@ EXCEPT !.pc = "reply", !.ok = own.here, !.got = Fields(own)]]
    /\ UNCHANGED <<clock, own, loc, pending, bcasts, changes>>

\* The wait ends with an error: a timeout, or the owner is gone.
metaget_wait_fails(t) ==
    /\ fcall[t].pc = "queued"
    /\ fcall' = [fcall EXCEPT ![t] = [@ EXCEPT !.pc = "failed", !.ok = FALSE]]
    /\ UNCHANGED <<clock, own, loc, pending, bcasts, changes>>

\* sm_set_fileattr stores the answer: all of it in a new inode, the times only in
\* one that was there when the call began.
StoreAnswer(t) ==
    /\ fcall[t].pc = "reply"
    /\ loc' = IF fcall[t].ok
              THEN unifyfs_inode_metaset(loc, IF fcall[t].need THEN "create" ELSE "utime", fcall[t].got)
              ELSE loc
    /\ fcall' = [fcall EXCEPT ![t].pc = "stored"]
    /\ UNCHANGED <<clock, own, pending, bcasts, changes>>

\* A mistake: the error path leaves the gfid in the list.
MutClearPending(t) ==
    /\ fcall[t].pc \in {"stored", "failed"}
    /\ pending' = (fcall[t].pc = "failed")
    /\ Return(t, fcall[t].ok, fcall[t].got, "asked")
    /\ UNCHANGED <<clock, own, loc, bcasts, changes>>

clear_pending_metaget(t) ==
    /\ fcall[t].pc \in {"stored", "failed"}
    /\ pending' = FALSE
    /\ Return(t, fcall[t].ok, fcall[t].got, "asked")
    /\ UNCHANGED <<clock, own, loc, bcasts, changes>>

\* Another thread's request is over: the copy is the answer.
check_pending_metaget(t) ==
    /\ fcall[t].pc = "poll"
    /\ ~pending
    /\ Return(t, loc.here, Fields(loc), "poll")
    /\ UNCHANGED <<clock, own, loc, pending, bcasts, changes>>

\* A change of mode is made in the copy first, and goes no further when there is
\* no copy; then it goes to the owner.
unifyfs_invoke_metaset_rpc(t) ==
    /\ Starts(t, "metaset")
    /\ loc.here => loc.lam = 0
    /\ loc' = unifyfs_inode_metaset(loc, "chmod", Chmod(fcall[t].mode))
    /\ IF loc.here
       THEN fcall' = [fcall EXCEPT ![t] = [@ EXCEPT !.pc = "rpc", !.seen = {Fields(own)}]]
       ELSE Return(t, FALSE, Fields(loc), "local")
    /\ UNCHANGED <<clock, own, pending, bcasts, changes>>

sm_process_metaset_rpc(t) ==
    /\ fcall[t].pc = "rpc"
    /\ fcall[t].kind = "metaset"
    /\ own' = unifyfs_inode_metaset(own, "chmod", Chmod(fcall[t].mode))
    /\ fcall' = [s \in Threads |->
                    IF s = t THEN [Idle EXCEPT !.pc = "done", !.kind = "metaset", !.ok = own.here]
                    ELSE IF fcall[s].pc \in {"idle", "done"} THEN fcall[s]
                    ELSE [fcall[s] EXCEPT !.seen = @ \cup {Fields(own')}]]
    /\ UNCHANGED <<clock, loc, pending, bcasts, changes>>

Tick == /\ clock < MaxTime
        /\ clock' = clock + 1
        /\ UNCHANGED <<own, loc, pending, bcasts, fcall, changes>>

------------------------------------------------------------------------------
\* Each thread has one call to make.
AttrInit ==
    /\ clock = 1 /\ own = NoInode /\ loc = NoInode
    /\ pending = FALSE /\ bcasts = {} /\ changes = 0
    /\ \E plan \in Plans : fcall = [t \in Threads |-> [Idle EXCEPT !.kind = plan[t], !.mode = 100]]

Broadcasts == \/ process_fileattr_bcast_rpc \/ process_truncate_bcast_rpc
              \/ process_unlink_bcast_rpc \/ process_laminate_bcast_rpc

FileCall(t) ==
    \/ unifyfs_invoke_metaget_rpc(t) \/ unifyfs_invoke_filesize_rpc(t)
    \/ unifyfs_invoke_metaset_rpc(t) \/ metaget_rpc(t) \/ sm_process_metaget_rpc(t)
    \/ StoreAnswer(t) \/ clear_pending_metaget(t) \/ check_pending_metaget(t)
    \/ sm_process_metaset_rpc(t)

AttrNext == \/ Owner \/ Broadcasts \/ Tick
            \/ \E t \in Threads : FileCall(t) \/ metaget_wait_fails(t)

AttrSpec == AttrInit /\ [][AttrNext]_attrVars

------------------------------------------------------------------------------
Returned(t) == fcall[t].pc = "done"

\* A call that asked the owner, or that found the file laminated, returns what
\* the owner's inode was at some moment of the call; so does every file size
\* lookup that did not wait for another thread (unifyfs_invoke_filesize_rpc, which
\* does not use cached metadata).  A laminated copy answers until the broadcast of
\* an unlink arrives.
AskedIsCurrent ==
    \A t \in Threads :
        Returned(t) /\ fcall[t].ok =>
            /\ (fcall[t].kind = "metaget" /\ fcall[t].path = "asked") => fcall[t].exact
            /\ (fcall[t].kind = "filesize" /\ fcall[t].path # "poll") =>
                   fcall[t].sized \/ (fcall[t].path = "local" /\ ~own.here)

\* A server that knows the file to be laminated has its final size, whichever way
\* it learned of the lamination and whatever was under way then.
LaminatedSize == loc.here /\ loc.lam = 1 /\ own.here => own.lam = 1 /\ loc.size = own.size

------------------------------------------------------------------------------
(* The inductive invariant *)

Attrs == [size : Nat, mode : Int, mtime : Int, lam : {0, 1}]
Inodes == [here : BOOLEAN, size : Nat, mode : Int, mtime : Int, lam : {0, 1},
           blocks : SUBSET (1 .. MaxSize), last_update : Int]
Messages == [op : {"create", "truncate", "laminate", "unlink"}, attr : Attrs,
             blocks : SUBSET (1 .. MaxSize), id : Nat]
FileCalls == [pc : {"idle", "poll", "rpc", "queued", "reply", "stored", "failed", "done"},
              kind : {"metaget", "filesize", "metaset"}, need : BOOLEAN, ok : BOOLEAN,
              got : Attrs, path : {"none", "local", "asked", "poll"}, mode : Int,
              seen : SUBSET Attrs, exact : BOOLEAN, sized : BOOLEAN]

\* The type invariant of the attributes.
AttrTypeOK ==
    /\ clock \in Nat /\ changes \in Nat /\ pending \in BOOLEAN
    /\ own \in Inodes /\ loc \in Inodes
    /\ bcasts \subseteq Messages
    /\ fcall \in [Threads -> FileCalls]

\* Attributes that call the file laminated are final.
Final(a) == a.lam = 1 /\ own.here => own.lam = 1 /\ a.size = own.size

\* What a thread knows: what the owner is now has been seen since the call began,
\* so has an answer, and an answer that calls the file laminated is final.
Knows(c) ==
    /\ c.pc \notin {"idle", "done"} => Fields(own) \in c.seen
    /\ c.pc \in {"reply", "stored"} /\ c.ok => c.got \in c.seen /\ Final(c.got)
    /\ c.pc = "failed" => ~c.ok

\* The owner creates the file once; nobody has heard of it before.
Unheard ==
    changes = 0 =>
        /\ ~own.here /\ ~loc.here /\ bcasts = {}
        /\ \A t \in Threads : fcall[t].pc \in {"reply", "stored", "done"} => ~fcall[t].ok

AttrInv ==
    /\ AttrTypeOK /\ Unheard /\ LaminatedSize /\ AskedIsCurrent
    /\ \A m \in bcasts : Final(m.attr) /\ (m.op = "laminate" => m.attr.lam = 1)
    /\ \A t \in Threads : Knows(fcall[t])

------------------------------------------------------------------------------
\* "if laminated, we already have final metadata locally": the extents too, which
\* unifyfs_invoke_find_extents_rpc looks up in the copy alone, at the latest when
\* no broadcast is under way any more.
LaminatedFinal == bcasts = {} /\ loc.here /\ loc.lam = 1 /\ own.here => loc.blocks = own.blocks

\* Every lookup returns, whether the owner answers or not and however many threads
\* wait for the same file: the pending request is always cleared.
MetagetsReturn == []<>(\A t \in Threads : fcall[t].pc \in {"idle", "done"})
=============================================================================
