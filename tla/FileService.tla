----------------------------- MODULE FileService -----------------------------
(***************************************************************************)
(* The metadata service of the servers for one file.  Every server may     *)
(* have an inode for it; the owner (hash_gfid_to_server) has the           *)
(* authoritative one.  A client call is received by the client's home      *)
(* server and executed by the request manager (RM) thread of that client,  *)
(* which works on the local inode, or sends an RPC to the owner, where the *)
(* service manager thread answers it.  Creation, truncation, lamination    *)
(* and unlink are broadcast to the other servers, and the caller does not  *)
(* wait for the broadcast.                                                 *)
(*                                                                         *)
(* Module Collective shows that a broadcast reaches every server once, so  *)
(* a broadcast is one message to each of them here.  A thread is a client  *)
(* (its RM thread) or a server (its service manager).  Where the code      *)
(* takes a decision and acts on it without holding the inode lock in       *)
(* between, there are two steps.                                           *)
(***************************************************************************)
EXTENDS FileData, Sequences

CONSTANTS
    Servers,
    Owner,    \* server that owns the file
    Home,     \* server of each client
    Shared,   \* is_shared attribute: several clients use the file
    Menu,     \* names of the calls the clients make
    Mode,     \* "free": clients call at any time; "serial": one call at a time;
              \* "settled": one at a time, and when all broadcasts have arrived
    Ordered   \* are the requests of one server to another handled in order?

ASSUME OwnerAssumption == Owner \in Servers
ASSUME HomeAssumption == Home \in [Clients -> Servers]
ASSUME DisjointAssumption == Clients \cap Servers = {}
ASSUME ModeAssumption == /\ Mode \in {"free", "serial", "settled"}
                         /\ Ordered \in BOOLEAN
                         /\ Shared \in BOOLEAN

\* Nobody unlinks the file while another call on it is in progress: the threads
\* use inodes without a reference, so such a program races with the free().
ASSUME UnlinkAssumption == Mode = "free" => "unlink" \notin Menu

VARIABLES
    ex,      \* servers with an inode for the file
    lam,     \* is_laminated attribute of each inode
    size,    \* size attribute
    ext,     \* extent tree
    pend,    \* pending extents: syncs that wait for the service manager
    getting, \* servers with a pending metaget to the owner
    queue,   \* requests queued for the service manager of each server
    chan,    \* requests on their way from one server to another
    th,      \* what each thread is doing
    submit,  \* clients whose RM thread has yet to queue the request for its sync
    call,    \* the call each client is in
    ret,     \* what its last call returned
    nops,    \* number of calls so far
    ref,     \* the file that the returned calls define (see AtomicFile)
    applied, \* syncs that were added to the owner's inode
    acked    \* syncs that returned success

inode  == <<ex, lam, size, ext, pend>>
client == <<call, ret, nops, ref, acked, submit>>
vars   == <<inode, getting, queue, chan, th, client, applied>>

AF == INSTANCE AtomicFile WITH file <- ref

Threads == Clients \cup Servers
NoPend == [who |-> {}, ext |-> Empty]
Ready == [pc |-> "idle"]
At(pc, who) == [pc |-> pc, who |-> who]
Request(op, who) == [op |-> op, who |-> who]

Init ==
    /\ ex = {}
    /\ lam = [s \in Servers |-> FALSE]
    /\ size = [s \in Servers |-> 0]
    /\ ext = [s \in Servers |-> Empty]
    /\ pend = [s \in Servers |-> NoPend]
    /\ getting = {}
    /\ queue = [s \in Servers |-> <<>>]
    /\ chan = [s \in Servers |-> [d \in Servers |-> <<>>]]
    /\ th = [t \in Threads |-> Ready]
    /\ nops = 0 /\ applied = {} /\ acked = {} /\ submit = {}
    /\ AF!Init

------------------------------------------------------------------------------
(* Messages *)

Send(src, dst, m) == chan' = [chan EXCEPT ![src][dst] = Append(@, m)]

Broadcast(src, m) ==
    chan' = [chan EXCEPT ![src] = [d \in Servers |-> IF d = src THEN @[d] ELSE Append(@[d], m)]]

WithoutNth(seq, i) == SubSeq(seq, 1, i - 1) \o SubSeq(seq, i + 1, Len(seq))

LaminateMsg == [op |-> "b_laminate", size |-> size[Owner], ext |-> ext[Owner]]

\* The handler of a request queues it for the service manager.  The handler of
\* a lamination fails when there are no extents to pull: pull_margo_bulk_buffer
\* returns NULL for an empty buffer.
Deliver(src, dst) ==
    \E i \in 1 .. Len(chan[src][dst]) :
        LET m == chan[src][dst][i] IN
        /\ Ordered => i = 1
        /\ chan' = [chan EXCEPT ![src][dst] = WithoutNth(@, i)]
        /\ IF m.op = "b_laminate" /\ m.ext = Empty
           THEN UNCHANGED queue
           ELSE queue' = [queue EXCEPT ![dst] = Append(@, m)]
        /\ UNCHANGED <<inode, getting, th, client, applied>>

------------------------------------------------------------------------------
(* Inodes *)

\* unifyfs_inode_create on a server without an inode.
NewInode(s, l, n) ==
    /\ ex' = ex \cup {s}
    /\ lam' = [lam EXCEPT ![s] = l]
    /\ size' = [size EXCEPT ![s] = n]
    /\ ext' = [ext EXCEPT ![s] = Empty]
    /\ pend' = [pend EXCEPT ![s] = NoPend]

\* unifyfs_inode_unlink: the pending syncs go with the inode.
Destroy(s) ==
    /\ ex' = ex \ {s}
    /\ lam' = [lam EXCEPT ![s] = FALSE]
    /\ size' = [size EXCEPT ![s] = 0]
    /\ ext' = [ext EXCEPT ![s] = Empty]
    /\ pend' = [pend EXCEPT ![s] = NoPend]

\* extent_tree_max_offset + 1; the maximum of an empty tree is 0.
ExtentSize(e) ==
    IF e = Empty THEN 1
    ELSE 1 + CHOOSE b \in Blocks : e[b] # NoData /\ \A a \in Blocks : e[a] # NoData => a <= b

\* unifyfs_inode_add_extents, under the lock.
AddExtents(s, over) ==
    /\ ext' = [ext EXCEPT ![s] = Overlay(@, over)]
    /\ size' = [size EXCEPT ![s] = Max2(@, ExtentSize(Overlay(ext[s], over)))]
    /\ UNCHANGED <<ex, lam, pend>>

\* unifyfs_inode_truncate, under the lock.
TruncateInode(s, n) ==
    /\ ext' = [ext EXCEPT ![s] = Cut(@, n)]
    /\ size' = [size EXCEPT ![s] = n]
    /\ UNCHANGED <<ex, lam, pend>>

------------------------------------------------------------------------------
(* Calls and answers *)

Quiet == /\ \A s, d \in Servers : chan[s][d] = <<>>
         /\ \A s \in Servers : queue[s] = <<>> /\ th[s] = Ready

\* When the program makes its next call.
MayCall == /\ nops < MaxOps
           /\ Mode # "free" => \A c \in Clients : call[c] = Idle
           /\ Mode = "settled" => Quiet

\* A client RPC arrives at the home server and is queued for the RM thread.
Call(c) ==
    /\ MayCall
    /\ call[c] = Idle
    /\ \E op \in Calls :
        /\ op.op \in Menu
        /\ op.op = "sync" => op.first <= op.last /\ op.data = nops + 1
        /\ call' = [call EXCEPT ![c] = op]
    /\ th' = [th EXCEPT ![c] = At("called", c)]
    /\ nops' = nops + 1
    /\ UNCHANGED <<inode, getting, queue, chan, ret, ref, applied, acked, submit>>

\* The answer to the call of one client.
Finish(c, a) ==
    /\ call' = [call EXCEPT ![c] = Idle]
    /\ ret' = [ret EXCEPT ![c] = a]
    /\ ref' = IF a.ok THEN AF!Effect(ref, call[c]) ELSE ref
    /\ UNCHANGED <<nops, acked, submit>>

\* The answer to all the syncs that the service manager processed together.
FinishSyncs(cs, over, ok) ==
    /\ call' = [c \in Clients |-> IF c \in cs THEN Idle ELSE call[c]]
    /\ ret' = [c \in Clients |-> IF c \in cs THEN Answer(ok) ELSE ret[c]]
    /\ ref' = IF ok THEN [ref EXCEPT !.ext = Overlay(@, over),
                                     !.size = Max2(@, ExtentSize(over))]
              ELSE ref
    /\ acked' = IF ok THEN acked \cup {call[c].data : c \in cs} ELSE acked
    /\ UNCHANGED <<nops, submit>>

\* The RM thread of a client starts to process a call, when it is done with the
\* previous one: the service manager may have answered a sync before.
Starts(c, op) == th[c] = At("called", c) /\ call[c].op = op /\ c \notin submit

\* A mistake: the loop over the requests ends before the last one.
MutServes(s, op) ==
    /\ th[s] = Ready
    /\ Len(queue[s]) > 1
    /\ Head(queue[s]).op = op
    /\ queue' = [queue EXCEPT ![s] = Tail(@)]

\* The service manager takes a request from its queue.
Serves(s, op) ==
    /\ th[s] = Ready
    /\ queue[s] # <<>>
    /\ Head(queue[s]).op = op
    /\ queue' = [queue EXCEPT ![s] = Tail(@)]

\* Either of the two executes an operation of the owner for client c.
AtOwner(t, op, c) ==
    \/ t = c /\ Starts(c, op) /\ Home[c] = Owner /\ UNCHANGED queue
    \/ t = Owner /\ Serves(t, op) /\ Head(queue[t]).who = c

\* The RM thread forwards its call to the owner.
Forwards(c, op) ==
    /\ Starts(c, op)
    /\ Home[c] # Owner
    /\ Send(Home[c], Owner, Request(op, c))
    /\ th' = [th EXCEPT ![c] = At("rpc", c)]
    /\ UNCHANGED <<inode, getting, queue, client, applied>>

\* A thread ends its work for client c, and the RM thread of c its wait.
Rest(t, c) == th' = [th EXCEPT ![t] = Ready, ![c] = Ready]

------------------------------------------------------------------------------
(* Create: unifyfs_invoke_metaset_rpc and sm_set_fileattr *)

CreateMsg == [op |-> "b_create"]

\* The RM thread creates the local inode first; an existing one is an error.
Create(c) ==
    /\ Starts(c, "create")
    /\ IF Home[c] \in ex
       THEN Finish(c, Answer(FALSE)) /\ Rest(c, c) /\ UNCHANGED <<inode, chan>>
       ELSE /\ NewInode(Home[c], FALSE, 0)
            /\ IF Home[c] = Owner
               THEN Broadcast(Owner, CreateMsg) /\ Finish(c, Answer(TRUE)) /\ Rest(c, c)
               ELSE /\ Send(Home[c], Owner, Request("create", c))
                    /\ th' = [th EXCEPT ![c] = At("rpc", c)]
                    /\ UNCHANGED client
    /\ UNCHANGED <<getting, queue, applied>>

\* process_metaset_rpc at the owner.
CreateAtOwner(c) ==
    /\ Serves(Owner, "create")
    /\ Head(queue[Owner]).who = c
    /\ IF Owner \in ex
       THEN Finish(c, Answer(FALSE)) /\ UNCHANGED <<inode, chan>>
       ELSE /\ NewInode(Owner, FALSE, 0)
            /\ Broadcast(Owner, CreateMsg)
            /\ Finish(c, Answer(TRUE))
    /\ Rest(c, c)
    /\ UNCHANGED <<getting, applied>>

\* A mistake: a duplicate create starts over.
MutCreateAtOther(s) ==
    /\ Serves(s, "b_create")
    /\ NewInode(s, FALSE, 0)
    /\ UNCHANGED <<getting, chan, th, client, applied>>

\* process_fileattr_bcast_rpc: duplicate creates are ignored.
CreateAtOther(s) ==
    /\ Serves(s, "b_create")
    /\ IF s \in ex THEN UNCHANGED inode ELSE NewInode(s, FALSE, 0)
    /\ UNCHANGED <<getting, chan, th, client, applied>>

------------------------------------------------------------------------------
(* Sync: rpc_fsync, process_pending_sync and the add_extents RPC *)

\* rpc_fsync: the extents become pending at the home server.  The inode is locked
\* after the lookup of is_laminated, but a lamination in between does not touch the
\* pending list, and ProcessSync looks the attribute up again.
Sync(c) ==
    /\ Starts(c, "sync")
    /\ IF Home[c] \notin ex \/ lam[Home[c]]
       THEN Finish(c, Answer(FALSE)) /\ Rest(c, c) /\ UNCHANGED pend
       ELSE /\ pend' = [pend EXCEPT ![Home[c]] =
                  [who |-> @.who \cup {c},
                   ext |-> Write(@.ext, call[c].first, call[c].last, call[c].data)]]
            /\ submit' = submit \cup {c}
            /\ th' = [th EXCEPT ![c] = At("sync", c)]
            /\ UNCHANGED <<call, ret, nops, ref, acked>>
    /\ UNCHANGED <<ex, lam, size, ext, getting, queue, chan, applied>>

\* Then the service manager is asked to process them.  It will also answer the
\* client, and may have done so already for another client's request.
SyncSubmit(c) ==
    /\ c \in submit
    /\ submit' = submit \ {c}
    /\ queue' = [queue EXCEPT ![Home[c]] = Append(@, [op |-> "sync"])]
    /\ UNCHANGED <<inode, getting, chan, th, call, ret, nops, ref, acked, applied>>

\* A mistake: the pending syncs of a laminated file are dropped without an answer.
MutProcessSync(s) ==
    /\ Serves(s, "sync")
    /\ pend' = [pend EXCEPT ![s] = NoPend]
    /\ th' = IF pend[s].who = {} \/ lam[s] THEN th
             ELSE [th EXCEPT ![s] = [pc |-> "add", who |-> pend[s].who, ext |-> pend[s].ext]]
    /\ UNCHANGED <<ex, lam, size, ext, getting, chan, client, applied>>

\* process_pending_sync: takes all pending syncs; nothing is left to do when an
\* earlier request took them, or when the inode is gone.  A laminated inode
\* rejects them; this is looked up before the inode is locked.
ProcessSync(s) ==
    /\ Serves(s, "sync")
    /\ pend' = [pend EXCEPT ![s] = NoPend]
    /\ \/ pend[s].who = {} /\ UNCHANGED <<th, client>>
       \/ /\ pend[s].who # {} /\ lam[s]
          /\ FinishSyncs(pend[s].who, Empty, FALSE)
          /\ th' = [t \in Threads |-> IF t \in pend[s].who THEN Ready ELSE th[t]]
       \/ /\ pend[s].who # {} /\ ~lam[s]
          /\ th' = [th EXCEPT ![s] = [pc |-> "add", who |-> pend[s].who, ext |-> pend[s].ext]]
          /\ UNCHANGED client
    /\ UNCHANGED <<ex, lam, size, ext, getting, chan, applied>>

\* The extents of the clients cs are added to the inode.
Added(s, over, cs) ==
    /\ AddExtents(s, over)
    /\ applied' = IF s = Owner THEN applied \cup {call[c].data : c \in cs} ELSE applied

\* A mistake: the clients are answered before the owner has the extents.
MutSyncAdd(s) ==
    /\ th[s].pc = "add"
    /\ Added(s, th[s].ext, th[s].who)
    /\ FinishSyncs(th[s].who, th[s].ext, TRUE)
    /\ th' = [t \in Threads |-> IF t \in th[s].who \cup {s} THEN Ready ELSE th[t]]
    /\ UNCHANGED <<getting, queue, chan>>

\* Syncs of clients whose home is the owner end here, the others go to the owner.
SyncAdd(s) ==
    /\ th[s].pc = "add"
    /\ Added(s, th[s].ext, th[s].who)
    /\ IF s = Owner
       THEN /\ FinishSyncs(th[s].who, th[s].ext, TRUE)
            /\ th' = [t \in Threads |-> IF t \in th[s].who \cup {s} THEN Ready ELSE th[t]]
            /\ UNCHANGED chan
       ELSE /\ Send(s, Owner, [op |-> "add", who |-> s, ext |-> th[s].ext])
            /\ th' = [th EXCEPT ![s].pc = "addrpc"]
            /\ UNCHANGED client
    /\ UNCHANGED <<getting, queue>>

\* The answer of the owner to server s, and of s to the clients.
SyncAnswer(s, ok) ==
    /\ FinishSyncs(th[s].who, th[s].ext, ok)
    /\ th' = [t \in Threads |-> IF t \in th[s].who \cup {s, Owner} THEN Ready ELSE th[t]]

\* process_add_extents_rpc at the owner, up to the lock of the inode.
AddAtOwner ==
    /\ Serves(Owner, "add")
    /\ LET m == Head(queue[Owner]) IN
       IF Owner \notin ex \/ lam[Owner]
       THEN SyncAnswer(m.who, FALSE)
       ELSE /\ th' = [th EXCEPT ![Owner] = [pc |-> "radd", who |-> m.who, ext |-> m.ext]]
            /\ UNCHANGED client
    /\ UNCHANGED <<inode, getting, chan, applied>>

AddAtOwnerEnd ==
    /\ th[Owner].pc = "radd"
    /\ Added(Owner, th[Owner].ext, th[th[Owner].who].who)
    /\ SyncAnswer(th[Owner].who, TRUE)
    /\ UNCHANGED <<getting, queue, chan>>

------------------------------------------------------------------------------
(* Truncate: unifyfs_invoke_truncate_rpc and sm_truncate *)

\* sm_truncate at the owner, in the RM thread or in the service manager: the old
\* size is looked up first.
Truncate(t, c) ==
    /\ AtOwner(t, "truncate", c)
    /\ IF Owner \notin ex
       THEN Finish(c, Answer(FALSE)) /\ Rest(t, c)
       ELSE /\ th' = [th EXCEPT ![t] = [pc |-> "truncate", who |-> c, old |-> size[Owner]]]
            /\ UNCHANGED client
    /\ UNCHANGED <<inode, getting, chan, applied>>

TruncateMsg(n) == [op |-> "b_truncate", size |-> n]

\* A mistake: the other servers are not told.
MutTruncateEnd(t) ==
    /\ th[t].pc = "truncate"
    /\ LET c == th[t].who IN
       IF Owner \notin ex \/ lam[Owner]
       THEN Finish(c, Answer(FALSE)) /\ Rest(t, c) /\ UNCHANGED inode
       ELSE TruncateInode(Owner, call[c].size) /\ Finish(c, Answer(TRUE)) /\ Rest(t, c)
    /\ UNCHANGED <<getting, queue, chan, applied>>

\* The inode is truncated; the other servers are told if the file got shorter
\* than its old size.
TruncateEnd(t) ==
    /\ th[t].pc = "truncate"
    /\ LET c == th[t].who IN
       /\ IF Owner \notin ex \/ lam[Owner]
          THEN Finish(c, Answer(FALSE)) /\ UNCHANGED <<inode, chan>>
          ELSE /\ TruncateInode(Owner, call[c].size)
               /\ IF call[c].size < th[t].old
                  THEN Broadcast(Owner, TruncateMsg(call[c].size))
                  ELSE UNCHANGED chan
               /\ Finish(c, Answer(TRUE))
       /\ Rest(t, c)
    /\ UNCHANGED <<getting, queue, applied>>

\* process_truncate_bcast_rpc
TruncateAtOther(s) ==
    /\ Serves(s, "b_truncate")
    /\ IF s \in ex /\ ~lam[s]
       THEN TruncateInode(s, Head(queue[s]).size)
       ELSE UNCHANGED inode
    /\ UNCHANGED <<getting, chan, th, client, applied>>

------------------------------------------------------------------------------
(* Laminate: unifyfs_invoke_laminate_rpc and sm_laminate *)

\* unifyfs_inode_laminate at the owner.
Laminate(t, c) ==
    /\ AtOwner(t, "laminate", c)
    /\ IF Owner \notin ex
       THEN Finish(c, Answer(FALSE)) /\ Rest(t, c) /\ UNCHANGED lam
       ELSE /\ lam' = [lam EXCEPT ![Owner] = TRUE]
            /\ th' = [th EXCEPT ![t] = At("laminate", c)]
            /\ UNCHANGED client
    /\ UNCHANGED <<ex, size, ext, pend, getting, chan, applied>>

\* unifyfs_invoke_broadcast_laminate: attributes and extents go to the others.
LaminateEnd(t) ==
    /\ th[t].pc = "laminate"
    /\ LET c == th[t].who IN
       /\ IF Owner \notin ex THEN Finish(c, Answer(FALSE)) ELSE Finish(c, Answer(TRUE))
       /\ Rest(t, c)
    /\ IF Owner \in ex /\ Shared THEN Broadcast(Owner, LaminateMsg) ELSE UNCHANGED chan
    /\ UNCHANGED <<inode, getting, queue, applied>>

\* process_laminate_bcast_rpc: the inode is created if there is none, gets the
\* extents unless it is laminated already, and then the attributes.
LaminateAtOther(s) ==
    /\ Serves(s, "b_laminate")
    /\ LET m == Head(queue[s])
           old == IF s \in ex THEN ext[s] ELSE Empty
       IN  /\ ex' = ex \cup {s}
           /\ ext' = [ext EXCEPT ![s] = IF s \in ex /\ lam[s] THEN old
                                        ELSE Overlay(old, m.ext)]
           /\ lam' = [lam EXCEPT ![s] = TRUE]
           /\ size' = [size EXCEPT ![s] = m.size]
    /\ UNCHANGED <<pend, getting, chan, th, client, applied>>

------------------------------------------------------------------------------
(* Unlink: rpc_unlink *)

\* The local inode goes, and a broadcast from here tells everybody else,
\* the owner included.
Unlink(c) ==
    /\ Starts(c, "unlink")
    /\ Destroy(Home[c])
    /\ Broadcast(Home[c], [op |-> "b_unlink"])
    /\ Finish(c, Answer(TRUE))
    /\ Rest(c, c)
    /\ UNCHANGED <<getting, queue, applied>>

\* process_unlink_bcast_rpc
UnlinkAtOther(s) ==
    /\ Serves(s, "b_unlink")
    /\ Destroy(s)
    /\ UNCHANGED <<getting, chan, th, client, applied>>

------------------------------------------------------------------------------
(* Read: unifyfs_invoke_find_extents_rpc *)

\* The owner, and a server where the file is laminated, use their own extents.
ReadLocal(c) ==
    /\ Starts(c, "read")
    /\ Home[c] \in ex
    /\ Home[c] = Owner \/ (Shared /\ lam[Home[c]])
    /\ Finish(c, AnswerExt(ext[Home[c]]))
    /\ Rest(c, c)
    /\ UNCHANGED <<inode, getting, queue, chan, applied>>

\* The others ask the owner; so does the owner itself if it has no inode.
ReadRemote(c) ==
    /\ Starts(c, "read")
    /\ ~(Home[c] \in ex /\ (Home[c] = Owner \/ (Shared /\ lam[Home[c]])))
    /\ Send(Home[c], Owner, Request("read", c))
    /\ th' = [th EXCEPT ![c] = At("rpc", c)]
    /\ UNCHANGED <<inode, getting, queue, client, applied>>

\* process_find_extents_rpc
ReadAtOwner(c) ==
    /\ Serves(Owner, "read")
    /\ Head(queue[Owner]).who = c
    /\ Finish(c, IF Owner \in ex THEN AnswerExt(ext[Owner]) ELSE Answer(FALSE))
    /\ Rest(c, c)
    /\ UNCHANGED <<inode, getting, chan, applied>>

------------------------------------------------------------------------------
(* File size: unifyfs_invoke_filesize_rpc *)

LocalSize(s) == IF s \in ex THEN AnswerSize(size[s]) ELSE Answer(FALSE)

\* The owner, and a server where the file is laminated, know the size.
SizeLocal(c) ==
    /\ Starts(c, "size")
    /\ Home[c] = Owner \/ (Home[c] \in ex /\ lam[Home[c]])
    /\ Finish(c, LocalSize(Home[c]))
    /\ Rest(c, c)
    /\ UNCHANGED <<inode, getting, queue, chan, applied>>

\* The others ask the owner, one thread at a time; "need" says that there is no
\* local inode yet.
SizeRemote(c) ==
    /\ Starts(c, "size")
    /\ Home[c] # Owner /\ ~(Home[c] \in ex /\ lam[Home[c]])
    /\ IF Home[c] \in getting
       THEN /\ th' = [th EXCEPT ![c] = At("poll", c)]
            /\ UNCHANGED <<getting, chan>>
       ELSE /\ getting' = getting \cup {Home[c]}
            /\ Send(Home[c], Owner, Request("size", c))
            /\ th' = [th EXCEPT ![c] = [pc |-> "rpc", who |-> c, need |-> Home[c] \notin ex]]
    /\ UNCHANGED <<inode, queue, client, applied>>

\* process_metaget_rpc
SizeAtOwner(c) ==
    /\ Serves(Owner, "size")
    /\ Head(queue[Owner]).who = c
    /\ th' = [th EXCEPT ![c] = [pc |-> "attr", who |-> c, need |-> @.need,
                                ok |-> Owner \in ex, lam |-> lam[Owner],
                                size |-> size[Owner]]]
    /\ UNCHANGED <<inode, getting, chan, client, applied>>

\* The attributes that the owner sent are stored if there was no local inode
\* (sm_set_fileattr with CREATE, which an inode created meanwhile ignores); an
\* existing inode only gets new times.
SizeEnd(c) ==
    /\ th[c].pc = "attr"
    /\ IF th[c].ok /\ th[c].need /\ Home[c] \notin ex
       THEN NewInode(Home[c], th[c].lam, th[c].size)
       ELSE UNCHANGED inode
    /\ getting' = getting \ {Home[c]}
    /\ Finish(c, IF th[c].ok THEN AnswerSize(th[c].size) ELSE Answer(FALSE))
    /\ Rest(c, c)
    /\ UNCHANGED <<queue, chan, applied>>

\* A thread that found a metaget pending takes the local attributes afterwards.
SizePoll(c) ==
    /\ th[c] = At("poll", c)
    /\ Home[c] \notin getting
    /\ Finish(c, LocalSize(Home[c]))
    /\ Rest(c, c)
    /\ UNCHANGED <<inode, getting, queue, chan, applied>>

------------------------------------------------------------------------------
RequestManager(c) ==
    \/ Create(c) \/ Sync(c) \/ SyncSubmit(c) \/ Unlink(c) \/ ReadLocal(c) \/ ReadRemote(c)
    \/ SizeLocal(c) \/ SizeRemote(c) \/ SizeEnd(c) \/ SizePoll(c)
    \/ Forwards(c, "truncate") \/ Forwards(c, "laminate")
    \/ Truncate(c, c) \/ TruncateEnd(c) \/ Laminate(c, c) \/ LaminateEnd(c)

ServiceManager(s) ==
    \/ ProcessSync(s) \/ SyncAdd(s)
    \/ CreateAtOther(s) \/ TruncateAtOther(s) \/ LaminateAtOther(s) \/ UnlinkAtOther(s)
    \/ /\ s = Owner
       /\ \/ AddAtOwner \/ AddAtOwnerEnd \/ TruncateEnd(s) \/ LaminateEnd(s)
          \/ \E c \in Clients : \/ CreateAtOwner(c) \/ Truncate(s, c) \/ Laminate(s, c)
                               \/ ReadAtOwner(c) \/ SizeAtOwner(c)

Next == \/ \E c \in Clients : Call(c) \/ RequestManager(c)
        \/ \E s \in Servers : ServiceManager(s)
        \/ \E s, d \in Servers : Deliver(s, d)

Spec == Init /\ [][Next]_vars

\* Every thread keeps running and every request is delivered; calls are made at will.
Fairness ==
    /\ \A c \in Clients : WF_vars(RequestManager(c))
    /\ \A s \in Servers : WF_vars(ServiceManager(s))
    /\ \A s, d \in Servers : WF_vars(Deliver(s, d))

FairSpec == Spec /\ Fairness

------------------------------------------------------------------------------
(* Properties *)

ThreadStates == {"idle", "called", "rpc", "sync", "truncate", "laminate", "attr", "poll",
                 "add", "addrpc", "radd"}

\* Type invariant of the metadata service.
TypeOK ==
    /\ ex \subseteq Servers
    /\ lam \in [Servers -> BOOLEAN]
    /\ size \in [Servers -> Sizes]
    /\ ext \in [Servers -> Contents]
    /\ pend \in [Servers -> [who : SUBSET Clients, ext : Contents]]
    /\ getting \subseteq Servers
    /\ submit \subseteq Clients
    /\ \A t \in Threads : th[t].pc \in ThreadStates
    /\ call \in [Clients -> Calls \cup {Idle}]
    /\ ret \in [Clients -> Results]
    /\ ref \in AF!File
    /\ nops \in 0 .. MaxOps
    /\ applied \subseteq Data /\ acked \subseteq Data

\* In a program that makes one call at a time, with the broadcasts of each call
\* arrived before the next one, the servers behave like one copy of the file:
\* every call returns what AtomicFile says, whatever server it was made at.
ImplementsAtomicFile == AF!Spec

NoCall == \A c \in Clients : call[c] = Idle

\* Commit consistency: in a program that makes one call at a time, the owner's
\* inode is the file that the calls define, although broadcasts are under way.
OwnerIsCommitted ==
    (NoCall /\ ref.exists) =>
        /\ Owner \in ex
        /\ lam[Owner] = ref.lam /\ size[Owner] = ref.size /\ ext[Owner] = ref.ext

ReadReturns(c) == call[c].op = "read" /\ call'[c] = Idle /\ ret'[c].ok

\* In such a program a read at any server where the file is not laminated sees
\* everything that was synced and nothing that was truncated, before the
\* broadcasts arrive (docs/assumptions.rst: truncation is synchronizing).
ReadsSeeSyncs ==
    [][\A c \in Clients :
        (ReadReturns(c) /\ ~lam[Home[c]]) => ret'[c].ext = ref.ext]_vars

\* No sync is forgotten: a client that waits for its sync is in the pending list
\* of its server and a request to process the list is queued or will be (rpc_fsync
\* adds to the list before it queues the request, and the request of one client
\* may take the syncs of all), or the service manager is working on it.
NoSyncForgotten ==
    \A c \in Clients : th[c].pc = "sync" =>
        LET h == Home[c] IN
        \/ /\ c \in pend[h].who
           /\ c \in submit \/ \E i \in 1 .. Len(queue[h]) : queue[h][i].op = "sync"
        \/ th[h].pc \in {"add", "addrpc"} /\ c \in th[h].who

\* A server never takes a lamination back: the is_laminated attribute of an
\* inode stays set until the file is unlinked, late broadcasts or not.
LaminationSticks ==
    [][\A s \in Servers : (s \in ex /\ lam[s] /\ s \in ex') => lam'[s]]_vars

\* A sync that returned success was added to the owner's inode, also when the
\* service manager processed several of them together (process_pending_sync).
AckedAtOwner == acked \subseteq applied

\* Every call returns: no thread waits for an answer that nobody gives.
CallsReturn == \A c \in Clients : (call[c] # Idle) ~> (call[c] = Idle)
=============================================================================
