------------------------------ MODULE Requests ------------------------------
(* The remote calls of the clients of one server, from the library of the    *)
(* client (client/src/margo_client.c) through the handlers of the server     *)
(* (server/src/unifyfs_client_rpc.c) and the request manager thread of each  *)
(* client (unifyfs_request_manager.c) to the response, and the life of a     *)
(* client on the server (unifyfs_server.c): mount, attach, heartbeats,       *)
(* failure, unmount, and the exit of the server.                             *)
(*                                                                           *)
(* A handle is the number of a call of a client; call 0 is the request that  *)
(* the server queues itself, without a handle, to create the mountpoint.     *)
(* What a call does to files is the subject of other modules; here an owner  *)
(* is this server or a peer, and the peer answers or the wait for it fails.  *)
EXTENDS Integers, Sequences, FiniteSets

CONSTANTS Clients,      \* the processes that may mount
          Creator,      \* the client that mounts first in jobs that mount in turn
          MaxCalls,     \* bound on the calls of a client between attach and unmount
          Jobs          \* the jobs considered, see JobsOK

\* A job: the calls of each client between attach and unmount (a client without
\* an entry never starts), whether the files are owned by the peer, how many
\* clients an application may have, whether the clients mount in turn, and the
\* one thing that goes wrong.
Kinds == {"metaset", "metaget", "filesize", "transfer", "truncate", "unlink", "laminate",
          "fsync", "mread", "node_local_extents_get", "get_gfids"}
Faults == {"none", "input", "thread", "attach", "peer", "timeout", "die", "slow", "stop"}
JobsOK == \A j \in Jobs :
    /\ DOMAIN j = {"prog", "far", "cap", "turns", "fault"}
    /\ DOMAIN j.prog \subseteq Clients
    /\ \A c \in DOMAIN j.prog : j.prog[c] \in Seq(Kinds) /\ Len(j.prog[c]) <= MaxCalls
    /\ j.far \in BOOLEAN /\ j.cap \in Nat \ {0} /\ j.turns \in BOOLEAN /\ j.fault \in Faults

ASSUME JobsAssumption == Creator \in Clients /\ MaxCalls \in Nat /\ JobsOK

VARIABLES job,          \* the job, never changed
          faulty,       \* the fault has not happened yet
          \* the clients
          cli,          \* "off", "idle", "wait", "pull", "over", "failed", "dead"
          at,           \* calls made
          got,          \* the list pulled from the server: "none", "list", "stale"
          told,         \* the unlink callback has been received
          \* between client and server
          net,          \* handles on their way to the server
          answers,      \* responses sent for each handle
          okay,         \* handles answered with success
          buffers,      \* handles whose response names a buffer that still exists
          \* the server
          app,          \* the application exists
          nclients,     \* app->num_clients
          mounting,     \* mounts that have passed the check of the number of clients
          slot,         \* structure of each client: "none", "new", "live", "down", "gone"
          rm,           \* request manager: [pc, attached, exit]
          q, batch,     \* requests queued, and requests taken by the thread
          cbs,          \* unlink callbacks queued for the client
          wrote,        \* clients with extents in the inode of the file
          dir,          \* the mountpoint has attributes
          due,          \* the heartbeat interval has passed
          failed,       \* failed_clients
          main,         \* the main thread: [pc, who, cur]
          joining,      \* handles of unmounts that wait for the thread
          svc,          \* syncs queued at the service manager
          peernet,      \* requests of this server on their way to the peer
          peerq,        \* and in the queue of its service manager
          replies       \* requests the peer has answered

cliVars == <<cli, at, got, told>>
netVars == <<net, answers, okay, buffers>>
appVars == <<app, nclients, mounting, slot>>
rmVars == <<rm, q, batch, cbs>>
fileVars == <<wrote, dir>>
mainVars == <<due, failed, main, joining>>
svcVars == <<svc, peernet, peerq, replies>>
reqVars == <<job, faulty, cliVars, netVars, appVars, rmVars, fileVars, mainVars, svcVars>>

Started == DOMAIN job.prog
Calls(c) == <<"mount", "attach">> \o job.prog[c] \o <<"unmount">>
Kind(h) == IF h[2] = 0 THEN "metaset" ELSE Calls(h[1])[h[2]]
Handles == Clients \X (1 .. MaxCalls + 3)

\* The fault of the job happens, once.
Fault(f) == job.fault = f /\ faulty /\ faulty' = FALSE
NoFault == UNCHANGED faulty

NoThread == [pc |-> "none", attached |-> FALSE, exit |-> FALSE]

ReqInit ==
    /\ job \in Jobs /\ faulty = TRUE
    /\ cli = [c \in Clients |-> "off"] /\ at = [c \in Clients |-> 0]
    /\ got = [c \in Clients |-> "none"] /\ told = [c \in Clients |-> FALSE]
    /\ net = {} /\ answers = [h \in Handles |-> 0] /\ okay = {} /\ buffers = {}
    /\ app = FALSE /\ nclients = 0 /\ mounting = {} /\ slot = [c \in Clients |-> "none"]
    /\ rm = [c \in Clients |-> NoThread]
    /\ q = [c \in Clients |-> <<>>] /\ batch = [c \in Clients |-> <<>>]
    /\ cbs = [c \in Clients |-> 0] /\ wrote = {} /\ dir = FALSE
    /\ due = FALSE /\ failed = {} /\ main = [pc |-> "loop", who |-> {}, cur |-> Creator] /\ joining = {}
    /\ svc = <<>> /\ peernet = {} /\ peerq = <<>> /\ replies = {}

-----------------------------------------------------------------------------
(* The client library.                                                       *)

Alive(c) == cli[c] # "dead"

\* The next call of c is k, and it is forwarded to the server.
Forward(c, k) ==
    /\ c \in Started /\ cli[c] = "idle" /\ at[c] < Len(Calls(c)) /\ Calls(c)[at[c] + 1] = k
    /\ at' = [at EXCEPT ![c] = @ + 1] /\ cli' = [cli EXCEPT ![c] = "wait"]
    /\ net' = net \cup {<<c, at[c] + 1>>}
    /\ UNCHANGED <<job, faulty, got, told, answers, okay, buffers,
                   appVars, rmVars, fileVars, mainVars, svcVars>>

\* The library is loaded: the first call is mount.  In jobs that mount in turn
\* the others start when the creator has mounted.
unifyfs_client_rpc_init(c) ==
    /\ c \in Started /\ cli[c] = "off"
    /\ job.turns /\ c # Creator => at[Creator] > 1
    /\ cli' = [cli EXCEPT ![c] = "idle"]
    /\ UNCHANGED <<job, faulty, at, got, told, netVars, appVars, rmVars, fileVars, mainVars, svcVars>>

invoke_client_mount_rpc(c) == Forward(c, "mount")
invoke_client_attach_rpc(c) == Forward(c, "attach")
invoke_client_unmount_rpc(c) == Forward(c, "unmount")
invoke_client_metaset_rpc(c) == Forward(c, "metaset")
invoke_client_metaget_rpc(c) == Forward(c, "metaget")
invoke_client_filesize_rpc(c) == Forward(c, "filesize")
invoke_client_transfer_rpc(c) == Forward(c, "transfer")
invoke_client_truncate_rpc(c) == Forward(c, "truncate")
invoke_client_unlink_rpc(c) == Forward(c, "unlink")
invoke_client_laminate_rpc(c) == Forward(c, "laminate")
invoke_client_sync_rpc(c) == Forward(c, "fsync")
invoke_client_mread_rpc(c) == Forward(c, "mread")
invoke_client_node_local_extents_get_rpc(c) == Forward(c, "node_local_extents_get")
invoke_client_get_gfids_rpc(c) == Forward(c, "get_gfids")

\* Where the client goes when a call is over: initialisation gives up after a
\* failed mount or attach, and unmount ends the session.
After(c, ok) ==
    IF Kind(<<c, at[c]>>) \in {"mount", "attach"} /\ ~ok THEN "failed"
    ELSE IF Kind(<<c, at[c]>>) = "unmount" THEN "over" ELSE "idle"

\* The response arrives.  Two calls then pull a list from the memory of the server.
Pulls(h) == Kind(h) \in {"node_local_extents_get", "get_gfids"} /\ h \in okay
margo_forward_timed(c) ==
    LET h == <<c, at[c]>> IN
    /\ cli[c] = "wait" /\ answers[h] > 0
    /\ cli' = [cli EXCEPT ![c] = IF Pulls(h) THEN "pull" ELSE After(c, h \in okay)]
    /\ UNCHANGED <<job, faulty, at, got, told, netVars, appVars, rmVars, fileVars, mainVars, svcVars>>

\* What is pulled is the list only while the server has not freed it.
pull_margo_bulk_buffer(c) ==
    /\ cli[c] = "pull"
    /\ got' = [got EXCEPT ![c] = IF <<c, at[c]>> \in buffers THEN "list" ELSE "stale"]
    /\ cli' = [cli EXCEPT ![c] = "idle"]
    /\ UNCHANGED <<job, faulty, at, told, netVars, appVars, rmVars, fileVars, mainVars, svcVars>>

\* No response within the timeout: the call fails.
ForwardTimeout(c) ==
    /\ cli[c] = "wait" /\ answers[<<c, at[c]>>] = 0
    /\ \/ Fault("timeout")
       \/ NoFault /\ ~faulty /\ job.fault \in {"peer", "slow", "stop"}
    /\ cli' = [cli EXCEPT ![c] = After(c, FALSE)]
    /\ UNCHANGED <<job, at, got, told, netVars, appVars, rmVars, fileVars, mainVars, svcVars>>

\* The process of a client ends without unmount.
Die(c) ==
    /\ Fault("die") /\ cli[c] \in {"idle", "wait"} /\ at[c] > 1
    /\ cli' = [cli EXCEPT ![c] = "dead"]
    /\ UNCHANGED <<job, at, got, told, netVars, appVars, rmVars, fileVars, mainVars, svcVars>>

\* Mutant: a client is known only after it has attached.
MutHeartbeatRpc(c) == Alive(c) /\ cli[c] # "failed" /\ at[c] > 2

\* The client answers a heartbeat with success when it is alive and has mounted
\* (it is registered before it attaches).
unifyfs_heartbeat_rpc(c) == Alive(c) /\ cli[c] # "failed" /\ at[c] > 1

-----------------------------------------------------------------------------
(* Handlers of the server.  The applications are guarded by one lock, which  *)
(* the main thread keeps during the whole clean-up at exit.                  *)

LockFree == main.pc \notin {"exit", "exitjoin"}
Up == main.pc # "gone"

\* The structure of the client is in the table.
Found(c) == LockFree /\ slot[c] \in {"new", "live", "down"}
NotFound(c) == LockFree /\ slot[c] \in {"none", "gone"}

\* A response, with or without success.
Answer(h, ok) ==
    /\ answers' = [answers EXCEPT ![h] = @ + 1]
    /\ okay' = IF ok THEN okay \cup {h} ELSE okay

rm_submit_client_rpc_request(h) == q' = [q EXCEPT ![h[1]] = Append(@, h)]

\* The handler of every call that is passed to the request manager of its client:
\* the input (and for two calls an array of extents) is read and the request is
\* appended to the list; what fails is answered here.
Handler(k) == \E h \in net :
    /\ Up /\ Kind(h) = k /\ net' = net \ {h}
    /\ \/ Fault("input") /\ Answer(h, FALSE) /\ UNCHANGED <<q, buffers>>
       \/ NoFault /\ NotFound(h[1]) /\ Answer(h, FALSE) /\ UNCHANGED <<q, buffers>>
       \/ /\ NoFault /\ Found(h[1])
          /\ rm_submit_client_rpc_request(h) /\ UNCHANGED <<answers, okay, buffers>>
    /\ UNCHANGED <<job, cliVars, appVars, rm, batch, cbs, fileVars, mainVars, svcVars>>

unifyfs_attach_rpc == Handler("attach")
unifyfs_metaset_rpc == Handler("metaset")
unifyfs_metaget_rpc == Handler("metaget")
unifyfs_filesize_rpc == Handler("filesize")
unifyfs_transfer_rpc == Handler("transfer")
unifyfs_truncate_rpc == Handler("truncate")
unifyfs_unlink_rpc == Handler("unlink")
unifyfs_laminate_rpc == Handler("laminate")
unifyfs_fsync_rpc == Handler("fsync")
unifyfs_mread_rpc == Handler("mread")
unifyfs_node_local_extents_get_rpc == Handler("node_local_extents_get")
unifyfs_get_gfids_rpc == Handler("get_gfids")

new_application == app' = TRUE

\* Mount: the application is created by the first client, and there is room for
\* another client in it.  The check is made without the lock.
unifyfs_mount_rpc == \E h \in net :
    /\ Up /\ LockFree /\ Kind(h) = "mount" /\ net' = net \ {h}
    /\ \/ Fault("input") /\ Answer(h, FALSE) /\ UNCHANGED <<app, mounting>>
       \/ /\ NoFault /\ new_application
          /\ \/ nclients = job.cap /\ Answer(h, FALSE) /\ UNCHANGED mounting
             \/ /\ nclients # job.cap /\ mounting' = mounting \cup {[h |-> h, creates |-> ~app]}
                /\ UNCHANGED <<answers, okay>>
    /\ UNCHANGED <<job, cliVars, buffers, nclients, slot, rmVars, fileVars, mainVars, svcVars>>

\* The client gets a structure and a thread; the creator of the application also
\* queues the request that creates the mountpoint directory.
unifyfs_rm_thrd_create == [pc |-> "cb", attached |-> FALSE, exit |-> FALSE]
create_mountpoint_dir(c) == <<<<c, 0>>>>
new_app_client == \E m \in mounting : LET c == m.h[1] IN
    /\ LockFree /\ mounting' = mounting \ {m}
    /\ \/ Fault("thread") /\ Answer(m.h, FALSE) /\ UNCHANGED <<nclients, slot, rm, q>>
       \/ /\ NoFault /\ Answer(m.h, TRUE)
          /\ nclients' = nclients + 1 /\ slot' = [slot EXCEPT ![c] = "new"]
          /\ rm' = [rm EXCEPT ![c] = unifyfs_rm_thrd_create]
          /\ q' = [q EXCEPT ![c] = IF m.creates THEN create_mountpoint_dir(c) ELSE <<>>]
    /\ UNCHANGED <<job, cliVars, net, buffers, app, batch, cbs, fileVars, mainVars, svcVars>>

\* Unmount: a client that is attached is disconnected, which waits for its thread.
unifyfs_unmount_rpc == \E h \in net : LET c == h[1] IN
    /\ Up /\ Kind(h) = "unmount" /\ net' = net \ {h}
    /\ \/ Fault("input") /\ Answer(h, FALSE) /\ UNCHANGED <<slot, rm, joining>>
       \/ NoFault /\ NotFound(c) /\ Answer(h, FALSE) /\ UNCHANGED <<slot, rm, joining>>
       \/ /\ NoFault /\ Found(c) /\ slot[c] # "live"
          /\ Answer(h, TRUE) /\ UNCHANGED <<slot, rm, joining>>
       \/ /\ NoFault /\ Found(c) /\ slot[c] = "live" /\ slot' = [slot EXCEPT ![c] = "down"]
          /\ rm' = [rm EXCEPT ![c].exit = TRUE]
          /\ joining' = joining \cup {h} /\ UNCHANGED <<answers, okay>>
    /\ UNCHANGED <<job, cliVars, buffers, app, nclients, mounting, q, batch, cbs, fileVars,
                   due, failed, main, svcVars>>

\* The thread has ended: the address and the shared memory are released.
disconnect_app_client == \E h \in joining :
    /\ rm[h[1]].pc \in {"exited", "none"} /\ joining' = joining \ {h} /\ Answer(h, TRUE)
    /\ UNCHANGED <<job, faulty, cliVars, net, buffers, appVars, rmVars, fileVars,
                   due, failed, main, svcVars>>

-----------------------------------------------------------------------------
(* The request manager thread of a client: callbacks, requests, a wait of at *)
(* most 10 ms (so that a lost signal only delays), the heartbeat, and the    *)
(* test of the exit flag, over and over.                                     *)

Runs(c, pc) == rm[c].pc = pc
Goto(c, pc) == rm' = [rm EXCEPT ![c].pc = pc]

\* All callbacks are taken, duplicates count once, and the client is told: it marks
\* its file if it still runs.
unifyfs_unlink_callback_rpc(c) == told' = [told EXCEPT ![c] = TRUE]
invoke_client_unlink_callback_rpc(c) ==
    IF unifyfs_heartbeat_rpc(c) THEN unifyfs_unlink_callback_rpc(c) ELSE UNCHANGED told
rm_process_client_callbacks(c) ==
    /\ Runs(c, "cb") /\ Goto(c, "req") /\ cbs' = [cbs EXCEPT ![c] = 0]
    /\ \/ cbs[c] = 0 /\ UNCHANGED told
       \/ cbs[c] > 0 /\ LockFree /\ invoke_client_unlink_callback_rpc(c)
    /\ UNCHANGED <<job, faulty, cli, at, got, netVars, appVars, q, batch, fileVars, mainVars, svcVars>>

\* Mutant: the list is replaced, but only its first request is served.
MutProcessRequests(c) ==
    /\ Runs(c, "req") /\ Goto(c, IF q[c] = <<>> THEN "beat" ELSE "work")
    /\ batch' = [batch EXCEPT ![c] = IF Len(q[c]) > 1 THEN <<q[c][1]>> ELSE q[c]] /\ q' = [q EXCEPT ![c] = <<>>]
    /\ UNCHANGED <<job, faulty, cliVars, netVars, appVars, cbs, fileVars, mainVars, svcVars>>

\* All requests are taken, and served in order.
rm_process_client_requests(c) ==
    /\ Runs(c, "req") /\ Goto(c, IF q[c] = <<>> THEN "beat" ELSE "work")
    /\ batch' = [batch EXCEPT ![c] = q[c]] /\ q' = [q EXCEPT ![c] = <<>>]
    /\ UNCHANGED <<job, faulty, cliVars, netVars, appVars, cbs, fileVars, mainVars, svcVars>>

\* The first request of c is of kind k and is worked on.
Serving(c, k) == Runs(c, "work") /\ Kind(batch[c][1]) = k
Hdl(c) == batch[c][1]
\* The request is done, and the thread takes the next one.
Done(c) == /\ batch' = [batch EXCEPT ![c] = Tail(@)]
           /\ Goto(c, IF Len(batch[c]) = 1 THEN "beat" ELSE "work")

\* The owner is asked: a request of this server in the queue of the peer, for which
\* the thread waits.
forward_p2p_request(c) ==
    /\ peernet' = peernet \cup {Hdl(c)} /\ Goto(c, "owner") /\ UNCHANGED <<svc, peerq, replies, batch>>

\* What the handle gets when the work is done: nothing without a handle, and a list
\* of gfids that could not be collected is not answered at all.
Respond(c, ok) ==
    LET h == Hdl(c) IN
    IF h[2] = 0 THEN dir' = (dir \/ ok) /\ UNCHANGED <<answers, okay, buffers>>
    ELSE IF Kind(h) = "get_gfids" /\ ~ok THEN UNCHANGED <<answers, okay, buffers, dir>>
    ELSE /\ Answer(h, ok) /\ UNCHANGED dir
         /\ buffers' = IF ok /\ Kind(h) \in {"node_local_extents_get", "get_gfids"}
                       THEN buffers \cup {h} ELSE buffers

\* After the response the thread frees the list that the client is to pull.
Finish(c, ok) ==
    /\ Respond(c, ok)
    /\ IF ok /\ Hdl(c)[2] # 0 /\ Kind(Hdl(c)) \in {"node_local_extents_get", "get_gfids"}
       THEN Goto(c, "free") /\ UNCHANGED batch ELSE Done(c)

FreeList(c) ==
    /\ Runs(c, "free") /\ buffers' = buffers \ {Hdl(c)} /\ Done(c)
    /\ UNCHANGED <<job, faulty, cliVars, net, answers, okay, appVars, q, cbs, fileVars, mainVars, svcVars>>

\* A request that the owner of the file carries out: here, or at the peer.
AtOwner(c, k) ==
    /\ Serving(c, k)
    /\ \/ ~job.far /\ Finish(c, TRUE) /\ UNCHANGED svcVars
       \/ job.far /\ forward_p2p_request(c) /\ UNCHANGED <<answers, okay, buffers, dir>>
    /\ UNCHANGED <<job, faulty, cliVars, net, appVars, q, cbs, wrote, mainVars>>

process_metaget_rpc(c) == AtOwner(c, "metaget")
process_metaset_rpc(c) == AtOwner(c, "metaset")
process_filesize_rpc(c) == AtOwner(c, "filesize")
process_truncate_rpc(c) == AtOwner(c, "truncate")
process_laminate_rpc(c) == AtOwner(c, "laminate")
process_transfer_rpc(c) == AtOwner(c, "transfer")
process_node_local_extents_get_rpc(c) == AtOwner(c, "node_local_extents_get")
process_get_gfids(c) == AtOwner(c, "get_gfids")

\* A read looks up its client first.
process_read_rpc(c) == LockFree /\ AtOwner(c, "mread")

\* The inode is removed here, which queues a callback for every client of this
\* server that has extents in it, and then on the other servers.
rm_submit_client_callback_request(D) == cbs' = [d \in Clients |-> IF d \in D THEN cbs[d] + 1 ELSE cbs[d]]
unifyfs_inode_destroy == rm_submit_client_callback_request({d \in wrote : Found(d)})
process_unlink_rpc(c) ==
    /\ LockFree /\ Serving(c, "unlink") /\ unifyfs_inode_destroy /\ wrote' = {}
    /\ \/ ~job.far /\ Finish(c, TRUE) /\ UNCHANGED svcVars
       \/ job.far /\ forward_p2p_request(c) /\ UNCHANGED <<answers, okay, buffers, dir>>
    /\ UNCHANGED <<job, faulty, cliVars, net, appVars, q, mainVars>>

attach_app_client(c) == slot' = [slot EXCEPT ![c] = "live"]

\* The client is attached: its log and its shared memory are opened.
process_attach_rpc(c) ==
    /\ Serving(c, "attach") /\ LockFree
    /\ \E ok \in BOOLEAN :
        /\ IF ok THEN NoFault ELSE Fault("attach")
        /\ IF ok THEN attach_app_client(c) ELSE UNCHANGED slot
        /\ batch' = [batch EXCEPT ![c] = Tail(@)]
        /\ rm' = [rm EXCEPT ![c].attached = ok, ![c].pc = IF Len(batch[c]) = 1 THEN "beat" ELSE "work"]
        /\ Answer(Hdl(c), ok)
    /\ UNCHANGED <<job, cliVars, net, buffers, app, nclients, mounting, q, cbs, fileVars, mainVars, svcVars>>

\* Mutant: a sync is answered when it is submitted, and again when it is done.
MutFsync(c) ==
    /\ Serving(c, "fsync") /\ LockFree /\ svc' = Append(svc, Hdl(c)) /\ Answer(Hdl(c), TRUE) /\ Done(c)
    /\ UNCHANGED <<job, faulty, cliVars, net, buffers, appVars, q, cbs, fileVars, mainVars, peernet, peerq, replies>>

\* A sync is passed to the service manager, which answers it.
process_fsync_rpc(c) ==
    /\ Serving(c, "fsync") /\ LockFree /\ svc' = Append(svc, Hdl(c)) /\ Done(c)
    /\ UNCHANGED <<job, faulty, cliVars, netVars, appVars, q, cbs, fileVars, mainVars, peernet, peerq, replies>>

\* The wait for the peer ends, with its answer or with an error.  A lookup of
\* extents that fails leaves the list of extents empty and is not an error.
wait_for_p2p_request(c) ==
    /\ Runs(c, "owner")
    /\ \/ NoFault /\ Hdl(c) \in replies /\ replies' = replies \ {Hdl(c)} /\ Finish(c, TRUE)
       \/ Fault("peer") /\ Finish(c, Kind(Hdl(c)) = "node_local_extents_get") /\ UNCHANGED replies
    /\ UNCHANGED <<job, cliVars, net, appVars, q, cbs, wrote, mainVars, svc, peernet, peerq>>

\* Mutant: the exit flag is tested only when there was a heartbeat to send.
MutHeartbeat(c) ==
    /\ Runs(c, "beat")
    /\ \/ /\ ~(due /\ rm[c].attached) /\ NoFault
          /\ Goto(c, "cb") /\ UNCHANGED <<due, failed>>
       \/ /\ due /\ rm[c].attached /\ LockFree /\ due' = FALSE /\ NoFault
          /\ rm' = [rm EXCEPT ![c].pc = IF rm[c].exit THEN "exited" ELSE "cb"] /\ UNCHANGED failed
    /\ UNCHANGED <<job, cliVars, netVars, appVars, q, batch, cbs, fileVars, main, joining, svcVars>>

invoke_client_heartbeat_rpc(c) == unifyfs_heartbeat_rpc(c)
add_failed_client(c) == failed' = failed \cup {c}

\* The heartbeat: one timer for all threads, so the first to see that the interval
\* has passed sends one to its client.  A client that does not answer is put on the
\* list of failed clients and its thread ends; else it ends when it was told to.
rm_heartbeat(c) ==
    /\ Runs(c, "beat")
    /\ \/ /\ ~(due /\ rm[c].attached) /\ NoFault
          /\ Goto(c, IF rm[c].exit THEN "exited" ELSE "cb") /\ UNCHANGED <<due, failed>>
       \/ /\ due /\ rm[c].attached /\ LockFree /\ due' = FALSE
          /\ \E ok \in BOOLEAN :
              /\ IF ok = invoke_client_heartbeat_rpc(c) THEN NoFault ELSE ~ok /\ Fault("slow")
              /\ IF ok \/ NotFound(c) THEN UNCHANGED failed ELSE add_failed_client(c)
              /\ rm' = [rm EXCEPT ![c].exit = @ \/ ~ok,
                                  ![c].pc = IF rm[c].exit \/ ~ok THEN "exited" ELSE "cb"]
    /\ UNCHANGED <<job, cliVars, netVars, appVars, q, batch, cbs, fileVars, main, joining, svcVars>>

\* Thirty seconds pass.
Interval ==
    /\ ~due /\ (\E c \in Clients : rm[c].attached /\ rm[c].pc # "exited") /\ due' = TRUE
    /\ UNCHANGED <<job, faulty, cliVars, netVars, appVars, rmVars, fileVars, failed, main, joining, svcVars>>

-----------------------------------------------------------------------------
(* The service managers: the syncs of this server, and the peer, which       *)
(* serves the requests of this server in order.                              *)

process_pending_sync ==
    /\ svc # <<>> /\ main.pc \in {"loop", "clean", "join"} /\ svc' = Tail(svc)
    /\ \E ok \in BOOLEAN :
        /\ IF ok THEN NoFault ELSE job.far /\ Fault("peer")
        /\ Answer(Head(svc), ok) /\ wrote' = wrote \cup {Head(svc)[1]}
    /\ UNCHANGED <<job, cliVars, net, buffers, appVars, rmVars, dir, mainVars, peernet, peerq, replies>>

\* The handler of the peer for these calls submits the request to the service
\* manager; two kinds of calls end in the same RPC where the owner is only looked
\* up, and two go to all servers.
PeerHandler(ks) == \E h \in peernet :
    /\ Kind(h) \in ks /\ peernet' = peernet \ {h} /\ peerq' = Append(peerq, h)
    /\ UNCHANGED <<job, faulty, cliVars, netVars, appVars, rmVars, fileVars, mainVars, svc, replies>>

peer_metaget_rpc == PeerHandler({"metaget", "filesize"})
peer_metaset_rpc == PeerHandler({"metaset"})
peer_truncate_rpc == PeerHandler({"truncate"})
peer_laminate_rpc == PeerHandler({"laminate"})
peer_transfer_rpc == PeerHandler({"transfer"})
peer_find_extents_rpc == PeerHandler({"mread", "node_local_extents_get"})
unlink_bcast_rpc == PeerHandler({"unlink"})
metaget_all_bcast_rpc == PeerHandler({"get_gfids"})

\* The service manager of the peer answers, if the thread still waits.
PeerServes(ks) ==
    /\ peerq # <<>> /\ Kind(Head(peerq)) \in ks /\ peerq' = Tail(peerq)
    /\ replies' = IF Runs(Head(peerq)[1], "owner") /\ Hdl(Head(peerq)[1]) = Head(peerq)
                  THEN replies \cup {Head(peerq)} ELSE replies
    /\ UNCHANGED <<job, faulty, cliVars, netVars, appVars, rmVars, fileVars, mainVars, svc, peernet>>

peer_process_metaget_rpc == PeerServes({"metaget", "filesize"})
peer_process_metaset_rpc == PeerServes({"metaset"})
peer_process_truncate_rpc == PeerServes({"truncate"})
peer_process_laminate_rpc == PeerServes({"laminate"})
peer_process_transfer_rpc == PeerServes({"transfer"})
peer_process_find_extents_rpc == PeerServes({"mread", "node_local_extents_get"})
process_unlink_bcast == PeerServes({"unlink"})
process_metaget_bcast_rpc == PeerServes({"get_gfids"})

PeerHandlers ==
    \/ peer_metaget_rpc \/ peer_metaset_rpc \/ peer_truncate_rpc \/ peer_laminate_rpc
    \/ peer_transfer_rpc \/ peer_find_extents_rpc \/ unlink_bcast_rpc \/ metaget_all_bcast_rpc

process_service_requests ==
    \/ peer_process_metaget_rpc \/ peer_process_metaset_rpc \/ peer_process_truncate_rpc
    \/ peer_process_laminate_rpc \/ peer_process_transfer_rpc \/ peer_process_find_extents_rpc
    \/ process_unlink_bcast \/ process_metaget_bcast_rpc

-----------------------------------------------------------------------------
(* The main thread: once a second it cleans up after failed clients, and     *)
(* when it is told to exit it stops the service manager and cleans up after  *)
(* all clients, with the lock of the applications held.                      *)

process_client_failures ==
    /\ main.pc = "loop" /\ failed # {} /\ main' = [main EXCEPT !.pc = "clean", !.who = failed] /\ failed' = {}
    /\ UNCHANGED <<job, faulty, cliVars, netVars, appVars, rmVars, fileVars, due, joining, svcVars>>

exit_request ==
    /\ main.pc = "loop" /\ failed = {} /\ Fault("stop")
    /\ main' = [main EXCEPT !.pc = "exit", !.who = {c \in Clients : slot[c] \in {"new", "live", "down"}}]
    /\ UNCHANGED <<job, cliVars, netVars, appVars, rmVars, fileVars, due, failed, joining, svcVars>>

\* Mutant: the thread is not told.
MutRequestExit(c) == slot' = [slot EXCEPT ![c] = IF @ = "live" THEN "down" ELSE @] /\ UNCHANGED rm

\* The clean-up of one client: its thread is told to exit and joined ...
rm_request_exit(c) ==
    /\ slot' = [slot EXCEPT ![c] = IF @ = "live" THEN "down" ELSE @]
    /\ rm' = [rm EXCEPT ![c].exit = TRUE]
CleanNext == \E c \in main.who :
    /\ main.pc \in {"clean", "exit"} /\ rm_request_exit(c)
    /\ main' = [pc |-> IF main.pc = "clean" THEN "join" ELSE "exitjoin", who |-> main.who \ {c}, cur |-> c]
    /\ UNCHANGED <<job, faulty, cliVars, netVars, app, nclients, mounting, q, batch, cbs, fileVars,
                   due, failed, joining, svcVars>>

unifyfs_rm_thrd_cleanup(c) ==
    /\ rm' = [rm EXCEPT ![c] = NoThread] /\ q' = [q EXCEPT ![c] = <<>>] /\ cbs' = [cbs EXCEPT ![c] = 0]

\* ... and then its structure is taken from the table and freed.
cleanup_app_client == LET c == main.cur IN
    /\ main.pc \in {"join", "exitjoin"} /\ rm[c].pc = "exited"
    /\ slot' = [slot EXCEPT ![c] = "gone"] /\ unifyfs_rm_thrd_cleanup(c)
    /\ main' = [main EXCEPT !.pc = IF @ = "join" THEN "clean" ELSE "exit"]
    /\ UNCHANGED <<job, faulty, cliVars, netVars, app, nclients, mounting, batch, fileVars,
                   due, failed, joining, svcVars>>

\* All are clean: the loop goes on, or the server is gone.
unifyfs_exit ==
    /\ main.who = {} /\ main.pc \in {"clean", "exit"}
    /\ main' = [main EXCEPT !.pc = IF @ = "clean" THEN "loop" ELSE "gone"]
    /\ UNCHANGED <<job, faulty, cliVars, netVars, appVars, rmVars, fileVars, due, failed, joining, svcVars>>

-----------------------------------------------------------------------------
ClientCalls(c) ==
    \/ unifyfs_client_rpc_init(c)
    \/ invoke_client_mount_rpc(c) \/ invoke_client_attach_rpc(c) \/ invoke_client_unmount_rpc(c)
    \/ invoke_client_metaset_rpc(c) \/ invoke_client_metaget_rpc(c) \/ invoke_client_filesize_rpc(c)
    \/ invoke_client_transfer_rpc(c) \/ invoke_client_truncate_rpc(c) \/ invoke_client_unlink_rpc(c)
    \/ invoke_client_laminate_rpc(c) \/ invoke_client_sync_rpc(c) \/ invoke_client_mread_rpc(c)
    \/ invoke_client_node_local_extents_get_rpc(c) \/ invoke_client_get_gfids_rpc(c)
    \/ margo_forward_timed(c) \/ pull_margo_bulk_buffer(c)

Handlers ==
    \/ unifyfs_mount_rpc \/ new_app_client \/ unifyfs_attach_rpc \/ unifyfs_unmount_rpc
    \/ disconnect_app_client \/ unifyfs_metaset_rpc \/ unifyfs_metaget_rpc \/ unifyfs_filesize_rpc
    \/ unifyfs_transfer_rpc \/ unifyfs_truncate_rpc \/ unifyfs_unlink_rpc \/ unifyfs_laminate_rpc
    \/ unifyfs_fsync_rpc \/ unifyfs_mread_rpc \/ unifyfs_node_local_extents_get_rpc
    \/ unifyfs_get_gfids_rpc

\* One step of the thread of c.
request_manager_thread(c) ==
    \/ rm_process_client_callbacks(c) \/ rm_process_client_requests(c) \/ rm_heartbeat(c)
    \/ process_attach_rpc(c) \/ process_metaget_rpc(c) \/ process_metaset_rpc(c)
    \/ process_filesize_rpc(c) \/ process_truncate_rpc(c) \/ process_laminate_rpc(c)
    \/ process_transfer_rpc(c) \/ process_node_local_extents_get_rpc(c) \/ process_get_gfids(c)
    \/ process_read_rpc(c) \/ process_unlink_rpc(c) \/ process_fsync_rpc(c)
    \/ wait_for_p2p_request(c) \/ FreeList(c)

ServiceManagers == process_pending_sync \/ PeerHandlers \/ process_service_requests
MainThread == process_client_failures \/ CleanNext \/ cleanup_app_client \/ unifyfs_exit

ReqNext ==
    \/ \E c \in Clients : ClientCalls(c) \/ request_manager_thread(c) \/ ForwardTimeout(c) \/ Die(c)
    \/ Handlers \/ ServiceManagers \/ MainThread \/ Interval \/ exit_request

ReqSpec == ReqInit /\ [][ReqNext]_reqVars

-----------------------------------------------------------------------------
\* The places where the server keeps a handle.
Keeps(h) ==
    (IF h \in net THEN 1 ELSE 0)
    + Cardinality({m \in mounting : m.h = h})
    + Cardinality({i \in 1 .. Len(q[h[1]]) : q[h[1]][i] = h})
    + Cardinality({i \in 1 .. Len(batch[h[1]]) : batch[h[1]][i] = h /\ ~(i = 1 /\ Runs(h[1], "free"))})
    + Cardinality({i \in 1 .. Len(svc) : svc[i] = h})
    + (IF h \in joining THEN 1 ELSE 0)

\* A request has one owner at a time on its way through handler, queue, thread and
\* service manager: a handle is kept in one place at most, is answered at most once,
\* and nobody keeps a handle that has been answered and destroyed.
HandleOwned == \A h \in Handles : Keeps(h) + answers[h] <= 1

\* c has attached and has not asked to be unmounted.
InSession(c) == /\ c \in Started /\ at[c] >= 2 /\ <<c, 2>> \in okay /\ Alive(c)
                /\ (at[c] > 2 \/ cli[c] = "idle") /\ Kind(<<c, at[c]>>) # "unmount"

\* Between a successful attach and unmount the server serves the client: its
\* structure is initialised and its thread runs, unless a heartbeat went
\* unanswered or the server exits.
ServedWhileMounted == \A c \in Clients :
    InSession(c) /\ main.pc \in {"loop", "clean", "join"} /\ ~(job.fault = "slow" /\ ~faulty)
    => slot[c] = "live" /\ rm[c].attached /\ ~rm[c].exit /\ rm[c].pc # "exited"

\* What a client pulls after a successful response is the list of the server.
PulledIsList == \A c \in Clients : got[c] # "stale"

\* A live client does not wait for ever: its calls are answered, whatever becomes of
\* the other clients, as long as the servers run, answer each other, and the
\* heartbeats of live clients are answered.
RequestsAnswered ==
    []<>(job.fault \in {"none", "input", "thread", "attach", "die"}
         => \A c \in Clients : cli[c] # "wait")

\* A client that died while it was attached is found out and is disconnected,
\* when no other client takes the heartbeats.
DeadIsReaped ==
    []<>~(\E c \in Clients : /\ cli[c] = "dead" /\ slot[c] = "live"
                            /\ \A d \in Clients \ {c} : ~rm[d].attached \/ rm[d].pc = "exited")

\* The thread of c waits for the lock of the applications.
NeedsLock(c) ==
    \/ Runs(c, "cb") /\ cbs[c] > 0
    \/ Runs(c, "work") /\ Kind(Hdl(c)) \in {"attach", "fsync", "mread", "unlink"}
    \/ Runs(c, "beat") /\ due /\ rm[c].attached

\* The exit of the server is over at some time, unless a thread waits for the lock
\* that the exit holds while it waits for the thread.
ServerExits ==
    []<>(main.pc \notin {"exit", "exitjoin"} \/ \E c \in Clients : NeedsLock(c))
=============================================================================
