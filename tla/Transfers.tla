----------------------------- MODULE Transfers ------------------------------
(* The transfer API: a client dispatches requests that copy or move files    *)
(* out of UnifyFS, cancels them and waits for them                           *)
(* (client/src/client_transfer.c, unifyfs_api_transfer.c); its server asks   *)
(* all servers by a broadcast, in each of which a helper thread copies the   *)
(* data of that server into the destination file                             *)
(* (server/src/unifyfs_transfer.c, unifyfs_service_manager.c), and tells the *)
(* client when its own thread is done.                                       *)
(*                                                                           *)
(* Server 0 is the server of the client and the root of the broadcast, the   *)
(* others are its children in the tree.  Bytes are abstracted to "the data   *)
(* of server v has been copied for request i".  The program of the           *)
(* application, the size of its list of transfers and the faults that happen *)
(* are chosen at the start.                                                  *)
EXTENDS Integers, Sequences, FiniteSets

CONSTANTS NoReq,         \* no transfer in a slot, no response
          TransferSetups \* the programs: see MCTransfers

VARIABLES setup,    \* the program, never changed
          req,      \* the application's unifyfs_transfer_request structures
          slot,     \* client->active_transfers: a request and its complete flag
          gen,      \* client->transfer_id_generator
          app,      \* the application: call number, request in hand, done count
          rmq,      \* requests at the request manager of server 0
          resp,     \* the response to the outstanding transfer rpc
          th,       \* th[v][i]: how far server v is with request i
          status,   \* status[v][i]: tta->status is an error
          cresp,    \* responses of the children to the broadcast
          msgs,     \* completion rpcs on their way to the client
          copied,   \* <<v, i>>: data of server v is in the destination
          removed   \* requests whose source file has been removed
transferVars == <<setup, req, slot, gen, app, rmq, resp, th, status, cresp, msgs, copied, removed>>
clientVars == <<req, slot, gen, app, removed>>
serverVars == <<rmq, resp, th, status, cresp, msgs, copied>>

Reqs == 1 .. Len(setup.reqs)
Svrs == 0 .. setup.servers - 1
Children == Svrs \ {0}
TransferCall == setup.calls[app.call]
TransferFault(f) == <<0, f>> \in setup.faults

NewReq == [st |-> "new", err |-> FALSE, id |-> 0]

TransfersInit ==
    /\ setup \in TransferSetups
    /\ req = [i \in Reqs |-> NewReq]
    /\ slot = [k \in 0 .. setup.cap - 1 |-> NoReq]
    /\ gen = 0
    /\ app = [call |-> 1, i |-> setup.calls[1].from, done |-> 0, pc |-> "call"]
    /\ rmq = <<>> /\ resp = NoReq
    /\ th = [v \in Svrs |-> [i \in Reqs |-> "none"]]
    /\ status = [v \in Svrs |-> [i \in Reqs |-> FALSE]]
    /\ cresp = [v \in Children |-> [i \in Reqs |-> FALSE]]
    /\ msgs = {} /\ copied = {} /\ removed = {}

-----------------------------------------------------------------------------
(* The client. *)

id_to_list_index(id) == id % setup.cap

\* The entry is found by the slot alone.
client_get_transfer(id) == slot[id_to_list_index(id)]

\* The call is over, the next one begins with its first request.
NextCall ==
    app' = IF app.call < Len(setup.calls)
           THEN [call |-> app.call + 1, i |-> setup.calls[app.call + 1].from, done |-> 0, pc |-> "call"]
           ELSE [app EXCEPT !.pc = "end"]

\* client_submit_transfers goes on to the next request of the array.
NextReq == IF app.i < TransferCall.to THEN app' = [app EXCEPT !.i = @ + 1, !.pc = "call"] ELSE NextCall

Failed(r) == [r EXCEPT !.st = "completed", !.err = TRUE]

\* Identifiers are taken from the generator until one falls on a free slot.
NewId == CHOOSE id \in gen .. gen + setup.cap - 1 :
            /\ slot[id_to_list_index(id)] = NoReq
            /\ \A j \in gen .. id - 1 : slot[id_to_list_index(j)] # NoReq

\* Every slot is taken: the transfer is refused.
ListFull == \A k \in DOMAIN slot : slot[k] # NoReq

client_create_transfer(i) ==
    /\ ~ListFull
    /\ gen' = NewId + 1
    /\ slot' = [slot EXCEPT ![id_to_list_index(NewId)] = [i |-> i, complete |-> FALSE]]

\* One request of a dispatch: a bad mode, a pair of paths of which not exactly
\* one is in UnifyFS, a full list and a file that would be copied into UnifyFS
\* all end the request at once; the last one leaves its slot taken.
client_submit_transfers ==
    /\ app.pc = "call" /\ TransferCall.op = "dispatch"
    /\ LET r == setup.reqs[app.i] IN
       \/ /\ r.mode = "bad" \/ r.place \in {"both", "neither"} \/ ListFull
          /\ req' = [req EXCEPT ![app.i] = Failed(@)]
          /\ NextReq /\ UNCHANGED <<slot, gen, rmq>>
       \/ /\ r.mode # "bad" /\ r.place = "in" /\ client_create_transfer(app.i)
          /\ req' = [req EXCEPT ![app.i] = [Failed(@) EXCEPT !.id = NewId]]
          /\ NextReq /\ UNCHANGED rmq
       \/ /\ r.mode # "bad" /\ r.place = "out" /\ client_create_transfer(app.i)
          /\ req' = [req EXCEPT ![app.i].st = "progress", ![app.i].id = NewId]
          /\ rmq' = Append(rmq, [i |-> app.i, id |-> NewId])
          /\ app' = [app EXCEPT !.pc = "rpc"]
    /\ UNCHANGED <<setup, resp, th, status, cresp, msgs, copied, removed>>

\* The response to the rpc, or its time limit.
invoke_client_transfer_rpc ==
    /\ app.pc = "rpc"
    /\ \/ resp # NoReq /\ req' = IF resp = "ok" THEN req ELSE [req EXCEPT ![app.i] = Failed(@)]
       \/ resp = NoReq /\ TransferFault("rpc") /\ req' = [req EXCEPT ![app.i] = Failed(@)]
    /\ resp' = NoReq /\ NextReq
    /\ UNCHANGED <<setup, slot, gen, rmq, th, status, cresp, msgs, copied, removed>>

\* Nothing but the state of the requests changes: the server is not told.
unifyfs_cancel_transfer ==
    /\ app.pc = "call" /\ TransferCall.op = "cancel"
    /\ req' = [i \in Reqs |-> IF i \in TransferCall.from .. TransferCall.to /\ req[i].st # "completed"
                              THEN [req[i] EXCEPT !.st = "canceled"] ELSE req[i]]
    /\ NextCall
    /\ UNCHANGED <<setup, slot, gen, removed, serverVars>>

client_check_transfer_complete(t) ==
    \/ req[t.i].st = "progress" /\ t.complete
    \/ req[t.i].st \in {"canceled", "completed"}

\* A finished move of a file in UnifyFS removes the source.
RemovesSource(t) ==
    req[t.i].st = "completed" /\ setup.reqs[t.i].mode = "move" /\ setup.reqs[t.i].place = "out"

\* The source of a finished move goes, and so does the entry.
client_cleanup_transfer(t) ==
    /\ removed' = IF RemovesSource(t) THEN removed \cup {t.i} ELSE removed
    /\ slot' = [slot EXCEPT ![id_to_list_index(req[t.i].id)] = NoReq]

\* The loop looks at one request.
WaitOne ==
    /\ app.pc = "call" /\ TransferCall.op = "wait" /\ app.i <= TransferCall.to
    /\ LET t == client_get_transfer(req[app.i].id) IN
       IF t # NoReq /\ client_check_transfer_complete(t)
       THEN /\ client_cleanup_transfer(t)
            /\ app' = [app EXCEPT !.i = @ + 1, !.done = @ + 1]
       ELSE /\ app' = [app EXCEPT !.i = @ + 1,
                                  !.done = @ + (IF req[app.i].st \in {"canceled", "completed"} THEN 1 ELSE 0)]
            /\ UNCHANGED <<removed, slot>>
    /\ UNCHANGED <<setup, req, gen, serverVars>>

\* At the end of a round the call returns, if all or any are done, or when it
\* has made its 6000 rounds.  Otherwise it begins again after a pause.
unifyfs_wait_transfer ==
    /\ app.pc = "call" /\ TransferCall.op = "wait" /\ app.i > TransferCall.to
    /\ LET enough == IF TransferCall.all THEN app.done = TransferCall.to - TransferCall.from + 1
                     ELSE app.done > 0 IN
       \/ enough /\ NextCall
       \/ ~enough /\ TransferFault("wait") /\ NextCall
       \/ ~enough /\ app' = [app EXCEPT !.i = TransferCall.from, !.done = 0]
    /\ UNCHANGED <<setup, req, slot, gen, removed, serverVars>>

\* The entry in the slot is completed, with the result of the server.
client_complete_transfer(id, err) ==
    LET k == id_to_list_index(id) IN
    IF client_get_transfer(id) = NoReq THEN UNCHANGED <<req, slot>>
    ELSE /\ req' = [req EXCEPT ![slot[k].i].st = "completed", ![slot[k].i].err = err]
         /\ slot' = [slot EXCEPT ![k].complete = TRUE]

\* The completion rpc arrives at the client.
unifyfs_transfer_complete_rpc(m) ==
    /\ msgs' = msgs \ {m}
    /\ client_complete_transfer(m.id, m.err)
    /\ UNCHANGED <<setup, gen, app, rmq, resp, th, status, cresp, copied, removed>>

-----------------------------------------------------------------------------
(* The servers. *)

\* A parallel transfer is broadcast.  When the broadcast cannot be sent nothing
\* is submitted, and that is not told.
unifyfs_invoke_broadcast_transfer(i) ==
    \/ th' = [v \in Svrs |-> [th[v] EXCEPT ![i] = IF v = 0 THEN "queued" ELSE "sent"]]
    \/ TransferFault("forward") /\ UNCHANGED th

\* A serial transfer goes to the owner of the file, which does not implement it.
unifyfs_invoke_transfer_rpc == UNCHANGED th

\* The answer to the client, unless it has given up.
Answer(q, r) == resp' = IF app.pc = "rpc" /\ app.i = q.i THEN r ELSE resp

\* The request manager: the response does not wait for the transfer.
process_transfer_rpc ==
    /\ rmq # <<>> /\ rmq' = Tail(rmq)
    /\ LET q == Head(rmq) IN
       \/ ~setup.reqs[q.i].par /\ unifyfs_invoke_transfer_rpc /\ Answer(q, "err")
       \/ setup.reqs[q.i].par /\ unifyfs_invoke_broadcast_transfer(q.i) /\ Answer(q, "ok")
    /\ UNCHANGED <<setup, clientVars, status, cresp, msgs, copied>>

Move(v, i, from, to) == th[v][i] = from /\ th' = [th EXCEPT ![v][i] = to]

\* The broadcast reaches a child and is queued for its service manager.
transfer_bcast_rpc(v, i) ==
    /\ Move(v, i, "sent", "queued")
    /\ UNCHANGED <<setup, clientVars, rmq, resp, status, cresp, msgs, copied>>

\* The extents of the file whose data is on this server.
create_local_transfers(v) == v \in setup.data

\* A place in the list of transfers to start.
sm_transfer(v, i) == Move(v, i, "queued", IF create_local_transfers(v) THEN "local" ELSE "empty")

\* The service manager takes the request.
process_transfer_bcast_rpc(v, i) ==
    /\ sm_transfer(v, i)
    /\ UNCHANGED <<setup, clientVars, rmq, resp, status, cresp, msgs, copied>>

\* A thread for each.  If there is none the arguments are freed, and that is all.
spawn_local_transfers(v, i) ==
    /\ \/ Move(v, i, "local", "run")
       \/ Move(v, i, "empty", "copied")
       \/ <<v, "thread">> \in setup.faults /\ Move(v, i, "local", "lost")
       \/ <<v, "thread">> \in setup.faults /\ Move(v, i, "empty", "lost")
    /\ UNCHANGED <<setup, clientVars, rmq, resp, status, cresp, msgs, copied>>

\* Whether the data is read from the logs, and written to the destination.
read_local_extent(v) == <<v, "read">> \notin setup.faults
write_transfer_chunk(v) == <<v, "write">> \notin setup.faults

\* The thread of a server with data: a failure to open the destination ends it
\* there, a failure to read or write is kept as the status.
transfer_helper_thread(v, i) ==
    /\ \/ /\ read_local_extent(v) /\ write_transfer_chunk(v) /\ Move(v, i, "run", "copied")
          /\ copied' = copied \cup {<<v, i>>} /\ UNCHANGED status
       \/ /\ ~(read_local_extent(v) /\ write_transfer_chunk(v)) /\ Move(v, i, "run", "copied")
          /\ status' = [status EXCEPT ![v][i] = TRUE] /\ UNCHANGED copied
       \/ /\ <<v, "open">> \in setup.faults /\ Move(v, i, "run", "lost")
          /\ status' = [status EXCEPT ![v][i] = TRUE] /\ UNCHANGED copied
    /\ UNCHANGED <<setup, clientVars, rmq, resp, cresp, msgs>>

\* Mutant: the root does not wait for the responses of its children.
MutFinishTransfer(v, i) ==
    /\ Move(v, i, "copied", "finished")
    /\ cresp' = IF v = 0 THEN cresp ELSE [cresp EXCEPT ![v][i] = TRUE]
    /\ UNCHANGED <<setup, clientVars, rmq, resp, status, msgs, copied>>

\* The response of a child has come, or will not come within the time limit.
Answers(u, i) == cresp[u][i] \/ th[u][i] = "lost" \/ TransferFault("slow")

\* collective_finish: a child responds to the root, the root waits for every
\* child or for the time limit of the servers.  What the children say stays in
\* the collective: the status of the thread remains that of its own copy.
FinishTransfer(v, i) ==
    /\ Move(v, i, "copied", "finished")
    /\ \/ v # 0 /\ cresp' = [cresp EXCEPT ![v][i] = TRUE]
       \/ v = 0 /\ (\A u \in Children : Answers(u, i)) /\ UNCHANGED cresp
    /\ UNCHANGED <<setup, clientVars, rmq, resp, status, msgs, copied>>

\* The server of the client sends the completion rpc, with its own status.
invoke_client_transfer_complete_rpc(i) == msgs' = msgs \cup {[id |-> req[i].id, err |-> status[0][i]]}

\* Mutant: only the arguments of the root are released.
MutCompleteTransfers(v, i) ==
    /\ v = 0 /\ Move(v, i, "finished", "released")
    /\ invoke_client_transfer_complete_rpc(i)
    /\ UNCHANGED <<setup, clientVars, rmq, resp, status, cresp, copied>>

\* The service manager joins the thread and releases its arguments.
complete_local_transfers(v, i) ==
    /\ Move(v, i, "finished", "released")
    /\ IF v = 0 THEN invoke_client_transfer_complete_rpc(i) ELSE UNCHANGED msgs
    /\ UNCHANGED <<setup, clientVars, rmq, resp, status, cresp, copied>>

-----------------------------------------------------------------------------
Application == client_submit_transfers \/ invoke_client_transfer_rpc \/ unifyfs_cancel_transfer
               \/ WaitOne \/ unifyfs_wait_transfer

Server(v) == \E i \in Reqs :
    \/ transfer_bcast_rpc(v, i) \/ process_transfer_bcast_rpc(v, i) \/ spawn_local_transfers(v, i)
    \/ transfer_helper_thread(v, i) \/ FinishTransfer(v, i) \/ complete_local_transfers(v, i)

Deliver == \E m \in msgs : unifyfs_transfer_complete_rpc(m)

\* The threads of the servers, and that of the client that takes the rpcs.
Threads == process_transfer_rpc \/ Deliver \/ \E v \in Svrs : Server(v)

TransfersNext == Application \/ Threads

-----------------------------------------------------------------------------
AllCopied(i) == \A v \in setup.data : <<v, i>> \in copied

\* A request that the client sees completed without an error has all its data
\* in the destination: the completion rpc is sent after the threads of all
\* servers are done, and it reaches the request it is about, whatever requests
\* came and went in its slot (client_transfer.c client_complete_transfer,
\* unifyfs_transfer.c transfer_helper_thread).
DoneIsCopied ==
    \A i \in Reqs : req[i].st = "completed" /\ ~req[i].err => AllCopied(i)

\* The source of a move is removed only when every server's data is in the
\* destination (client_transfer.c client_cleanup_transfer).
MoveKeepsData == \A i \in removed : AllCopied(i)

\* Every thread that is started for a transfer is joined and its arguments are
\* released, on every server (unifyfs_service_manager.c
\* complete_local_transfers), unless the thread could not be started or the
\* destination could not be opened.
TransfersEnd ==
    []<>(\A v \in Svrs, i \in Reqs : th[v][i] \in {"none", "released", "lost"})
=============================================================================
