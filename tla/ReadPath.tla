------------------------------ MODULE ReadPath -------------------------------
(* A multi-read from the application to the logs and back: threads of one      *)
(* client (process_gfid_reads), the request manager of the client at its       *)
(* server, the service managers of the other servers, and the handlers that    *)
(* take the data on its way back.  The file does not change.                   *)
(*                                                                             *)
(* A request is [at, eof]: at[p] is the server whose log holds byte p of the   *)
(* request, or Hole, and eof says how many of its bytes are inside the file.   *)
EXTENDS ReadSlots, Sequences, FiniteSetsExt, TLC

CONSTANTS
    Threads,     \* application threads
    NServers,    \* servers, by rank
    Me,          \* the server of the client
    Calls,       \* the multi-reads of each thread: sequences of requests
    MaxActive,   \* the capacity of active_mreads (UNIFYFS_CLIENT_MAX_READ_COUNT)
    MaxCalls,    \* bound: calls that are made
    Faults,      \* what may fail: "find", "chunk", "rpc", "call", "wait", "peer"
    MaxFaults    \* bound: failures

Servers == 0 .. NServers - 1
Peers == Servers \ {Me}
Hole == -1
None == -1

VARIABLES
    active,   \* active_mreads of the client: the id at each index, or None
    genId,    \* mread_id_generator
    thread,   \* the threads and their read requests
    hand,     \* handlers of mread_req_data and mread_req_complete at the client
    queue,    \* client_reqs of the request manager
    rm,       \* the request manager thread
    slot,     \* read_reqs of the request manager
    asked,    \* status of the remote reads of each slot, by server; "lost" is
              \* READREQ_STARTED when the request or its response was lost
    resp,     \* their responses
    sreqs,    \* svc_reqs of the service managers of the other servers
    sbatch,   \* the requests that they took
    sout,     \* chunk_reads: responses to be sent
    sbusy,    \* whether they wait for the answer to a response
    posts,    \* handlers of chunk_read_response at the client's server
    ncalls, faults

clientVars == <<active, genId, ncalls>>
reqVars == <<slotVars, slot, asked, resp>>
svcVars == <<sreqs, sbatch, sout, sbusy>>
vars == <<clientVars, thread, hand, queue, rm, reqVars, svcVars, posts, faults>>

Free == [status |-> "free", id |-> None, ndx |-> 0, req |-> None]
Idle == [pc |-> "idle", id |-> None, call |-> <<>>, reqs |-> <<>>, complete |-> 0, fin |-> {}]
Loop == [pc |-> "take", batch |-> <<>>, k |-> 1, ret |-> "ok", at |-> <<0, 0>>, todo |-> <<>>,
         sent |-> "ok", wait |-> <<>>]

Init ==
    /\ SlotInit
    /\ active = [i \in 0 .. MaxActive - 1 |-> None]
    /\ genId = 0
    /\ thread = [t \in Threads |-> Idle]
    /\ hand = {}
    /\ queue = <<>>
    /\ rm = Loop
    /\ slot = [i \in Slots |-> Free]
    /\ asked = [i \in Slots |-> [r \in Servers |-> "none"]]
    /\ resp = [i \in Slots |-> [r \in Servers |-> <<>>]]
    /\ sreqs = [r \in Peers |-> <<>>]
    /\ sbatch = [r \in Peers |-> <<>>]
    /\ sout = [r \in Peers |-> <<>>]
    /\ sbusy = [r \in Peers |-> FALSE]
    /\ posts = {}
    /\ ncalls = 0
    /\ faults = 0

\* A failure of this kind happens, within the bound.
Fault(kind) == kind \in Faults /\ faults < MaxFaults /\ faults' = faults + 1

------------------------------------------------------------------------------
(* The client: process_gfid_reads. *)

\* arraylist_size: one more than the highest index in use.
ListSize == Max({0} \cup {i + 1 : i \in {k \in DOMAIN active : active[k] # None}})

\* The next id whose place in the list is free.
FreeId == Min({id \in genId .. genId + MaxActive - 1 : active[id % MaxActive] = None})

NewReqs(c) ==
    [k \in DOMAIN c |-> [cover |-> {}, nread |-> 0, zero |-> {}, err |-> "progress"]]

\* client_create_mread_request and the mread RPC, which the server queues.
Start(t, c) ==
    /\ thread[t].pc \in {"idle", "returned"}
    /\ ncalls < MaxCalls
    /\ ListSize < MaxActive
    /\ LET id == FreeId IN
        /\ active' = [active EXCEPT ![id % MaxActive] = id]
        /\ genId' = id + 1
        /\ thread' = [thread EXCEPT ![t] = [pc |-> "rpc", id |-> id, call |-> c,
                          reqs |-> NewReqs(c), complete |-> 0, fin |-> {}]]
        /\ queue' = Append(queue, [who |-> t, id |-> id, call |-> c])
    /\ ncalls' = ncalls + 1
    /\ UNCHANGED <<reqVars, hand, rm, svcVars, posts, faults>>

\* The list of active mreads counts as full: ENOMEM.
Refused(t) ==
    /\ thread[t].pc \in {"idle", "returned"}
    /\ ncalls < MaxCalls
    /\ ListSize = MaxActive
    /\ thread' = [thread EXCEPT ![t] = [Idle EXCEPT !.pc = "returned"]]
    /\ ncalls' = ncalls + 1
    /\ UNCHANGED <<reqVars, active, genId, hand, queue, rm, svcVars, posts, faults>>

\* update_read_req_result: zeros go to the hole before the data of a full read,
\* and after the data up to the end of the request or of the file.
Result(r, q) ==
    LET full == Len(q.at)
        end  == IF full < q.eof THEN full ELSE q.eof
        e    == IF r.err = "progress" THEN "ok" ELSE r.err
        begin == {p \in 1 .. full : \A d \in r.cover : p < d.pos}
    IN  IF e \notin {"ok", "nodata"} THEN r
        ELSE IF r.nread = full
        THEN [r EXCEPT !.err = IF begin = {} THEN e ELSE "ok", !.zero = begin]
        ELSE IF q.eof = 0 THEN [r EXCEPT !.err = "ok", !.nread = 0]
        ELSE IF q.eof > r.nread
        THEN [r EXCEPT !.err = "ok", !.nread = end, !.zero = r.nread + 1 .. end]
        ELSE [r EXCEPT !.err = e]

\* All of the requests, or those in progress, end with an error.
AllFailed(reqs) == [k \in DOMAIN reqs |-> [reqs[k] EXCEPT !.err = "err"]]
TimedOut(reqs) ==
    [k \in DOMAIN reqs |-> [reqs[k] EXCEPT !.err = IF @ = "progress" THEN "timeout" ELSE @]]

\* The thread has its answer or gave up, with these requests.
EndWait(t, reqs) ==
    thread' = [thread EXCEPT ![t].pc = "fill",
                             ![t].reqs = [k \in DOMAIN reqs |-> Result(reqs[k], thread[t].call[k])]]

\* All requests are complete.
WaitDone(t) ==
    /\ thread[t].pc = "wait"
    /\ thread[t].complete = Len(thread[t].reqs)
    /\ EndWait(t, thread[t].reqs)
    /\ UNCHANGED <<reqVars, clientVars, hand, queue, rm, svcVars, posts, faults>>

\* The client waited for UNIFYFS_CLIENT_READ_TIMEOUT_SECONDS.
WaitTimeout(t) ==
    /\ thread[t].pc = "wait"
    /\ thread[t].complete # Len(thread[t].reqs)
    /\ Fault("wait")
    /\ EndWait(t, TimedOut(thread[t].reqs))
    /\ UNCHANGED <<reqVars, clientVars, hand, queue, rm, svcVars, posts>>

\* The mread RPC fails at the client, the server may go on with it.
CallTimeout(t) ==
    /\ thread[t].pc = "rpc"
    /\ Fault("call")
    /\ EndWait(t, AllFailed(thread[t].reqs))
    /\ UNCHANGED <<reqVars, clientVars, hand, queue, rm, svcVars, posts>>

\* client_remove_mread_request, and the call returns.
Remove(t) ==
    /\ thread[t].pc = "fill"
    /\ active' = [active EXCEPT ![thread[t].id % MaxActive] = None]
    /\ thread' = [thread EXCEPT ![t].pc = "returned"]
    /\ UNCHANGED <<reqVars, genId, hand, queue, rm, svcVars, posts, ncalls, faults>>

------------------------------------------------------------------------------
(* The handlers of the client, and the end of the RPCs that they handle. *)

\* The request manager sends an RPC to the client and waits for the answer.
Tell(h, next_rm) ==
    /\ hand' = hand \cup {h @@ [found |-> FALSE, lost |-> FALSE]}
    /\ rm' = [next_rm EXCEPT !.wait = <<"client">>]

\* The answer arrives, unless the request manager gave up.
Answer(h, ok) ==
    /\ hand' = hand \ {h}
    /\ rm' = IF h.lost THEN rm
             ELSE [rm EXCEPT !.wait = <<>>, !.sent = IF ok THEN @ ELSE "err"]

\* A mistake: whatever is at the index of the id is taken for the mread.
MutFound(h) == active[h.id % MaxActive]

\* client_get_mread_status: the mread of the handler, or None.
Found(h) == IF active[h.id % MaxActive] = h.id THEN h.id ELSE None

Lookup(h) ==
    /\ ~h.found
    /\ IF Found(h) = None
       THEN Answer(h, FALSE)
       ELSE /\ hand' = (hand \ {h}) \cup {[h EXCEPT !.found = TRUE, !.id = Found(h)]}
            /\ UNCHANGED rm
    /\ UNCHANGED <<reqVars, clientVars, thread, queue, svcVars, posts, faults>>

\* update_read_req_coverage, after the data was pulled into the buffer.
Covered(r, h) ==
    [r EXCEPT !.cover = @ \cup {[pos |-> h.pos, of |-> h.of]},
              !.nread = IF \A d \in r.cover : d.pos < h.pos THEN h.pos ELSE @]

\* client_update_mread_request.
Completed(th, h) ==
    [th EXCEPT !.complete = @ + 1, !.fin = @ \cup {h.ndx}, !.reqs =
        IF h.err = "ok" THEN @ ELSE [@ EXCEPT ![h.ndx].nread = 0, ![h.ndx].err = h.err]]

\* The handler does its work with the mread that it found; the thread that has
\* returned since then has freed it, and only its buffer is still there.
Handle(h) ==
    /\ h.found
    /\ thread' = [t \in Threads |->
           IF thread[t].id # h.id THEN thread[t]
           ELSE IF h.op = "data" /\ h.ndx \in DOMAIN thread[t].reqs
           THEN [thread[t] EXCEPT !.reqs[h.ndx] = Covered(@, h)]
           ELSE IF h.op = "complete" /\ h.ndx \in DOMAIN thread[t].reqs
                   /\ thread[t].pc # "returned"
           THEN Completed(thread[t], h)
           ELSE thread[t]]
    /\ Answer(h, TRUE)
    /\ UNCHANGED <<reqVars, clientVars, queue, svcVars, posts, faults>>

\* The RPC to the client fails at the server; the handler may still run.
RpcFails(h) ==
    /\ ~h.lost
    /\ Fault("rpc")
    /\ hand' = (hand \ {h}) \cup {[h EXCEPT !.lost = TRUE]}
    /\ rm' = [rm EXCEPT !.wait = <<>>, !.sent = "err"]
    /\ UNCHANGED <<reqVars, clientVars, thread, queue, svcVars, posts>>

------------------------------------------------------------------------------
(* The request manager: client requests. *)

\* The servers that hold data of a request (create_remote_read_requests; the
\* chunks come sorted by rank), and the bytes that each of them holds.
RemoteReads(q) == {r \in Servers : \E p \in DOMAIN q.at : q.at[p] = r}
Chunks(q, r) == SelectSeq([p \in DOMAIN q.at |-> p], LAMBDA p : q.at[p] = r)

Running(pc) == rm.pc = pc /\ rm.wait = <<>>

\* The order of the loops over the slots and the servers of each.
Before(x, y) == x[1] < y[1] \/ (x[1] = y[1] /\ x[2] <= y[2])
First(x, S) == x \in S /\ \A y \in S : Before(x, y)

\* The remote reads that were not requested yet.
Unsent == {x \in inUse \X Servers : asked[x[1]][x[2]] = "ready"}

\* What the loops find from where they are: responses of started requests, and
\* requests that are complete.
Responses == {x \in inUse \X Servers : slot[x[1]].status = "started" /\ resp[x[1]][x[2]] # <<>>}
Completes == {<<i, 0>> : i \in {i \in inUse : slot[i].status = "complete"}}

Work == {x \in Responses \cup Completes : Before(rm.at, x)}

\* A pass of request_manager_thread begins; rm_process_client_requests takes the
\* list.  A pass that finds nothing to do leaves everything as it is.
RmTake ==
    /\ Running("take")
    /\ queue # <<>> \/ Unsent # {} \/ Work # {}
    /\ rm' = [rm EXCEPT !.pc = IF queue = <<>> THEN "request" ELSE "submit", !.batch = queue]
    /\ queue' = <<>>
    /\ UNCHANGED <<reqVars, clientVars, thread, hand, svcVars, posts, faults>>

Request == Head(rm.batch)
Submitting == Running("submit") /\ rm.k <= Len(Request.call)
Extent == Request.call[rm.k]

\* process_read_rpc answers; the thread may have given up.
Respond(ret) ==
    /\ rm' = [rm EXCEPT !.batch = Tail(@), !.k = 1, !.ret = "ok",
                        !.pc = IF Len(rm.batch) = 1 THEN "request" ELSE "submit"]
    /\ IF thread[Request.who].pc = "rpc" /\ thread[Request.who].id = Request.id
       THEN IF ret = "ok" THEN thread' = [thread EXCEPT ![Request.who].pc = "wait"]
            ELSE EndWait(Request.who, AllFailed(thread[Request.who].reqs))
       ELSE UNCHANGED thread

RmRespond ==
    /\ Running("submit")
    /\ rm.k > Len(Request.call)
    /\ Respond(rm.ret)
    /\ UNCHANGED <<reqVars, clientVars, hand, queue, svcVars, posts, faults>>

\* find_extents fails: submit_read_request returns at once.
RmFindFails ==
    /\ Submitting
    /\ Fault("find")
    /\ Respond("err")
    /\ UNCHANGED <<reqVars, clientVars, hand, queue, svcVars, posts>>

\* A mistake: an extent without data is passed over.
MutRmNoData ==
    /\ Submitting
    /\ RemoteReads(Extent) = {}
    /\ rm' = [rm EXCEPT !.k = @ + 1]
    /\ UNCHANGED <<reqVars, clientVars, thread, hand, queue, svcVars, posts, faults>>

\* The extent has no data, the client is told ENODATA.
RmNoData ==
    /\ Submitting
    /\ RemoteReads(Extent) = {}
    /\ Tell([op |-> "complete", id |-> Request.id, ndx |-> rm.k, err |-> "nodata"],
            [rm EXCEPT !.k = @ + 1])
    /\ UNCHANGED <<reqVars, clientVars, thread, queue, svcVars, posts, faults>>

\* rm_submit_read_request with a slot.
RmSubmit(i) ==
    /\ Submitting
    /\ RemoteReads(Extent) # {}
    /\ Reserve(i)
    /\ slot' = [slot EXCEPT ![i] = [status |-> "ready", id |-> Request.id, ndx |-> rm.k, req |-> Extent]]
    /\ asked' = [asked EXCEPT ![i] =
           [r \in Servers |-> IF r \in RemoteReads(Extent) THEN "ready" ELSE "none"]]
    /\ rm' = [rm EXCEPT !.k = @ + 1, !.ret = "ok"]
    /\ UNCHANGED <<clientVars, thread, hand, queue, resp, svcVars, posts, faults>>

\* rm_submit_read_request when no slot is left.
RmFull ==
    /\ Submitting
    /\ RemoteReads(Extent) # {}
    /\ num = MaxReads
    /\ rm' = [rm EXCEPT !.k = @ + 1, !.ret = "err"]
    /\ UNCHANGED <<reqVars, clientVars, thread, hand, queue, svcVars, posts, faults>>

------------------------------------------------------------------------------
(* The request manager: rm_request_remote_chunks, with RM_REQ_LOCK held. *)

Locked == rm.pc = "request"

\* The results of reading the chunks of a server in the logs: all of them, or
\* all but one.
AllRead(q, r) ==
    LET c == Chunks(q, r) IN [n \in DOMAIN c |-> [pos |-> c[n], ok |-> TRUE]]
OneFails(q, r) ==
    {[AllRead(q, r) EXCEPT ![n].ok = FALSE] : n \in DOMAIN Chunks(q, r)}

\* sm_issue_chunk_reads returns the results res.
ReadChunks(q, r, res) ==
    \/ res = AllRead(q, r) /\ UNCHANGED faults
    \/ res \in OneFails(q, r) /\ Fault("chunk")

\* invoke_chunk_read_request_rpc: the chunks of the server itself are read and
\* posted at once, the others are requested, and the request manager waits.
RmRequestLocal(i) ==
    /\ Running("request")
    /\ First(<<i, Me>>, Unsent)
    /\ \E res \in {AllRead(slot[i].req, Me)} \cup OneFails(slot[i].req, Me) :
        /\ ReadChunks(slot[i].req, Me, res)
        /\ resp' = [resp EXCEPT ![i][Me] = res]
    /\ slot' = [slot EXCEPT ![i].status = "started"]
    /\ asked' = [asked EXCEPT ![i][Me] = "started"]
    /\ UNCHANGED <<slotVars, clientVars, thread, hand, queue, rm, svcVars, posts>>

RmRequest(i, r) ==
    /\ Running("request")
    /\ First(<<i, r>>, Unsent)
    /\ slot' = [slot EXCEPT ![i].status = "started"]
    /\ asked' = [asked EXCEPT ![i][r] = "started"]
    /\ sreqs' = [sreqs EXCEPT ![r] = Append(@, [i |-> i, id |-> slot[i].id,
                  ndx |-> slot[i].ndx, req |-> slot[i].req])]
    /\ rm' = [rm EXCEPT !.wait = <<"peer", r, i>>]
    /\ UNCHANGED <<slotVars, clientVars, thread, hand, queue, resp, sbatch, sout, sbusy, posts, faults>>

\* The request cannot be made, or the other server cannot take it: the error is only
\* logged, the remote read counts as started and nobody will answer it.
RmRequestLost(i, r) ==
    /\ Running("request")
    /\ First(<<i, r>>, Unsent)
    /\ Fault("peer")
    /\ slot' = [slot EXCEPT ![i].status = "started"]
    /\ asked' = [asked EXCEPT ![i][r] = "lost"]
    /\ UNCHANGED <<slotVars, clientVars, thread, hand, queue, rm, resp, svcVars, posts>>

\* The slot goes back, with what was in it.
Clear(i) ==
    /\ Release(i)
    /\ slot' = [slot EXCEPT ![i] = Free]
    /\ asked' = [asked EXCEPT ![i] = [r \in Servers |-> "none"]]
    /\ resp' = [resp EXCEPT ![i] = [r \in Servers |-> <<>>]]

\* A mistake: the slot is given back when the request RPC fails.
MutRmPeerTimeout ==
    /\ Len(rm.wait) = 3
    /\ rm' = [rm EXCEPT !.wait = <<>>]
    /\ Clear(rm.wait[3])
    /\ UNCHANGED <<clientVars, thread, hand, queue, svcVars, posts, faults>>

\* The chunk_read_request RPC times out after the other server took the request; the
\* error is only logged, and the response is still expected.
RmPeerTimeout ==
    /\ Len(rm.wait) = 3
    /\ rm' = [rm EXCEPT !.wait = <<>>]
    /\ UNCHANGED <<reqVars, clientVars, thread, hand, queue, svcVars, posts, faults>>

RmRequestEnd ==
    /\ Running("request")
    /\ Unsent = {}
    /\ rm' = [rm EXCEPT !.pc = "answer", !.at = <<0, 0>>]
    /\ UNCHANGED <<reqVars, clientVars, thread, hand, queue, svcVars, posts, faults>>

------------------------------------------------------------------------------
(* The request manager: rm_process_remote_chunk_responses. *)

RmRelease(i) ==
    /\ Running("answer")
    /\ First(<<i, 0>>, Work) /\ slot[i].status = "complete"
    /\ Clear(i)
    /\ rm' = [rm EXCEPT !.at = <<i + 1, 0>>]
    /\ UNCHANGED <<clientVars, thread, hand, queue, svcVars, posts, faults>>

\* rm_handle_chunk_read_responses begins with the responses of server r.  They are
\* those of a started read and not empty (PathInv), so it has no other beginning.
RmHandle(i, r) ==
    /\ Running("answer")
    /\ First(<<i, r>>, Work) /\ slot[i].status = "started"
    /\ rm' = [rm EXCEPT !.pc = "deliver", !.at = <<i, r>>, !.todo = resp[i][r], !.sent = "ok"]
    /\ UNCHANGED <<reqVars, clientVars, thread, hand, queue, svcVars, posts, faults>>

\* send_data_to_client: the data, or the error, of one chunk.
RmSendData ==
    /\ Running("deliver")
    /\ rm.todo # <<>>
    /\ LET s == slot[rm.at[1]]
           c == Head(rm.todo)
       IN  Tell(IF c.ok THEN [op |-> "data", id |-> s.id, ndx |-> s.ndx, pos |-> c.pos,
                              of |-> <<s.id, s.ndx>>]
                ELSE [op |-> "complete", id |-> s.id, ndx |-> s.ndx, err |-> "err"],
                [rm EXCEPT !.todo = Tail(@)])
    /\ UNCHANGED <<reqVars, clientVars, thread, queue, svcVars, posts, faults>>

\* The responses of server r are handled; whether those of all servers are.
Handled(i, r) ==
    /\ asked' = [asked EXCEPT ![i][r] = "complete"]
    /\ resp' = [resp EXCEPT ![i][r] = <<>>]
AllHandled(i) == \A q \in Servers : asked'[i][q] \in {"none", "complete"}

TellComplete(i, next_rm) ==
    Tell([op |-> "complete", id |-> slot[i].id, ndx |-> slot[i].ndx, err |-> rm.sent], next_rm)

\* After the responses of the last server the client is told that the request is
\* complete; the loop over the servers goes on in the other case.
RmHandled ==
    LET i == rm.at[1]
        r == rm.at[2]
    IN  /\ Running("deliver")
        /\ rm.todo = <<>>
        /\ Handled(i, r)
        /\ \/ /\ AllHandled(i)
              /\ slot' = [slot EXCEPT ![i].status = "complete"]
              /\ TellComplete(i, [rm EXCEPT !.pc = "answer", !.at = <<i + 1, 0>>])
           \/ /\ ~AllHandled(i)
              /\ rm' = [rm EXCEPT !.pc = "answer", !.at = <<i, r + 1>>]
              /\ UNCHANGED <<slot, hand>>
        /\ UNCHANGED <<slotVars, clientVars, thread, queue, svcVars, posts, faults>>

RmAnswerEnd ==
    /\ Running("answer")
    /\ Work = {}
    /\ rm' = [rm EXCEPT !.pc = "take", !.at = <<0, 0>>]
    /\ UNCHANGED <<reqVars, clientVars, thread, hand, queue, svcVars, posts, faults>>

------------------------------------------------------------------------------
(* The service managers of the other servers, and the way back. *)

\* process_service_requests takes the list, after the responses are sent.
SvcTake(r) ==
    /\ sbatch[r] = <<>> /\ sout[r] = <<>> /\ sreqs[r] # <<>>
    /\ sbatch' = [sbatch EXCEPT ![r] = sreqs[r]]
    /\ sreqs' = [sreqs EXCEPT ![r] = <<>>]
    /\ UNCHANGED <<reqVars, clientVars, thread, hand, queue, rm, sout, sbusy, posts, faults>>

\* process_chunk_read_rpc reads the chunks and answers the request.
SvcRead(r) ==
    LET m == Head(sbatch[r])
    IN  /\ sbatch[r] # <<>>
        /\ \E res \in {AllRead(m.req, r)} \cup OneFails(m.req, r) :
            /\ ReadChunks(m.req, r, res)
            /\ sout' = [sout EXCEPT ![r] = Append(@, [i |-> m.i, id |-> m.id, ndx |-> m.ndx, res |-> res])]
        /\ sbatch' = [sbatch EXCEPT ![r] = Tail(@)]
        /\ rm' = IF rm.wait = <<"peer", r, m.i>> THEN [rm EXCEPT !.wait = <<>>] ELSE rm
        /\ UNCHANGED <<reqVars, clientVars, thread, hand, queue, sreqs, sbusy, posts>>

\* send_chunk_read_responses: invoke_chunk_read_response_rpc; the handler at the
\* server of the client pulls the data.
SvcSend(r) ==
    LET m == Head(sout[r])
    IN  /\ sbatch[r] = <<>> /\ sout[r] # <<>> /\ ~sbusy[r]
        /\ sbusy' = [sbusy EXCEPT ![r] = TRUE]
        /\ posts' = posts \cup {[from |-> r, i |-> m.i, id |-> m.id, ndx |-> m.ndx, res |-> m.res]}
        /\ UNCHANGED <<reqVars, clientVars, thread, hand, queue, rm, sreqs, sbatch, sout, faults>>

\* The service manager goes on to the next response.
Sent(r) ==
    /\ sbusy' = [sbusy EXCEPT ![r] = FALSE]
    /\ sout' = [sout EXCEPT ![r] = Tail(@)]

\* rm_post_chunk_read_responses, which takes RM_REQ_LOCK.
Post(p) ==
    /\ ~Locked
    /\ posts' = posts \ {p}
    /\ resp' = IF asked[p.i][p.from] # "none" THEN [resp EXCEPT ![p.i][p.from] = p.res] ELSE resp
    /\ IF sbusy[p.from] /\ Head(sout[p.from]).i = p.i THEN Sent(p.from) ELSE UNCHANGED <<sbusy, sout>>
    /\ UNCHANGED <<slotVars, clientVars, thread, hand, queue, rm, slot, asked, sreqs, sbatch, faults>>

\* The chunk_read_response RPC times out at the sender, which frees the data; the
\* handler has pulled them.
SvcTimeout(r) ==
    /\ sbusy[r]
    /\ Sent(r)
    /\ UNCHANGED <<reqVars, clientVars, thread, hand, queue, rm, sreqs, sbatch, posts, faults>>

\* The response cannot be sent, or the handler cannot pull the data, be it because
\* the sender timed out and freed them: nothing is posted.
SvcLost(r) ==
    LET m == Head(sout[r])
    IN  /\ sbatch[r] = <<>> /\ sout[r] # <<>> /\ ~sbusy[r]
        /\ Fault("peer")
        /\ sout' = [sout EXCEPT ![r] = Tail(@)]
        /\ asked' = [asked EXCEPT ![m.i][r] = "lost"]
        /\ UNCHANGED <<slotVars, slot, resp, clientVars, thread, hand, queue, rm, sreqs, sbatch,
                       sbusy, posts>>

------------------------------------------------------------------------------
Client(t) == WaitDone(t) \/ Remove(t)
ClientTimeout(t) == WaitTimeout(t) \/ CallTimeout(t)

RequestManager ==
    \/ RmTake \/ RmRespond \/ RmFindFails \/ RmNoData \/ RmFull
    \/ RmRequestEnd \/ RmSendData \/ RmHandled \/ RmAnswerEnd
    \/ \E i \in Slots : RmSubmit(i) \/ RmRequestLocal(i) \/ RmRelease(i)
    \/ \E i \in Slots, r \in Peers : RmRequest(i, r)
    \/ \E i \in Slots, r \in Servers : RmHandle(i, r)

ServiceManager(r) == SvcTake(r) \/ SvcRead(r) \/ SvcSend(r)

Next ==
    \/ \E t \in Threads : \/ Client(t) \/ ClientTimeout(t) \/ Refused(t)
                          \/ \E c \in Calls[t] : Start(t, c)
    \/ \E h \in hand : Lookup(h) \/ Handle(h) \/ RpcFails(h)
    \/ RequestManager \/ RmPeerTimeout
    \/ \E i \in Slots, r \in Servers : RmRequestLost(i, r)
    \/ \E r \in Peers : ServiceManager(r) \/ SvcTimeout(r) \/ SvcLost(r)
    \/ \E p \in posts : Post(p)

Spec == Init /\ [][Next]_vars

\* Threads and handlers run, and RPCs between servers time out (margo_wait); no
\* thread counts on its own timeout.
Fairness ==
    /\ \A t \in Threads : WF_vars(Client(t))
    /\ WF_vars(RequestManager) /\ WF_vars(RmPeerTimeout)
    /\ \A r \in Peers : WF_vars(ServiceManager(r)) /\ WF_vars(SvcTimeout(r))
    /\ WF_vars(\E h \in hand : Lookup(h) \/ Handle(h))
    /\ WF_vars(\E p \in posts : Post(p))

FairSpec == Spec /\ Fairness

------------------------------------------------------------------------------
(* Properties *)

Errors == {"progress", "ok", "nodata", "err", "timeout"}

\* Type invariant of the read path.
TypeOK ==
    /\ SlotsTypeOK
    /\ \A k \in DOMAIN active : active[k] = None \/ (active[k] \in Nat /\ active[k] % MaxActive = k)
    /\ \A t \in Threads : /\ thread[t].pc \in {"idle", "rpc", "wait", "fill", "returned"}
                          /\ \A k \in DOMAIN thread[t].reqs : thread[t].reqs[k].err \in Errors
    /\ rm.pc \in {"take", "submit", "request", "answer", "deliver"}
    /\ rm.pc = "submit" => rm.batch # <<>>
    /\ inUse = {i \in Slots : slot[i].status # "free"}

\* A request that process_gfid_reads reports as read has the bytes of the file,
\* zeros in its holes, up to the end of the file, and nothing of another read.  This
\* is for reads of which no chunk and no RPC to the client failed: a failed RPC with
\* data is forgotten unless it was one of the last server's that answered.
Exact(r, q, src) ==
    LET end == IF Len(q.at) < q.eof THEN Len(q.at) ELSE q.eof
    IN  /\ r.nread = end
        /\ \A p \in 1 .. end : IF q.at[p] = Hole THEN p \in r.zero
                               ELSE p \notin r.zero /\ [pos |-> p, of |-> src] \in r.cover
        /\ \A d \in r.cover : d.of = src
ReadExact ==
    \A t \in Threads : thread[t].pc \in {"fill", "returned"} =>
        \A k \in DOMAIN thread[t].reqs : thread[t].reqs[k].err = "ok" =>
            Exact(thread[t].reqs[k], thread[t].call[k], <<thread[t].id, k>>)

\* n_complete is the number of completed requests, as its declaration in
\* client_read.h says: none is counted twice, or the read would end early or
\* never be complete.
CountExact == \A t \in Threads : thread[t].complete = Cardinality(thread[t].fin)

\* A response on its way finds the slot that asked for it: the slot is not given
\* back to another read while a response may come, whatever times out
\* (rm_post_chunk_read_responses goes by the index of the slot alone).
RightSlot ==
    \A p \in posts : /\ slot[p.i].status = "started"
                     /\ slot[p.i].id = p.id /\ slot[p.i].ndx = p.ndx
                     /\ asked[p.i][p.from] = "started" /\ resp[p.i][p.from] = <<>>

\* Every read returns without its own timeout, although the request manager
\* holds RM_REQ_LOCK while it waits for a service manager that may itself be
\* waiting for a handler that needs this lock: the timeouts between servers end
\* such a wait; it never ends when a request or a response between servers is lost.
ReadsReturn == \A t \in Threads : (thread[t].pc \in {"rpc", "wait"}) ~> (thread[t].pc = "returned")

\* A slot that waits for a server whose request or response was lost: it is never
\* given back, nothing in the request manager times out.
Waiting(i) == \E r \in Servers : asked[i][r] = "lost"

\* Every other slot comes back in the end (release_read_req).
SlotsComeBack == []<>(\A i \in inUse : Waiting(i))

------------------------------------------------------------------------------
(* The inductive invariant behind RightSlot *)

IsSeq(s) == s \in Seq({s[k] : k \in DOMAIN s})

\* The shape of the variables that the proof is about.
SlotShape ==
    /\ slot = [i \in Slots |-> [status |-> slot[i].status, id |-> slot[i].id,
                                ndx |-> slot[i].ndx, req |-> slot[i].req]]
    /\ asked \in [Slots -> [Servers -> {"none", "ready", "started", "complete", "lost"}]]
    /\ resp = [i \in Slots |-> [r \in Servers |-> resp[i][r]]]
SvcShape ==
    /\ sreqs = [r \in Peers |-> sreqs[r]]
    /\ sbatch = [r \in Peers |-> sbatch[r]]
    /\ sout = [r \in Peers |-> sout[r]]
    /\ sbusy \in [Peers -> BOOLEAN]
    /\ \A r \in Peers : IsSeq(sreqs[r]) /\ IsSeq(sbatch[r]) /\ IsSeq(sout[r])
Shape == SlotShape /\ SvcShape /\ {"pc", "at"} \subseteq DOMAIN rm

\* A message of server r is one that its slot is waiting for.
Awaited(m, r) ==
    /\ m.i \in Slots
    /\ slot[m.i].status = "started" /\ slot[m.i].id = m.id /\ slot[m.i].ndx = m.ndx
    /\ asked[m.i][r] = "started" /\ resp[m.i][r] = <<>>
AllAwaited(s, r) == \A k \in DOMAIN s : Awaited(s[k], r)

\* There is one message for each slot at each server.
Distinct(s) == \A a, b \in DOMAIN s : s[a].i = s[b].i => a = b
Apart(s, t) == \A a \in DOMAIN s, b \in DOMAIN t : s[a].i # t[b].i

\* What is at the service manager of server r.
AtServer(r) ==
    /\ AllAwaited(sreqs[r], r) /\ AllAwaited(sbatch[r], r) /\ AllAwaited(sout[r], r)
    /\ Distinct(sreqs[r]) /\ Distinct(sbatch[r]) /\ Distinct(sout[r])
    /\ Apart(sreqs[r], sbatch[r]) /\ Apart(sreqs[r], sout[r]) /\ Apart(sbatch[r], sout[r])
    /\ sbusy[r] => sout[r] # <<>>

\* A response that was sent is the one its server waits for, or its server gave
\* up and has nothing more for the slot.
OnTheWay(p) ==
    /\ p.from \in Peers
    /\ Awaited(p, p.from)
    /\ \A k \in DOMAIN sreqs[p.from] : sreqs[p.from][k].i # p.i
    /\ \A k \in DOMAIN sbatch[p.from] : sbatch[p.from][k].i # p.i
    /\ \A k \in DOMAIN sout[p.from] : sout[p.from][k].i = p.i => k = 1 /\ sbusy[p.from]
    /\ \A q \in posts : q.from = p.from /\ q.i = p.i => q = p

\* Only a read that was requested has a response, and a slot that is free or
\* complete waits for none.
Settled(i, r) ==
    /\ asked[i][r] # "started" => resp[i][r] = <<>>
    /\ slot[i].status \in {"free", "complete"} => asked[i][r] # "started"

PathInv ==
    /\ SlotInv
    /\ Shape
    /\ inUse = {i \in Slots : slot[i].status # "free"}
    /\ \A i \in Slots, r \in Servers : Settled(i, r)
    /\ rm.pc = "deliver" =>
          rm.at[1] \in Slots /\ rm.at[2] \in Servers /\ resp[rm.at[1]][rm.at[2]] # <<>>
    /\ \A r \in Peers : AtServer(r)
    /\ \A p \in posts : OnTheWay(p)
=============================================================================
