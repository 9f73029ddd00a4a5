------------------------------ MODULE MCReadPath ------------------------------
(* Model checking of ReadPath: two threads, the server of the client (rank 0)  *)
(* and another one.  The initial value of "part" says what may fail: a lookup  *)
(* of extents, the call of a thread, its wait or a message between the         *)
(* servers; or the read of a chunk, an RPC to the client or a wait.            *)
EXTENDS ReadPath

Both == [at |-> <<0, 1>>, eof |-> 2]
HoleFirst == [at |-> <<Hole, 1>>, eof |-> 2]
NoData == [at |-> <<Hole>>, eof |-> 1]
Short == [at |-> <<1, Hole, Hole>>, eof |-> 2]

TwoThreads == <<{<<Both, NoData>>}, {<<HoleFirst>>, <<Short>>}>>
OneThread == <<{<<Both>>}>>

ChunkFaults == INSTANCE ReadPath WITH Faults <- {"chunk", "rpc", "wait"}

VARIABLE part

Run(a, b) == (part = "lookup" /\ a) \/ (part = "chunk" /\ b)

ReadsSpec ==
    /\ part \in {"lookup", "chunk"} /\ Init
    /\ [][UNCHANGED part /\ Run(Next, ChunkFaults!Next)]_<<part, vars>>
    /\ \A t \in Threads : WF_vars(Run(Client(t), ChunkFaults!Client(t)))
    /\ WF_vars(Run(RequestManager, ChunkFaults!RequestManager))
    /\ WF_vars(Run(RmPeerTimeout, ChunkFaults!RmPeerTimeout))
    /\ \A r \in Peers : /\ WF_vars(Run(ServiceManager(r), ChunkFaults!ServiceManager(r)))
                         /\ WF_vars(Run(SvcTimeout(r), ChunkFaults!SvcTimeout(r)))
    /\ WF_vars(\E h \in hand : Run(Lookup(h) \/ Handle(h), ChunkFaults!Lookup(h) \/ ChunkFaults!Handle(h)))
    /\ WF_vars(\E p \in posts : Run(Post(p), ChunkFaults!Post(p)))

\* Where no read of a chunk and no RPC to the client fails, what a read returns as
\* success is what the file holds, and no request is counted as complete twice: also
\* when a wait timed out, a lookup failed or messages between the servers were lost.
LookupsReadExact == part = "lookup" => ReadExact /\ CountExact

\* Every read returns without its own timeout, although the request manager holds
\* RM_REQ_LOCK while it waits for a service manager that may itself be waiting for a
\* handler that needs this lock; and every slot comes back (release_read_req), also
\* when the read of a chunk failed.  The exceptions are slots that wait for a lost
\* message and their reads.  Calls are bounded here, so "again and again nothing is
\* in progress" says that each of them ends.
ReadsEnd ==
    []<>(/\ \A i \in inUse : Waiting(i)
         /\ part = "lookup" => \A t \in Threads :
              \/ thread[t].pc \notin {"rpc", "wait"}
              \/ \E i \in inUse : slot[i].id = thread[t].id /\ Waiting(i))
=============================================================================
