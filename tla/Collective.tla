------------------------------ MODULE Collective ------------------------------
(***************************************************************************)
(* One collective operation of the servers (server/src/unifyfs_group_rpc.c *)
(* and the process_*_bcast_rpc functions of unifyfs_service_manager.c):    *)
(* the root sends a request down the broadcast tree, the handler on each   *)
(* server forwards it to its children and queues the local part for the    *)
(* service manager thread, and a progress ULT gathers the replies of the   *)
(* children and answers the parent.                                        *)
(*                                                                         *)
(* Kind says which family of invocation the root uses:                     *)
(*   "async"   fileattr, laminate, truncate, unlink, extents, transfer:    *)
(*             the caller does not wait for the replies;                   *)
(*   "wait"    bootstrap: the caller waits on a condition variable;        *)
(*   "gather"  metaget_all: as "wait", and the replies carry the file      *)
(*             attributes that each server owns.                           *)
(***************************************************************************)
EXTENDS BcastTree

CONSTANTS
    Kind,
    MaxFaults,   \* bound on failed forwards, requests, local parts, answers
    CanTimeout   \* may the timers of the RPCs and of the caller expire?

ASSUME KindAssumption == Kind \in {"async", "wait", "gather"}
ASSUME FaultAssumption == MaxFaults \in Nat /\ CanTimeout \in BOOLEAN

VARIABLES
    root,    \* rank that invokes the collective
    inbox,   \* servers that a forwarded request has reached, handler not yet run
    recv,    \* how often the handler ran on each server
    st,      \* where the collective stands on each server
    mem,     \* the coll_request of each server: not allocated, live, freed
    pend,    \* children whose reply the progress ULT still waits for
    out,     \* ret field of the output structure
    files,   \* servers whose file attributes are in the output structure
    reply,   \* reply sent to the parent
    ran,     \* servers that executed the local part
    unheard, \* servers whose answer the parent did not take in
    unmerged,\* servers whose answer came up without the files
    inv,     \* the caller at the root
    result,  \* what the caller of the collective got
    faults   \* failures so far

vars == <<root, inbox, recv, st, mem, pend, out, files, reply, ran, unheard,
          unmerged, inv, result, faults>>

States  == {"none", "queued", "progress", "signalled", "done", "failed", "stuck",
            "lost"}
Replies == {"none", "ok", "err"}

\* The collective uses coll_request memory in these states.
InUse == {"queued", "progress", "signalled"}

Kids(s) == Children(s, root)

Init ==
    /\ root \in Servers
    /\ inbox = {}
    /\ recv = [s \in Servers |-> 0]
    /\ st = [s \in Servers |-> "none"]
    /\ mem = [s \in Servers |-> "none"]
    /\ pend = [s \in Servers |-> {}]
    /\ out = [s \in Servers |-> "ok"]
    /\ files = [s \in Servers |-> {}]
    /\ reply = [s \in Servers |-> "none"]
    /\ ran = {}
    /\ unheard = {}
    /\ unmerged = {}
    /\ inv = "idle"
    /\ result = "none"
    /\ faults = 0

\* A failure happens, within the bound.
Fault == faults < MaxFaults /\ faults' = faults + 1

\* collective_forward: the request goes to every child, whatever happened to
\* the previous one; it fails when one of them could not be sent.
ForwardTo(s, failed) ==
    /\ failed \subseteq Kids(s)
    /\ IF failed = {} THEN UNCHANGED faults ELSE Fault

------------------------------------------------------------------------------
(* The root: unifyfs_invoke_broadcast_xxx. *)

\* collective_create, collective_forward and the start of the progress ULT,
\* which may fail when the children already have the request.  The waiting
\* kinds take the mutex of the condition before the ULT starts.
Invoke ==
    /\ inv = "idle"
    /\ \E failed \in SUBSET Kids(root), started \in BOOLEAN :
        /\ IF started THEN ForwardTo(root, failed) ELSE failed = {} /\ Fault
        /\ inbox' = Kids(root) \ failed
        /\ IF failed = {} /\ started
           THEN /\ st' = [st EXCEPT ![root] = "progress"]
                /\ pend' = [pend EXCEPT ![root] = Kids(root)]
                /\ mem' = [mem EXCEPT ![root] = "live"]
                /\ inv' = IF Kind = "async" THEN "returned" ELSE "locked"
                /\ result' = IF Kind = "async" THEN "ok" ELSE "none"
           ELSE /\ st' = [st EXCEPT ![root] = "failed"]
                /\ pend' = pend
                /\ mem' = [mem EXCEPT ![root] = IF Kind = "async" THEN "live"
                                                ELSE "freed"]
                /\ inv' = "returned"
                /\ result' = "err"
    /\ UNCHANGED <<root, recv, out, files, reply, ran, unheard, unmerged>>

\* ABT_cond_timedwait releases the mutex; metaget_all first collects the files
\* that the root owns itself.
CondWait ==
    /\ inv = "locked"
    /\ inv' = "waiting"
    /\ UNCHANGED <<root, inbox, recv, st, mem, pend, out, files, reply, ran,
                   unheard, unmerged, result, faults>>

\* unifyfs_get_owned_files failed: the error exit unlocks the mutex.
OwnedFilesFail ==
    /\ Kind = "gather"
    /\ inv = "locked"
    /\ Fault
    /\ inv' = "cleanup"
    /\ result' = "err"
    /\ UNCHANGED <<root, inbox, recv, st, mem, pend, out, files, reply, ran,
                   unheard, unmerged>>

\* The caller's own timer (5 s for bootstrap, 10 s for metaget_all) expires.
CallerTimeout ==
    /\ CanTimeout
    /\ inv = "waiting"
    /\ inv' = "cleanup"
    /\ result' = "timeout"
    /\ UNCHANGED <<root, inbox, recv, st, mem, pend, out, files, reply, ran,
                   unheard, unmerged, faults>>

\* A mistake: freeing without margo_wait on the progress request.
MutCallerCleanup ==
    /\ inv = "cleanup"
    /\ mem' = [mem EXCEPT ![root] = "freed"]
    /\ inv' = "returned"
    /\ UNCHANGED <<root, inbox, recv, st, pend, out, files, reply, ran, unheard,
                   unmerged, result, faults>>

\* collective_cleanup by the caller: it waits for the answer of the progress ULT.
CallerCleanup ==
    /\ inv = "cleanup"
    /\ st[root] \in {"done", "lost"}
    /\ mem' = [mem EXCEPT ![root] = "freed"]
    /\ inv' = "returned"
    /\ UNCHANGED <<root, inbox, recv, st, pend, out, files, reply, ran, unheard,
                   unmerged, result, faults>>

------------------------------------------------------------------------------
(* The other servers: the xxx_bcast_rpc handlers. *)

Handled(s) ==
    /\ s \in inbox
    /\ recv' = [recv EXCEPT ![s] = @ + 1]

\* The handler cannot read its input, pull the bulk data or allocate memory:
\* it answers with the error and forwards nothing.
HandlerReject(s) ==
    /\ Handled(s)
    /\ Fault
    /\ inbox' = inbox \ {s}
    /\ st' = [st EXCEPT ![s] = "failed"]
    /\ reply' = [reply EXCEPT ![s] = "err"]
    /\ UNCHANGED <<root, mem, pend, out, files, ran, unheard, unmerged, inv,
                   result>>

\* The handler forwards the request and queues the local part.  When a child
\* could not be reached it answers with the error and drops the collective; the
\* other children already have the request.
Handler(s) ==
    /\ Handled(s)
    /\ \E failed \in SUBSET Kids(s) :
        /\ ForwardTo(s, failed)
        /\ inbox' = (inbox \ {s}) \cup (Kids(s) \ failed)
        /\ IF failed = {}
           THEN /\ st' = [st EXCEPT ![s] = "queued"]
                /\ pend' = [pend EXCEPT ![s] = Kids(s)]
                /\ mem' = [mem EXCEPT ![s] = "live"]
                /\ UNCHANGED reply
           ELSE /\ st' = [st EXCEPT ![s] = "failed"]
                /\ mem' = [mem EXCEPT ![s] = "freed"]
                /\ reply' = [reply EXCEPT ![s] = "err"]
                /\ UNCHANGED pend
    /\ UNCHANGED <<root, out, files, ran, unheard, unmerged, inv, result>>

\* The service manager executes the local part and starts the progress ULT.
LocalOp(s) ==
    /\ st[s] = "queued"
    /\ ran' = ran \cup {s}
    /\ files' = [files EXCEPT ![s] = @ \cup IF Kind = "gather" THEN {s} ELSE {}]
    /\ st' = [st EXCEPT ![s] = "progress"]
    /\ UNCHANGED <<root, inbox, recv, mem, pend, out, reply, unheard, unmerged,
                   inv, result, faults>>

\* The local part fails: its error becomes the return value of the output and
\* the collective goes on.
LocalOpFail(s) ==
    /\ Kind # "gather"
    /\ st[s] = "queued"
    /\ Fault
    /\ out' = [out EXCEPT ![s] = "err"]
    /\ st' = [st EXCEPT ![s] = "progress"]
    /\ UNCHANGED <<root, inbox, recv, mem, pend, files, reply, ran, unheard,
                   unmerged, inv, result>>

\* process_metaget_bcast_rpc returns early, invoke_bcast_progress_rpc fails or
\* the progress ULT cannot read its input: nobody ever answers the parent.
LocalOpStuck(s) ==
    /\ st[s] = "queued"
    /\ Fault
    /\ st' = [st EXCEPT ![s] = "stuck"]
    /\ \/ UNCHANGED ran
       \/ ran' = ran \cup {s}
    /\ UNCHANGED <<root, inbox, recv, mem, pend, out, files, reply, unheard,
                   unmerged, inv, result>>

------------------------------------------------------------------------------
(* The progress ULT: bcast_progress_rpc and collective_finish. *)

\* A mistake: the error of a child is not passed on.
MutChildResponse(s, c) ==
    /\ st[s] = "progress"
    /\ c \in pend[s]
    /\ reply[c] # "none"
    /\ pend' = [pend EXCEPT ![s] = @ \ {c}]
    /\ files' = [files EXCEPT ![s] = @ \cup files[c]]
    /\ UNCHANGED <<root, inbox, recv, st, mem, out, reply, ran, unheard,
                   unmerged, inv, result, faults>>

\* get_child_response: an error of a child overrides the output; the file
\* attributes of the child are appended.
ChildResponse(s, c) ==
    /\ st[s] = "progress"
    /\ c \in pend[s]
    /\ reply[c] # "none"
    /\ pend' = [pend EXCEPT ![s] = @ \ {c}]
    /\ out' = [out EXCEPT ![s] = IF reply[c] = "err" THEN "err" ELSE @]
    /\ files' = [files EXCEPT ![s] = @ \cup files[c]]
    /\ UNCHANGED <<root, inbox, recv, st, mem, reply, ran, unheard, unmerged,
                   inv, result, faults>>

\* The answer of the child cannot be decoded: the error stays in the return value
\* of get_child_response and the output is not touched.
ChildUnread(s, c) ==
    /\ st[s] = "progress"
    /\ c \in pend[s]
    /\ reply[c] # "none"
    /\ Fault
    /\ pend' = [pend EXCEPT ![s] = @ \ {c}]
    /\ unheard' = unheard \cup {c}
    /\ UNCHANGED <<root, inbox, recv, st, mem, out, files, reply, ran, unmerged,
                   inv, result>>

\* merge_metaget_all_bcast_outputs fails (memory, bulk transfer): its result is
\* ignored, the attributes of the child are dropped.
ChildUnmerged(s, c) ==
    /\ Kind = "gather"
    /\ st[s] = "progress"
    /\ c \in pend[s]
    /\ reply[c] # "none"
    /\ Fault
    /\ pend' = [pend EXCEPT ![s] = @ \ {c}]
    /\ out' = [out EXCEPT ![s] = IF reply[c] = "err" THEN "err" ELSE @]
    /\ unmerged' = unmerged \cup {c}
    /\ UNCHANGED <<root, inbox, recv, st, mem, files, reply, ran, unheard, inv,
                   result>>

\* margo_wait_any fails because the request to a child timed out: the loop ends
\* without touching the output, and the children not yet taken in are dropped,
\* those that answered or will answer in time too.
WaitFails(s) ==
    /\ CanTimeout
    /\ st[s] = "progress"
    /\ pend[s] # {}
    /\ pend' = [pend EXCEPT ![s] = {}]
    /\ unheard' = unheard \cup pend[s]
    /\ UNCHANGED <<root, inbox, recv, st, mem, out, files, reply, ran, unmerged,
                   inv, result, faults>>

\* The progress ULT of the root cannot read its input: it answers its own RPC
\* and nobody takes in the children.  The output and the memory stay.
ProgressLost ==
    /\ st[root] = "progress"
    /\ pend[root] = Kids(root)
    /\ Fault
    /\ st' = [st EXCEPT ![root] = "lost"]
    /\ UNCHANGED <<root, inbox, recv, mem, pend, out, files, reply, ran,
                   unheard, unmerged, inv, result>>

\* The end of collective_finish on a server with a parent, and the cleanup.
Finish(s) ==
    /\ s # root
    /\ st[s] = "progress"
    /\ pend[s] = {}
    /\ reply' = [reply EXCEPT ![s] = out[s]]
    /\ st' = [st EXCEPT ![s] = "done"]
    /\ mem' = [mem EXCEPT ![s] = "freed"]
    /\ UNCHANGED <<root, inbox, recv, pend, out, files, ran, unheard, unmerged,
                   inv, result, faults>>

\* An asynchronous collective ends at the root.
FinishAsync ==
    /\ Kind = "async"
    /\ st[root] = "progress"
    /\ pend[root] = {}
    /\ st' = [st EXCEPT ![root] = "done"]
    /\ mem' = [mem EXCEPT ![root] = "freed"]
    /\ UNCHANGED <<root, inbox, recv, pend, out, files, reply, ran, unheard,
                   unmerged, inv, result, faults>>

\* A mistake: the condition is signalled without taking its mutex.
MutSignal ==
    /\ Kind # "async"
    /\ st[root] = "progress"
    /\ pend[root] = {}
    /\ st' = [st EXCEPT ![root] = "signalled"]
    /\ inv' = IF inv = "waiting" THEN "cleanup" ELSE inv
    /\ result' = IF inv = "waiting" THEN "ok" ELSE result
    /\ UNCHANGED <<root, inbox, recv, mem, pend, out, files, reply, ran,
                   unheard, unmerged, faults>>

\* collective_finish at the root of a waiting kind takes the mutex, so the
\* caller is waiting or gone, and signals the condition.  The return values of
\* the children are only logged.
Signal ==
    /\ Kind # "async"
    /\ st[root] = "progress"
    /\ pend[root] = {}
    /\ inv # "locked"
    /\ st' = [st EXCEPT ![root] = "signalled"]
    /\ inv' = IF inv = "waiting" THEN "cleanup" ELSE inv
    /\ result' = IF inv = "waiting" THEN "ok" ELSE result
    /\ UNCHANGED <<root, inbox, recv, mem, pend, out, files, reply, ran,
                   unheard, unmerged, faults>>

\* bcast_progress_rpc answers its own RPC; it no longer touches the collective.
ProgressRespond ==
    /\ st[root] = "signalled"
    /\ st' = [st EXCEPT ![root] = "done"]
    /\ UNCHANGED <<root, inbox, recv, mem, pend, out, files, reply, ran,
                   unheard, unmerged, inv, result, faults>>

------------------------------------------------------------------------------
AtRoot == \/ Invoke \/ CondWait \/ OwnedFilesFail \/ CallerTimeout \/ CallerCleanup
          \/ ProgressLost \/ FinishAsync \/ Signal \/ ProgressRespond

AtServer(s) == \/ HandlerReject(s) \/ Handler(s) \/ LocalOp(s) \/ LocalOpFail(s)
               \/ LocalOpStuck(s) \/ WaitFails(s) \/ Finish(s)
               \/ \E c \in Servers : \/ ChildResponse(s, c) \/ ChildUnread(s, c)
                                    \/ ChildUnmerged(s, c)

Next == AtRoot \/ \E s \in Servers : AtServer(s)

Spec == Init /\ [][Next]_vars

\* The handlers, the service manager and the ULTs are scheduled, the timers of
\* RPCs that are not answered expire, and so does the timer of a caller whose
\* progress ULT is lost.
Fairness ==
    /\ WF_vars(Invoke) /\ WF_vars(CondWait) /\ WF_vars(CallerCleanup)
    /\ WF_vars(FinishAsync) /\ WF_vars(Signal) /\ WF_vars(ProgressRespond)
    /\ WF_vars(CallerTimeout /\ st[root] = "lost")
    /\ \A s \in Servers :
        /\ WF_vars(Handler(s)) /\ WF_vars(LocalOp(s)) /\ WF_vars(Finish(s))
        /\ WF_vars(WaitFails(s))
        /\ \A c \in Servers : WF_vars(ChildResponse(s, c))

FairSpec == Spec /\ Fairness

------------------------------------------------------------------------------
(* Properties. *)

\* Type invariant of the collective.
TypeOK ==
    /\ root \in Servers
    /\ inbox \subseteq Servers
    /\ recv \in [Servers -> Nat]
    /\ st \in [Servers -> States]
    /\ mem \in [Servers -> {"none", "live", "freed"}]
    /\ pend \in [Servers -> SUBSET Servers]
    /\ out \in [Servers -> {"ok", "err"}]
    /\ files \in [Servers -> SUBSET Servers]
    /\ reply \in [Servers -> Replies]
    /\ ran \subseteq Servers
    /\ unheard \subseteq Servers
    /\ unmerged \subseteq Servers
    /\ inv \in {"idle", "locked", "waiting", "cleanup", "returned"}
    /\ result \in {"none", "ok", "err", "timeout"}
    /\ faults \in Nat

\* The views that the servers compute of the tree (unifyfs_tree_init) fit
\* together: no server handles the request of one collective twice, and the
\* root never gets its own request back.
HandledAtMostOnce == \A s \in Servers : recv[s] <= IF s = root THEN 0 ELSE 1

\* A server that answered its parent with success (collective_finish) executed
\* its part, and every child whose answer it took in had answered with success;
\* of these it passes on the attributes too, except where the merge failed.  A
\* child that times out or whose answer cannot be decoded leaves no error in the
\* output (wait_for_all_child_requests, get_child_response): success says nothing
\* about it.
SuccessCoversChildren ==
    \A s \in Servers : reply[s] = "ok" =>
        /\ s \in ran
        /\ \A c \in Kids(s) \ unheard :
              reply[c] = "ok" /\ (c \notin unmerged => files[c] \subseteq files[s])

\* A set of servers that has the root and with a server its parent.
ReachesRoot(S) == root \in S /\ \A s \in S \ {root} : Parent(s, root) \in S

\* When the progress ULT of the root is through and its output has no error, every
\* server with an unbroken chain of answers to the root executed its part of the
\* collective, and metaget_all has the attributes of every server for which every
\* merge on the way succeeded.  (The root has an output only for metaget_all; for
\* the other kinds out[root] stands for the return value of get_child_response.)
CompleteAtRoot ==
    (st[root] \in {"signalled", "done"} /\ out[root] = "ok") =>
        \A S \in SUBSET Servers : ReachesRoot(S) /\ S \cap unheard = {} =>
            /\ S \ {root} \subseteq ran
            /\ Kind = "gather" /\ S \cap unmerged = {} =>
                   S \ {root} \subseteq files[root]

\* The coll_request is not freed while the service manager or the progress ULT
\* still works with it (the reasoning in the comments of bcast_progress_rpc).
NoUseAfterFree == \A s \in Servers : st[s] \in InUse => mem[s] = "live"

\* The signal of collective_finish is not lost: once it is sent, the caller is
\* not waiting for it any more (the comment on locking before signalling).
SignalNotLost == st[root] \in {"signalled", "done"} => inv \notin {"locked", "waiting"}

\* The caller of a waiting collective always gets its thread back, whatever
\* fails below and, unless the progress ULT itself is lost, even if its own timer
\* (ABT_cond_timedwait) never expires: the timers of the RPCs to the children and
\* the signal of collective_finish see to it.
CallerReturns == (inv = "locked") ~> (inv = "returned")

\* As long as nothing fails, every server executes the operation that the root
\* started (collective_forward at every level of the tree), although nobody
\* waits for it and timers of RPCs may expire.
EveryServerRuns == [](faults = 0) => <>(ran = Servers \ {root})
------------------------------------------------------------------------------
(* The inductive invariant behind the safety properties. *)

\* The request spreads from the root along the tree: a server has it only if
\* its parent handled it, and handles it once.
Spread == \A s \in Servers :
    /\ s \in inbox => st[s] = "none"
    /\ (s \in inbox \/ (s # root /\ st[s] # "none")) =>
            s # root /\ st[Parent(s, root)] # "none"
    /\ recv[s] = IF s # root /\ st[s] # "none" THEN 1 ELSE 0

\* What is special about the root.
RootState ==
    /\ inv = "idle" <=> st[root] = "none"
    /\ st[root] \notin {"queued", "stuck"}
    /\ Kind = "async" => inv \in {"idle", "returned"}
    /\ reply[root] = "none"
    /\ root \notin ran
    /\ \A s \in Servers : st[s] = "signalled" => s = root

\* A reply is the output of a collective that is through, or an error.
Answered == \A s \in Servers :
    /\ st[s] \in {"signalled", "done"} => pend[s] = {}
    /\ s # root => reply[s] = CASE st[s] = "done" -> out[s]
                               [] st[s] = "failed" -> "err"
                               [] OTHER -> "none"

\* What a server that has not seen an error knows about itself and about the
\* children it has heard of.
Gathered == \A s \in Servers :
    /\ st[s] = "queued" => pend[s] = Kids(s)
    /\ files[s] \subseteq ran
    /\ (st[s] \in {"progress", "signalled", "done"} /\ out[s] = "ok") =>
        /\ s # root => s \in ran /\ (Kind = "gather" => s \in files[s])
        /\ \A c \in Kids(s) \ (pend[s] \cup unheard) :
              reply[c] = "ok" /\ (c \notin unmerged => files[c] \subseteq files[s])

IInv == TypeOK /\ Spread /\ RootState /\ Answered /\ Gathered
        /\ NoUseAfterFree /\ SignalNotLost

=============================================================================
