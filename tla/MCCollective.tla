---------------------------- MODULE MCCollective ----------------------------
(* Model checking of the collectives: five servers in a binary tree.  The      *)
(* initial value of "part" chooses a collective whose caller waits, one whose  *)
(* caller does not, or the list of all files.                                  *)
EXTENDS Collective, ListFiles

Async == INSTANCE Collective WITH Kind <- "async"

VARIABLE part

\* Bound: the roots of a collective and of a list, one with which the ranks are the
\* positions in the tree and one with which they are not.
Roots == {0, 3}

groupVars == <<part, vars, listVars>>

GroupInit ==
    /\ part \in {"gather", "async", "list"}
    /\ Init
    /\ ListInit
    /\ IF part = "list" THEN root = 0 /\ lroot \in Roots
       ELSE root \in Roots /\ lroot = 0 /\ inodes = [s \in Servers |-> {}]

Gather(a, b) == (part = "gather" /\ a) \/ (part = "async" /\ b)

GroupNext ==
    /\ UNCHANGED part
    /\ \/ part = "gather" /\ Next /\ UNCHANGED listVars
       \/ part = "async" /\ Async!Next /\ UNCHANGED listVars
       \/ part = "list" /\ ListNext /\ UNCHANGED vars

\* Fairness of Collective for the part that runs.
GroupFairness ==
    /\ WF_vars(Gather(Invoke, Async!Invoke)) /\ WF_vars(Gather(CondWait, Async!CondWait))
    /\ WF_vars(Gather(CallerCleanup, Async!CallerCleanup))
    /\ WF_vars(Gather(FinishAsync, Async!FinishAsync)) /\ WF_vars(Gather(Signal, Async!Signal))
    /\ WF_vars(Gather(ProgressRespond, Async!ProgressRespond))
    /\ WF_vars(Gather(CallerTimeout /\ st[root] = "lost", FALSE))
    /\ \A s \in Servers :
        /\ WF_vars(Gather(Handler(s), Async!Handler(s)))
        /\ WF_vars(Gather(LocalOp(s), Async!LocalOp(s)))
        /\ WF_vars(Gather(Finish(s), Async!Finish(s)))
        /\ WF_vars(Gather(WaitFails(s), Async!WaitFails(s)))
        /\ \A c \in Servers : WF_vars(Gather(ChildResponse(s, c), Async!ChildResponse(s, c)))

GroupSpec == GroupInit /\ [][GroupNext]_groupVars /\ GroupFairness

\* EveryServerRuns of the collectives whose caller does not wait: as long as nothing
\* fails every server executes the operation (collective_forward at every level).
AsyncRunsEverywhere ==
    [](part = "async" /\ faults = 0) => <>(part = "async" /\ ran = Servers \ {root})
=============================================================================
