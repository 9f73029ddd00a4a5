------------------------------ MODULE MCServer ------------------------------
(* Three parts of the servers, one per initial value of "part": the start and *)
(* the end of the servers of a job, the requests of the clients of a server,  *)
(* and the attributes of one file at its owner and at another server.         *)
EXTENDS Startup, Requests, Attributes, TLC

CONSTANTS a, b, t1, t2

VARIABLE part

\* Setups of a start: the nodes as the resource manager lists them.
StartSetup(mgr, list, opts, script, store, lazy, stage, fault) ==
    [mgr |-> mgr, list |-> list, opts |-> opts, script |-> script, store |-> store,
     lazy |-> lazy, stage |-> stage, fault |-> fault]
MCSetups ==
    {StartSetup("pbs", <<1, 1, 2, 3, 3>>, {"cleanup"}, FALSE, "fs", z, FALSE, f) :
        z \in BOOLEAN, f \in StartFaults}
    \cup {StartSetup("slurm", <<2, 1, 3>>, {"debug", "mountpoint"}, FALSE, st, FALSE, FALSE, f) :
             st \in {"pmi2", "pmix"}, f \in {"none", "die"}}
    \cup {StartSetup("slurm", <<1, 2, 3>>, {}, FALSE, "pmi2", FALSE, TRUE, "die")}
    \cup {StartSetup("lsf", <<9, 9, 1, 1, 2, 3>>, {"parallel"}, FALSE, "fs", FALSE, TRUE, "none"),
          StartSetup("slurm", <<3, 2, 1>>, CmdOptions, FALSE, "pmi2", FALSE, TRUE, "none"),
          StartSetup("lsfcsm", <<9, 2, 3, 1>>, {"debug", "cleanup"}, FALSE, "pmix", FALSE, TRUE, "none"),
          StartSetup("lsfmcpu", <<9, 1, 3, 4, 1, 4, 2, 4>>, CmdOptions, TRUE, "pmi2", FALSE, FALSE, "none"),
          StartSetup("flux", <<<<1, 2>>, <<3, 3>>>>, {"mountpoint"}, FALSE, "pmix", TRUE, TRUE, "none")}

\* Jobs of one client that makes one call, with and without a fault, and of two.
One(k, far, f) == [prog |-> [c \in {a} |-> <<k>>], far |-> far, cap |-> 2, turns |-> FALSE, fault |-> f]
Two(ka, kb, far, cap, f) ==
    [prog |-> (a :> ka @@ b :> kb), far |-> far, cap |-> cap, turns |-> cap = 1, fault |-> f]
MCJobs ==
    {One(k, far, "none") : k \in Kinds, far \in BOOLEAN}
    \cup {One(k, TRUE, f) : k \in {"metaget", "fsync", "get_gfids"}, f \in Faults \ {"none"}}
    \cup {Two(<<"fsync">>, <<"unlink">>, FALSE, 2, f) : f \in {"none", "die"}}
    \cup {Two(<<>>, <<>>, FALSE, 1, "none"),
          Two(<<"metaget">>, <<"truncate">>, TRUE, 2, "none"),
          Two(<<"metaget">>, <<>>, TRUE, 2, "peer")}

\* The calls of the two threads of a server that does not own the file.
MCPlans == {t1 :> p[1] @@ t2 :> p[2] :
               p \in {<<"metaget", "filesize">>, <<"metaget", "metaset">>}}

-----------------------------------------------------------------------------
In(p, S) == IF part = p THEN S ELSE {CHOOSE x \in S : TRUE}

ServerInit ==
    /\ part \in {"start", "requests", "attributes"}
    /\ setup \in In("start", Setups) /\ StartInit
    /\ job \in In("requests", Jobs) /\ ReqInit
    /\ AttrInit
    /\ \E plan \in In("attributes", Plans) : \A t \in Threads : fcall[t].kind = plan[t]

StartRuns(A) == part = "start" /\ A /\ UNCHANGED <<part, reqVars, attrVars>>
RequestsRun(A) == part = "requests" /\ A /\ UNCHANGED <<part, startVars, attrVars>>
AttributesRun(A) == part = "attributes" /\ A /\ UNCHANGED <<part, startVars, reqVars>>

serverVars == <<part, startVars, reqVars, attrVars>>
ServerNext == StartRuns(StartNext) \/ RequestsRun(ReqNext) \/ AttributesRun(AttrNext)

\* Every server, the launcher, unifyfs-stage, every client, and every thread of a
\* server goes on as long as it can; servers are stopped, clients die and time
\* runs out only if they do.
ServerSpec ==
    /\ ServerInit /\ [][ServerNext]_serverVars
    /\ WF_serverVars(StartRuns(Launcher \/ StageProgram))
    /\ \A h \in Hosts : WF_serverVars(StartRuns(Server(h) \/ (lau = "stage" /\ Mount(h))))
    /\ \A c \in Clients : /\ WF_serverVars(RequestsRun(ClientCalls(c)))
                          /\ WF_serverVars(RequestsRun(request_manager_thread(c)))
    /\ WF_serverVars(RequestsRun(Handlers)) /\ WF_serverVars(RequestsRun(ServiceManagers))
    /\ WF_serverVars(RequestsRun(MainThread)) /\ WF_serverVars(RequestsRun(Interval))
    /\ \A t \in Threads : WF_serverVars(AttributesRun(FileCall(t)))

\* A job in which nothing fails starts; a job in which something does gets an
\* answer from `unifyfs start` all the same (unifyfs_start_servers).
StartEnds == []<>(part = "start" => StartOver)
=============================================================================
