------------------------------ MODULE Startup -------------------------------
(* The start and the end of the servers of one job: the command `unifyfs     *)
(* start` (util/unifyfs/src/unifyfs-rm.c), the main function of each server  *)
(* (server/src/unifyfs_server.c, margo_server.c), the key-value store where  *)
(* the servers find each other (common/src/unifyfs_keyval.c), the report of  *)
(* process ids to rank 0 and the broadcast that ends the bootstrap           *)
(* (unifyfs_server_pid.c), and a client that looks for its server            *)
(* (common/src/unifyfs_rpc_util.c).                                          *)
(*                                                                           *)
(* A host name is a number.  An address is a separator and the host, since   *)
(* one of the key-value stores rewrites that character of it.                *)
EXTENDS Integers, Sequences, FiniteSets, LaunchCommands

CONSTANTS Hosts,        \* the compute nodes, numbers
          Setups        \* the setups considered, see SetupsOK

\* A setup: the resource manager and the list of nodes as it gives it, the options
\* of the command, a script of the user for the launch, the key-value store, lazy
\* connect, whether files are staged in, and what is out of the ordinary: a server
\* that dies, a fence that is over too early, a launcher that opens a file before
\* its content is there.
Managers == {"pbs", "slurm", "lsf", "lsfmcpu", "lsfcsm", "flux"}
Stores == {"fs", "pmi2", "pmix"}
StartFaults == {"none", "die", "fence", "early"}
SetupsOK == \A s \in Setups :
    /\ DOMAIN s = {"mgr", "list", "opts", "script", "store", "lazy", "stage", "fault"}
    /\ s.mgr \in Managers /\ s.opts \subseteq CmdOptions /\ s.script \in BOOLEAN /\ s.store \in Stores /\ s.lazy \in BOOLEAN
    /\ s.stage \in BOOLEAN /\ s.fault \in StartFaults

ASSUME StartupAssumption == Hosts \subseteq Nat /\ Hosts # {} /\ IsFiniteSet(Hosts) /\ SetupsOK

VARIABLES setup,        \* the setup, never changed
          launched,     \* what the commands of the launcher started
          lau,          \* `unifyfs start`: "start", "wait", "stage", "up", "down", "stopping"
          hostfile,     \* unifyfsd.hosts
          pidfile,      \* lines of the pid file, -1 if there is none
          status,       \* status file of unifyfs-stage: "none", "empty", "success", "fail"
          sv,           \* where each server is in main
          rank,         \* glb_pmi_rank of each server
          lkey, tmp,    \* the address for clients: local key, file in /tmp
          rkey, dirs,   \* the address for servers, by rank; the directories of the keys
          infos,        \* server_infos of each server: addresses by rank
          pids, nrep,   \* server_pids and n_servers_reported of rank 0
          done,         \* bootstrap_completed of each server
          cl            \* a client of each host: "off", "mounted", "failed"

startVars == <<setup, launched, lau, hostfile, pidfile, status, sv, rank, lkey, tmp, rkey, dirs,
               infos, pids, nrep, done, cl>>
lauVars == <<lau, hostfile, pidfile, status>>
keyVars == <<lkey, tmp, rkey, dirs>>
bootVars == <<pids, nrep, done>>

NumHosts == Cardinality(Hosts)
Ranks == 0 .. NumHosts - 1
\* The margo address of a server, "ofi+tcp;..."; the key of rank r without a
\* file, and with a file that is still empty.
Address(h) == [sep |-> ";", host |-> h]
NoAddr == [sep |-> "none", host |-> 0]
NoValue == [sep |-> "empty", host |-> 0]

StartInit ==
    /\ setup \in Setups
    /\ launched = [servers |-> {}, ranked |-> FALSE, stage |-> {}, status |-> FALSE, killed |-> {}]
    /\ lau = "start" /\ hostfile = <<>> /\ status = "none"
    /\ pidfile = NumHosts                      \* left by an earlier job
    /\ sv = [h \in Hosts |-> "off"] /\ rank = [h \in Hosts |-> 0]
    /\ lkey = [h \in Hosts |-> "none"] /\ tmp = [h \in Hosts |-> FALSE]
    /\ rkey = [r \in Ranks |-> NoAddr] /\ dirs = {}
    /\ infos = [h \in Hosts |-> <<>>]
    /\ pids = {} /\ nrep = 0 /\ done = [h \in Hosts |-> FALSE]
    /\ cl = [h \in Hosts |-> "off"]

\* The timeouts are long: they end a wait only in a job where something is wrong.
TimesOut == setup.fault # "none"

-----------------------------------------------------------------------------
(* The node list.  A host file repeats a node for each of its cores; the     *)
(* list of LSF begins with the launch node, and in its second form a count   *)
(* follows each node; Flux gives ranges.                                     *)

\* A line that equals the line before it is skipped.
parse_hostfile(lines) ==
    LET nodes[i \in 0 .. Len(lines)] ==
          IF i = 0 THEN <<>>
          ELSE IF i > 1 /\ lines[i] = lines[i - 1] THEN nodes[i - 1] ELSE Append(nodes[i - 1], lines[i])
    IN  nodes[Len(lines)]

lsf_read_resource(list, mcpu) ==
    IF mcpu THEN Tail([i \in 1 .. Len(list) \div 2 |-> list[2 * i - 1]])
    ELSE Tail(parse_hostfile(list))
pbs_read_resource(list) == parse_hostfile(list)
slurm_read_resource(list) == parse_hostfile(list)
flux_read_resource(ranges) ==
    LET nodes[i \in 0 .. Len(ranges)] ==
          IF i = 0 THEN <<>>
          ELSE nodes[i - 1] \o [j \in 1 .. ranges[i][2] - ranges[i][1] + 1 |-> ranges[i][1] + j - 1]
    IN  nodes[Len(ranges)]

unifyfs_detect_resources(mgr, list) ==
    CASE mgr = "pbs" -> pbs_read_resource(list)
      [] mgr = "slurm" -> slurm_read_resource(list)
      [] mgr \in {"lsf", "lsfcsm"} -> lsf_read_resource(list, FALSE)
      [] mgr = "lsfmcpu" -> lsf_read_resource(list, TRUE)
      [] mgr = "flux" -> flux_read_resource(list)

Nodes == unifyfs_detect_resources(setup.mgr, setup.list)

-----------------------------------------------------------------------------
(* `unifyfs start`.                                                          *)

\* What the process manager does with a command: one task on each of the first
\* nodes of the job, if the program is in the part that execvp passes on.
RunsOn(nodes, cmd, prog) == IF Has(cmd, prog) THEN {nodes[i] : i \in 1 .. Tasks(cmd)} ELSE {}

\* The launch, by the resource manager or by a script of the user.
LaunchServers ==
    LET n == Len(Nodes)
        cmd == Executed(IF setup.script THEN script_launch(n, setup.opts)
                        ELSE Launch(setup.mgr, n, setup.opts))
    IN  launched' = [launched EXCEPT !.servers = RunsOn(Nodes, cmd, "unifyfsd"),
                                     !.ranked = OptionOf(cmd, "-H") = "share_hostfile"]

\* What the launch of a setup does in a job that can start: the nodes that are read are
\* the hosts of the job, each once, and the command starts a server on each of them and
\* tells it of the host file.
NodesOf(s) == unifyfs_detect_resources(s.mgr, s.list)
LaunchOf(s) ==
    Executed(IF s.script THEN script_launch(Len(NodesOf(s)), s.opts)
             ELSE Launch(s.mgr, Len(NodesOf(s)), s.opts))
Launches(s) ==
    /\ NodesOf(s) \in Seq(Hosts) /\ Len(NodesOf(s)) = NumHosts
    /\ \A i, j \in 1 .. NumHosts : NodesOf(s)[i] = NodesOf(s)[j] => i = j
    /\ \A h \in Hosts : \E i \in 1 .. NumHosts : NodesOf(s)[i] = h
    /\ RunsOn(NodesOf(s), LaunchOf(s), "unifyfsd") = Hosts
    /\ OptionOf(LaunchOf(s), "-H") = "share_hostfile"
ASSUME LaunchAssumption == \A s \in Setups : Launches(s)

LaunchStage ==
    LET cmd == Executed(StageCommand(setup.mgr, Len(hostfile), setup.opts))
    IN  launched' = [launched EXCEPT !.stage = RunsOn(hostfile, cmd, "unifyfs-stage"),
                                     !.status = OptionOf(cmd, "--status-file") = "stage_status"]
LaunchKill ==
    LET n == Len(hostfile)
        cmd == Executed(IF setup.script THEN script_terminate(n) ELSE Terminate(setup.mgr, n))
        all == Has(cmd, "name:unifyfsd")      \* flux finds the job by its name
    IN  launched' = [launched EXCEPT !.killed = IF all THEN launched.servers ELSE RunsOn(hostfile, cmd, "pkill")]

\* An earlier pid file is removed; there may be none.
remove_server_pid_file == pidfile' = -1
remove_stage_status_file == status' = "none"
write_hostfile == hostfile' = Nodes

\* The host file is written and the old pid file removed, then the launch
\* command starts one server on each node, in any order.
unifyfs_start_servers ==
    /\ lau = "start" /\ lau' = "wait"
    /\ write_hostfile /\ remove_server_pid_file /\ LaunchServers
    /\ UNCHANGED <<setup, status, sv, rank, keyVars, infos, bootVars, cl>>

\* The launcher counts the lines of the pid file as soon as there is one.  It
\* goes on to the stage-in, if there is one, whatever the result.
wait_server_initialization ==
    /\ lau = "wait"
    /\ \/ /\ pidfile > 0 \/ (pidfile = 0 /\ setup.fault = "early")
          /\ lau' = IF setup.stage THEN "stage" ELSE IF pidfile = Len(hostfile) THEN "up" ELSE "down"
       \/ /\ pidfile = -1 /\ TimesOut
          /\ lau' = IF setup.stage THEN "stage" ELSE "down"
    /\ IF setup.stage THEN remove_stage_status_file /\ LaunchStage ELSE UNCHANGED <<status, launched>>
    /\ UNCHANGED <<setup, hostfile, pidfile, sv, rank, keyVars, infos, bootVars, cl>>

\* The status file is opened before it has content: see the text for the case
\* that the launcher reads it then.
wait_stage ==
    /\ lau = "stage"
    /\ \/ status = "success" /\ lau' = "up"
       \/ status = "fail" /\ lau' = "down"
       \/ status = "none" /\ TimesOut /\ lau' = "down"
    /\ UNCHANGED <<setup, launched, hostfile, pidfile, status, sv, rank, keyVars, infos, bootVars, cl>>

\* `unifyfs terminate` sends the servers a signal.
unifyfs_stop_servers ==
    /\ lau = "up" /\ lau' = "stopping" /\ LaunchKill
    /\ UNCHANGED <<setup, hostfile, pidfile, status, sv, rank, keyVars, infos, bootVars, cl>>

-----------------------------------------------------------------------------
(* The key-value store.                                                      *)

\* The last line of the host file with this name; line 0 if there is none.
process_servers_hostfile(h) ==
    LET at == {i \in 1 .. Len(hostfile) : hostfile[i] = h} IN
    IF at = {} THEN 0 ELSE (CHOOSE i \in at : \A j \in at : j <= i) - 1

\* Without a host file each server is a job of its own.
get_server_rank_and_size(h) ==
    IF launched.ranked THEN process_servers_hostfile(h) ELSE 0

\* The numbers that a process manager gives to its tasks, in an order of its own.
TaskRank(h) == Cardinality({g \in Hosts : g < h})
unifyfs_pmi2_init(h) == TaskRank(h)
unifyfs_pmix_init(h) == TaskRank(h)

\* A character that the process manager uses itself is replaced, and put back.
unifyfs_pmi2_publish(v) == IF v.sep = ";" THEN [v EXCEPT !.sep = "!"] ELSE v
unifyfs_pmi2_lookup(v) == IF v.sep = "!" THEN [v EXCEPT !.sep = ";"] ELSE v
unifyfs_pmix_publish(v) == v
unifyfs_pmix_lookup(v) == v

Moves(h, from, to) == sv[h] = from /\ sv' = [sv EXCEPT ![h] = to]
Lives(h) == sv[h] \notin {"off", "dead", "exited", "gone"}

\* The directory on the shared file system and the one of this rank in it.
RootDir == -1
unifyfs_fskv_init(r) == dirs' = dirs \cup {RootDir, r}

\* The rank that the store gives replaces the one of the host file.
unifyfs_keyval_init(h) ==
    /\ lau # "start" /\ h \in launched.servers /\ Moves(h, "off", "kv")
    /\ rank' = [rank EXCEPT ![h] = CASE setup.store = "pmi2" -> unifyfs_pmi2_init(h)
                                      [] setup.store = "pmix" -> unifyfs_pmix_init(h)
                                      [] setup.store = "fs" -> get_server_rank_and_size(h)]
    /\ unifyfs_fskv_init(rank'[h])
    /\ UNCHANGED <<setup, launched, lauVars, lkey, tmp, rkey, infos, bootVars, cl>>

\* The key for clients is a file on the node that is created, then filled; when
\* it is complete the address is also left in a file of /tmp.
unifyfs_fskv_publish_local(h, v) == lkey' = [lkey EXCEPT ![h] = v]
unifyfs_keyval_publish_local(h) ==
    /\ Moves(h, "kv", "local") /\ unifyfs_fskv_publish_local(h, "empty") /\ UNCHANGED tmp
rpc_publish_local_server_addr(h) ==
    \/ unifyfs_keyval_publish_local(h)
    \/ /\ Moves(h, "local", "shm") /\ unifyfs_fskv_publish_local(h, "set")
       /\ tmp' = [tmp EXCEPT ![h] = TRUE]
setup_local_target(h) ==
    /\ rpc_publish_local_server_addr(h)
    /\ UNCHANGED <<setup, launched, lauVars, rank, rkey, dirs, infos, bootVars, cl>>

\* The key for servers.  A file is empty for a while.
unifyfs_fskv_publish_remote(h) ==
    \/ Moves(h, "shm", "remote") /\ rkey' = [rkey EXCEPT ![rank[h]] = NoValue]
    \/ Moves(h, "remote", "rpc") /\ rkey' = [rkey EXCEPT ![rank[h]] = Address(h)]
unifyfs_keyval_publish_remote(h) ==
    \/ setup.store = "fs" /\ unifyfs_fskv_publish_remote(h)
    \/ /\ setup.store = "pmi2" /\ Moves(h, "shm", "rpc")
       /\ rkey' = [rkey EXCEPT ![rank[h]] = unifyfs_pmi2_publish(Address(h))]
    \/ /\ setup.store = "pmix" /\ Moves(h, "shm", "rpc")
       /\ rkey' = [rkey EXCEPT ![rank[h]] = unifyfs_pmix_publish(Address(h))]
rpc_publish_remote_server_addr(h) == unifyfs_keyval_publish_remote(h)
setup_remote_target(h) ==
    /\ rpc_publish_remote_server_addr(h)
    /\ UNCHANGED <<setup, launched, lauVars, rank, lkey, tmp, dirs, infos, bootVars, cl>>

\* The address for clients first, then the one for servers.
margo_server_rpc_init(h) == setup_local_target(h) \/ setup_remote_target(h)

\* The state of the requests exists and the service manager runs.
svcmgr_init(h) ==
    /\ Moves(h, "rpc", "fence")
    /\ UNCHANGED <<setup, launched, lauVars, rank, keyVars, infos, bootVars, cl>>

\* Mutant: the fence forgets a server that has left it.
MutFence == \A h \in Hosts : sv[h] = "fence"

\* A process manager holds every server until all are there.  The store on a
\* shared file system sleeps ten seconds, which is enough or is not.
Registered(h) == sv[h] \notin {"off", "kv", "local", "shm", "remote", "rpc"}
Arrived == \A h \in Hosts : Registered(h)
unifyfs_fskv_fence == Arrived \/ setup.fault \in {"die", "fence"}
unifyfs_pmi2_fence == Arrived
unifyfs_pmix_fence == Arrived
unifyfs_keyval_fence_remote(h) ==
    /\ Moves(h, "fence", "connect")
    /\ CASE setup.store = "fs" -> unifyfs_fskv_fence
         [] setup.store = "pmi2" -> unifyfs_pmi2_fence
         [] setup.store = "pmix" -> unifyfs_pmix_fence
    /\ UNCHANGED <<setup, launched, lauVars, rank, keyVars, infos, bootVars, cl>>

\* The address of a rank, or NoAddr: no file, or a file without content.
unifyfs_fskv_lookup_remote(r) == IF rkey[r] = NoValue THEN NoAddr ELSE rkey[r]
unifyfs_keyval_lookup_remote(r) ==
    CASE setup.store = "fs" -> unifyfs_fskv_lookup_remote(r)
      [] setup.store = "pmi2" -> unifyfs_pmi2_lookup(rkey[r])
      [] setup.store = "pmix" -> unifyfs_pmix_lookup(rkey[r])
rpc_lookup_remote_server_addr(r) == unifyfs_keyval_lookup_remote(r)

-----------------------------------------------------------------------------
(* Connecting and the bootstrap.                                             *)

\* What server_infos holds of a rank after connecting to it.
margo_connect_server(r) == rpc_lookup_remote_server_addr(r)

\* The address of each rank is looked up in turn, unless that is left to the
\* first use.  A server that misses one goes through the list and exits.
margo_connect_servers(h) ==
    /\ sv[h] = "connect"
    /\ IF Len(infos[h]) < NumHosts
       THEN /\ infos' = [infos EXCEPT ![h] = Append(@,
                   IF setup.lazy THEN NoAddr ELSE margo_connect_server(Len(@)))]
            /\ UNCHANGED sv
       ELSE /\ sv' = [sv EXCEPT ![h] =
                   IF setup.lazy \/ \A i \in 1 .. NumHosts : infos[h][i] # NoAddr THEN "boot" ELSE "exited"]
            /\ UNCHANGED infos
    /\ UNCHANGED <<setup, launched, lauVars, rank, keyVars, bootVars, cl>>

\* The address of rank r as server h has it, looked up now if it is not known.
get_margo_server_address(h, r) ==
    IF infos[h][r + 1] = NoAddr /\ setup.lazy THEN margo_connect_server(r) ELSE infos[h][r + 1]

\* The server that listens at an address.
At(a) == {h \in Hosts : Lives(h) /\ a = Address(h)}

\* A report at rank 0: the count goes up with each.
unifyfs_report_server_pid(r) == pids' = pids \cup {r} /\ nrep' = nrep + 1
server_pid_rpc(h) == unifyfs_report_server_pid(rank[h])

\* A server other than rank 0 reports its process id and exits if it cannot.
unifyfs_invoke_server_pid_rpc(h) ==
    /\ sv[h] = "boot" /\ rank[h] > 0
    /\ LET to == {g \in At(get_margo_server_address(h, 0)) : Registered(g) /\ rank[g] = 0} IN
       IF to # {}
       THEN sv' = [sv EXCEPT ![h] = "await"] /\ server_pid_rpc(h)
       ELSE sv' = [sv EXCEPT ![h] = "exited"] /\ UNCHANGED <<pids, nrep>>
    /\ UNCHANGED <<setup, launched, lauVars, rank, keyVars, infos, done, cl>>

\* It waits for the broadcast of rank 0, or exits when the time is over.
wait_for_bootstrap_condition(h) ==
    /\ sv[h] = "await"
    /\ \/ done[h] /\ sv' = [sv EXCEPT ![h] = "loop"]
       \/ ~done[h] /\ TimesOut /\ sv' = [sv EXCEPT ![h] = "exited"]
    /\ UNCHANGED <<setup, launched, lauVars, rank, keyVars, infos, bootVars, cl>>

\* Rank 0 counts itself and waits for the others.
unifyfs_complete_bootstrap(h) ==
    /\ rank[h] = 0
    /\ \/ Moves(h, "boot", "collect") /\ unifyfs_report_server_pid(0)
       \/ /\ sv[h] = "collect" /\ UNCHANGED <<pids, nrep>>
          /\ \/ nrep = NumHosts /\ sv' = [sv EXCEPT ![h] = "bcast"]
             \/ nrep < NumHosts /\ TimesOut /\ sv' = [sv EXCEPT ![h] = "exited"]
    /\ UNCHANGED <<setup, launched, lauVars, rank, keyVars, infos, done, cl>>

\* What the broadcast does at a server that waits.
unifyfs_signal_bootstrap_complete(g) == done' = [done EXCEPT ![g] = TRUE]
process_bootstrap_bcast_rpc(g) == sv[g] = "await" /\ ~done[g] /\ unifyfs_signal_bootstrap_complete(g)

\* Mutant: the pid file is written whether or not the broadcast succeeded.
MutBroadcast(h) ==
    /\ sv[h] = "bcast"
    /\ \/ \E g \in Hosts \ {h} : process_bootstrap_bcast_rpc(g) /\ UNCHANGED sv
       \/ sv' = [sv EXCEPT ![h] = "pids"] /\ UNCHANGED done
    /\ UNCHANGED <<setup, launched, lauVars, rank, keyVars, infos, pids, nrep, cl>>

\* The broadcast reaches the servers one by one; it succeeds when all have
\* answered, and fails if one does not.
unifyfs_invoke_broadcast_bootstrap_complete(h) ==
    /\ sv[h] = "bcast"
    /\ \/ \E g \in Hosts \ {h} : process_bootstrap_bcast_rpc(g) /\ UNCHANGED sv
       \/ /\ \A g \in Hosts \ {h} : done[g]
          /\ sv' = [sv EXCEPT ![h] = "pids"] /\ UNCHANGED done
       \/ /\ \E g \in Hosts \ {h} : ~done[g] /\ sv[g] # "await"
          /\ sv' = [sv EXCEPT ![h] = "exited"] /\ UNCHANGED done
    /\ UNCHANGED <<setup, launched, lauVars, rank, keyVars, infos, pids, nrep, cl>>

\* The pid file is created, then the lines reach it all together.
create_server_pid_file(h) ==
    /\ \/ Moves(h, "pids", "lines") /\ pidfile' = 0
       \/ Moves(h, "lines", "loop") /\ pidfile' = NumHosts
    /\ UNCHANGED <<setup, launched, lau, hostfile, status, rank, keyVars, infos, bootVars, cl>>

\* The keys of the node and the directory of the rank go; rank 0 also removes the
\* directory of the store if the others have removed theirs by then.
unifyfs_fskv_fini(h) ==
    /\ lkey' = [lkey EXCEPT ![h] = "none"]
    /\ dirs' = IF rank[h] = 0 /\ dirs \subseteq {RootDir, 0} THEN {} ELSE dirs \ {rank[h]}
unifyfs_pmi2_fini(h) == UNCHANGED rkey
unifyfs_pmix_fini(h) == rkey' = [rkey EXCEPT ![rank[h]] = NoAddr]

\* The signal ends the main loop.
unifyfs_keyval_fini(h) ==
    /\ lau = "stopping" /\ h \in launched.killed /\ Moves(h, "loop", "final")
    /\ unifyfs_fskv_fini(h)
    /\ CASE setup.store = "fs" -> rkey' = [rkey EXCEPT ![rank[h]] = NoAddr]
         [] setup.store = "pmi2" -> unifyfs_pmi2_fini(h)
         [] setup.store = "pmix" -> unifyfs_pmix_fini(h)
    /\ UNCHANGED <<setup, launched, lauVars, tmp, rank, infos, bootVars, cl>>

rpc_clean_local_server_addr(h) == tmp' = [tmp EXCEPT ![h] = FALSE]
margo_server_rpc_finalize(h) ==
    /\ Moves(h, "final", "gone") /\ rpc_clean_local_server_addr(h)
    /\ UNCHANGED <<setup, launched, lauVars, lkey, rkey, dirs, rank, infos, bootVars, cl>>

\* A server dies before its bootstrap is over.
DieEarly(h) ==
    /\ setup.fault = "die" /\ \A g \in Hosts : sv[g] # "dead"
    /\ Lives(h) /\ sv[h] \notin {"loop", "pids", "lines"} /\ ~done[h]
    /\ sv' = [sv EXCEPT ![h] = "dead"]
    /\ UNCHANGED <<setup, launched, lauVars, rank, keyVars, infos, bootVars, cl>>

-----------------------------------------------------------------------------
(* The clients: the program unifyfs-stage during the start, applications     *)
(* after it.                                                                 *)

\* The address of the server of this host: the key, or else the file in /tmp.
unifyfs_fskv_lookup_local(h) == lkey[h] = "set"
unifyfs_keyval_lookup_local(h) == unifyfs_fskv_lookup_local(h)
rpc_lookup_local_server_addr(h) == unifyfs_keyval_lookup_local(h) \/ tmp[h]

\* A server that answers a mount: its request state and its inode tree exist.
Ready(h) == sv[h] \in {"boot", "await", "collect", "bcast", "pids", "lines", "loop"}

\* A client mounts, if it finds its server and the server is ready for it.
Mount(h) ==
    /\ lau \in {"stage", "up"} /\ cl[h] = "off"
    /\ cl' = [cl EXCEPT ![h] = IF rpc_lookup_local_server_addr(h) /\ Ready(h) THEN "mounted" ELSE "failed"]
    /\ UNCHANGED <<setup, launched, lauVars, sv, rank, keyVars, infos, bootVars>>

\* unifyfs-stage runs on every node and its status file tells of all of them.
StageProgram ==
    /\ lau = "stage" /\ launched.status /\ \A h \in launched.stage : cl[h] # "off"
    /\ \/ status = "none" /\ status' = "empty"
       \/ /\ status = "empty"
          /\ status' = IF \A h \in Hosts : cl[h] = "mounted" THEN "success" ELSE "fail"
    /\ UNCHANGED <<setup, launched, lau, hostfile, pidfile, sv, rank, keyVars, infos, bootVars, cl>>

-----------------------------------------------------------------------------
Launcher == unifyfs_start_servers \/ wait_server_initialization \/ wait_stage
Server(h) ==
    \/ unifyfs_keyval_init(h) \/ margo_server_rpc_init(h) \/ svcmgr_init(h)
    \/ unifyfs_keyval_fence_remote(h) \/ margo_connect_servers(h)
    \/ unifyfs_invoke_server_pid_rpc(h) \/ wait_for_bootstrap_condition(h)
    \/ unifyfs_complete_bootstrap(h) \/ unifyfs_invoke_broadcast_bootstrap_complete(h)
    \/ create_server_pid_file(h) \/ unifyfs_keyval_fini(h) \/ margo_server_rpc_finalize(h)
StartNext ==
    \/ Launcher \/ unifyfs_stop_servers \/ StageProgram
    \/ \E h \in Hosts : Server(h) \/ DieEarly(h) \/ Mount(h)

-----------------------------------------------------------------------------
(* Properties.                                                               *)

\* When `unifyfs start` returns success, every server of the job is past its
\* bootstrap, the ranks are those of the nodes, and every server that has the
\* address of a rank has the address of the server with that rank.  A client that
\* mounts then, or stages files in before, finds its server and is served.
\* Excluded is a faulty start with a stage-in, which forgets the result of waiting.
StartTruthful ==
    /\ lau = "up" /\ ~(setup.stage /\ setup.fault # "none") => \A h \in Hosts :
        /\ sv[h] = "loop" \/ (sv[h] = "await" /\ done[h])
        /\ \A r \in Ranks : \E g \in Hosts :
              rank[g] = r /\ get_margo_server_address(h, r) = Address(g)
    /\ setup.fault = "none" => \A h \in Hosts : cl[h] # "failed"

\* `unifyfs start` is over: it has succeeded, or has failed in a job in which
\* something goes wrong.
StartOver == lau \in {"up", "stopping"} \cup (IF setup.fault = "none" THEN {} ELSE {"down"})
=============================================================================
