--------------------------- MODULE LaunchCommands ---------------------------
(* The commands that `unifyfs start` and `unifyfs terminate` execute          *)
(* (util/unifyfs/src/unifyfs-rm.c).  Each is an array of pointers that was    *)
(* zeroed when it was allocated: the arguments of the process manager are     *)
(* written one by one, those of the program from a position that is counted   *)
(* by hand, and execvp reads up to the first null pointer.                    *)
(*                                                                            *)
(* A token is a name, or a number with the name of what it counts.            *)
EXTENDS Integers, Sequences

\* The options of the command line that become options of the server.
CmdOptions == {"debug", "cleanup", "mountpoint", "parallel"}

Tok(s) == [t |-> s, n |-> 0]
Num(n) == [t |-> "tasks", n |-> n]
Toks(ss) == [i \in 1 .. Len(ss) |-> Tok(ss[i])]
When(b, ss) == IF b THEN Toks(ss) ELSE <<>>
NULL == Tok("NULL")

construct_server_argv(o) ==
    Toks(<<"unifyfsd">>) \o When("debug" \in o, <<"-v", "level">>)
    \o When("cleanup" \in o, <<"-C">>) \o When("mountpoint" \in o, <<"-m", "mountpoint">>)
    \o Toks(<<"-S", "share_dir", "-H", "share_hostfile">>)

construct_stage_argv(o) ==
    Toks(<<"unifyfs-stage">>) \o When("mountpoint" \in o, <<"-m", "mountpoint">>)
    \o When("debug" \in o, <<"--verbose">>) \o When("parallel" \in o, <<"--parallel">>)
    \o Toks(<<"--status-file", "stage_status", "manifest">>)

\* The array: argc of the process manager, then the program, then a null pointer.
Argv(run, argc, prog) == SubSeq(run \o [i \in 1 .. argc |-> NULL], 1, argc) \o prog \o <<NULL>>
generic_stage(cmd, argc, o) == Argv(SubSeq(cmd, 1, argc), argc, construct_stage_argv(o))

mpirun_launch(n, o) ==
    Argv(Toks(<<"mpirun", "-np">>) \o <<Num(n)>> \o Toks(<<"--map-by", "ppr:1:node">>), 5,
         construct_server_argv(o))
mpirun_terminate(n) ==
    Argv(Toks(<<"mpirun", "-np">>) \o <<Num(n)>>
         \o Toks(<<"--map-by", "ppr:1:node", "pkill", "-n", "unifyfsd">>), 8, <<>>)
mpirun_stage(n, o) ==
    generic_stage(Toks(<<"mpirun", "--np">>) \o <<Num(n)>> \o Toks(<<"--map-by", "ppr:1:node">>), 5, o)

srun_launch(n, o) ==
    Argv(Toks(<<"srun", "--exact", "--overlap">>) \o <<Num(n)>>
         \o Toks(<<"--ntasks-per-node=1", "-c">>), 6, construct_server_argv(o))
srun_terminate(n) ==
    Argv(Toks(<<"srun", "--exact", "--overcommit">>) \o <<Num(n)>>
         \o Toks(<<"--ntasks-per-node=1", "pkill", "-n", "unifyfsd">>), 8, <<>>)
srun_stage(n, o) == generic_stage(Toks(<<"srun">>) \o <<Num(n)>> \o Toks(<<"--ntasks-per-node=1">>), 3, o)

jsrun_launch(n, o) ==
    Argv(Toks(<<"jsrun", "--immediate", "-e", "individual", "--stdio_stderr", "err",
                "--stdio_stdout", "out", "--nrs">>) \o <<Num(n)>> \o Toks(<<"-r1", "-c", "-a1">>), 13,
         construct_server_argv(o))
jsrun_terminate(n) ==
    Argv(Toks(<<"jsrun", "--immediate", "-e", "individual", "--nrs">>) \o <<Num(n)>>
         \o Toks(<<"-r1", "-c1", "-a1", "pkill", "-n", "unifyfsd">>), 12, <<>>)
jsrun_stage(n, o) ==
    generic_stage(Toks(<<"jsrun", "--immediate", "-e", "individual", "--stdio_stderr", "err",
                         "--stdio_stdout", "out", "--nrs">>) \o <<Num(n)>>
                  \o Toks(<<"-r1", "-c1", "-a1">>), 13, o)

\* Flux is told the number of nodes and, the same number, of tasks.
flux_launch(n, o) ==
    Argv(Toks(<<"flux", "run", "-N">>) \o <<Num(n)>> \o Toks(<<"-c">>), 5, construct_server_argv(o))
flux_terminate == Argv(Toks(<<"flux", "pkill", "name:unifyfsd">>), 3, <<>>)
flux_stage(n, o) ==
    generic_stage(Toks(<<"flux", "run", "-N">>) \o <<Num(n)>> \o Toks(<<"-c1">>), 5, o)

\* The slot of "-n" is written a second time.
script_launch(n, o) == Argv(Toks(<<"script">>) \o <<Num(n)>>, 2, construct_server_argv(o))
script_terminate(n) == Argv(Toks(<<"script">>) \o <<Num(n)>> \o Toks(<<"pkill", "unifyfsd">>), 5, <<>>)

\* resource_managers
Launch(mgr, n, o) ==
    CASE mgr \in {"pbs", "lsf", "lsfmcpu"} -> mpirun_launch(n, o)
      [] mgr = "slurm" -> srun_launch(n, o)
      [] mgr = "lsfcsm" -> jsrun_launch(n, o)
      [] mgr = "flux" -> flux_launch(n, o)
Terminate(mgr, n) ==
    CASE mgr \in {"pbs", "lsf", "lsfmcpu"} -> mpirun_terminate(n)
      [] mgr = "slurm" -> srun_terminate(n)
      [] mgr = "lsfcsm" -> jsrun_terminate(n)
      [] mgr = "flux" -> flux_terminate
StageCommand(mgr, n, o) ==
    CASE mgr \in {"pbs", "lsf", "lsfmcpu"} -> mpirun_stage(n, o)
      [] mgr = "slurm" -> srun_stage(n, o)
      [] mgr = "lsfcsm" -> jsrun_stage(n, o)
      [] mgr = "flux" -> flux_stage(n, o)

\* What execvp passes on, the number of tasks in it, and a value of an option.
Executed(argv) ==
    SubSeq(argv, 1, (CHOOSE i \in 1 .. Len(argv) : argv[i] = NULL /\ \A j \in 1 .. i - 1 : argv[j] # NULL) - 1)
Tasks(cmd) ==
    LET told[i \in 0 .. Len(cmd)] ==
          IF i = 0 THEN 0 ELSE IF cmd[i].t = "tasks" THEN cmd[i].n ELSE told[i - 1]
    IN  told[Len(cmd)]
Has(cmd, s) == \E i \in 1 .. Len(cmd) : cmd[i] = Tok(s)
OptionOf(cmd, s) == LET at == {i \in 1 .. Len(cmd) - 1 : cmd[i] = Tok(s)} IN
    IF at = {} THEN "none" ELSE cmd[(CHOOSE i \in at : TRUE) + 1].t
=============================================================================
