----------------------------- MODULE MCTransfers ----------------------------
(* The three ways to copy a file into or out of UnifyFS, one at a time: the  *)
(* transfer API, the program unifyfs-stage, the POSIX transfer call.         *)
EXTENDS Transfers, Stage, TransferFile

VARIABLE part   \* which of them runs

R(mode, place, par) == [mode |-> mode, place |-> place, par |-> par]
C(op, from, to, all) == [op |-> op, from |-> from, to |-> to, all |-> all]
Dispatch(n) == C("dispatch", 1, n, TRUE)
WaitAll(n) == C("wait", 1, n, TRUE)
WaitAny(n) == C("wait", 1, n, FALSE)
Cancel(n) == C("cancel", 1, n, TRUE)

MoveOut == R("move", "out", TRUE)
CopyOut == R("copy", "out", TRUE)

\* Moves without faults: two at a time, one after the other in the only slot,
\* cancelled ones, and a third that finds the list full.
MoveSetups ==
    {[servers |-> 2, data |-> d, cap |-> c, faults |-> {}, calls |-> p, reqs |-> q] :
        d \in {{0}, {0, 1}}, c \in {2},
        p \in {<<Dispatch(2), WaitAll(2)>>, <<Dispatch(2), WaitAny(2), WaitAll(2)>>,
               <<Dispatch(2), Cancel(2), WaitAll(2)>>},
        q \in {<<MoveOut, MoveOut>>, <<MoveOut, CopyOut>>}}
    \cup
    {[servers |-> 2, data |-> {1}, cap |-> 1, faults |-> {},
      calls |-> <<Dispatch(1), WaitAll(1), C("dispatch", 2, 2, TRUE), C("wait", 2, 2, TRUE)>>,
      reqs |-> <<MoveOut, MoveOut>>]}
    \cup
    {[servers |-> 3, data |-> {0, 2}, cap |-> 1, faults |-> {}, calls |-> <<Dispatch(1), WaitAll(1)>>,
      reqs |-> <<MoveOut>>]}

\* Copies with everything that can fail.
CopySetups ==
    {[servers |-> 2, data |-> {0, 1}, cap |-> 2, faults |-> {f}, calls |-> <<Dispatch(2), WaitAll(2)>>,
      reqs |-> <<r, CopyOut>>] :
        f \in {<<0, "rpc">>, <<0, "forward">>, <<0, "wait">>, <<0, "thread">>, <<0, "read">>, <<0, "write">>, <<0, "open">>},
        r \in {CopyOut, R("copy", "out", FALSE), R("copy", "in", TRUE)}}
    \cup
    {[servers |-> 2, data |-> {0}, cap |-> 1, faults |-> {}, calls |-> <<Dispatch(3), WaitAll(3)>>,
      reqs |-> <<CopyOut, r, R("copy", "out", TRUE)>>] :
        r \in {R("bad", "out", TRUE), R("copy", "both", TRUE), R("copy", "neither", TRUE), R("move", "in", TRUE)}}

\* The child has no data, and the root does not wait for it.
SlowSetups ==
    {[servers |-> 2, data |-> {0}, cap |-> 1, faults |-> {f}, calls |-> <<Dispatch(1), WaitAll(1)>>,
      reqs |-> <<MoveOut>>] : f \in {<<0, "slow">>, <<1, "thread">>}}

AllTransferSetups == MoveSetups \cup CopySetups \cup SlowSetups

\* A move with a serial transfer: it is refused by the server.
SerialMove ==
    {[servers |-> 2, data |-> {0, 1}, cap |-> 2, faults |-> {}, calls |-> <<Dispatch(1), WaitAll(1)>>,
      reqs |-> <<R("move", "out", FALSE)>>]}

\* Lines of a manifest: two names, quoted or not; one name; three; a comment.
Unquoted == <<"x", "w", "x">>
Quoted == <<"w", "q", "x", "w", "x", "q", "w", "w", "q", "x", "q", "nl">>
Entry(kind, blocks) == [kind |-> kind, blocks |-> blocks, line |-> IF blocks % 2 = 0 THEN Unquoted ELSE Quoted]
FileLine(l) == [kind |-> "in", blocks |-> 1, line |-> l]
Manifests == {<<Entry("in", 3), Entry("in", 1)>>, <<Entry("in", 4), Entry("out", 2), Entry("in", 0)>>,
              <<Entry("both", 1), Entry("in", 6)>>, <<FileLine(<<"x", "nl">>), Entry("out", 1)>>,
              <<FileLine(<<"#", "x">>), Entry("in", 2)>>, <<FileLine(<<"x", "w", "x", "w", "x">>)>>}
StageFaults ==
    {<<0, 1, w>> : w \in {"none", "create", "open", "read", "write", "sync", "stat", "transfer", "checksum"}}
    \cup {<<1, f, w>> : f \in {1, 2}, w \in {"open", "write", "sync", "stat", "transfer", "checksum"}}
MCStageSetups ==
    {[ranks |-> n, files |-> m, serial |-> s, checksum |-> TRUE, skewed |-> FALSE, fault |-> x] :
        n \in {2}, m \in Manifests, s \in BOOLEAN, x \in StageFaults}
    \cup
    {[ranks |-> 3, files |-> <<Entry("in", 6)>>, serial |-> TRUE, checksum |-> FALSE, skewed |-> k, fault |-> <<2, 1, "write">>] :
        k \in BOOLEAN}

\* Five blocks for two ranks, and the checksums are compared.
OddBlocks ==
    {[ranks |-> 2, files |-> <<Entry("in", 5)>>, serial |-> TRUE, checksum |-> TRUE, skewed |-> FALSE,
      fault |-> <<0, 1, "none">>]}

MCFileSetups == [ranks : {1, 2, 3}, size : 0 .. 11, buf : {1, 2, 3}]
NoFiles == [ranks : {1}, size : {0}, buf : {1}]

copyVars == <<part, transferVars, stageVars, fileVars>>

\* The parts that do not run stay in one initial state.
Only(p, S) == IF part = p THEN S ELSE {CHOOSE s \in S : TRUE}

CopyStart ==
    /\ setup \in Only("api", TransferSetups)
    /\ stage \in Only("stage", StageSetups)
    /\ job \in Only("file", FileSetups)
    /\ TransfersInit /\ StageInit /\ FileInit

CopyInit == part \in {"api", "stage", "file"} /\ CopyStart

Rest == UNCHANGED <<part, stageVars, fileVars>>
StageStep == part = "stage" /\ StageNext /\ UNCHANGED <<part, transferVars, fileVars>>

CopyNext ==
    \/ part = "api" /\ TransfersNext /\ Rest
    \/ StageStep
    \/ part = "file" /\ FileNext /\ UNCHANGED <<part, transferVars, stageVars>>

CopySpec == CopyInit /\ [][CopyNext]_copyVars

\* The application goes on, and so do the threads of the servers and the ranks
\* of unifyfs-stage: each is a thread or a process of its own.
CopyFairness ==
    /\ WF_copyVars(part = "api" /\ Application /\ Rest)
    /\ WF_copyVars(part = "api" /\ Threads /\ Rest)
    /\ WF_copyVars(StageStep)
=============================================================================
