------------------------------ MODULE MCClient ------------------------------
(* The layers of the client library, one per initial value of "layer": the    *)
(* calls on files and descriptors, a stdio stream, and the three ways to copy *)
(* a file into or out of UnifyFS.                                             *)
EXTENDS MCClientFiles, MCStreams, MCTransfers

VARIABLE layer

In(l, S) == IF layer = l THEN S ELSE {CHOOSE x \in S : TRUE}

ClientInit ==
    /\ layer \in {"files", "streams", "copies"}
    /\ prog \in In("files", Programs) /\ Init
    /\ sprog \in In("streams", StreamPrograms) /\ ScanInit
    /\ part \in IF layer = "copies" THEN {"api", "stage", "file"} ELSE {"none"}
    /\ CopyStart

ClientNext ==
    /\ UNCHANGED layer
    /\ \/ layer = "files" /\ Next /\ UNCHANGED <<scanvars, copyVars>>
       \/ layer = "streams" /\ ScanNext /\ UNCHANGED <<vars, copyVars>>
       \/ layer = "copies" /\ CopyNext /\ UNCHANGED <<vars, scanvars>>

\* A transfer that the client sees completed is complete at every server, and the
\* source of a move is removed only then (client_complete_transfer,
\* client_cleanup_transfer).
TransfersHonest == DoneIsCopied /\ MoveKeepsData

\* unifyfs-stage ends whatever fails, no rank waits in a barrier that another does
\* not reach, and its status is true (unifyfs_stage_transfer, main).
StageSound == [](StageTruthful /\ <>(part = "stage" => outcome # "none"))

ClientSpec == ClientInit /\ [][ClientNext]_<<layer, vars, scanvars, copyVars>> /\ CopyFairness
=============================================================================
