------------------------------- MODULE Stage --------------------------------
(* The program unifyfs-stage (util/unifyfs-stage/src): MPI ranks go through  *)
(* the manifest together.  A file that goes into UnifyFS is cut into blocks  *)
(* that are spread over the ranks; a file that comes out is handed to the    *)
(* transfer API by one rank.  At the end rank 0 writes a status file, which  *)
(* is what "unifyfs start" and "unifyfs terminate" wait for.                 *)
(*                                                                           *)
(* The manifest, the number of ranks and the one call that fails are chosen  *)
(* at the start.                                                             *)
EXTENDS Integers, Sequences, FiniteSets, FiniteSetsExt

CONSTANTS StageSetups,  \* see MCTransfers
          MinBlocks     \* blocks per client at least: 8 in the code

VARIABLES stage,    \* the setup, never changed
          at,       \* at[r]: file in hand, place in the code, next block
          sret,     \* ret of unifyfs_stage_transfer at r: an error
          mret,     \* ret of main at r: an error
          nfail,    \* n_xfer_failures of r
          nblk,     \* the broadcast number of blocks of each file, -1 before
          made,     \* files in UnifyFS that exist
          wrote,    \* wrote[f]: blocks written by some rank
          kept,     \* blocks that are synced, or copied out
          outcome   \* the status file
stageVars == <<stage, at, sret, mret, nfail, nblk, made, wrote, kept, outcome>>

Ranks == 0 .. stage.ranks - 1
Files == 1 .. Len(stage.files)
Blocks(f) == 0 .. stage.files[f].blocks - 1
Breaks(r, what) == stage.fault = <<r, at[r].f, what>>

\* The places of a rank inside unifyfs_stage_transfer, in order.
StageInit ==
    /\ stage \in StageSetups
    /\ at = [r \in Ranks |-> [f |-> 1, pc |-> "begin", blk |-> 0]]
    /\ sret = [r \in Ranks |-> FALSE] /\ mret = [r \in Ranks |-> FALSE]
    /\ nfail = [r \in Ranks |-> 0]
    /\ nblk = [f \in Files |-> -1]
    /\ made = {} /\ wrote = [f \in Files |-> {}] /\ kept = [f \in Files |-> {}]
    /\ outcome = "none"

Go(r, pc) == at' = [at EXCEPT ![r].pc = pc]
Err(r, b) == sret' = [sret EXCEPT ![r] = @ \/ b]
Kind(r) == stage.files[at[r].f].kind

\* decide which rank gets to manage the transfer
mgr_rank(f) == (f - 1) % stage.ranks

\* An MPI barrier: all ranks are at it, for the same file.
MPI_Barrier(pc, next) ==
    /\ \A r \in Ranks : at[r].pc = pc /\ at[r].f = at[0].f
    /\ at' = [r \in Ranks |-> [at[r] EXCEPT !.pc = next]]

\* Quotes, and whitespace outside of quotes, are replaced by NULs; the strings
\* between them are the names.  A line is blank or a comment, has two names, or
\* is invalid.  Characters: "q" a quote, "w" whitespace, others as they are.
InQuotes(line, i) == Cardinality({j \in 1 .. i : line[j] = "q"}) % 2 = 1
Nul(line, i) == line[i] = "q" \/ (line[i] \in {"w", "nl"} /\ ~InQuotes(line, i))
Names(line) == {i \in 1 .. Len(line) : ~Nul(line, i) /\ (i = 1 \/ Nul(line, i - 1))}
unifyfs_parse_manifest_line(line) ==
    IF line[1] \in {"nl", "#"} THEN "skip"
    ELSE IF Cardinality(Names(line)) = 2 THEN "pair" ELSE "EINVAL"

\* The next line of the manifest: an invalid one is an error of main, two paths
\* in UnifyFS are one of the transfer that is not counted as a failure.
NextLine(r) ==
    LET line == unifyfs_parse_manifest_line(stage.files[at[r].f].line) IN
    /\ at[r].pc = "begin"
    /\ \/ /\ at[r].f > Len(stage.files) /\ Go(r, "end") /\ UNCHANGED <<sret, mret>>
       \/ /\ at[r].f <= Len(stage.files) /\ (line # "pair" \/ Kind(r) = "both")
          /\ at' = [at EXCEPT ![r].f = @ + 1]
          /\ mret' = [mret EXCEPT ![r] = @ \/ line # "skip"] /\ UNCHANGED sret
       \/ /\ at[r].f <= Len(stage.files) /\ line = "pair" /\ Kind(r) \in {"in", "out"}
          /\ Go(r, IF stage.serial THEN "serial" ELSE "out")
          /\ sret' = [sret EXCEPT ![r] = FALSE] /\ UNCHANGED mret
    /\ UNCHANGED <<stage, nfail, nblk, made, wrote, kept, outcome>>

SerialBarrier ==
    /\ MPI_Barrier("serial", "out")
    /\ UNCHANGED <<stage, sret, mret, nfail, nblk, made, wrote, kept, outcome>>

\* The managing rank dispatches and waits for a transfer out of UnifyFS.
StageOut(r) ==
    /\ at[r].pc = "out"
    /\ \/ /\ Kind(r) = "out" /\ mgr_rank(at[r].f) = r
          /\ Err(r, Breaks(r, "transfer"))
          /\ kept' = IF Breaks(r, "transfer") THEN kept
                     ELSE [kept EXCEPT ![at[r].f] = Blocks(at[r].f)]
       \/ /\ Kind(r) = "out" /\ mgr_rank(at[r].f) # r /\ UNCHANGED <<sret, kept>>
       \/ /\ Kind(r) = "in" /\ UNCHANGED <<sret, kept>>
    /\ Go(r, IF Kind(r) = "in" THEN "bcast" ELSE "check")
    /\ UNCHANGED <<stage, mret, nfail, nblk, made, wrote, outcome>>

\* The size of the source: the manager sends it, the others wait for it.  A
\* file that the manager cannot stat has no blocks.
MPI_Bcast(r) ==
    LET f == at[r].f IN
    /\ at[r].pc = "bcast"
    /\ \/ /\ mgr_rank(f) = r
          /\ nblk' = [nblk EXCEPT ![f] = IF Breaks(r, "stat") THEN 0 ELSE stage.files[f].blocks]
          /\ Err(r, Breaks(r, "stat"))
       \/ mgr_rank(f) # r /\ nblk[f] # -1 /\ UNCHANGED <<nblk, sret>>
    /\ Go(r, IF stage.skewed THEN "skewed" ELSE "create")
    /\ UNCHANGED <<stage, mret, nfail, made, wrote, kept, outcome>>

\* The skewed distribution is not implemented.
Skewed(r) ==
    /\ at[r].pc = "skewed" /\ Err(r, TRUE) /\ Go(r, "check")
    /\ UNCHANGED <<stage, mret, nfail, nblk, made, wrote, kept, outcome>>

blocks_per_client(n) == Max({n \div stage.ranks, MinBlocks})
StartBlock(r) == r * blocks_per_client(nblk[at[r].f])
HasBlocks(r) == StartBlock(r) < nblk[at[r].f]

\* rank 0 creates destination file
Create(r) ==
    /\ at[r].pc = "create"
    /\ made' = IF r = 0 /\ ~Breaks(r, "create") THEN made \cup {at[r].f} ELSE made
    /\ Err(r, r = 0 /\ Breaks(r, "create"))
    /\ Go(r, "created")
    /\ UNCHANGED <<stage, mret, nfail, nblk, wrote, kept, outcome>>

CreateBarrier ==
    /\ MPI_Barrier("created", "open")
    /\ UNCHANGED <<stage, sret, mret, nfail, nblk, made, wrote, kept, outcome>>

\* A rank with blocks opens the source, and the destination unless it is rank 0.
OpenFiles(r) ==
    LET bad == Breaks(r, "open") \/ (r # 0 /\ at[r].f \notin made) IN
    /\ at[r].pc = "open"
    /\ \/ ~HasBlocks(r) /\ Go(r, "check") /\ UNCHANGED sret
       \/ /\ HasBlocks(r) /\ Err(r, bad)
          /\ IF bad \/ sret[r] THEN Go(r, "check")
             ELSE at' = [at EXCEPT ![r].pc = "copy", ![r].blk = 0]
    /\ UNCHANGED <<stage, mret, nfail, nblk, made, wrote, kept, outcome>>

\* Whether the first block is read, and written.
read_file_block(r) == ~(Breaks(r, "read") /\ at[r].blk = 0)
write_unify_file_block(r) == ~(Breaks(r, "write") /\ at[r].blk = 0)

\* One block is read and written; a failure ends the loop.
CopyBlock(r) ==
    LET f == at[r].f
        b == StartBlock(r) + at[r].blk
        more == at[r].blk < blocks_per_client(nblk[f]) /\ b < nblk[f]
        done == read_file_block(r) /\ write_unify_file_block(r) IN
    /\ at[r].pc = "copy"
    /\ \/ /\ more /\ done
          /\ wrote' = [wrote EXCEPT ![f] = @ \cup {b}]
          /\ at' = [at EXCEPT ![r].blk = @ + 1] /\ UNCHANGED sret
       \/ /\ more /\ ~done
          /\ Err(r, TRUE) /\ Go(r, "sync") /\ UNCHANGED wrote
       \/ /\ ~more
          /\ Go(r, "sync") /\ UNCHANGED <<wrote, sret>>
    /\ UNCHANGED <<stage, mret, nfail, nblk, made, kept, outcome>>

\* synchronize local writes
StageSync(r) ==
    LET f == at[r].f
        mine == {b \in wrote[f] : b \div blocks_per_client(nblk[f]) = r} IN
    /\ at[r].pc = "sync"
    /\ kept' = IF Breaks(r, "sync") THEN kept ELSE [kept EXCEPT ![f] = @ \cup mine]
    /\ Err(r, Breaks(r, "sync")) /\ Go(r, "check")
    /\ UNCHANGED <<stage, mret, nfail, nblk, made, wrote, outcome>>

\* verify_checksum compares two arrays of zeros: md5_checksum leaves the digest
\* in its own buffer.  It fails only when a file cannot be opened or read.
verify_checksum(r) == ~Breaks(r, "checksum")

\* The end of a file: a failure is counted and remembered.
StageDone(r) ==
    LET bad == sret[r] \/ (mgr_rank(at[r].f) = r /\ stage.checksum /\ ~verify_checksum(r)) IN
    /\ at[r].pc = "check"
    /\ nfail' = [nfail EXCEPT ![r] = IF bad THEN @ + 1 ELSE @]
    /\ mret' = [mret EXCEPT ![r] = @ \/ bad]
    /\ at' = [at EXCEPT ![r].f = @ + 1, ![r].pc = "begin"]
    /\ UNCHANGED <<stage, sret, nblk, made, wrote, kept, outcome>>

\* Mutant: rank 0 reports its own failures only.
MutReport ==
    /\ MPI_Barrier("end", "done")
    /\ outcome' = IF mret[0] THEN "fail" ELSE "success"
    /\ UNCHANGED <<stage, sret, mret, nfail, nblk, made, wrote, kept>>

\* All ranks meet; rank 0 adds up the failures and writes the status file.
Report ==
    /\ MPI_Barrier("end", "done")
    /\ outcome' = IF mret[0] \/ \E r \in Ranks : nfail[r] > 0 THEN "fail" ELSE "success"
    /\ UNCHANGED <<stage, sret, mret, nfail, nblk, made, wrote, kept>>

RankStep(r) ==
    \/ NextLine(r) \/ StageOut(r) \/ MPI_Bcast(r) \/ Skewed(r) \/ Create(r)
    \/ OpenFiles(r) \/ CopyBlock(r) \/ StageSync(r) \/ StageDone(r)

StageNext == (\E r \in Ranks : RankStep(r)) \/ SerialBarrier \/ CreateBarrier \/ Report

-----------------------------------------------------------------------------
\* When the status file says success, every block of every file of the manifest
\* is in its destination, synced, whichever rank had it and whichever call
\* failed on any rank (unifyfs-stage.c main, unifyfs-stage-transfer.c
\* distribute_source_file_data).
StageTruthful ==
    outcome = "success" =>
        \A f \in Files : stage.files[f].line[1] # "#" => kept[f] = Blocks(f)
=============================================================================
