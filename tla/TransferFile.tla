---------------------------- MODULE TransferFile ----------------------------
(* unifyfs_transfer_file of the POSIX client (client/src/posix_client.c):    *)
(* the ranks of an application copy one file out of UnifyFS together, each   *)
(* its own chunks, without any synchronization between them.                 *)
EXTENDS Integers

CONSTANTS FileSetups    \* ranks, size in bytes, size of the transfer buffer

\* An application has a rank, and the buffer of the transfer a byte.
ASSUME FileSetupsAssumption ==
    FileSetups \subseteq [ranks : Nat \ {0}, size : Nat, buf : Nat \ {0}]

VARIABLES job,      \* the setup, never changed
          tpc,      \* tpc[r]: place of rank r in the code
          tret,     \* tret[r]: it returned an error
          exists,   \* the destination exists
          dst       \* bytes in the destination
fileVars == <<job, tpc, tret, exists, dst>>

TRanks == 0 .. job.ranks - 1

FileInit ==
    /\ job \in FileSetups
    /\ tpc = [r \in TRanks |-> "begin"] /\ tret = [r \in TRanks |-> FALSE]
    /\ exists = FALSE /\ dst = {}

\* Bytes [offset, offset + count) that the source has.
do_transfer_data(offset, count) == {b \in 0 .. job.size - 1 : offset <= b /\ b < offset + count}

total_chunks == job.size \div job.buf + (IF job.size % job.buf # 0 THEN 1 ELSE 0)
last_chunk_size == job.size % job.buf
n_chunks_per_rank == total_chunks \div job.ranks
n_chunks_remainder == total_chunks % job.ranks

\* The chunks of rank r, and the one it may have of the remainder.
FirstPart(r) == do_transfer_data(n_chunks_per_rank * r * job.buf, n_chunks_per_rank * job.buf)

\* Mutant: the remainder begins one chunk too late.
MutRemainderPart(r) ==
    IF r < n_chunks_remainder
    THEN do_transfer_data((total_chunks - n_chunks_remainder + r + 1) * job.buf, job.buf)
    ELSE {}

RemainderPart(r) ==
    IF r < n_chunks_remainder
    THEN do_transfer_data((total_chunks - n_chunks_remainder + r) * job.buf,
                          IF last_chunk_size # 0 /\ r = n_chunks_remainder - 1
                          THEN last_chunk_size ELSE job.buf)
    ELSE {}

Small == total_chunks <= job.ranks

Returns(r, err) == /\ tpc' = [tpc EXCEPT ![r] = "done"]
                   /\ tret' = [tret EXCEPT ![r] = err]

\* Rank 0 creates the destination, or truncates it; the others go on at once.
unifyfs_transfer_file(r) ==
    /\ tpc[r] = "begin"
    /\ tpc' = [tpc EXCEPT ![r] = "open"] /\ UNCHANGED <<job, tret>>
    /\ IF r = 0 THEN exists' = TRUE /\ dst' = {} ELSE UNCHANGED <<exists, dst>>

\* A small file is copied by rank 0 alone.
transfer_file_serial(r) ==
    /\ tpc[r] = "open" /\ Small
    /\ dst' = IF r = 0 THEN dst \cup do_transfer_data(0, job.size) ELSE dst
    /\ Returns(r, FALSE)
    /\ UNCHANGED <<job, exists>>

\* A large one by all: a rank that comes before the file is created fails.
transfer_file_parallel(r) ==
    /\ ~Small
    /\ \/ /\ tpc[r] = "open" /\ ~exists /\ Returns(r, TRUE) /\ UNCHANGED dst
       \/ /\ tpc[r] = "open" /\ exists
          /\ dst' = dst \cup FirstPart(r)
          /\ tpc' = [tpc EXCEPT ![r] = "rest"] /\ UNCHANGED tret
       \/ /\ tpc[r] = "rest"
          /\ dst' = dst \cup RemainderPart(r) /\ Returns(r, FALSE)
    /\ UNCHANGED <<job, exists>>

FileNext == \E r \in TRanks : unifyfs_transfer_file(r) \/ transfer_file_serial(r) \/ transfer_file_parallel(r)

FileSpec == FileInit /\ [][FileNext]_fileVars

-----------------------------------------------------------------------------
\* When every rank returns success the destination has every byte of the
\* source, for every size, number of ranks and order of the ranks
\* (posix_client.c transfer_file_parallel).
FileTransferExact ==
    (\A r \in TRanks : tpc[r] = "done" /\ ~tret[r]) => dst = 0 .. job.size - 1
=============================================================================
