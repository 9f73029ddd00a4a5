------------------------------ MODULE LogStore ------------------------------
(***************************************************************************)
(* The write log of a client (common/src/unifyfs_logio.c): a log in shared *)
(* memory and a log in a spill file, addressed as one by log offsets.  The *)
(* threads of the client allocate space for each write (fid_logio_write),  *)
(* and the space is freed extent by extent when a file is unlinked: by the *)
(* server for the extents it knows (unifyfs_inode_destroy), by the client  *)
(* for those it did not sync (fid_storage_free).  Each log has a header    *)
(* with a slot map of its chunks and a flag that its users spin on.        *)
(*                                                                         *)
(* A step is the part of a call between two looks at a header's flag.      *)
(* Left out: reserved_sz, which nothing reads (unifyfs_logio_free reduces  *)
(* it also when slotmap_release fails).                                    *)
(***************************************************************************)
EXTENDS Integers, FiniteSets, Sequences, FiniteSetsExt, SequencesExt

CONSTANTS
    Procs,      \* threads of the client and of the server that use the log
    Files,
    FileBytes,  \* bytes of a file
    WriteSizes, \* the sizes of writes
    ChunkSz,    \* chunk_sz
    MemChunks,  \* chunks of the shared memory log (0: none)
    SpillChunks,\* chunks of the spill file (0: none)
    LogByteBits,   \* slots per byte of a slot map (8 in the code)
    MaxWrites,  \* bound on the number of writes
    MaxUnlinks  \* bound on the number of unlinks

ASSUME LogStoreAssumption ==
    /\ ChunkSz \in Nat \ {0} /\ LogByteBits \in Nat \ {0}
    /\ MemChunks \in Nat /\ SpillChunks \in Nat
    /\ MemChunks + SpillChunks > 0
    /\ WriteSizes \subseteq 1 .. FileBytes

VARIABLES
    map,      \* the slot map of each log
    updating, \* the flag of each header
    proc,     \* what each thread is doing
    data,     \* the bytes of the log: the number of the write that stored them
    extents,  \* where in the log the bytes of the files are, None for a hole
    expected, \* the number of the write each byte of a file should hold
    writes, unlinks,
    mishaps   \* a history variable: what went wrong in an allocation so far

logVars == <<map, updating, proc, data, extents, expected, writes, unlinks, mishaps>>

mem == "mem"
spill == "spill"
LogParts == {mem, spill}
ChunksOf == [l \in LogParts |-> IF l = mem THEN MemChunks ELSE SpillChunks]
None == -2
Resting == [pc |-> "idle"]
Positions == 0 .. FileBytes - 1

\* The bits of a slot map: total_slots need not be a multiple of those of a byte.
BitsOf(chunks) == ((chunks + LogByteBits - 1) \div LogByteBits) * LogByteBits

\* The log offsets that may be written: the spill file grows.
LogBytes == 0 .. (MemChunks + BitsOf(SpillChunks) + 1) * ChunkSz - 1

\* "astray": an allocation is not made of consecutive chunks that the logs have.
\* "orphan": an allocation failed and left the header of the spill log locked.
Mishaps == {"astray", "orphan"}

EmptyMap == [used |-> {}, n |-> 0, first |-> -1, last |-> -1]

LogInit ==
    /\ map = [l \in LogParts |-> EmptyMap]
    /\ updating = [l \in LogParts |-> FALSE]
    /\ proc = [p \in Procs |-> Resting]
    /\ data = [b \in LogBytes |-> 0]
    /\ extents = [f \in Files |-> [i \in Positions |-> None]]
    /\ expected = [f \in Files |-> [i \in Positions |-> 0]]
    /\ writes = 0
    /\ unlinks = 0
    /\ mishaps = {}

-----------------------------------------------------------------------------
(* The slot maps, as functions of their contents (SlotMap has the loop) *)

\* slotmap_reserve at byte b of map m of log l, looking for num slots.
SM(l, m, num, b) == INSTANCE SlotMap WITH
    TotalSlots <- ChunksOf[l], ByteBits <- LogByteBits, Sizes <- {}, usemap <- m.used,
    used_slots <- m.n, first_used_slot <- m.first, last_used_slot <- m.last,
    search <- [num |-> num, byte |-> b], held <- {}

\* The slot that slotmap_reserve returns: the loop of SlotMap, run to its end.
slotmap_reserve(l, m, num) ==
    LET bytes == SM(l, m, num, 0)!slot_map_bytes(num)
        At[b \in 0 .. SM(l, m, num, 0)!MapBytes] ==
          IF b = SM(l, m, num, b)!MapBytes THEN -1
          ELSE IF SM(l, m, num, b)!Full(b) THEN At[b + 1]
          ELSE IF SM(l, m, num, b)!WholeBytes
          THEN LET run == Min({i \in 0 .. bytes : i = bytes \/ ~SM(l, m, num, b)!Empty(b + i)})
               IN  IF run = bytes THEN b * LogByteBits ELSE At[b + run + 1]
          ELSE LET r == CHOOSE r \in (0 .. LogByteBits - 1) \X (1 .. LogByteBits) :
                          SM(l, m, num, b)!LongestRun(b, r[1], r[2])
               IN  IF r[2] >= num \/ SM(l, m, num, b)!RunGoesOn(b, r[1], r[2])
                   THEN b * LogByteBits + r[1]
                   ELSE At[b + 1]
    IN  IF ChunksOf[l] - m.n < num THEN -1 ELSE At[SM(l, m, num, 0)!search_start(num)]

\* The map after slots were taken, and after they were released.
Taken(m, slot, num) ==
    [used  |-> m.used \cup slot .. slot + num - 1,
     n     |-> m.n + num,
     first |-> IF m.first = -1 THEN slot ELSE Min({slot, m.first}),
     last  |-> Max({slot + num - 1, m.last})]

Released(l, m, slot, num) ==
    LET used == m.used \ (slot .. slot + num - 1)
        end  == slot + num - 1
        last == IF slot = m.first THEN SM(l, m, num, 0)!NextUsed(used, end) ELSE m.last
    IN  IF slot \notin m.used THEN m
        ELSE IF m.n = num THEN [EmptyMap EXCEPT !.used = used]
        ELSE [used |-> used, n |-> m.n - num, first |-> m.first,
              last |-> IF end = last THEN SM(l, m, num, 0)!PrevUsed(used, slot) ELSE last]

-----------------------------------------------------------------------------
(* The flag of a header *)

\* LOCK_LOG_HEADER: wait for the flag to be clear, then set it.
LockHeader(p) ==
    /\ proc[p].pc = "lock"
    /\ ~updating[proc[p].log]
    /\ proc' = [proc EXCEPT ![p].pc = "set"]
    /\ UNCHANGED <<map, updating, data, extents, expected, writes, unlinks, mishaps>>

SetFlag(p) ==
    /\ proc[p].pc = "set"
    /\ updating' = [updating EXCEPT ![proc[p].log] = TRUE]
    /\ proc' = [proc EXCEPT ![p].pc = "hold"]
    /\ UNCHANGED <<map, data, extents, expected, writes, unlinks, mishaps>>

HoldsHeader(p, op, l) == proc[p].pc = "hold" /\ proc[p].op = op /\ proc[p].log = l

-----------------------------------------------------------------------------
(* fid_logio_write: unifyfs_logio_alloc, then unifyfs_logio_write *)

bytes_to_chunks(bytes) == bytes \div ChunkSz + (IF bytes % ChunkSz = 0 THEN 0 ELSE 1)

MemBytes == MemChunks * ChunkSz

\* A write of len bytes of file f at pos; mn chunks of the shared memory log, from
\* mslot, are held for it while it asks the spill file for the others.
WriteStart(p, f, pos, len) ==
    /\ proc[p] = Resting
    /\ writes < MaxWrites
    /\ pos + len <= FileBytes
    /\ writes' = writes + 1
    /\ proc' = [proc EXCEPT ![p] =
          [pc |-> "lock", op |-> "write", log |-> IF MemChunks > 0 THEN mem ELSE spill,
           file |-> f, pos |-> pos, len |-> len, id |-> writes', mslot |-> 0, mn |-> 0, off |-> 0]]
    /\ UNCHANGED <<map, updating, data, extents, expected, unlinks, mishaps>>

\* The allocation is done: the write goes to log offset off.
Got(p, off) == proc' = [proc EXCEPT ![p].pc = "store", ![p].off = off]

Fail(p) == proc' = [proc EXCEPT ![p] = Resting]

\* Slots of one log are allocated; the last ones may be beyond its chunks.
Whole(l, slot, num) ==
    mishaps' = mishaps \cup (IF slot + num > ChunksOf[l] THEN {"astray"} ELSE {})

\* No chunks from the shared memory log: ask the spill file, if there is one.
MemRefused(p) ==
    /\ updating' = [updating EXCEPT ![mem] = FALSE]
    /\ IF SpillChunks > 0
       THEN proc' = [proc EXCEPT ![p].pc = "lock", ![p].log = spill]
       ELSE Fail(p)
    /\ UNCHANGED <<map, mishaps>>

\* A mutant: the size of the shared memory log is forgotten.
MutSpillOffset(slot) == slot * ChunkSz

\* The log offset of a slot of the spill file.
SpillOffset(slot) == slot * ChunkSz + MemBytes

\* All chunks from the shared memory log, or else those at its end.
AllocMem(p) ==
    LET w    == proc[p]
        m    == map[mem]
        need == bytes_to_chunks(w.len)
        slot == slotmap_reserve(mem, m, need)
        end  == MemChunks - (m.last + 1)
        eslot == IF SpillChunks > 0 /\ end > 0 THEN slotmap_reserve(mem, m, end) ELSE -1
    IN  /\ HoldsHeader(p, "write", mem)
        /\ IF slot # -1
           THEN /\ map' = [map EXCEPT ![mem] = Taken(m, slot, need)]
                /\ updating' = [updating EXCEPT ![mem] = FALSE]
                /\ Got(p, slot * ChunkSz)
                /\ Whole(mem, slot, need)
           ELSE IF eslot # -1
           THEN \* keep the header locked through the spill attempt
                /\ map' = [map EXCEPT ![mem] = Taken(m, eslot, end)]
                /\ proc' = [proc EXCEPT ![p].pc = "lock", ![p].log = spill,
                                        ![p].mslot = eslot, ![p].mn = end]
                /\ UNCHANGED <<updating, mishaps>>
           ELSE MemRefused(p)
        /\ UNCHANGED <<data, extents, expected, writes, unlinks>>

\* The rest of the chunks from the spill file.
AllocSpill(p) ==
    LET w     == proc[p]
        m     == map[spill]
        need  == bytes_to_chunks(w.len - w.mn * ChunkSz)
        slot  == slotmap_reserve(spill, m, need)
        full  == bytes_to_chunks(w.len)
        m1    == Released(spill, Taken(m, slot, need), slot, need)
        slot1 == slotmap_reserve(spill, m1, full)
        memBack == Released(mem, map[mem], w.mslot, w.mn)
    IN  /\ HoldsHeader(p, "write", spill)
        /\ \/ \* roll back any prior shmem reservation and return ENOSPC
              /\ slot = -1
              /\ map' = IF w.mn > 0 THEN [map EXCEPT ![mem] = memBack] ELSE map
              /\ updating' = [updating EXCEPT ![spill] = FALSE, ![mem] = IF w.mn > 0 THEN FALSE ELSE @]
              /\ Fail(p)
              /\ UNCHANGED mishaps
           \/ \* full reservation in spill
              /\ slot # -1 /\ w.mn = 0
              /\ map' = [map EXCEPT ![spill] = Taken(m, slot, need)]
              /\ updating' = [updating EXCEPT ![spill] = FALSE]
              /\ Got(p, SpillOffset(slot))
              /\ Whole(spill, slot, need)
           \/ \* successful reservation spanning shmem and spill
              /\ slot = 0 /\ w.mn > 0
              /\ map' = [map EXCEPT ![spill] = Taken(m, slot, need)]
              /\ updating' = [l \in LogParts |-> FALSE]
              /\ Got(p, w.mslot * ChunkSz)
              /\ mishaps' = mishaps \cup
                   (IF w.mslot + w.mn # MemChunks \/ need > SpillChunks THEN {"astray"} ELSE {})
           \/ \* incompatible shmem and spill reservations: release both and try
              \* again in spill; when that fails too, its header stays locked
              /\ slot > 0 /\ w.mn > 0
              /\ IF slot1 # -1
                 THEN /\ map' = [map EXCEPT ![mem] = memBack, ![spill] = Taken(m1, slot1, full)]
                      /\ updating' = [l \in LogParts |-> FALSE]
                      /\ Got(p, SpillOffset(slot1))
                      /\ Whole(spill, slot1, full)
                 ELSE /\ map' = [map EXCEPT ![mem] = memBack, ![spill] = m1]
                      /\ updating' = [updating EXCEPT ![mem] = FALSE]
                      /\ Fail(p)
                      /\ mishaps' = mishaps \cup {"orphan"}
        /\ UNCHANGED <<data, extents, expected, writes, unlinks>>

\* Store the data at consecutive log offsets and record where they are.  The part in
\* the spill file may be written in part or not at all: then only what was written
\* is recorded, and the rest of the allocation stays reserved.
Store(p) ==
    LET w == proc[p]
        inMem == Max({0, Min({w.len, MemBytes - w.off})})  \* sz_in_mem
    IN  /\ w.pc = "store"
        /\ \E nwrite \in inMem .. w.len :
             LET range == w.off .. w.off + nwrite - 1
                 written == w.pos .. w.pos + nwrite - 1
             IN  /\ data' = [b \in LogBytes |-> IF b \in range THEN w.id ELSE data[b]]
                 /\ extents' = [extents EXCEPT ![w.file] =
                      [i \in Positions |-> IF i \in written THEN w.off + (i - w.pos) ELSE @[i]]]
                 /\ expected' = [expected EXCEPT ![w.file] =
                      [i \in Positions |-> IF i \in written THEN w.id ELSE @[i]]]
        /\ proc' = [proc EXCEPT ![p] = Resting]
        /\ UNCHANGED <<map, updating, writes, unlinks, mishaps>>

-----------------------------------------------------------------------------
(* Unlinking a file frees its extents one after the other *)

\* get_log_sizes and the chunks that unifyfs_logio_free computes from them.
Parts(off, len) ==
    IF off + len <= MemBytes
    THEN <<[log |-> mem, slot |-> off \div ChunkSz, num |-> bytes_to_chunks(len)]>>
    ELSE IF off < MemBytes
    THEN <<[log |-> mem, slot |-> off \div ChunkSz, num |-> bytes_to_chunks(MemBytes - off)],
           [log |-> spill, slot |-> 0, num |-> bytes_to_chunks(len - (MemBytes - off))]>>
    ELSE <<[log |-> spill, slot |-> (off - MemBytes) \div ChunkSz, num |-> bytes_to_chunks(len)]>>

\* The extents of a file are its runs of bytes that are consecutive in the log.
Begins(e, i) == e[i] # None /\ (i = 0 \/ e[i - 1] # e[i] - 1)

RunLength(e, i) ==
    Max({n \in 1 .. FileBytes - i : \A k \in 0 .. n - 1 : e[i + k] = e[i] + k})

FreeParts(e) ==
    LET starts == SetToSortSeq({i \in Positions : Begins(e, i)}, <)
    IN  FlattenSeq([k \in DOMAIN starts |-> Parts(e[starts[k]], RunLength(e, starts[k]))])

Freeing(parts) ==
    IF parts = <<>> THEN Resting
    ELSE [pc |-> "lock", op |-> "free", log |-> Head(parts).log, parts |-> parts]

Unlink(p, f) ==
    /\ proc[p] = Resting
    /\ unlinks < MaxUnlinks
    /\ FreeParts(extents[f]) # <<>>
    /\ unlinks' = unlinks + 1
    /\ proc' = [proc EXCEPT ![p] = Freeing(FreeParts(extents[f]))]
    /\ extents' = [extents EXCEPT ![f] = [i \in Positions |-> None]]
    /\ expected' = [expected EXCEPT ![f] = [i \in Positions |-> 0]]
    /\ UNCHANGED <<map, updating, data, writes, mishaps>>

\* slotmap_release fails when the first of the chunks was given back with another
\* piece of the same write: the others of this piece then stay reserved.
FreePart(p, l) ==
    LET part == Head(proc[p].parts) IN
    /\ HoldsHeader(p, "free", l)
    /\ map' = [map EXCEPT ![l] = Released(l, @, part.slot, part.num)]
    /\ updating' = [updating EXCEPT ![l] = FALSE]
    /\ proc' = [proc EXCEPT ![p] = Freeing(Tail(proc[p].parts))]
    /\ UNCHANGED <<data, extents, expected, writes, unlinks, mishaps>>

LogNext ==
    \E p \in Procs :
      \/ \E f \in Files, pos \in Positions, len \in WriteSizes : WriteStart(p, f, pos, len)
      \/ LockHeader(p)
      \/ SetFlag(p)
      \/ AllocMem(p)
      \/ AllocSpill(p)
      \/ Store(p)
      \/ \E f \in Files : Unlink(p, f)
      \/ \E l \in LogParts : FreePart(p, l)

LogSpec == LogInit /\ [][LogNext]_logVars

-----------------------------------------------------------------------------
(* Properties *)

\* Type invariant of the write log.
LogTypeOK ==
    /\ \A l \in LogParts :
         map[l].used \subseteq 0 .. BitsOf(ChunksOf[l]) - 1 /\ map[l].n \in 0 .. ChunksOf[l]
    /\ updating \in [LogParts -> BOOLEAN]
    /\ data \in [LogBytes -> 0 .. MaxWrites]
    /\ extents \in [Files -> [Positions -> LogBytes \cup {None}]]
    /\ mishaps \subseteq Mishaps

\* What a write stored in the log stays there while the file has it: the space
\* unifyfs_logio_alloc returns ("log offset to use for writing") is nobody else's.
DataIntact ==
    \A f \in Files, i \in Positions :
      extents[f][i] # None => data[extents[f][i]] = expected[f][i]

\* The count of used slots, by which slotmap_reserve refuses a request, is that of
\* the bits, although slotmap_release subtracts what it is asked to release.
CountsExact == \A l \in LogParts : map[l].n = Cardinality(map[l].used)

\* When no call is in progress, no header is marked as being updated (the next call
\* would spin for ever), the spill log's excepted once a second attempt in it failed.
HeadersFree ==
    (\A p \in Procs : proc[p] = Resting) =>
      ~updating[mem] /\ (updating[spill] => "orphan" \in mishaps)
=============================================================================
