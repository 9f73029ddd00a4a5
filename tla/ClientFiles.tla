----------------------------- MODULE ClientFiles -----------------------------
(* One process that uses UnifyFS: the POSIX wrappers of unifyfs-sysio.c and  *)
(* unifyfs-dirops.c and the file operations of the library API, over the     *)
(* local file ids of ClientFids.  The application runs one call at a time;   *)
(* a call is broken where it waits for its server.  Between two such steps   *)
(* other processes change the files, and the server tells this client of an  *)
(* unlink by a callback that a thread of the library handles on its own.     *)
(*                                                                           *)
(* The server is one table of files here: how it is spread over servers is   *)
(* the subject of FileService.  A write is a number; what bytes it covers is *)
(* left out, so a position of a descriptor is too.                           *)
EXTENDS ClientFids

CONSTANTS NFds,         \* UNIFYFS_CLIENT_MAX_FILES descriptors
          Numbers,      \* system descriptor numbers that dup and dup2 may use
          NDirs,        \* directory streams
          Programs      \* the programs and settings considered

\* A program: the calls it makes (of the wrappers or of the API), on which names,
\* with which flags of open; client.write_sync and max_write_index_entries; what
\* other processes do to the files; and the bounds on writes, on steps of other
\* processes and on calls to the server that fail in transit.
ASSUME FilesAssumption ==
    /\ NFds \in Nat \ {0} /\ NDirs \in Nat
    /\ \A g \in Programs :
          /\ g.names \subseteq Paths /\ g.wsync \in BOOLEAN /\ g.index \in Nat \ {0, 1}
          /\ g.writes \in 0 .. MaxWrites /\ g.npeer \in Nat /\ g.nfault \in Nat

VARIABLES prog,      \* the program
          fids,      \* the local file ids (ClientFids)
          fdfree, fd, dup, sockets,   \* free descriptors, descriptors, dup_fds, open sockets of dup
          dirfree, dirs,              \* free directory streams, and their descriptors
          srv,       \* the files as the server has them
          cbs, hand, \* unlink callbacks under way, and the one being handled
          op,        \* the call the application is in
          held,      \* the descriptors the application holds
          peer, faults, nw,           \* counts, for the bounds
          home, via, \* of each acknowledged write: its file, and where it was made
          gone,      \* writes whose file was unlinked, truncated or laminated before a sync
          claimed,   \* writes that a sync the application asked for reported done
          upset      \* files that met an event after which no promise is made

fdvars == <<fdfree, fd, dup, sockets, dirfree, dirs, held>>
env == <<cbs, hand, peer, nw>>
ghosts == <<home, via, gone, claimed, upset>>
vars == <<prog, fids, fdvars, srv, env, op, faults, ghosts>>

Calls == prog.calls
Fds == 0 .. NFds - 1
Absent == [there |-> FALSE, dir |-> FALSE, lam |-> FALSE, mode |-> TRUE, data |-> {}]
Attr(p) == [gfid |-> p, dir |-> srv[p].dir, lam |-> srv[p].lam, mode |-> srv[p].mode]
FdInit == [fid |-> None, rd |-> FALSE, wr |-> FALSE, app |-> FALSE, use |-> 0]
NoFlags == [acc |-> "r", creat |-> FALSE, excl |-> FALSE, trunc |-> FALSE,
            append |-> FALSE, dir |-> FALSE]

\* The call of the application: what it waits for next, the names and flags it
\* was given, the file id and length it works on, what follows a truncation,
\* and the descriptor it came through.
Call(pc) == [pc |-> pc, p |-> None, q |-> None, fl |-> NoFlags, kind |-> None,
             f |-> None, len |-> 0, next |-> "idle", v |-> None]
Idle == Call("idle")

Init == /\ prog \in Programs
        /\ fids = FidsInit
        /\ fdfree = StackInit(NFds) /\ fd = [k \in Fds |-> FdInit]
        /\ dup = [n \in Numbers |-> None] /\ sockets = {} /\ held = {}
        /\ dirfree = StackInit(NDirs) /\ dirs = [d \in 0 .. NDirs - 1 |-> None]
        /\ srv = [p \in Paths |-> Absent]
        /\ cbs = {} /\ hand = None /\ op = Idle
        /\ peer = 0 /\ faults = 0 /\ nw = 0
        /\ home = [w \in Writes |-> None] /\ via = [w \in Writes |-> None]
        /\ gone = {} /\ claimed = {} /\ upset = {}

-----------------------------------------------------------------------------
(* The server, as the client's calls see it *)

\* A call reaches the server and is answered, or it fails on its way there.
Fault == faults < prog.nfault
Answered == UNCHANGED faults
Fails(ps) == Fault /\ faults' = faults + 1 /\ upset' = upset \cup ps

Acked(p) == {w \in Writes : home[w] = p}

\* Writes of the file that are not at the server when it is laminated are
\* invalid; those of a file that is unlinked or truncated are gone.
SrvCreate(p, dir) == srv' = [srv EXCEPT ![p] = [Absent EXCEPT !.there = TRUE, !.dir = dir]]
SrvUnlink(p) ==
    /\ srv' = [srv EXCEPT ![p] = Absent]
    /\ gone' = gone \cup Acked(p)
    /\ cbs' = IF srv[p].data = {} THEN cbs ELSE cbs \cup {p}
    /\ upset' = IF srv[p].data = {} THEN upset ELSE upset \cup {p}
SrvLaminate(p) == /\ srv' = [srv EXCEPT ![p].lam = TRUE]
                  /\ gone' = gone \cup (Acked(p) \ srv[p].data)

\* The outcomes of unifyfs_fid_sync_extents(f): nothing to send, an answer of the
\* server, or a call that fails.  The index is emptied whatever the outcome.
SyncOuts(f) ==
    LET send == ToSend(fids, f)
        g == fids.meta[f].gfid
        out(ok, to, n) == [fids |-> Flushed(fids, f), srv |-> to, ok |-> ok, n |-> n]
        accepts == srv[g].there /\ ~srv[g].lam
        sent == [srv EXCEPT ![g].data = @ \cup send]
    IN  IF send = {}
        THEN {[fids |-> IF Pending(fids, f) THEN Delete(fids, f)
                        ELSE IF fids.meta[f].live /\ fids.meta[f].needs THEN Flushed(fids, f)
                        ELSE fids,
               srv |-> srv, ok |-> Pending(fids, f) \/ fids.meta[f].live, n |-> 0]}
        ELSE {IF accepts THEN out(TRUE, sent, 0) ELSE out(FALSE, srv, 0)}
             \cup IF Fault THEN {out(FALSE, srv, 1)} ELSE {}

\* One of these outcomes; after a failed call no promise is made for the file.
Sync(f, r) == /\ r \in SyncOuts(f)
              /\ fids' = r.fids /\ srv' = r.srv /\ faults' = faults + r.n
              /\ upset' = IF r.n = 1 THEN upset \cup {fids.meta[f].gfid} ELSE upset

\* A sync that the application asked for, through v, succeeded.
Claim(v) == claimed' = claimed \cup {w \in Writes : home[w] # None /\ via[w] = v}

-----------------------------------------------------------------------------
(* Opening: unifyfs_fid_open, unifyfs_gfid_create, unifyfs_fid_fetch *)

Return == op' = Idle
Abort == op' = Call("crashed")
Goto(pc) == op' = [op EXCEPT !.pc = pc]

\* unifyfs_fid_open creates the file at the server first when asked to.
StartOpen(p, fl, kind) ==
    /\ op.pc = "idle" /\ kind \in Calls
    /\ op' = [Call(IF fl.creat THEN "create" ELSE "fetch") EXCEPT !.p = p, !.fl = fl, !.kind = kind]
    /\ UNCHANGED <<fids, fdvars, srv, env, faults, ghosts>>

Open(p, fl) == StartOpen(p, fl, "open")

\* creat does not set the append flag of the descriptor.
Creat(p) == StartOpen(p, [NoFlags EXCEPT !.acc = "w", !.creat = TRUE, !.trunc = TRUE], "creat")

\* unifyfs_create and unifyfs_open of the library stop once the file is cached.
ApiCreate(p) == StartOpen(p, [NoFlags EXCEPT !.acc = "rw", !.creat = TRUE, !.excl = TRUE], "api")
ApiOpen(p) == StartOpen(p, NoFlags, "api")

GfidCreate ==
    /\ op.pc = "create"
    /\ UNCHANGED <<fids, fdvars, env, home, via, gone, claimed>>
    /\ \/ /\ ~srv[op.p].there
          /\ SrvCreate(op.p, FALSE) /\ Goto("fetch") /\ Answered /\ UNCHANGED upset
       \/ /\ srv[op.p].there
          /\ IF op.fl.excl THEN Return ELSE Goto("fetch")
          /\ Answered /\ UNCHANGED <<srv, upset>>
       \/ Fails({op.p}) /\ Return /\ UNCHANGED srv

\* The cached metadata is updated from the server's; an entry the server does
\* not know is dropped, with the writes it was to sync.
Fetched(p, c) ==
    LET f == FromPath(c, p)
        made == CreateFile(c, p, FALSE)
    IN  IF f # {} THEN UpdateMeta(c, CHOOSE x \in f : TRUE, Attr(p))
        ELSE UpdateMeta(made, Top(c.free), Attr(p))

NotFetched(p, c) == IF FromPath(c, p) = {} THEN c ELSE Delete(c, CHOOSE x \in FromPath(c, p) : TRUE)

FetchFails == /\ fids' = NotFetched(op.p, fids)
              /\ Return
              /\ UNCHANGED <<fdvars, srv, env, home, via, gone, claimed>>

\* The entry that is dropped may be of another file, renamed to this name.
Renamed(p) == {fids.meta[f].gfid : f \in FromPath(fids, p)} \ {p}

FidFetch ==
    /\ op.pc = "fetch"
    /\ \/ /\ srv[op.p].there /\ (FromPath(fids, op.p) # {} \/ fids.free # <<>>)
          /\ fids' = Fetched(op.p, fids)
          /\ IF op.kind = "api" THEN Return ELSE Goto("check")
          /\ upset' = upset \cup Renamed(op.p)
          /\ Answered /\ UNCHANGED <<fdvars, srv, env, home, via, gone, claimed>>
       \/ /\ srv[op.p].there /\ FromPath(fids, op.p) = {} /\ fids.free = <<>>
          /\ Return /\ UNCHANGED <<fids, fdvars, srv, env, faults, ghosts>>
       \/ ~srv[op.p].there /\ Answered /\ FetchFails /\ upset' = upset \cup Renamed(op.p)
       \/ Fails({op.p} \cup Renamed(op.p)) /\ FetchFails

\* The checks of unifyfs_fid_open.  The id is looked up again by name: it is
\* missing when the update just above carried out a pending unlink.  Each check
\* that fails deletes the id, also one that earlier calls to open returned.
Writable(fl) == fl.creat \/ fl.trunc \/ fl.append \/ fl.acc = "w"
AfterTrunc == IF op.fl.append /\ op.fl.acc # "r" THEN "size" ELSE "alloc"
AfterCheck == IF op.fl.trunc /\ op.fl.acc # "r" THEN "trunc" ELSE AfterTrunc

OpenCheck ==
    /\ op.pc = "check"
    /\ UNCHANGED <<fdvars, srv, env, faults, home, via, gone, claimed>>
    /\ \/ /\ FromPath(fids, op.p) = {}
          /\ IF op.fl.dir \/ AfterCheck = "trunc" THEN Abort ELSE Goto("alloc")
          /\ UNCHANGED <<fids, upset>>
       \/ \E f \in FromPath(fids, op.p) :
            LET c == GetMeta(fids, f)
                isdir == ~Pending(fids, f) /\ fids.meta[f].dir
                refused == \/ op.fl.dir # isdir
                           \/ c.meta[f].live /\ c.meta[f].lam /\ Writable(op.fl)
            IN  IF refused
                THEN /\ fids' = Delete(c, f) /\ Return
                     /\ upset' = IF op.fl.dir # isdir THEN upset \cup {fids.meta[f].gfid} ELSE upset
                ELSE /\ fids' = c /\ UNCHANGED upset
                     /\ op' = [op EXCEPT !.pc = AfterCheck, !.f = f, !.next = AfterTrunc]

\* An append starts at the end of the file, which the server is asked for after
\* a sync whose result is ignored.
LogicalSize(f, r) ==
    IF f \in Fids /\ ~(fids.meta[f].live /\ ~fids.meta[f].pend /\ fids.meta[f].lam)
    THEN Sync(f, r) ELSE r = None /\ UNCHANGED <<fids, srv, faults, upset>>
Outs(f) == {None} \cup IF f \in Fids THEN SyncOuts(f) ELSE {}

OpenSize ==
    /\ op.pc = "size"
    /\ \E r \in Outs(op.f) : LogicalSize(op.f, r)
    /\ Goto("alloc")
    /\ UNCHANGED <<fdvars, env, home, via, gone, claimed>>

\* A descriptor for the file; when there is none the file id stays.
OpenAlloc ==
    /\ op.pc = "alloc" /\ Return
    /\ UNCHANGED <<fids, dup, sockets, dirfree, dirs, srv, env, faults, ghosts>>
    /\ \/ fdfree = <<>> /\ UNCHANGED <<fdfree, fd, held>>
       \/ /\ fdfree # <<>>
          /\ LET k == Top(fdfree) IN
             /\ fdfree' = Pop(fdfree)
             /\ fd' = [fd EXCEPT ![k] = [fid |-> op.f, rd |-> op.kind # "creat",
                         wr |-> op.fl.acc # "r", use |-> 1,
                         app |-> IF op.kind = "creat" THEN @.app ELSE op.fl.append]]
             /\ held' = held \cup {<<"fd", k>>}

-----------------------------------------------------------------------------
(* Truncation: unifyfs_fid_truncate, for open, truncate, ftruncate and the API *)

\* The writes past the length are forgotten, and the others synced.  Without
\* metadata the assertion fails.
TruncateLocal ==
    /\ op.pc = "trunc"
    /\ LET f == op.f
           m == fids.meta[f]
           cut == [fids EXCEPT !.meta[f].ext = {}]
       IN  \/ /\ Pending(fids, f) /\ fids' = Delete(fids, f) /\ Abort
              /\ UNCHANGED <<srv, faults, upset, gone>>
           \/ /\ ~Pending(fids, f) /\ (m.dir \/ m.lam \/ ~m.store) /\ Return
              /\ UNCHANGED <<fids, srv, faults, upset, gone>>
           \/ /\ ~Pending(fids, f) /\ ~m.dir /\ ~m.lam /\ m.store
              /\ IF op.len = 0
                 THEN /\ fids' = IF m.needs THEN Flushed(cut, f) ELSE cut
                      /\ gone' = gone \cup m.ext
                      /\ Goto("trunc2")
                      /\ UNCHANGED <<srv, faults, upset>>
                 ELSE \E r \in SyncOuts(f) :
                        /\ Sync(f, r) /\ UNCHANGED gone
                        /\ IF r.ok THEN Goto("trunc2") ELSE Return
    /\ UNCHANGED <<fdvars, env, home, via, claimed>>

\* The server truncates the file.  A call by path goes straight here when the
\* file is not cached.
TruncateAtServer ==
    /\ op.pc = "trunc2"
    /\ LET known == op.f \in Fids
           g == IF known THEN fids.meta[op.f].gfid ELSE op.p
       IN  \/ /\ known /\ Pending(fids, op.f)
              /\ fids' = Delete(fids, op.f) /\ Return /\ UNCHANGED <<srv, gone, faults, upset>>
           \/ /\ ~(known /\ Pending(fids, op.f)) /\ srv[g].there /\ ~srv[g].lam
              /\ srv' = IF op.len = 0 THEN [srv EXCEPT ![g].data = {}] ELSE srv
              /\ gone' = IF op.len = 0 THEN gone \cup srv[g].data ELSE gone
              /\ IF op.next = "idle" THEN Return ELSE Goto(op.next)
              /\ UNCHANGED <<fids, faults, upset>>
           \/ /\ ~(known /\ Pending(fids, op.f)) /\ (~srv[g].there \/ srv[g].lam)
              /\ Return /\ UNCHANGED <<fids, srv, gone, faults, upset>>
           \/ /\ ~(known /\ Pending(fids, op.f)) /\ Fails({g})
              /\ Return /\ UNCHANGED <<fids, srv, gone>>
    /\ UNCHANGED <<fdvars, env, home, via, claimed>>

-----------------------------------------------------------------------------
(* Calls on descriptors *)

\* unifyfs_intercept_fd: the descriptor behind a number the application holds.
Internal(h) == IF h[1] = "fd" THEN h[2] ELSE dup[h[2]]
File(h) == fd[Internal(h)].fid

\* truncate by path, ftruncate on a descriptor open for writing, and the request
\* by gfid, which goes on without a file when the file is not cached.
Truncate(p, len) ==
    /\ op.pc = "idle" /\ "truncate" \in Calls
    /\ op' = IF FromPath(fids, p) = {} THEN [Call("trunc2") EXCEPT !.p = p, !.len = len]
             ELSE [Call("trunc") EXCEPT !.f = CHOOSE f \in FromPath(fids, p) : TRUE, !.len = len]
    /\ UNCHANGED <<fids, fdvars, srv, env, faults, ghosts>>

Ftruncate(h, len) ==
    /\ op.pc = "idle" /\ "ftruncate" \in Calls
    /\ File(h) # None /\ fd[Internal(h)].wr
    /\ op' = [Call("trunc") EXCEPT !.f = File(h), !.len = len]
    /\ UNCHANGED <<fids, fdvars, srv, env, faults, ghosts>>

ApiTruncate(p, len) ==
    /\ op.pc = "idle" /\ "api_truncate" \in Calls
    /\ IF FromGfid(fids, p) = {} THEN Abort
       ELSE op' = [Call("trunc") EXCEPT !.f = CHOOSE f \in FromGfid(fids, p) : TRUE, !.len = len]
    /\ UNCHANGED <<fids, fdvars, srv, env, faults, ghosts>>

\* The checks of unifyfs_fd_write: no directory, and open for writing.
FdWrite(f, v) ==
    /\ fids' = GetMeta(fids, f)
    /\ op' = IF (~Pending(fids, f) /\ fids.meta[f].dir) \/ ~fd[v[2]].wr THEN Idle
             ELSE [Call("write") EXCEPT !.f = f, !.v = v]

\* write asks for the size of the file first when the descriptor appends; pwrite
\* never does.
WriteAppend(h) ==
    LET f == File(h) IN
    /\ op.pc = "idle" /\ "write" \in Calls /\ nw < prog.writes
    /\ f # None /\ fd[Internal(h)].app
    /\ \E r \in Outs(f) : LogicalSize(f, r)
    /\ op' = [Call("wcheck") EXCEPT !.f = f, !.v = <<"fd", Internal(h)>>]
    /\ UNCHANGED <<fdvars, env, home, via, gone, claimed>>

Pwrite(h) ==
    /\ op.pc = "idle" /\ "write" \in Calls /\ nw < prog.writes
    /\ File(h) # None
    /\ FdWrite(File(h), <<"fd", Internal(h)>>)
    /\ UNCHANGED <<fdvars, srv, env, faults, ghosts>>

WriteCheck ==
    /\ op.pc = "wcheck"
    /\ FdWrite(op.f, op.v)
    /\ UNCHANGED <<fdvars, srv, env, faults, ghosts>>

\* unifyfs_fid_write.  A full index is synced first, and that result is ignored;
\* with write_sync the write is synced too, and fails if the sync does.
AutoSync(f) == Cardinality(fids.meta[f].ext) >= prog.index - 2

AddWrite(r) ==
    LET w == nw + 1
        c == Record(r.fids, op.f, w)
        g == c.meta[op.f].gfid
        ok == srv[g].there /\ ~srv[g].lam
    IN  /\ nw' = w
        /\ fids' = IF prog.wsync THEN Flushed(c, op.f) ELSE c
        /\ srv' = IF prog.wsync /\ ok THEN [r.srv EXCEPT ![g].data = @ \cup c.meta[op.f].ext]
                  ELSE r.srv
        /\ home' = IF prog.wsync /\ ~ok THEN home ELSE [home EXCEPT ![w] = g]
        /\ via' = [via EXCEPT ![w] = op.v]
        /\ gone' = IF ok THEN gone ELSE gone \cup {w}
        /\ claimed' = IF prog.wsync THEN claimed \cup {w} ELSE claimed

FidWrite ==
    /\ op.pc = "write"
    /\ LET m == fids.meta[op.f] IN
       \/ /\ Pending(fids, op.f) /\ fids' = Delete(fids, op.f) /\ Abort
          /\ UNCHANGED <<srv, faults, nw, ghosts>>
       \/ /\ ~Pending(fids, op.f) /\ Return
          /\ m.lam \/ ~m.store
          /\ UNCHANGED <<fids, srv, faults, nw, ghosts>>
       \/ /\ ~Pending(fids, op.f) /\ ~m.lam /\ m.store /\ Return
          /\ \E r \in IF AutoSync(op.f) THEN SyncOuts(op.f)
                      ELSE {[fids |-> fids, srv |-> srv, n |-> 0]} :
               /\ AddWrite(r)
               /\ faults' = faults + r.n
               /\ upset' = IF r.n = 1 THEN upset \cup {m.gfid} ELSE upset
    /\ UNCHANGED <<fdvars, cbs, hand, peer>>

\* read and pread: a sync whose result is ignored.  Only creat makes a descriptor
\* that is not open for reading.
Read(h) ==
    LET f == File(h) IN
    /\ op.pc = "idle" /\ "read" \in Calls /\ f # None
    /\ IF fd[Internal(h)].rd /\ (Pending(fids, f) \/ ~fids.meta[f].dir)
       THEN \E r \in SyncOuts(f) : Sync(f, r)
       ELSE fids' = GetMeta(fids, f) /\ UNCHANGED <<srv, faults, upset>>
    /\ UNCHANGED <<op, fdvars, env, home, via, gone, claimed>>

\* lseek, to the end of the file or elsewhere.
Lseek(h) ==
    LET f == File(h) IN
    /\ op.pc = "idle" /\ "lseek" \in Calls /\ f # None
    /\ \/ fids' = GetMeta(fids, f) /\ UNCHANGED <<srv, faults, upset>>
       \/ ~Pending(fids, f) /\ \E r \in Outs(f) : LogicalSize(f, r)
    /\ UNCHANGED <<op, fdvars, env, home, via, gone, claimed>>

\* unifyfs_fid_sync_data, with fsync_persist (the default): it fails when the id
\* has just been deleted.
SyncData(c, f) == c.meta[f].live

Fsync(h) ==
    LET f == File(h) IN
    /\ op.pc = "idle" /\ "fsync" \in Calls /\ f # None
    /\ \E r \in SyncOuts(f) :
         /\ Sync(f, r)
         /\ IF r.ok /\ SyncData(r.fids, f) THEN Claim(<<"fd", Internal(h)>>) ELSE UNCHANGED claimed
    /\ UNCHANGED <<op, fdvars, env, home, via, gone>>

\* close: the count of users goes down, the number is given up, a file open for
\* writing is synced, and with the last user the descriptor is freed.  A close
\* that fails leaves the descriptor out of the free stack.
Unused(k) == [fd[k] EXCEPT !.fid = None, !.rd = FALSE, !.wr = FALSE, !.use = 0]

Close(h) ==
    LET k == Internal(h)
        less == [fd EXCEPT ![k].use = @ - 1]
        fails == fd' = less /\ UNCHANGED <<fdfree, via>>
        succeeds == IF less[k].use = 0
                    THEN /\ fd' = [fd EXCEPT ![k] = Unused(k)]
                         /\ fdfree' = Append(fdfree, k)
                         /\ via' = [w \in Writes |-> IF via[w] = <<"fd", k>> THEN None ELSE via[w]]
                    ELSE fd' = less /\ UNCHANGED <<fdfree, via>>
    IN  /\ op.pc = "idle" /\ "close" \in Calls
        /\ held' = held \ {h}
        /\ dup' = IF h[1] = "dup" THEN [dup EXCEPT ![h[2]] = None] ELSE dup
        /\ sockets' = IF h[1] = "dup" THEN sockets \ {h[2]} ELSE sockets
        /\ \/ /\ fd[k].fid = None /\ fails
              /\ UNCHANGED <<fids, srv, faults, upset, claimed>>
           \/ /\ fd[k].fid # None /\ ~fd[k].wr /\ succeeds
              /\ UNCHANGED <<fids, srv, faults, upset, claimed>>
           \/ /\ fd[k].fid # None /\ fd[k].wr
              /\ \E r \in SyncOuts(fd[k].fid) :
                   /\ Sync(fd[k].fid, r)
                   /\ IF r.ok THEN succeeds /\ Claim(<<"fd", k>>) ELSE fails /\ UNCHANGED claimed
        /\ UNCHANGED <<op, dirfree, dirs, env, home, gone>>

\* Mutant: dup does not count the new user.
MutDup(h, n) ==
    /\ op.pc = "idle" /\ "dup" \in Calls /\ n \notin sockets
    /\ dup[n] = None
    /\ dup' = [dup EXCEPT ![n] = Internal(h)]
    /\ sockets' = sockets \cup {n}
    /\ held' = held \cup {<<"dup", n>>}
    /\ UNCHANGED <<op, fids, fd, fdfree, dirfree, dirs, srv, env, faults, ghosts>>

\* dup takes a number from the system by opening a socket; dup2 closes what the
\* system has under the number and takes it without one.
Dup(h, n) ==
    /\ op.pc = "idle" /\ "dup" \in Calls /\ n \notin sockets
    /\ dup[n] = None
    /\ dup' = [dup EXCEPT ![n] = Internal(h)]
    /\ sockets' = sockets \cup {n}
    /\ fd' = [fd EXCEPT ![Internal(h)].use = @ + 1]
    /\ held' = held \cup {<<"dup", n>>}
    /\ UNCHANGED <<op, fids, fdfree, dirfree, dirs, srv, env, faults, ghosts>>

Dup2(h, n) ==
    /\ op.pc = "idle" /\ "dup2" \in Calls /\ h # <<"dup", n>>
    /\ sockets' = sockets \ {n}
    /\ IF dup[n] = None
       THEN /\ dup' = [dup EXCEPT ![n] = Internal(h)]
            /\ fd' = [fd EXCEPT ![Internal(h)].use = @ + 1]
            /\ held' = held \cup {<<"dup", n>>}
       ELSE UNCHANGED <<dup, fd, held>>
    /\ UNCHANGED <<op, fids, fdfree, dirfree, dirs, srv, env, faults, ghosts>>

-----------------------------------------------------------------------------
(* Calls on names *)

\* unlink, rmdir and remove (mask "file", "dir", "any").  A cached file loses its
\* id before the server is asked; the test that a directory is empty compares
\* pointers and always holds.
Refuses(mask, isdir) == (mask = "file" /\ isdir) \/ (mask = "dir" /\ ~isdir)

RemoveLocal(p, mask) ==
    \E f \in FromPath(fids, p) :
        LET c == GetMeta(fids, f)
            isdir == ~Pending(fids, f) /\ fids.meta[f].dir
        IN  IF Refuses(mask, isdir) THEN fids' = c /\ op' = Idle /\ UNCHANGED gone
            ELSE /\ fids' = Delete(c, f) /\ gone' = gone \cup fids.meta[f].ext
                 /\ op' = IF Deletes(c, f)
                          THEN [op EXCEPT !.pc = "unlink", !.q = c.meta[f].gfid] ELSE Idle

Remove(p, mask) ==
    /\ op.pc = "idle" /\ mask \in Calls
    /\ \/ RemoveLocal(p, mask) /\ UNCHANGED <<faults, upset>>
       \/ /\ FromPath(fids, p) = {} /\ srv[p].there /\ ~Refuses(mask, srv[p].dir)
          /\ op' = [op EXCEPT !.pc = "unlink", !.q = p]
          /\ UNCHANGED <<fids, faults, upset, gone>>
    /\ UNCHANGED <<fdvars, srv, env, home, via, claimed>>

Unlink(p) == Remove(p, "file")
Rmdir(p) == Remove(p, "dir")
RemoveAny(p) == Remove(p, "any")

\* The API's remove deletes the id of the gfid, whatever comes of that.
ApiRemove(p) ==
    /\ op.pc = "idle" /\ "api_remove" \in Calls
    /\ \/ /\ FromGfid(fids, p) = {} /\ UNCHANGED <<fids, gone>>
       \/ \E f \in FromGfid(fids, p) : fids' = Delete(fids, f) /\ gone' = gone \cup fids.meta[f].ext
    /\ op' = [op EXCEPT !.pc = "unlink", !.q = p]
    /\ UNCHANGED <<fdvars, srv, env, faults, home, via, claimed, upset>>

UnlinkAtServer ==
    /\ op.pc = "unlink"
    /\ \/ /\ srv[op.q].there /\ SrvUnlink(op.q) /\ Answered
          /\ IF op.kind = "rename" THEN Goto("rename") ELSE Return
       \/ ~srv[op.q].there /\ Return /\ UNCHANGED <<srv, gone, cbs, upset, faults>>
       \/ Fails({op.q}) /\ Return /\ UNCHANGED <<srv, gone, cbs>>
    /\ UNCHANGED <<fids, fdvars, hand, peer, nw, home, via, claimed>>

\* rename: what has the new name is unlinked, and the name of the id changes.
\* The server is not told.
StartRename(p, q) ==
    /\ op.pc = "idle" /\ "rename" \in Calls
    /\ \E f \in FromPath(fids, p) :
        LET call == [Call("rename") EXCEPT !.kind = "rename", !.f = f, !.p = q]
            g == CHOOSE x \in FromPath(fids, q) : TRUE
            c == GetMeta(fids, g)
        IN  IF FromPath(fids, q) = {} THEN op' = call /\ UNCHANGED <<fids, gone>>
            ELSE IF ~Pending(fids, g) /\ fids.meta[g].dir
            THEN Return /\ fids' = c /\ UNCHANGED gone
            ELSE /\ fids' = Delete(c, g) /\ gone' = gone \cup fids.meta[g].ext
                 /\ op' = IF Deletes(c, g)
                          THEN [call EXCEPT !.pc = "unlink", !.q = c.meta[g].gfid] ELSE Idle
    /\ UNCHANGED <<fdvars, srv, env, faults, home, via, claimed, upset>>

EndRename ==
    /\ op.pc = "rename" /\ Return
    /\ fids' = Rename(fids, op.f, op.p)
    /\ upset' = upset \cup {fids.meta[op.f].gfid, op.p}
    /\ UNCHANGED <<fdvars, srv, env, faults, home, via, gone, claimed>>

\* mkdir: a new id marked as a directory, then the entry at the server.
Mkdir(p) ==
    /\ op.pc = "idle" /\ "mkdir" \in Calls
    /\ FromPath(fids, p) = {} /\ fids.free # <<>>
    /\ fids' = CreateFile(fids, p, TRUE)
    /\ \/ srv[p].there /\ UNCHANGED <<op, faults, upset>>
       \/ /\ ~srv[p].there /\ op' = [Call("mkdir") EXCEPT !.p = p, !.f = Top(fids.free)]
          /\ UNCHANGED <<faults, upset>>
       \/ Fails({p}) /\ op' = [Call("mkdir") EXCEPT !.p = p, !.f = Top(fids.free)]
    /\ UNCHANGED <<fdvars, srv, env, home, via, gone, claimed>>

MkdirAtServer ==
    /\ op.pc = "mkdir"
    /\ \/ /\ Pending(fids, op.f) /\ fids' = Delete(fids, op.f) /\ Abort
          /\ UNCHANGED <<srv, faults, upset>>
       \/ /\ ~Pending(fids, op.f) /\ Return /\ Answered /\ UNCHANGED <<fids, upset>>
          /\ IF srv[op.p].there THEN UNCHANGED srv ELSE SrvCreate(op.p, TRUE)
       \/ ~Pending(fids, op.f) /\ Fails({op.p}) /\ Return /\ UNCHANGED <<fids, srv>>
    /\ UNCHANGED <<fdvars, env, home, via, gone, claimed>>

\* opendir: a stream takes a descriptor, whose count of users stays 0.
Stream(f) ==
    IF fdfree = <<>> \/ dirfree = <<>> THEN UNCHANGED fdvars
    ELSE /\ fdfree' = Pop(fdfree) /\ dirfree' = Pop(dirfree)
         /\ fd' = [fd EXCEPT ![Top(fdfree)].fid = f, ![Top(fdfree)].rd = FALSE,
                                ![Top(fdfree)].wr = FALSE]
         /\ dirs' = [dirs EXCEPT ![Top(dirfree)] = Top(fdfree)]
         /\ UNCHANGED <<dup, sockets, held>>

Opendir(p) ==
    /\ op.pc = "idle" /\ "opendir" \in Calls /\ srv[p].there /\ srv[p].dir
    /\ \/ \E f \in FromPath(fids, p) :
            /\ fids' = GetMeta(fids, f)
            /\ IF Pending(fids, f) THEN Abort /\ UNCHANGED fdvars
               ELSE /\ UNCHANGED op
                    /\ IF fids.meta[f].dir THEN Stream(f) ELSE UNCHANGED fdvars
       \/ /\ FromPath(fids, p) = {} /\ fids.free # <<>>
          /\ fids' = CreateFile(fids, p, TRUE) /\ Stream(Top(fids.free)) /\ UNCHANGED op
    /\ UNCHANGED <<srv, env, faults, ghosts>>

Closedir(d) ==
    /\ op.pc = "idle" /\ dirs[d] # None
    /\ fd' = [fd EXCEPT ![dirs[d]] = Unused(dirs[d])]
    /\ fdfree' = Append(fdfree, dirs[d])
    /\ dirs' = [dirs EXCEPT ![d] = None]
    /\ dirfree' = Append(dirfree, d)
    /\ UNCHANGED <<op, fids, dup, sockets, held, srv, env, faults, ghosts>>

\* chmod and fchmod: clearing the write bits laminates the file, without a sync.
\* Then the mode goes to the server and the attributes are read back.
Chmod(f, bits) ==
    LET m == fids.meta[f]
        laminates == m.mode /\ bits = 0
    IN  /\ op.pc = "idle"
        /\ fids' = GetMeta(fids, f)
        /\ \/ /\ Pending(fids, f) \/ m.lam \/ (laminates /\ ~srv[m.gfid].there)
              /\ UNCHANGED <<op, srv, gone, faults, upset>>
           \/ /\ ~Pending(fids, f) /\ ~m.lam
              /\ op' = [Call("chmod") EXCEPT !.f = f, !.len = bits]
              /\ UNCHANGED <<faults, upset>>
              /\ IF laminates THEN srv[m.gfid].there /\ SrvLaminate(m.gfid)
                 ELSE UNCHANGED <<srv, gone>>
           \/ /\ ~Pending(fids, f) /\ ~m.lam /\ laminates /\ Fails({m.gfid})
              /\ UNCHANGED <<op, srv, gone>>
        /\ UNCHANGED <<fdvars, env, home, via, claimed>>

ChmodPath(p, bits) == "chmod" \in Calls /\ \E f \in FromPath(fids, p) : Chmod(f, bits)
ChmodFd(h, bits) == "fchmod" \in Calls /\ File(h) # None /\ Chmod(File(h), bits)

ChmodAtServer ==
    LET g == fids.meta[op.f].gfid
        set == [fids EXCEPT !.meta[op.f].mode = (op.len = 1)]
    IN  /\ op.pc = "chmod"
        /\ \/ /\ Pending(fids, op.f) /\ fids' = Delete(fids, op.f) /\ Abort
              /\ UNCHANGED <<srv, faults, upset>>
           \/ /\ ~Pending(fids, op.f) /\ fids' = set /\ Answered /\ UNCHANGED upset
              /\ IF srv[g].there
                 THEN /\ srv' = [srv EXCEPT ![g].mode = (op.len = 1), ![g].dir = fids.meta[op.f].dir]
                      /\ op' = [op EXCEPT !.pc = "stat", !.p = g]
                 ELSE UNCHANGED srv /\ Return
           \/ ~Pending(fids, op.f) /\ fids' = set /\ Fails({g}) /\ Return /\ UNCHANGED srv
        /\ UNCHANGED <<fdvars, env, home, via, gone, claimed>>

\* stat: a sync, then the attributes of the name are read and kept for the id.
StatPath(p) ==
    /\ op.pc = "idle"
    /\ \E f \in FromPath(fids, p) : \E r \in SyncOuts(f) :
         /\ Sync(f, r)
         /\ IF r.ok THEN op' = [Call("stat") EXCEPT !.p = p, !.f = f] ELSE UNCHANGED op
    /\ UNCHANGED <<fdvars, env, home, via, gone, claimed>>

Stat(p) == "stat" \in Calls /\ StatPath(p)

\* fstat looks the name of the id up, and stats that.
Fstat(h) == /\ "fstat" \in Calls /\ File(h) # None /\ fids.list[File(h)] # None
            /\ StatPath(fids.list[File(h)])

ReadBack ==
    /\ op.pc = "stat" /\ Return
    /\ \/ /\ srv[op.p].there /\ Answered
          /\ fids' = UpdateMeta(fids, op.f, Attr(op.p))
          /\ upset' = IF fids.meta[op.f].gfid = op.p THEN upset
                      ELSE upset \cup {fids.meta[op.f].gfid}
       \/ ~srv[op.p].there /\ UNCHANGED <<fids, faults, upset>>
       \/ Fails({op.p}) /\ UNCHANGED fids
    /\ UNCHANGED <<fdvars, srv, env, home, via, gone, claimed>>

-----------------------------------------------------------------------------
(* The rest of the API, which names files by gfid *)

ApiWrite(p) ==
    /\ op.pc = "idle" /\ "api_write" \in Calls /\ nw < prog.writes
    /\ \E f \in FromGfid(fids, p) : op' = [Call("write") EXCEPT !.f = f, !.v = <<"api", p>>]
    /\ UNCHANGED <<fids, fdvars, srv, env, faults, ghosts>>

ApiSync(p) ==
    /\ op.pc = "idle" /\ "api_sync" \in Calls
    /\ \E f \in FromGfid(fids, p) : \E r \in SyncOuts(f) :
         Sync(f, r) /\ IF r.ok THEN Claim(<<"api", p>>) ELSE UNCHANGED claimed
    /\ UNCHANGED <<op, fdvars, env, home, via, gone>>

ApiStat(p) ==
    /\ op.pc = "idle" /\ "api_stat" \in Calls
    /\ \E f \in FromGfid(fids, p) :
         /\ fids' = GetMeta(fids, f)
         /\ IF Pending(fids, f) THEN UNCHANGED op
            ELSE op' = [Call("stat") EXCEPT !.p = p, !.f = f]
    /\ UNCHANGED <<fdvars, srv, env, faults, ghosts>>

ApiLaminate(p) ==
    /\ op.pc = "idle" /\ "api_laminate" \in Calls /\ srv[p].there
    /\ SrvLaminate(p)
    /\ op' = IF FromGfid(fids, p) = {} THEN Idle
             ELSE [Call("stat") EXCEPT !.p = p, !.f = CHOOSE f \in FromGfid(fids, p) : TRUE]
    /\ UNCHANGED <<fids, fdvars, env, faults, home, via, claimed, upset>>

-----------------------------------------------------------------------------
(* Other processes, and the unlink callback *)

Peer(p, what) ==
    /\ what \in prog.peers /\ peer < prog.npeer /\ peer' = peer + 1
    /\ \/ /\ what \in {"create", "mkdir"} /\ ~srv[p].there
          /\ SrvCreate(p, what = "mkdir") /\ UNCHANGED <<cbs, gone, upset>>
       \/ what = "unlink" /\ srv[p].there /\ SrvUnlink(p)
       \/ /\ what = "laminate" /\ srv[p].there /\ ~srv[p].lam
          /\ SrvLaminate(p) /\ UNCHANGED <<cbs, upset>>
    /\ UNCHANGED <<fids, fdvars, op, hand, nw, faults, home, via, claimed>>

\* unifyfs_unlink_callback_rpc: the id of the gfid is looked up, and then marked.
\* The two are not one step, and the id may have become another file's.
CallbackLookup(p) ==
    /\ p \in cbs /\ hand = None
    /\ cbs' = cbs \ {p}
    /\ hand' = IF FromGfid(fids, p) = {} THEN None
               ELSE [f |-> CHOOSE f \in FromGfid(fids, p) : TRUE, g |-> p]
    /\ UNCHANGED <<fids, fdvars, srv, op, peer, nw, faults, ghosts>>

CallbackMark ==
    /\ hand # None
    /\ hand' = None
    /\ LET m == fids.meta[hand.f] IN
       /\ fids' = IF m.live /\ ~m.pend THEN [fids EXCEPT !.meta[hand.f].pend = TRUE]
                  ELSE GetMeta(fids, hand.f)
       /\ upset' = IF m.live THEN upset \cup {m.gfid} ELSE upset
    /\ UNCHANGED <<fdvars, srv, op, cbs, peer, nw, faults, home, via, gone, claimed>>

-----------------------------------------------------------------------------
OpenStep == GfidCreate \/ FidFetch \/ OpenCheck \/ OpenSize \/ OpenAlloc
ServerStep == \/ TruncateLocal \/ TruncateAtServer \/ WriteCheck \/ FidWrite
              \/ UnlinkAtServer \/ EndRename \/ MkdirAtServer \/ ChmodAtServer \/ ReadBack
OnDescriptor(h) ==
    \/ WriteAppend(h) \/ Pwrite(h) \/ Fstat(h) \/ Read(h) \/ Lseek(h) \/ Fsync(h) \/ Close(h)
    \/ \E n \in Numbers : Dup(h, n) \/ Dup2(h, n)
    \/ \E b \in {0, 1} : Ftruncate(h, b) \/ ChmodFd(h, b)
OnName(p) ==
    \/ \E fl \in prog.flags : Open(p, fl)
    \/ Creat(p) \/ ApiCreate(p) \/ ApiOpen(p)
    \/ Unlink(p) \/ Rmdir(p) \/ RemoveAny(p)
    \/ Mkdir(p) \/ Opendir(p) \/ Stat(p)
    \/ \E q \in prog.names : StartRename(p, q)
    \/ \E b \in {0, 1} : Truncate(p, b) \/ ChmodPath(p, b) \/ ApiTruncate(p, b)
    \/ ApiWrite(p) \/ ApiSync(p) \/ ApiStat(p) \/ ApiLaminate(p) \/ ApiRemove(p)

Step == \/ OpenStep \/ ServerStep \/ CallbackMark
        \/ \E h \in held : OnDescriptor(h)
        \/ \E d \in DOMAIN dirs : Closedir(d)
        \/ \E p \in prog.names : OnName(p) \/ CallbackLookup(p)
        \/ \E p \in prog.names, what \in prog.peers : Peer(p, what)
Next == Step /\ UNCHANGED prog

Spec == Init /\ [][Next]_vars

-----------------------------------------------------------------------------
Elems(s) == {s[i] : i \in DOMAIN s}
Distinct(s) == \A i, j \in DOMAIN s : s[i] = s[j] => i = j

\* The state of the client is of its types.
TypeOK ==
    /\ fids.list \in [Fids -> Paths \cup {None}]
    /\ fids.meta \in [Fids -> [live : BOOLEAN, gfid : Paths, dir : BOOLEAN, lam : BOOLEAN,
         mode : BOOLEAN, store : BOOLEAN, needs : BOOLEAN, pend : BOOLEAN, ext : SUBSET Writes]]
    /\ fd \in [Fds -> [fid : Fids \cup {None}, rd : BOOLEAN, wr : BOOLEAN, app : BOOLEAN, use : Nat]]
    /\ dup \in [Numbers -> Fds \cup {None}] /\ sockets \subseteq Numbers
    /\ srv \in [Paths -> [there : BOOLEAN, dir : BOOLEAN, lam : BOOLEAN, mode : BOOLEAN,
                          data : SUBSET Writes]]
    /\ cbs \subseteq Paths

\* No local file id is handed out twice or lost: an id is on the free stack, once,
\* exactly when no name has it, and its metadata is valid exactly when one has.
\* Ids are freed by unlink, by failed opens, by stale entries and by the callback.
\* No name is cached under two ids, so the lookup that takes the first finds it.
FidsAccounted ==
    /\ Distinct(fids.free)
    /\ \A f \in Fids : /\ f \in Elems(fids.free) <=> fids.list[f] = None
                       /\ fids.meta[f].live <=> fids.list[f] # None
    /\ \A f, g \in Fids : fids.list[f] = fids.list[g] /\ fids.list[f] # None => f = g

\* A descriptor on the free stack is in use by nobody, and the count of users of
\* each is the number of descriptors the application holds on it: so close frees
\* it with the last of them and not before.
Users(k) == {h \in held : Internal(h) = k}
FdsAccounted ==
    /\ Distinct(fdfree) /\ Distinct(dirfree)
    /\ \A k \in Fds : /\ fd[k].use = Cardinality(Users(k))
                      /\ k \in Elems(fdfree) => fd[k].use = 0 /\ fd[k].fid = None
    /\ \A d \in DOMAIN dirs : dirs[d] # None =>
          /\ dirs[d] \notin Elems(fdfree) /\ Users(dirs[d]) = {}
          /\ \A e \in DOMAIN dirs : dirs[e] = dirs[d] => e = d

\* Where an acknowledged write is.
Stored(w) == w \in srv[home[w]].data
Queued(w) == \E f \in Fids : /\ fids.list[f] # None /\ fids.meta[f].gfid = home[w]
                             /\ w \in fids.meta[f].ext /\ fids.meta[f].needs

\* No acknowledged write is lost: unless its file was removed, truncated or
\* laminated, or met a failed call, a rename, an unlink callback or an open with
\* O_DIRECTORY, it is at the server, or it is queued and the next sync will send
\* it, and a successful close or fsync means that it is at the server.
WritesKept ==
    \A w \in Writes : home[w] # None /\ home[w] \notin upset /\ w \notin gone =>
        Stored(w) \/ (Queued(w) /\ w \notin claimed)
==============================================================================
