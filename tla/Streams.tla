------------------------------ MODULE Streams ------------------------------
(* One stdio stream of a client (client/src/unifyfs-stdio.c): its buffer, the  *)
(* push-back buffer, the file position kept in the descriptor, and the        *)
(* end-of-file and error indicators.                                          *)
(*                                                                            *)
(* The application keeps the rules of C: output is not followed by input       *)
(* without a flush or a seek, nor input by output without a seek or the end of *)
(* the file, and after an error the stream is only closed.                     *)
EXTENDS Integers, Sequences, FiniteSetsExt

CONSTANTS BufSize,      \* UNIFYFS_CLIENT_STREAM_BUFSIZE
          MaxLen,       \* bound: size of the file, offsets and reads
          MaxOps,       \* bound: calls on the stream
          MaxFaults,    \* bound: calls during which the server does not answer
          Chars, Chunks,\* characters, and what one call writes
          StreamPrograms,     \* fopen mode, kind of buffer, file before the open, free
                        \* streams and descriptors, and the conversions of fscanf
          Careful,      \* an append stream is flushed before the next write
          Newline, Hole, NoPos

VARIABLES sprog,         \* the program: chosen at the start
          file,         \* the file as this client reads it
          seen,         \* the file as the server knows it
          s,            \* the stream and its descriptor
          pool,         \* free streams and descriptors
          order,        \* what the application may do next
          got,          \* characters the last input call returned
          flushed,      \* the last call promised that everything written has arrived
          given,        \* characters accepted by writes
          ops, streamFaults

streamEnv == <<sprog, pool>>
streamVars == <<sprog, file, seen, s, pool, order, got, flushed, given, ops, streamFaults>>

Put(f, at, b) ==
    IF b = <<>> THEN f
    ELSE [i \in 1 .. Max({Len(f), at + Len(b)}) |->
            IF i > at /\ i <= at + Len(b) THEN b[i - at]
            ELSE IF i <= Len(f) THEN f[i] ELSE Hole]
Slice(f, at, n) == SubSeq(f, at + 1, Min({at + n, Len(f)}))
Skip(q, n) == SubSeq(q, n + 1, Len(q))

\* The stream as unifyfs_fopen leaves it: data is the buffer, of buflen
\* characters, ub the push-back buffer, rest what the scanf pointers _p and _r
\* still cover, saved the position kept by fgetpos.
NewStream(md, at) ==
    [open |-> TRUE, pos |-> at, rd |-> md.rd, wr |-> md.wr, app |-> md.app,
     err |-> FALSE, eof |-> FALSE, buf |-> FALSE, type |-> "full", bufpos |-> 0,
     data |-> <<>>, dirty |-> FALSE, ub |-> <<>>, rest |-> <<>>, saved |-> NoPos]
Closed == [NewStream([rd |-> FALSE, wr |-> FALSE, app |-> FALSE], 0) EXCEPT !.open = FALSE]

\* The modes of fopen: a+ opens at offset 0 without O_APPEND.
ParseMode(mode) ==
    [rd |-> mode \in {"r", "r+", "w+", "a+"}, wr |-> mode # "r", app |-> mode \in {"a", "a+"},
     creat |-> mode \notin {"r", "r+"}, trunc |-> mode \in {"w", "w+"}, end |-> mode = "a"]

StreamInit == /\ sprog \in StreamPrograms /\ file = sprog.file /\ seen = file /\ s = Closed
        /\ pool = [streams |-> sprog.streams, fds |-> sprog.fds] /\ order = "closed"
        /\ got = <<>> /\ flushed = FALSE /\ given = 0 /\ ops = 0 /\ streamFaults = 0

-----------------------------------------------------------------------------
\* The functions below take and return the state of a call: the file, the
\* stream, whether the server answers, the return code and the characters read.
Start(up) == [file |-> file, seen |-> seen, s |-> [s EXCEPT !.rest = <<>>], up |-> up,
              rc |-> TRUE, got |-> <<>>]
Fail(m) == [m EXCEPT !.s.err = TRUE, !.rc = FALSE]
SyncFile(m) == IF m.up THEN [m EXCEPT !.seen = m.file] ELSE m

\* setvbuf is refused once the stream has a buffer; a first read or write
\* allocates one of the current type.
SetVBuf(m, type) ==
    IF m.s.buf THEN [m EXCEPT !.rc = FALSE]
    ELSE [m EXCEPT !.s.buf = TRUE, !.s.type = type, !.s.bufpos = 0, !.s.data = <<>>,
                   !.s.dirty = FALSE]
NeedBuf(m) == IF m.s.buf THEN m ELSE SetVBuf(m, m.s.type)

\* Mutant: the flush writes the buffer and does not sync.
MutFlush(m) ==
    IF m.s.buf /\ m.s.dirty
    THEN [m EXCEPT !.file = Put(@, m.s.bufpos, m.s.data), !.s.dirty = FALSE]
    ELSE m

\* A dirty buffer is written where it belongs and the file is synced; on an error
\* the buffer stays dirty.
Flush(m) ==
    IF m.s.buf /\ m.s.dirty
    THEN LET w == [m EXCEPT !.file = Put(@, m.s.bufpos, m.s.data)]
         IN IF m.up THEN [SyncFile(w) EXCEPT !.s.dirty = FALSE] ELSE Fail(w)
    ELSE m

\* unifyfs_fd_read into the buffer: it syncs first.
FdRead(m, at) ==
    IF m.up THEN [SyncFile(m) EXCEPT !.s.bufpos = at, !.s.data = Slice(m.file, at, BufSize)]
    ELSE Fail(m)

InBuffer(m, at) == at >= m.s.bufpos /\ at < m.s.bufpos + Len(m.s.data)

\* The loop of unifyfs_stream_read: n characters from at are still wanted, and
\* a short read ends it.
RECURSIVE ReadLoop(_, _, _)
ReadLoop(m, at, n) ==
    LET in == InBuffer(m, at)
        f == IF in THEN m ELSE LET w == Flush(m) IN IF w.rc THEN FdRead(w, at) ELSE w
        b == Slice(f.s.data, at - f.s.bufpos, n)
        t == [f EXCEPT !.got = @ \o b]
    IN IF n = 0 THEN m
       ELSE IF ~f.rc THEN f
       ELSE IF ~in /\ Len(f.s.data) < BufSize THEN t
       ELSE ReadLoop(t, at + Len(b), n - Len(b))

\* Mutant: the position moves only by what came from the buffer.
MutStreamRead(m, n) ==
    LET b == NeedBuf(m)
        k == Min({n, Len(b.s.ub)})
        r == ReadLoop([b EXCEPT !.got = SubSeq(b.s.ub, 1, k), !.s.ub = Skip(@, k)], b.s.pos + k, n - k)
    IN IF ~m.s.rd THEN Fail(m)
       ELSE IF b.s.eof THEN [b EXCEPT !.rc = FALSE]
       ELSE IF ~r.rc THEN [r EXCEPT !.got = <<>>]
       ELSE [r EXCEPT !.s.pos = @ + Len(r.got) - k, !.s.eof = Len(r.got) < n]

\* Characters pushed back come first; the position moves by what was read.
StreamRead(m, n) ==
    LET b == NeedBuf(m)
        k == Min({n, Len(b.s.ub)})
        r == ReadLoop([b EXCEPT !.got = SubSeq(b.s.ub, 1, k), !.s.ub = Skip(@, k)], b.s.pos + k, n - k)
    IN IF ~m.s.rd THEN Fail(m)
       ELSE IF b.s.eof THEN [b EXCEPT !.rc = FALSE]
       ELSE IF ~r.rc THEN [r EXCEPT !.got = <<>>]
       ELSE [r EXCEPT !.s.pos = @ + Len(r.got), !.s.eof = Len(r.got) < n]

\* How many characters of b go to the buffer, and whether it is flushed then: up
\* to a newline, or as many as fit.
Newlines(b) == {i \in 1 .. Len(b) : b[i] = Newline}
LinePart(b) == IF Newlines(b) = {} THEN Len(b) ELSE Min(Newlines(b))

\* The loop of unifyfs_stream_write.  A line that does not fit is an error.
RECURSIVE WriteLoop(_, _, _)
WriteLoop(m, at, b) ==
    LET c == IF m.s.dirty THEN m ELSE [m EXCEPT !.s.bufpos = at, !.s.data = <<>>]
        room == BufSize - Len(c.s.data)
        line == c.s.type = "line"
        n == IF line THEN LinePart(b) ELSE Min({Len(b), room})
        flush == IF line THEN Newlines(b) # {} ELSE Len(b) >= room
        d == [c EXCEPT !.s.data = @ \o SubSeq(b, 1, n), !.s.dirty = TRUE]
        e == IF flush THEN Flush(d) ELSE d
    IN IF b = <<>> THEN [m EXCEPT !.s.pos = at]
       ELSE IF line /\ (n > room \/ (n = room /\ ~flush)) THEN Fail(c)
       ELSE IF ~e.rc THEN e
       ELSE WriteLoop(e, at + n, Skip(b, n))

\* Append streams write at the size of the file the server reports, after a sync
\* that does not include the buffer.  An unbuffered stream writes to the file at
\* once.
StreamWrite(m, b) ==
    LET z == IF m.s.app THEN [SyncFile(m) EXCEPT !.s.ub = <<>>] ELSE [m EXCEPT !.s.ub = Skip(@, Len(b))]
        at == IF m.s.app THEN Len(m.file) ELSE m.s.pos
        w == NeedBuf(z)
    IN IF ~m.s.wr THEN Fail(m)
       ELSE IF w.s.type = "none" THEN [w EXCEPT !.file = Put(@, at, b), !.s.pos = at + Len(b)]
       ELSE WriteLoop(w, at, b)

\* A seek flushes first; a negative offset is refused without an error mark.
Seek(m, whence, off) ==
    LET w == Flush(m)
        to == off + (CASE whence = "set" -> 0 [] whence = "cur" -> w.s.pos [] whence = "end" -> Len(w.file))
    IN IF ~w.rc THEN w
       ELSE IF to < 0 THEN [w EXCEPT !.rc = FALSE]
       ELSE [w EXCEPT !.s.ub = <<>>, !.s.pos = to, !.s.eof = FALSE]

-----------------------------------------------------------------------------
\* A call: the server answers during the whole of it or not at all.
Up(up) == /\ up \/ streamFaults < MaxFaults
          /\ streamFaults' = streamFaults + IF up THEN 0 ELSE 1
          /\ ops < MaxOps /\ ops' = ops + 1
Take(m) == file' = m.file /\ seen' = m.seen /\ s' = m.s /\ got' = m.got
Quiet == got' = <<>> /\ UNCHANGED given /\ UNCHANGED streamEnv

\* fopen, after unifyfs_fid_open: a stream and then a descriptor is taken, and
\* the stream is put back when there is no descriptor.
Fopen ==
    LET md == ParseMode(sprog.mode) IN
    /\ order = "closed" /\ Up(TRUE)
    /\ file' = IF md.trunc THEN <<>> ELSE file
    /\ seen' = IF md.trunc THEN <<>> ELSE seen
    /\ IF pool.streams > 0 /\ pool.fds > 0
       THEN /\ s' = NewStream(md, IF md.end THEN Len(file) ELSE 0)
            /\ pool' = [streams |-> pool.streams - 1, fds |-> pool.fds - 1] /\ order' = "fresh"
       ELSE UNCHANGED <<s, pool>> /\ order' = "refused"
    /\ got' = <<>> /\ flushed' = FALSE /\ UNCHANGED <<sprog, given>>

\* setvbuf and setbuf, at any time; the program asks for its kind of buffer
\* before anything else.
Setvbuf ==
    LET m == SetVBuf(Start(TRUE), sprog.type) IN
    /\ order \notin {"closed", "refused"} /\ Up(TRUE)
    /\ order = "fresh" \/ s.buf
    /\ s' = [m.s EXCEPT !.rest = s.rest] /\ flushed' = FALSE
    /\ UNCHANGED <<file, seen, order>> /\ Quiet

Ready == sprog.type = "full" \/ s.buf
CanRead == order \in {"fresh", "any", "in"} /\ Ready /\ ~s.err
CanWrite == /\ order \in {"fresh", "any", "out", "lost"} /\ Ready /\ ~s.err
            /\ (Careful /\ s.app) => ~s.dirty

\* Input of m: the application may write next only at the end of the file.
Input(m) == /\ Take(m) /\ order' = IF m.s.eof THEN "any" ELSE "in"
            /\ flushed' = FALSE /\ UNCHANGED <<given, streamEnv>>

Fread(n, up) == CanRead /\ Up(up) /\ Input(StreamRead(Start(up), n))
Fgetc(up) == CanRead /\ Up(up) /\ Input(StreamRead(Start(up), 1))
Getc(up) == CanRead /\ Up(up) /\ Input(StreamRead(Start(up), 1))

\* fgets of at most n characters: one at a time, to a newline.  A read that finds
\* the end sets the indicator, the next one fails and the call returns NULL.
RECURSIVE GetLine(_, _)
GetLine(m, n) ==
    LET r == StreamRead([m EXCEPT !.got = <<>>], 1) IN
    IF n = 0 \/ Newlines(m.got) # {} THEN m
    ELSE IF ~r.rc THEN [r EXCEPT !.got = m.got]
    ELSE GetLine([r EXCEPT !.got = m.got \o r.got], n - 1)
Fgets(n, up) == CanRead /\ Up(up) /\ Input(GetLine(Start(up), n))

\* Output of m, which wrote b: the position of an append stream is not relied on
\* until the next seek.
Output(m, b) == /\ Take(m) /\ order' = IF s.app THEN "lost" ELSE "out"
                /\ given' = given + IF m.rc THEN Len(b) ELSE 0
                /\ flushed' = FALSE /\ UNCHANGED streamEnv

\* All output goes through unifyfs_stream_write: fwrite a block, fputs and fprintf
\* a string put together before, fputc and putc a character.
Write(b, up) == /\ CanWrite /\ Max({s.pos, Len(file) + Len(s.data)}) + Len(b) <= MaxLen /\ Up(up)
                /\ Output(StreamWrite(Start(up), b), b)
Fwrite(b, up) == Write(b, up)
Fputs(b, up) == Newlines(b) = {} /\ Write(b, up)
Vfprintf(b, up) == Newlines(b) # {} /\ Write(b, up)
Fputc(c, up) == Write(<<c>>, up)
Putc(c, up) == Write(<<c>>, up)

\* ungetc: refused at the start of the file.
Ungetc(c) ==
    /\ CanRead /\ order = "in" /\ Len(s.ub) < 2 /\ Up(TRUE)
    /\ s' = IF s.pos <= 0 THEN s
            ELSE [s EXCEPT !.ub = <<c>> \o @, !.pos = @ - 1, !.rest = <<c>> \o s.ub, !.eof = FALSE]
    /\ flushed' = FALSE /\ UNCHANGED <<file, seen, order>> /\ Quiet

\* fseek, fseeko, rewind and fsetpos.
Repositioned(m) ==
    /\ Take(m) /\ order' = IF m.rc THEN "any" ELSE order
    /\ flushed' = m.rc /\ UNCHANGED <<given, streamEnv>>
CanSeek == order \in {"fresh", "any", "in", "out", "lost"} /\ Ready /\ ~s.err
Fseek(whence, off, up) ==
    /\ CanSeek /\ (order = "lost" => whence # "cur") /\ Up(up)
    /\ LET m == Seek(Start(up), whence, off) IN m.s.pos <= MaxLen /\ Repositioned(m)
Rewind(up) == /\ CanSeek /\ Up(up)
              /\ LET m == Seek(Start(up), "set", 0)
                 IN Repositioned(IF m.rc THEN [m EXCEPT !.s.err = FALSE] ELSE m)

\* fgetpos keeps the position, fsetpos seeks to it and frees the state.
Fgetpos == /\ CanSeek /\ order # "lost" /\ s.saved = NoPos /\ Up(TRUE)
           /\ s' = [s EXCEPT !.saved = s.pos] /\ flushed' = FALSE
           /\ UNCHANGED <<file, seen, order>> /\ Quiet
Fsetpos(up) == /\ CanSeek /\ s.saved # NoPos /\ Up(up)
               /\ LET m == Seek(Start(up), "set", s.saved)
                  IN Repositioned(IF m.rc THEN [m EXCEPT !.s.saved = NoPos] ELSE m)

\* ftell, ftello.
Ftell == s.pos

\* fflush of this stream, or of all: input stays input, output may be followed
\* by anything.
Fflush(up) ==
    LET m == Flush([Start(up) EXCEPT !.s.rest = s.rest]) IN
    /\ CanSeek /\ Up(up) /\ Take(m)
    /\ order' = IF m.rc /\ order = "out" THEN "any" ELSE order
    /\ flushed' = m.rc /\ UNCHANGED <<given, streamEnv>>

\* fclose: when the flush fails the stream stays open and may be closed again.
Fclose(up) ==
    LET m == Flush([Start(up) EXCEPT !.s.rest = s.rest]) IN
    /\ order \notin {"closed", "refused"} /\ Up(up)
    /\ IF m.rc
       THEN /\ s' = Closed /\ order' = "refused"
            /\ pool' = [streams |-> pool.streams + 1, fds |-> pool.fds + 1]
       ELSE s' = m.s /\ UNCHANGED <<pool, order>>
    /\ file' = m.file /\ seen' = m.seen /\ got' = <<>> /\ flushed' = m.rc
    /\ UNCHANGED <<sprog, given>>

StreamNext == \/ Fopen \/ Setvbuf \/ Fgetpos
        \/ \E up \in BOOLEAN :
             \/ Fgetc(up) \/ Getc(up) \/ Rewind(up) \/ Fsetpos(up) \/ Fflush(up) \/ Fclose(up)
             \/ \E n \in 2 .. MaxLen : Fread(n, up) \/ Fgets(n, up)
             \/ \E b \in Chunks : Fwrite(b, up) \/ Fputs(b, up) \/ Vfprintf(b, up)
             \/ \E c \in Chars : Fputc(c, up) \/ Putc(c, up)
             \/ \E w \in {"set", "cur", "end"}, off \in -1 .. 1 : Fseek(w, off, up)
        \/ \E c \in Chars : Ungetc(c)

StreamSpec == StreamInit /\ [][StreamNext]_streamVars

-----------------------------------------------------------------------------
\* The file once the buffer has been written.
Content == IF s.dirty THEN Put(file, s.bufpos, s.data) ELSE file

\* unifyfs_stream_read, _write, _fseek and ungetc behave as on an unbuffered
\* sequence of characters: whatever the order of calls, buffer boundaries and
\* push-back, each input returns the characters that are there, each write lands
\* at the position, and no character is lost or written twice.
Abstract == INSTANCE AbstractStream WITH
    Chunks <- Chunks \cup {<<c>> : c \in Chars},
    content <- Content,
    pos <- IF order \in {"closed", "refused", "lost"} \/ sprog.convs # {} THEN NoPos ELSE Ftell,
    back <- IF sprog.convs # {} THEN <<>> ELSE s.ub, got <- got, append <- s.app
ImplementsStream == Abstract!ASpec

\* A flush, a seek or a close that succeeds leaves nothing behind: the server
\* knows all that was written to the stream (unifyfs_stream_flush).
FlushIsVisible == flushed => seen = Content

\* An append stream always writes at the end of the file, as unifyfs_stream_write
\* says of itself: the file holds at least every character accepted.
AppendsKept == s.open /\ s.app => Len(Content) >= given
=============================================================================
