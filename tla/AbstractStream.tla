--------------------------- MODULE AbstractStream ---------------------------
(* What a stdio stream promises: a sequence of characters, a position in it,   *)
(* characters pushed back in front of the position, and calls that read and    *)
(* write there.  Nothing is said of buffers.                                   *)
EXTENDS Integers, Sequences, FiniteSetsExt

CONSTANTS Chars,     \* characters that can be pushed back
          Chunks,    \* what one call writes
          MaxLen,    \* bound on the size of the file
          Newline, Hole, NoPos

VARIABLES content,   \* what the file holds once everything written has arrived
          pos,       \* the position, NoPos when it is not defined
          back,      \* characters pushed back
          got,       \* characters the last input call returned
          append     \* writes go to the end

avars == <<content, pos, back, got, append>>

\* f with the characters b put at offset at; a gap reads as holes.
Put(f, at, b) ==
    IF b = <<>> THEN f
    ELSE [i \in 1 .. Max({Len(f), at + Len(b)}) |->
            IF i > at /\ i <= at + Len(b) THEN b[i - at]
            ELSE IF i <= Len(f) THEN f[i] ELSE Hole]

\* At most n characters of f from offset at.
Slice(f, at, n) == SubSeq(f, at + 1, Min({at + n, Len(f)}))
Skip(q, n) == SubSeq(q, n + 1, Len(q))

\* The characters an input call would find, in order.
Ahead == back \o Slice(content, pos + Len(back), Len(content))

\* A write of b, and a write that fails after a part of b.
Place == IF append THEN Len(content) ELSE pos
AWrite(b) == /\ append \/ pos # NoPos
             /\ content' = Put(content, Place, b)
             /\ pos' = IF append THEN NoPos ELSE pos + Len(b)
             /\ back' = Skip(back, Len(b)) /\ got' = <<>> /\ UNCHANGED append
AWriteFails(b) == /\ append \/ pos # NoPos
                  /\ \E n \in 0 .. Len(b) : content' = Put(content, Place, SubSeq(b, 1, n))
                  /\ pos' = IF append THEN NoPos ELSE pos
                  /\ back' = Skip(back, Len(b)) /\ got' = <<>> /\ UNCHANGED append

\* Input of n characters, or of all there are; or of a line of at most n.
Take(k) == /\ pos # NoPos /\ got' = SubSeq(Ahead, 1, k)
           /\ pos' = pos + k /\ back' = Skip(back, k) /\ UNCHANGED <<content, append>>
ARead(n) == Take(Min({n, Len(Ahead)}))
ALine(n) == Take(Min({n, Len(Ahead)} \cup {i \in 1 .. Len(Ahead) : Ahead[i] = Newline}))

\* Input that fails returns nothing and may lose what was pushed back.
AReadFails == /\ \E n \in 0 .. Len(back) : back' = Skip(back, n)
              /\ got' = <<>> /\ UNCHANGED <<content, pos, append>>

AUnget(c) == /\ pos # NoPos /\ pos > 0 /\ pos' = pos - 1 /\ back' = <<c>> \o back
             /\ got' = <<>> /\ UNCHANGED <<content, append>>
ASeek(p) == pos' = p /\ back' = <<>> /\ got' = <<>> /\ UNCHANGED <<content, append>>
ANoEffect == got' = <<>> /\ UNCHANGED <<content, pos, back, append>>

\* A stream is opened, or refused, with the file truncated or not; and closed.
AOpen == /\ content' \in {content, <<>>} /\ append' \in BOOLEAN /\ pos' \in {0, Len(content), NoPos}
         /\ back' = <<>> /\ got' = <<>>
AClose == pos' = NoPos /\ back' = <<>> /\ got' = <<>> /\ append' = FALSE /\ UNCHANGED content

AInit == /\ content \in Seq(STRING) /\ pos = NoPos /\ back = <<>> /\ got = <<>> /\ append = FALSE

ANext == \/ AOpen \/ AClose \/ ANoEffect \/ AReadFails
         \/ \E b \in Chunks : AWrite(b) \/ AWriteFails(b)
         \/ \E n \in 0 .. MaxLen : ARead(n) \/ ALine(n) \/ ASeek(n)
         \/ \E c \in Chars : AUnget(c)

ASpec == AInit /\ [][ANext]_avars
=============================================================================
