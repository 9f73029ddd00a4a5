------------------------------- MODULE Scanf -------------------------------
(* fscanf on a stream (client/src/unifyfs-stdio.c, __svfscanf and the functions *)
(* it calls): the conversions take characters through the pointers _p and _r,   *)
(* which __srefill sets to the buffer, and give back with ungetc what they took *)
(* too much.  A format is one conversion here; a program that scans makes no    *)
(* other input, and stops after characters were pushed back.                    *)
EXTENDS Streams, TLC

CONSTANTS Widths,       \* field widths
          NoLimit       \* no width given

VARIABLES scan          \* the last conversion: its kind, width and start, and the result

scanvars == <<streamVars, scan>>

NoScan == [conv |-> "none", width |-> NoLimit, from |-> 0, got |-> <<>>, ret |-> 0]

Space == {" ", Newline}
Sign == {"+"}
Octal == {"0", "1"}
Digits == {"0", "1", "9"}
HexDigits == Digits \cup {"e", "f", "a"}
Letters == HexDigits \cup {"x", "p", "i", "n"}

\* A block that is read moves the position behind it.
Passed(m) == IF m.rc THEN [m EXCEPT !.s.pos = @ + Len(m.s.data)] ELSE m
Fetch(m, at) == IF m.rc THEN Passed(FdRead(m, at)) ELSE m
Cover(m, rest) == [m EXCEPT !.s.rest = rest, !.rc = rest # <<>>]
Point(m, at) == IF m.rc THEN Cover(m, Skip(m.s.data, at - m.s.bufpos)) ELSE m

\* __srefill: what was pushed back is reported as the end of the input.
FillFrom(m) ==
    IF m.s.ub # <<>> THEN [m EXCEPT !.s.rest = m.s.ub, !.rc = FALSE]
    ELSE Point(IF InBuffer(m, m.s.pos) THEN m ELSE Fetch(Flush(m), m.s.pos), m.s.pos)
Refill(m) == IF m.s.rd THEN FillFrom(NeedBuf(m)) ELSE Fail(m)

\* Mutant: a block is not read when some of it is in the buffer already.
MutHave(m) == IF m.s.rest # <<>> \/ m.s.data # <<>> THEN [m EXCEPT !.rc = m.s.rest # <<>>]
              ELSE Refill([m EXCEPT !.rc = TRUE])

\* A character is at hand, or the input ends.
Have(m) == IF m.s.rest # <<>> THEN [m EXCEPT !.rc = TRUE] ELSE Refill([m EXCEPT !.rc = TRUE])
Consume(m) == [m EXCEPT !.got = Append(@, Head(m.s.rest)), !.s.rest = Tail(@)]

\* Characters of a class, at most w; rc is FALSE when the input ends.
RECURSIVE Span(_, _, _)
Span(m, class, w) ==
    LET c == Consume(m)
        h == Have(c)
    IN IF Head(m.s.rest) \notin class THEN m
       ELSE IF w = 1 THEN c
       ELSE IF ~h.rc THEN h
       ELSE Span(h, class, w - 1)

SkipSpace(m) == [Span(m, Space, NoLimit) EXCEPT !.got = <<>>]
ConvertString(m, w) == Span(m, Letters \cup Sign \cup {".", "(", ")"}, w)
ConvertCcl(m, w) == Span(m, Octal, w)

\* ungetc, as the conversions call it: the pointers now cover the push-back only.
PushBack(m, c) == IF m.s.pos <= 0 THEN m
                  ELSE [m EXCEPT !.s.ub = <<c>> \o @, !.s.pos = @ - 1,
                                 !.s.rest = <<c>> \o m.s.ub, !.s.eof = FALSE]

\* parseint: whether c is legal after the flags z, and the flags after it; n is
\* the number of characters taken so far.
IntStart(conv) == [base |-> (CASE conv = "d" -> 10 [] conv = "i" -> 0 [] conv = "x" -> 16),
                   sign |-> TRUE, nd |-> TRUE, nz |-> TRUE, pfx |-> conv = "x", have |-> FALSE, ok |-> TRUE]
BaseFix(b) == IF b = 0 THEN 10 ELSE b
IntStep(z, c, n) ==
    LET digit == [z EXCEPT !.sign = FALSE, !.pfx = FALSE, !.nd = FALSE]
        bad == [z EXCEPT !.ok = FALSE]
    IN CASE c = "0" ->
              LET b == IF z.base = 0 THEN [z EXCEPT !.base = 8, !.pfx = TRUE] ELSE z
              IN IF b.nz THEN [b EXCEPT !.sign = FALSE, !.nz = FALSE, !.nd = FALSE]
                 ELSE [b EXCEPT !.sign = FALSE, !.pfx = FALSE, !.nd = FALSE]
         [] c = "1" -> [digit EXCEPT !.base = BaseFix(z.base)]
         [] c = "9" -> IF BaseFix(z.base) <= 8 THEN bad ELSE [digit EXCEPT !.base = BaseFix(z.base)]
         [] c \in HexDigits \ Digits -> IF z.base <= 10 THEN bad ELSE digit
         [] c \in Sign -> IF z.sign THEN [z EXCEPT !.sign = FALSE, !.have = TRUE] ELSE bad
         [] c = "x" -> IF z.pfx /\ n = 1 + (IF z.have THEN 1 ELSE 0)
                       THEN [z EXCEPT !.base = 16, !.pfx = FALSE] ELSE bad
         [] OTHER -> bad

RECURSIVE IntLoop(_, _, _)
IntLoop(m, z, w) ==
    LET t == IntStep(z, Head(m.s.rest), Len(m.got))
        h == Have(Consume(m))
    IN IF w = 0 \/ ~t.ok THEN [m |-> m, z |-> z]
       ELSE IF ~h.rc THEN [m |-> h, z |-> t]
       ELSE IntLoop(h, t, w - 1)

\* A sign without digits is pushed back, and so is the x of 0x without digits.
ParseInt(m, conv, w) ==
    LET r == IntLoop(m, IntStart(conv), w)
        n == Len(r.m.got)
    IN IF r.z.nd THEN [(IF n > 0 THEN PushBack(r.m, r.m.got[n]) ELSE r.m) EXCEPT !.got = <<>>]
       ELSE IF r.m.got[n] = "x" THEN [PushBack(r.m, "x") EXCEPT !.got = SubSeq(@, 1, n - 1)]
       ELSE r.m

\* parsefloat: the state machine; commit counts the characters up to the last
\* complete number.
FloatStart == [st |-> "start", k |-> 0, hex |-> FALSE, mant |-> FALSE, commit |-> 0, ok |-> TRUE]
Nfinity == <<"n", "f", "i", "n", "i", "t", "y">>
IsDigit(z, c) == c \in Digits \/ (z.hex /\ c \in HexDigits)
RECURSIVE FloatStep(_, _, _)
FloatStep(z, c, n) ==
    LET done == [z EXCEPT !.ok = FALSE]
        To(st) == [z EXCEPT !.st = st]
        commit == [z EXCEPT !.commit = n + 1]
    IN CASE z.st = "start" -> IF c \in Sign THEN To("sign") ELSE FloatStep(To("sign"), c, n)
         [] z.st = "sign" -> CASE c = "0" -> [commit EXCEPT !.st = "maybehex"]
                               [] c = "i" -> To("inf")
                               [] c = "n" -> To("nan")
                               [] OTHER -> FloatStep(To("digits"), c, n)
         [] z.st = "inf" -> IF z.k > 6 \/ c # Nfinity[z.k + 1] THEN done
                            ELSE [(IF z.k \in {1, 6} THEN commit ELSE z) EXCEPT !.k = @ + 1]
         [] z.st = "nan" -> CASE z.k = 0 -> IF c = "a" THEN [z EXCEPT !.k = 1] ELSE done
                              [] z.k = 1 -> IF c = "n" THEN [commit EXCEPT !.k = 2] ELSE done
                              [] z.k = 2 -> IF c = "(" THEN [z EXCEPT !.k = 3] ELSE done
                              [] OTHER -> IF c = ")" THEN [commit EXCEPT !.st = "done"]
                                          ELSE IF c \in Letters THEN z ELSE done
         [] z.st = "done" -> done
         [] z.st = "maybehex" -> IF c = "x" THEN [To("digits") EXCEPT !.hex = TRUE]
                                 ELSE FloatStep([To("digits") EXCEPT !.mant = TRUE], c, n)
         [] z.st = "digits" -> IF IsDigit(z, c) THEN [commit EXCEPT !.mant = TRUE]
                               ELSE FloatStep(To("decpt"), c, n)
         [] z.st = "decpt" -> IF c = "." THEN [(IF z.mant THEN commit ELSE z) EXCEPT !.st = "frac"]
                              ELSE FloatStep(To("frac"), c, n)
         [] z.st = "frac" -> IF c = (IF z.hex THEN "p" ELSE "e")
                             THEN IF z.mant THEN To("exp") ELSE done
                             ELSE IF IsDigit(z, c) THEN [commit EXCEPT !.mant = TRUE] ELSE done
         [] z.st = "exp" -> IF c \in Sign THEN To("expdigits") ELSE FloatStep(To("expdigits"), c, n)
         [] z.st = "expdigits" -> IF c \in Digits THEN commit ELSE done

RECURSIVE FloatLoop(_, _, _)
FloatLoop(m, z, w) ==
    LET t == FloatStep(z, Head(m.s.rest), Len(m.got))
        h == Have(Consume(m))
    IN IF w = 0 \/ ~t.ok THEN [m |-> m, z |-> z]
       ELSE IF ~h.rc THEN [m |-> h, z |-> t]
       ELSE FloatLoop(h, t, w - 1)

\* Everything behind the last complete number is pushed back, last character first.
RECURSIVE Uncommit(_, _)
Uncommit(m, n) == IF Len(m.got) <= n THEN m
                  ELSE Uncommit([PushBack(m, m.got[Len(m.got)]) EXCEPT !.got = SubSeq(@, 1, Len(@) - 1)], n)
ParseFloat(m, w) == LET r == FloatLoop(m, FloatStart, w) IN Uncommit(r.m, r.z.commit)

\* __svfscanf of one conversion: -1 is an input failure, 0 a match failure.
Convert(m, conv, w) ==
    CASE conv = "s" -> ConvertString(m, w)
      [] conv = "ccl" -> ConvertCcl(m, w)
      [] conv \in {"d", "i", "x"} -> ParseInt(m, conv, w)
      [] conv = "f" -> ParseFloat(m, w)
Svfscanf(m, conv, w) ==
    LET h == Have(m)
        k == IF conv = "ccl" THEN h ELSE SkipSpace(h)
        r == Convert(k, conv, w)
    IN IF ~h.rc THEN [m |-> h, ret |-> -1]
       ELSE IF ~k.rc THEN [m |-> k, ret |-> -1]
       ELSE [m |-> r, ret |-> IF r.got = <<>> THEN 0 ELSE 1]

Vfscanf(conv, w, up) ==
    LET m == [Start(up) EXCEPT !.s.rest = s.rest]
        r == Svfscanf(m, conv, w)
    IN /\ order \in {"fresh", "scan"} /\ Ready /\ ~s.err /\ s.ub = <<>> /\ Up(up)
       /\ Take([r.m EXCEPT !.got = <<>>]) /\ order' = "scan" /\ flushed' = FALSE
       /\ scan' = IF r.m.s.err THEN NoScan
                  ELSE [conv |-> conv, width |-> w, from |-> s.pos - Len(s.rest),
                        got |-> r.m.got, ret |-> r.ret]
       /\ UNCHANGED <<given, streamEnv>>

ScanInit == StreamInit /\ scan = NoScan
Plain == sprog.convs = {} \/ order = "closed"
ScanNext == \/ Plain /\ StreamNext /\ UNCHANGED scan
            \/ \E conv \in sprog.convs, w \in Widths, up \in BOOLEAN : Vfscanf(conv, w, up)
ScanSpec == ScanInit /\ [][ScanNext]_scanvars

-----------------------------------------------------------------------------
\* What the conversions should take, by the grammar of C.
All(q, class) == \A i \in 1 .. Len(q) : q[i] \in class
Some(q, class) == Len(q) > 0 /\ All(q, class)
Unsigned(q) == IF Len(q) > 0 /\ q[1] \in Sign THEN Tail(q) ELSE q
HasPrefix(q, p) == Len(q) >= Len(p) /\ SubSeq(q, 1, Len(p)) = p
IsInt(q, conv) ==
    LET u == Unsigned(q)
        hex == HasPrefix(u, <<"0", "x">>) /\ Some(Skip(u, 2), HexDigits)
    IN CASE conv = "d" -> Some(u, Digits)
         [] conv = "x" -> Some(u, HexDigits) \/ hex
         [] conv = "i" -> \/ Some(u, Digits) /\ u[1] # "0"
                          \/ Some(u, Octal) /\ u[1] = "0"
                          \/ hex
IsMantissa(q, class) ==
    \/ Some(q, class)
    \/ \E i \in 1 .. Len(q) : /\ q[i] = "." /\ Len(q) > 1
                              /\ All(SubSeq(q, 1, i - 1), class) /\ All(Skip(q, i), class)
IsNumber(q, class, e) ==
    \/ IsMantissa(q, class)
    \/ \E i \in 1 .. Len(q) : /\ q[i] = e /\ IsMantissa(SubSeq(q, 1, i - 1), class)
                              /\ Some(Unsigned(Skip(q, i)), Digits)
IsFloat(q) ==
    LET u == Unsigned(q) IN
    \/ IsNumber(u, Digits, "e")
    \/ HasPrefix(u, <<"0", "x">>) /\ IsNumber(Skip(u, 2), HexDigits, "p")
    \/ u \in {<<"i">> \o SubSeq(Nfinity, 1, 2), <<"i">> \o Nfinity, <<"n", "a", "n">>}
    \/ /\ HasPrefix(u, <<"n", "a", "n", "(">>) /\ u[Len(u)] = ")"
       /\ All(SubSeq(u, 5, Len(u) - 1), Letters)
Fits(q, conv) == CASE conv = "s" -> All(q, UNION {Letters, Sign, {".", "(", ")"}})
                   [] conv = "ccl" -> All(q, Octal)
                   [] conv \in {"d", "i", "x"} -> IsInt(q, conv)
                   [] conv = "f" -> IsFloat(q)
Longest(q, conv, w) == SubSeq(q, 1, Max({0} \cup {k \in 1 .. Min({w, Len(q)}) : Fits(SubSeq(q, 1, k), conv)}))
Blank(q) == Max({k \in 0 .. Len(q) : All(SubSeq(q, 1, k), Space)})

\* Each conversion takes the longest field of its kind that starts where the last
\* one ended, across buffer refills, and reports the end of the input only when
\* there is nothing left (parseint, parsefloat, convert_string, __srefill).
ScanExact ==
    scan.conv # "none" =>
    LET q == Skip(file, scan.from)
        r == IF scan.conv = "ccl" THEN q ELSE Skip(q, Blank(q))
    IN /\ scan.got = Longest(r, scan.conv, scan.width)
       /\ scan.ret = IF r = <<>> THEN -1 ELSE IF scan.got = <<>> THEN 0 ELSE 1
=============================================================================
