----------------------------- MODULE MCStreams -----------------------------
(* One stream: every fopen mode, buffered by block or by line, on an empty file *)
(* and on one that ends in the middle of a line; and fscanf over short texts.   *)
EXTENDS Scanf

StreamProgram(mode, type, text) == [mode |-> mode, type |-> type, file |-> text, streams |-> 1, fds |-> 1, convs |-> {}]
Contents == {<<>>, <<"a", "nl", "b">>}
Buffered == {StreamProgram(m, t, f) : m \in {"r", "r+", "w", "w+", "a", "a+"}, t \in {"full", "line"}, f \in Contents}
            \cup {[StreamProgram("w", "full", <<>>) EXCEPT !.fds = 0]}
SomeChunks == {<<"b", "nl">>, <<"b", "b", "a">>}

Marks == {"0", "1", "9", "x", "e", ".", "+"}
Texts == UNION {[1 .. n -> Marks] : n \in 0 .. 3}
         \cup {<<"1", " ", " ", "0">>, <<" ", "1", "nl">>, <<"1", "e", "+", "0">>, <<"1", "e", "+", "x">>,
               <<"0", "x", ".", "e">>, <<"0", "x", "1", "p", "1">>, <<"+", "0", "x", "9">>, <<"+", "0", "x", "p">>,
               <<"i", "n", "f">>, <<"i", "n", "f", "i">>, <<"n", "a", "n">>, <<"n", "a", "n", "(", "1", ")">>,
               <<"n", "a", "n", "(", "1">>, <<"0", ".", "1", "e", "1">>}
Scans == {[StreamProgram("r", "full", t) EXCEPT !.convs = k] :
            t \in Texts, k \in {{"s", "i"}, {"ccl", "d"}, {"x", "f"}}}
AllStreamPrograms == Buffered \cup Scans

Appends == {StreamProgram("a", "full", f) : f \in Contents}
=============================================================================
