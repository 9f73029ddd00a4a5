---------------------------- MODULE RequestsProofs --------------------------
(***************************************************************************)
(* Proofs about the calls of clients at their server, for any clients, any *)
(* calls they make and any number of them: which thread of the server has  *)
(* the handle of a call, and that it gives the handle on or answers it; a  *)
(* call is answered once; and from the attach to the unmount nobody takes  *)
(* the client's structure or its thread away.                              *)
(***************************************************************************)
EXTENDS Requests, SequenceTheorems, FiniteSetTheorems, TLAPS

-----------------------------------------------------------------------------
(* A handle has one owner.                                                   *)

\* What a request manager has in its lists: the handles of its client, and the
\* request without a handle.
Listable == Clients \X (0 .. MaxCalls + 3)

InMount(h) == \E m \in mounting : m.h = h
InQ(h) == \E i \in 1 .. Len(q[h[1]]) : q[h[1]][i] = h
InBatch(h) == \E i \in 1 .. Len(batch[h[1]]) : batch[h[1]][i] = h /\ ~(i = 1 /\ Runs(h[1], "free"))
InSvc(h) == \E i \in 1 .. Len(svc) : svc[i] = h

ThreadPcs == {"none", "cb", "req", "beat", "work", "owner", "free", "exited"}
MainPcs == {"loop", "clean", "join", "exit", "exitjoin", "gone"}
CliPcs == {"off", "idle", "wait", "pull", "over", "failed", "dead"}

ReqTypeOK ==
    /\ job \in Jobs /\ app \in BOOLEAN
    /\ cli \in [Clients -> CliPcs] /\ at \in [Clients -> Nat]
    /\ \A c \in Clients : at[c] > 0 => c \in Started /\ at[c] <= Len(Calls(c))
    /\ net \subseteq Handles /\ joining \subseteq Handles /\ okay \subseteq Handles
    /\ answers \in [Handles -> Nat]
    /\ mounting \subseteq [h : Handles, creates : BOOLEAN]
    /\ slot \in [Clients -> {"none", "new", "live", "down", "gone"}]
    /\ rm \in [Clients -> [pc : ThreadPcs, attached : BOOLEAN, exit : BOOLEAN]]
    /\ q \in [Clients -> Seq(Listable)] /\ batch \in [Clients -> Seq(Listable)] /\ svc \in Seq(Handles)
    /\ failed \subseteq Clients
    /\ main \in [pc : MainPcs, who : SUBSET Clients, cur : Clients]

\* The handle h is kept in one place or has been answered, and its call was made.
OneOwner(h) ==
    /\ answers[h] <= 1
    /\ h \in net => ~(InMount(h) \/ InQ(h) \/ InBatch(h) \/ InSvc(h) \/ h \in joining \/ answers[h] > 0)
    /\ InMount(h) => ~(InQ(h) \/ InBatch(h) \/ InSvc(h) \/ h \in joining \/ answers[h] > 0)
    /\ InQ(h) => ~(InBatch(h) \/ InSvc(h) \/ h \in joining \/ answers[h] > 0)
    /\ InBatch(h) => ~(InSvc(h) \/ h \in joining \/ answers[h] > 0)
    /\ InSvc(h) => ~(h \in joining \/ answers[h] > 0)
    /\ h \in joining => ~(answers[h] > 0)
    /\ h \in net \/ InMount(h) \/ InQ(h) \/ InBatch(h) \/ InSvc(h) \/ h \in joining \/ answers[h] > 0
         => h[2] <= at[h[1]]

\* A list of client c: its own requests, each once.
Listed(c, s) == /\ \A i \in 1 .. Len(s) : s[i][1] = c
                /\ \A i, j \in 1 .. Len(s) : s[i] = s[j] => i = j

\* The thread of c has requests in hand where it works on them, frees the list of
\* a request that is answered, and exists only after the mount was answered.
ThreadOf(c) ==
    /\ rm[c].pc \in {"work", "owner", "free"} <=> batch[c] # <<>>
    /\ rm[c].pc = "free" => batch[c][1] \in Handles /\ answers[batch[c][1]] > 0
    /\ rm[c].pc # "none" => answers[<<c, 1>>] > 0

OwnInv ==
    /\ ReqTypeOK
    /\ \A h \in Handles : OneOwner(h) /\ (h \in okay => answers[h] > 0)
    /\ \A m, n \in mounting : m.h = n.h => m = n
    /\ \A m \in mounting : m.h[2] = 1
    /\ \A i, j \in 1 .. Len(svc) : svc[i] = svc[j] => i = j
    /\ \A c \in Clients : Listed(c, q[c]) /\ Listed(c, batch[c]) /\ ThreadOf(c)

-----------------------------------------------------------------------------
(* Sequences, and the calls of a client.                                     *)

LEMMA AppendFacts ==
    ASSUME NEW S, NEW s \in Seq(S), NEW x \in S
    PROVE  /\ Append(s, x) \in Seq(S) /\ Len(Append(s, x)) = Len(s) + 1 /\ Len(s) \in Nat
           /\ \A i \in 1 .. Len(s) : Append(s, x)[i] = s[i]
           /\ Append(s, x)[Len(s) + 1] = x
  BY AppendProperties, LenProperties

LEMMA TailFacts ==
    ASSUME NEW S, NEW s \in Seq(S), s # <<>>
    PROVE  /\ Tail(s) \in Seq(S) /\ Len(Tail(s)) = Len(s) - 1 /\ Len(s) \in Nat /\ Len(s) > 0
           /\ \A i \in 1 .. Len(Tail(s)) : Tail(s)[i] = s[i + 1] /\ i + 1 \in 1 .. Len(s)
           /\ s[1] \in S /\ Head(s) = s[1]
           /\ Len(s) = 1 <=> Tail(s) = <<>>
<1> PICK t : t = Tail(s)
  BY Zenon
<1>1. Len(s) \in Nat /\ Len(s) > 0
  BY EmptySeq
<1>2. t \in Seq(S) /\ Len(t) = Len(s) - 1 /\ \A i \in 1 .. Len(t) : t[i] = s[i + 1]
  BY HeadTailProperties, Zenon
<1>3. \A i \in 1 .. Len(t) : i + 1 \in 1 .. Len(s)
  BY <1>1, <1>2
<1>4. s[1] \in S /\ Head(s) = s[1]
  BY <1>1
<1>5. Len(s) = 1 <=> t = <<>>
  <2>1. t = <<>> => Len(t) = 0
    BY EmptySeq, Zenon
  <2>2. t # <<>> => Len(t) > 0
    BY <1>2, EmptySeq
  <2> QED BY <1>1, <1>2, <2>1, <2>2
<1> QED BY <1>1, <1>2, <1>3, <1>4, <1>5, Zenon

\* Mount and attach are the first two calls of a client, unmount is the last one,
\* and the calls in between are of other kinds.
LEMMA CallKinds ==
    ASSUME job \in Jobs, NEW c \in Started
    PROVE  /\ Len(Calls(c)) \in 3 .. MaxCalls + 3 /\ c \in Clients
           /\ \A i \in 1 .. Len(Calls(c)) :
                /\ Kind(<<c, i>>) = "mount" <=> i = 1
                /\ Kind(<<c, i>>) = "attach" <=> i = 2
                /\ Kind(<<c, i>>) = "unmount" <=> i = Len(Calls(c))
                /\ i \notin {1, 2, Len(Calls(c))} => Kind(<<c, i>>) \in Kinds
<1> DEFINE p == job.prog[c]
           a == <<"mount", "attach">>
           z == <<"unmount">>
<1>1. p \in Seq(Kinds) /\ Len(p) <= MaxCalls /\ c \in Clients /\ MaxCalls \in Nat
  BY JobsAssumption, Zenon DEF JobsOK, Started
<1>2. a \in Seq({"mount", "attach"}) /\ Len(a) = 2 /\ a[1] = "mount" /\ a[2] = "attach"
  OBVIOUS
<1>3. z \in Seq({"unmount"}) /\ Len(z) = 1 /\ z[1] = "unmount"
  OBVIOUS
<1> HIDE DEF p, a, z
<1> DEFINE K == Kinds \cup {"mount", "attach", "unmount"}
<1>4. a \in Seq(K) /\ p \in Seq(K) /\ z \in Seq(K)
  BY <1>1, <1>2, <1>3
<1> HIDE DEF K
<1> DEFINE u == a \o p
<1>5. u \in Seq(K) /\ Len(u) = 2 + Len(p) /\ \A i \in 1 .. Len(u) : u[i] = IF i <= 2 THEN a[i] ELSE p[i - 2]
  <2>1. Len(p) \in Nat
    BY <1>1, LenProperties, Zenon
  <2>2. /\ u \in Seq(K) /\ Len(u) = Len(a) + Len(p)
        /\ \A i \in 1 .. Len(a) + Len(p) : u[i] = IF i <= Len(a) THEN a[i] ELSE p[i - Len(a)]
    BY <1>4, ConcatProperties, Zenon
  <2> HIDE DEF u
  <2> QED BY <1>2, <2>1, <2>2, Zenon
<1> HIDE DEF u
<1> DEFINE v == u \o z
<1>6. Len(v) = Len(u) + 1 /\ \A i \in 1 .. Len(v) : v[i] = IF i <= Len(u) THEN u[i] ELSE z[i - Len(u)]
  <2>1. Len(u) \in Nat
    BY <1>5, LenProperties, Zenon
  <2>2. /\ Len(v) = Len(u) + Len(z)
        /\ \A i \in 1 .. Len(u) + Len(z) : v[i] = IF i <= Len(u) THEN u[i] ELSE z[i - Len(u)]
    BY <1>4, <1>5, ConcatProperties, Zenon
  <2> HIDE DEF v
  <2> QED BY <1>3, <2>1, <2>2, Zenon
<1>7. Calls(c) = v
  BY Zenon DEF Calls, v, u, a, z, p
<1> HIDE DEF v
<1>8. Len(p) \in Nat /\ \A i \in 1 .. Len(p) : p[i] \in Kinds
  BY <1>1
<1>9. \A i \in 1 .. Len(v) : Kind(<<c, i>>) = v[i]
  BY <1>5, <1>6, <1>7, <1>8 DEF Kind
<1>10. "mount" \notin Kinds /\ "attach" \notin Kinds /\ "unmount" \notin Kinds
  BY Zenon DEF Kinds
<1>11. Len(v) = Len(p) + 3 /\ v[1] = "mount" /\ v[2] = "attach" /\ v[Len(v)] = "unmount"
  BY <1>2, <1>3, <1>5, <1>6, <1>8
<1>12. \A i \in 3 .. Len(p) + 2 : v[i] \in Kinds
  <2> TAKE i \in 3 .. Len(p) + 2
  <2>1. v[i] = p[i - 2] /\ i - 2 \in 1 .. Len(p)
    BY <1>5, <1>6, <1>8
  <2> QED BY <2>1, <1>8, Zenon
<1> QED BY <1>1, <1>7, <1>8, <1>9, <1>10, <1>11, <1>12

-----------------------------------------------------------------------------
(* How the handles move.                                                     *)

\* A handle that no step put anywhere.
LEMMA StaysOwned ==
    ASSUME NEW h \in Handles, OneOwner(h), h \in net' => h \in net, InMount(h)' => InMount(h),
           InQ(h)' => InQ(h), InBatch(h)' => InBatch(h), InSvc(h)' => InSvc(h),
           h \in joining' => h \in joining, answers'[h] = answers[h],
           at[h[1]] \in Nat, at'[h[1]] \in Nat, at[h[1]] <= at'[h[1]], h[2] \in Nat
    PROVE  OneOwner(h)'
  BY DEF OneOwner

\* A handle that is answered.
LEMMA IsAnswered ==
    ASSUME NEW h \in Handles, OneOwner(h), answers[h] = 0, answers'[h] = answers[h] + 1,
           h \notin net', ~InMount(h)', ~InQ(h)', ~InBatch(h)', ~InSvc(h)', h \notin joining',
           h[2] <= at'[h[1]]
    PROVE  OneOwner(h)'
  BY DEF OneOwner

\* The places that a step leaves alone.
LEMMA SamePlaces ==
    ASSUME NEW h
    PROVE  /\ UNCHANGED mounting => InMount(h)' = InMount(h)
           /\ q'[h[1]] = q[h[1]] => InQ(h)' = InQ(h)
           /\ batch'[h[1]] = batch[h[1]] /\ (rm'[h[1]].pc = "free" <=> rm[h[1]].pc = "free")
                => InBatch(h)' = InBatch(h)
           /\ UNCHANGED svc => InSvc(h)' = InSvc(h)
  BY Zenon DEF InMount, InQ, InBatch, InSvc, Runs

LEMMA HandleParts == \A h \in Handles : /\ h[1] \in Clients /\ h[2] \in 1 .. MaxCalls + 3
                                       /\ h = <<h[1], h[2]>> /\ h \in Listable
  BY JobsAssumption DEF Handles, Listable

LEMMA Parts ==
    ASSUME OwnInv
    PROVE  /\ ReqTypeOK /\ \A h \in Handles : OneOwner(h) /\ (h \in okay => answers[h] > 0)
           /\ \A c \in Clients : Listed(c, q[c]) /\ Listed(c, batch[c]) /\ ThreadOf(c)
  BY Zenon DEF OwnInv

\* A step that moves no handle.
LEMMA NothingMoves ==
    ASSUME OwnInv, ReqTypeOK',
           UNCHANGED <<at, net, answers, okay, mounting, q, batch, svc, joining>>,
           \A c \in Clients : /\ rm'[c].pc = "free" <=> rm[c].pc = "free"
                              /\ ThreadOf(c)'
    PROVE  OwnInv'
<1>1. ASSUME NEW h \in Handles PROVE OneOwner(h)'
  <2>1. h[1] \in Clients /\ h[2] \in Nat
    BY HandleParts
  <2>2. InMount(h)' = InMount(h) /\ InQ(h)' = InQ(h) /\ InBatch(h)' = InBatch(h) /\ InSvc(h)' = InSvc(h)
    BY <2>1, SamePlaces, Zenon
  <2>3. at[h[1]] \in Nat /\ OneOwner(h)
    BY <2>1, Zenon DEF OwnInv, ReqTypeOK
  <2> QED BY <2>1, <2>2, <2>3, StaysOwned
<1>2. \A c \in Clients : Listed(c, q[c])' /\ Listed(c, batch[c])'
  BY Zenon DEF OwnInv, Listed
<1> QED BY <1>1, <1>2, Zenon DEF OwnInv

\* The next call of a client.
LEMMA ForwardOwn == ASSUME OwnInv, NEW c \in Clients, NEW k, Forward(c, k) PROVE OwnInv'
<1> DEFINE x == <<c, at[c] + 1>>
<1>1. job \in Jobs /\ c \in Started /\ at[c] \in Nat /\ at[c] + 1 <= Len(Calls(c))
  <2>1. job \in Jobs /\ c \in Started /\ at[c] \in Nat /\ at[c] < Len(Calls(c))
    BY Zenon DEF Forward, OwnInv, ReqTypeOK
  <2> QED BY <2>1, CallKinds
<1>2. x \in Handles /\ x[1] = c /\ x[2] = at[c] + 1
  BY <1>1, CallKinds, JobsAssumption DEF Handles
<1>3. /\ at'[c] = at[c] + 1 /\ \A d \in Clients : d # c => at'[d] = at[d]
      /\ \A d \in Clients : at'[d] \in Nat /\ at[d] \in Nat /\ at[d] <= at'[d]
  BY DEF Forward, OwnInv, ReqTypeOK
<1>4. net' = net \cup {x}
  BY Zenon DEF Forward
<1> HIDE DEF x
<1>5. UNCHANGED <<job, answers, okay, mounting, rm, q, batch, svc, joining>>
  BY Zenon DEF Forward, appVars, rmVars, mainVars, svcVars
<1>6. ReqTypeOK'
  <2>1. \A d \in Clients : at'[d] > 0 => d \in Started' /\ at'[d] <= Len(Calls(d))'
    BY <1>1, <1>3, <1>5, Zenon DEF OwnInv, ReqTypeOK, Started, Calls
  <2>2. cli' \in [Clients -> CliPcs] /\ at' \in [Clients -> Nat]
    BY DEF Forward, OwnInv, ReqTypeOK, CliPcs
  <2>3. UNCHANGED <<app, slot, failed, main>>
    BY Zenon DEF Forward, appVars, mainVars
  <2> QED BY <1>2, <1>4, <1>5, <2>1, <2>2, <2>3, Zenon DEF OwnInv, ReqTypeOK
<1>7. ASSUME NEW h \in Handles PROVE OneOwner(h)'
  <2>1. h[1] \in Clients /\ h[2] \in Nat /\ OneOwner(h)
    BY HandleParts DEF OwnInv
  <2>2. InMount(h)' = InMount(h) /\ InQ(h)' = InQ(h) /\ InBatch(h)' = InBatch(h) /\ InSvc(h)' = InSvc(h)
    BY <1>5, <2>1, SamePlaces, Zenon
  <2>3. CASE h = x
    BY <1>2, <1>3, <1>5, <2>1, <2>2, <2>3 DEF OneOwner
  <2>4. CASE h # x
    BY <1>3, <1>4, <1>5, <2>1, <2>2, <2>4, StaysOwned, Zenon
  <2> QED BY <2>3, <2>4, Zenon
<1>8. \A d \in Clients : Listed(d, q[d])' /\ Listed(d, batch[d])' /\ ThreadOf(d)'
  BY <1>5, Zenon DEF OwnInv, Listed, ThreadOf
<1> QED BY <1>5, <1>6, <1>7, <1>8, Zenon DEF OwnInv

\* A list that gets another request, and one that loses its first.
LEMMA ListedAppend ==
    ASSUME NEW c, NEW s \in Seq(Listable), NEW x \in Listable, Listed(c, s), x[1] = c,
           \A i \in 1 .. Len(s) : s[i] # x
    PROVE  Listed(c, Append(s, x))
<1> PICK t : t = Append(s, x)
  BY Zenon
<1> PICK n \in Nat : n = Len(s)
  BY LenProperties, Zenon
<1>1. Len(t) = n + 1 /\ t[n + 1] = x /\ \A i \in 1 .. n : t[i] = s[i]
  BY AppendFacts
<1>2. \A i \in 1 .. n + 1 : i \in 1 .. n \/ i = n + 1
  OBVIOUS
<1>3. \A i \in 1 .. n + 1 : t[i][1] = c
  BY <1>1, <1>2, Zenon DEF Listed
<1>4. \A i, j \in 1 .. n + 1 : t[i] = t[j] => i = j
  BY <1>1, <1>2 DEF Listed
<1> QED BY <1>1, <1>3, <1>4, Zenon DEF Listed

LEMMA ListedTail ==
    ASSUME NEW c, NEW s \in Seq(Listable), s # <<>>, Listed(c, s)
    PROVE  /\ Listed(c, Tail(s))
           /\ \A i \in 1 .. Len(Tail(s)) : Tail(s)[i] # s[1]
<1> PICK t : t = Tail(s)
  BY Zenon
<1> PICK n \in Nat : n = Len(t)
  BY TailFacts, LenProperties, Zenon
<1>1. Len(s) = n + 1 /\ \A i \in 1 .. n : t[i] = s[i + 1] /\ i + 1 \in 1 .. Len(s)
  BY TailFacts
<1>2. \A i \in 1 .. n : t[i][1] = c
  BY <1>1 DEF Listed
<1>3. \A i, j \in 1 .. n : t[i] = t[j] => i = j
  BY <1>1 DEF Listed
<1>4. \A i \in 1 .. n : t[i] # s[1]
  BY <1>1 DEF Listed
<1> QED BY <1>2, <1>3, <1>4, Zenon DEF Listed

\* No step put h anywhere; h is nowhere after the step.
NotMoved(h) ==
    /\ h \in net' => h \in net
    /\ InMount(h)' => InMount(h)
    /\ InQ(h)' => InQ(h)
    /\ InBatch(h)' => InBatch(h)
    /\ InSvc(h)' => InSvc(h)
    /\ h \in joining' => h \in joining
NoPlace(h) ==
    /\ h \notin net' /\ h \notin joining'
    /\ ~InMount(h)' /\ ~InQ(h)' /\ ~InBatch(h)' /\ ~InSvc(h)'

LEMMA AnswerFacts ==
    ASSUME ReqTypeOK, NEW x \in Handles, NEW ok, Answer(x, ok)
    PROVE  /\ answers' \in [Handles -> Nat] /\ answers'[x] = answers[x] + 1 /\ okay' \subseteq Handles
           /\ \A h \in Handles : h # x => answers'[h] = answers[h]
           /\ \A h \in Handles : answers'[h] >= answers[h] /\ answers[h] \in Nat
           /\ okay' \subseteq okay \cup {x}
  BY DEF Answer, ReqTypeOK

\* A step that answers x and moves nothing else.
LEMMA AnswerOwn ==
    ASSUME OwnInv, ReqTypeOK', UNCHANGED at, NEW x \in Handles, NEW ok, Answer(x, ok), answers[x] = 0,
           x[2] <= at[x[1]], NoPlace(x), \A h \in Handles : NotMoved(h), mounting' \subseteq mounting,
           \A i, j \in 1 .. Len(svc') : svc'[i] = svc'[j] => i = j,
           \A c \in Clients : Listed(c, q[c])' /\ Listed(c, batch[c])',
           \A c \in Clients : ThreadOf(c)'
    PROVE  OwnInv'
<1>1. /\ answers' \in [Handles -> Nat] /\ answers'[x] = answers[x] + 1
      /\ \A h \in Handles : h # x => answers'[h] = answers[h]
      /\ okay' \subseteq okay \cup {x}
  BY AnswerFacts, Zenon DEF OwnInv
<1>2. ASSUME NEW h \in Handles PROVE OneOwner(h)'
  <2>0. h[1] \in Clients /\ h[2] \in Nat
    BY HandleParts
  <2>1. h[1] \in Clients /\ h[2] \in Nat /\ OneOwner(h) /\ at[h[1]] \in Nat
    BY <2>0, Parts, Zenon DEF ReqTypeOK
  <2>2. CASE h = x
    BY <1>1, <2>1, <2>2 DEF OneOwner, NoPlace
  <2>3. CASE h # x
    <3>1. NotMoved(h)
      BY Zenon
    <3> QED BY <1>1, <2>1, <2>3, <3>1, StaysOwned, SMTT(30) DEF NotMoved
  <2> QED BY <2>2, <2>3, Zenon
<1>3. \A h \in Handles : h \in okay' => answers'[h] > 0
  BY <1>1, SMTT(30) DEF OwnInv
<1> QED BY <1>2, <1>3, Zenon DEF OwnInv

\* A thread that goes on as it was, whatever is answered.
LEMMA ThreadSame ==
    ASSUME OwnInv, NEW c \in Clients, rm'[c].pc = rm[c].pc, batch'[c] = batch[c],
           \A h \in Handles : answers'[h] >= answers[h] /\ answers[h] \in Nat /\ answers'[h] \in Nat
    PROVE  ThreadOf(c)'
<1>1. <<c, 1>> \in Handles
  BY JobsAssumption DEF Handles
<1>2. ThreadOf(c)
  BY Zenon DEF OwnInv
<1>3. CASE rm[c].pc = "free"
  BY <1>1, <1>2, <1>3 DEF ThreadOf
<1>4. CASE rm[c].pc # "free"
  BY <1>1, <1>2, <1>4 DEF ThreadOf
<1> QED BY <1>3, <1>4, Zenon

\* A handler that answers the request, or queues it for the thread of the client.
LEMMA HandlerOwn == ASSUME OwnInv, NEW k, Handler(k) PROVE OwnInv'
<1> PICK x \in net :
        /\ net' = net \ {x}
        /\ \/ Answer(x, FALSE) /\ UNCHANGED q
           \/ rm_submit_client_rpc_request(x) /\ UNCHANGED <<answers, okay>>
  BY Zenon DEF Handler
<1>1. UNCHANGED <<job, app, cli, at, mounting, slot, rm, batch, svc, joining, failed, main>>
  BY Zenon DEF Handler, cliVars, appVars, mainVars, svcVars
<1>2. x \in Handles /\ x[1] \in Clients /\ x \in Listable
  BY HandleParts, Zenon DEF OwnInv, ReqTypeOK
<1> DEFINE c == x[1]
<1>3. q[c] \in Seq(Listable) /\ answers \in [Handles -> Nat] /\ at \in [Clients -> Nat]
  BY <1>2, Zenon DEF OwnInv, ReqTypeOK
<1>4. OneOwner(x) /\ answers[x] = 0 /\ ~InQ(x) /\ x[2] <= at[x[1]]
  BY <1>2, <1>3, SMTT(30) DEF OwnInv, OneOwner
<1>s. \A d \in Clients : Started' = Started /\ Calls(d)' = Calls(d)
  BY <1>1, Zenon DEF Started, Calls
<1>5. CASE Answer(x, FALSE) /\ UNCHANGED q
  <2>1. answers' \in [Handles -> Nat] /\ okay' = okay
    BY <1>2, <1>3, <1>5 DEF Answer
  <2>2. ReqTypeOK'
    BY <1>1, <1>5, <1>s, <2>1, Zenon DEF OwnInv, ReqTypeOK
  <2>3. ASSUME NEW h \in Handles PROVE NotMoved(h) /\ (InMount(h)' = InMount(h)) /\ (InQ(h)' = InQ(h))
                                       /\ (InBatch(h)' = InBatch(h)) /\ (InSvc(h)' = InSvc(h))
    <3>1. h[1] \in Clients
      BY HandleParts, Zenon
    <3> QED BY <1>1, <1>5, <3>1, SamePlaces, Zenon DEF NotMoved
  <2>4. NoPlace(x)
    BY <1>1, <1>2, <1>4, <2>3, Zenon DEF NoPlace, OneOwner
  <2>5. \A d \in Clients : Listed(d, q[d])' /\ Listed(d, batch[d])'
    BY <1>1, <1>5, Zenon DEF OwnInv, Listed
  <2>6. \A d \in Clients : ThreadOf(d)'
    BY <1>1, <1>2, <1>5, AnswerFacts, ThreadSame, Zenon DEF OwnInv
  <2>7. \A i, j \in 1 .. Len(svc') : svc'[i] = svc'[j] => i = j
    BY <1>1, Zenon DEF OwnInv
  <2> QED BY <1>1, <1>2, <1>4, <1>5, <2>2, <2>3, <2>4, <2>5, <2>6, <2>7, AnswerOwn, Zenon
<1>6. CASE rm_submit_client_rpc_request(x) /\ UNCHANGED <<answers, okay>>
  <2> DEFINE s == Append(q[c], x)
  <2>1. /\ s \in Seq(Listable) /\ Len(s) = Len(q[c]) + 1 /\ Len(q[c]) \in Nat
        /\ \A i \in 1 .. Len(q[c]) : s[i] = q[c][i]
        /\ s[Len(q[c]) + 1] = x
    BY <1>2, <1>3, AppendFacts
  <2>2. q' \in [Clients -> Seq(Listable)] /\ q'[c] = s /\ \A d \in Clients : d # c => q'[d] = q[d]
    BY <1>2, <1>6, <2>1, Zenon DEF OwnInv, ReqTypeOK, rm_submit_client_rpc_request
  <2> HIDE DEF s
  <2>3. ReqTypeOK'
    BY <1>1, <1>6, <1>s, <2>2, Zenon DEF OwnInv, ReqTypeOK
  <2>4. ASSUME NEW h \in Handles PROVE OneOwner(h)'
    <3>1. h[1] \in Clients /\ h[2] \in Nat /\ OneOwner(h) /\ at[h[1]] \in Nat
      BY <1>3, HandleParts DEF OwnInv
    <3>2. InMount(h)' = InMount(h) /\ InBatch(h)' = InBatch(h) /\ InSvc(h)' = InSvc(h)
      BY <1>1, <3>1, SamePlaces, Zenon
    <3>3. CASE h = x
      BY <1>1, <1>4, <1>6, <3>1, <3>2, <3>3, Zenon DEF OneOwner
    <3>4. CASE h # x
      <4>1. InQ(h)' => InQ(h)
        BY <2>1, <2>2, <3>1, <3>4, SMTT(30) DEF InQ
      <4> QED BY <1>1, <1>6, <3>1, <3>2, <3>4, <4>1, StaysOwned
    <3> QED BY <3>3, <3>4, Zenon
  <2>5. Listed(c, s)
    <3>1. Listed(c, q[c]) /\ \A i \in 1 .. Len(q[c]) : q[c][i] # x
      BY <1>2, <1>4, Zenon DEF OwnInv, InQ
    <3> QED BY <1>2, <1>3, <3>1, ListedAppend, Zenon DEF s
  <2>6. \A d \in Clients : Listed(d, q[d])' /\ Listed(d, batch[d])'
    <3>1. \A d \in Clients : Listed(d, q'[d]) /\ Listed(d, batch'[d])
      BY <1>1, <2>2, <2>5, Zenon DEF OwnInv
    <3> QED BY <3>1, Zenon DEF Listed
  <2>7. \A d \in Clients : ThreadOf(d)'
    BY <1>1, <1>6, Zenon DEF OwnInv, ThreadOf
  <2> QED BY <1>1, <1>6, <2>3, <2>4, <2>6, <2>7, Zenon DEF OwnInv
<1> QED BY <1>5, <1>6, Zenon

\* What the handle of a request on the server tells of its client.
LEMMA Called ==
    ASSUME OwnInv, NEW x \in Handles,
           x \in net \/ InMount(x) \/ InQ(x) \/ InBatch(x) \/ InSvc(x) \/ x \in joining \/ answers[x] > 0
    PROVE  /\ x[2] <= at[x[1]] /\ x[1] \in Started /\ x[2] \in 1 .. Len(Calls(x[1])) /\ x = <<x[1], x[2]>>
           /\ Kind(x) = "mount" <=> x[2] = 1
           /\ Kind(x) = "attach" <=> x[2] = 2
           /\ Kind(x) = "unmount" <=> x[2] = Len(Calls(x[1]))
<1>1. x[2] <= at[x[1]] /\ x[1] \in Clients /\ x[2] \in 1 .. MaxCalls + 3 /\ x = <<x[1], x[2]>>
  BY Parts, HandleParts, Zenon DEF OneOwner
<1>2. at[x[1]] \in Nat /\ at[x[1]] > 0 /\ job \in Jobs
  BY <1>1, Parts, JobsAssumption DEF ReqTypeOK
<1>3. x[1] \in Started /\ at[x[1]] <= Len(Calls(x[1]))
  BY <1>1, <1>2, Parts, Zenon DEF ReqTypeOK
<1>4. x[2] \in 1 .. Len(Calls(x[1]))
  BY <1>1, <1>2, <1>3, CallKinds
<1> QED BY <1>1, <1>2, <1>3, <1>4, CallKinds, Zenon

\* Mount: the request is answered, or passes the check of the number of clients.
LEMMA MountOwn == ASSUME OwnInv, unifyfs_mount_rpc PROVE OwnInv'
<1> PICK x \in net :
        /\ net' = net \ {x} /\ Kind(x) = "mount"
        /\ \/ Answer(x, FALSE) /\ UNCHANGED mounting
           \/ mounting' = mounting \cup {[h |-> x, creates |-> ~app]} /\ UNCHANGED <<answers, okay>>
  BY Zenon DEF unifyfs_mount_rpc
<1>1. UNCHANGED <<job, cli, at, slot, rm, q, batch, svc, joining, failed, main>> /\ app' \in BOOLEAN
  BY Parts, Zenon DEF unifyfs_mount_rpc, cliVars, rmVars, mainVars, svcVars, new_application, ReqTypeOK
<1>2. x \in Handles
  BY Zenon DEF OwnInv, ReqTypeOK
<1>3. x[2] <= at[x[1]] /\ x[2] = 1
  BY <1>2, Called, Zenon
<1>4. OneOwner(x) /\ answers[x] = 0
  BY <1>2, SMTT(30) DEF OwnInv, OneOwner, ReqTypeOK
<1>s. \A d \in Clients : Started' = Started /\ Calls(d)' = Calls(d)
  BY <1>1, Zenon DEF Started, Calls
<1>p. ASSUME NEW h \in Handles
      PROVE (InQ(h)' = InQ(h)) /\ (InBatch(h)' = InBatch(h)) /\ (InSvc(h)' = InSvc(h)) /\ h[1] \in Clients /\ h[2] \in Nat
  <2>1. h[1] \in Clients /\ h[2] \in Nat
    BY HandleParts
  <2> QED BY <1>1, <2>1, SamePlaces, Zenon
<1>q. /\ \A d \in Clients : Listed(d, q[d])' /\ Listed(d, batch[d])'
      /\ \A i, j \in 1 .. Len(svc') : svc'[i] = svc'[j] => i = j
  BY <1>1, Zenon DEF OwnInv, Listed
<1>5. CASE Answer(x, FALSE) /\ UNCHANGED mounting
  <2>1. answers' \in [Handles -> Nat] /\ okay' \subseteq Handles
    BY <1>2, <1>5, Parts, AnswerFacts, Zenon
  <2>2. ReqTypeOK'
    BY <1>1, <1>5, <1>s, <2>1, Zenon DEF OwnInv, ReqTypeOK
  <2>3. ASSUME NEW h \in Handles PROVE NotMoved(h) /\ (InMount(h)' = InMount(h))
    BY <1>1, <1>5, <1>p, SamePlaces, Zenon DEF NotMoved
  <2>4. NoPlace(x)
    BY <1>1, <1>2, <1>4, <1>p, <2>3, Zenon DEF NoPlace, OneOwner
  <2>6. \A d \in Clients : ThreadOf(d)'
    BY <1>1, <1>2, <1>5, <2>1, Parts, AnswerFacts, ThreadSame, Zenon
  <2> QED BY <1>1, <1>2, <1>3, <1>4, <1>5, <1>q, <2>2, <2>3, <2>4, <2>6, AnswerOwn, Zenon
<1>6. CASE mounting' = mounting \cup {[h |-> x, creates |-> ~app]} /\ UNCHANGED <<answers, okay>>
  <2> DEFINE y == [h |-> x, creates |-> ~app]
  <2>1. y \in [h : Handles, creates : BOOLEAN] /\ y.h = x /\ mounting' = mounting \cup {y}
    BY <1>2, <1>6, Zenon DEF OwnInv, ReqTypeOK
  <2> HIDE DEF y
  <2>2. ReqTypeOK'
    BY <1>1, <1>6, <1>s, <2>1, Zenon DEF OwnInv, ReqTypeOK
  <2>3. ~InMount(x)
    BY <1>2, <1>4, Zenon DEF OneOwner
  <2>4. ASSUME NEW h \in Handles PROVE OneOwner(h)'
    <3>1. OneOwner(h) /\ at[h[1]] \in Nat
      BY <1>p, Parts, Zenon DEF ReqTypeOK
    <3>3. CASE h = x
      BY <1>1, <1>4, <1>6, <1>p, <3>1, <3>3, Zenon DEF OneOwner
    <3>4. CASE h # x
      <4>1. InMount(h)' => InMount(h)
        BY <2>1, <3>4, Zenon DEF InMount
      <4> QED BY <1>1, <1>6, <1>p, <3>1, <3>4, <4>1, StaysOwned, SMTT(30)
    <3> QED BY <3>3, <3>4, Zenon
  <2>5. /\ \A m, n \in mounting' : m.h = n.h => m = n
        /\ \A m \in mounting' : m.h[2] = 1
    BY <1>3, <2>1, <2>3, Zenon DEF OwnInv, InMount
  <2>6. \A d \in Clients : ThreadOf(d)'
    BY <1>1, <1>6, Zenon DEF OwnInv, ThreadOf
  <2> QED BY <1>1, <1>6, <1>q, <2>2, <2>4, <2>5, <2>6, Zenon DEF OwnInv
<1> QED BY <1>5, <1>6, Zenon

\* The second part of a mount, which always answers.
LEMMA NewClientOwn == ASSUME OwnInv, new_app_client PROVE OwnInv'
<1> PICK y \in mounting : LET c == y.h[1] IN
        /\ mounting' = mounting \ {y}
        /\ \/ Answer(y.h, FALSE) /\ UNCHANGED <<slot, rm, q>>
           \/ /\ Answer(y.h, TRUE) /\ slot' = [slot EXCEPT ![c] = "new"]
              /\ rm' = [rm EXCEPT ![c] = unifyfs_rm_thrd_create]
              /\ q' = [q EXCEPT ![c] = IF y.creates THEN create_mountpoint_dir(c) ELSE <<>>]
  BY Zenon DEF new_app_client
<1> PICK x, c : x = y.h /\ c = x[1]
  BY Zenon
<1>1. UNCHANGED <<job, app, cli, at, net, batch, svc, joining, failed, main>>
  BY Zenon DEF new_app_client, cliVars, mainVars, svcVars
<1>2. x \in Handles /\ x[2] = 1 /\ c \in Clients /\ x = <<c, 1>>
  BY HandleParts DEF OwnInv, ReqTypeOK
<1>3. InMount(x)
  BY Zenon DEF InMount
<1>4. OneOwner(x) /\ answers[x] = 0 /\ x[2] <= at[c]
  BY <1>2, <1>3 DEF OwnInv, OneOwner, ReqTypeOK
<1>s. \A d \in Clients : Started' = Started /\ Calls(d)' = Calls(d)
  BY <1>1, Zenon DEF Started, Calls
<1>5. PICK ok : Answer(x, ok)
  BY Zenon
<1>6. \A n \in mounting' : n \in mounting /\ n.h # x
  BY Zenon DEF OwnInv
<1>7. rm[c].pc = "none" /\ batch[c] = <<>>
  BY <1>2, <1>4, SMTT(30) DEF OwnInv, ThreadOf
<1>8. /\ \/ UNCHANGED <<slot, rm, q>>
         \/ /\ slot' = [slot EXCEPT ![c] = "new"]
            /\ rm' = [rm EXCEPT ![c] = unifyfs_rm_thrd_create]
            /\ q' = [q EXCEPT ![c] = IF y.creates THEN create_mountpoint_dir(c) ELSE <<>>]
  BY Zenon
<1>9. /\ slot' \in [Clients -> {"none", "new", "live", "down", "gone"}]
      /\ rm' \in [Clients -> [pc : ThreadPcs, attached : BOOLEAN, exit : BOOLEAN]]
      /\ \A d \in Clients : d # c => rm'[d] = rm[d]
      /\ rm'[c].pc \in {"none", "cb"}
  <2>1. unifyfs_rm_thrd_create \in [pc : ThreadPcs, attached : BOOLEAN, exit : BOOLEAN]
        /\ unifyfs_rm_thrd_create.pc = "cb"
    BY Zenon DEF unifyfs_rm_thrd_create, ThreadPcs
  <2>2. /\ slot \in [Clients -> {"none", "new", "live", "down", "gone"}]
        /\ rm \in [Clients -> [pc : ThreadPcs, attached : BOOLEAN, exit : BOOLEAN]]
    BY Zenon DEF OwnInv, ReqTypeOK
  <2> QED BY <1>2, <1>7, <1>8, <2>1, <2>2
<1>10. /\ q' \in [Clients -> Seq(Listable)]
       /\ \A d \in Clients : d # c => q'[d] = q[d]
       /\ Listed(c, q'[c])
       /\ q'[c] = q[c] \/ \A i \in 1 .. Len(q'[c]) : q'[c][i] = <<c, 0>>
  <2> DEFINE s == IF y.creates THEN create_mountpoint_dir(c) ELSE <<>>
  <2>1. s \in Seq(Listable) /\ Listed(c, s) /\ \A i \in 1 .. Len(s) : s[i] = <<c, 0>>
    <3>1. <<c, 0>> \in Listable
      BY <1>2, JobsAssumption DEF Listable
    <3>2. s = <<>> \/ s = <<<<c, 0>>>>
      BY Zenon DEF create_mountpoint_dir
    <3> HIDE DEF s
    <3> PICK z \in Listable : z = <<c, 0>> /\ z[1] = c
      BY <3>1, Zenon
    <3>3. s \in Seq(Listable) /\ (Len(s) = 0 \/ (Len(s) = 1 /\ s[1] = z))
      <4>1. CASE s = <<>>
        BY <4>1
      <4>2. CASE s = <<z>>
        BY <4>2
      <4> QED BY <3>2, <4>1, <4>2, Zenon
    <3> QED BY <3>3 DEF Listed
  <2> HIDE DEF s
  <2>2. q \in [Clients -> Seq(Listable)] /\ Listed(c, q[c])
    BY <1>2, Zenon DEF OwnInv, ReqTypeOK
  <2>3. q' = q \/ q' = [q EXCEPT ![c] = s]
    BY <1>8, Zenon DEF s
  <2> QED BY <1>2, <2>1, <2>2, <2>3
<1>11. ReqTypeOK'
  <2>1. answers' \in [Handles -> Nat] /\ okay' \subseteq Handles
    BY <1>2, <1>5, Parts, AnswerFacts, Zenon
  <2> QED BY <1>1, <1>6, <1>9, <1>10, <1>s, <2>1, Zenon DEF OwnInv, ReqTypeOK
<1>12. ASSUME NEW h \in Handles
       PROVE  /\ NotMoved(h) /\ (h = x => ~InMount(h)')
              /\ InBatch(h)' = InBatch(h) /\ InSvc(h)' = InSvc(h) /\ (InQ(h)' => InQ(h))
  <2>1. h[1] \in Clients /\ h[2] \in Nat /\ h[2] # 0 /\ h = <<h[1], h[2]>>
    BY HandleParts
  <2>2. InBatch(h)' = InBatch(h) /\ InSvc(h)' = InSvc(h)
    BY <1>1, <1>7, <1>9, <2>1, SamePlaces
  <2>3. InQ(h)' => InQ(h)
    <3>1. CASE q'[h[1]] = q[h[1]]
      BY <3>1, SamePlaces, Zenon
    <3>2. CASE q'[h[1]] # q[h[1]]
      <4>1. h[1] = c
        BY <1>10, <2>1, <3>2, Zenon
      <4>2. \A i \in 1 .. Len(q'[c]) : q'[c][i] # h
        BY <1>10, <2>1, <3>2, <4>1
      <4> QED BY <4>1, <4>2, Zenon DEF InQ
    <3> QED BY <3>1, <3>2, Zenon
  <2>4. (InMount(h)' => InMount(h)) /\ (h = x => ~InMount(h)')
    BY <1>6, Zenon DEF InMount
  <2> QED BY <1>1, <2>2, <2>3, <2>4, Zenon DEF NotMoved
<1>13. NoPlace(x)
  BY <1>1, <1>2, <1>3, <1>4, <1>12, Zenon DEF NoPlace, OneOwner
<1>14. \A d \in Clients : Listed(d, q[d])' /\ Listed(d, batch[d])'
  <2>1. \A d \in Clients : Listed(d, q'[d]) /\ Listed(d, batch'[d])
    BY <1>1, <1>2, <1>10, Zenon DEF OwnInv
  <2> QED BY <2>1, Zenon DEF Listed
<1>15. \A d \in Clients : ThreadOf(d)'
  <2>0. /\ \A h \in Handles : answers'[h] >= answers[h] /\ answers[h] \in Nat /\ answers'[h] \in Nat
        /\ answers'[x] > 0
    <3>1. /\ answers' \in [Handles -> Nat] /\ answers'[x] = answers[x] + 1
          /\ \A h \in Handles : answers'[h] >= answers[h] /\ answers[h] \in Nat
      BY <1>2, <1>5, Parts, AnswerFacts, Zenon
    <3> QED BY <1>2, <3>1
  <2>1. ASSUME NEW d \in Clients, d # c PROVE ThreadOf(d)'
    BY <1>1, <1>9, <2>0, <2>1, ThreadSame, Zenon
  <2>2. ThreadOf(c)'
    BY <1>1, <1>2, <1>7, <1>9, <2>0, Zenon DEF ThreadOf
  <2> QED BY <2>1, <2>2, Zenon
<1>16. \A i, j \in 1 .. Len(svc') : svc'[i] = svc'[j] => i = j
  BY <1>1, Zenon DEF OwnInv
<1> QED BY <1>1, <1>2, <1>4, <1>5, <1>11, <1>12, <1>13, <1>14, <1>15, <1>16, AnswerOwn, Zenon

\* A thread is told to exit.
LEMMA ExitFacts ==
    ASSUME NEW c \in Clients, rm' = [rm EXCEPT ![c].exit = TRUE],
           rm \in [Clients -> [pc : ThreadPcs, attached : BOOLEAN, exit : BOOLEAN]]
    PROVE  /\ rm' \in [Clients -> [pc : ThreadPcs, attached : BOOLEAN, exit : BOOLEAN]]
           /\ \A d \in Clients : rm'[d].pc = rm[d].pc /\ rm'[d].attached = rm[d].attached
           /\ \A d \in Clients : d # c => rm'[d] = rm[d]
<1>1. rm' \in [Clients -> [pc : ThreadPcs, attached : BOOLEAN, exit : BOOLEAN]]
  BY Zenon
<1>2. \A d \in Clients : rm'[d].pc = rm[d].pc /\ rm'[d].attached = rm[d].attached
  BY Zenon
<1>3. \A d \in Clients : d # c => rm'[d] = rm[d]
  BY Zenon
<1> QED BY <1>1, <1>2, <1>3, Zenon

\* Unmount: the request is answered, or waits for the thread of its client.
LEMMA UnmountOwn == ASSUME OwnInv, unifyfs_unmount_rpc PROVE OwnInv'
<1> PICK x \in net : LET c == x[1] IN
        /\ net' = net \ {x}
        /\ \/ Answer(x, FALSE) /\ UNCHANGED <<slot, rm, joining>>
           \/ Answer(x, TRUE) /\ UNCHANGED <<slot, rm, joining>>
           \/ /\ slot' = [slot EXCEPT ![c] = "down"] /\ rm' = [rm EXCEPT ![c].exit = TRUE]
              /\ joining' = joining \cup {x} /\ UNCHANGED <<answers, okay>>
  BY Zenon DEF unifyfs_unmount_rpc
<1>1. UNCHANGED <<job, app, cli, at, mounting, q, batch, svc, failed, main>>
  BY Zenon DEF unifyfs_unmount_rpc, cliVars, svcVars
<1>2. x \in Handles /\ x[1] \in Clients
  BY HandleParts, Zenon DEF OwnInv, ReqTypeOK
<1>3. x[2] <= at[x[1]]
  BY <1>2, Called, Zenon
<1>4. OneOwner(x) /\ answers[x] = 0
  BY <1>2 DEF OwnInv, OneOwner, ReqTypeOK
<1>5. /\ slot' \in [Clients -> {"none", "new", "live", "down", "gone"}]
      /\ rm' \in [Clients -> [pc : ThreadPcs, attached : BOOLEAN, exit : BOOLEAN]]
      /\ \A d \in Clients : rm'[d].pc = rm[d].pc
  <2>1. /\ slot \in [Clients -> {"none", "new", "live", "down", "gone"}]
        /\ rm \in [Clients -> [pc : ThreadPcs, attached : BOOLEAN, exit : BOOLEAN]]
    BY Zenon DEF OwnInv, ReqTypeOK
  <2> PICK c \in Clients : c = x[1]
    BY <1>2, Zenon
  <2>2. \/ UNCHANGED <<slot, rm>>
        \/ slot' = [slot EXCEPT ![c] = "down"] /\ rm' = [rm EXCEPT ![c].exit = TRUE]
    BY Zenon
  <2>3. CASE UNCHANGED <<slot, rm>>
    BY <2>1, <2>3, Zenon
  <2>4. CASE slot' = [slot EXCEPT ![c] = "down"] /\ rm' = [rm EXCEPT ![c].exit = TRUE]
    BY <2>1, <2>4, ExitFacts, Zenon
  <2> QED BY <2>2, <2>3, <2>4, Zenon
<1>s. \A d \in Clients : Started' = Started /\ Calls(d)' = Calls(d)
  BY <1>1, Zenon DEF Started, Calls
<1>p. ASSUME NEW h \in Handles
      PROVE /\ InMount(h)' = InMount(h) /\ InQ(h)' = InQ(h) /\ InBatch(h)' = InBatch(h) /\ InSvc(h)' = InSvc(h)
            /\ h[1] \in Clients /\ h[2] \in Nat
  <2>1. h[1] \in Clients /\ h[2] \in Nat
    BY HandleParts
  <2> QED BY <1>1, <1>5, <2>1, SamePlaces, Zenon
<1>q. /\ \A d \in Clients : Listed(d, q[d])' /\ Listed(d, batch[d])'
      /\ \A i, j \in 1 .. Len(svc') : svc'[i] = svc'[j] => i = j
  BY <1>1, Zenon DEF OwnInv, Listed
<1>6. ASSUME NEW ok, Answer(x, ok), UNCHANGED joining PROVE OwnInv'
  <2>1. answers' \in [Handles -> Nat] /\ okay' \subseteq Handles
    BY <1>2, <1>6, Parts, AnswerFacts, Zenon
  <2>2. ReqTypeOK'
    BY <1>1, <1>5, <1>6, <1>s, <2>1, Zenon DEF OwnInv, ReqTypeOK
  <2>3. ASSUME NEW h \in Handles PROVE NotMoved(h)
    BY <1>6, <1>p, Zenon DEF NotMoved
  <2>4. NoPlace(x)
    BY <1>2, <1>4, <1>6, <1>p, Zenon DEF NoPlace, OneOwner
  <2>6. \A d \in Clients : ThreadOf(d)'
    BY <1>1, <1>2, <1>5, <1>6, <2>1, Parts, AnswerFacts, ThreadSame, Zenon
  <2> QED BY <1>1, <1>2, <1>3, <1>4, <1>6, <1>q, <2>2, <2>3, <2>4, <2>6, AnswerOwn, Zenon
<1>7. CASE joining' = joining \cup {x} /\ UNCHANGED <<answers, okay>>
  <2>2. ReqTypeOK'
    BY <1>1, <1>2, <1>5, <1>7, <1>s, Zenon DEF OwnInv, ReqTypeOK
  <2>4. ASSUME NEW h \in Handles PROVE OneOwner(h)'
    <3>1. OneOwner(h) /\ at[h[1]] \in Nat
      BY <1>p, Parts, Zenon DEF ReqTypeOK
    <3>3. CASE h = x
      BY <1>1, <1>4, <1>7, <1>p, <3>1, <3>3, Zenon DEF OneOwner
    <3>4. CASE h # x
      BY <1>1, <1>7, <1>p, <3>1, <3>4, StaysOwned
    <3> QED BY <3>3, <3>4, Zenon
  <2>6. \A d \in Clients : ThreadOf(d)'
    BY <1>1, <1>5, <1>7, ZenonT(30) DEF OwnInv, ThreadOf
  <2> QED BY <1>1, <1>7, <1>q, <2>2, <2>4, <2>6, Zenon DEF OwnInv
<1> QED BY <1>6, <1>7, Zenon

\* The end of an unmount that has waited.
LEMMA DisconnectOwn == ASSUME OwnInv, disconnect_app_client PROVE OwnInv'
<1> PICK x \in joining : joining' = joining \ {x} /\ Answer(x, TRUE)
  BY Zenon DEF disconnect_app_client
<1>1. UNCHANGED <<job, app, cli, at, net, mounting, slot, rm, q, batch, svc, failed, main>>
  BY Zenon DEF disconnect_app_client, cliVars, appVars, rmVars, svcVars
<1>2. x \in Handles /\ x[1] \in Clients
  BY HandleParts, Zenon DEF OwnInv, ReqTypeOK
<1>3. x[2] <= at[x[1]]
  BY <1>2, Called, Zenon
<1>4. OneOwner(x) /\ answers[x] = 0
  BY <1>2 DEF OwnInv, OneOwner, ReqTypeOK
<1>5. answers' \in [Handles -> Nat] /\ okay' \subseteq Handles
  BY <1>2, Parts, AnswerFacts, Zenon
<1>s. \A d \in Clients : Started' = Started /\ Calls(d)' = Calls(d)
  BY <1>1, Zenon DEF Started, Calls
<1>6. ReqTypeOK'
  BY <1>1, <1>5, <1>s, Zenon DEF OwnInv, ReqTypeOK
<1>7. ASSUME NEW h \in Handles
      PROVE  /\ NotMoved(h)
             /\ InMount(h)' = InMount(h) /\ InQ(h)' = InQ(h) /\ InBatch(h)' = InBatch(h) /\ InSvc(h)' = InSvc(h)
  <2>1. h[1] \in Clients
    BY HandleParts, Zenon
  <2> QED BY <1>1, <2>1, SamePlaces, Zenon DEF NotMoved
<1>8. NoPlace(x)
  BY <1>1, <1>2, <1>4, <1>7, Zenon DEF NoPlace, OneOwner
<1>9. \A d \in Clients : ThreadOf(d)'
  BY <1>1, <1>2, <1>5, Parts, AnswerFacts, ThreadSame, Zenon
<1>10. /\ \A d \in Clients : Listed(d, q[d])' /\ Listed(d, batch[d])'
       /\ \A i, j \in 1 .. Len(svc') : svc'[i] = svc'[j] => i = j
  BY <1>1, Zenon DEF OwnInv, Listed
<1> QED BY <1>1, <1>2, <1>3, <1>4, <1>6, <1>7, <1>8, <1>9, <1>10, AnswerOwn, Zenon

\* The thread takes all requests of the list.
LEMMA TakeOwn == ASSUME OwnInv, NEW c \in Clients, rm_process_client_requests(c) PROVE OwnInv'
<1>1. UNCHANGED <<job, app, cli, at, net, answers, okay, mounting, slot, svc, joining, failed, main>>
  BY Zenon DEF rm_process_client_requests, cliVars, netVars, appVars, mainVars, svcVars
<1>2. /\ q \in [Clients -> Seq(Listable)] /\ batch \in [Clients -> Seq(Listable)]
      /\ rm \in [Clients -> [pc : ThreadPcs, attached : BOOLEAN, exit : BOOLEAN]]
      /\ at \in [Clients -> Nat]
  BY Zenon DEF OwnInv, ReqTypeOK
<1>3. rm[c].pc = "req" /\ batch[c] = <<>>
  BY Zenon DEF rm_process_client_requests, Runs, OwnInv, ThreadOf
<1>4. /\ q' \in [Clients -> Seq(Listable)] /\ batch' \in [Clients -> Seq(Listable)]
      /\ q'[c] = <<>> /\ batch'[c] = q[c]
      /\ \A d \in Clients : d # c => q'[d] = q[d] /\ batch'[d] = batch[d]
  BY <1>2 DEF rm_process_client_requests
<1>5. /\ rm' \in [Clients -> [pc : ThreadPcs, attached : BOOLEAN, exit : BOOLEAN]]
      /\ \A d \in Clients : d # c => rm'[d] = rm[d]
      /\ rm'[c].pc = IF q[c] = <<>> THEN "beat" ELSE "work"
  <2> PICK pc \in {"beat", "work"} : pc = IF q[c] = <<>> THEN "beat" ELSE "work"
    BY Zenon
  <2>1. rm' = [rm EXCEPT ![c].pc = pc]
    BY Zenon DEF rm_process_client_requests, Goto
  <2> QED BY <1>2, <2>1, Zenon DEF ThreadPcs
<1>s. \A d \in Clients : Started' = Started /\ Calls(d)' = Calls(d)
  BY <1>1, Zenon DEF Started, Calls
<1>6. ReqTypeOK'
  BY <1>1, <1>4, <1>5, <1>s, Zenon DEF OwnInv, ReqTypeOK
<1>7. ASSUME NEW h \in Handles PROVE OneOwner(h)'
  <2>1. h[1] \in Clients /\ h[2] \in Nat /\ OneOwner(h) /\ at[h[1]] \in Nat
    BY <1>2, HandleParts, Parts
  <2>2. InMount(h)' = InMount(h) /\ InSvc(h)' = InSvc(h)
    BY <1>1, SamePlaces, Zenon
  <2>3. CASE h[1] # c
    <3>1. InQ(h)' = InQ(h) /\ InBatch(h)' = InBatch(h)
      BY <1>4, <1>5, <2>1, <2>3, SamePlaces, Zenon
    <3> QED BY <1>1, <2>1, <2>2, <3>1, StaysOwned, SMTT(30)
  <2>4. CASE h[1] = c
    <3>1. ~InQ(h)'
      BY <1>4, <2>4 DEF InQ
    <3>2. InBatch(h)' => InQ(h)
      BY <1>4, <2>4, Zenon DEF InBatch, InQ
    <3> QED BY <1>1, <2>1, <2>2, <3>1, <3>2, Zenon DEF OneOwner
  <2> QED BY <2>3, <2>4, Zenon
<1>8. \A d \in Clients : Listed(d, q[d])' /\ Listed(d, batch[d])'
  <2>1. Listed(c, <<>>)
    BY DEF Listed
  <2>2. \A d \in Clients : Listed(d, q'[d]) /\ Listed(d, batch'[d])
    BY <1>4, <2>1, Zenon DEF OwnInv
  <2> QED BY <2>2, Zenon DEF Listed
<1>9. \A d \in Clients : ThreadOf(d)'
  BY <1>1, <1>3, <1>4, <1>5, ZenonT(30) DEF OwnInv, ThreadOf
<1> QED BY <1>1, <1>6, <1>7, <1>8, <1>9, Zenon DEF OwnInv

\* The thread is done with the first request in hand.
LEMMA DoneFacts ==
    ASSUME OwnInv, NEW c \in Clients, rm[c].pc \in {"work", "owner", "free"}, Done(c)
    PROVE  /\ batch' \in [Clients -> Seq(Listable)]
           /\ rm' \in [Clients -> [pc : ThreadPcs, attached : BOOLEAN, exit : BOOLEAN]]
           /\ \A d \in Clients : d # c => rm'[d] = rm[d] /\ batch'[d] = batch[d]
           /\ rm'[c].pc \in {"beat", "work"} /\ (rm'[c].pc = "work" <=> batch'[c] # <<>>)
           /\ \A d \in Clients : rm'[d].exit = rm[d].exit /\ rm'[d].attached = rm[d].attached
           /\ \A d \in Clients : Listed(d, batch'[d])
           /\ batch'[c] = Tail(batch[c])
<1>1. /\ batch \in [Clients -> Seq(Listable)] /\ batch[c] # <<>>
      /\ rm \in [Clients -> [pc : ThreadPcs, attached : BOOLEAN, exit : BOOLEAN]]
      /\ \A d \in Clients : Listed(d, batch[d])
  BY Zenon DEF OwnInv, ReqTypeOK, ThreadOf
<1> PICK t, pc : t = Tail(batch[c]) /\ pc = IF Len(batch[c]) = 1 THEN "beat" ELSE "work"
  BY Zenon
<1>2. t \in Seq(Listable) /\ Listed(c, t) /\ (Len(batch[c]) = 1 <=> t = <<>>)
  BY <1>1, TailFacts, ListedTail, Zenon
<1>3. batch' = [batch EXCEPT ![c] = t] /\ rm' = [rm EXCEPT ![c].pc = pc]
  BY Zenon DEF Done, Goto
<1>4. pc \in ThreadPcs /\ pc \in {"beat", "work"} /\ (pc = "work" <=> t # <<>>)
  BY <1>2, Zenon DEF ThreadPcs
<1> QED BY <1>1, <1>2, <1>3, <1>4, Zenon

\* Where the handles in hand are after that.
LEMMA DoneMoves ==
    ASSUME OwnInv, NEW c \in Clients, rm[c].pc \in {"work", "owner", "free"}, Done(c), NEW h \in Handles
    PROVE  /\ InBatch(h)' => InBatch(h)
           /\ ~(InBatch(h)' /\ h = Hdl(c))
<1>1. h[1] \in Clients
  BY HandleParts, Zenon
<1>2. /\ \A d \in Clients : d # c => rm'[d] = rm[d] /\ batch'[d] = batch[d]
      /\ rm'[c].pc \in {"beat", "work"} /\ batch'[c] = Tail(batch[c])
  BY DoneFacts, Zenon
<1>3. batch[c] \in Seq(Listable) /\ batch[c] # <<>> /\ Listed(c, batch[c])
  BY Zenon DEF OwnInv, ReqTypeOK, ThreadOf
<1>4. CASE h[1] # c
  <2>1. InBatch(h)' => InBatch(h)
    BY <1>1, <1>2, <1>4, Zenon DEF InBatch, Runs
  <2>2. Hdl(c)[1] = c
    BY <1>3, TailFacts, SMTT(30) DEF Listed, Hdl
  <2> QED BY <1>4, <2>1, <2>2, Zenon
<1>5. CASE h[1] = c
  <2> PICK s, t : s = batch[c] /\ t = Tail(s)
    BY Zenon
  <2>1. /\ \A i \in 1 .. Len(t) : t[i] = s[i + 1] /\ i + 1 \in 1 .. Len(s) /\ i + 1 # 1
        /\ \A i \in 1 .. Len(t) : t[i] # s[1]
    <3>1. s \in Seq(Listable) /\ s # <<>> /\ Listed(c, s)
      BY <1>3, Zenon
    <3>2. \A i \in 1 .. Len(t) : t[i] # s[1]
      BY <3>1, ListedTail, Zenon
    <3>3. /\ t \in Seq(Listable) /\ Len(t) \in Nat
          /\ \A i \in 1 .. Len(t) : t[i] = s[i + 1] /\ i + 1 \in 1 .. Len(s)
      BY <3>1, TailFacts, LenProperties, Zenon
    <3> QED BY <3>2, <3>3, Zenon
  <2>2. InBatch(h)' => \E i \in 1 .. Len(t) : t[i] = h
    BY <1>2, <1>5, Zenon DEF InBatch
  <2>3. (\E i \in 1 .. Len(s) : i # 1 /\ s[i] = h) => InBatch(h)
    BY <1>5, Zenon DEF InBatch
  <2> QED BY <2>1, <2>2, <2>3, Zenon DEF Hdl
<1> QED BY <1>4, <1>5, Zenon

\* The request in hand, as long as it is not answered.
LEMMA HdlFacts ==
    ASSUME OwnInv, NEW c \in Clients, rm[c].pc \in {"work", "owner"}
    PROVE  /\ Hdl(c) \in Listable /\ Hdl(c)[1] = c
           /\ Hdl(c)[2] # 0 => /\ Hdl(c) \in Handles /\ InBatch(Hdl(c)) /\ answers[Hdl(c)] = 0
                               /\ OneOwner(Hdl(c)) /\ Hdl(c)[2] <= at[c]
<1>1. batch[c] \in Seq(Listable) /\ batch[c] # <<>> /\ Listed(c, batch[c])
  BY Zenon DEF OwnInv, ReqTypeOK, ThreadOf
<1> PICK x : x = Hdl(c)
  BY Zenon
<1>2. x \in Listable /\ x[1] = c /\ 1 \in 1 .. Len(batch[c]) /\ batch[c][1] = x
  BY <1>1, TailFacts, SMTT(30) DEF Listed, Hdl
<1>3. ASSUME x[2] # 0 PROVE x \in Handles /\ InBatch(x)
  <2>1. x \in Handles
    BY <1>2, <1>3 DEF Listable, Handles
  <2> QED BY <1>2, <2>1, Zenon DEF InBatch, Runs
<1>4. ASSUME x \in Handles, InBatch(x) PROVE answers[x] = 0 /\ OneOwner(x) /\ x[2] <= at[c]
  BY <1>2, <1>4, SMTT(30) DEF OwnInv, OneOwner, ReqTypeOK
<1> QED BY <1>2, <1>3, <1>4, Zenon

\* A step that is done with a request and answers nothing.
LEMMA DoneOwn ==
    ASSUME OwnInv, NEW c \in Clients, rm[c].pc \in {"work", "owner", "free"}, Done(c),
           UNCHANGED <<job, app, cli, at, net, answers, okay, mounting, slot, q, svc, joining, failed, main>>
    PROVE  OwnInv'
<1>1. /\ batch' \in [Clients -> Seq(Listable)]
      /\ rm' \in [Clients -> [pc : ThreadPcs, attached : BOOLEAN, exit : BOOLEAN]]
      /\ \A d \in Clients : d # c => rm'[d] = rm[d] /\ batch'[d] = batch[d]
      /\ rm'[c].pc \in {"beat", "work"} /\ (rm'[c].pc = "work" <=> batch'[c] # <<>>)
      /\ \A d \in Clients : Listed(d, batch'[d])
  BY DoneFacts, Zenon
<1>s. \A d \in Clients : Started' = Started /\ Calls(d)' = Calls(d)
  BY Zenon DEF Started, Calls
<1>2. ReqTypeOK'
  BY <1>1, <1>s, Parts, Zenon DEF ReqTypeOK
<1>3. ASSUME NEW h \in Handles PROVE OneOwner(h)'
  <2>1. h[1] \in Clients /\ h[2] \in Nat
    BY HandleParts, SMTT(30)
  <2>2. InMount(h)' = InMount(h) /\ InQ(h)' = InQ(h) /\ InSvc(h)' = InSvc(h)
    BY SamePlaces, Zenon
  <2>3. InBatch(h)' => InBatch(h)
    BY DoneMoves, Zenon
  <2>4. OneOwner(h) /\ at[h[1]] \in Nat
    BY <2>1, Parts, Zenon DEF ReqTypeOK
  <2>5. (h \in net' => h \in net) /\ (h \in joining' => h \in joining) /\ answers'[h] = answers[h]
    BY Zenon
  <2>6. at'[h[1]] \in Nat /\ at[h[1]] <= at'[h[1]]
    BY <2>4
  <2> QED BY <2>1, <2>2, <2>3, <2>4, <2>5, <2>6, StaysOwned, Zenon
<1>4. \A d \in Clients : Listed(d, q[d])' /\ Listed(d, batch[d])'
  <2>1. \A d \in Clients : Listed(d, q'[d])
    BY Parts, Zenon
  <2> QED BY <1>1, <2>1, Zenon DEF Listed
<1>5. \A d \in Clients : ThreadOf(d)'
  BY <1>1, Parts, ZenonT(30) DEF ThreadOf
<1> QED BY <1>2, <1>3, <1>4, <1>5, Zenon DEF OwnInv

\* A step that is done with a request and answers it.
LEMMA DoneAnswerOwn ==
    ASSUME OwnInv, NEW c \in Clients, rm[c].pc \in {"work", "owner"}, Hdl(c)[2] # 0,
           NEW ok, Answer(Hdl(c), ok),
           UNCHANGED <<at, net, mounting, q, svc, joining>>,
           ReqTypeOK',
           \A h \in Handles : (InBatch(h)' => InBatch(h)) /\ ~(InBatch(h)' /\ h = Hdl(c)),
           \A d \in Clients : Listed(d, batch'[d]),
           \A d \in Clients : d # c => rm'[d] = rm[d] /\ batch'[d] = batch[d],
           rm'[c].pc \in {"beat", "work", "free"}, rm'[c].pc # "beat" <=> batch'[c] # <<>>,
           rm'[c].pc = "free" => batch'[c][1] = Hdl(c)
    PROVE  OwnInv'
<1> PICK x : x = Hdl(c)
  BY Zenon
<1>1. x \in Handles /\ x[1] = c /\ InBatch(x) /\ answers[x] = 0 /\ OneOwner(x) /\ x[2] <= at[c]
  BY HdlFacts, Zenon
<1>2. /\ answers' \in [Handles -> Nat] /\ answers'[x] = answers[x] + 1
      /\ \A h \in Handles : answers'[h] >= answers[h] /\ answers[h] \in Nat
  BY <1>1, Parts, AnswerFacts, Zenon
<1>3. ASSUME NEW h \in Handles
      PROVE NotMoved(h) /\ (InMount(h)' = InMount(h)) /\ (InQ(h)' = InQ(h)) /\ (InSvc(h)' = InSvc(h))
  <2>1. InMount(h)' = InMount(h) /\ InQ(h)' = InQ(h) /\ InSvc(h)' = InSvc(h)
    BY SamePlaces, Zenon
  <2> QED BY <2>1, Zenon DEF NotMoved
<1>4. NoPlace(x)
  BY <1>1, <1>3, Zenon DEF NoPlace, OneOwner
<1>5. \A d \in Clients : Listed(d, q[d])' /\ Listed(d, batch[d])'
  <2>1. \A d \in Clients : Listed(d, q'[d])
    BY Parts, Zenon
  <2> QED BY <2>1, Zenon DEF Listed
<1>6. ASSUME NEW d \in Clients PROVE ThreadOf(d)'
  <2>1. CASE d # c
    BY <1>2, <2>1, ThreadSame, Zenon
  <2>2. CASE d = c
    <3>1. answers'[x] > 0
      BY <1>1, <1>2, SMTT(30)
    <3>2. <<c, 1>> \in Handles
      BY JobsAssumption, SMTT(30) DEF Handles
    <3>3. answers[<<c, 1>>] > 0
      BY Parts, Zenon DEF ThreadOf
    <3>4. answers'[<<c, 1>>] > 0
      BY <1>2, <3>2, <3>3, SMTT(30)
    <3> QED BY <1>1, <2>2, <3>1, <3>4, Zenon DEF ThreadOf
  <2> QED BY <2>1, <2>2, Zenon
<1>7. \A i, j \in 1 .. Len(svc') : svc'[i] = svc'[j] => i = j
  BY Zenon DEF OwnInv
<1>8. mounting' \subseteq mounting
  BY Zenon
<1> QED BY <1>1, <1>3, <1>4, <1>5, <1>6, <1>7, <1>8, AnswerOwn, Zenon

\* The work on a request is over.
LEMMA FinishOwn ==
    ASSUME OwnInv, NEW c \in Clients, rm[c].pc \in {"work", "owner"}, NEW ok \in BOOLEAN, Finish(c, ok),
           UNCHANGED <<job, app, cli, at, net, mounting, slot, q, svc, joining, failed, main>>
    PROVE  OwnInv'
<1> PICK x : x = Hdl(c)
  BY Zenon
<1> DEFINE Pulled == ok /\ x[2] # 0 /\ Kind(x) \in {"node_local_extents_get", "get_gfids"}
<1>1. CASE UNCHANGED <<answers, okay>> /\ Done(c)
  BY <1>1, DoneOwn, Zenon
<1>s. \A d \in Clients : Started' = Started /\ Calls(d)' = Calls(d)
  BY Zenon DEF Started, Calls
<1>2. CASE x[2] # 0 /\ Answer(x, ok) /\ Done(c)
  <2>1. /\ batch' \in [Clients -> Seq(Listable)]
        /\ rm' \in [Clients -> [pc : ThreadPcs, attached : BOOLEAN, exit : BOOLEAN]]
        /\ \A d \in Clients : d # c => rm'[d] = rm[d] /\ batch'[d] = batch[d]
        /\ rm'[c].pc \in {"beat", "work"} /\ (rm'[c].pc = "work" <=> batch'[c] # <<>>)
        /\ \A d \in Clients : Listed(d, batch'[d])
    BY <1>2, DoneFacts, Zenon
  <2>2. x \in Handles
    BY <1>2, HdlFacts, Zenon
  <2>3. answers' \in [Handles -> Nat] /\ okay' \subseteq Handles
    BY <1>2, <2>2, Parts, AnswerFacts, Zenon
  <2>4. ReqTypeOK'
    BY <1>s, <2>1, <2>3, Parts, Zenon DEF ReqTypeOK
  <2>5. \A h \in Handles : (InBatch(h)' => InBatch(h)) /\ ~(InBatch(h)' /\ h = Hdl(c))
    BY <1>2, DoneMoves, Zenon
  <2> QED BY <1>2, <2>1, <2>4, <2>5, DoneAnswerOwn, Zenon
<1>3. CASE x[2] # 0 /\ Answer(x, ok) /\ Goto(c, "free") /\ UNCHANGED batch
  <2>1. /\ rm' \in [Clients -> [pc : ThreadPcs, attached : BOOLEAN, exit : BOOLEAN]]
        /\ \A d \in Clients : d # c => rm'[d] = rm[d]
        /\ rm'[c].pc = "free"
    BY <1>3, Parts, ZenonT(30) DEF ReqTypeOK, Goto, ThreadPcs
  <2>2. x \in Handles /\ x[1] = c
    BY <1>3, HdlFacts, Zenon
  <2>3. answers' \in [Handles -> Nat] /\ okay' \subseteq Handles
    BY <1>3, <2>2, Parts, AnswerFacts, Zenon
  <2>4. ReqTypeOK'
    BY <1>3, <1>s, <2>1, <2>3, Parts, Zenon DEF ReqTypeOK
  <2>5. batch[c] \in Seq(Listable) /\ batch[c] # <<>> /\ Listed(c, batch[c])
    BY Zenon DEF OwnInv, ReqTypeOK, ThreadOf
  <2>6. ASSUME NEW h \in Handles PROVE (InBatch(h)' => InBatch(h)) /\ ~(InBatch(h)' /\ h = Hdl(c))
    <3>0. h[1] \in Clients
      BY HandleParts, Zenon
    <3>1. CASE h[1] # c
      <4>1. InBatch(h)' = InBatch(h)
        BY <1>3, <2>1, <3>0, <3>1, SamePlaces, Zenon
      <4> QED BY <2>2, <3>1, <4>1, Zenon
    <3>2. CASE h[1] = c
      <4>1. InBatch(h)' => \E i \in 1 .. Len(batch[c]) : i # 1 /\ batch[c][i] = h
        BY <1>3, <2>1, <3>2, Zenon DEF InBatch, Runs
      <4>2. \A i \in 1 .. Len(batch[c]) : i # 1 => batch[c][i] # batch[c][1]
        BY <2>5, TailFacts, SMTT(30) DEF Listed
      <4>3. (\E i \in 1 .. Len(batch[c]) : i # 1 /\ batch[c][i] = h) => InBatch(h)
        BY <3>2, Zenon DEF InBatch
      <4> QED BY <4>1, <4>2, <4>3, Zenon DEF Hdl
    <3> QED BY <3>1, <3>2, Zenon
  <2>7. \A d \in Clients : Listed(d, batch'[d])
    BY <1>3, Parts, Zenon
  <2>8. rm'[c].pc # "beat" <=> batch'[c] # <<>>
    BY <1>3, <2>1, <2>5, Zenon
  <2>9. batch'[c][1] = Hdl(c)
    BY <1>3, Zenon DEF Hdl
  <2> QED BY <1>3, <2>1, <2>4, <2>6, <2>7, <2>8, <2>9, DoneAnswerOwn, Zenon
<1>4. \/ UNCHANGED <<answers, okay>> /\ Done(c)
      \/ x[2] # 0 /\ Answer(x, ok) /\ Done(c)
      \/ x[2] # 0 /\ Answer(x, ok) /\ Goto(c, "free") /\ UNCHANGED batch
  BY Zenon DEF Finish, Respond
<1> QED BY <1>1, <1>2, <1>3, <1>4, Zenon

-----------------------------------------------------------------------------
(* The actions of the threads.                                               *)

LEMMA CallbacksOwn == ASSUME OwnInv, NEW c \in Clients, rm_process_client_callbacks(c) PROVE OwnInv'
<1>1. /\ UNCHANGED <<job, app, cli, at, net, answers, okay, mounting, slot, q, batch, svc, joining, failed, main>>
      /\ rm[c].pc = "cb" /\ rm' = [rm EXCEPT ![c].pc = "req"]
  BY Zenon DEF rm_process_client_callbacks, Runs, Goto, netVars, appVars, mainVars, svcVars
<1>2. /\ rm' \in [Clients -> [pc : ThreadPcs, attached : BOOLEAN, exit : BOOLEAN]]
      /\ \A d \in Clients : d # c => rm'[d] = rm[d]
      /\ rm'[c].pc = "req"
  BY <1>1, Parts, ZenonT(30) DEF ReqTypeOK, ThreadPcs
<1>3. ReqTypeOK'
  BY <1>1, <1>2, Parts, Zenon DEF ReqTypeOK, Started, Calls
<1>4. \A d \in Clients : (rm'[d].pc = "free" <=> rm[d].pc = "free") /\ ThreadOf(d)'
  BY <1>1, <1>2, Parts, Zenon DEF ThreadOf
<1> QED BY <1>1, <1>3, <1>4, NothingMoves, Zenon

\* What a heartbeat makes of the thread.
LEMMA BeatFacts ==
    ASSUME OwnInv, NEW c \in Clients, rm_heartbeat(c)
    PROVE  /\ rm' \in [Clients -> [pc : ThreadPcs, attached : BOOLEAN, exit : BOOLEAN]]
           /\ \A d \in Clients : d # c => rm'[d] = rm[d]
           /\ rm[c].pc = "beat" /\ rm'[c].pc \in {"cb", "exited"} /\ rm'[c].attached = rm[c].attached
<1> PICK p \in ThreadPcs, a \in BOOLEAN, e \in BOOLEAN : rm[c] = [pc |-> p, attached |-> a, exit |-> e]
  BY Zenon DEF OwnInv, ReqTypeOK
<1>0. rm \in [Clients -> [pc : ThreadPcs, attached : BOOLEAN, exit : BOOLEAN]] /\ rm[c].pc = "beat"
  BY Zenon DEF OwnInv, ReqTypeOK, rm_heartbeat, Runs
<1>1. PICK r : /\ rm' = [rm EXCEPT ![c] = r] /\ r.pc \in {"cb", "exited"} /\ r.attached = rm[c].attached
               /\ r \in [pc : ThreadPcs, attached : BOOLEAN, exit : BOOLEAN]
  <2>1. CASE Goto(c, IF rm[c].exit THEN "exited" ELSE "cb")
    <3> PICK u \in {"cb", "exited"} : u = IF rm[c].exit THEN "exited" ELSE "cb"
      BY Zenon
    <3> DEFINE r == [pc |-> u, attached |-> a, exit |-> e]
    <3>1. r \in [pc : ThreadPcs, attached : BOOLEAN, exit : BOOLEAN] /\ r.pc = u /\ r.attached = a
      BY Zenon DEF ThreadPcs
    <3>2. [rm[c] EXCEPT !.pc = u] = r
      OBVIOUS
    <3>3. rm' = [rm EXCEPT ![c] = r]
      BY <2>1, <3>2, Zenon DEF Goto
    <3>4. rm[c].attached = a
      OBVIOUS
    <3> HIDE DEF r
    <3> QED BY <3>1, <3>3, <3>4, Zenon
  <2>2. ASSUME NEW ok \in BOOLEAN,
               rm' = [rm EXCEPT ![c].exit = @ \/ ~ok, ![c].pc = IF rm[c].exit \/ ~ok THEN "exited" ELSE "cb"]
        PROVE  \E r : /\ rm' = [rm EXCEPT ![c] = r] /\ r.pc \in {"cb", "exited"} /\ r.attached = rm[c].attached
                      /\ r \in [pc : ThreadPcs, attached : BOOLEAN, exit : BOOLEAN]
    <3> PICK u \in {"cb", "exited"} : u = IF rm[c].exit \/ ~ok THEN "exited" ELSE "cb"
      BY Zenon
    <3> PICK x \in BOOLEAN : x = (e \/ ~ok)
      BY Zenon
    <3> DEFINE r == [pc |-> u, attached |-> a, exit |-> x]
    <3>1. r \in [pc : ThreadPcs, attached : BOOLEAN, exit : BOOLEAN] /\ r.pc = u /\ r.attached = a
      BY Zenon DEF ThreadPcs
    <3>2. rm' = [rm EXCEPT ![c] = r]
      BY <1>0, <2>2
    <3>4. rm[c].attached = a
      OBVIOUS
    <3> HIDE DEF r
    <3> QED BY <3>1, <3>2, <3>4, Zenon
  <2> QED BY <2>1, <2>2, Zenon DEF rm_heartbeat
<1> QED BY <1>0, <1>1, Zenon

LEMMA HeartbeatOwn == ASSUME OwnInv, NEW c \in Clients, rm_heartbeat(c) PROVE OwnInv'
<1>1. /\ UNCHANGED <<job, app, cli, at, net, answers, okay, mounting, slot, q, batch, svc, joining, main>>
      /\ failed' \subseteq Clients
  <2>1. UNCHANGED <<job, app, cli, at, net, answers, okay, mounting, slot, q, batch, svc, joining, main>>
    BY Zenon DEF rm_heartbeat, cliVars, netVars, appVars, svcVars
  <2>2. failed' = failed \/ failed' = failed \cup {c}
    BY Zenon DEF rm_heartbeat, add_failed_client
  <2> QED BY <2>1, <2>2, Parts, Zenon DEF ReqTypeOK
<1>2. /\ rm' \in [Clients -> [pc : ThreadPcs, attached : BOOLEAN, exit : BOOLEAN]]
      /\ \A d \in Clients : d # c => rm'[d] = rm[d]
      /\ rm[c].pc = "beat" /\ rm'[c].pc \in {"cb", "exited"}
  BY BeatFacts, Zenon
<1>3. ReqTypeOK'
  BY <1>1, <1>2, Parts, Zenon DEF ReqTypeOK, Started, Calls
<1>4. \A d \in Clients : (rm'[d].pc = "free" <=> rm[d].pc = "free") /\ ThreadOf(d)'
  BY <1>1, <1>2, Parts, ZenonT(30) DEF ThreadOf
<1> QED BY <1>1, <1>3, <1>4, NothingMoves, Zenon

LEMMA FreeListOwn == ASSUME OwnInv, NEW c \in Clients, FreeList(c) PROVE OwnInv'
<1>1. /\ UNCHANGED <<job, app, cli, at, net, answers, okay, mounting, slot, q, svc, joining, failed, main>>
      /\ rm[c].pc = "free" /\ Done(c)
  BY Zenon DEF FreeList, Runs, cliVars, appVars, mainVars, svcVars
<1> QED BY <1>1, DoneOwn, Zenon

\* The owner is asked, and the request stays in hand.
LEMMA AskOwn ==
    ASSUME OwnInv, NEW c \in Clients, rm[c].pc = "work", forward_p2p_request(c),
           UNCHANGED <<job, app, cli, at, net, answers, okay, mounting, slot, q, joining, failed, main>>
    PROVE  OwnInv'
<1>1. UNCHANGED <<batch, svc>> /\ rm' = [rm EXCEPT ![c].pc = "owner"]
  BY Zenon DEF forward_p2p_request, Goto
<1>2. /\ rm' \in [Clients -> [pc : ThreadPcs, attached : BOOLEAN, exit : BOOLEAN]]
      /\ \A d \in Clients : d # c => rm'[d] = rm[d]
      /\ rm'[c].pc = "owner"
  BY <1>1, Parts, ZenonT(30) DEF ReqTypeOK, ThreadPcs
<1>3. ReqTypeOK'
  BY <1>1, <1>2, Parts, Zenon DEF ReqTypeOK, Started, Calls
<1>4. \A d \in Clients : (rm'[d].pc = "free" <=> rm[d].pc = "free") /\ ThreadOf(d)'
  BY <1>1, <1>2, Parts, Zenon DEF ThreadOf
<1> QED BY <1>1, <1>3, <1>4, NothingMoves, Zenon

LEMMA AtOwnerOwn == ASSUME OwnInv, NEW c \in Clients, NEW k, AtOwner(c, k) PROVE OwnInv'
<1>1. /\ UNCHANGED <<job, app, cli, at, net, mounting, slot, q, joining, failed, main>>
      /\ rm[c].pc = "work"
  BY Zenon DEF AtOwner, Serving, Runs, cliVars, appVars, mainVars
<1> PICK ok \in BOOLEAN : ok = TRUE
  BY Zenon
<1>2. \/ Finish(c, TRUE) /\ UNCHANGED svc
      \/ forward_p2p_request(c) /\ UNCHANGED <<answers, okay>>
  BY Zenon DEF AtOwner, svcVars
<1>3. CASE Finish(c, TRUE) /\ UNCHANGED svc
  <2>1. Finish(c, ok)
    BY <1>3, Zenon
  <2> HIDE DEF Finish
  <2> QED BY <1>1, <1>3, <2>1, FinishOwn, Zenon
<1>4. CASE forward_p2p_request(c) /\ UNCHANGED <<answers, okay>>
  BY <1>1, <1>4, AskOwn, Zenon
<1> QED BY <1>2, <1>3, <1>4, Zenon

LEMMA UnlinkOwn == ASSUME OwnInv, NEW c \in Clients, process_unlink_rpc(c) PROVE OwnInv'
<1>1. /\ UNCHANGED <<job, app, cli, at, net, mounting, slot, q, joining, failed, main>>
      /\ rm[c].pc = "work"
  BY Zenon DEF process_unlink_rpc, Serving, Runs, cliVars, appVars, mainVars
<1> PICK ok \in BOOLEAN : ok = TRUE
  BY Zenon
<1>2. \/ Finish(c, TRUE) /\ UNCHANGED svc
      \/ forward_p2p_request(c) /\ UNCHANGED <<answers, okay>>
  BY Zenon DEF process_unlink_rpc, svcVars
<1>3. CASE Finish(c, TRUE) /\ UNCHANGED svc
  <2>1. Finish(c, ok)
    BY <1>3, Zenon
  <2> QED BY <1>1, <1>3, <2>1, FinishOwn, Zenon
<1>4. CASE forward_p2p_request(c) /\ UNCHANGED <<answers, okay>>
  BY <1>1, <1>4, AskOwn, Zenon
<1> QED BY <1>2, <1>3, <1>4, Zenon

LEMMA WaitOwn == ASSUME OwnInv, NEW c \in Clients, wait_for_p2p_request(c) PROVE OwnInv'
<1>1. /\ UNCHANGED <<job, app, cli, at, net, mounting, slot, q, svc, joining, failed, main>>
      /\ rm[c].pc = "owner"
  BY Zenon DEF wait_for_p2p_request, Runs, cliVars, appVars, mainVars
<1>2. PICK ok \in BOOLEAN : Finish(c, ok)
  BY Zenon DEF wait_for_p2p_request
<1> QED BY <1>1, <1>2, FinishOwn, Zenon

\* The attributes of the thread after the attach, which is answered.
LEMMA AttachFacts ==
    ASSUME OwnInv, NEW c \in Clients, process_attach_rpc(c)
    PROVE  \E ok \in BOOLEAN :
             /\ IF ok THEN NoFault /\ slot' = [slot EXCEPT ![c] = "live"] ELSE Fault("attach") /\ UNCHANGED slot
             /\ Answer(Hdl(c), ok)
             /\ rm' \in [Clients -> [pc : ThreadPcs, attached : BOOLEAN, exit : BOOLEAN]]
             /\ \A d \in Clients : d # c => rm'[d] = rm[d]
             /\ rm'[c].pc = (IF Len(batch[c]) = 1 THEN "beat" ELSE "work")
             /\ rm'[c].attached = ok /\ rm'[c].exit = rm[c].exit
             /\ batch' = [batch EXCEPT ![c] = Tail(batch[c])]
<1>0. PICK ok \in BOOLEAN :
        /\ IF ok THEN NoFault ELSE Fault("attach")
        /\ IF ok THEN attach_app_client(c) ELSE UNCHANGED slot
        /\ batch' = [batch EXCEPT ![c] = Tail(@)]
        /\ rm' = [rm EXCEPT ![c].attached = ok, ![c].pc = IF Len(batch[c]) = 1 THEN "beat" ELSE "work"]
        /\ Answer(Hdl(c), ok)
  BY Zenon DEF process_attach_rpc
<1>1. rm \in [Clients -> [pc : ThreadPcs, attached : BOOLEAN, exit : BOOLEAN]]
  BY Parts, Zenon DEF ReqTypeOK
<1> PICK u \in {"beat", "work"} : u = IF Len(batch[c]) = 1 THEN "beat" ELSE "work"
  BY Zenon
<1>2. rm' = [rm EXCEPT ![c].attached = ok, ![c].pc = u]
  BY <1>0, Zenon
<1>3. u \in ThreadPcs
  BY Zenon DEF ThreadPcs
<1>5. /\ rm' \in [Clients -> [pc : ThreadPcs, attached : BOOLEAN, exit : BOOLEAN]]
      /\ \A d \in Clients : d # c => rm'[d] = rm[d]
      /\ rm'[c].pc = u /\ rm'[c].attached = ok /\ rm'[c].exit = rm[c].exit
  BY <1>1, <1>2, <1>3, Zenon
<1>6. /\ IF ok THEN NoFault /\ slot' = [slot EXCEPT ![c] = "live"] ELSE Fault("attach") /\ UNCHANGED slot
      /\ batch' = [batch EXCEPT ![c] = Tail(batch[c])] /\ Answer(Hdl(c), ok)
  BY <1>0, Zenon DEF attach_app_client
<1> QED BY <1>5, <1>6, Zenon

\* The first request in hand goes, as DoneMoves has it for any thread.
LEMMA TailMoves ==
    ASSUME OwnInv, NEW c \in Clients, rm[c].pc \in {"work", "owner", "free"}, NEW h \in Handles,
           batch' = [batch EXCEPT ![c] = Tail(batch[c])],
           \A d \in Clients : d # c => rm'[d] = rm[d], rm'[c].pc # "free"
    PROVE  /\ InBatch(h)' => InBatch(h)
           /\ ~(InBatch(h)' /\ h = Hdl(c))
           /\ \A d \in Clients : Listed(d, batch'[d])
           /\ batch' \in [Clients -> Seq(Listable)]
           /\ batch'[c] = <<>> <=> Len(batch[c]) = 1
<1>1. h[1] \in Clients
  BY HandleParts, Zenon
<1>2. batch \in [Clients -> Seq(Listable)] /\ batch[c] # <<>> /\ \A d \in Clients : Listed(d, batch[d])
  BY Zenon DEF OwnInv, ReqTypeOK, ThreadOf
<1> PICK s, t : s = batch[c] /\ t = Tail(s)
  BY Zenon
<1>3. s \in Seq(Listable) /\ s # <<>> /\ Listed(c, s)
  BY <1>2, Zenon
<1>4. t \in Seq(Listable) /\ Listed(c, t) /\ (Len(s) = 1 <=> t = <<>>)
  BY <1>3, TailFacts, ListedTail, Zenon
<1>5. batch'[c] = t /\ \A d \in Clients : d # c => batch'[d] = batch[d]
  BY <1>2, Zenon
<1>6. CASE h[1] # c
  <2>1. InBatch(h)' => InBatch(h)
    BY <1>1, <1>5, <1>6, Zenon DEF InBatch, Runs
  <2>2. Hdl(c)[1] = c
    BY <1>3, TailFacts, SMTT(30) DEF Listed, Hdl
  <2> QED BY <1>2, <1>4, <1>5, <1>6, <2>1, <2>2, Zenon
<1>7. CASE h[1] = c
  <2>1. /\ \A i \in 1 .. Len(t) : t[i] = s[i + 1] /\ i + 1 \in 1 .. Len(s) /\ i + 1 # 1
        /\ \A i \in 1 .. Len(t) : t[i] # s[1]
    <3>2. \A i \in 1 .. Len(t) : t[i] # s[1]
      BY <1>3, ListedTail, Zenon
    <3>3. /\ t \in Seq(Listable) /\ Len(t) \in Nat
          /\ \A i \in 1 .. Len(t) : t[i] = s[i + 1] /\ i + 1 \in 1 .. Len(s)
      BY <1>3, TailFacts, LenProperties, Zenon
    <3> QED BY <3>2, <3>3, Zenon
  <2>2. InBatch(h)' => \E i \in 1 .. Len(t) : t[i] = h
    BY <1>5, <1>7, Zenon DEF InBatch
  <2>3. (\E i \in 1 .. Len(s) : i # 1 /\ s[i] = h) => InBatch(h)
    BY <1>7, Zenon DEF InBatch
  <2>4. (InBatch(h)' => InBatch(h)) /\ ~(InBatch(h)' /\ h = Hdl(c))
    BY <2>1, <2>2, <2>3, Zenon DEF Hdl
  <2> QED BY <1>2, <1>4, <1>5, <2>4, Zenon
<1> QED BY <1>6, <1>7, Zenon

LEMMA AttachOwn == ASSUME OwnInv, NEW c \in Clients, process_attach_rpc(c) PROVE OwnInv'
<1>1. PICK ok \in BOOLEAN :
             /\ IF ok THEN NoFault /\ slot' = [slot EXCEPT ![c] = "live"] ELSE Fault("attach") /\ UNCHANGED slot
             /\ Answer(Hdl(c), ok)
             /\ rm' \in [Clients -> [pc : ThreadPcs, attached : BOOLEAN, exit : BOOLEAN]]
             /\ \A d \in Clients : d # c => rm'[d] = rm[d]
             /\ rm'[c].pc = (IF Len(batch[c]) = 1 THEN "beat" ELSE "work")
             /\ rm'[c].attached = ok /\ rm'[c].exit = rm[c].exit
             /\ batch' = [batch EXCEPT ![c] = Tail(batch[c])]
  BY AttachFacts, Zenon
<1>2. /\ UNCHANGED <<job, app, cli, at, net, mounting, q, svc, joining, failed, main>>
      /\ rm[c].pc = "work" /\ Kind(Hdl(c)) = "attach"
  BY Zenon DEF process_attach_rpc, Serving, Runs, Hdl, cliVars, mainVars, svcVars
<1>3. Hdl(c)[2] # 0
  BY <1>2, Zenon DEF Kind
<1>4. Hdl(c) \in Handles
  BY <1>2, <1>3, HdlFacts, Zenon
<1>5. answers' \in [Handles -> Nat] /\ okay' \subseteq Handles
  BY <1>1, <1>4, Parts, AnswerFacts, Zenon
<1>6. /\ \A h \in Handles : (InBatch(h)' => InBatch(h)) /\ ~(InBatch(h)' /\ h = Hdl(c))
      /\ \A d \in Clients : Listed(d, batch'[d])
      /\ batch' \in [Clients -> Seq(Listable)] /\ (batch'[c] = <<>> <=> Len(batch[c]) = 1)
  BY <1>1, <1>2, <1>4, TailMoves, Zenon
<1>7. \A d \in Clients : d # c => rm'[d] = rm[d] /\ batch'[d] = batch[d]
  BY <1>1, SMTT(30)
<1>8. slot' \in [Clients -> {"none", "new", "live", "down", "gone"}]
  BY <1>1, Parts, ZenonT(30) DEF ReqTypeOK
<1>9. ReqTypeOK'
  BY <1>1, <1>2, <1>5, <1>6, <1>8, Parts, Zenon DEF ReqTypeOK, Started, Calls
<1>10. rm'[c].pc \in {"beat", "work", "free"} /\ rm'[c].pc # "free" /\ (rm'[c].pc # "beat" <=> batch'[c] # <<>>)
  BY <1>1, <1>6, Zenon
<1>11. Answer(Hdl(c), ok)
  BY <1>1, Zenon
<1> QED BY <1>2, <1>3, <1>6, <1>7, <1>9, <1>10, <1>11, DoneAnswerOwn, Zenon

\* A sync goes from the thread to the service manager.
LEMMA FsyncOwn == ASSUME OwnInv, NEW c \in Clients, process_fsync_rpc(c) PROVE OwnInv'
<1> PICK x : x = Hdl(c)
  BY Zenon
<1>1. /\ UNCHANGED <<job, app, cli, at, net, answers, okay, mounting, slot, q, joining, failed, main>>
      /\ rm[c].pc = "work" /\ Kind(x) = "fsync" /\ svc' = Append(svc, x) /\ Done(c)
  BY Zenon DEF process_fsync_rpc, Serving, Runs, Hdl, cliVars, netVars, appVars, mainVars
<1>2. x[2] # 0
  BY <1>1, Zenon DEF Kind
<1>3. x \in Handles /\ x[1] = c /\ InBatch(x) /\ answers[x] = 0 /\ OneOwner(x) /\ x[2] <= at[c]
  BY <1>1, <1>2, HdlFacts, Zenon
<1>4. /\ batch' \in [Clients -> Seq(Listable)]
      /\ rm' \in [Clients -> [pc : ThreadPcs, attached : BOOLEAN, exit : BOOLEAN]]
      /\ \A d \in Clients : d # c => rm'[d] = rm[d] /\ batch'[d] = batch[d]
      /\ rm'[c].pc \in {"beat", "work"} /\ (rm'[c].pc = "work" <=> batch'[c] # <<>>)
      /\ \A d \in Clients : Listed(d, batch'[d])
  BY <1>1, DoneFacts, Zenon
<1>5. svc \in Seq(Handles)
  BY Parts, Zenon DEF ReqTypeOK
<1>6. /\ svc' \in Seq(Handles) /\ Len(svc') = Len(svc) + 1 /\ Len(svc) \in Nat
      /\ \A i \in 1 .. Len(svc) : svc'[i] = svc[i]
      /\ svc'[Len(svc) + 1] = x
  BY <1>1, <1>3, <1>5, AppendFacts, SMTT(30)
<1>7. ReqTypeOK'
  BY <1>1, <1>4, <1>6, Parts, Zenon DEF ReqTypeOK, Started, Calls
<1>8. \A i \in 1 .. Len(svc') : i \in 1 .. Len(svc) \/ i = Len(svc) + 1
  BY <1>6
<1>9. ASSUME NEW h \in Handles PROVE OneOwner(h)'
  <2>1. h[1] \in Clients /\ h[2] \in Nat
    BY HandleParts
  <2>2. InMount(h)' = InMount(h) /\ InQ(h)' = InQ(h)
    BY <1>1, SamePlaces, Zenon
  <2>3. (InBatch(h)' => InBatch(h)) /\ ~(InBatch(h)' /\ h = x)
    BY <1>1, DoneMoves, Zenon
  <2>4. OneOwner(h) /\ at[h[1]] \in Nat
    BY <2>1, Parts, Zenon DEF ReqTypeOK
  <2>5. CASE h = x
    BY <1>1, <1>3, <2>1, <2>2, <2>3, <2>4, <2>5, Zenon DEF OneOwner
  <2>6. CASE h # x
    <3>1. InSvc(h)' => InSvc(h)
      BY <1>6, <1>8, <2>6, Zenon DEF InSvc
    <3>2. (h \in net' => h \in net) /\ (h \in joining' => h \in joining) /\ answers'[h] = answers[h]
      BY <1>1, Zenon
    <3>3. at'[h[1]] \in Nat /\ at[h[1]] <= at'[h[1]]
      BY <1>1, <2>4
    <3> QED BY <2>1, <2>2, <2>3, <2>4, <3>1, <3>2, <3>3, StaysOwned, Zenon
  <2> QED BY <2>5, <2>6, Zenon
<1>10. \A d \in Clients : Listed(d, q[d])' /\ Listed(d, batch[d])'
  <2>1. \A d \in Clients : Listed(d, q'[d])
    BY <1>1, Parts, Zenon
  <2> QED BY <1>4, <2>1, Zenon DEF Listed
<1>11. \A d \in Clients : ThreadOf(d)'
  BY <1>1, <1>4, Parts, Zenon DEF ThreadOf
<1>12. \A i, j \in 1 .. Len(svc') : svc'[i] = svc'[j] => i = j
  <2>1. \A i \in 1 .. Len(svc) : svc[i] # x
    BY <1>3, Zenon DEF OneOwner, InSvc
  <2>2. \A i, j \in 1 .. Len(svc) : svc[i] = svc[j] => i = j
    BY Zenon DEF OwnInv
  <2> QED BY <1>6, <1>8, <2>1, <2>2, Zenon
<1>13. /\ \A h \in Handles : h \in okay' => answers'[h] > 0
       /\ \A m, n \in mounting' : m.h = n.h => m = n
       /\ \A m \in mounting' : m.h[2] = 1
  BY <1>1, Zenon DEF OwnInv
<1> QED BY <1>7, <1>9, <1>10, <1>11, <1>12, <1>13, Zenon DEF OwnInv

\* The service manager answers a sync.
LEMMA SyncOwn == ASSUME OwnInv, process_pending_sync PROVE OwnInv'
<1>1. /\ UNCHANGED <<job, app, cli, at, net, mounting, slot, rm, q, batch, joining, failed, main>>
      /\ svc # <<>> /\ svc' = Tail(svc)
  BY Zenon DEF process_pending_sync, cliVars, appVars, rmVars, mainVars
<1>2. PICK ok \in BOOLEAN : Answer(Head(svc), ok)
  BY Zenon DEF process_pending_sync
<1> PICK x, s, t : s = svc /\ t = Tail(svc) /\ x = Head(svc)
  BY Zenon
<1>3. s \in Seq(Handles) /\ s # <<>> /\ \A i, j \in 1 .. Len(s) : s[i] = s[j] => i = j
  BY <1>1, Zenon DEF OwnInv, ReqTypeOK
<1>4. /\ t \in Seq(Handles) /\ Len(t) = Len(s) - 1 /\ Len(s) \in Nat /\ Len(s) > 0
      /\ \A i \in 1 .. Len(t) : t[i] = s[i + 1] /\ i + 1 \in 1 .. Len(s)
      /\ x \in Handles /\ x = s[1]
  BY <1>3, TailFacts, Zenon
<1>5. \A i \in 1 .. Len(t) : t[i] # x
  BY <1>3, <1>4
<1>6. \A i, j \in 1 .. Len(t) : t[i] = t[j] => i = j
  BY <1>3, <1>4
<1>7. InSvc(x)
  BY <1>4 DEF InSvc
<1>8. OneOwner(x) /\ answers[x] = 0 /\ x[2] <= at[x[1]]
  <2>1. OneOwner(x)
    BY <1>4, Parts, Zenon
  <2>2. answers[x] \in Nat
    BY <1>4, Parts, Zenon DEF ReqTypeOK
  <2> QED BY <1>7, <2>1, <2>2, SMTT(30) DEF OneOwner
<1>9. answers' \in [Handles -> Nat] /\ okay' \subseteq Handles
  BY <1>2, <1>4, Parts, AnswerFacts, Zenon
<1>10. ReqTypeOK'
  BY <1>1, <1>4, <1>9, Parts, Zenon DEF ReqTypeOK, Started, Calls
<1>11. ASSUME NEW h \in Handles
       PROVE  /\ NotMoved(h) /\ ~(InSvc(h)' /\ h = x)
              /\ InMount(h)' = InMount(h) /\ InQ(h)' = InQ(h) /\ InBatch(h)' = InBatch(h)
  <2>1. h[1] \in Clients
    BY HandleParts, Zenon
  <2>2. InMount(h)' = InMount(h) /\ InQ(h)' = InQ(h) /\ InBatch(h)' = InBatch(h)
    BY <1>1, <2>1, SamePlaces, Zenon
  <2>3. (InSvc(h)' => InSvc(h)) /\ ~(InSvc(h)' /\ h = x)
    BY <1>1, <1>4, <1>5, Zenon DEF InSvc
  <2> QED BY <1>1, <2>2, <2>3, Zenon DEF NotMoved
<1>12. NoPlace(x)
  BY <1>1, <1>4, <1>7, <1>8, <1>11, Zenon DEF NoPlace, OneOwner
<1>13. \A d \in Clients : Listed(d, q[d])' /\ Listed(d, batch[d])'
  BY <1>1, Zenon DEF OwnInv, Listed
<1>14. \A d \in Clients : ThreadOf(d)'
  BY <1>1, <1>2, <1>4, <1>9, Parts, AnswerFacts, ThreadSame, Zenon
<1>15. \A i, j \in 1 .. Len(svc') : svc'[i] = svc'[j] => i = j
  BY <1>1, <1>6, Zenon
<1>16. Answer(x, ok)
  BY <1>2, Zenon
<1>17. \A h \in Handles : NotMoved(h)
  BY <1>11, Zenon
<1>18. UNCHANGED at /\ mounting' \subseteq mounting
  BY <1>1, Zenon
<1> QED BY <1>4, <1>8, <1>10, <1>12, <1>13, <1>14, <1>15, <1>16, <1>17, <1>18, AnswerOwn, Zenon

-----------------------------------------------------------------------------
(* The actions of the clients, of the peer and of the main thread that leave *)
(* the requests where they are.                                              *)

LEMMA QuietOwn ==
    ASSUME OwnInv, UNCHANGED <<job, app, at, net, answers, okay, mounting, slot, q, batch, svc, joining, rm>>,
           cli' \in [Clients -> CliPcs], failed' \subseteq Clients,
           main' \in [pc : MainPcs, who : SUBSET Clients, cur : Clients]
    PROVE  OwnInv'
<1>1. ReqTypeOK'
  BY Parts, Zenon DEF ReqTypeOK, Started, Calls
<1>2. \A d \in Clients : ThreadOf(d)'
  BY Parts, Zenon DEF ThreadOf
<1> QED BY <1>1, <1>2, NothingMoves, Zenon

\* What After and the pull make of a client is a state of a client.
LEMMA AfterState == \A c, ok : After(c, ok) \in {"failed", "over", "idle"}
  BY Zenon DEF After

LEMMA InitRpcOwn == ASSUME OwnInv, NEW c \in Clients, unifyfs_client_rpc_init(c) PROVE OwnInv'
<1>1. UNCHANGED <<job, app, at, net, answers, okay, mounting, slot, q, batch, svc, joining, rm, failed, main>>
  BY Zenon DEF unifyfs_client_rpc_init, netVars, appVars, rmVars, mainVars, svcVars
<1>2. cli' \in [Clients -> CliPcs]
  BY Parts, Zenon DEF unifyfs_client_rpc_init, ReqTypeOK, CliPcs
<1> QED BY <1>1, <1>2, QuietOwn, Parts, Zenon DEF ReqTypeOK

LEMMA ResponseOwn == ASSUME OwnInv, NEW c \in Clients, margo_forward_timed(c) PROVE OwnInv'
<1>1. UNCHANGED <<job, app, at, net, answers, okay, mounting, slot, q, batch, svc, joining, rm, failed, main>>
  BY Zenon DEF margo_forward_timed, netVars, appVars, rmVars, mainVars, svcVars
<1>2. PICK s \in CliPcs : s = IF Pulls(<<c, at[c]>>) THEN "pull" ELSE After(c, <<c, at[c]>> \in okay)
  BY AfterState, Zenon DEF CliPcs
<1>3. cli' = [cli EXCEPT ![c] = s]
  BY <1>2, Zenon DEF margo_forward_timed
<1>4. cli' \in [Clients -> CliPcs]
  BY <1>3, Parts, Zenon DEF ReqTypeOK
<1> QED BY <1>1, <1>4, QuietOwn, Parts, Zenon DEF ReqTypeOK

LEMMA PullOwn == ASSUME OwnInv, NEW c \in Clients, pull_margo_bulk_buffer(c) PROVE OwnInv'
<1>1. UNCHANGED <<job, app, at, net, answers, okay, mounting, slot, q, batch, svc, joining, rm, failed, main>>
  BY Zenon DEF pull_margo_bulk_buffer, netVars, appVars, rmVars, mainVars, svcVars
<1>2. cli' \in [Clients -> CliPcs]
  BY Parts, Zenon DEF pull_margo_bulk_buffer, ReqTypeOK, CliPcs
<1> QED BY <1>1, <1>2, QuietOwn, Parts, Zenon DEF ReqTypeOK

LEMMA TimeoutOwn == ASSUME OwnInv, NEW c \in Clients, ForwardTimeout(c) PROVE OwnInv'
<1>1. UNCHANGED <<job, app, at, net, answers, okay, mounting, slot, q, batch, svc, joining, rm, failed, main>>
  BY Zenon DEF ForwardTimeout, netVars, appVars, rmVars, mainVars, svcVars
<1>2. PICK s \in CliPcs : s = After(c, FALSE)
  BY AfterState, Zenon DEF CliPcs
<1>3. cli' = [cli EXCEPT ![c] = s]
  BY <1>2, Zenon DEF ForwardTimeout
<1>4. cli' \in [Clients -> CliPcs]
  BY <1>3, Parts, Zenon DEF ReqTypeOK
<1> QED BY <1>1, <1>4, QuietOwn, Parts, Zenon DEF ReqTypeOK

LEMMA DieOwn == ASSUME OwnInv, NEW c \in Clients, Die(c) PROVE OwnInv'
<1>1. UNCHANGED <<job, app, at, net, answers, okay, mounting, slot, q, batch, svc, joining, rm, failed, main>>
  BY Zenon DEF Die, netVars, appVars, rmVars, mainVars, svcVars
<1>2. cli' \in [Clients -> CliPcs]
  BY Parts, Zenon DEF Die, ReqTypeOK, CliPcs
<1> QED BY <1>1, <1>2, QuietOwn, Parts, Zenon DEF ReqTypeOK

LEMMA PeerOwn ==
    ASSUME OwnInv, NEW ks, PeerHandler(ks) \/ PeerServes(ks) \/ Interval
    PROVE  OwnInv'
<1>1. UNCHANGED <<job, app, at, net, answers, okay, mounting, slot, q, batch, svc, joining, rm, cli, failed, main>>
  <2>1. CASE PeerHandler(ks)
    BY <2>1, Zenon DEF PeerHandler, cliVars, netVars, appVars, rmVars, mainVars
  <2>2. CASE PeerServes(ks)
    BY <2>2, Zenon DEF PeerServes, cliVars, netVars, appVars, rmVars, mainVars
  <2>3. CASE Interval
    BY <2>3, Zenon DEF Interval, cliVars, netVars, appVars, rmVars, svcVars
  <2> QED BY <2>1, <2>2, <2>3, Zenon
<1> QED BY <1>1, QuietOwn, Parts, Zenon DEF ReqTypeOK

LEMMA FailuresOwn == ASSUME OwnInv, process_client_failures PROVE OwnInv'
<1>1. UNCHANGED <<job, app, at, net, answers, okay, mounting, slot, q, batch, svc, joining, rm, cli>>
  BY Zenon DEF process_client_failures, cliVars, netVars, appVars, rmVars, svcVars
<1>2. failed' \subseteq Clients /\ main' \in [pc : MainPcs, who : SUBSET Clients, cur : Clients]
  BY Parts, Zenon DEF process_client_failures, ReqTypeOK, MainPcs
<1> QED BY <1>1, <1>2, QuietOwn, Parts, Zenon DEF ReqTypeOK

LEMMA ExitRequestOwn == ASSUME OwnInv, exit_request PROVE OwnInv'
<1>1. UNCHANGED <<job, app, at, net, answers, okay, mounting, slot, q, batch, svc, joining, rm, cli, failed>>
  BY Zenon DEF exit_request, cliVars, netVars, appVars, rmVars, svcVars
<1>2. PICK w \in SUBSET Clients : w = {c \in Clients : slot[c] \in {"new", "live", "down"}}
  BY Zenon
<1>3. main' = [main EXCEPT !.pc = "exit", !.who = w]
  BY <1>2, Zenon DEF exit_request
<1>4. main' \in [pc : MainPcs, who : SUBSET Clients, cur : Clients]
  BY <1>3, Parts, Zenon DEF ReqTypeOK, MainPcs
<1> QED BY <1>1, <1>4, QuietOwn, Parts, Zenon DEF ReqTypeOK

LEMMA ExitOwn == ASSUME OwnInv, unifyfs_exit PROVE OwnInv'
<1>1. UNCHANGED <<job, app, at, net, answers, okay, mounting, slot, q, batch, svc, joining, rm, cli, failed>>
  BY Zenon DEF unifyfs_exit, cliVars, netVars, appVars, rmVars, svcVars
<1>2. PICK p \in {"loop", "gone"} : p = IF main.pc = "clean" THEN "loop" ELSE "gone"
  BY Zenon
<1>3. main' = [main EXCEPT !.pc = p]
  BY <1>2, Zenon DEF unifyfs_exit
<1>4. main' \in [pc : MainPcs, who : SUBSET Clients, cur : Clients]
  BY <1>3, Parts, Zenon DEF ReqTypeOK, MainPcs
<1> QED BY <1>1, <1>4, QuietOwn, Parts, Zenon DEF ReqTypeOK

\* The clean-up of a client tells its thread to exit ...
LEMMA CleanOwn == ASSUME OwnInv, CleanNext PROVE OwnInv'
<1>0. PICK c \in main.who :
          /\ slot' = [slot EXCEPT ![c] = IF slot[c] = "live" THEN "down" ELSE slot[c]]
          /\ rm' = [rm EXCEPT ![c].exit = TRUE]
          /\ main' = [pc |-> IF main.pc = "clean" THEN "join" ELSE "exitjoin", who |-> main.who \ {c}, cur |-> c]
          /\ UNCHANGED <<job, app, cli, at, net, answers, okay, mounting, q, batch, svc, joining, failed>>
  BY Zenon DEF CleanNext, rm_request_exit, cliVars, netVars, svcVars
<1>1. c \in Clients
  BY Parts, Zenon DEF ReqTypeOK
<1>2. /\ rm' \in [Clients -> [pc : ThreadPcs, attached : BOOLEAN, exit : BOOLEAN]]
      /\ \A d \in Clients : rm'[d].pc = rm[d].pc /\ rm'[d].attached = rm[d].attached
  BY <1>0, <1>1, ExitFacts, Parts, Zenon DEF ReqTypeOK
<1>3. slot' \in [Clients -> {"none", "new", "live", "down", "gone"}]
  BY <1>0, <1>1, Parts, Zenon DEF ReqTypeOK
<1>4. main' \in [pc : MainPcs, who : SUBSET Clients, cur : Clients]
  <2>1. PICK p \in {"join", "exitjoin"} : p = IF main.pc = "clean" THEN "join" ELSE "exitjoin"
    BY Zenon
  <2>2. main' = [pc |-> p, who |-> main.who \ {c}, cur |-> c]
    BY <1>0, <2>1, Zenon
  <2> QED BY <1>1, <2>2, Parts, Zenon DEF ReqTypeOK, MainPcs
<1>5. ReqTypeOK'
  BY <1>0, <1>2, <1>3, <1>4, Parts, Zenon DEF ReqTypeOK, Started, Calls
<1>6. \A d \in Clients : (rm'[d].pc = "free" <=> rm[d].pc = "free") /\ ThreadOf(d)'
  BY <1>0, <1>2, Parts, Zenon DEF ThreadOf
<1> QED BY <1>0, <1>5, <1>6, NothingMoves, Zenon

\* ... and forgets it with the requests still in its list, which nobody answers.
LEMMA CleanupOwn == ASSUME OwnInv, cleanup_app_client PROVE OwnInv'
<1>0. PICK c : c = main.cur
  BY Zenon
<1>1. /\ main.pc \in {"join", "exitjoin"} /\ rm[c].pc = "exited"
      /\ slot' = [slot EXCEPT ![c] = "gone"] /\ rm' = [rm EXCEPT ![c] = NoThread] /\ q' = [q EXCEPT ![c] = <<>>]
      /\ main' = [main EXCEPT !.pc = IF main.pc = "join" THEN "clean" ELSE "exit"]
      /\ UNCHANGED <<job, app, cli, at, net, answers, okay, mounting, batch, svc, joining, failed>>
  BY <1>0, Zenon DEF cleanup_app_client, unifyfs_rm_thrd_cleanup, cliVars, netVars, svcVars
<1>2. c \in Clients /\ batch[c] = <<>>
  <2>1. c \in Clients
    BY <1>0, Parts, Zenon DEF ReqTypeOK
  <2>2. ThreadOf(c)
    BY <2>1, Parts, Zenon
  <2> QED BY <1>1, <2>1, <2>2, Zenon DEF ThreadOf
<1>3. /\ rm' \in [Clients -> [pc : ThreadPcs, attached : BOOLEAN, exit : BOOLEAN]]
      /\ \A d \in Clients : d # c => rm'[d] = rm[d]
      /\ rm'[c].pc = "none"
  BY <1>1, <1>2, Parts, Zenon DEF ReqTypeOK, NoThread, ThreadPcs
<1>4. /\ q' \in [Clients -> Seq(Listable)] /\ q'[c] = <<>> /\ \A d \in Clients : d # c => q'[d] = q[d]
  BY <1>1, <1>2, Parts, Zenon DEF ReqTypeOK
<1>5. main' \in [pc : MainPcs, who : SUBSET Clients, cur : Clients]
  <2>1. PICK p \in {"clean", "exit"} : p = IF main.pc = "join" THEN "clean" ELSE "exit"
    BY Zenon
  <2>2. main' = [main EXCEPT !.pc = p]
    BY <1>1, <2>1, Zenon
  <2> QED BY <2>2, Parts, Zenon DEF ReqTypeOK, MainPcs
<1>6. slot' \in [Clients -> {"none", "new", "live", "down", "gone"}]
  BY <1>1, <1>2, Parts, Zenon DEF ReqTypeOK
<1>7. ReqTypeOK'
  BY <1>1, <1>3, <1>4, <1>5, <1>6, Parts, Zenon DEF ReqTypeOK, Started, Calls
<1>8. \A h \in Handles : OneOwner(h)' /\ (h \in okay' => answers'[h] > 0)
  <2> TAKE h \in Handles
  <2>1. h[1] \in Clients /\ h[2] \in Nat
    BY HandleParts
  <2>2. InQ(h)' => InQ(h)
    <3>1. CASE h[1] = c
      <4>1. Len(q'[h[1]]) = 0
        BY <1>4, <3>1
      <4> QED BY <4>1 DEF InQ
    <3>2. CASE h[1] # c
      BY <3>2, <1>4, <2>1, SamePlaces, Zenon
    <3> QED BY <3>1, <3>2, Zenon
  <2>3. InBatch(h)' => InBatch(h)
    <3>1. CASE h[1] = c
      BY <3>1, <1>1, <1>2 DEF InBatch
    <3>2. CASE h[1] # c
      BY <3>2, <1>1, <1>3, <2>1, SamePlaces, Zenon
    <3> QED BY <3>1, <3>2, Zenon
  <2>4. InMount(h)' = InMount(h) /\ InSvc(h)' = InSvc(h)
    BY <1>1, SamePlaces, Zenon
  <2>5. at[h[1]] \in Nat /\ OneOwner(h) /\ (h \in okay => answers[h] > 0)
    BY <2>1, Parts, Zenon DEF ReqTypeOK
  <2>6. OneOwner(h)'
    BY <1>1, <2>1, <2>2, <2>3, <2>4, <2>5, StaysOwned
  <2> QED BY <1>1, <2>5, <2>6, Zenon
<1>9. \A d \in Clients : Listed(d, q[d])' /\ Listed(d, batch[d])' /\ ThreadOf(d)'
  <2> TAKE d \in Clients
  <2>0. Listed(d, q[d]) /\ Listed(d, batch[d]) /\ ThreadOf(d)
    BY Parts, Zenon
  <2>1. CASE d = c
    <3>1. Listed(d, q[d])'
      BY <1>4, <2>1, SMTT(30) DEF Listed
    <3>2. Listed(d, batch[d])'
      BY <1>1, <2>0, Zenon DEF Listed
    <3>3. ThreadOf(d)'
      BY <1>1, <1>2, <1>3, <2>1, Zenon DEF ThreadOf
    <3> QED BY <3>1, <3>2, <3>3, Zenon
  <2>2. CASE d # c
    <3>1. Listed(d, q[d])'
      BY <1>4, <2>0, <2>2, Zenon DEF Listed
    <3>2. Listed(d, batch[d])'
      BY <1>1, <2>0, Zenon DEF Listed
    <3>3. ThreadOf(d)'
      BY <1>1, <1>3, <2>0, <2>2, Zenon DEF ThreadOf
    <3> QED BY <3>1, <3>2, <3>3, Zenon
  <2> QED BY <2>1, <2>2, Zenon
<1> QED BY <1>1, <1>7, <1>8, <1>9, Zenon DEF OwnInv

LEMMA InitOwn == ASSUME ReqInit PROVE OwnInv
<1> USE JobsAssumption
<1>1. ReqTypeOK
  <2>1. job \in Jobs /\ app \in BOOLEAN
    BY Zenon DEF ReqInit
  <2>2. cli \in [Clients -> CliPcs] /\ at \in [Clients -> Nat] /\ \A c \in Clients : at[c] = 0
    BY Zenon DEF ReqInit, CliPcs
  <2>3. net \subseteq Handles /\ joining \subseteq Handles /\ okay \subseteq Handles /\ failed \subseteq Clients
    BY Zenon DEF ReqInit
  <2>4. answers \in [Handles -> Nat] /\ mounting \subseteq [h : Handles, creates : BOOLEAN]
    BY Zenon DEF ReqInit
  <2>5. slot \in [Clients -> {"none", "new", "live", "down", "gone"}]
    BY Zenon DEF ReqInit
  <2>6. rm \in [Clients -> [pc : ThreadPcs, attached : BOOLEAN, exit : BOOLEAN]]
    BY Zenon DEF ReqInit, NoThread, ThreadPcs
  <2>7. q \in [Clients -> Seq(Listable)] /\ batch \in [Clients -> Seq(Listable)] /\ svc \in Seq(Handles)
    <3>1. << >> \in Seq(Listable) /\ << >> \in Seq(Handles)
      BY EmptySeq, Zenon
    <3> QED BY <3>1, Zenon DEF ReqInit
  <2>8. main \in [pc : MainPcs, who : SUBSET Clients, cur : Clients]
    BY Zenon DEF ReqInit, MainPcs
  <2> QED BY <2>1, <2>2, <2>3, <2>4, <2>5, <2>6, <2>7, <2>8 DEF ReqTypeOK
<1>2. /\ net = {} /\ mounting = {} /\ joining = {} /\ okay = {} /\ svc = <<>> /\ Len(svc) = 0
      /\ \A c \in Clients : q[c] = <<>> /\ batch[c] = <<>> /\ rm[c].pc = "none"
      /\ \A h \in Handles : answers[h] = 0
  BY Zenon DEF ReqInit, NoThread
<1>3. \A h \in Handles : OneOwner(h)
  <2> TAKE h \in Handles
  <2>1. h[1] \in Clients
    BY HandleParts, Zenon
  <2>2. ~InMount(h) /\ ~InQ(h) /\ ~InBatch(h) /\ ~InSvc(h)
    BY <1>2, <2>1 DEF InMount, InQ, InBatch, InSvc
  <2> QED BY <1>2, <2>2, SMTT(30) DEF OneOwner
<1>4. \A c \in Clients : Listed(c, q[c]) /\ Listed(c, batch[c]) /\ ThreadOf(c)
  BY <1>2 DEF Listed, ThreadOf
<1> QED BY <1>1, <1>2, <1>3, <1>4, SMTT(30) DEF OwnInv

LEMMA StutterOwn == ASSUME OwnInv, UNCHANGED reqVars PROVE OwnInv'
<1>1. UNCHANGED <<job, app, at, net, answers, okay, mounting, slot, q, batch, svc, joining, rm, cli, failed, main>>
  BY Zenon DEF reqVars, cliVars, netVars, appVars, rmVars, mainVars, svcVars
<1> QED BY <1>1, QuietOwn, Parts, Zenon DEF ReqTypeOK

LEMMA NextOwn == ASSUME OwnInv, ReqNext PROVE OwnInv'
<1>1. ASSUME NEW c \in Clients, ClientCalls(c) PROVE OwnInv'
  <2>1. CASE unifyfs_client_rpc_init(c) \/ margo_forward_timed(c) \/ pull_margo_bulk_buffer(c)
    BY <2>1, InitRpcOwn, ResponseOwn, PullOwn, Zenon
  <2>2. ASSUME NEW k, Forward(c, k) PROVE OwnInv'
    BY <2>2, ForwardOwn, Zenon
  <2> QED BY <1>1, <2>1, <2>2, Zenon DEF ClientCalls, invoke_client_mount_rpc, invoke_client_attach_rpc,
        invoke_client_unmount_rpc, invoke_client_metaset_rpc, invoke_client_metaget_rpc,
        invoke_client_filesize_rpc, invoke_client_transfer_rpc, invoke_client_truncate_rpc,
        invoke_client_unlink_rpc, invoke_client_laminate_rpc, invoke_client_sync_rpc,
        invoke_client_mread_rpc, invoke_client_node_local_extents_get_rpc, invoke_client_get_gfids_rpc
<1>2. ASSUME NEW c \in Clients, request_manager_thread(c) PROVE OwnInv'
  <2>1. ASSUME NEW k, AtOwner(c, k) PROVE OwnInv'
    BY <2>1, AtOwnerOwn, Zenon
  <2>2. CASE \/ rm_process_client_callbacks(c) \/ rm_process_client_requests(c) \/ rm_heartbeat(c)
             \/ process_attach_rpc(c) \/ process_unlink_rpc(c) \/ process_fsync_rpc(c)
             \/ wait_for_p2p_request(c) \/ FreeList(c)
    BY <2>2, CallbacksOwn, TakeOwn, HeartbeatOwn, AttachOwn, UnlinkOwn, FsyncOwn, WaitOwn, FreeListOwn, Zenon
  <2> QED BY <1>2, <2>1, <2>2, Zenon DEF request_manager_thread, process_metaget_rpc, process_metaset_rpc,
        process_filesize_rpc, process_truncate_rpc, process_laminate_rpc, process_transfer_rpc,
        process_node_local_extents_get_rpc, process_get_gfids, process_read_rpc
<1>3. ASSUME Handlers PROVE OwnInv'
  <2>1. ASSUME NEW k, Handler(k) PROVE OwnInv'
    BY <2>1, HandlerOwn, Zenon
  <2>2. CASE unifyfs_mount_rpc \/ new_app_client \/ unifyfs_unmount_rpc \/ disconnect_app_client
    BY <2>2, MountOwn, NewClientOwn, UnmountOwn, DisconnectOwn, Zenon
  <2> QED BY <1>3, <2>1, <2>2, Zenon DEF Handlers, unifyfs_attach_rpc, unifyfs_metaset_rpc, unifyfs_metaget_rpc,
        unifyfs_filesize_rpc, unifyfs_transfer_rpc, unifyfs_truncate_rpc, unifyfs_unlink_rpc,
        unifyfs_laminate_rpc, unifyfs_fsync_rpc, unifyfs_mread_rpc, unifyfs_node_local_extents_get_rpc,
        unifyfs_get_gfids_rpc
<1>4. ASSUME ServiceManagers \/ Interval PROVE OwnInv'
  <2>1. ASSUME NEW ks, PeerHandler(ks) \/ PeerServes(ks) PROVE OwnInv'
    BY <2>1, PeerOwn, Zenon
  <2>2. CASE Interval
    BY <2>2, PeerOwn, Zenon
  <2>3. CASE process_pending_sync
    BY <2>3, SyncOwn, Zenon
  <2>4. CASE PeerHandlers
    BY <2>1, <2>4, Zenon DEF PeerHandlers, peer_metaget_rpc, peer_metaset_rpc, peer_truncate_rpc, peer_laminate_rpc,
        peer_transfer_rpc, peer_find_extents_rpc, unlink_bcast_rpc, metaget_all_bcast_rpc
  <2>5. CASE process_service_requests
    BY <2>1, <2>5, Zenon DEF process_service_requests, peer_process_metaget_rpc, peer_process_metaset_rpc,
        peer_process_truncate_rpc, peer_process_laminate_rpc, peer_process_transfer_rpc,
        peer_process_find_extents_rpc, process_unlink_bcast, process_metaget_bcast_rpc
  <2> QED BY <1>4, <2>2, <2>3, <2>4, <2>5, Zenon DEF ServiceManagers
<1>5. ASSUME MainThread \/ exit_request PROVE OwnInv'
  BY <1>5, FailuresOwn, CleanOwn, CleanupOwn, ExitOwn, ExitRequestOwn, Zenon DEF MainThread
<1>6. ASSUME NEW c \in Clients, ForwardTimeout(c) \/ Die(c) PROVE OwnInv'
  BY <1>6, TimeoutOwn, DieOwn, Zenon
<1> QED BY <1>1, <1>2, <1>3, <1>4, <1>5, <1>6, Zenon DEF ReqNext

\* The inductive invariant of the handles holds: every thread of the server that can
\* answer a call (handler, request manager, service manager, unmount) has the handle
\* to itself, and the lists of a request manager have the calls of its client, each once.
THEOREM OwnershipHolds == ReqSpec => []OwnInv
<1>1. ReqInit => OwnInv
  BY InitOwn, Zenon
<1>2. OwnInv /\ [ReqNext]_reqVars => OwnInv'
  BY NextOwn, StutterOwn, Zenon
<1> QED BY <1>1, <1>2, PTL DEF ReqSpec

-----------------------------------------------------------------------------
(* A handle is answered once.                                                *)

\* What the invariant says of one handle is what HandleOwned counts.
LEMMA OwnedOnce == ASSUME OwnInv PROVE HandleOwned
<1> SUFFICES ASSUME NEW h \in Handles PROVE Keeps(h) + answers[h] <= 1
  BY Zenon DEF HandleOwned
<1>1. h[1] \in Clients /\ OneOwner(h) /\ answers[h] \in Nat
  <2>1. h[1] \in Clients
    BY HandleParts, Zenon
  <2> QED BY <2>1, Parts, Zenon DEF ReqTypeOK
<1>2. Listed(h[1], q[h[1]]) /\ Listed(h[1], batch[h[1]])
  BY <1>1, Parts, Zenon
<1> DEFINE M == {m \in mounting : m.h = h}
           Q == {i \in 1 .. Len(q[h[1]]) : q[h[1]][i] = h}
           B == {i \in 1 .. Len(batch[h[1]]) : batch[h[1]][i] = h /\ ~(i = 1 /\ Runs(h[1], "free"))}
           S == {i \in 1 .. Len(svc) : svc[i] = h}
<1>3. ASSUME NEW X, \A x, y \in X : x = y
      PROVE  /\ Cardinality(X) \in {0, 1}
             /\ X = {} => Cardinality(X) = 0
  <2>1. CASE X = {}
    BY <2>1, FS_EmptySet, Zenon
  <2>2. CASE X # {}
    <3>1. PICK x : X = {x}
      BY <1>3, <2>2
    <3>2. Cardinality({x}) = 1
      BY FS_Singleton, Zenon
    <3> QED BY <2>2, <3>1, <3>2, Zenon
  <2> QED BY <2>1, <2>2, Zenon
<1>4. (\A x, y \in M : x = y) /\ (InMount(h) \/ M = {})
  BY Zenon DEF OwnInv, InMount
<1>5. (\A x, y \in Q : x = y) /\ (InQ(h) \/ Q = {})
  BY <1>2, Zenon DEF Listed, InQ
<1>6. (\A x, y \in B : x = y) /\ (InBatch(h) \/ B = {})
  BY <1>2, Zenon DEF Listed, InBatch
<1>7. (\A x, y \in S : x = y) /\ (InSvc(h) \/ S = {})
  BY Zenon DEF OwnInv, InSvc
<1> PICK m, k, b, s : m = Cardinality(M) /\ k = Cardinality(Q) /\ b = Cardinality(B) /\ s = Cardinality(S)
  BY Zenon
<1> PICK n, j : n = (IF h \in net THEN 1 ELSE 0) /\ j = (IF h \in joining THEN 1 ELSE 0)
  BY Zenon
<1>8. Keeps(h) = n + m + k + b + s + j
  BY Zenon DEF Keeps
<1> HIDE DEF M, Q, B, S
<1>9. /\ m \in {0, 1} /\ (InMount(h) \/ m = 0) /\ k \in {0, 1} /\ (InQ(h) \/ k = 0)
      /\ b \in {0, 1} /\ (InBatch(h) \/ b = 0) /\ s \in {0, 1} /\ (InSvc(h) \/ s = 0)
  BY <1>3, <1>4, <1>5, <1>6, <1>7, Zenon
<1>10. n \in {0, 1} /\ (h \in net \/ n = 0) /\ j \in {0, 1} /\ (h \in joining \/ j = 0)
  BY Zenon
<1>11. n + m + k + b + s + j + answers[h] <= 1
  BY <1>1, <1>9, <1>10 DEF OneOwner
<1> QED BY <1>8, <1>11, Zenon

\* A request has one owner on its way through the handlers, the list and the thread
\* of its client, the service manager and unmount: for any number of clients and any
\* jobs, whatever fails, nobody answers a handle twice and nobody keeps one that has
\* been answered.
THEOREM RequestsHaveOneOwner == ReqSpec => []HandleOwned
<1>1. OwnInv => HandleOwned
  BY OwnedOnce, Zenon
<1> QED BY <1>1, OwnershipHolds, PTL

-----------------------------------------------------------------------------
(* The server serves a client between attach and unmount.                    *)

\* The server does not know of c, or c has left, or a heartbeat of it was missed.
Left(c) ==
    \/ cli[c] \in {"dead", "failed"}
    \/ job.fault = "slow" /\ ~faulty
    \/ at[c] > 0 /\ Kind(<<c, at[c]>>) = "unmount"

\* What the places of a client and of its thread say of each other.  While the client
\* has not left, its thread is not asked to exit, the main thread does not take it for
\* a failed client, and after the attach was answered its structure is in use.
SessionOf(c) ==
    /\ cli[c] = "off" => at[c] = 0
    /\ cli[c] = "wait" => at[c] > 0
    /\ at[c] > 1 \/ (at[c] = 1 /\ cli[c] = "idle") => <<c, 1>> \in okay
    /\ cli[c] = "failed" => at[c] <= 2
    /\ cli[c] = "pull" => at[c] > 2
    /\ rm[c].attached => at[c] > 1
    /\ rm[c].pc = "owner" => batch[c][1][2] # 2
    /\ main.pc \in {"loop", "clean", "join"} /\ ~Left(c) =>
         /\ c \notin failed /\ ~(main.pc \in {"clean", "join"} /\ c \in main.who)
         /\ ~(main.pc = "join" /\ c = main.cur)
         /\ ~rm[c].exit /\ rm[c].pc # "exited"
         /\ <<c, 2>> \in okay => slot[c] = "live" /\ rm[c].attached

\* Only the thread of a client answers its attach.
SessionInv ==
    /\ \A c \in Clients : SessionOf(c)
    /\ \A h \in joining : h[2] # 2
    /\ \A i \in 1 .. Len(svc) : svc[i][2] # 2

\* What a client has left it does not enter again.
LEMMA LeftStays ==
    ASSUME NEW c, UNCHANGED job, cli'[c] = cli[c], at'[c] = at[c], ~faulty => ~faulty'
    PROVE  Left(c) => Left(c)'
  BY Zenon DEF Left, Kind, Calls

\* A step that does not concern the session of c.
LEMMA SessionSame ==
    ASSUME NEW c, SessionOf(c), UNCHANGED job, cli'[c] = cli[c], at'[c] = at[c], ~faulty => ~faulty',
           <<c, 1>> \in okay => <<c, 1>> \in okay', <<c, 2>> \in okay' => <<c, 2>> \in okay,
           slot'[c] = slot[c], rm'[c].attached = rm[c].attached, rm'[c].exit = rm[c].exit,
           rm'[c].pc = "exited" => rm[c].pc = "exited",
           rm'[c].pc = "owner" => batch'[c][1][2] # 2,
           c \in failed' => c \in failed, UNCHANGED main
    PROVE  SessionOf(c)'
<1>1. Left(c) => Left(c)'
  BY LeftStays, Zenon
<1> QED BY <1>1, Zenon DEF SessionOf

\* A step that concerns no session.
LEMMA NoSession ==
    ASSUME SessionInv, UNCHANGED <<job, cli, at, slot, main, failed>>, ~faulty => ~faulty',
           okay \subseteq okay', \A c \in Clients : <<c, 2>> \in okay' => <<c, 2>> \in okay,
           \A c \in Clients : /\ rm'[c].attached = rm[c].attached /\ rm'[c].exit = rm[c].exit
                              /\ rm'[c].pc = "exited" => rm[c].pc = "exited"
                              /\ rm'[c].pc = "owner" => batch'[c][1][2] # 2,
           \A h \in joining' : h[2] # 2, \A i \in 1 .. Len(svc') : svc'[i][2] # 2
    PROVE  SessionInv'
<1>1. ASSUME NEW c \in Clients PROVE SessionOf(c)'
  <2>1. SessionOf(c)
    BY Zenon DEF SessionInv
  <2> QED BY <2>1, SessionSame, Zenon
<1> QED BY <1>1, Zenon DEF SessionInv

\* A step of client c alone.
LEMMA ClientSession ==
    ASSUME SessionInv, NEW c \in Clients, SessionOf(c)', ~faulty => ~faulty',
           \A d \in Clients : d # c => cli'[d] = cli[d] /\ at'[d] = at[d],
           UNCHANGED <<job, okay, slot, rm, batch, failed, main, joining, svc>>
    PROVE  SessionInv'
<1>1. ASSUME NEW d \in Clients, d # c PROVE SessionOf(d)'
  <2>1. SessionOf(d)
    BY Zenon DEF SessionInv
  <2>2. rm'[d].pc = "owner" => batch'[d][1][2] # 2
    BY <2>1, Zenon DEF SessionOf
  <2> QED BY <1>1, <2>1, <2>2, SessionSame, Zenon
<1> QED BY <1>1, Zenon DEF SessionInv

\* A step that leaves the server alone changes what c may rely on only by leaving.
LEMMA ClientStep ==
    ASSUME SessionInv, NEW c \in Clients, ~faulty => ~faulty',
           UNCHANGED <<job, okay, slot, rm, batch, failed, main>>, Left(c) => Left(c)', at'[c] >= at[c],
           at[c] \in Nat, at'[c] \in Nat,
           cli'[c] = "off" => at'[c] = 0, cli'[c] = "wait" => at'[c] > 0,
           at'[c] > 1 \/ (at'[c] = 1 /\ cli'[c] = "idle") => <<c, 1>> \in okay,
           cli'[c] = "failed" => at'[c] <= 2, cli'[c] = "pull" => at'[c] > 2
    PROVE  SessionOf(c)'
<1>1. SessionOf(c)
  BY Zenon DEF SessionInv
<1> QED BY <1>1 DEF SessionOf

LEMMA InitRpcSession == ASSUME OwnInv, SessionInv, NEW c \in Clients, unifyfs_client_rpc_init(c) PROVE SessionInv'
<1>1. /\ UNCHANGED <<job, faulty, at, okay, slot, rm, batch, failed, main, joining, svc>>
      /\ cli[c] = "off" /\ cli' = [cli EXCEPT ![c] = "idle"]
  BY Zenon DEF unifyfs_client_rpc_init, netVars, appVars, rmVars, mainVars, svcVars
<1>2. cli'[c] = "idle" /\ \A d \in Clients : d # c => cli'[d] = cli[d]
  BY <1>1, Parts, Zenon DEF ReqTypeOK
<1>3. SessionOf(c) /\ at[c] \in Nat
  BY Parts, Zenon DEF SessionInv, ReqTypeOK
<1>4. at[c] = 0 /\ at'[c] = 0 /\ 0 \in Nat
  BY <1>1, <1>3, Zenon DEF SessionOf
<1>5. Left(c) => Left(c)'
  BY <1>1, <1>2, Zenon DEF Left, Kind, Calls
<1>6. SessionOf(c)'
  <2>1. /\ at[c] \in Nat /\ at'[c] \in Nat /\ at'[c] >= at[c] /\ ~(at'[c] > 1 \/ (at'[c] = 1 /\ cli'[c] = "idle"))
        /\ cli'[c] # "off" /\ cli'[c] # "wait" /\ cli'[c] # "failed" /\ cli'[c] # "pull"
    BY <1>2, <1>4
  <2>2. UNCHANGED <<job, okay, slot, rm, batch, failed, main>> /\ (~faulty => ~faulty')
    BY <1>1, Zenon
  <2> QED BY <1>5, <2>1, <2>2, ClientStep, Zenon
<1> QED BY <1>1, <1>2, <1>6, ClientSession, Zenon

LEMMA ForwardSession == ASSUME OwnInv, SessionInv, NEW c \in Clients, NEW k, Forward(c, k) PROVE SessionInv'
<1>1. /\ UNCHANGED <<job, faulty, okay, slot, rm, batch, failed, main, joining, svc>>
      /\ c \in Started /\ cli[c] = "idle" /\ at[c] < Len(Calls(c))
      /\ at' = [at EXCEPT ![c] = at[c] + 1] /\ cli' = [cli EXCEPT ![c] = "wait"]
  BY Zenon DEF Forward, appVars, rmVars, mainVars, svcVars
<1>2. /\ cli'[c] = "wait" /\ at'[c] = at[c] + 1 /\ at[c] \in Nat
      /\ \A d \in Clients : d # c => cli'[d] = cli[d] /\ at'[d] = at[d]
  BY <1>1, Parts, Zenon DEF ReqTypeOK
<1>3. SessionOf(c) /\ job \in Jobs
  BY Parts, Zenon DEF SessionInv, ReqTypeOK
<1>4. ~(at[c] > 0 /\ Kind(<<c, at[c]>>) = "unmount")
  BY <1>1, <1>2, <1>3, CallKinds
<1>5. Left(c) => Left(c)'
  BY <1>1, <1>2, <1>4, Zenon DEF Left
<1>6. at[c] > 1 \/ at[c] = 1 => <<c, 1>> \in okay
  BY <1>1, <1>3, Zenon DEF SessionOf
<1>7. SessionOf(c)'
  BY <1>1, <1>2, <1>5, <1>6, ClientStep
<1> QED BY <1>1, <1>2, <1>7, ClientSession, Zenon

\* A response, or the end of the wait for one.
LEMMA OverSession ==
    ASSUME OwnInv, SessionInv, NEW c \in Clients, cli[c] = "wait", ~faulty => ~faulty',
           UNCHANGED <<job, at, okay, slot, rm, batch, failed, main, joining, svc>>,
           NEW ok, ok => <<c, at[c]>> \in okay,
           NEW s, cli' = [cli EXCEPT ![c] = s],
           \/ s = "pull" /\ Kind(<<c, at[c]>>) \in {"node_local_extents_get", "get_gfids"}
           \/ s = After(c, ok)
    PROVE  SessionInv'
<1>1. /\ cli'[c] = s /\ at[c] \in Nat /\ at'[c] = at[c]
      /\ \A d \in Clients : d # c => cli'[d] = cli[d] /\ at'[d] = at[d]
  BY Parts, Zenon DEF ReqTypeOK
<1>2. SessionOf(c) /\ job \in Jobs
  BY Parts, Zenon DEF SessionInv, ReqTypeOK
<1>3. at[c] > 0
  BY <1>2, Zenon DEF SessionOf
<1>4. c \in Started /\ at[c] <= Len(Calls(c)) /\ Len(Calls(c)) >= 3 /\ Len(Calls(c)) \in Nat
  BY <1>2, <1>3, Parts, CallKinds DEF ReqTypeOK
<1>5. /\ Kind(<<c, at[c]>>) = "mount" <=> at[c] = 1
      /\ Kind(<<c, at[c]>>) = "attach" <=> at[c] = 2
  BY <1>1, <1>2, <1>3, <1>4, CallKinds
<1>6. s # "off" /\ s # "wait" /\ s # "dead"
  BY AfterState, Zenon
<1>7. s = "pull" => at[c] > 2
  BY <1>1, <1>3, <1>5, AfterState
<1>8. s = "failed" => at[c] <= 2
  BY <1>1, <1>5 DEF After
<1>9. at[c] = 1 /\ s = "idle" => <<c, 1>> \in okay
  BY <1>1, <1>5, Zenon DEF After
<1>10. at[c] > 1 => <<c, 1>> \in okay
  BY <1>2, Zenon DEF SessionOf
<1>11. Left(c) => Left(c)'
  BY <1>1, Zenon DEF Left, Kind, Calls
<1>12. SessionOf(c)'
  BY <1>1, <1>6, <1>7, <1>8, <1>9, <1>10, <1>11, ClientStep
<1> QED BY <1>1, <1>12, ClientSession, Zenon

LEMMA ResponseSession == ASSUME OwnInv, SessionInv, NEW c \in Clients, margo_forward_timed(c) PROVE SessionInv'
<1>1. UNCHANGED <<job, faulty, at, okay, slot, rm, batch, failed, main, joining, svc>> /\ cli[c] = "wait"
  BY Zenon DEF margo_forward_timed, netVars, appVars, rmVars, mainVars, svcVars
<1>2. PICK ok : ok = (<<c, at[c]>> \in okay)
  BY Zenon
<1>3. PICK s : s = IF Pulls(<<c, at[c]>>) THEN "pull" ELSE After(c, <<c, at[c]>> \in okay)
  BY Zenon
<1>4. cli' = [cli EXCEPT ![c] = s]
  BY <1>3, Zenon DEF margo_forward_timed
<1>5. \/ s = "pull" /\ Kind(<<c, at[c]>>) \in {"node_local_extents_get", "get_gfids"}
      \/ s = After(c, ok)
  BY <1>2, <1>3, Zenon DEF Pulls
<1> QED BY <1>1, <1>2, <1>4, <1>5, OverSession, Zenon

LEMMA TimeoutSession == ASSUME OwnInv, SessionInv, NEW c \in Clients, ForwardTimeout(c) PROVE SessionInv'
<1>1. UNCHANGED <<job, at, okay, slot, rm, batch, failed, main, joining, svc>> /\ cli[c] = "wait"
  BY Zenon DEF ForwardTimeout, netVars, appVars, rmVars, mainVars, svcVars
<1>2. ~faulty => ~faulty'
  BY Zenon DEF ForwardTimeout, Fault, NoFault
<1>3. PICK s : s = After(c, FALSE)
  BY Zenon
<1>4. cli' = [cli EXCEPT ![c] = s]
  BY <1>3, Zenon DEF ForwardTimeout
<1> QED BY <1>1, <1>2, <1>3, <1>4, OverSession, Zenon

LEMMA PullSession == ASSUME OwnInv, SessionInv, NEW c \in Clients, pull_margo_bulk_buffer(c) PROVE SessionInv'
<1>1. /\ UNCHANGED <<job, faulty, at, okay, slot, rm, batch, failed, main, joining, svc>>
      /\ cli[c] = "pull" /\ cli' = [cli EXCEPT ![c] = "idle"]
  BY Zenon DEF pull_margo_bulk_buffer, netVars, appVars, rmVars, mainVars, svcVars
<1>2. cli'[c] = "idle" /\ at[c] \in Nat /\ at'[c] = at[c] /\ \A d \in Clients : d # c => cli'[d] = cli[d]
  BY <1>1, Parts, Zenon DEF ReqTypeOK
<1>3. SessionOf(c)
  BY Zenon DEF SessionInv
<1>4. at[c] > 2 /\ <<c, 1>> \in okay
  BY <1>1, <1>2, <1>3 DEF SessionOf
<1>5. Left(c) => Left(c)'
  BY <1>1, <1>2, Zenon DEF Left, Kind, Calls
<1>6. SessionOf(c)'
  BY <1>1, <1>2, <1>4, <1>5, ClientStep
<1> QED BY <1>1, <1>2, <1>6, ClientSession, Zenon

LEMMA DieSession == ASSUME OwnInv, SessionInv, NEW c \in Clients, Die(c) PROVE SessionInv'
<1>1. /\ UNCHANGED <<job, at, okay, slot, rm, batch, failed, main, joining, svc>> /\ ~faulty'
      /\ at[c] > 1 /\ cli' = [cli EXCEPT ![c] = "dead"]
  BY Zenon DEF Die, Fault, netVars, appVars, rmVars, mainVars, svcVars
<1>2. cli'[c] = "dead" /\ at[c] \in Nat /\ at'[c] = at[c] /\ \A d \in Clients : d # c => cli'[d] = cli[d]
  BY <1>1, Parts, Zenon DEF ReqTypeOK
<1>3. SessionOf(c)
  BY Zenon DEF SessionInv
<1>4. <<c, 1>> \in okay
  BY <1>1, <1>3, Zenon DEF SessionOf
<1>5. Left(c)'
  BY <1>2, Zenon DEF Left
<1>6. SessionOf(c)'
  BY <1>1, <1>2, <1>4, <1>5, ClientStep
<1> QED BY <1>1, <1>2, <1>6, ClientSession, Zenon

\* A response adds its handle at most to those answered with success.
LEMMA AnswerOkay ==
    ASSUME NEW x, NEW ok, Answer(x, ok)
    PROVE  okay \subseteq okay' /\ okay' \subseteq okay \cup {x}
  BY Zenon DEF Answer

LEMMA AnswerNot == ASSUME NEW x, Answer(x, FALSE) PROVE okay' = okay
  BY Zenon DEF Answer

\* The second call of a client is its attach.
LEMMA SecondIsAttach ==
    ASSUME OwnInv, NEW c \in Clients, rm[c].pc \in {"work", "owner"}
    PROVE  Hdl(c)[2] = 2 <=> Kind(Hdl(c)) = "attach"
<1>1. CASE Hdl(c)[2] = 0
  BY <1>1 DEF Kind
<1>2. CASE Hdl(c)[2] # 0
  <2>1. Hdl(c) \in Handles /\ InBatch(Hdl(c))
    BY <1>2, HdlFacts, Zenon
  <2> QED BY <2>1, Called, Zenon
<1> QED BY <1>1, <1>2, Zenon

LEMMA OwnerStays ==
    ASSUME SessionInv, NEW d \in Clients, rm[d].pc = "owner", batch'[d] = batch[d]
    PROVE  batch'[d][1][2] # 2
  BY Zenon DEF SessionInv, SessionOf

LEMMA Unmoved ==
    ASSUME SessionInv, UNCHANGED <<joining, svc>>
    PROVE  (\A h \in joining' : h[2] # 2) /\ (\A i \in 1 .. Len(svc') : svc'[i][2] # 2)
  BY Zenon DEF SessionInv

\* A step that leaves the threads alone and answers at most x.
LEMMA HandlerStep ==
    ASSUME SessionInv, UNCHANGED <<job, cli, at, slot, rm, batch, main, failed>>, ~faulty => ~faulty',
           okay \subseteq okay', \A c \in Clients : <<c, 2>> \in okay' => <<c, 2>> \in okay,
           \A h \in joining' : h[2] # 2, \A i \in 1 .. Len(svc') : svc'[i][2] # 2
    PROVE  SessionInv'
<1>1. \A c \in Clients : rm'[c].pc = "owner" => batch'[c][1][2] # 2
  BY OwnerStays, Zenon
<1> QED BY <1>1, NoSession, Zenon

LEMMA HandlerSession == ASSUME OwnInv, SessionInv, NEW k, Handler(k) PROVE SessionInv'
<1>1. /\ UNCHANGED <<job, cli, at, slot, rm, batch, main, failed, joining, svc>>
  BY Zenon DEF Handler, cliVars, appVars, mainVars, svcVars
<1>2. (~faulty => ~faulty') /\ okay' = okay
  BY DEF Answer, Handler, Fault, NoFault
<1> QED BY <1>1, <1>2, HandlerStep, Unmoved, Zenon

LEMMA MountSession == ASSUME OwnInv, SessionInv, unifyfs_mount_rpc PROVE SessionInv'
<1>1. /\ UNCHANGED <<job, cli, at, slot, rm, batch, main, failed, joining, svc>>
  BY Zenon DEF unifyfs_mount_rpc, cliVars, rmVars, mainVars, svcVars
<1>2. (~faulty => ~faulty') /\ okay' = okay
  BY DEF Answer, unifyfs_mount_rpc, Fault, NoFault
<1> QED BY <1>1, <1>2, HandlerStep, Unmoved, Zenon

LEMMA DisconnectSession == ASSUME OwnInv, SessionInv, disconnect_app_client PROVE SessionInv'
<1>1. UNCHANGED <<job, faulty, cli, at, slot, rm, batch, main, failed, svc>>
  BY Zenon DEF disconnect_app_client, cliVars, appVars, rmVars, svcVars
<1>2. PICK h \in joining : joining' = joining \ {h} /\ Answer(h, TRUE)
  BY Zenon DEF disconnect_app_client
<1>3. h[2] # 2 /\ (\A x \in joining' : x[2] # 2) /\ (\A i \in 1 .. Len(svc') : svc'[i][2] # 2)
  BY <1>1, <1>2, Zenon DEF SessionInv
<1>4. okay \subseteq okay' /\ \A c \in Clients : <<c, 2>> \in okay' => <<c, 2>> \in okay
  BY <1>2, <1>3 DEF Answer
<1> QED BY <1>1, <1>3, <1>4, HandlerStep, Zenon

LEMMA SyncSession == ASSUME OwnInv, SessionInv, process_pending_sync PROVE SessionInv'
<1>1. UNCHANGED <<job, cli, at, slot, rm, batch, main, failed, joining>>
  BY Zenon DEF process_pending_sync, cliVars, appVars, rmVars, mainVars
<1>2. (~faulty => ~faulty') /\ svc # <<>> /\ svc' = Tail(svc)
  BY Zenon DEF process_pending_sync, Fault, NoFault
<1>3. PICK ok : Answer(Head(svc), ok)
  BY Zenon DEF process_pending_sync
<1>4. svc \in Seq(Handles)
  BY Parts, Zenon DEF ReqTypeOK
<1>5. Head(svc) = svc[1] /\ 1 \in 1 .. Len(svc) /\ \A i \in 1 .. Len(svc') : svc'[i] = svc[i + 1] /\ i + 1 \in 1 .. Len(svc)
  BY <1>2, <1>4, TailFacts
<1>6. Head(svc)[2] # 2 /\ (\A x \in joining' : x[2] # 2) /\ (\A i \in 1 .. Len(svc') : svc'[i][2] # 2)
  BY <1>1, <1>5, Zenon DEF SessionInv
<1>7. okay \subseteq okay' /\ \A c \in Clients : <<c, 2>> \in okay' => <<c, 2>> \in okay
  BY <1>3, <1>6, AnswerOkay
<1> QED BY <1>1, <1>2, <1>6, <1>7, HandlerStep, Zenon

LEMMA PeerSession ==
    ASSUME OwnInv, SessionInv, NEW ks, PeerHandler(ks) \/ PeerServes(ks) \/ Interval
    PROVE  SessionInv'
<1>1. UNCHANGED <<job, faulty, cli, at, slot, rm, batch, main, failed, okay, joining, svc>>
  <2>1. CASE PeerHandler(ks)
    BY <2>1, Zenon DEF PeerHandler, cliVars, netVars, appVars, rmVars, mainVars
  <2>2. CASE PeerServes(ks)
    BY <2>2, Zenon DEF PeerServes, cliVars, netVars, appVars, rmVars, mainVars
  <2>3. CASE Interval
    BY <2>3, Zenon DEF Interval, cliVars, netVars, appVars, rmVars, svcVars
  <2> QED BY <2>1, <2>2, <2>3, Zenon
<1> QED BY <1>1, HandlerStep, Unmoved, Zenon

LEMMA StutterSession == ASSUME OwnInv, SessionInv, UNCHANGED reqVars PROVE SessionInv'
<1>1. UNCHANGED <<job, faulty, cli, at, slot, rm, batch, main, failed, okay, joining, svc>>
  BY Zenon DEF reqVars, cliVars, netVars, appVars, rmVars, mainVars, svcVars
<1> QED BY <1>1, HandlerStep, Unmoved, Zenon

\* The mount is answered and the thread of the client starts: it has not attached yet.
LEMMA NewClientSession == ASSUME OwnInv, SessionInv, new_app_client PROVE SessionInv'
<1>1. PICK m \in mounting :
          \/ Fault("thread") /\ Answer(m.h, FALSE) /\ UNCHANGED <<slot, rm>>
          \/ /\ NoFault /\ Answer(m.h, TRUE) /\ slot' = [slot EXCEPT ![m.h[1]] = "new"]
             /\ rm' = [rm EXCEPT ![m.h[1]] = unifyfs_rm_thrd_create]
  BY Zenon DEF new_app_client
<1>2. UNCHANGED <<job, cli, at, batch, main, failed, joining, svc>>
  BY Zenon DEF new_app_client, cliVars, mainVars, svcVars
<1>3. CASE Fault("thread") /\ Answer(m.h, FALSE) /\ UNCHANGED <<slot, rm>>
  <2>1. (~faulty => ~faulty') /\ okay' = okay
    BY <1>3, AnswerNot, Zenon DEF Fault
  <2> QED BY <1>2, <1>3, <2>1, HandlerStep, Unmoved, Zenon
<1>4. CASE /\ NoFault /\ Answer(m.h, TRUE) /\ slot' = [slot EXCEPT ![m.h[1]] = "new"]
           /\ rm' = [rm EXCEPT ![m.h[1]] = unifyfs_rm_thrd_create]
  <2>1. m.h \in Handles /\ m.h[2] = 1 /\ InMount(m.h)
    BY Zenon DEF OwnInv, ReqTypeOK, InMount
  <2>2. PICK c \in Clients : c = m.h[1] /\ m.h = <<c, 1>>
    BY <2>1, HandleParts, Zenon
  <2>3. answers[<<c, 1>>] = 0
    BY <2>1, <2>2, Parts DEF OneOwner, ReqTypeOK
  <2>4. okay \subseteq okay' /\ okay' \subseteq okay \cup {<<c, 1>>}
    BY <1>4, <2>2, AnswerOkay, Zenon
  <2>5. \A d \in Clients : <<d, 2>> \in okay' => <<d, 2>> \in okay
    BY <2>4
  <2>6. slot'[c] = "new" /\ \A d \in Clients : d # c => slot'[d] = slot[d] /\ rm'[d] = rm[d]
    BY <1>4, <2>2, Parts, Zenon DEF ReqTypeOK
  <2>7. rm'[c].pc = "cb" /\ ~rm'[c].attached /\ ~rm'[c].exit
    BY <1>4, <2>2, Parts, Zenon DEF ReqTypeOK, unifyfs_rm_thrd_create
  <2>8. <<c, 2>> \notin okay
    <3> SUFFICES ASSUME <<c, 2>> \in okay PROVE FALSE
      BY Zenon
    <3>1. <<c, 2>> \in Handles /\ answers[<<c, 2>>] > 0
      BY Parts, Zenon DEF ReqTypeOK
    <3>2. 2 <= at[c] /\ at[c] \in Nat
      BY <3>1, Called, Parts, Zenon DEF ReqTypeOK
    <3>3. <<c, 1>> \in okay
      BY <3>2 DEF SessionInv, SessionOf
    <3>4. answers[<<c, 1>>] > 0
      BY <2>1, <2>2, <3>3, Parts, Zenon
    <3> QED BY <2>3, <3>4
  <2>9. SessionOf(c)'
    <3>1. SessionOf(c) /\ (Left(c) => Left(c)')
      BY <1>2, <1>4, LeftStays, Zenon DEF SessionInv, NoFault
    <3> QED BY <1>2, <2>4, <2>5, <2>7, <2>8, <3>1, Zenon DEF SessionOf
  <2>10. ASSUME NEW d \in Clients, d # c PROVE SessionOf(d)'
    <3>1. SessionOf(d) /\ (rm'[d].pc = "owner" => batch'[d][1][2] # 2)
      BY <1>2, <2>6, <2>10, OwnerStays, Zenon DEF SessionInv
    <3> QED BY <1>2, <1>4, <2>4, <2>5, <2>6, <2>10, <3>1, SessionSame, Zenon DEF NoFault
  <2> QED BY <1>2, <2>9, <2>10, Unmoved, Zenon DEF SessionInv
<1> QED BY <1>1, <1>3, <1>4, Zenon

\* Unmount is the last call: the client has left.
LEMMA UnmountSession == ASSUME OwnInv, SessionInv, unifyfs_unmount_rpc PROVE SessionInv'
<1>1. UNCHANGED <<job, cli, at, batch, main, failed, svc>>
  BY Zenon DEF unifyfs_unmount_rpc, cliVars, svcVars
<1>2. PICK h \in net : /\ Kind(h) = "unmount" /\ okay \subseteq okay' /\ okay' \subseteq okay \cup {h}
                       /\ \/ UNCHANGED <<slot, rm, joining>>
                          \/ /\ slot' = [slot EXCEPT ![h[1]] = "down"] /\ rm' = [rm EXCEPT ![h[1]].exit = TRUE]
                             /\ joining' = joining \cup {h}
                       /\ ~faulty => ~faulty'
  <2>1. PICK h \in net : /\ Kind(h) = "unmount"
                         /\ \/ Fault("input") /\ Answer(h, FALSE) /\ UNCHANGED <<slot, rm, joining>>
                            \/ NoFault /\ Answer(h, FALSE) /\ UNCHANGED <<slot, rm, joining>>
                            \/ NoFault /\ Answer(h, TRUE) /\ UNCHANGED <<slot, rm, joining>>
                            \/ /\ NoFault /\ slot' = [slot EXCEPT ![h[1]] = "down"]
                               /\ rm' = [rm EXCEPT ![h[1]].exit = TRUE]
                               /\ joining' = joining \cup {h} /\ UNCHANGED <<answers, okay>>
    BY Zenon DEF unifyfs_unmount_rpc
  <2>2. ~faulty => ~faulty'
    BY <2>1, Zenon DEF Fault, NoFault
  <2>3. okay \subseteq okay' /\ okay' \subseteq okay \cup {h}
    BY <2>1, Zenon DEF Answer
  <2> QED BY <2>1, <2>2, <2>3, Zenon
<1>3. h \in Handles
  BY Parts, Zenon DEF ReqTypeOK
<1>4. /\ h[1] \in Started /\ h[2] = Len(Calls(h[1])) /\ h[2] <= at[h[1]] /\ h[2] \in 1 .. Len(Calls(h[1]))
  BY <1>2, <1>3, Called, Zenon
<1>5. PICK c \in Clients : c = h[1]
  BY <1>3, HandleParts, Zenon
<1>6. job \in Jobs /\ at[c] \in Nat /\ (at[c] > 0 => at[c] <= Len(Calls(c)))
  BY Parts, Zenon DEF ReqTypeOK
<1>7. Len(Calls(c)) \in 3 .. MaxCalls + 3
  BY <1>4, <1>5, <1>6, CallKinds, Zenon
<1>8. h[2] # 2 /\ at[c] = Len(Calls(c)) /\ at[c] > 0
  BY <1>4, <1>5, <1>6, <1>7
<1>9. Left(c) /\ Left(c)'
  <2>1. Kind(<<c, at[c]>>) = "unmount"
    BY <1>4, <1>5, <1>6, <1>7, <1>8, CallKinds, Zenon
  <2>2. Left(c)
    BY <1>8, <2>1, Zenon DEF Left
  <2> QED BY <1>1, <1>2, <2>2, LeftStays, Zenon
<1>10. /\ \A d \in Clients : d # c => slot'[d] = slot[d] /\ rm'[d] = rm[d]
       /\ rm'[c].attached = rm[c].attached /\ rm'[c].pc = rm[c].pc
  <2>1. CASE UNCHANGED <<slot, rm>>
    BY <2>1, Zenon
  <2>2. CASE slot' = [slot EXCEPT ![c] = "down"] /\ rm' = [rm EXCEPT ![c].exit = TRUE]
    <3>1. \A d \in Clients : d # c => slot'[d] = slot[d]
      BY <2>2, Parts, Zenon DEF ReqTypeOK
    <3>2. /\ \A d \in Clients : rm'[d].pc = rm[d].pc /\ rm'[d].attached = rm[d].attached
          /\ \A d \in Clients : d # c => rm'[d] = rm[d]
      BY <2>2, ExitFacts, Parts, Zenon DEF ReqTypeOK
    <3> QED BY <3>1, <3>2, Zenon
  <2> QED BY <1>2, <1>5, <2>1, <2>2, Zenon
<1>11. \A d \in Clients : <<d, 1>> \in okay => <<d, 1>> \in okay'
  BY <1>2, Zenon
<1>12. \A d \in Clients : <<d, 2>> \in okay' => <<d, 2>> \in okay
  BY <1>2, <1>8
<1>13. ASSUME NEW d \in Clients, d # c PROVE SessionOf(d)'
  <2>1. SessionOf(d) /\ (rm'[d].pc = "owner" => batch'[d][1][2] # 2)
    BY <1>1, <1>10, <1>13, OwnerStays, Zenon DEF SessionInv
  <2>2. rm'[d] = rm[d] /\ slot'[d] = slot[d]
    BY <1>10, <1>13, Zenon
  <2> QED BY <1>1, <1>2, <1>11, <1>12, <2>1, <2>2, SessionSame, Zenon
<1>14. SessionOf(c)'
  <2>1. SessionOf(c)
    BY Zenon DEF SessionInv
  <2> QED BY <1>1, <1>9, <1>10, <1>11, <2>1, Zenon DEF SessionOf
<1>15. (\A x \in joining' : x[2] # 2) /\ (\A i \in 1 .. Len(svc') : svc'[i][2] # 2)
  BY <1>1, <1>2, <1>8, Zenon DEF SessionInv
<1> QED BY <1>13, <1>14, <1>15, Zenon DEF SessionInv

-----------------------------------------------------------------------------
\* A step of thread c to a pc that is neither "owner" nor "exited".
LEMMA ThreadStep ==
    ASSUME OwnInv, SessionInv, NEW c \in Clients, UNCHANGED <<job, cli, at, slot, main, failed>>,
           ~faulty => ~faulty', okay \subseteq okay', \A d \in Clients : <<d, 2>> \in okay' => <<d, 2>> \in okay,
           \A d \in Clients : rm'[d].exit = rm[d].exit /\ rm'[d].attached = rm[d].attached,
           \A d \in Clients : d # c => rm'[d] = rm[d] /\ batch'[d] = batch[d],
           rm'[c].pc # "exited", rm'[c].pc = "owner" => batch'[c][1][2] # 2,
           \A h \in joining' : h[2] # 2, \A i \in 1 .. Len(svc') : svc'[i][2] # 2
    PROVE  SessionInv'
<1>1. ASSUME NEW d \in Clients
      PROVE  (rm'[d].pc = "exited" => rm[d].pc = "exited") /\ (rm'[d].pc = "owner" => batch'[d][1][2] # 2)
  <2>1. CASE d = c
    BY <2>1, Zenon
  <2>2. CASE d # c
    BY <2>2, OwnerStays, Zenon
  <2> QED BY <2>1, <2>2, Zenon
<1> QED BY <1>1, NoSession, Zenon

\* The thread goes to p.
LEMMA GotoFacts ==
    ASSUME OwnInv, NEW c \in Clients, NEW p, Goto(c, p)
    PROVE  /\ rm'[c].pc = p
           /\ \A d \in Clients : rm'[d].exit = rm[d].exit /\ rm'[d].attached = rm[d].attached
           /\ \A d \in Clients : d # c => rm'[d] = rm[d]
<1>1. rm \in [Clients -> [pc : ThreadPcs, attached : BOOLEAN, exit : BOOLEAN]] /\ rm' = [rm EXCEPT ![c].pc = p]
  BY Parts, Zenon DEF ReqTypeOK, Goto
<1>2. rm'[c].pc = p
  BY <1>1, Zenon
<1>3. \A d \in Clients : rm'[d].exit = rm[d].exit /\ rm'[d].attached = rm[d].attached
  BY <1>1, Zenon
<1>4. \A d \in Clients : d # c => rm'[d] = rm[d]
  BY <1>1, Zenon
<1> QED BY <1>2, <1>3, <1>4, Zenon

LEMMA CallbacksSession == ASSUME OwnInv, SessionInv, NEW c \in Clients, rm_process_client_callbacks(c) PROVE SessionInv'
<1>1. /\ UNCHANGED <<job, faulty, cli, at, okay, slot, batch, svc, joining, failed, main>> /\ Goto(c, "req")
  BY Zenon DEF rm_process_client_callbacks, netVars, appVars, mainVars, svcVars
<1> QED BY <1>1, GotoFacts, ThreadStep, Unmoved

LEMMA TakeSession == ASSUME OwnInv, SessionInv, NEW c \in Clients, rm_process_client_requests(c) PROVE SessionInv'
<1>1. /\ UNCHANGED <<job, faulty, cli, at, okay, slot, svc, joining, failed, main>>
      /\ batch' = [batch EXCEPT ![c] = q[c]]
  BY Zenon DEF rm_process_client_requests, cliVars, netVars, appVars, mainVars, svcVars
<1>2. PICK p \in {"beat", "work"} : p = IF q[c] = <<>> THEN "beat" ELSE "work"
  BY Zenon
<1>3. Goto(c, p)
  BY <1>2, Zenon DEF rm_process_client_requests
<1>4. \A d \in Clients : d # c => batch'[d] = batch[d]
  BY <1>1, Parts, Zenon DEF ReqTypeOK
<1> QED BY <1>1, <1>2, <1>3, <1>4, GotoFacts, ThreadStep, Unmoved

LEMMA FreeListSession == ASSUME OwnInv, SessionInv, NEW c \in Clients, FreeList(c) PROVE SessionInv'
<1>1. /\ UNCHANGED <<job, faulty, cli, at, okay, slot, svc, joining, failed, main>> /\ Done(c) /\ rm[c].pc = "free"
  BY Zenon DEF FreeList, Runs, cliVars, appVars, mainVars, svcVars
<1>2. /\ rm'[c].pc \in {"beat", "work"}
      /\ \A d \in Clients : d # c => rm'[d] = rm[d] /\ batch'[d] = batch[d]
      /\ \A d \in Clients : rm'[d].exit = rm[d].exit /\ rm'[d].attached = rm[d].attached
  BY <1>1, DoneFacts, Zenon
<1> QED BY <1>1, <1>2, ThreadStep, Unmoved, Zenon

\* A request other than attach is finished.
LEMMA FinishSession ==
    ASSUME OwnInv, SessionInv, NEW c \in Clients, rm[c].pc \in {"work", "owner"}, Hdl(c)[2] # 2,
           NEW ok \in BOOLEAN, Finish(c, ok), ~faulty => ~faulty',
           UNCHANGED <<job, cli, at, slot, svc, joining, failed, main>>
    PROVE  SessionInv'
<1>1. okay \subseteq okay' /\ okay' \subseteq okay \cup {Hdl(c)}
  BY Zenon DEF Finish, Respond, Answer
<1>2. \A d \in Clients : <<d, 2>> \in okay' => <<d, 2>> \in okay
  BY <1>1
<1>3. CASE Done(c)
  <2>1. /\ rm'[c].pc \in {"beat", "work"}
        /\ \A d \in Clients : d # c => rm'[d] = rm[d] /\ batch'[d] = batch[d]
        /\ \A d \in Clients : rm'[d].exit = rm[d].exit /\ rm'[d].attached = rm[d].attached
    BY <1>3, DoneFacts, Zenon
  <2> QED BY <1>1, <1>2, <2>1, ThreadStep, Unmoved, Zenon
<1>4. CASE Goto(c, "free") /\ UNCHANGED batch
  <2>1. /\ rm'[c].pc = "free"
        /\ \A d \in Clients : d # c => rm'[d] = rm[d] /\ batch'[d] = batch[d]
        /\ \A d \in Clients : rm'[d].exit = rm[d].exit /\ rm'[d].attached = rm[d].attached
    BY <1>4, GotoFacts, Zenon
  <2> QED BY <1>1, <1>2, <2>1, ThreadStep, Unmoved, Zenon
<1> QED BY <1>3, <1>4, Zenon DEF Finish

\* The owner is asked for a request other than attach.
LEMMA AskSession ==
    ASSUME OwnInv, SessionInv, NEW c \in Clients, Hdl(c)[2] # 2, forward_p2p_request(c),
           UNCHANGED <<job, faulty, cli, at, okay, slot, joining, failed, main>>
    PROVE  SessionInv'
<1>1. Goto(c, "owner") /\ UNCHANGED <<svc, batch>>
  BY Zenon DEF forward_p2p_request
<1>2. batch'[c][1][2] # 2
  BY <1>1, Zenon DEF Hdl
<1> QED BY <1>1, <1>2, GotoFacts, ThreadStep, Unmoved, Zenon

LEMMA AtOwnerSession ==
    ASSUME OwnInv, SessionInv, NEW c \in Clients, NEW k, k # "attach", AtOwner(c, k)
    PROVE  SessionInv'
<1>1. rm[c].pc = "work" /\ Kind(Hdl(c)) = k
  BY Zenon DEF AtOwner, Serving, Runs, Hdl
<1>2. Hdl(c)[2] # 2
  BY <1>1, SecondIsAttach, Zenon
<1>3. UNCHANGED <<job, faulty, cli, at, slot, joining, failed, main>>
  BY Zenon DEF AtOwner, cliVars, appVars, mainVars
<1>4. CASE Finish(c, TRUE) /\ UNCHANGED svcVars
  BY <1>1, <1>2, <1>3, <1>4, FinishSession, Zenon DEF svcVars
<1>5. CASE forward_p2p_request(c) /\ UNCHANGED <<answers, okay, buffers, dir>>
  BY <1>2, <1>3, <1>5, AskSession, Zenon
<1> QED BY <1>4, <1>5, Zenon DEF AtOwner

LEMMA UnlinkSession == ASSUME OwnInv, SessionInv, NEW c \in Clients, process_unlink_rpc(c) PROVE SessionInv'
<1>1. rm[c].pc = "work" /\ Kind(Hdl(c)) = "unlink"
  BY Zenon DEF process_unlink_rpc, Serving, Runs, Hdl
<1>2. Hdl(c)[2] # 2
  BY <1>1, SecondIsAttach, Zenon
<1>3. UNCHANGED <<job, faulty, cli, at, slot, joining, failed, main>>
  BY Zenon DEF process_unlink_rpc, cliVars, appVars, mainVars
<1>4. CASE Finish(c, TRUE) /\ UNCHANGED svcVars
  BY <1>1, <1>2, <1>3, <1>4, FinishSession, Zenon DEF svcVars
<1>5. CASE forward_p2p_request(c) /\ UNCHANGED <<answers, okay, buffers, dir>>
  BY <1>2, <1>3, <1>5, AskSession, Zenon
<1> QED BY <1>4, <1>5, Zenon DEF process_unlink_rpc

LEMMA WaitSession == ASSUME OwnInv, SessionInv, NEW c \in Clients, wait_for_p2p_request(c) PROVE SessionInv'
<1>1. rm[c].pc = "owner" /\ UNCHANGED <<job, cli, at, slot, svc, joining, failed, main>> /\ (~faulty => ~faulty')
  <2>1. rm[c].pc = "owner" /\ UNCHANGED <<job, cli, at, slot, svc, joining, failed, main>>
    BY Zenon DEF wait_for_p2p_request, Runs, cliVars, appVars, mainVars
  <2>2. NoFault \/ Fault("peer")
    BY Zenon DEF wait_for_p2p_request
  <2>3. ~faulty => ~faulty'
    BY <2>2, Zenon DEF Fault, NoFault
  <2> QED BY <2>1, <2>3, Zenon
<1>2. Hdl(c)[2] # 2
  BY <1>1, Zenon DEF SessionInv, SessionOf, Hdl
<1>3. PICK ok \in BOOLEAN : Finish(c, ok)
  BY Zenon DEF wait_for_p2p_request
<1> QED BY <1>1, <1>2, <1>3, FinishSession, Zenon

LEMMA FsyncSession == ASSUME OwnInv, SessionInv, NEW c \in Clients, process_fsync_rpc(c) PROVE SessionInv'
<1>1. /\ rm[c].pc = "work" /\ Kind(Hdl(c)) = "fsync" /\ svc' = Append(svc, Hdl(c)) /\ Done(c)
      /\ UNCHANGED <<job, faulty, cli, at, okay, slot, joining, failed, main>>
  BY Zenon DEF process_fsync_rpc, Serving, Runs, Hdl, cliVars, netVars, appVars, mainVars
<1>2. Hdl(c)[2] # 2
  BY <1>1, SecondIsAttach, Zenon
<1>3. /\ rm'[c].pc \in {"beat", "work"}
      /\ \A d \in Clients : d # c => rm'[d] = rm[d] /\ batch'[d] = batch[d]
      /\ \A d \in Clients : rm'[d].exit = rm[d].exit /\ rm'[d].attached = rm[d].attached
  BY <1>1, DoneFacts, Zenon
<1>4. svc \in Seq(Listable) /\ Hdl(c) \in Listable
  <2>1. svc \in Seq(Handles) /\ Handles \subseteq Listable
    BY HandleParts, Parts, Zenon DEF ReqTypeOK
  <2>2. svc \in Seq(Listable)
    BY <2>1
  <2> QED BY <1>1, <2>2, HdlFacts, Zenon
<1>5. \A i \in 1 .. Len(svc') : svc'[i][2] # 2
  <2>1. /\ Len(svc') = Len(svc) + 1 /\ Len(svc) \in Nat /\ svc'[Len(svc) + 1] = Hdl(c)
        /\ \A i \in 1 .. Len(svc) : svc'[i] = svc[i]
    BY <1>1, <1>4, AppendFacts
  <2>2. \A i \in 1 .. Len(svc') : i \in 1 .. Len(svc) \/ i = Len(svc) + 1
    BY <2>1
  <2> QED BY <1>2, <2>1, <2>2, Zenon DEF SessionInv
<1>6. \A h \in joining' : h[2] # 2
  BY <1>1, Zenon DEF SessionInv
<1> QED BY <1>1, <1>3, <1>5, <1>6, ThreadStep, Zenon

\* The thread of c attaches it.
LEMMA AttachSession == ASSUME OwnInv, SessionInv, NEW c \in Clients, process_attach_rpc(c) PROVE SessionInv'
<1>0. PICK ok \in BOOLEAN :
             /\ IF ok THEN NoFault /\ slot' = [slot EXCEPT ![c] = "live"] ELSE Fault("attach") /\ UNCHANGED slot
             /\ Answer(Hdl(c), ok)
             /\ \A d \in Clients : d # c => rm'[d] = rm[d]
             /\ rm'[c].pc = (IF Len(batch[c]) = 1 THEN "beat" ELSE "work")
             /\ rm'[c].attached = ok /\ rm'[c].exit = rm[c].exit
             /\ batch' = [batch EXCEPT ![c] = Tail(batch[c])]
  BY AttachFacts, Zenon
<1>1. /\ rm[c].pc = "work" /\ Kind(Hdl(c)) = "attach"
      /\ UNCHANGED <<job, cli, at, joining, svc, failed, main>>
  BY Zenon DEF process_attach_rpc, Serving, Runs, Hdl, cliVars, mainVars, svcVars
<1>2. Hdl(c) = <<c, 2>> /\ answers[<<c, 2>>] = 0 /\ <<c, 2>> \in Handles /\ at[c] >= 2 /\ at[c] \in Nat
  <2>1. Hdl(c)[2] = 2 /\ Hdl(c)[1] = c /\ Hdl(c) \in Handles /\ answers[Hdl(c)] = 0 /\ Hdl(c)[2] <= at[c]
    BY <1>1, SecondIsAttach, HdlFacts
  <2>2. Hdl(c) = <<c, 2>>
    BY <2>1, HandleParts, Zenon
  <2>3. at[c] \in Nat
    BY Parts, Zenon DEF ReqTypeOK
  <2> QED BY <2>1, <2>2, <2>3, Zenon
<1>3. <<c, 2>> \notin okay
  BY <1>2, Parts
<1>4. /\ okay \subseteq okay' /\ okay' \subseteq okay \cup {<<c, 2>>}
      /\ <<c, 2>> \in okay' => ok
  BY <1>0, <1>2, <1>3, Zenon DEF Answer
<1>5. /\ ~faulty => ~faulty'
      /\ ok => slot'[c] = "live"
      /\ \A d \in Clients : d # c => slot'[d] = slot[d]
  BY <1>0, Parts, Zenon DEF NoFault, Fault, ReqTypeOK
<1>6. \A d \in Clients : d # c => batch'[d] = batch[d]
  BY <1>0, Parts, Zenon DEF ReqTypeOK
<1>7. rm'[c].pc # "exited" /\ rm'[c].pc # "owner"
  BY <1>0, Zenon
<1>8. SessionOf(c)'
  <2>1. SessionOf(c) /\ (Left(c) => Left(c)')
    BY <1>1, <1>5, LeftStays, Zenon DEF SessionInv
  <2>2. /\ cli'[c] = "off" => at'[c] = 0
        /\ cli'[c] = "wait" => at'[c] > 0
        /\ at'[c] > 1 \/ (at'[c] = 1 /\ cli'[c] = "idle") => <<c, 1>> \in okay'
        /\ cli'[c] = "failed" => at'[c] <= 2
        /\ cli'[c] = "pull" => at'[c] > 2
    BY <1>1, <1>4, <2>1, Zenon DEF SessionOf
  <2>3. at'[c] > 1
    BY <1>1, <1>2
  <2>4. ASSUME main'.pc \in {"loop", "clean", "join"}, ~Left(c)'
        PROVE  /\ c \notin failed' /\ ~(main'.pc \in {"clean", "join"} /\ c \in main'.who)
               /\ ~(main'.pc = "join" /\ c = main'.cur)
               /\ ~rm'[c].exit /\ rm'[c].pc # "exited"
               /\ <<c, 2>> \in okay' => slot'[c] = "live" /\ rm'[c].attached
    <3>1. main.pc \in {"loop", "clean", "join"} /\ ~Left(c)
      BY <1>1, <2>1, <2>4, Zenon
    <3>2. /\ c \notin failed /\ ~(main.pc \in {"clean", "join"} /\ c \in main.who)
          /\ ~(main.pc = "join" /\ c = main.cur) /\ ~rm[c].exit
      BY <2>1, <3>1, Zenon DEF SessionOf
    <3>3. <<c, 2>> \in okay' => slot'[c] = "live" /\ rm'[c].attached
      BY <1>0, <1>4, <1>5, Zenon
    <3> QED BY <1>0, <1>1, <1>7, <3>2, <3>3, Zenon
  <2> QED BY <1>7, <2>2, <2>3, <2>4, Zenon DEF SessionOf
<1>9. ASSUME NEW d \in Clients, d # c PROVE SessionOf(d)'
  <2>1. SessionOf(d) /\ rm'[d] = rm[d] /\ batch'[d] = batch[d] /\ slot'[d] = slot[d]
    BY <1>0, <1>5, <1>6, <1>9, Zenon DEF SessionInv
  <2>2. rm'[d].pc = "owner" => batch'[d][1][2] # 2
    BY <2>1, OwnerStays, Zenon
  <2>3. (<<d, 1>> \in okay => <<d, 1>> \in okay') /\ (<<d, 2>> \in okay' => <<d, 2>> \in okay)
    BY <1>4, <1>9, Zenon
  <2> QED BY <1>1, <1>5, <2>1, <2>2, <2>3, SessionSame, Zenon
<1> QED BY <1>1, <1>8, <1>9, Unmoved, Zenon DEF SessionInv

\* A heartbeat is missed only by a client that has left.
LEMMA BeatExit ==
    ASSUME OwnInv, SessionInv, NEW c \in Clients, rm_heartbeat(c),
           ~Left(c)', main.pc \in {"loop", "clean", "join"}
    PROVE  c \notin failed' /\ ~rm'[c].exit /\ rm'[c].pc # "exited"
<1>0. /\ rm \in [Clients -> [pc : ThreadPcs, attached : BOOLEAN, exit : BOOLEAN]] /\ UNCHANGED <<job, cli, at>>
      /\ at[c] \in Nat
  BY Parts, Zenon DEF ReqTypeOK, rm_heartbeat, cliVars
<1>1. CASE NoFault /\ Goto(c, IF rm[c].exit THEN "exited" ELSE "cb") /\ UNCHANGED failed
  <2>1. ~Left(c)
    BY <1>0, <1>1, LeftStays, Zenon DEF NoFault
  <2>2. c \notin failed /\ ~rm[c].exit
    BY <2>1, Zenon DEF SessionInv, SessionOf
  <2>3. Goto(c, "cb")
    BY <1>1, <2>2, Zenon
  <2>4. rm'[c].pc = "cb" /\ rm'[c].exit = rm[c].exit
    BY <2>3, GotoFacts, Zenon
  <2> QED BY <1>1, <2>2, <2>4, Zenon
<1>2. ASSUME NEW ok \in BOOLEAN, rm[c].attached,
             IF ok = invoke_client_heartbeat_rpc(c) THEN NoFault ELSE ~ok /\ Fault("slow"),
             IF ok \/ NotFound(c) THEN UNCHANGED failed ELSE add_failed_client(c),
             rm' = [rm EXCEPT ![c].exit = @ \/ ~ok, ![c].pc = IF rm[c].exit \/ ~ok THEN "exited" ELSE "cb"]
      PROVE  c \notin failed' /\ ~rm'[c].exit /\ rm'[c].pc # "exited"
  <2>1. NoFault \/ Fault("slow")
    BY <1>2, Zenon
  <2>2. ~Left(c)
    BY <1>0, <2>1, LeftStays DEF NoFault, Fault
  <2>3. c \notin failed /\ ~rm[c].exit /\ at[c] > 1
    BY <1>2, <2>2, Zenon DEF SessionInv, SessionOf
  <2>4. ~Fault("slow")
    BY <1>0, Zenon DEF Left, Fault
  <2>5. invoke_client_heartbeat_rpc(c) /\ ok = invoke_client_heartbeat_rpc(c)
    <3>1. invoke_client_heartbeat_rpc(c)
      BY <2>2, <2>3, Zenon DEF Left, invoke_client_heartbeat_rpc, unifyfs_heartbeat_rpc, Alive
    <3> QED BY <1>2, <2>4, <3>1, Zenon
  <2>6. ok
    BY <2>5, Zenon
  <2>7. failed' = failed
    BY <1>2, <2>6, Zenon
  <2> PICK x \in BOOLEAN : x = (rm[c].exit \/ ~ok)
    BY Zenon
  <2> PICK u \in {"cb", "exited"} : u = IF x THEN "exited" ELSE "cb"
    BY Zenon
  <2>8. rm' = [rm EXCEPT ![c].exit = x, ![c].pc = u]
    BY <1>2, Zenon
  <2>9. rm'[c].exit = x /\ rm'[c].pc = u
    BY <1>0, <2>8, Zenon
  <2>10. ~x /\ u = "cb"
    BY <2>3, <2>6, Zenon
  <2> QED BY <2>3, <2>7, <2>9, <2>10, Zenon
<1> QED BY <1>1, <1>2, Zenon DEF rm_heartbeat

LEMMA HeartbeatSession == ASSUME OwnInv, SessionInv, NEW c \in Clients, rm_heartbeat(c) PROVE SessionInv'
<1>1. UNCHANGED <<job, cli, at, okay, slot, batch, svc, joining, main>>
  BY Zenon DEF rm_heartbeat, cliVars, netVars, appVars, svcVars
<1>2. failed' \subseteq failed \cup {c}
  <2>1. failed' = failed \/ failed' = failed \cup {c}
    BY Zenon DEF rm_heartbeat, add_failed_client
  <2> QED BY <2>1, Zenon
<1>3. ~faulty => ~faulty'
  <2>1. NoFault \/ Fault("slow")
    BY Zenon DEF rm_heartbeat
  <2> QED BY <2>1, Zenon DEF NoFault, Fault
<1>4. /\ \A d \in Clients : d # c => rm'[d] = rm[d]
      /\ rm'[c].pc \in {"cb", "exited"} /\ rm'[c].attached = rm[c].attached
  BY BeatFacts, Zenon
<1>5. ASSUME NEW d \in Clients, d # c PROVE SessionOf(d)'
  <2>1. SessionOf(d) /\ rm'[d] = rm[d] /\ (d \in failed' => d \in failed)
    BY <1>2, <1>4, <1>5, Zenon DEF SessionInv
  <2>2. rm'[d].pc = "owner" => batch'[d][1][2] # 2
    BY <1>1, <2>1, OwnerStays, Zenon
  <2> QED BY <1>1, <1>3, <2>1, <2>2, SessionSame, Zenon
<1>6. SessionOf(c)'
  <2>1. SessionOf(c) /\ (Left(c) => Left(c)')
    BY <1>1, <1>3, LeftStays, Zenon DEF SessionInv
  <2>2. main.pc \in {"loop", "clean", "join"} /\ ~Left(c)' => c \notin failed' /\ ~rm'[c].exit /\ rm'[c].pc # "exited"
    BY BeatExit, Zenon
  <2> QED BY <1>1, <1>4, <2>1, <2>2, Zenon DEF SessionOf
<1> QED BY <1>1, <1>5, <1>6, Unmoved, Zenon DEF SessionInv

-----------------------------------------------------------------------------
\* The main thread: it cleans up after clients that have left.
LEMMA MainStep ==
    ASSUME SessionInv, NEW c \in Clients, UNCHANGED <<job, cli, at, okay, batch>>, ~faulty => ~faulty',
           rm'[c].attached => rm[c].attached, rm'[c].pc = "owner" => rm[c].pc = "owner",
           main'.pc \in {"loop", "clean", "join"} /\ ~Left(c) =>
             /\ main.pc \in {"loop", "clean", "join"} /\ rm'[c] = rm[c] /\ slot'[c] = slot[c]
             /\ c \notin failed' /\ ~(main'.pc \in {"clean", "join"} /\ c \in main'.who)
             /\ ~(main'.pc = "join" /\ c = main'.cur)
    PROVE  SessionOf(c)'
<1>1. SessionOf(c) /\ (Left(c) => Left(c)')
  BY LeftStays, Zenon DEF SessionInv
<1> QED BY <1>1, Zenon DEF SessionOf

\* What the main thread cleans up after has left.
LEMMA Cleaned ==
    ASSUME SessionInv, NEW c \in Clients, ~Left(c), main.pc \in {"loop", "clean", "join"}
    PROVE  /\ c \notin failed /\ ~(main.pc \in {"clean", "join"} /\ c \in main.who)
           /\ ~(main.pc = "join" /\ c = main.cur)
  BY Zenon DEF SessionInv, SessionOf

LEMMA FailuresSession == ASSUME OwnInv, SessionInv, process_client_failures PROVE SessionInv'
<1>1. /\ UNCHANGED <<job, faulty, cli, at, okay, batch, slot, rm, joining, svc>>
      /\ main.pc = "loop" /\ main' = [main EXCEPT !.pc = "clean", !.who = failed] /\ failed' = {}
  BY Zenon DEF process_client_failures, cliVars, netVars, appVars, rmVars, svcVars
<1>2. main'.pc = "clean" /\ main'.who = failed
  BY <1>1, Parts, Zenon DEF ReqTypeOK
<1>3. ASSUME NEW c \in Clients PROVE SessionOf(c)'
  BY <1>1, <1>2, Cleaned, MainStep, Zenon
<1> QED BY <1>1, <1>3, Unmoved, Zenon DEF SessionInv

LEMMA ExitRequestSession == ASSUME OwnInv, SessionInv, exit_request PROVE SessionInv'
<1>1. UNCHANGED <<job, cli, at, okay, batch, slot, rm, failed, joining, svc>> /\ ~faulty'
  BY Zenon DEF exit_request, Fault, cliVars, netVars, appVars, rmVars, svcVars
<1>2. PICK w : w = {c \in Clients : slot[c] \in {"new", "live", "down"}}
  BY Zenon
<1>3. main' = [main EXCEPT !.pc = "exit", !.who = w]
  BY <1>2, Zenon DEF exit_request
<1>4. main'.pc = "exit"
  BY <1>3, Parts, Zenon DEF ReqTypeOK
<1>5. ASSUME NEW c \in Clients PROVE SessionOf(c)'
  BY <1>1, <1>4, MainStep, Zenon
<1> QED BY <1>1, <1>5, Unmoved, Zenon DEF SessionInv

LEMMA ExitSession == ASSUME OwnInv, SessionInv, unifyfs_exit PROVE SessionInv'
<1>1. /\ UNCHANGED <<job, faulty, cli, at, okay, batch, slot, rm, failed, joining, svc>>
      /\ main.pc \in {"clean", "exit"}
  BY Zenon DEF unifyfs_exit, cliVars, netVars, appVars, rmVars, svcVars
<1>2. PICK p \in {"loop", "gone"} : p = IF main.pc = "clean" THEN "loop" ELSE "gone"
  BY Zenon
<1>3. main' = [main EXCEPT !.pc = p]
  BY <1>2, Zenon DEF unifyfs_exit
<1>4. main'.pc = p /\ (p = "loop" => main.pc = "clean")
  BY <1>1, <1>2, <1>3, Parts, Zenon DEF ReqTypeOK
<1>5. ASSUME NEW c \in Clients PROVE SessionOf(c)'
  BY <1>1, <1>4, Cleaned, MainStep, Zenon
<1> QED BY <1>1, <1>5, Unmoved, Zenon DEF SessionInv

LEMMA CleanSession == ASSUME OwnInv, SessionInv, CleanNext PROVE SessionInv'
<1>0. PICK c \in main.who :
          /\ main.pc \in {"clean", "exit"}
          /\ slot' = [slot EXCEPT ![c] = IF slot[c] = "live" THEN "down" ELSE slot[c]]
          /\ rm' = [rm EXCEPT ![c].exit = TRUE]
          /\ main' = [pc |-> IF main.pc = "clean" THEN "join" ELSE "exitjoin", who |-> main.who \ {c}, cur |-> c]
          /\ UNCHANGED <<job, faulty, cli, at, okay, batch, svc, joining, failed>>
  BY Zenon DEF CleanNext, rm_request_exit, cliVars, netVars, svcVars
<1>1. c \in Clients
  BY Parts, Zenon DEF ReqTypeOK
<1>2. /\ \A d \in Clients : rm'[d].pc = rm[d].pc /\ rm'[d].attached = rm[d].attached
      /\ \A d \in Clients : d # c => rm'[d] = rm[d]
  BY <1>0, <1>1, ExitFacts, Parts, Zenon DEF ReqTypeOK
<1>3. \A d \in Clients : d # c => slot'[d] = slot[d]
  BY <1>0, <1>1, Parts, Zenon DEF ReqTypeOK
<1>4. main'.pc \in {"join", "exitjoin"} /\ (main'.pc = "join" => main.pc = "clean") /\ main'.cur = c /\ main'.who \subseteq main.who
  BY <1>0, Zenon
<1>5. ASSUME NEW d \in Clients PROVE SessionOf(d)'
  <2>1. main'.pc \in {"loop", "clean", "join"} /\ ~Left(d) => d # c /\ main.pc = "clean" /\ d \notin failed /\ d \notin main.who
    BY <1>4, <1>5, Cleaned, Zenon
  <2> QED BY <1>0, <1>2, <1>3, <1>4, <1>5, <2>1, MainStep, Zenon
<1> QED BY <1>0, <1>5, Unmoved, Zenon DEF SessionInv

LEMMA CleanupSession == ASSUME OwnInv, SessionInv, cleanup_app_client PROVE SessionInv'
<1>0. PICK c : c = main.cur
  BY Zenon
<1>1. /\ main.pc \in {"join", "exitjoin"}
      /\ slot' = [slot EXCEPT ![c] = "gone"] /\ rm' = [rm EXCEPT ![c] = NoThread]
      /\ main' = [main EXCEPT !.pc = IF main.pc = "join" THEN "clean" ELSE "exit"]
      /\ UNCHANGED <<job, faulty, cli, at, okay, batch, svc, joining, failed>>
  BY <1>0, Zenon DEF cleanup_app_client, unifyfs_rm_thrd_cleanup, cliVars, netVars, svcVars
<1>2. c \in Clients
  BY <1>0, Parts, Zenon DEF ReqTypeOK
<1>3. /\ \A d \in Clients : d # c => rm'[d] = rm[d] /\ slot'[d] = slot[d]
      /\ rm'[c].pc = "none" /\ ~rm'[c].attached
  BY <1>1, <1>2, Parts, Zenon DEF ReqTypeOK, NoThread
<1>4. main'.pc \in {"clean", "exit"} /\ (main'.pc = "clean" => main.pc = "join") /\ main'.who = main.who
  <2>1. PICK p \in {"clean", "exit"} : p = IF main.pc = "join" THEN "clean" ELSE "exit"
    BY Zenon
  <2>2. main' = [main EXCEPT !.pc = p]
    BY <1>1, <2>1, Zenon
  <2>3. main'.pc = p /\ main'.who = main.who
    BY <2>2, Parts, Zenon DEF ReqTypeOK
  <2> QED BY <1>1, <2>1, <2>3, Zenon
<1>5. ASSUME NEW d \in Clients PROVE SessionOf(d)'
  <2>1. main'.pc \in {"loop", "clean", "join"} /\ ~Left(d) => d # c /\ main.pc = "join" /\ d \notin failed /\ d \notin main.who
    BY <1>0, <1>4, <1>5, Cleaned, Zenon
  <2>2. (rm'[d].attached => rm[d].attached) /\ (rm'[d].pc = "owner" => rm[d].pc = "owner")
    BY <1>3, <1>5, Zenon
  <2> QED BY <1>1, <1>3, <1>4, <1>5, <2>1, <2>2, MainStep, Zenon
<1> QED BY <1>1, <1>5, Unmoved, Zenon DEF SessionInv

LEMMA InitSession == ASSUME ReqInit PROVE SessionInv
<1>1. /\ okay = {} /\ joining = {} /\ svc = <<>> /\ Len(svc) = 0 /\ failed = {} /\ main.pc = "loop"
      /\ \A c \in Clients : cli[c] = "off" /\ at[c] = 0
  BY Zenon DEF ReqInit
<1>2. \A c \in Clients : rm[c].pc = "none" /\ ~rm[c].attached /\ ~rm[c].exit
  BY Zenon DEF ReqInit, NoThread
<1>3. ASSUME NEW c \in Clients PROVE SessionOf(c)
  BY <1>1, <1>2 DEF SessionOf
<1> QED BY <1>1, <1>3 DEF SessionInv

LEMMA NextSession == ASSUME OwnInv, SessionInv, ReqNext PROVE SessionInv'
<1>1. ASSUME NEW c \in Clients, ClientCalls(c) PROVE SessionInv'
  <2>1. CASE unifyfs_client_rpc_init(c) \/ margo_forward_timed(c) \/ pull_margo_bulk_buffer(c)
    BY <2>1, InitRpcSession, ResponseSession, PullSession, Zenon
  <2>2. ASSUME NEW k, Forward(c, k) PROVE SessionInv'
    BY <2>2, ForwardSession, Zenon
  <2> QED BY <1>1, <2>1, <2>2, Zenon DEF ClientCalls, invoke_client_mount_rpc, invoke_client_attach_rpc,
        invoke_client_unmount_rpc, invoke_client_metaset_rpc, invoke_client_metaget_rpc,
        invoke_client_filesize_rpc, invoke_client_transfer_rpc, invoke_client_truncate_rpc,
        invoke_client_unlink_rpc, invoke_client_laminate_rpc, invoke_client_sync_rpc,
        invoke_client_mread_rpc, invoke_client_node_local_extents_get_rpc, invoke_client_get_gfids_rpc
<1>2. ASSUME NEW c \in Clients, request_manager_thread(c) PROVE SessionInv'
  <2>1. ASSUME NEW k, k # "attach", AtOwner(c, k) PROVE SessionInv'
    BY <2>1, AtOwnerSession, Zenon
  <2>2. CASE \/ rm_process_client_callbacks(c) \/ rm_process_client_requests(c) \/ rm_heartbeat(c)
             \/ process_attach_rpc(c) \/ process_unlink_rpc(c) \/ process_fsync_rpc(c)
             \/ wait_for_p2p_request(c) \/ FreeList(c)
    BY <2>2, CallbacksSession, TakeSession, HeartbeatSession, AttachSession, UnlinkSession, FsyncSession,
       WaitSession, FreeListSession, Zenon
  <2> QED BY <1>2, <2>1, <2>2, Zenon DEF request_manager_thread, process_metaget_rpc, process_metaset_rpc,
        process_filesize_rpc, process_truncate_rpc, process_laminate_rpc, process_transfer_rpc,
        process_node_local_extents_get_rpc, process_get_gfids, process_read_rpc
<1>3. ASSUME Handlers PROVE SessionInv'
  <2>1. ASSUME NEW k, Handler(k) PROVE SessionInv'
    BY <2>1, HandlerSession, Zenon
  <2>2. CASE unifyfs_mount_rpc \/ new_app_client \/ unifyfs_unmount_rpc \/ disconnect_app_client
    BY <2>2, MountSession, NewClientSession, UnmountSession, DisconnectSession, Zenon
  <2> QED BY <1>3, <2>1, <2>2, Zenon DEF Handlers, unifyfs_attach_rpc, unifyfs_metaset_rpc, unifyfs_metaget_rpc,
        unifyfs_filesize_rpc, unifyfs_transfer_rpc, unifyfs_truncate_rpc, unifyfs_unlink_rpc,
        unifyfs_laminate_rpc, unifyfs_fsync_rpc, unifyfs_mread_rpc, unifyfs_node_local_extents_get_rpc,
        unifyfs_get_gfids_rpc
<1>4. ASSUME ServiceManagers \/ Interval PROVE SessionInv'
  <2>1. ASSUME NEW ks, PeerHandler(ks) \/ PeerServes(ks) PROVE SessionInv'
    BY <2>1, PeerSession, Zenon
  <2>2. CASE Interval
    BY <2>2, PeerSession, Zenon
  <2>3. CASE process_pending_sync
    BY <2>3, SyncSession, Zenon
  <2>4. CASE PeerHandlers
    BY <2>1, <2>4, Zenon DEF PeerHandlers, peer_metaget_rpc, peer_metaset_rpc, peer_truncate_rpc, peer_laminate_rpc,
        peer_transfer_rpc, peer_find_extents_rpc, unlink_bcast_rpc, metaget_all_bcast_rpc
  <2>5. CASE process_service_requests
    BY <2>1, <2>5, Zenon DEF process_service_requests, peer_process_metaget_rpc, peer_process_metaset_rpc,
        peer_process_truncate_rpc, peer_process_laminate_rpc, peer_process_transfer_rpc,
        peer_process_find_extents_rpc, process_unlink_bcast, process_metaget_bcast_rpc
  <2> QED BY <1>4, <2>2, <2>3, <2>4, <2>5, Zenon DEF ServiceManagers
<1>5. ASSUME MainThread \/ exit_request PROVE SessionInv'
  BY <1>5, FailuresSession, CleanSession, CleanupSession, ExitSession, ExitRequestSession, Zenon DEF MainThread
<1>6. ASSUME NEW c \in Clients, ForwardTimeout(c) \/ Die(c) PROVE SessionInv'
  BY <1>6, TimeoutSession, DieSession, Zenon
<1> QED BY <1>1, <1>2, <1>3, <1>4, <1>5, <1>6, Zenon DEF ReqNext

LEMMA SessionServed == ASSUME OwnInv, SessionInv PROVE ServedWhileMounted
<1> SUFFICES ASSUME NEW c \in Clients, InSession(c), main.pc \in {"loop", "clean", "join"},
                    ~(job.fault = "slow" /\ ~faulty)
             PROVE  slot[c] = "live" /\ rm[c].attached /\ ~rm[c].exit /\ rm[c].pc # "exited"
  BY Zenon DEF ServedWhileMounted
<1>1. SessionOf(c) /\ at[c] \in Nat
  BY Parts, Zenon DEF SessionInv, ReqTypeOK
<1>2. cli[c] # "failed"
  BY <1>1 DEF SessionOf, InSession
<1>3. ~Left(c)
  BY <1>2, Zenon DEF Left, InSession, Alive
<1>4. <<c, 2>> \in okay
  BY Zenon DEF InSession
<1> QED BY <1>1, <1>3, <1>4, Zenon DEF SessionOf

\* Between a successful attach and its unmount a client is served, for any number of
\* clients and any jobs: its structure stays initialised and its thread runs and has
\* not been told to exit, whatever becomes of the other clients, unless a heartbeat
\* of a live client went unanswered or the server exits.
THEOREM ClientsAreServed == ReqSpec => []ServedWhileMounted
<1>1. ReqInit => OwnInv /\ SessionInv
  BY InitOwn, InitSession, Zenon
<1>2. (OwnInv /\ SessionInv) /\ [ReqNext]_reqVars => (OwnInv /\ SessionInv)'
  BY NextOwn, StutterOwn, NextSession, StutterSession, Zenon
<1>3. OwnInv /\ SessionInv => ServedWhileMounted
  BY SessionServed, Zenon
<1> QED BY <1>1, <1>2, <1>3, PTL DEF ReqSpec
====
