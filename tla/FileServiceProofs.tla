-------------------------- MODULE FileServiceProofs --------------------------
(***************************************************************************)
(* Proofs about the metadata service of the servers, for any number of     *)
(* clients, servers, blocks and calls: the requests and the threads that   *)
(* serve them belong together, and laminations are final.                  *)
(***************************************************************************)
EXTENDS FileService, WellFoundedInduction, TLAPS

------------------------------------------------------------------------------
(* The threads and the requests between them *)

\* Requests that somebody waits for: those of a client by name, and "add" of a server.
ClientOps == {"create", "truncate", "laminate", "read", "size"}
Personal(m) == m.op \in ClientOps \cup {"add"}

Messages ==
    [op : ClientOps, who : Clients] \cup [op : {"add"}, who : Servers, ext : Contents]
    \cup [op : {"sync", "b_create", "b_unlink"}] \cup [op : {"b_truncate"}, size : Sizes]
    \cup [op : {"b_laminate"}, size : Sizes, ext : Contents]

\* m is on its way to server d, or queued there.
CarriedIn(ch, q, d, m) ==
    \/ \E s \in Servers : \E i \in 1 .. Len(ch[s][d]) : ch[s][d][i] = m
    \/ \E i \in 1 .. Len(q[d]) : q[d][i] = m
Carried(d, m) == CarriedIn(chan, queue, d, m)

\* Two requests with a sender are of two senders.
Apart(m, n) == Personal(m) /\ Personal(n) => m.who # n.who
AloneIn(ch, q) ==
    /\ \A s, r \in Servers : \A i \in 1 .. Len(ch[s][Owner]), j \in 1 .. Len(ch[r][Owner]) :
          s # r \/ i # j => Apart(ch[s][Owner][i], ch[r][Owner][j])
    /\ \A i, j \in 1 .. Len(q[Owner]) : i # j => Apart(q[Owner][i], q[Owner][j])
    /\ \A s \in Servers : \A i \in 1 .. Len(ch[s][Owner]), j \in 1 .. Len(q[Owner]) :
          Apart(ch[s][Owner][i], q[Owner][j])
Alone == AloneIn(chan, queue)

\* Types of what the threads share.
Files == [exists : BOOLEAN, lam : BOOLEAN, size : Sizes, ext : Contents]

InodeOK ==
    /\ ex \subseteq Servers
    /\ lam \in [Servers -> BOOLEAN]
    /\ size \in [Servers -> Sizes]
    /\ ext \in [Servers -> Contents]
    /\ pend \in [Servers -> [who : SUBSET Clients, ext : Contents]]
QueueOK == queue \in [Servers -> Seq(Messages)] /\ chan \in [Servers -> [Servers -> Seq(Messages)]]
CallOK ==
    /\ call \in [Clients -> Calls \cup {Idle}]
    /\ DOMAIN ret = Clients
    /\ ref \in Files
    /\ nops \in Nat
StateOK == InodeOK /\ QueueOK /\ CallOK /\ DOMAIN th = Threads

\* w waits for the owner to answer a request of this kind.
Waits(w, op) ==
    \/ op = "add" /\ w \in Servers \ {Owner} /\ th[w].pc = "addrpc"
    \/ op \in ClientOps /\ w \in Clients /\ th[w].pc = "rpc" /\ call[w].op = op

\* A client waits for its own call.
ClientOK(c) ==
    /\ th[c].pc \in {"idle", "called", "rpc", "sync", "truncate", "laminate", "attr", "poll"}
    /\ th[c].pc = "idle" <=> call[c] = Idle
    /\ th[c].pc = "rpc" => call[c].op \in ClientOps
    /\ th[c].pc \in {"sync", "truncate", "laminate"} => call[c].op = th[c].pc
    /\ th[c].pc \in {"attr", "poll"} => call[c].op = "size"
    /\ th[c].pc \in {"truncate", "laminate"} => th[c].who = c
    /\ call[c].op = "sync" => call[c].first <= call[c].last
    /\ th[c].pc = "attr" => th[c].ok \in BOOLEAN /\ th[c].lam \in BOOLEAN /\ th[c].size \in Sizes

\* The syncs that server s has taken, or that wait for it, are of clients that wait for them.
ServerOK(s) ==
    /\ th[s].pc \in {"idle", "add"} \cup (IF s = Owner THEN {"truncate", "laminate", "radd"} ELSE {"addrpc"})
    /\ th[s].pc = "idle" => th[s] = Ready
    /\ pend[s].who # {} => pend[s].ext # Empty
    /\ \A c \in pend[s].who : Home[c] = s /\ th[c].pc = "sync"
    /\ th[s].pc \in {"add", "addrpc"} =>
          /\ th[s] = [pc |-> th[s].pc, who |-> th[s].who, ext |-> th[s].ext]
          /\ th[s].who \in SUBSET Clients /\ th[s].ext \in Contents /\ th[s].ext # Empty
          /\ \A c \in th[s].who : Home[c] = s /\ th[c].pc = "sync" /\ c \notin pend[s].who

\* What a request says is true of the thread that sent it.
MessageOK(d, m) ==
    /\ Personal(m) => d = Owner /\ Waits(m.who, m.op)
    /\ m.op = "add" => m.ext = th[m.who].ext
    /\ m.op \in {"b_create", "b_truncate", "b_laminate"} => d # Owner

\* The service manager of the owner works for a thread that waits, and whose request is gone.
OwnerOK ==
    /\ th[Owner].pc \in {"truncate", "laminate"} => Waits(th[Owner].who, th[Owner].pc)
    /\ th[Owner].pc = "radd" => Waits(th[Owner].who, "add") /\ th[Owner].ext = th[th[Owner].who].ext
    /\ th[Owner].pc \in {"truncate", "laminate", "radd"} =>
          \A m \in Messages : Carried(Owner, m) /\ Personal(m) => m.who # th[Owner].who

ThreadInv ==
    /\ StateOK /\ Alone /\ OwnerOK
    /\ \A c \in Clients : ClientOK(c)
    /\ \A s \in Servers : ServerOK(s)
    /\ \A d \in Servers, m \in Messages : Carried(d, m) => MessageOK(d, m)

------------------------------------------------------------------------------
(* Messages that are sent, delivered and served *)

\* A sequence without its i-th element.
LEMMA Removal ==
    ASSUME NEW S, NEW q \in Seq(S), NEW i \in 1 .. Len(q)
    PROVE  /\ WithoutNth(q, i) \in Seq(S)
           /\ Len(WithoutNth(q, i)) = Len(q) - 1
           /\ \A k \in 1 .. Len(WithoutNth(q, i)) :
                 WithoutNth(q, i)[k] = q[IF k < i THEN k ELSE k + 1]
<1> DEFINE a == SubSeq(q, 1, i - 1)
           b == SubSeq(q, i + 1, Len(q))
<1>1. a \in Seq(S) /\ Len(a) = i - 1 /\ \A k \in 1 .. Len(a) : a[k] = q[k]
  OBVIOUS
<1>2. b \in Seq(S) /\ Len(b) = Len(q) - i /\ \A k \in 1 .. Len(b) : b[k] = q[i + k]
  OBVIOUS
<1>3. WithoutNth(q, i) = a \o b
  BY Zenon DEF WithoutNth
<1> HIDE DEF a, b
<1>4. a \o b \in Seq(S) /\ Len(a \o b) = Len(q) - 1
  <2>0. a \in Seq(S) /\ b \in Seq(S)
    BY <1>1, <1>2, Zenon
  <2>1. a \o b \in Seq(S) /\ Len(a \o b) = Len(a) + Len(b)
    BY <2>0
  <2> QED BY <1>1, <1>2, <2>1
<1>5. ASSUME NEW k \in 1 .. Len(a \o b) PROVE (a \o b)[k] = q[IF k < i THEN k ELSE k + 1]
  <2>1. (a \o b)[k] = IF k <= Len(a) THEN a[k] ELSE b[k - Len(a)]
    BY <1>1, <1>2, <1>4
  <2> QED BY <1>1, <1>2, <1>4, <2>1
<1> QED BY <1>3, <1>4, <1>5, Zenon

\* A request to the owner.
LEMMA SendMoves ==
    ASSUME StateOK, NEW src \in Servers, NEW m \in Messages, Send(src, Owner, m), UNCHANGED queue
    PROVE  /\ chan' \in [Servers -> [Servers -> Seq(Messages)]]
           /\ \A d \in Servers, x \in Messages :
                 Carried(d, x)' => Carried(d, x) \/ (d = Owner /\ x = m)
           /\ Alone /\ (\A x \in Messages : Carried(Owner, x) => Apart(x, m)) => Alone'
<1>0. Owner \in Servers /\ chan \in [Servers -> [Servers -> Seq(Messages)]] /\ chan[src][Owner] \in Seq(Messages)
  BY OwnerAssumption, Zenon DEF StateOK, QueueOK
<1> DEFINE A == Append(chan[src][Owner], m)
           n == Len(chan[src][Owner])
<1>1. /\ A \in Seq(Messages) /\ Len(A) = n + 1 /\ n \in Nat
      /\ \A k \in 1 .. n : A[k] = chan[src][Owner][k]
      /\ A[n + 1] = m
  BY <1>0
<1>2. chan' = [chan EXCEPT ![src][Owner] = A]
  BY Zenon DEF Send
<1> HIDE DEF A
<1>3. chan' \in [Servers -> [Servers -> Seq(Messages)]]
  BY <1>0, <1>1, <1>2, Zenon
<1>4. chan'[src][Owner] = A /\ \A s, d \in Servers : s # src \/ d # Owner => chan'[s][d] = chan[s][d]
  BY <1>0, <1>2, Zenon
<1>5. ASSUME NEW s \in Servers, NEW d \in Servers, NEW k \in 1 .. Len(chan'[s][d])
      PROVE  \/ k \in 1 .. Len(chan[s][d]) /\ chan'[s][d][k] = chan[s][d][k]
             \/ s = src /\ d = Owner /\ k = n + 1 /\ chan'[s][d][k] = m
  BY <1>1, <1>4, SMTT(30)
<1>6. ASSUME NEW d \in Servers, NEW x \in Messages, Carried(d, x)'
      PROVE  Carried(d, x) \/ (d = Owner /\ x = m)
  <2>1. CASE \E s \in Servers : \E i \in 1 .. Len(chan'[s][d]) : chan'[s][d][i] = x
    <3>1. PICK s \in Servers : \E i \in 1 .. Len(chan'[s][d]) : chan'[s][d][i] = x
      BY <2>1, Zenon
    <3>2. PICK i \in 1 .. Len(chan'[s][d]) : chan'[s][d][i] = x
      BY <3>1, Zenon
    <3> QED BY <1>5, <3>2, Zenon DEF Carried, CarriedIn
  <2>2. CASE \E i \in 1 .. Len(queue[d]) : queue[d][i] = x
    BY <2>2, Zenon DEF Carried, CarriedIn
  <2> QED BY <1>6, <2>1, <2>2, Zenon DEF Carried, CarriedIn
<1>7. ASSUME Alone, \A x \in Messages : Carried(Owner, x) => Apart(x, m)
      PROVE  Alone'
  <2>1. \A s \in Servers : \A k \in 1 .. Len(chan[s][Owner]) :
            Apart(chan[s][Owner][k], m) /\ Apart(m, chan[s][Owner][k])
    <3> SUFFICES ASSUME NEW s \in Servers, NEW k \in 1 .. Len(chan[s][Owner])
                 PROVE  Apart(chan[s][Owner][k], m) /\ Apart(m, chan[s][Owner][k])
      BY Zenon
    <3>1. chan[s][Owner][k] \in Messages /\ Carried(Owner, chan[s][Owner][k])
      BY <1>0 DEF Carried, CarriedIn
    <3> QED BY <1>7, <3>1, Zenon DEF Apart
  <2>2. \A k \in 1 .. Len(queue[Owner]) : Apart(m, queue[Owner][k])
    <3> SUFFICES ASSUME NEW k \in 1 .. Len(queue[Owner]) PROVE Apart(m, queue[Owner][k])
      BY Zenon
    <3>1. queue[Owner][k] \in Messages /\ Carried(Owner, queue[Owner][k])
      BY <1>0 DEF Carried, CarriedIn, StateOK, QueueOK
    <3> QED BY <1>7, <3>1, Zenon DEF Apart
  <2>0. \A s \in Servers : \A k \in 1 .. Len(chan'[s][Owner]) :
          \/ k \in 1 .. Len(chan[s][Owner]) /\ chan'[s][Owner][k] = chan[s][Owner][k]
          \/ s = src /\ k = n + 1 /\ chan'[s][Owner][k] = m
    BY <1>0, <1>5, ZenonT(30)
  <2>3. ASSUME NEW s \in Servers, NEW r \in Servers, NEW j \in 1 .. Len(chan'[s][Owner]),
               NEW k \in 1 .. Len(chan'[r][Owner]), s # r \/ j # k
        PROVE  Apart(chan'[s][Owner][j], chan'[r][Owner][k])
    <3>1. \/ j \in 1 .. Len(chan[s][Owner]) /\ chan'[s][Owner][j] = chan[s][Owner][j]
          \/ s = src /\ j = n + 1 /\ chan'[s][Owner][j] = m
      BY <2>0, Zenon
    <3>2. \/ k \in 1 .. Len(chan[r][Owner]) /\ chan'[r][Owner][k] = chan[r][Owner][k]
          \/ r = src /\ k = n + 1 /\ chan'[r][Owner][k] = m
      BY <2>0, Zenon
    <3> QED BY <1>7, <2>1, <2>3, <3>1, <3>2, Zenon DEF Alone, AloneIn
  <2>4. ASSUME NEW s \in Servers, NEW j \in 1 .. Len(chan'[s][Owner]), NEW k \in 1 .. Len(queue[Owner])
        PROVE  Apart(chan'[s][Owner][j], queue[Owner][k])
    <3>1. \/ j \in 1 .. Len(chan[s][Owner]) /\ chan'[s][Owner][j] = chan[s][Owner][j]
          \/ chan'[s][Owner][j] = m
      BY <2>0, Zenon
    <3> QED BY <1>7, <2>2, <3>1, Zenon DEF Alone, AloneIn
  <2> QED BY <1>7, <2>3, <2>4 DEF Alone, AloneIn, Apart, Personal
<1> QED BY <1>3, <1>6, <1>7, Zenon

\* A broadcast of the owner or of another server: nobody waits for it.
LEMMA BroadcastMoves ==
    ASSUME StateOK, NEW src \in Servers, NEW m \in Messages, ~Personal(m),
           Broadcast(src, m), NEW q \in [Servers -> Seq(Messages)]
    PROVE  /\ chan' \in [Servers -> [Servers -> Seq(Messages)]]
           /\ \A d \in Servers, x \in Messages :
                 CarriedIn(chan', q, d, x) => CarriedIn(chan, q, d, x) \/ (d # src /\ x = m)
           /\ AloneIn(chan, q) => AloneIn(chan', q)
<1>0. /\ Owner \in Servers /\ chan \in [Servers -> [Servers -> Seq(Messages)]]
      /\ \A d \in Servers : chan[src][d] \in Seq(Messages)
  BY OwnerAssumption, Zenon DEF StateOK, QueueOK
<1> DEFINE A == [d \in Servers |-> IF d = src THEN chan[src][d] ELSE Append(chan[src][d], m)]
<1>1. A \in [Servers -> Seq(Messages)]
  BY <1>0
<1>2. \A d \in Servers : A[d] = IF d = src THEN chan[src][d] ELSE Append(chan[src][d], m)
  BY Zenon
<1>3. chan' = [chan EXCEPT ![src] = A]
  BY Zenon DEF Broadcast
<1> HIDE DEF A
<1>4. chan' \in [Servers -> [Servers -> Seq(Messages)]]
  BY <1>0, <1>1, <1>3, Zenon
<1>5. chan'[src] = A /\ \A s \in Servers : s # src => chan'[s] = chan[s]
  BY <1>0, <1>3, Zenon
<1>6. ASSUME NEW s \in Servers, NEW d \in Servers, NEW k \in 1 .. Len(chan'[s][d])
      PROVE  \/ k \in 1 .. Len(chan[s][d]) /\ chan'[s][d][k] = chan[s][d][k]
             \/ s = src /\ d # src /\ chan'[s][d][k] = m
  <2>1. chan[s][d] \in Seq(Messages)
    BY <1>0, Zenon
  <2>2. chan'[s][d] = IF s = src /\ d # src THEN Append(chan[s][d], m) ELSE chan[s][d]
    BY <1>2, <1>5, Zenon
  <2>3. CASE s = src /\ d # src
    BY <2>1, <2>2, <2>3
  <2>4. CASE ~(s = src /\ d # src)
    BY <2>2, <2>4, Zenon
  <2> QED BY <2>3, <2>4, Zenon
<1>7. ASSUME NEW d \in Servers, NEW x \in Messages, CarriedIn(chan', q, d, x)
      PROVE  CarriedIn(chan, q, d, x) \/ (d # src /\ x = m)
  <2>1. CASE \E s \in Servers : \E i \in 1 .. Len(chan'[s][d]) : chan'[s][d][i] = x
    <3>1. PICK s \in Servers : \E i \in 1 .. Len(chan'[s][d]) : chan'[s][d][i] = x
      BY <2>1, Zenon
    <3>2. PICK i \in 1 .. Len(chan'[s][d]) : chan'[s][d][i] = x
      BY <3>1, Zenon
    <3> QED BY <1>6, <3>2, Zenon DEF CarriedIn
  <2>2. CASE \E i \in 1 .. Len(q[d]) : q[d][i] = x
    BY <2>2, Zenon DEF CarriedIn
  <2> QED BY <1>7, <2>1, <2>2, Zenon DEF CarriedIn
<1>8. ASSUME AloneIn(chan, q) PROVE AloneIn(chan', q)
  <2>1. \A x : Apart(x, m) /\ Apart(m, x)
    BY Zenon DEF Apart
  <2>2. ASSUME NEW s \in Servers, NEW r \in Servers, NEW j \in 1 .. Len(chan'[s][Owner]),
               NEW k \in 1 .. Len(chan'[r][Owner]), s # r \/ j # k
        PROVE  Apart(chan'[s][Owner][j], chan'[r][Owner][k])
    <3>1. \/ j \in 1 .. Len(chan[s][Owner]) /\ chan'[s][Owner][j] = chan[s][Owner][j]
          \/ chan'[s][Owner][j] = m
      BY <1>0, <1>6, ZenonT(30)
    <3>2. \/ k \in 1 .. Len(chan[r][Owner]) /\ chan'[r][Owner][k] = chan[r][Owner][k]
          \/ chan'[r][Owner][k] = m
      BY <1>0, <1>6, ZenonT(30)
    <3> QED BY <1>8, <2>1, <2>2, <3>1, <3>2, Zenon DEF AloneIn
  <2>3. ASSUME NEW s \in Servers, NEW j \in 1 .. Len(chan'[s][Owner]), NEW k \in 1 .. Len(q[Owner])
        PROVE  Apart(chan'[s][Owner][j], q[Owner][k])
    <3>1. \/ j \in 1 .. Len(chan[s][Owner]) /\ chan'[s][Owner][j] = chan[s][Owner][j]
          \/ chan'[s][Owner][j] = m
      BY <1>0, <1>6, ZenonT(30)
    <3> QED BY <1>8, <2>1, <3>1, Zenon DEF AloneIn
  <2> QED BY <1>8, <2>2, <2>3, Zenon DEF AloneIn, Apart, Personal
<1> QED BY <1>4, <1>7, <1>8, Zenon

\* A message that is delivered stays where it was going.
LEMMA DeliverMoves ==
    ASSUME StateOK, NEW src \in Servers, NEW dst \in Servers, Deliver(src, dst)
    PROVE  /\ chan' \in [Servers -> [Servers -> Seq(Messages)]]
           /\ queue' \in [Servers -> Seq(Messages)]
           /\ \A d \in Servers, x \in Messages : Carried(d, x)' => Carried(d, x)
           /\ Alone => Alone'
           /\ \A d \in Servers : queue'[d] = queue[d] \/ \E x \in Messages : queue'[d] = Append(queue[d], x)
<1>0. /\ Owner \in Servers /\ chan \in [Servers -> [Servers -> Seq(Messages)]]
      /\ queue \in [Servers -> Seq(Messages)]
      /\ \A s, d \in Servers : chan[s][d] \in Seq(Messages)
      /\ \A d \in Servers : queue[d] \in Seq(Messages)
  BY OwnerAssumption, Zenon DEF StateOK, QueueOK
<1> DEFINE A == chan[src][dst]
<1>1. PICK i \in 1 .. Len(A) :
         /\ chan' = [chan EXCEPT ![src][dst] = WithoutNth(A, i)]
         /\ queue' = queue \/ queue' = [queue EXCEPT ![dst] = Append(queue[dst], A[i])]
  BY Zenon DEF Deliver
<1>2. A \in Seq(Messages) /\ A[i] \in Messages /\ Len(A) \in Nat
  BY <1>0
<1> DEFINE B == WithoutNth(A, i)
           f(k) == IF k < i THEN k ELSE k + 1
<1>3. /\ B \in Seq(Messages) /\ Len(B) = Len(A) - 1
      /\ \A k \in 1 .. Len(B) : B[k] = A[f(k)] /\ f(k) \in 1 .. Len(A) /\ f(k) # i
  <2>1. /\ B \in Seq(Messages) /\ Len(B) = Len(A) - 1
        /\ \A k \in 1 .. Len(B) : B[k] = A[f(k)]
    BY <1>2, Removal, Zenon
  <2> HIDE DEF A, B
  <2>2. \A k \in 1 .. Len(B) : f(k) \in 1 .. Len(A) /\ f(k) # i
    BY <1>2, <2>1
  <2> QED BY <2>1, <2>2, Zenon
<1>4. \A j, k \in 1 .. Len(B) : j # k => f(j) # f(k)
  BY <1>2, <1>3
<1> HIDE DEF f
<1>5. chan'[src][dst] = B /\ \A s, d \in Servers : s # src \/ d # dst => chan'[s][d] = chan[s][d]
  <2> HIDE DEF B
  <2> QED BY <1>0, <1>1, Zenon DEF B
<1>6. chan' \in [Servers -> [Servers -> Seq(Messages)]]
  <2> HIDE DEF B
  <2> QED BY <1>0, <1>1, <1>3, Zenon DEF B
<1>7. queue' \in [Servers -> Seq(Messages)]
  <2> DEFINE x == A[i]
  <2>1. x \in Messages /\ (queue' = queue \/ queue' = [queue EXCEPT ![dst] = Append(queue[dst], x)])
    BY <1>1, <1>2, Zenon
  <2> HIDE DEF x
  <2>2. Append(queue[dst], x) \in Seq(Messages)
    BY <1>0, <2>1
  <2> QED BY <1>0, <2>1, <2>2, Zenon
<1> DEFINE g(s, d, k) == IF s = src /\ d = dst THEN f(k) ELSE k
<1> HIDE DEF A, B
<1>8. ASSUME NEW s \in Servers, NEW d \in Servers, NEW k \in 1 .. Len(chan'[s][d])
      PROVE  /\ g(s, d, k) \in 1 .. Len(chan[s][d])
             /\ chan'[s][d][k] = chan[s][d][g(s, d, k)]
             /\ s = src /\ d = dst => g(s, d, k) # i
  BY <1>3, <1>5, Zenon DEF A
<1>9. \A s, d \in Servers : \A j, k \in 1 .. Len(chan'[s][d]) : j # k => g(s, d, j) # g(s, d, k)
  BY <1>4, <1>5, Zenon
<1>10. ASSUME NEW d \in Servers, NEW k \in 1 .. Len(queue'[d])
       PROVE  \/ k \in 1 .. Len(queue[d]) /\ queue'[d][k] = queue[d][k]
              \/ d = dst /\ k = Len(queue[d]) + 1 /\ queue'[d][k] = A[i]
  <2>1. queue'[d] = queue[d] \/ (d = dst /\ queue'[d] = Append(queue[d], A[i]))
    BY <1>0, <1>1, Zenon DEF A
  <2> DEFINE x == A[i]
  <2>2. queue[d] \in Seq(Messages) /\ x \in Messages
    BY <1>0, <1>2, Zenon
  <2> HIDE DEF x
  <2>3. CASE queue'[d] = Append(queue[d], x) /\ d = dst
    BY <2>2, <2>3 DEF x
  <2> QED BY <2>1, <2>3, Zenon DEF x
<1> HIDE DEF g
<1>11. ASSUME NEW d \in Servers, NEW x \in Messages, Carried(d, x)'
       PROVE  Carried(d, x)
  <2>1. CASE \E s \in Servers : \E k \in 1 .. Len(chan'[s][d]) : chan'[s][d][k] = x
    <3>1. PICK s \in Servers : \E k \in 1 .. Len(chan'[s][d]) : chan'[s][d][k] = x
      BY <2>1, Zenon
    <3>2. PICK k \in 1 .. Len(chan'[s][d]) : chan'[s][d][k] = x
      BY <3>1, Zenon
    <3>3. g(s, d, k) \in 1 .. Len(chan[s][d]) /\ chan[s][d][g(s, d, k)] = x
      BY <1>8, <3>2, Zenon
    <3> QED BY <3>3, Zenon DEF Carried, CarriedIn
  <2>2. CASE \E k \in 1 .. Len(queue'[d]) : queue'[d][k] = x
    <3>1. PICK k \in 1 .. Len(queue'[d]) : queue'[d][k] = x
      BY <2>2, Zenon
    <3> QED BY <1>1, <1>10, <3>1 DEF Carried, CarriedIn, A
  <2> QED BY <1>11, <2>1, <2>2, Zenon DEF Carried, CarriedIn
<1>12. ASSUME Alone PROVE Alone'
  <2>1. ASSUME NEW s \in Servers, NEW r \in Servers, NEW j \in 1 .. Len(chan'[s][Owner]),
               NEW k \in 1 .. Len(chan'[r][Owner]), s # r \/ j # k
        PROVE  Apart(chan'[s][Owner][j], chan'[r][Owner][k])
    <3>1. /\ g(s, Owner, j) \in 1 .. Len(chan[s][Owner])
          /\ chan'[s][Owner][j] = chan[s][Owner][g(s, Owner, j)]
          /\ g(r, Owner, k) \in 1 .. Len(chan[r][Owner])
          /\ chan'[r][Owner][k] = chan[r][Owner][g(r, Owner, k)]
      BY <1>0, <1>8, Zenon
    <3>2. s # r \/ g(s, Owner, j) # g(r, Owner, k)
      BY <1>0, <1>9, <2>1, Zenon
    <3> QED BY <1>12, <3>1, <3>2, Zenon DEF Alone, AloneIn
  <2>2. ASSUME NEW j \in 1 .. Len(queue'[Owner]), NEW k \in 1 .. Len(queue'[Owner]), j # k
        PROVE  Apart(queue'[Owner][j], queue'[Owner][k])
    <3>1. \/ j \in 1 .. Len(queue[Owner]) /\ queue'[Owner][j] = queue[Owner][j]
          \/ Owner = dst /\ j = Len(queue[Owner]) + 1 /\ queue'[Owner][j] = A[i]
      BY <1>0, <1>10, Zenon
    <3>2. \/ k \in 1 .. Len(queue[Owner]) /\ queue'[Owner][k] = queue[Owner][k]
          \/ Owner = dst /\ k = Len(queue[Owner]) + 1 /\ queue'[Owner][k] = A[i]
      BY <1>0, <1>10, Zenon
    <3>3. Owner = dst => \A n \in 1 .. Len(queue[Owner]) : Apart(A[i], queue[Owner][n]) /\ Apart(queue[Owner][n], A[i])
      BY <1>1, <1>12 DEF Alone, AloneIn, A, Apart
    <3> QED BY <1>12, <2>2, <3>1, <3>2, <3>3, Zenon DEF Alone, AloneIn
  <2>3. ASSUME NEW s \in Servers, NEW j \in 1 .. Len(chan'[s][Owner]), NEW k \in 1 .. Len(queue'[Owner])
        PROVE  Apart(chan'[s][Owner][j], queue'[Owner][k])
    <3>1. /\ g(s, Owner, j) \in 1 .. Len(chan[s][Owner])
          /\ chan'[s][Owner][j] = chan[s][Owner][g(s, Owner, j)]
          /\ s = src /\ Owner = dst => g(s, Owner, j) # i
      BY <1>0, <1>8, Zenon
    <3>2. \/ k \in 1 .. Len(queue[Owner]) /\ queue'[Owner][k] = queue[Owner][k]
          \/ Owner = dst /\ queue'[Owner][k] = A[i]
      BY <1>0, <1>10, Zenon
    <3> QED BY <1>1, <1>12, <3>1, <3>2 DEF Alone, AloneIn, A
  <2> QED BY <2>1, <2>2, <2>3, Zenon DEF Alone, AloneIn, Apart, Personal
<1>13. ASSUME NEW d \in Servers
       PROVE  queue'[d] = queue[d] \/ \E x \in Messages : queue'[d] = Append(queue[d], x)
  BY <1>0, <1>1, <1>2, Zenon DEF A
<1> QED BY <1>6, <1>7, <1>11, <1>12, <1>13, Zenon

\* A request that is served leaves the queue, and with it the last trace of it.
LEMMA ServeMoves ==
    ASSUME StateOK, NEW s \in Servers, NEW op, Serves(s, op)
    PROVE  /\ queue' \in [Servers -> Seq(Messages)]
           /\ Head(queue[s]) \in Messages /\ Head(queue[s]).op = op /\ Carried(s, Head(queue[s]))
           /\ \A d \in Servers, x \in Messages : CarriedIn(chan, queue', d, x) => Carried(d, x)
           /\ Alone => AloneIn(chan, queue')
           /\ Alone /\ s = Owner => \A x \in Messages : CarriedIn(chan, queue', Owner, x) => Apart(x, Head(queue[s]))
           /\ queue'[s] = Tail(queue[s]) /\ queue[s] # <<>> /\ queue[s] \in Seq(Messages)
           /\ \A d \in Servers : d # s => queue'[d] = queue[d]
<1>0. /\ Owner \in Servers /\ chan \in [Servers -> [Servers -> Seq(Messages)]]
      /\ queue \in [Servers -> Seq(Messages)]
      /\ \A r, d \in Servers : chan[r][d] \in Seq(Messages)
      /\ \A d \in Servers : queue[d] \in Seq(Messages)
  BY OwnerAssumption, Zenon DEF StateOK, QueueOK
<1>1. queue[s] # <<>> /\ queue' = [queue EXCEPT ![s] = Tail(queue[s])] /\ Head(queue[s]).op = op
  BY Zenon DEF Serves
<1> DEFINE T == Tail(queue[s])
           h == Head(queue[s])
<1>2. /\ T \in Seq(Messages) /\ Len(T) = Len(queue[s]) - 1 /\ Len(queue[s]) \in Nat
      /\ \A k \in 1 .. Len(T) : T[k] = queue[s][k + 1] /\ k + 1 \in 1 .. Len(queue[s])
      /\ 1 \in 1 .. Len(queue[s]) /\ queue[s][1] = h
  BY <1>0, <1>1
<1>3. h \in Messages
  BY <1>0, <1>2
<1> HIDE DEF T, h
<1>4. queue' = [queue EXCEPT ![s] = T]
  BY <1>1, Zenon DEF T
<1>5. queue' \in [Servers -> Seq(Messages)] /\ queue'[s] = T /\ \A d \in Servers : d # s => queue'[d] = queue[d]
  BY <1>0, <1>2, <1>4, Zenon
<1>6. Carried(s, h)
  BY <1>2, Zenon DEF Carried, CarriedIn
<1> DEFINE g(d, k) == IF d = s THEN k + 1 ELSE k
<1>7. ASSUME NEW d \in Servers, NEW k \in 1 .. Len(queue'[d])
      PROVE  /\ g(d, k) \in 1 .. Len(queue[d]) /\ queue'[d][k] = queue[d][g(d, k)]
             /\ d = s => g(d, k) # 1
  BY <1>2, <1>5
<1>8. \A d \in Servers : \A j, k \in 1 .. Len(queue'[d]) : j # k => g(d, j) # g(d, k)
  OBVIOUS
<1> HIDE DEF g
<1>9. ASSUME NEW d \in Servers, NEW x \in Messages, CarriedIn(chan, queue', d, x)
      PROVE  /\ Carried(d, x)
             /\ Alone /\ d = s /\ s = Owner => Apart(x, h)
  <2>1. CASE \E r \in Servers : \E k \in 1 .. Len(chan[r][d]) : chan[r][d][k] = x
    <3>1. PICK r \in Servers : \E k \in 1 .. Len(chan[r][d]) : chan[r][d][k] = x
      BY <2>1, Zenon
    <3>2. PICK k \in 1 .. Len(chan[r][d]) : chan[r][d][k] = x
      BY <3>1, Zenon
    <3>3. Alone /\ d = s /\ s = Owner => Apart(chan[r][Owner][k], queue[Owner][1])
      BY <1>2, <3>2, Zenon DEF Alone, AloneIn
    <3> QED BY <1>2, <3>2, <3>3, Zenon DEF Carried, CarriedIn
  <2>2. CASE \E k \in 1 .. Len(queue'[d]) : queue'[d][k] = x
    <3>1. PICK k \in 1 .. Len(queue'[d]) : queue'[d][k] = x
      BY <2>2, Zenon
    <3>2. g(d, k) \in 1 .. Len(queue[d]) /\ queue[d][g(d, k)] = x /\ (d = s => g(d, k) # 1)
      BY <1>7, <3>1, Zenon
    <3>3. Alone /\ d = s /\ s = Owner => Apart(queue[Owner][g(d, k)], queue[Owner][1])
      BY <1>2, <3>2, Zenon DEF Alone, AloneIn
    <3> QED BY <1>2, <3>2, <3>3, Zenon DEF Carried, CarriedIn
  <2> QED BY <1>9, <2>1, <2>2, Zenon DEF Carried, CarriedIn
<1>10. ASSUME Alone PROVE AloneIn(chan, queue')
  <2>1. ASSUME NEW j \in 1 .. Len(queue'[Owner]), NEW k \in 1 .. Len(queue'[Owner]), j # k
        PROVE  Apart(queue'[Owner][j], queue'[Owner][k])
    <3>1. /\ g(Owner, j) \in 1 .. Len(queue[Owner]) /\ queue'[Owner][j] = queue[Owner][g(Owner, j)]
          /\ g(Owner, k) \in 1 .. Len(queue[Owner]) /\ queue'[Owner][k] = queue[Owner][g(Owner, k)]
      BY <1>0, <1>7, Zenon
    <3>2. g(Owner, j) # g(Owner, k)
      BY <1>0, <1>8, <2>1, Zenon
    <3> QED BY <1>10, <3>1, <3>2, Zenon DEF Alone, AloneIn
  <2>2. ASSUME NEW r \in Servers, NEW j \in 1 .. Len(chan[r][Owner]), NEW k \in 1 .. Len(queue'[Owner])
        PROVE  Apart(chan[r][Owner][j], queue'[Owner][k])
    <3>1. g(Owner, k) \in 1 .. Len(queue[Owner]) /\ queue'[Owner][k] = queue[Owner][g(Owner, k)]
      BY <1>0, <1>7, Zenon
    <3> QED BY <1>10, <3>1, Zenon DEF Alone, AloneIn
  <2> QED BY <1>10, <2>1, <2>2, Zenon DEF Alone, AloneIn, Apart, Personal
<1> QED BY <1>0, <1>1, <1>3, <1>5, <1>6, <1>9, <1>10, Zenon DEF T, h

------------------------------------------------------------------------------
(* The data *)

\* Operations on contents give contents.
LEMMA DataTypes ==
    /\ Empty \in Contents
    /\ \A e, f \in Contents : Overlay(e, f) \in Contents
    /\ \A e \in Contents, n \in Sizes : Cut(e, n) \in Contents
    /\ \A e \in Contents, a, b \in Blocks, x \in Data : Write(e, a, b, x) \in Contents
    /\ NoPend \in [who : SUBSET Clients, ext : Contents]
BY BlocksAssumption DEF Contents, Empty, Overlay, Cut, Write, Data, NoData, NoPend

\* Contents that are not empty have a last block.
LEMMA LastBlock ==
    ASSUME NEW e \in Contents, e # Empty
    PROVE  \E b \in Blocks : e[b] # NoData /\ \A a \in Blocks : e[a] # NoData => a <= b
<1> DEFINE Above == {NBlocks - b : b \in {a \in Blocks : e[a] # NoData}}
           Less == OpToRel(<, Nat)
<1>0. NBlocks \in Nat /\ Blocks \subseteq Nat /\ \A b \in Blocks : b < NBlocks
  BY BlocksAssumption DEF Blocks
<1>1. Above \subseteq Nat /\ Above # {}
  <2>1. \A b \in Blocks : NBlocks - b \in Nat
    BY <1>0
  <2>2. \E b \in Blocks : e[b] # NoData
    BY Zenon DEF Contents, Empty
  <2> QED BY <2>1, <2>2, Zenon
<1>2. \A m, n \in Nat : <<m, n>> \in Less <=> m < n
  BY Zenon DEF OpToRel
<1>3. IsWellFoundedOn(Less, Nat)
  BY NatLessThanWellFounded, Zenon
<1> HIDE DEF Less
<1>4. PICK n \in Above : \A m \in Above : ~(<<m, n>> \in Less)
  BY <1>1, <1>3, WFMin, Zenon
<1>5. \A m \in Above : m \in Nat /\ n \in Nat /\ ~(m < n)
  BY <1>1, <1>2, <1>4, Zenon
<1>6. PICK b \in Blocks : e[b] # NoData /\ n = NBlocks - b
  BY <1>4, Zenon
<1>7. \A d \in Blocks : e[d] # NoData => NBlocks - d \in Above
  BY Zenon
<1> HIDE DEF Above
<1>8. \A d \in Blocks : e[d] # NoData => d <= b
  BY <1>0, <1>5, <1>6, <1>7
<1> QED BY <1>6, <1>8, Zenon

\* Contents end before a size.
Within(e, n) == \A b \in Blocks : e[b] # NoData => b < n

\* extent_tree_max_offset: the size that contents ask for.
LEMMA SizeOfExtents ==
    ASSUME NEW e \in Contents
    PROVE  /\ ExtentSize(e) \in Sizes /\ ExtentSize(e) >= 1
           /\ Within(e, ExtentSize(e))
           /\ e # Empty => e[ExtentSize(e) - 1] # NoData /\ ExtentSize(e) - 1 \in Blocks
<1>0. NBlocks \in Nat /\ NBlocks >= 1
  BY BlocksAssumption
<1>1. CASE e = Empty
  BY <1>0, <1>1 DEF ExtentSize, Sizes, Within, Empty, NoData
<1>2. CASE e # Empty
  <2> DEFINE P(b) == e[b] # NoData /\ \A a \in Blocks : e[a] # NoData => a <= b
             l == CHOOSE b \in Blocks : P(b)
  <2>1. \E b \in Blocks : P(b)
    BY <1>2, LastBlock, Zenon
  <2>2. l \in Blocks /\ P(l)
    BY <2>1, Zenon
  <2>3. ExtentSize(e) = 1 + l
    BY <1>2, Zenon DEF ExtentSize
  <2> HIDE DEF l
  <2>4. l \in Nat /\ l < NBlocks
    BY <1>0, <2>2 DEF Blocks
  <2>5. ExtentSize(e) \in Sizes /\ ExtentSize(e) >= 1 /\ ExtentSize(e) - 1 = l
    BY <1>0, <2>3, <2>4 DEF Sizes
  <2>6. Within(e, ExtentSize(e))
    BY <2>2, <2>3, <2>4 DEF Within, Blocks
  <2> QED BY <2>2, <2>5, <2>6, Zenon
<1> QED BY <1>1, <1>2, Zenon

\* Contents that end before size n, with others written over them: the size that the
\* owner computes from the whole tree is the one computed from the new extents alone.
LEMMA SizeOfOverlay ==
    ASSUME NEW e \in Contents, NEW f \in Contents, f # Empty, NEW n \in Sizes, Within(e, n)
    PROVE  /\ Max2(n, ExtentSize(Overlay(e, f))) = Max2(n, ExtentSize(f))
           /\ Max2(n, ExtentSize(f)) \in Sizes
           /\ Within(Overlay(e, f), Max2(n, ExtentSize(f)))
<1> DEFINE o == Overlay(e, f)
           x == ExtentSize(o)
           y == ExtentSize(f)
<1>0. NBlocks \in Nat /\ n \in Nat
  BY BlocksAssumption DEF Sizes
<1>1. o \in Contents
  BY DataTypes, Zenon
<1>2. \A b \in Blocks : o[b] = IF f[b] = NoData THEN e[b] ELSE f[b]
  BY Zenon DEF Overlay
<1>3. o # Empty
  <2>1. PICK b \in Blocks : f[b] # NoData
    BY Zenon DEF Contents, Empty
  <2>2. o[b] # NoData
    BY <1>2, <2>1, Zenon
  <2> QED BY <2>2, Zenon DEF Empty
<1> HIDE DEF o
<1>4. x \in Sizes /\ Within(o, x) /\ o[x - 1] # NoData /\ x - 1 \in Blocks
  BY <1>1, <1>3, SizeOfExtents, Zenon
<1>5. y \in Sizes /\ Within(f, y) /\ f[y - 1] # NoData /\ y - 1 \in Blocks
  BY SizeOfExtents, Zenon
<1> HIDE DEF x, y
<1>6. x \in Nat /\ y \in Nat
  BY <1>0, <1>4, <1>5 DEF Sizes
<1>7. y <= x
  BY <1>2, <1>4, <1>5, <1>6 DEF Within
<1>8. x <= y \/ x <= n
  BY <1>0, <1>2, <1>4, <1>5, <1>6 DEF Within
<1>9. Max2(n, x) = Max2(n, y)
  BY <1>0, <1>6, <1>7, <1>8 DEF Max2
<1>10. Max2(n, y) \in Sizes
  BY <1>5, Zenon DEF Max2
<1>11. Within(o, Max2(n, y))
  <2> SUFFICES ASSUME NEW b \in Blocks, o[b] # NoData PROVE b < Max2(n, y)
    BY Zenon DEF Within
  <2>1. b < n \/ b < y
    BY <1>2, <1>5, Zenon DEF Within
  <2> QED BY <1>0, <1>6, <2>1 DEF Max2, Blocks
<1> QED BY <1>9, <1>10, <1>11, Zenon DEF o, x, y

\* A cut leaves nothing beyond it.
LEMMA WithinCut == ASSUME NEW e, NEW n PROVE Within(Cut(e, n), n)
BY Zenon DEF Within, Cut

\* The calls.
LEMMA CallTypes ==
    ASSUME NEW k \in Calls
    PROVE  /\ k # Idle
           /\ k.op \in {"create", "laminate", "unlink", "read", "size", "truncate", "sync"}
           /\ k.op = "truncate" => k.size \in Sizes
           /\ k.op = "sync" => k.first \in Blocks /\ k.last \in Blocks /\ k.data \in Data \ {NoData}
BY DEF Calls, Idle

\* AtomicFile has the data of the servers.
LEMMA SameData ==
    /\ AF!File = Files
    /\ AF!NoFile = [exists |-> FALSE, lam |-> FALSE, size |-> 0, ext |-> Empty]
    /\ AF!NewFile = [exists |-> TRUE, lam |-> FALSE, size |-> 0, ext |-> Empty]
<1>1. AF!Blocks = Blocks /\ AF!Sizes = Sizes /\ AF!Data = Data /\ AF!NoData = NoData
  BY Zenon DEF AF!Blocks, Blocks, AF!Sizes, Sizes, AF!Data, Data, AF!NoData, NoData
<1>2. AF!Contents = Contents /\ AF!Empty = Empty
  BY <1>1, Zenon DEF AF!Contents, Contents, AF!Empty, Empty
<1> QED BY <1>1, <1>2, Zenon DEF AF!File, AF!NoFile, AF!NewFile, Files

\* The effect of a call on the file.
IsEffect(f, k, r) ==
    /\ r \in Files
    /\ k.op = "create" => r.exists /\ ~r.lam /\ r.size = 0 /\ r.ext = Empty
    /\ k.op = "laminate" => r.lam /\ r.exists = f.exists /\ r.size = f.size /\ r.ext = f.ext
    /\ k.op = "unlink" => ~r.exists /\ ~r.lam /\ r.size = 0 /\ r.ext = Empty
    /\ k.op = "truncate" =>
          /\ r.size = k.size /\ r.ext = Cut(f.ext, k.size)
          /\ r.exists = f.exists /\ r.lam = f.lam
    /\ k.op = "sync" =>
          /\ r.size = Max2(f.size, k.last + 1) /\ r.ext = Write(f.ext, k.first, k.last, k.data)
          /\ r.exists = f.exists /\ r.lam = f.lam
    /\ k.op \in {"read", "size"} => r = f

LEMMA Effects ==
    ASSUME NEW f \in Files, NEW k \in Calls
    PROVE  IsEffect(f, k, AF!Effect(f, k))
<1>0. 0 \in Sizes /\ Empty \in Contents /\ f.size \in Sizes /\ f.ext \in Contents
  BY DataTypes, BlocksAssumption DEF Sizes, Files
<1>1. AF!Blocks = Blocks /\ AF!NoData = NoData
  BY Zenon DEF AF!Blocks, Blocks, AF!NoData, NoData
<1>2. CASE k.op = "create"
  <2> DEFINE r == [exists |-> TRUE, lam |-> FALSE, size |-> 0, ext |-> Empty]
  <2>1. AF!Effect(f, k) = r
    BY <1>2, SameData, Zenon DEF AF!Effect
  <2>2. r \in Files /\ r.exists /\ ~r.lam /\ r.size = 0 /\ r.ext = Empty
    BY <1>0, Zenon DEF Files
  <2> HIDE DEF r
  <2> QED BY <1>2, <2>1, <2>2, Zenon DEF IsEffect
<1>3. CASE k.op = "laminate"
  <2> DEFINE r == [f EXCEPT !.lam = TRUE]
  <2>1. AF!Effect(f, k) = r
    BY <1>3, Zenon DEF AF!Effect
  <2>2. r \in Files /\ r.lam /\ r.exists = f.exists /\ r.size = f.size /\ r.ext = f.ext
    BY Zenon DEF Files
  <2> HIDE DEF r
  <2> QED BY <1>3, <2>1, <2>2, Zenon DEF IsEffect
<1>4. CASE k.op = "unlink"
  <2> DEFINE r == [exists |-> FALSE, lam |-> FALSE, size |-> 0, ext |-> Empty]
  <2>1. AF!Effect(f, k) = r
    BY <1>4, SameData, Zenon DEF AF!Effect
  <2>2. r \in Files /\ ~r.exists /\ ~r.lam /\ r.size = 0 /\ r.ext = Empty
    BY <1>0, Zenon DEF Files
  <2> HIDE DEF r
  <2> QED BY <1>4, <2>1, <2>2, Zenon DEF IsEffect
<1>5. CASE k.op = "truncate"
  <2> DEFINE e == Cut(f.ext, k.size)
             r == [f EXCEPT !.size = k.size, !.ext = e]
  <2>1. AF!Effect(f, k) = r
    <3>1. AF!Cut(f.ext, k.size) = Cut(f.ext, k.size)
      BY <1>1, Zenon DEF AF!Cut, Cut
    <3> QED BY <1>5, <3>1, Zenon DEF AF!Effect
  <2>2. k.size \in Sizes /\ e \in Contents
    BY <1>0, <1>5, CallTypes, DataTypes, Zenon
  <2> HIDE DEF e
  <2>3. r \in Files /\ r.size = k.size /\ r.ext = e /\ r.exists = f.exists /\ r.lam = f.lam
    BY <2>2, Zenon DEF Files
  <2> HIDE DEF r
  <2> QED BY <1>5, <2>1, <2>3, Zenon DEF IsEffect, e
<1>6. CASE k.op = "sync"
  <2> DEFINE e == Write(f.ext, k.first, k.last, k.data)
             n == Max2(f.size, k.last + 1)
             r == [f EXCEPT !.size = n, !.ext = e]
  <2>1. AF!Effect(f, k) = r
    <3>1. /\ AF!Write(f.ext, k.first, k.last, k.data) = Write(f.ext, k.first, k.last, k.data)
          /\ AF!Max2(f.size, k.last + 1) = Max2(f.size, k.last + 1)
      BY <1>1, Zenon DEF AF!Write, Write, AF!Max2, Max2
    <3> QED BY <1>6, <3>1, Zenon DEF AF!Effect
  <2>2. e \in Contents
    <3>1. k.first \in Blocks /\ k.last \in Blocks /\ k.data \in Data
      BY <1>6, CallTypes, Zenon
    <3> QED BY <1>0, <3>1, DataTypes, Zenon
  <2>3. n \in Sizes
    BY <1>0, <1>6, CallTypes, BlocksAssumption DEF Max2, Sizes, Blocks
  <2> HIDE DEF e, n
  <2>4. r \in Files /\ r.size = n /\ r.ext = e /\ r.exists = f.exists /\ r.lam = f.lam
    BY <2>2, <2>3, Zenon DEF Files
  <2> HIDE DEF r
  <2> QED BY <1>6, <2>1, <2>4, Zenon DEF IsEffect, e, n
<1>7. CASE k.op \in {"read", "size"}
  <2>1. AF!Effect(f, k) = f
    BY <1>7, Zenon DEF AF!Effect
  <2> QED BY <1>7, <2>1, Zenon DEF IsEffect
<1> QED BY <1>2, <1>3, <1>4, <1>5, <1>6, <1>7, CallTypes, Zenon

------------------------------------------------------------------------------
(* The parts of a step *)

LEMMA ReadyIs == Ready.pc = "idle" /\ Idle.op = "idle" /\ 0 \in Sizes
BY BlocksAssumption DEF Ready, Idle, Sizes

\* Inodes that are made, removed and changed.
LEMMA NewInodeType ==
    ASSUME StateOK, NEW s \in Servers, NEW l \in BOOLEAN, NEW n \in Sizes, NewInode(s, l, n)
    PROVE  InodeOK' /\ \A r \in Servers : pend'[r] = pend[r] \/ pend'[r] = NoPend
BY DataTypes, Zenon DEF NewInode, StateOK, InodeOK

LEMMA DestroyType ==
    ASSUME StateOK, NEW s \in Servers, Destroy(s)
    PROVE  InodeOK' /\ \A r \in Servers : pend'[r] = pend[r] \/ pend'[r] = NoPend
BY DataTypes, BlocksAssumption DEF Destroy, StateOK, InodeOK, Sizes

LEMMA AddExtentsType ==
    ASSUME StateOK, NEW s \in Servers, NEW over \in Contents, AddExtents(s, over)
    PROVE  InodeOK' /\ pend' = pend
<1> DEFINE e == Overlay(ext[s], over)
           n == Max2(size[s], ExtentSize(e))
<1>1. e \in Contents
  BY DataTypes, Zenon DEF StateOK, InodeOK
<1>2. n \in Sizes
  BY <1>1, SizeOfExtents, Zenon DEF Max2, StateOK, InodeOK
<1>3. ext' = [ext EXCEPT ![s] = e] /\ size' = [size EXCEPT ![s] = n] /\ UNCHANGED <<ex, lam, pend>>
  BY Zenon DEF AddExtents
<1> HIDE DEF e, n
<1> QED BY <1>1, <1>2, <1>3, Zenon DEF StateOK, InodeOK

LEMMA TruncateInodeType ==
    ASSUME StateOK, NEW s \in Servers, NEW n \in Sizes, TruncateInode(s, n)
    PROVE  InodeOK' /\ pend' = pend
<1> DEFINE e == Cut(ext[s], n)
<1>1. e \in Contents
  BY DataTypes, Zenon DEF StateOK, InodeOK
<1>2. ext' = [ext EXCEPT ![s] = e] /\ size' = [size EXCEPT ![s] = n] /\ UNCHANGED <<ex, lam, pend>>
  BY Zenon DEF TruncateInode
<1> HIDE DEF e
<1> QED BY <1>1, <1>2, Zenon DEF StateOK, InodeOK

LEMMA SameInodes == ASSUME StateOK, UNCHANGED inode
                    PROVE  InodeOK' /\ \A r \in Servers : pend'[r] = pend[r]
BY Zenon DEF StateOK, InodeOK, inode

\* A call that returns.
LEMMA FinishType ==
    ASSUME StateOK, NEW c \in Clients, call[c] # Idle, NEW a, a.ok \in BOOLEAN, Finish(c, a)
    PROVE  /\ CallOK' /\ call'[c] = Idle /\ (\A b \in Clients : b # c => call'[b] = call[b])
           /\ ret'[c] = a /\ (\A b \in Clients : b # c => ret'[b] = ret[b])
           /\ a.ok => IsEffect(ref, call[c], ref')
           /\ ~a.ok => ref' = ref
           /\ acked' = acked
<1>1. call[c] \in Calls /\ ref \in Files
  BY Zenon DEF StateOK, CallOK
<1>2. IsEffect(ref, call[c], AF!Effect(ref, call[c]))
  BY <1>1, Effects, Zenon
<1>3. ref' = IF a.ok THEN AF!Effect(ref, call[c]) ELSE ref
  BY Zenon DEF Finish
<1>4. ref' \in Files /\ (a.ok => IsEffect(ref, call[c], ref')) /\ (~a.ok => ref' = ref)
  BY <1>1, <1>2, <1>3, Zenon DEF IsEffect
<1> QED BY <1>4, Zenon DEF Finish, StateOK, CallOK

LEMMA SameCalls == ASSUME StateOK, UNCHANGED client
                   PROVE  CallOK' /\ call' = call
BY Zenon DEF StateOK, CallOK, client

\* The answers.
LEMMA AnswerTypes ==
    /\ \A b \in BOOLEAN : Answer(b).ok = b
    /\ \A n : AnswerSize(n).ok = TRUE
    /\ \A e : AnswerExt(e).ok = TRUE /\ AnswerExt(e).ext = e
    /\ Answer(TRUE).ok \in BOOLEAN /\ Answer(FALSE).ok \in BOOLEAN
    /\ \A e : AnswerExt(e).ok \in BOOLEAN /\ AnswerSize(e).ok \in BOOLEAN
BY Zenon DEF Answer, AnswerSize, AnswerExt

\* The messages.
LEMMA MessageTypes ==
    /\ \A o \in ClientOps, c \in Clients :
          Request(o, c) \in Messages /\ Request(o, c).op = o /\ Request(o, c).who = c
    /\ CreateMsg \in Messages /\ CreateMsg.op = "b_create"
    /\ \A n \in Sizes : TruncateMsg(n) \in Messages /\ TruncateMsg(n).op = "b_truncate"
    /\ StateOK => LaminateMsg \in Messages /\ LaminateMsg.op = "b_laminate"
    /\ [op |-> "b_unlink"] \in Messages
    /\ [op |-> "sync"] \in Messages
<1>1. \A o \in ClientOps, c \in Clients :
          Request(o, c) \in Messages /\ Request(o, c).op = o /\ Request(o, c).who = c
  BY Zenon DEF Request, Messages
<1>2. CreateMsg \in Messages /\ CreateMsg.op = "b_create"
  BY Zenon DEF CreateMsg, Messages
<1>3. \A n \in Sizes : TruncateMsg(n) \in Messages /\ TruncateMsg(n).op = "b_truncate"
  BY Zenon DEF TruncateMsg, Messages
<1>4. ASSUME StateOK PROVE LaminateMsg \in Messages /\ LaminateMsg.op = "b_laminate"
  <2>1. size[Owner] \in Sizes /\ ext[Owner] \in Contents
    BY <1>4, OwnerAssumption, Zenon DEF StateOK, InodeOK
  <2> QED BY <2>1, Zenon DEF LaminateMsg, Messages
<1>5. [op |-> "b_unlink"] \in Messages /\ [op |-> "sync"] \in Messages
  BY Zenon DEF Messages
<1> QED BY <1>1, <1>2, <1>3, <1>4, <1>5, Zenon

\* A step that changes the threads W, none of which waits for a sync.
LEMMA FrameStep ==
    ASSUME ThreadInv, StateOK', Alone', OwnerOK', NEW W \in SUBSET Threads,
           \A t \in Threads \ W : th'[t] = th[t],
           \A c \in Clients \ W : call'[c] = call[c],
           \A s \in Servers : pend'[s] = pend[s] \/ pend'[s] = NoPend,
           \A c \in Clients \cap W : th[c].pc # "sync" /\ ClientOK(c)',
           \A s \in Servers \cap W : s = Owner /\ (th'[s] = Ready \/ th'[s].pc \in {"truncate", "laminate", "radd"}),
           \A d \in Servers, m \in Messages : Carried(d, m)' =>
               MessageOK(d, m)' \/ (Carried(d, m) /\ (Personal(m) => m.who \notin W))
    PROVE  ThreadInv'
<1>0. Clients \subseteq Threads /\ Servers \subseteq Threads
  BY Zenon DEF Threads
<1>1. ASSUME NEW c \in Clients PROVE ClientOK(c)'
  <2>1. CASE c \in W
    BY <2>1, Zenon
  <2>2. CASE c \notin W
    BY <1>0, <2>2 DEF ThreadInv, ClientOK
  <2> QED BY <2>1, <2>2, Zenon
<1>2. ASSUME NEW s \in Servers PROVE ServerOK(s)'
  <2>0. ServerOK(s)
    BY Zenon DEF ThreadInv
  <2>1. \A c \in Clients : th[c].pc = "sync" => th'[c] = th[c]
    BY <1>0, Zenon
  <2>2. NoPend.who = {}
    BY Zenon DEF NoPend
  <2>3. pend[s].who \in SUBSET Clients
    BY Zenon DEF ThreadInv, StateOK, InodeOK
  <2>4. CASE s \in W
    BY <2>0, <2>1, <2>2, <2>3, <2>4, ReadyIs, Zenon DEF ServerOK
  <2>5. CASE s \notin W
    <3>1. th'[s] = th[s]
      BY <1>0, <2>5, Zenon
    <3> QED BY <2>0, <2>1, <2>2, <2>3, <3>1, Zenon DEF ServerOK
  <2> QED BY <2>4, <2>5, Zenon
<1>3. ASSUME NEW d \in Servers, NEW m \in Messages, Carried(d, m)' PROVE MessageOK(d, m)'
  <2>1. CASE MessageOK(d, m)'
    BY <2>1, Zenon
  <2>2. CASE Carried(d, m) /\ (Personal(m) => m.who \notin W)
    <3>1. MessageOK(d, m)
      BY <2>2, Zenon DEF ThreadInv
    <3>2. CASE Personal(m)
      <4>1. m.who \in Threads \ W /\ Waits(m.who, m.op)
        BY <1>0, <2>2, <3>1, <3>2, Zenon DEF MessageOK, Waits
      <4>2. th'[m.who] = th[m.who] /\ (m.who \in Clients => call'[m.who] = call[m.who])
        BY <4>1, Zenon
      <4>3. Waits(m.who, m.op)'
        BY <4>1, <4>2, Zenon DEF Waits
      <4> QED BY <3>1, <4>2, <4>3, Zenon DEF MessageOK
    <3>3. CASE ~Personal(m)
      BY <3>1, <3>3, Zenon DEF MessageOK, Personal
    <3> QED BY <3>2, <3>3, Zenon
  <2> QED BY <1>3, <2>1, <2>2, Zenon
<1> QED BY <1>1, <1>2, <1>3, Zenon DEF ThreadInv

\* What the service manager of the owner works on is not disturbed by a step of others.
LEMMA OwnerKeeps ==
    ASSUME ThreadInv, NEW W \in SUBSET Threads, Owner \notin W,
           \A t \in Threads \ W : th'[t] = th[t],
           \A c \in Clients \ W : call'[c] = call[c],
           th[Owner].pc \in {"truncate", "laminate", "radd"} => th[Owner].who \notin W,
           \A m \in Messages : Carried(Owner, m)' /\ Personal(m) => Carried(Owner, m) \/ m.who \in W
    PROVE  OwnerOK'
<1>0. OwnerOK /\ Clients \subseteq Threads /\ Servers \subseteq Threads /\ Owner \in Servers
  BY OwnerAssumption, Zenon DEF ThreadInv, Threads
<1>1. th'[Owner] = th[Owner]
  BY <1>0, Zenon
<1>2. CASE th[Owner].pc \in {"truncate", "laminate"}
  <2>1. th[Owner].who \in Clients \ W /\ Waits(th[Owner].who, th[Owner].pc)
    BY <1>0, <1>2, Zenon DEF OwnerOK, Waits
  <2>2. th'[th[Owner].who] = th[th[Owner].who] /\ call'[th[Owner].who] = call[th[Owner].who]
    BY <1>0, <2>1, Zenon
  <2> QED BY <1>0, <1>1, <1>2, <2>1, <2>2, Zenon DEF OwnerOK, Waits
<1>3. CASE th[Owner].pc = "radd"
  <2>1. th[Owner].who \in Servers \ W /\ Waits(th[Owner].who, "add")
    BY <1>0, <1>3, Zenon DEF OwnerOK, Waits, ClientOps
  <2>2. th'[th[Owner].who] = th[th[Owner].who]
    BY <1>0, <2>1, Zenon
  <2> QED BY <1>0, <1>1, <1>3, <2>1, <2>2, Zenon DEF OwnerOK, Waits, ClientOps
<1>4. CASE th[Owner].pc \notin {"truncate", "laminate", "radd"}
  BY <1>1, <1>4, Zenon DEF OwnerOK
<1> QED BY <1>2, <1>3, <1>4, Zenon

\* A step of the thread of one client, which waits neither for a sync nor for an RPC.
LEMMA OwnStep ==
    ASSUME ThreadInv, StateOK', Alone', NEW c \in Clients,
           th[c].pc \notin {"sync", "rpc"}, ClientOK(c)',
           \A t \in Threads : t # c => th'[t] = th[t],
           \A b \in Clients : b # c => call'[b] = call[b],
           \A s \in Servers : pend'[s] = pend[s] \/ pend'[s] = NoPend,
           \A d \in Servers, m \in Messages : Carried(d, m)' =>
               Carried(d, m) \/ (MessageOK(d, m)' /\ (Personal(m) => m.who = c))
    PROVE  ThreadInv'
<1>1. \A d \in Servers, m \in Messages : Carried(d, m) /\ Personal(m) => m.who # c
  BY DisjointAssumption, Zenon DEF ThreadInv, MessageOK, Waits
<1>2. th[Owner].pc \in {"truncate", "laminate", "radd"} => th[Owner].who # c
  BY DisjointAssumption, Zenon DEF ThreadInv, OwnerOK, Waits, ClientOps
<1>3. Owner \in Servers /\ {c} \in SUBSET Threads /\ c \notin Servers /\ Owner \notin {c}
  BY OwnerAssumption, DisjointAssumption, Zenon DEF Threads
<1>4. OwnerOK'
  BY <1>2, <1>3, OwnerKeeps, Zenon
<1> QED BY <1>1, <1>3, <1>4, FrameStep, Zenon

\* The service manager of the owner, idle before and after, answers a request of a client.
LEMMA AnswerStep ==
    ASSUME ThreadInv, StateOK', Alone', NEW c \in Clients,
           th[c].pc = "rpc", ClientOK(c)', th[Owner] = Ready,
           \A t \in Threads : t # c => th'[t] = th[t],
           \A b \in Clients : b # c => call'[b] = call[b],
           \A s \in Servers : pend'[s] = pend[s] \/ pend'[s] = NoPend,
           \A d \in Servers, m \in Messages : Carried(d, m)' =>
               \/ Carried(d, m) /\ (Personal(m) => m.who # c)
               \/ MessageOK(d, m)' /\ ~Personal(m)
    PROVE  ThreadInv'
<1>3. Owner \in Servers /\ {c} \in SUBSET Threads /\ c \notin Servers /\ Owner \notin {c}
  BY OwnerAssumption, DisjointAssumption, Zenon DEF Threads
<1>4. OwnerOK'
  BY <1>3, OwnerKeeps, ReadyIs, Zenon
<1> QED BY <1>3, <1>4, FrameStep, Zenon

LEMMA Parts == ASSUME ThreadInv
               PROVE  StateOK /\ Alone /\ OwnerOK /\ DOMAIN th = Threads /\ Owner \in Servers /\ Owner \in Threads
BY OwnerAssumption, Zenon DEF ThreadInv, StateOK, Threads

\* What a step may do to the requests: some go, and broadcasts come.
News(d, m) == ~Personal(m) /\ (m.op \in {"b_create", "b_truncate", "b_laminate"} => d # Owner)
Mail ==
    /\ QueueOK' /\ Alone'
    /\ \A d \in Servers, m \in Messages : Carried(d, m)' => Carried(d, m) \/ News(d, m)

LEMMA NewsOK == ASSUME NEW d, NEW m, News(d, m) PROVE MessageOK(d, m)' /\ ~Personal(m)
BY Zenon DEF News, MessageOK, Personal

LEMMA QuietMail == ASSUME ThreadInv, UNCHANGED queue, UNCHANGED chan
                   PROVE  Mail /\ \A d \in Servers, m \in Messages : Carried(d, m)' => Carried(d, m)
BY Zenon DEF ThreadInv, StateOK, QueueOK, Mail, Carried, CarriedIn, Alone, AloneIn

LEMMA BroadcastMail ==
    ASSUME ThreadInv, NEW src \in Servers, NEW m \in Messages,
           ~Personal(m), m.op # "b_unlink" => src = Owner, Broadcast(src, m), UNCHANGED queue
    PROVE  Mail /\ \A d \in Servers, x \in Messages : Carried(d, x)' => Carried(d, x) \/ x = m
<1>1. StateOK /\ queue \in [Servers -> Seq(Messages)] /\ Alone
  BY Zenon DEF ThreadInv, StateOK, QueueOK
<1>2. /\ chan' \in [Servers -> [Servers -> Seq(Messages)]]
      /\ \A d \in Servers, x \in Messages :
            CarriedIn(chan', queue, d, x) => CarriedIn(chan, queue, d, x) \/ (d # src /\ x = m)
      /\ AloneIn(chan, queue) => AloneIn(chan', queue)
  BY <1>1, BroadcastMoves, Zenon
<1>3. QueueOK' /\ Alone'
  BY <1>1, <1>2, Zenon DEF QueueOK, Alone
<1>4. \A d \in Servers, x \in Messages : Carried(d, x)' => Carried(d, x) \/ (d # src /\ x = m)
  BY <1>2, Zenon DEF Carried
<1> QED BY <1>3, <1>4, Zenon DEF Mail, News

\* The call of a client thread.
LEMMA Working ==
    ASSUME ThreadInv, NEW c \in Clients
    PROVE  /\ c \in Threads /\ c \notin Servers /\ Home[c] \in Servers
           /\ th[c].pc = "idle" <=> call[c] = Idle
           /\ \A op : Starts(c, op) => th[c].pc = "called" /\ call[c].op = op /\ call[c] \in Calls
BY DisjointAssumption, HomeAssumption DEF ThreadInv, ClientOK, Threads, Starts, At, StateOK, CallOK

\* A client thread that returns by itself.
LEMMA ReturnStep ==
    ASSUME ThreadInv, NEW c \in Clients, th[c].pc \notin {"sync", "rpc", "idle"}, NEW a, a.ok \in BOOLEAN,
           Finish(c, a), Rest(c, c), InodeOK', Mail,
           \A s \in Servers : pend'[s] = pend[s] \/ pend'[s] = NoPend
    PROVE  ThreadInv'
<1>0. StateOK /\ Alone /\ DOMAIN th = Threads /\ c \in Threads /\ call[c] # Idle
  BY Parts, Working, Zenon
<1>1. CallOK' /\ call'[c] = Idle /\ (\A b \in Clients : b # c => call'[b] = call[b])
  BY <1>0, FinishType
<1>2. DOMAIN th' = Threads /\ th'[c] = Ready /\ \A t \in Threads : t # c => th'[t] = th[t]
  BY <1>0, Zenon DEF Rest
<1>3. ClientOK(c)'
  BY <1>1, <1>2, ReadyIs, Zenon DEF ClientOK
<1>4. StateOK' /\ Alone'
  BY <1>1, <1>2, Zenon DEF StateOK, Mail
<1>5. \A d \in Servers, m \in Messages : Carried(d, m)' =>
          Carried(d, m) \/ (MessageOK(d, m)' /\ (Personal(m) => m.who = c))
  BY NewsOK, Zenon DEF Mail
<1> QED BY <1>1, <1>2, <1>3, <1>4, <1>5, OwnStep, Zenon

\* A client thread that sends its call to the owner.
LEMMA AskStep ==
    ASSUME ThreadInv, NEW c \in Clients, NEW op \in ClientOps, NEW src \in Servers, NEW w,
           Starts(c, op), Send(src, Owner, Request(op, c)), w.pc = "rpc",
           th' = [th EXCEPT ![c] = w], UNCHANGED client, UNCHANGED queue, InodeOK',
           \A s \in Servers : pend'[s] = pend[s] \/ pend'[s] = NoPend
    PROVE  /\ ThreadInv'
           /\ \A d \in Servers, x \in Messages : Carried(d, x)' => Carried(d, x) \/ (d = Owner /\ x.op = op)
<1>0. /\ StateOK /\ Alone /\ DOMAIN th = Threads /\ c \in Threads /\ c \notin Servers /\ th[c].pc = "called"
      /\ call[c].op = op /\ call[c] # Idle
  BY Parts, Working, ReadyIs, Zenon
<1> DEFINE m == Request(op, c)
<1>1. m \in Messages /\ m.op = op /\ m.who = c /\ Personal(m)
  BY MessageTypes, Zenon DEF Personal
<1> HIDE DEF m
<1>2. /\ chan' \in [Servers -> [Servers -> Seq(Messages)]]
      /\ \A d \in Servers, x \in Messages : Carried(d, x)' => Carried(d, x) \/ (d = Owner /\ x = m)
      /\ Alone /\ (\A x \in Messages : Carried(Owner, x) => Apart(x, m)) => Alone'
  <2>1. Send(src, Owner, m)
    BY Zenon DEF m
  <2> QED BY <1>0, <1>1, <2>1, SendMoves, Zenon
<1>3. \A x \in Messages : Carried(Owner, x) => Apart(x, m)
  BY <1>0, <1>1, OwnerAssumption, Zenon DEF ThreadInv, MessageOK, Waits, Apart
<1>4. CallOK' /\ call' = call
  BY <1>0, SameCalls, Zenon
<1>5. DOMAIN th' = Threads /\ th'[c] = w /\ \A t \in Threads : t # c => th'[t] = th[t]
  BY <1>0, Zenon
<1>6. StateOK' /\ Alone'
  BY <1>0, <1>2, <1>3, <1>4, <1>5, Zenon DEF StateOK, QueueOK
<1>7. ClientOK(c)'
  BY <1>0, <1>4, <1>5, Zenon DEF ClientOK, ClientOps
<1>8. MessageOK(Owner, m)'
  BY <1>0, <1>1, <1>4, <1>5, Zenon DEF MessageOK, Waits, ClientOps
<1>9. \A d \in Servers, x \in Messages : Carried(d, x)' =>
          Carried(d, x) \/ (MessageOK(d, x)' /\ (Personal(x) => x.who = c))
  BY <1>1, <1>2, <1>8, Zenon
<1>10. ThreadInv'
  BY <1>0, <1>4, <1>5, <1>6, <1>7, <1>9, OwnStep, Zenon
<1> QED BY <1>1, <1>2, <1>10, Zenon

\* A client thread that goes on to another step.
LEMMA ProceedStep ==
    ASSUME ThreadInv, NEW c \in Clients, th[c].pc \notin {"sync", "rpc"}, NEW w, th' = [th EXCEPT ![c] = w],
           ClientOK(c)', CallOK', \A b \in Clients : b # c => call'[b] = call[b],
           UNCHANGED queue, UNCHANGED chan, InodeOK', UNCHANGED pend
    PROVE  ThreadInv'
<1>0. StateOK /\ DOMAIN th = Threads /\ c \in Threads
  BY Parts, Working, Zenon
<1>1. Mail /\ \A d \in Servers, m \in Messages : Carried(d, m)' => Carried(d, m)
  BY QuietMail, Zenon
<1>2. DOMAIN th' = Threads /\ \A t \in Threads : t # c => th'[t] = th[t]
  BY <1>0, Zenon
<1>3. StateOK' /\ Alone'
  BY <1>1, <1>2, Zenon DEF StateOK, Mail
<1> QED BY <1>1, <1>2, <1>3, OwnStep, Zenon

------------------------------------------------------------------------------
(* Every step keeps the invariant of the threads *)

LEMMA CallThreads == ASSUME ThreadInv, NEW c \in Clients, Call(c) PROVE ThreadInv'
<1>0. /\ StateOK /\ DOMAIN th = Threads /\ c \in Threads /\ th[c].pc = "idle" /\ Idle.op = "idle"
  BY Parts, Working, ReadyIs, Zenon DEF Call
<1>1. PICK k \in Calls : call' = [call EXCEPT ![c] = k] /\ (k.op = "sync" => k.first <= k.last)
  BY Zenon DEF Call
<1>2. k # Idle
  BY <1>0, CallTypes, Zenon
<1>3. CallOK' /\ call'[c] = k /\ \A b \in Clients : b # c => call'[b] = call[b]
  BY <1>0, <1>1 DEF StateOK, CallOK, Call
<1>4. th' = [th EXCEPT ![c] = At("called", c)] /\ At("called", c).pc = "called"
  BY Zenon DEF Call, At
<1>5. ClientOK(c)'
  BY <1>0, <1>1, <1>2, <1>3, <1>4, Zenon DEF ClientOK
<1>6. UNCHANGED queue /\ UNCHANGED chan /\ UNCHANGED pend /\ UNCHANGED inode
  BY Zenon DEF Call, inode
<1> QED BY <1>0, <1>3, <1>4, <1>5, <1>6, ProceedStep, SameInodes, Zenon

LEMMA CreateThreads == ASSUME ThreadInv, NEW c \in Clients, Create(c) PROVE ThreadInv'
<1>0. StateOK /\ Owner \in Servers /\ Starts(c, "create") /\ th[c].pc = "called" /\ Home[c] \in Servers /\ UNCHANGED queue
  BY Parts, Working, Zenon DEF Create
<1>1. CASE Home[c] \in ex
  <2> DEFINE a == Answer(FALSE)
  <2>1. Finish(c, a) /\ Rest(c, c) /\ UNCHANGED inode /\ UNCHANGED chan /\ a.ok \in BOOLEAN
    BY <1>1, AnswerTypes, Zenon DEF Create
  <2> HIDE DEF a
  <2> QED BY <1>0, <2>1, ReturnStep, QuietMail, SameInodes
<1>2. CASE Home[c] \notin ex /\ Home[c] = Owner
  <2> DEFINE a == Answer(TRUE)
  <2>1. /\ NewInode(Owner, FALSE, 0) /\ Broadcast(Owner, CreateMsg)
        /\ Finish(c, a) /\ Rest(c, c) /\ a.ok \in BOOLEAN
    BY <1>2, AnswerTypes, Zenon DEF Create
  <2> HIDE DEF a
  <2>2. InodeOK' /\ \A r \in Servers : pend'[r] = pend[r] \/ pend'[r] = NoPend
    BY <1>0, <2>1, NewInodeType, ReadyIs, Zenon
  <2>3. Mail
    <3>1. CreateMsg \in Messages /\ CreateMsg.op = "b_create"
      BY MessageTypes, Zenon
    <3>2. ~Personal(CreateMsg)
      BY <3>1, Zenon DEF Personal, ClientOps
    <3> QED BY <1>0, <2>1, <3>1, <3>2, BroadcastMail, Zenon
  <2> QED BY <1>0, <2>1, <2>2, <2>3, ReturnStep
<1>3. CASE Home[c] \notin ex /\ Home[c] # Owner
  <2>1. /\ NewInode(Home[c], FALSE, 0) /\ Send(Home[c], Owner, Request("create", c))
        /\ th' = [th EXCEPT ![c] = At("rpc", c)] /\ UNCHANGED client
    BY <1>3, Zenon DEF Create
  <2>2. InodeOK' /\ \A r \in Servers : pend'[r] = pend[r] \/ pend'[r] = NoPend
    BY <1>0, <2>1, NewInodeType, ReadyIs, Zenon
  <2>3. At("rpc", c).pc = "rpc" /\ "create" \in ClientOps
    BY Zenon DEF At, ClientOps
  <2> QED BY <1>0, <2>1, <2>2, <2>3, AskStep, Zenon
<1> QED BY <1>1, <1>2, <1>3, Zenon

LEMMA ForwardsThreads ==
    ASSUME ThreadInv, NEW c \in Clients, NEW op \in {"truncate", "laminate"}, Forwards(c, op) PROVE ThreadInv'
<1>0. StateOK /\ Home[c] \in Servers /\ op \in ClientOps /\ At("rpc", c).pc = "rpc"
  BY Parts, Working, Zenon DEF At, ClientOps
<1>1. /\ Starts(c, op) /\ Send(Home[c], Owner, Request(op, c)) /\ th' = [th EXCEPT ![c] = At("rpc", c)]
      /\ UNCHANGED client /\ UNCHANGED queue /\ UNCHANGED inode
  BY Zenon DEF Forwards
<1> QED BY <1>0, <1>1, AskStep, SameInodes, Zenon

LEMMA ReadRemoteThreads == ASSUME ThreadInv, NEW c \in Clients, ReadRemote(c) PROVE ThreadInv'
<1>0. StateOK /\ Home[c] \in Servers /\ "read" \in ClientOps /\ At("rpc", c).pc = "rpc"
  BY Parts, Working, Zenon DEF At, ClientOps
<1>1. /\ Starts(c, "read") /\ Send(Home[c], Owner, Request("read", c)) /\ th' = [th EXCEPT ![c] = At("rpc", c)]
      /\ UNCHANGED client /\ UNCHANGED queue /\ UNCHANGED inode
  BY Zenon DEF ReadRemote
<1> QED BY <1>0, <1>1, AskStep, SameInodes, Zenon

LEMMA SizeRemoteThreads == ASSUME ThreadInv, NEW c \in Clients, SizeRemote(c) PROVE ThreadInv'
<1>0. /\ StateOK /\ Home[c] \in Servers /\ Starts(c, "size") /\ th[c].pc = "called" /\ call[c].op = "size"
      /\ th[c].pc = "idle" <=> call[c] = Idle
  BY Parts, Working, Zenon DEF SizeRemote
<1>1. UNCHANGED inode /\ UNCHANGED pend /\ UNCHANGED client /\ UNCHANGED queue
  BY Zenon DEF SizeRemote, inode
<1>2. InodeOK' /\ (\A r \in Servers : pend'[r] = pend[r]) /\ CallOK' /\ call' = call
  BY <1>0, <1>1, SameInodes, SameCalls, Zenon
<1>3. CASE Home[c] \in getting
  <2>1. th' = [th EXCEPT ![c] = At("poll", c)] /\ UNCHANGED chan /\ At("poll", c).pc = "poll"
    BY <1>3, Zenon DEF SizeRemote, At
  <2>2. ClientOK(c)'
    <3>1. th'[c] = At("poll", c)
      BY <2>1, Parts, Working, Zenon
    <3> QED BY <1>0, <1>2, <2>1, <3>1, Zenon DEF ClientOK
  <2> QED BY <1>0, <1>1, <1>2, <2>1, <2>2, ProceedStep, Zenon
<1>4. CASE Home[c] \notin getting
  <2> DEFINE w == [pc |-> "rpc", who |-> c, need |-> Home[c] \notin ex]
  <2>1. Send(Home[c], Owner, Request("size", c)) /\ th' = [th EXCEPT ![c] = w]
    BY <1>4, Zenon DEF SizeRemote
  <2>2. w.pc = "rpc" /\ "size" \in ClientOps
    BY Zenon DEF ClientOps
  <2> HIDE DEF w
  <2> QED BY <1>0, <1>1, <1>2, <2>1, <2>2, AskStep, Zenon
<1> QED BY <1>3, <1>4, Zenon

\* Calls that end in the client thread, with inodes and messages as they were.
LEMMA LocalThreads ==
    ASSUME ThreadInv, NEW c \in Clients, th[c].pc \notin {"sync", "rpc", "idle"},
           NEW a, a.ok \in BOOLEAN, Finish(c, a), Rest(c, c), UNCHANGED inode, UNCHANGED queue, UNCHANGED chan
    PROVE  ThreadInv'
BY Parts, SameInodes, QuietMail, ReturnStep

LEMMA ReadLocalThreads == ASSUME ThreadInv, NEW c \in Clients, ReadLocal(c) PROVE ThreadInv'
<1>1. th[c].pc = "called"
  BY Working, Zenon DEF ReadLocal
<1>2. /\ Finish(c, AnswerExt(ext[Home[c]])) /\ Rest(c, c)
      /\ UNCHANGED inode /\ UNCHANGED queue /\ UNCHANGED chan
  BY Zenon DEF ReadLocal
<1> QED BY <1>1, <1>2, LocalThreads, AnswerTypes

LEMMA LocalSizeOk == \A s : LocalSize(s).ok \in BOOLEAN
BY AnswerTypes, Zenon DEF LocalSize

LEMMA SizeLocalThreads == ASSUME ThreadInv, NEW c \in Clients, SizeLocal(c) PROVE ThreadInv'
<1>1. th[c].pc = "called"
  BY Working, Zenon DEF SizeLocal
<1>2. /\ Finish(c, LocalSize(Home[c])) /\ Rest(c, c)
      /\ UNCHANGED inode /\ UNCHANGED queue /\ UNCHANGED chan
  BY Zenon DEF SizeLocal
<1> QED BY <1>1, <1>2, LocalThreads, LocalSizeOk

LEMMA SizePollThreads == ASSUME ThreadInv, NEW c \in Clients, SizePoll(c) PROVE ThreadInv'
<1>1. th[c].pc = "poll"
  BY DEF SizePoll, At
<1>2. /\ Finish(c, LocalSize(Home[c])) /\ Rest(c, c)
      /\ UNCHANGED inode /\ UNCHANGED queue /\ UNCHANGED chan
  BY Zenon DEF SizePoll
<1> QED BY <1>1, <1>2, LocalThreads, LocalSizeOk

LEMMA SizeEndThreads == ASSUME ThreadInv, NEW c \in Clients, SizeEnd(c) PROVE ThreadInv'
<1>0. /\ StateOK /\ Home[c] \in Servers /\ th[c].pc = "attr"
      /\ th[c].ok \in BOOLEAN /\ th[c].lam \in BOOLEAN /\ th[c].size \in Sizes
  <2>1. ClientOK(c) /\ th[c].pc = "attr"
    BY Zenon DEF ThreadInv, SizeEnd
  <2> QED BY <2>1, Parts, Working, Zenon DEF ClientOK
<1> DEFINE a == IF th[c].ok THEN AnswerSize(th[c].size) ELSE Answer(FALSE)
<1>1. Finish(c, a) /\ Rest(c, c) /\ UNCHANGED queue /\ UNCHANGED chan
  BY Zenon DEF SizeEnd
<1>2. a.ok \in BOOLEAN
  BY AnswerTypes, Zenon
<1> HIDE DEF a
<1>3. InodeOK' /\ \A r \in Servers : pend'[r] = pend[r] \/ pend'[r] = NoPend
  <2>1. CASE th[c].ok /\ th[c].need /\ Home[c] \notin ex
    <3>1. NewInode(Home[c], th[c].lam, th[c].size)
      BY <2>1, Zenon DEF SizeEnd
    <3> QED BY <1>0, <3>1, NewInodeType, Zenon
  <2>2. CASE ~(th[c].ok /\ th[c].need /\ Home[c] \notin ex)
    <3>1. UNCHANGED inode
      BY <2>2, Zenon DEF SizeEnd
    <3> QED BY <1>0, <3>1, SameInodes, Zenon
  <2> QED BY <2>1, <2>2, Zenon
<1> QED BY <1>0, <1>1, <1>2, <1>3, QuietMail, ReturnStep

LEMMA UnlinkThreads == ASSUME ThreadInv, NEW c \in Clients, Unlink(c) PROVE ThreadInv'
<1>0. StateOK /\ Home[c] \in Servers /\ th[c].pc = "called"
  BY Parts, Working, Zenon DEF Unlink
<1> DEFINE m == [op |-> "b_unlink"]
           a == Answer(TRUE)
<1>1. /\ Destroy(Home[c]) /\ Broadcast(Home[c], m) /\ Finish(c, a) /\ Rest(c, c) /\ UNCHANGED queue
      /\ a.ok \in BOOLEAN
  BY AnswerTypes, Zenon DEF Unlink
<1>2. m \in Messages /\ m.op = "b_unlink" /\ ~Personal(m)
  BY MessageTypes, Zenon DEF Personal, ClientOps
<1> HIDE DEF m, a
<1>3. Mail
  BY <1>0, <1>1, <1>2, BroadcastMail, Zenon
<1> QED BY <1>0, <1>1, <1>3, DestroyType, ReturnStep

\* A service manager takes a request.
LEMMA ServedMail ==
    ASSUME ThreadInv, NEW s \in Servers, NEW op, Serves(s, op), UNCHANGED chan
    PROVE  Mail /\ \A d \in Servers, m \in Messages : Carried(d, m)' => Carried(d, m)
<1>0. StateOK /\ Alone /\ chan \in [Servers -> [Servers -> Seq(Messages)]]
  BY Zenon DEF ThreadInv, StateOK, QueueOK
<1>1. /\ queue' \in [Servers -> Seq(Messages)] /\ AloneIn(chan, queue')
      /\ \A d \in Servers, x \in Messages : CarriedIn(chan, queue', d, x) => Carried(d, x)
  BY <1>0, ServeMoves, Zenon
<1>2. QueueOK' /\ Alone'
  BY <1>0, <1>1, Zenon DEF QueueOK, Alone
<1>3. \A d \in Servers, x \in Messages : Carried(d, x)' => Carried(d, x)
  BY <1>1, Zenon DEF Carried
<1> QED BY <1>2, <1>3, Zenon DEF Mail

\* The request of a client that the owner takes: the client waits for it, and it was the only one.
LEMMA ClientServed ==
    ASSUME ThreadInv, NEW c, NEW op \in ClientOps, Serves(Owner, op), Head(queue[Owner]).who = c
    PROVE  /\ c \in Clients /\ th[c].pc = "rpc" /\ call[c].op = op /\ call[c] # Idle /\ th[Owner] = Ready
           /\ queue' \in [Servers -> Seq(Messages)] /\ AloneIn(chan, queue')
           /\ \A d \in Servers, x \in Messages : CarriedIn(chan, queue', d, x) =>
                 Carried(d, x) /\ (Personal(x) => x.who # c)
<1>0. StateOK /\ Alone /\ Owner \in Servers
  BY Parts, Zenon
<1> DEFINE m == Head(queue[Owner])
<1>1. /\ queue' \in [Servers -> Seq(Messages)] /\ AloneIn(chan, queue')
      /\ \A d \in Servers, x \in Messages : CarriedIn(chan, queue', d, x) => Carried(d, x)
      /\ m \in Messages /\ m.op = op /\ Carried(Owner, m)
      /\ \A x \in Messages : CarriedIn(chan, queue', Owner, x) => Apart(x, m)
  BY <1>0, ServeMoves, Zenon
<1>2. MessageOK(Owner, m) /\ m.who = c
  BY <1>0, <1>1, Zenon DEF ThreadInv
<1> HIDE DEF m
<1>3. Personal(m) /\ c \in Clients /\ th[c].pc = "rpc" /\ call[c].op = op
  BY <1>1, <1>2, Zenon DEF MessageOK, Waits, Personal, ClientOps
<1>4. call[c] # Idle
  BY <1>3, Working, Zenon
<1>5. ASSUME NEW d \in Servers, NEW x \in Messages, CarriedIn(chan, queue', d, x), Personal(x)
      PROVE  x.who # c
  <2>1. Carried(d, x)
    BY <1>1, <1>5, Zenon
  <2>2. d = Owner
    BY <1>5, <2>1, Zenon DEF ThreadInv, MessageOK
  <2> QED BY <1>1, <1>2, <1>3, <1>5, <2>2, Zenon DEF Apart
<1> QED BY <1>1, <1>3, <1>4, <1>5, Zenon DEF Serves

LEMMA AnsweredStep ==
    ASSUME ThreadInv, NEW c, NEW op \in ClientOps, Serves(Owner, op), Head(queue[Owner]).who = c,
           DOMAIN th' = Threads, \A t \in Threads : t # c => th'[t] = th[t], ClientOK(c)', CallOK',
           \A b \in Clients : b # c => call'[b] = call[b],
           InodeOK', \A s \in Servers : pend'[s] = pend[s] \/ pend'[s] = NoPend,
           QueueOK', Alone',
           \A d \in Servers, x \in Messages : Carried(d, x)' => CarriedIn(chan, queue', d, x) \/ News(d, x)
    PROVE  ThreadInv'
<1>0. StateOK /\ DOMAIN th = Threads /\ c \in Clients /\ c \in Threads
  BY Parts, Working, ClientServed, Zenon
<1>1. th[c].pc = "rpc" /\ th[Owner] = Ready
  BY ClientServed, Zenon
<1>3. StateOK'
  BY Zenon DEF StateOK
<1>4. \A d \in Servers, m \in Messages : Carried(d, m)' =>
               \/ Carried(d, m) /\ (Personal(m) => m.who # c)
               \/ MessageOK(d, m)' /\ ~Personal(m)
  BY ClientServed, NewsOK, Zenon
<1> QED BY <1>0, <1>1, <1>3, <1>4, AnswerStep, Zenon

\* Only the thread of c changes, and is ready.
Frees(c) == DOMAIN th' = Threads /\ th'[c] = Ready /\ \A t \in Threads : t # c => th'[t] = th[t]

LEMMA RestFrees ==
    ASSUME ThreadInv, NEW c \in Clients, NEW t, t = c \/ (t = Owner /\ th[t] = Ready), Rest(t, c)
    PROVE  Frees(c)
<1>1. DOMAIN th = Threads /\ Owner \in Threads /\ c \in Threads
  BY Parts, Working, Zenon
<1> DEFINE w == Ready
<1>2. th' = [th EXCEPT ![t] = w, ![c] = w]
  BY Zenon DEF Rest
<1> HIDE DEF w
<1>3. DOMAIN th' = Threads /\ th'[c] = w /\ \A r \in Threads : r # c => th'[r] = IF r = t THEN w ELSE th[r]
  BY <1>1, <1>2, Zenon
<1> QED BY <1>3, Zenon DEF Frees, w

\* The owner answers the client, and its call returns.
LEMMA AnsweredReturn ==
    ASSUME ThreadInv, NEW c, NEW op \in ClientOps, Serves(Owner, op), Head(queue[Owner]).who = c,
           NEW a, a.ok \in BOOLEAN, Finish(c, a), Frees(c),
           InodeOK', \A s \in Servers : pend'[s] = pend[s] \/ pend'[s] = NoPend,
           QueueOK', Alone',
           \A d \in Servers, x \in Messages : Carried(d, x)' => CarriedIn(chan, queue', d, x) \/ News(d, x)
    PROVE  ThreadInv'
<1>0. StateOK /\ DOMAIN th = Threads /\ c \in Clients /\ c \in Threads /\ call[c] # Idle
  BY Parts, Working, ClientServed, Zenon
<1>1. CallOK' /\ call'[c] = Idle /\ (\A b \in Clients : b # c => call'[b] = call[b])
  BY <1>0, FinishType
<1>2. DOMAIN th' = Threads /\ th'[c] = Ready /\ \A t \in Threads : t # c => th'[t] = th[t]
  BY Zenon DEF Frees
<1>3. ClientOK(c)'
  BY <1>0, <1>1, <1>2, ReadyIs, Zenon DEF ClientOK
<1> QED BY <1>1, <1>2, <1>3, AnsweredStep, Zenon

\* Without a broadcast.
LEMMA AnsweredQuiet ==
    ASSUME ThreadInv, NEW c, NEW op \in ClientOps, Serves(Owner, op), Head(queue[Owner]).who = c,
           NEW a, a.ok \in BOOLEAN, Finish(c, a), Frees(c),
           UNCHANGED inode, UNCHANGED chan
    PROVE  ThreadInv'
<1>0. StateOK /\ chan \in [Servers -> [Servers -> Seq(Messages)]]
  BY Zenon DEF ThreadInv, StateOK, QueueOK
<1>1. queue' \in [Servers -> Seq(Messages)] /\ AloneIn(chan, queue')
  BY ClientServed, Zenon
<1>2. QueueOK' /\ Alone' /\ \A d \in Servers, x \in Messages : Carried(d, x)' => CarriedIn(chan, queue', d, x)
  BY <1>0, <1>1, Zenon DEF QueueOK, Alone, Carried
<1>3. InodeOK' /\ \A r \in Servers : pend'[r] = pend[r] \/ pend'[r] = NoPend
  BY <1>0, SameInodes, Zenon
<1> QED BY <1>2, <1>3, AnsweredReturn

LEMMA CreateAtOwnerThreads == ASSUME ThreadInv, NEW c \in Clients, CreateAtOwner(c) PROVE ThreadInv'
<1>0. /\ StateOK /\ Owner \in Servers /\ Serves(Owner, "create") /\ Head(queue[Owner]).who = c
      /\ "create" \in ClientOps /\ Frees(c)
  BY Parts, RestFrees, Zenon DEF CreateAtOwner, ClientOps
<1>1. CASE Owner \in ex
  <2> DEFINE a == Answer(FALSE)
  <2>1. Finish(c, a) /\ UNCHANGED inode /\ UNCHANGED chan /\ a.ok \in BOOLEAN
    BY <1>1, AnswerTypes, Zenon DEF CreateAtOwner
  <2> HIDE DEF a
  <2> QED BY <1>0, <2>1, AnsweredQuiet
<1>2. CASE Owner \notin ex
  <2> DEFINE a == Answer(TRUE)
  <2>1. NewInode(Owner, FALSE, 0) /\ Broadcast(Owner, CreateMsg) /\ Finish(c, a) /\ a.ok \in BOOLEAN
    BY <1>2, AnswerTypes, Zenon DEF CreateAtOwner
  <2> HIDE DEF a
  <2>2. InodeOK' /\ \A r \in Servers : pend'[r] = pend[r] \/ pend'[r] = NoPend
    BY <1>0, <2>1, NewInodeType, ReadyIs, Zenon
  <2>3. CreateMsg \in Messages /\ CreateMsg.op = "b_create" /\ ~Personal(CreateMsg)
    BY MessageTypes, Zenon DEF Personal, ClientOps
  <2>4. queue' \in [Servers -> Seq(Messages)] /\ AloneIn(chan, queue')
    BY <1>0, ClientServed, Zenon
  <2>5. /\ chan' \in [Servers -> [Servers -> Seq(Messages)]] /\ AloneIn(chan', queue')
        /\ \A d \in Servers, x \in Messages :
              CarriedIn(chan', queue', d, x) => CarriedIn(chan, queue', d, x) \/ (d # Owner /\ x = CreateMsg)
    <3>1. ASSUME NEW q \in [Servers -> Seq(Messages)], AloneIn(chan, q)
          PROVE  /\ chan' \in [Servers -> [Servers -> Seq(Messages)]] /\ AloneIn(chan', q)
                 /\ \A d \in Servers, x \in Messages :
                       CarriedIn(chan', q, d, x) => CarriedIn(chan, q, d, x) \/ (d # Owner /\ x = CreateMsg)
      BY <1>0, <2>1, <2>3, <3>1, BroadcastMoves, Zenon
    <3> QED BY <2>4, <3>1, Zenon
  <2>6. QueueOK' /\ Alone'
    BY <2>4, <2>5, Zenon DEF QueueOK, Alone
  <2>7. \A d \in Servers, x \in Messages : Carried(d, x)' => CarriedIn(chan, queue', d, x) \/ News(d, x)
    BY <2>3, <2>5, Zenon DEF Carried, News
  <2> QED BY <1>0, <2>1, <2>2, <2>6, <2>7, AnsweredReturn
<1> QED BY <1>1, <1>2, Zenon

LEMMA ReadAtOwnerThreads == ASSUME ThreadInv, NEW c \in Clients, ReadAtOwner(c) PROVE ThreadInv'
<1> DEFINE a == IF Owner \in ex THEN AnswerExt(ext[Owner]) ELSE Answer(FALSE)
<1>1. /\ Serves(Owner, "read") /\ Head(queue[Owner]).who = c /\ Finish(c, a) /\ Frees(c)
      /\ UNCHANGED inode /\ UNCHANGED chan
  BY RestFrees, Zenon DEF ReadAtOwner
<1>2. a.ok \in BOOLEAN /\ "read" \in ClientOps
  BY AnswerTypes, Zenon DEF ClientOps
<1> HIDE DEF a
<1> QED BY <1>1, <1>2, AnsweredQuiet

LEMMA SizeAtOwnerThreads == ASSUME ThreadInv, NEW c \in Clients, SizeAtOwner(c) PROVE ThreadInv'
<1> DEFINE w == [pc |-> "attr", who |-> c, need |-> th[c].need, ok |-> Owner \in ex,
                 lam |-> lam[Owner], size |-> size[Owner]]
<1>0. /\ StateOK /\ Owner \in Servers /\ DOMAIN th = Threads /\ c \in Threads
      /\ chan \in [Servers -> [Servers -> Seq(Messages)]]
      /\ lam[Owner] \in BOOLEAN /\ size[Owner] \in Sizes
  <2>1. StateOK /\ Owner \in Servers /\ DOMAIN th = Threads /\ c \in Threads
    BY Parts, Working, Zenon
  <2> QED BY <2>1, Zenon DEF StateOK, QueueOK, InodeOK
<1>1. /\ Serves(Owner, "size") /\ Head(queue[Owner]).who = c /\ UNCHANGED inode /\ UNCHANGED chan
      /\ UNCHANGED client /\ "size" \in ClientOps
  BY Zenon DEF SizeAtOwner, ClientOps
<1>2. th' = [th EXCEPT ![c] = w]
  BY Zenon DEF SizeAtOwner
<1>3. w.pc = "attr" /\ w.ok \in BOOLEAN /\ w.lam \in BOOLEAN /\ w.size \in Sizes
  BY <1>0
<1> HIDE DEF w
<1>4. call[c].op = "size" /\ call[c] # Idle /\ queue' \in [Servers -> Seq(Messages)] /\ AloneIn(chan, queue')
  BY <1>1, ClientServed, Zenon
<1>5. CallOK' /\ call' = call /\ InodeOK' /\ \A r \in Servers : pend'[r] = pend[r]
  BY <1>0, <1>1, SameCalls, SameInodes, Zenon
<1>8. DOMAIN th' = Threads /\ th'[c] = w /\ \A t \in Threads : t # c => th'[t] = th[t]
  BY <1>0, <1>2, Zenon
<1>6. ClientOK(c)'
  BY <1>3, <1>4, <1>5, <1>8, Zenon DEF ClientOK
<1>7. QueueOK' /\ Alone' /\ \A d \in Servers, x \in Messages : Carried(d, x)' => CarriedIn(chan, queue', d, x)
  BY <1>0, <1>1, <1>4, Zenon DEF QueueOK, Alone, Carried
<1> QED BY <1>1, <1>5, <1>6, <1>7, <1>8, AnsweredStep, Zenon

\* Nobody but the inode and the queue of a server changes when it handles a broadcast.
LEMMA HandledStep ==
    ASSUME ThreadInv, Mail, CallOK', UNCHANGED th, UNCHANGED call, InodeOK',
           \A s \in Servers : pend'[s] = pend[s] \/ pend'[s] = NoPend,
           \A d \in Servers, m \in Messages : Carried(d, m)' => Carried(d, m)
    PROVE  ThreadInv'
<1>0. StateOK /\ Owner \in Servers
  BY Parts, Zenon
<1> DEFINE W == {}
<1>1. W \in SUBSET Threads /\ \A x : x \notin W
  BY Zenon
<1> HIDE DEF W
<1>2. StateOK' /\ Alone'
  BY <1>0, Zenon DEF StateOK, Mail
<1>3. OwnerOK'
  BY <1>0, <1>1, OwnerKeeps, Zenon
<1> QED BY <1>1, <1>2, <1>3, FrameStep, Zenon

LEMMA CreateAtOtherThreads == ASSUME ThreadInv, NEW s \in Servers, CreateAtOther(s) PROVE ThreadInv'
<1>0. StateOK /\ Serves(s, "b_create") /\ UNCHANGED th /\ UNCHANGED client /\ UNCHANGED chan
  BY Parts, Zenon DEF CreateAtOther
<1>1. InodeOK' /\ \A r \in Servers : pend'[r] = pend[r] \/ pend'[r] = NoPend
  <2>1. CASE s \in ex
    BY <1>0, <2>1, SameInodes, Zenon DEF CreateAtOther
  <2>2. CASE s \notin ex
    <3>1. NewInode(s, FALSE, 0)
      BY <2>2, Zenon DEF CreateAtOther
    <3> QED BY <1>0, <3>1, NewInodeType, ReadyIs, Zenon
  <2> QED BY <2>1, <2>2, Zenon
<1>2. Mail /\ \A d \in Servers, m \in Messages : Carried(d, m)' => Carried(d, m)
  BY <1>0, ServedMail, Zenon
<1>3. CallOK' /\ call' = call
  BY <1>0, SameCalls, Zenon
<1> QED BY <1>0, <1>1, <1>2, <1>3, HandledStep, Zenon

\* The size of a truncation and the attributes of a lamination are of their types.
LEMMA ServedData ==
    ASSUME ThreadInv, NEW s \in Servers, NEW op, Serves(s, op)
    PROVE  /\ op = "b_truncate" => Head(queue[s]).size \in Sizes
           /\ op = "b_laminate" => Head(queue[s]).size \in Sizes /\ Head(queue[s]).ext \in Contents
           /\ op = "add" => Head(queue[s]).who \in Servers /\ Head(queue[s]).ext \in Contents
<1>0. StateOK
  BY Parts, Zenon
<1>1. Head(queue[s]) \in Messages /\ Head(queue[s]).op = op
  BY <1>0, ServeMoves, Zenon
<1> QED BY <1>1, Zenon DEF Messages, ClientOps

LEMMA TruncateAtOtherThreads == ASSUME ThreadInv, NEW s \in Servers, TruncateAtOther(s) PROVE ThreadInv'
<1>0. StateOK /\ Serves(s, "b_truncate") /\ UNCHANGED th /\ UNCHANGED client /\ UNCHANGED chan
  BY Parts, Zenon DEF TruncateAtOther
<1>1. InodeOK' /\ \A r \in Servers : pend'[r] = pend[r]
  <2>1. CASE s \in ex /\ ~lam[s]
    <3>1. TruncateInode(s, Head(queue[s]).size)
      BY <2>1, Zenon DEF TruncateAtOther
    <3> QED BY <1>0, <3>1, ServedData, TruncateInodeType, Zenon
  <2>2. CASE ~(s \in ex /\ ~lam[s])
    BY <1>0, <2>2, SameInodes, Zenon DEF TruncateAtOther
  <2> QED BY <2>1, <2>2, Zenon
<1>2. Mail /\ \A d \in Servers, m \in Messages : Carried(d, m)' => Carried(d, m)
  BY <1>0, ServedMail, Zenon
<1>3. CallOK' /\ call' = call
  BY <1>0, SameCalls, Zenon
<1> QED BY <1>0, <1>1, <1>2, <1>3, HandledStep, Zenon

LEMMA LaminateAtOtherThreads == ASSUME ThreadInv, NEW s \in Servers, LaminateAtOther(s) PROVE ThreadInv'
<1>0. StateOK /\ Serves(s, "b_laminate") /\ UNCHANGED th /\ UNCHANGED client /\ UNCHANGED chan /\ UNCHANGED pend
  BY Parts, Zenon DEF LaminateAtOther
<1>1. InodeOK'
  <2> DEFINE old == IF s \in ex THEN ext[s] ELSE Empty
             e == IF s \in ex /\ lam[s] THEN old ELSE Overlay(old, Head(queue[s]).ext)
             n == Head(queue[s]).size
  <2>1. n \in Sizes /\ Head(queue[s]).ext \in Contents
    BY <1>0, ServedData, Zenon
  <2>2. old \in Contents
    BY <1>0, DataTypes, Zenon DEF StateOK, InodeOK
  <2>3. e \in Contents
    BY <2>1, <2>2, DataTypes, Zenon
  <2>4. /\ ex' = ex \cup {s} /\ ext' = [ext EXCEPT ![s] = e]
        /\ lam' = [lam EXCEPT ![s] = TRUE] /\ size' = [size EXCEPT ![s] = n]
    BY Zenon DEF LaminateAtOther
  <2> HIDE DEF e, n
  <2> QED BY <1>0, <2>1, <2>3, <2>4, Zenon DEF StateOK, InodeOK
<1>2. Mail /\ \A d \in Servers, m \in Messages : Carried(d, m)' => Carried(d, m)
  BY <1>0, ServedMail, Zenon
<1>3. CallOK' /\ call' = call
  BY <1>0, SameCalls, Zenon
<1> QED BY <1>0, <1>1, <1>2, <1>3, HandledStep, Zenon

LEMMA UnlinkAtOtherThreads == ASSUME ThreadInv, NEW s \in Servers, UnlinkAtOther(s) PROVE ThreadInv'
<1>0. StateOK /\ Serves(s, "b_unlink") /\ UNCHANGED th /\ UNCHANGED client /\ UNCHANGED chan /\ Destroy(s)
  BY Parts, Zenon DEF UnlinkAtOther
<1>1. InodeOK' /\ \A r \in Servers : pend'[r] = pend[r] \/ pend'[r] = NoPend
  BY <1>0, DestroyType, Zenon
<1>2. Mail /\ \A d \in Servers, m \in Messages : Carried(d, m)' => Carried(d, m)
  BY <1>0, ServedMail, Zenon
<1>3. CallOK' /\ call' = call
  BY <1>0, SameCalls, Zenon
<1> QED BY <1>0, <1>1, <1>2, <1>3, HandledStep, Zenon

LEMMA DeliverThreads == ASSUME ThreadInv, NEW s \in Servers, NEW d \in Servers, Deliver(s, d) PROVE ThreadInv'
<1>0. StateOK /\ Alone /\ UNCHANGED th /\ UNCHANGED client /\ UNCHANGED inode
  BY Parts, Zenon DEF Deliver
<1>1. /\ chan' \in [Servers -> [Servers -> Seq(Messages)]] /\ queue' \in [Servers -> Seq(Messages)] /\ Alone'
      /\ \A r \in Servers, x \in Messages : Carried(r, x)' => Carried(r, x)
  BY <1>0, DeliverMoves, Zenon
<1>2. Mail
  BY <1>1, Zenon DEF Mail, QueueOK
<1>3. CallOK' /\ call' = call /\ InodeOK' /\ \A r \in Servers : pend'[r] = pend[r]
  BY <1>0, SameCalls, SameInodes, Zenon
<1> QED BY <1>0, <1>1, <1>2, <1>3, HandledStep, Zenon

\* A thread of the owner, for the client w.  The start of a truncation or a lamination.
LEMMA BeginAtOwner ==
    ASSUME ThreadInv, NEW t, NEW c \in Clients, NEW op \in {"truncate", "laminate"}, AtOwner(t, op, c),
           NEW w, w.pc = op, w.who = c, th' = [th EXCEPT ![t] = w], UNCHANGED client,
           InodeOK', UNCHANGED pend, UNCHANGED chan
    PROVE  ThreadInv'
<1>0. /\ StateOK /\ Owner \in Servers /\ Owner \in Threads /\ c \in Threads /\ op \in ClientOps
      /\ DOMAIN th = Threads /\ CallOK' /\ call' = call /\ c # Owner /\ c \notin Servers
  <2>1. StateOK /\ Owner \in Servers /\ Owner \in Threads /\ c \in Threads /\ DOMAIN th = Threads /\ c \notin Servers
    BY Parts, Working, Zenon
  <2> QED BY <2>1, SameCalls, Zenon DEF ClientOps
<1>1. CASE t = c /\ Starts(c, op) /\ UNCHANGED queue
  <2>1. th[c].pc = "called" /\ call[c].op = op /\ call[c] # Idle
    BY <1>0, <1>1, Working, Zenon
  <2>2. ClientOK(c)'
    BY <1>0, <1>1, <2>1, Zenon DEF ClientOK
  <2> QED BY <1>0, <1>1, <2>1, <2>2, ProceedStep, Zenon
<1>2. CASE t = Owner /\ Serves(t, op) /\ Head(queue[t]).who = c
  <2>0. Serves(Owner, op) /\ Head(queue[Owner]).who = c
    BY <1>2, Zenon
  <2>1. /\ th[c].pc = "rpc" /\ call[c].op = op
        /\ \A d \in Servers, x \in Messages : CarriedIn(chan, queue', d, x) =>
                 Carried(d, x) /\ (Personal(x) => x.who # c)
    BY <1>0, <2>0, ClientServed, Zenon
  <2>2. Mail /\ \A d \in Servers, x \in Messages : Carried(d, x)' => Carried(d, x) /\ (Personal(x) => x.who # c)
    <3>1. Mail
      BY <1>0, <2>0, ServedMail, Zenon
    <3> QED BY <2>1, <3>1, Zenon DEF Carried
  <2>3. th'[Owner] = w /\ (\A r \in Threads : r # Owner => th'[r] = th[r]) /\ DOMAIN th' = Threads
    BY <1>0, <1>2, Zenon
  <2>4. StateOK' /\ Alone'
    BY <1>0, <2>2, <2>3, Zenon DEF StateOK, Mail
  <2>5. OwnerOK'
    BY <1>0, <2>1, <2>2, <2>3, Zenon DEF OwnerOK, Waits
  <2> DEFINE W == {Owner}
  <2>6. W \in SUBSET Threads /\ \A x : x \in W <=> x = Owner
    BY <1>0, Zenon
  <2> HIDE DEF W
  <2>7. \A x \in Messages, d \in Servers : Carried(d, x) /\ Personal(x) => x.who # Owner
    BY DisjointAssumption, <1>0 DEF ThreadInv, MessageOK, Waits
  <2>8. w.pc \in {"truncate", "laminate", "radd"}
    BY Zenon
  <2>9. /\ \A r \in Threads \ W : th'[r] = th[r]
        /\ \A b \in Clients \ W : call'[b] = call[b]
        /\ \A s \in Servers : pend'[s] = pend[s] \/ pend'[s] = NoPend
        /\ \A b \in Clients \cap W : th[b].pc # "sync" /\ ClientOK(b)'
        /\ \A s \in Servers \cap W : s = Owner /\ (th'[s] = Ready \/ th'[s].pc \in {"truncate", "laminate", "radd"})
    BY <1>0, <2>3, <2>6, <2>8, DisjointAssumption, Zenon
  <2>10. \A d \in Servers, m \in Messages : Carried(d, m)' => Carried(d, m) /\ (Personal(m) => m.who \notin W)
    BY <2>2, <2>6, <2>7
  <2> QED BY <2>4, <2>5, <2>6, <2>9, <2>10, FrameStep, Zenon
<1> QED BY <1>1, <1>2, Zenon DEF AtOwner

\* Its failure.
LEMMA FailAtOwner ==
    ASSUME ThreadInv, NEW t, NEW c \in Clients, NEW op \in ClientOps, AtOwner(t, op, c),
           NEW a, a.ok \in BOOLEAN, Finish(c, a), Rest(t, c), UNCHANGED inode, UNCHANGED chan
    PROVE  ThreadInv'
<1>1. CASE t = c /\ Starts(c, op) /\ UNCHANGED queue
  <2>1. th[c].pc = "called"
    BY <1>1, Working, Zenon
  <2> QED BY <1>1, <2>1, LocalThreads
<1>2. CASE t = Owner /\ Serves(t, op) /\ Head(queue[t]).who = c
  <2>1. th[Owner] = Ready
    BY <1>2, Zenon DEF Serves
  <2>2. Frees(c)
    BY <1>2, <2>1, RestFrees, Zenon
  <2> QED BY <1>2, <2>2, AnsweredQuiet
<1> QED BY <1>1, <1>2, Zenon DEF AtOwner

LEMMA TruncateThreads == ASSUME ThreadInv, NEW t, NEW c \in Clients, Truncate(t, c) PROVE ThreadInv'
<1>0. StateOK /\ AtOwner(t, "truncate", c) /\ UNCHANGED inode /\ UNCHANGED pend /\ UNCHANGED chan /\ "truncate" \in ClientOps
  BY Parts, Zenon DEF Truncate, ClientOps, inode
<1>1. CASE Owner \notin ex
  <2> DEFINE a == Answer(FALSE)
  <2>1. Finish(c, a) /\ Rest(t, c) /\ a.ok \in BOOLEAN
    BY <1>1, AnswerTypes, Zenon DEF Truncate
  <2> HIDE DEF a
  <2> QED BY <1>0, <2>1, FailAtOwner
<1>2. CASE Owner \in ex
  <2> DEFINE w == [pc |-> "truncate", who |-> c, old |-> size[Owner]]
  <2>1. th' = [th EXCEPT ![t] = w] /\ UNCHANGED client /\ w.pc = "truncate" /\ w.who = c
    BY <1>2, Zenon DEF Truncate
  <2> HIDE DEF w
  <2> QED BY <1>0, <2>1, BeginAtOwner, SameInodes, Zenon
<1> QED BY <1>1, <1>2, Zenon

LEMMA LaminateThreads == ASSUME ThreadInv, NEW t, NEW c \in Clients, Laminate(t, c) PROVE ThreadInv'
<1>0. /\ StateOK /\ Owner \in Servers /\ AtOwner(t, "laminate", c) /\ UNCHANGED pend /\ UNCHANGED chan
      /\ "laminate" \in ClientOps
  BY Parts, Zenon DEF Laminate, ClientOps
<1>1. CASE Owner \notin ex
  <2> DEFINE a == Answer(FALSE)
  <2>1. Finish(c, a) /\ Rest(t, c) /\ a.ok \in BOOLEAN /\ UNCHANGED inode
    BY <1>1, AnswerTypes, Zenon DEF Laminate, inode
  <2> HIDE DEF a
  <2> QED BY <1>0, <2>1, FailAtOwner
<1>2. CASE Owner \in ex
  <2> DEFINE w == At("laminate", c)
  <2>1. th' = [th EXCEPT ![t] = w] /\ UNCHANGED client /\ w.pc = "laminate" /\ w.who = c
    BY <1>2, Zenon DEF Laminate, At
  <2> HIDE DEF w
  <2>2. InodeOK'
    BY <1>0, <1>2, Zenon DEF Laminate, StateOK, InodeOK
  <2> QED BY <1>0, <2>1, <2>2, BeginAtOwner, Zenon
<1> QED BY <1>1, <1>2, Zenon

\* The client for whom a thread of the owner truncates or laminates.
LEMMA ForWhom ==
    ASSUME ThreadInv, NEW t \in Clients \cup {Owner}, th[t].pc \in {"truncate", "laminate"}
    PROVE  /\ th[t].who \in Clients /\ call[th[t].who].op = th[t].pc
           /\ call[th[t].who] \in Calls /\ call[th[t].who] # Idle
           /\ t = th[t].who \/ (t = Owner /\ th[th[t].who].pc = "rpc")
<1>1. th[t].who \in Clients /\ call[th[t].who].op = th[t].pc /\ (t = th[t].who \/ (t = Owner /\ th[th[t].who].pc = "rpc"))
  <2>1. CASE t \in Clients
    <3>1. ClientOK(t)
      BY <2>1, Zenon DEF ThreadInv
    <3> QED BY <2>1, <3>1, Zenon DEF ClientOK
  <2>2. CASE t = Owner
    <3>1. Waits(th[t].who, th[t].pc)
      BY <2>2, Zenon DEF ThreadInv, OwnerOK
    <3> QED BY <2>2, <3>1, Zenon DEF Waits
  <2> QED BY <2>1, <2>2, Zenon
<1>2. call[th[t].who] # Idle
  BY <1>1, Working, Zenon
<1>3. call[th[t].who] \in Calls
  BY <1>1, <1>2, Zenon DEF ThreadInv, StateOK, CallOK
<1> QED BY <1>1, <1>2, <1>3, Zenon

LEMMA EndAtOwner ==
    ASSUME ThreadInv, NEW t \in Clients \cup {Owner}, th[t].pc \in {"truncate", "laminate"},
           NEW c, c = th[t].who, NEW a, a.ok \in BOOLEAN, Finish(c, a), Rest(t, c),
           InodeOK', \A s \in Servers : pend'[s] = pend[s] \/ pend'[s] = NoPend, Mail
    PROVE  ThreadInv'
<1>0. /\ StateOK /\ Owner \in Servers /\ Owner \in Threads /\ DOMAIN th = Threads
      /\ c \in Clients /\ c \in Threads /\ call[c] # Idle /\ c \notin Servers
  BY Parts, Working, ForWhom, Zenon
<1>1. CASE t = c
  BY <1>0, <1>1, ReturnStep
<1>2. CASE t = Owner /\ th[c].pc = "rpc"
  <2>1. CallOK' /\ call'[c] = Idle /\ (\A b \in Clients : b # c => call'[b] = call[b])
    BY <1>0, FinishType
  <2>2. /\ DOMAIN th' = Threads /\ th'[c] = Ready /\ th'[Owner] = Ready
        /\ \A r \in Threads : r # c /\ r # Owner => th'[r] = th[r]
    BY <1>0, <1>2, Zenon DEF Rest
  <2>3. ClientOK(c)'
    BY <1>0, <2>1, <2>2, ReadyIs, Zenon DEF ClientOK
  <2>4. StateOK' /\ Alone'
    BY <2>1, <2>2, Zenon DEF StateOK, Mail
  <2>5. OwnerOK'
    BY <2>2, ReadyIs, Zenon DEF OwnerOK
  <2>6. \A d \in Servers, m \in Messages : Carried(d, m) /\ Personal(m) => m.who # c /\ m.who # Owner
    BY <1>0, <1>2, DisjointAssumption, Zenon DEF ThreadInv, OwnerOK, MessageOK, Waits
  <2> DEFINE W == {Owner, c}
  <2>7. W \in SUBSET Threads /\ \A x : x \in W <=> x = Owner \/ x = c
    BY <1>0, Zenon
  <2> HIDE DEF W
  <2>8. \A d \in Servers, m \in Messages : Carried(d, m)' =>
               MessageOK(d, m)' \/ (Carried(d, m) /\ (Personal(m) => m.who \notin W))
    BY <2>6, <2>7, NewsOK DEF Mail
  <2>9. /\ \A r \in Threads \ W : th'[r] = th[r]
        /\ \A b \in Clients \ W : call'[b] = call[b]
        /\ \A b \in Clients \cap W : th[b].pc # "sync" /\ ClientOK(b)'
        /\ \A s \in Servers \cap W : s = Owner /\ (th'[s] = Ready \/ th'[s].pc \in {"truncate", "laminate", "radd"})
    BY <1>0, <1>2, <2>1, <2>2, <2>3, <2>7, DisjointAssumption
  <2> QED BY <2>4, <2>5, <2>7, <2>8, <2>9, FrameStep, Zenon
<1> QED BY <1>1, <1>2, ForWhom, Zenon

LEMMA TruncateEndThreads ==
    ASSUME ThreadInv, NEW t \in Clients \cup {Owner}, TruncateEnd(t) PROVE ThreadInv'
<1> DEFINE c == th[t].who
<1>0. /\ StateOK /\ Owner \in Servers /\ th[t].pc = "truncate" /\ c \in Clients /\ call[c].op = "truncate"
      /\ call[c] \in Calls /\ Rest(t, c) /\ UNCHANGED queue
  BY Parts, ForWhom, Zenon DEF TruncateEnd
<1>1. CASE Owner \notin ex \/ lam[Owner]
  <2> DEFINE a == Answer(FALSE)
  <2>1. Finish(c, a) /\ UNCHANGED inode /\ UNCHANGED chan /\ a.ok \in BOOLEAN
    BY <1>1, AnswerTypes, Zenon DEF TruncateEnd
  <2> HIDE DEF a, c
  <2> QED BY <1>0, <2>1, EndAtOwner, SameInodes, QuietMail, SMTT(30) DEF c
<1>2. CASE ~(Owner \notin ex \/ lam[Owner])
  <2> DEFINE a == Answer(TRUE)
             n == call[c].size
             m == TruncateMsg(n)
  <2>1. /\ TruncateInode(Owner, n) /\ Finish(c, a) /\ a.ok \in BOOLEAN
        /\ Broadcast(Owner, m) \/ UNCHANGED chan
    BY <1>2, AnswerTypes, Zenon DEF TruncateEnd
  <2>2. n \in Sizes
    BY <1>0, CallTypes, Zenon
  <2>3. m \in Messages /\ m.op = "b_truncate" /\ ~Personal(m)
    BY <2>2, MessageTypes, Zenon DEF Personal, ClientOps
  <2> HIDE DEF a, c, n, m
  <2>4. Mail
    BY <1>0, <2>1, <2>3, BroadcastMail, QuietMail, Zenon
  <2>5. InodeOK' /\ pend' = pend
    BY <1>0, <2>1, <2>2, TruncateInodeType, Zenon
  <2> QED BY <1>0, <2>1, <2>4, <2>5, EndAtOwner DEF c
<1> QED BY <1>1, <1>2, Zenon

LEMMA LaminateEndThreads ==
    ASSUME ThreadInv, NEW t \in Clients \cup {Owner}, LaminateEnd(t) PROVE ThreadInv'
<1> DEFINE c == th[t].who
           m == LaminateMsg
<1>0. /\ StateOK /\ Owner \in Servers /\ th[t].pc = "laminate" /\ Rest(t, c) /\ UNCHANGED queue /\ UNCHANGED inode
      /\ Broadcast(Owner, m) \/ UNCHANGED chan
  BY Parts, Zenon DEF LaminateEnd
<1>1. m \in Messages /\ m.op = "b_laminate" /\ ~Personal(m)
  BY <1>0, MessageTypes, Zenon DEF Personal, ClientOps
<1> HIDE DEF m
<1>2. Mail /\ InodeOK' /\ \A r \in Servers : pend'[r] = pend[r]
  BY <1>0, <1>1, BroadcastMail, QuietMail, SameInodes, Zenon
<1>3. \E b : Finish(c, b) /\ b.ok \in BOOLEAN
  <2>1. CASE Owner \in ex
    <3> DEFINE b == Answer(TRUE)
    <3>1. Finish(c, b) /\ b.ok \in BOOLEAN
      BY <2>1, AnswerTypes, Zenon DEF LaminateEnd
    <3> HIDE DEF b
    <3> QED BY <3>1, Zenon
  <2>2. CASE Owner \notin ex
    <3> DEFINE b == Answer(FALSE)
    <3>1. Finish(c, b) /\ b.ok \in BOOLEAN
      BY <2>2, AnswerTypes, Zenon DEF LaminateEnd
    <3> HIDE DEF b
    <3> QED BY <3>1, Zenon
  <2> QED BY <2>1, <2>2, Zenon
<1> HIDE DEF c
<1> QED BY <1>0, <1>2, <1>3, EndAtOwner DEF c

\* A step that ends the syncs of the clients P, and changes the service managers S.
LEMMA SyncFrame ==
    ASSUME ThreadInv, StateOK', Alone', OwnerOK', NEW P \in SUBSET Clients, NEW S \in SUBSET Servers,
           \A c \in P : th[c].pc = "sync" /\ th'[c] = Ready /\ call'[c] = Idle,
           \A t \in Threads \ (P \cup S) : th'[t] = th[t],
           \A c \in Clients \ P : call'[c] = call[c],
           \A s \in S : ServerOK(s)',
           \A s \in Servers \ S :
               /\ pend'[s] = pend[s]
               /\ P \cap pend[s].who = {}
               /\ th[s].pc \in {"add", "addrpc"} => P \cap th[s].who = {},
           \A d \in Servers, m \in Messages : Carried(d, m)' =>
               MessageOK(d, m)' \/ (Carried(d, m) /\ (Personal(m) => m.who \notin S))
    PROVE  ThreadInv'
<1>0. Clients \subseteq Threads /\ Servers \subseteq Threads /\ P \cap S = {} /\ S \cap Clients = {} /\ P \cap Servers = {}
  BY DisjointAssumption, Zenon DEF Threads
<1>1. ASSUME NEW c \in Clients PROVE ClientOK(c)'
  <2>1. CASE c \in P
    BY <2>1, ReadyIs, Zenon DEF ClientOK
  <2>2. CASE c \notin P
    <3>1. th'[c] = th[c] /\ call'[c] = call[c] /\ ClientOK(c)
      BY <1>0, <2>2, Zenon DEF ThreadInv
    <3> QED BY <3>1, Zenon DEF ClientOK
  <2> QED BY <2>1, <2>2, Zenon
<1>2. ASSUME NEW s \in Servers PROVE ServerOK(s)'
  <2>1. CASE s \in S
    BY <2>1, Zenon
  <2>2. CASE s \notin S
    <3>1. th'[s] = th[s] /\ pend'[s] = pend[s] /\ ServerOK(s) /\ pend[s].who \in SUBSET Clients
      BY <1>0, <2>2, Zenon DEF ThreadInv, StateOK, InodeOK
    <3>2. \A c \in pend[s].who : th'[c] = th[c]
      BY <1>0, <2>2, <3>1, Zenon
    <3>3. th[s].pc \in {"add", "addrpc"} => th[s].who \in SUBSET Clients /\ \A c \in th[s].who : th'[c] = th[c]
      BY <1>0, <2>2, <3>1, Zenon DEF ServerOK
    <3> QED BY <3>1, <3>2, <3>3, SMTT(30) DEF ServerOK
  <2> QED BY <2>1, <2>2, Zenon
<1>3. ASSUME NEW d \in Servers, NEW m \in Messages, Carried(d, m)' PROVE MessageOK(d, m)'
  <2>1. CASE MessageOK(d, m)'
    BY <2>1, Zenon
  <2>2. CASE Carried(d, m) /\ (Personal(m) => m.who \notin S)
    <3>1. MessageOK(d, m)
      BY <2>2, Zenon DEF ThreadInv
    <3>2. CASE Personal(m)
      <4>1. m.who \in Threads \ (P \cup S) /\ Waits(m.who, m.op)
        BY <1>0, <2>2, <3>1, <3>2, Zenon DEF MessageOK, Waits
      <4>2. th'[m.who] = th[m.who] /\ (m.who \in Clients => call'[m.who] = call[m.who])
        BY <4>1, Zenon
      <4>3. Waits(m.who, m.op)'
        BY <4>1, <4>2, Zenon DEF Waits
      <4> QED BY <3>1, <4>2, <4>3, Zenon DEF MessageOK
    <3>3. CASE ~Personal(m)
      BY <3>1, <3>3, Zenon DEF MessageOK, Personal
    <3> QED BY <3>2, <3>3, Zenon
  <2> QED BY <1>3, <2>1, <2>2, Zenon
<1> QED BY <1>1, <1>2, <1>3, Zenon DEF ThreadInv

\* The answers to the syncs.
LEMMA SyncsSucceed ==
    ASSUME StateOK, NEW cs \in SUBSET Clients, NEW over \in Contents, FinishSyncs(cs, over, TRUE)
    PROVE  /\ CallOK' /\ \A c \in Clients : call'[c] = IF c \in cs THEN Idle ELSE call[c]
           /\ ref'.exists = ref.exists /\ ref'.lam = ref.lam
           /\ ref'.ext = Overlay(ref.ext, over)
           /\ ref'.size = Max2(ref.size, ExtentSize(over))
           /\ acked' = acked \cup {call[c].data : c \in cs}
<1>0. ref \in Files
  BY Zenon DEF StateOK, CallOK
<1> DEFINE e == Overlay(ref.ext, over)
           n == Max2(ref.size, ExtentSize(over))
           r == [ref EXCEPT !.ext = e, !.size = n]
<1>1. e \in Contents
  BY <1>0, DataTypes, Zenon DEF Files
<1>2. n \in Sizes
  BY <1>0, SizeOfExtents, Zenon DEF Max2, Files
<1>3. ref' = r
  BY Zenon DEF FinishSyncs
<1> HIDE DEF e, n
<1>4. r \in Files /\ r.ext = e /\ r.size = n /\ r.exists = ref.exists /\ r.lam = ref.lam
  BY <1>0, <1>1, <1>2, Zenon DEF Files
<1> HIDE DEF r
<1>5. CallOK'
  BY <1>0, <1>3, <1>4, Zenon DEF FinishSyncs, StateOK, CallOK
<1>6. /\ \A c \in Clients : call'[c] = IF c \in cs THEN Idle ELSE call[c]
      /\ acked' = acked \cup {call[c].data : c \in cs}
  BY Zenon DEF FinishSyncs
<1> QED BY <1>3, <1>4, <1>5, <1>6, Zenon DEF e, n

LEMMA SyncsFail ==
    ASSUME StateOK, NEW cs \in SUBSET Clients, NEW over, FinishSyncs(cs, over, FALSE)
    PROVE  /\ CallOK' /\ \A c \in Clients : call'[c] = IF c \in cs THEN Idle ELSE call[c]
           /\ ref' = ref /\ acked' = acked
<1>1. ref' = ref /\ acked' = acked
  BY Zenon DEF FinishSyncs
<1> QED BY <1>1, Zenon DEF FinishSyncs, StateOK, CallOK

\* What a server knows of the syncs it works on.
LEMMA Syncing ==
    ASSUME ThreadInv, NEW s \in Servers, th[s].pc \in {"add", "addrpc"}
    PROVE  /\ th[s] = [pc |-> th[s].pc, who |-> th[s].who, ext |-> th[s].ext]
           /\ th[s].who \in SUBSET Clients /\ th[s].ext \in Contents /\ th[s].ext # Empty
           /\ \A c \in th[s].who : Home[c] = s /\ th[c].pc = "sync" /\ c \notin pend[s].who
BY Zenon DEF ThreadInv, ServerOK

LEMMA Pending ==
    ASSUME ThreadInv, NEW s \in Servers
    PROVE  /\ pend[s].who \in SUBSET Clients /\ pend[s].ext \in Contents
           /\ pend[s].who # {} => pend[s].ext # Empty
           /\ \A c \in pend[s].who : Home[c] = s /\ th[c].pc = "sync"
           /\ NoPend.who = {} /\ NoPend.ext = Empty
BY Zenon DEF ThreadInv, ServerOK, StateOK, InodeOK, NoPend

\* The clients that one server answers do not wait at another one.
LEMMA OtherSyncs ==
    ASSUME ThreadInv, NEW s \in Servers, NEW P \in SUBSET Clients, \A c \in P : Home[c] = s,
           NEW r \in Servers, r # s
    PROVE  /\ P \cap pend[r].who = {}
           /\ th[r].pc \in {"add", "addrpc"} => P \cap th[r].who = {}
<1>1. \A c \in pend[r].who : Home[c] = r
  BY Pending, Zenon
<1>2. th[r].pc \in {"add", "addrpc"} => \A c \in th[r].who : Home[c] = r
  BY Syncing, Zenon
<1> QED BY <1>1, <1>2

LEMMA ProcessSyncThreads == ASSUME ThreadInv, NEW s \in Servers, ProcessSync(s) PROVE ThreadInv'
<1> DEFINE P == pend[s].who
<1>0. /\ StateOK /\ Owner \in Servers /\ s \in Threads /\ DOMAIN th = Threads
      /\ Serves(s, "sync") /\ th[s] = Ready /\ UNCHANGED chan /\ s \notin Clients
  <2>1. StateOK /\ Owner \in Servers /\ DOMAIN th = Threads
    BY Parts, Zenon
  <2> QED BY <2>1, DisjointAssumption, Zenon DEF ProcessSync, Serves, Threads
<1>1. Mail /\ \A d \in Servers, m \in Messages : Carried(d, m)' => Carried(d, m)
  BY <1>0, ServedMail, Zenon
<1>2. /\ InodeOK' /\ pend'[s] = NoPend /\ \A r \in Servers : r # s => pend'[r] = pend[r]
  BY <1>0, Pending, DataTypes DEF ProcessSync, StateOK, InodeOK, NoPend
<1>3. CASE UNCHANGED th /\ UNCHANGED client
  <2>1. CallOK' /\ call' = call
    BY <1>0, <1>3, SameCalls, Zenon
  <2> QED BY <1>1, <1>2, <1>3, <2>1, HandledStep, Zenon
<1>4. CASE /\ FinishSyncs(P, Empty, FALSE)
           /\ th' = [t \in Threads |-> IF t \in P THEN Ready ELSE th[t]]
  <2>0. P \in SUBSET Clients /\ P \in SUBSET Threads /\ \A c \in P : Home[c] = s /\ th[c].pc = "sync"
    BY Pending, Working, Zenon
  <2>1. CallOK' /\ \A c \in Clients : call'[c] = IF c \in P THEN Idle ELSE call[c]
    <3> HIDE DEF P
    <3> QED BY <1>0, <1>4, <2>0, SyncsFail, Zenon
  <2>2. DOMAIN th' = Threads /\ \A t \in Threads : th'[t] = IF t \in P THEN Ready ELSE th[t]
    BY <1>4, Zenon
  <2> HIDE DEF P
  <2>3. StateOK' /\ Alone'
    BY <1>1, <1>2, <2>1, <2>2, Zenon DEF StateOK, Mail
  <2>4. Owner \notin P /\ s \notin P
    BY <1>0, <2>0, DisjointAssumption, Zenon
  <2>5. th[Owner].pc \in {"truncate", "laminate", "radd"} => th[Owner].who \notin P
    BY <2>0, DisjointAssumption, Zenon DEF ThreadInv, OwnerOK, Waits, ClientOps
  <2>6. OwnerOK'
    BY <1>0, <1>1, <2>0, <2>1, <2>2, <2>4, <2>5, OwnerKeeps, Zenon
  <2>7. ServerOK(s)'
    BY <1>0, <1>2, <2>2, <2>4, ReadyIs, Pending, Zenon DEF ServerOK
  <2>8. \A d \in Servers, m \in Messages : Carried(d, m) /\ Personal(m) => m.who # s
    BY <1>0, DisjointAssumption, ReadyIs DEF ThreadInv, MessageOK, Waits
  <2> DEFINE S == {s}
  <2>9. S \in SUBSET Servers /\ \A x : x \in S <=> x = s
    BY Zenon
  <2> HIDE DEF S
  <2>10. \A r \in Servers \ S :
               /\ pend'[r] = pend[r]
               /\ P \cap pend[r].who = {}
               /\ th[r].pc \in {"add", "addrpc"} => P \cap th[r].who = {}
    BY <1>2, <2>0, <2>9, OtherSyncs, SMTT(30)
  <2>11. /\ \A c \in P : th[c].pc = "sync" /\ th'[c] = Ready /\ call'[c] = Idle
         /\ \A t \in Threads \ (P \cup S) : th'[t] = th[t]
         /\ \A c \in Clients \ P : call'[c] = call[c]
         /\ \A r \in S : ServerOK(r)'
         /\ \A d \in Servers, m \in Messages : Carried(d, m)' =>
               (Carried(d, m) /\ (Personal(m) => m.who \notin S))
    BY <1>1, <2>0, <2>1, <2>2, <2>7, <2>8, <2>9, Zenon
  <2> QED BY <2>0, <2>3, <2>6, <2>9, <2>10, <2>11, SyncFrame, Zenon
<1>5. CASE /\ P # {}
           /\ th' = [th EXCEPT ![s] = [pc |-> "add", who |-> pend[s].who, ext |-> pend[s].ext]]
           /\ UNCHANGED client
  <2> DEFINE w == [pc |-> "add", who |-> pend[s].who, ext |-> pend[s].ext]
  <2>0. CallOK' /\ call' = call
    BY <1>0, <1>5, SameCalls, Zenon
  <2>1. th' = [th EXCEPT ![s] = w] /\ w.pc = "add" /\ w.who = P /\ w.ext = pend[s].ext /\ w = [pc |-> w.pc, who |-> w.who, ext |-> w.ext]
    BY <1>5, Zenon
  <2> HIDE DEF w
  <2>2. DOMAIN th' = Threads /\ th'[s] = w /\ \A t \in Threads : t # s => th'[t] = th[t]
    BY <1>0, <2>1, Zenon
  <2>3. StateOK' /\ Alone'
    BY <1>1, <1>2, <2>0, <2>2, Zenon DEF StateOK, Mail
  <2>4. ServerOK(s)'
    <3>1. \A c \in P : c \in Threads /\ c # s /\ Home[c] = s /\ th[c].pc = "sync"
      BY <1>0, Pending, Working
    <3>2. P \in SUBSET Clients /\ w.ext \in Contents /\ w.ext # Empty
      BY <1>5, <2>1, Pending, Zenon
    <3> HIDE DEF P
    <3> QED BY <1>2, <2>1, <2>2, <3>1, <3>2, Pending, Zenon DEF ServerOK
  <2>5. \A d \in Servers, m \in Messages : Carried(d, m) /\ Personal(m) => m.who # s
    BY <1>0, DisjointAssumption, ReadyIs DEF ThreadInv, MessageOK, Waits
  <2> DEFINE S == {s}
             Q == {}
  <2>6. S \in SUBSET Servers /\ S \in SUBSET Threads /\ (\A x : x \in S <=> x = s) /\ Q \in SUBSET Clients /\ \A x : x \notin Q
    BY <1>0, Zenon
  <2>7. OwnerOK'
    <3>1. CASE s = Owner
      BY <2>1, <2>2, <3>1, Zenon DEF OwnerOK
    <3>2. CASE s # Owner
      <4>1. th[Owner].pc \in {"truncate", "laminate", "radd"} => th[Owner].who # s
        BY <1>0, ReadyIs, DisjointAssumption, Zenon DEF ThreadInv, OwnerOK, Waits, ClientOps
      <4> HIDE DEF S
      <4> QED BY <1>0, <1>1, <2>0, <2>2, <2>6, <3>2, <4>1, OwnerKeeps, Zenon
    <3> QED BY <3>1, <3>2, Zenon
  <2> HIDE DEF S, Q
  <2>8. /\ \A c \in Q : th[c].pc = "sync" /\ th'[c] = Ready /\ call'[c] = Idle
        /\ \A t \in Threads \ (Q \cup S) : th'[t] = th[t]
        /\ \A c \in Clients \ Q : call'[c] = call[c]
        /\ \A r \in S : ServerOK(r)'
        /\ \A r \in Servers \ S :
               /\ pend'[r] = pend[r]
               /\ Q \cap pend[r].who = {}
               /\ th[r].pc \in {"add", "addrpc"} => Q \cap th[r].who = {}
        /\ \A d \in Servers, m \in Messages : Carried(d, m)' =>
               (Carried(d, m) /\ (Personal(m) => m.who \notin S))
    BY <1>1, <1>2, <2>0, <2>2, <2>4, <2>5, <2>6
  <2> QED BY <2>3, <2>6, <2>7, <2>8, SyncFrame, Zenon
<1> QED BY <1>3, <1>4, <1>5, Zenon DEF ProcessSync

\* The clients of a group of syncs are answered, and the servers S that worked on it are ready.
LEMMA SyncsEndStep ==
    ASSUME ThreadInv, NEW r \in Servers, th[r].pc \in {"add", "addrpc"},
           NEW S \in SUBSET Servers, Owner \in S, r \in S,
           CallOK', \A c \in Clients : call'[c] = IF c \in th[r].who THEN Idle ELSE call[c],
           DOMAIN th' = Threads, \A t \in Threads : th'[t] = IF t \in th[r].who \cup S THEN Ready ELSE th[t],
           InodeOK', UNCHANGED pend, QueueOK', Alone',
           \A d \in Servers, m \in Messages : Carried(d, m)' => Carried(d, m) /\ (Personal(m) => m.who \notin S)
    PROVE  ThreadInv'
<1> DEFINE P == th[r].who
<1>0. P \in SUBSET Clients /\ \A c \in P : Home[c] = r /\ th[c].pc = "sync" /\ c \notin pend[r].who
  BY Syncing, ZenonT(30)
<1>1. \A t \in Threads : th'[t] = IF t \in P \cup S THEN Ready ELSE th[t]
  BY Zenon
<1>2. \A c \in Clients : call'[c] = IF c \in P THEN Idle ELSE call[c]
  BY Zenon
<1> HIDE DEF P
<1>3. Owner \in Servers /\ Servers \subseteq Threads /\ Clients \subseteq Threads /\ Clients \cap Servers = {}
  BY OwnerAssumption, DisjointAssumption, Zenon DEF Threads
<1>4. ASSUME NEW x \in Servers PROVE P \cap pend[x].who = {}
  <2>1. CASE x = r
    BY <1>0, <2>1, Zenon
  <2>2. CASE x # r
    BY <1>0, <2>2, OtherSyncs
  <2> QED BY <2>1, <2>2, Zenon
<1>5. \A x \in Servers \ S : th[x].pc \in {"add", "addrpc"} => P \cap th[x].who = {}
  BY <1>0, OtherSyncs, SMTT(30)
<1>6. StateOK'
  BY Zenon DEF StateOK
<1>7. OwnerOK'
  BY <1>1, <1>3, ReadyIs, Zenon DEF OwnerOK
<1>8. ASSUME NEW x \in S PROVE ServerOK(x)'
  <2>1. th'[x] = Ready /\ pend'[x] = pend[x]
    BY <1>1, <1>3, Zenon
  <2>2. \A c \in pend[x].who : th'[c] = th[c] /\ Home[c] = x /\ th[c].pc = "sync"
    BY <1>1, <1>3, <1>4, Pending, Zenon
  <2> QED BY <2>1, <2>2, ReadyIs, Pending DEF ServerOK
<1>9. /\ \A c \in P : th[c].pc = "sync" /\ th'[c] = Ready /\ call'[c] = Idle
      /\ \A t \in Threads \ (P \cup S) : th'[t] = th[t]
      /\ \A c \in Clients \ P : call'[c] = call[c]
  BY <1>0, <1>1, <1>2, <1>3, Zenon
<1>10. \A x \in Servers \ S :
               /\ pend'[x] = pend[x]
               /\ P \cap pend[x].who = {}
               /\ th[x].pc \in {"add", "addrpc"} => P \cap th[x].who = {}
  BY <1>4, <1>5, Zenon
<1> QED BY <1>0, <1>6, <1>7, <1>8, <1>9, <1>10, SyncFrame, Zenon

\* A server that waits for nothing has no request under way.
LEMMA NoRequest ==
    ASSUME ThreadInv, NEW s \in Servers, s = Owner \/ th[s].pc # "addrpc"
    PROVE  \A d \in Servers, m \in Messages : Carried(d, m) /\ Personal(m) => m.who # s
BY DisjointAssumption, Zenon DEF ThreadInv, MessageOK, Waits

LEMMA SyncAddThreads == ASSUME ThreadInv, NEW s \in Servers, SyncAdd(s) PROVE ThreadInv'
<1>0. /\ StateOK /\ Alone /\ Owner \in Servers /\ DOMAIN th = Threads /\ s \in Threads /\ th[s].pc = "add" /\ UNCHANGED queue
      /\ AddExtents(s, th[s].ext)
  <2>1. StateOK /\ Alone /\ Owner \in Servers /\ DOMAIN th = Threads
    BY Parts, Zenon
  <2> QED BY <2>1, Zenon DEF SyncAdd, Added, Threads
<1>1. /\ th[s] = [pc |-> th[s].pc, who |-> th[s].who, ext |-> th[s].ext]
      /\ th[s].who \in SUBSET Clients /\ th[s].ext \in Contents /\ th[s].ext # Empty
      /\ \A c \in th[s].who : Home[c] = s /\ th[c].pc = "sync" /\ c \notin pend[s].who
  BY <1>0, Syncing, Zenon
<1>2. InodeOK' /\ pend' = pend
  BY <1>0, <1>1, AddExtentsType, Zenon
<1>3. CASE s = Owner
  <2>1. /\ FinishSyncs(th[s].who, th[s].ext, TRUE) /\ UNCHANGED chan
        /\ th' = [t \in Threads |-> IF t \in th[s].who \cup {s} THEN Ready ELSE th[t]]
    BY <1>3, Zenon DEF SyncAdd
  <2>2. CallOK' /\ \A c \in Clients : call'[c] = IF c \in th[s].who THEN Idle ELSE call[c]
    BY <1>0, <1>1, <2>1, SyncsSucceed, Zenon
  <2>3. QueueOK' /\ Alone' /\ \A d \in Servers, m \in Messages : Carried(d, m)' => Carried(d, m)
    BY <1>0, <2>1, QuietMail, Zenon DEF Mail
  <2> DEFINE S == {s}
  <2>4. DOMAIN th' = Threads /\ \A t \in Threads : th'[t] = IF t \in th[s].who \cup S THEN Ready ELSE th[t]
    BY <2>1, Zenon
  <2>5. S \in SUBSET Servers /\ Owner \in S /\ s \in S /\ \A x : x \in S <=> x = s
    BY <1>3, Zenon
  <2> HIDE DEF S
  <2>6. \A d \in Servers, m \in Messages : Carried(d, m)' => Carried(d, m) /\ (Personal(m) => m.who \notin S)
    BY <1>3, <2>3, <2>5, NoRequest, Zenon
  <2> QED BY <1>0, <1>2, <2>2, <2>3, <2>4, <2>5, <2>6, SyncsEndStep, Zenon
<1>4. CASE s # Owner
  <2>1. /\ Send(s, Owner, [op |-> "add", who |-> s, ext |-> th[s].ext])
        /\ th' = [th EXCEPT ![s].pc = "addrpc"] /\ UNCHANGED client
    BY <1>4, Zenon DEF SyncAdd
  <2>2. PICK m \in Messages : m.op = "add" /\ m.who = s /\ m.ext = th[s].ext /\ Send(s, Owner, m)
    <3> DEFINE x == [op |-> "add", who |-> s, ext |-> th[s].ext]
    <3>1. x \in Messages /\ x.op = "add" /\ x.who = s /\ x.ext = th[s].ext /\ Send(s, Owner, x)
      BY <1>1, <2>1, Zenon DEF Messages
    <3> HIDE DEF x
    <3> QED BY <3>1, Zenon
  <2>15. PICK w : w = [pc |-> "addrpc", who |-> th[s].who, ext |-> th[s].ext]
    BY Zenon
  <2>3. /\ w.pc = "addrpc" /\ w.who = th[s].who /\ w.ext = th[s].ext
        /\ w = [pc |-> w.pc, who |-> w.who, ext |-> w.ext]
    BY <2>15, Zenon
  <2>4. DOMAIN th' = Threads /\ th'[s] = w /\ \A t \in Threads : t # s => th'[t] = th[t]
    <3>1. th'[s] = [th[s] EXCEPT !.pc = "addrpc"] /\ DOMAIN th' = Threads /\ \A t \in Threads : t # s => th'[t] = th[t]
      BY <1>0, <2>1, Zenon
    <3>2. [th[s] EXCEPT !.pc = "addrpc"] = w
      BY <1>1, <2>15
    <3> QED BY <3>1, <3>2, Zenon
  <2>5. CallOK' /\ call' = call
    BY <1>0, <2>1, SameCalls, Zenon
  <2>6. Personal(m) /\ \A d \in Servers, x \in Messages : Carried(d, x) /\ Personal(x) => x.who # s
    BY <1>0, <2>2, NoRequest, Zenon DEF Personal
  <2>7. /\ chan' \in [Servers -> [Servers -> Seq(Messages)]] /\ Alone'
        /\ \A d \in Servers, x \in Messages : Carried(d, x)' => Carried(d, x) \/ (d = Owner /\ x = m)
    <3>1. \A x \in Messages : Carried(Owner, x) => Apart(x, m)
      BY <1>0, <2>2, <2>6, Zenon DEF Apart
    <3> QED BY <1>0, <2>2, <3>1, SendMoves, Zenon
  <2>8. StateOK'
    BY <1>0, <1>2, <2>4, <2>5, <2>7, Zenon DEF StateOK, QueueOK
  <2>9. MessageOK(Owner, m)'
    BY <1>0, <1>4, <2>2, <2>3, <2>4, Zenon DEF MessageOK, Waits, Personal
  <2> DEFINE S == {s}
             Q == {}
  <2>10. /\ S \in SUBSET Servers /\ S \in SUBSET Threads /\ (\A x : x \in S <=> x = s)
         /\ Q \in SUBSET Clients /\ \A x : x \notin Q
    BY <1>0, Zenon
  <2>11. OwnerOK'
    <3>1. th[Owner].pc \in {"truncate", "laminate", "radd"} => th[Owner].who # s
      BY <1>0, DisjointAssumption, Zenon DEF ThreadInv, OwnerOK, Waits, ClientOps
    <3> HIDE DEF S
    <3> QED BY <1>0, <1>4, <2>2, <2>4, <2>5, <2>7, <2>10, <3>1, OwnerKeeps, Zenon
  <2>12. ServerOK(s)'
    <3>1. \A c \in Clients : th'[c] = th[c]
      BY <2>4, Working, Zenon
    <3> QED BY <1>1, <1>2, <1>4, <2>3, <2>4, <3>1, Pending DEF ServerOK
  <2> HIDE DEF S, Q
  <2>13. /\ \A c \in Q : th[c].pc = "sync" /\ th'[c] = Ready /\ call'[c] = Idle
         /\ \A t \in Threads \ (Q \cup S) : th'[t] = th[t]
         /\ \A c \in Clients \ Q : call'[c] = call[c]
         /\ \A r \in S : ServerOK(r)'
         /\ \A r \in Servers \ S :
               /\ pend'[r] = pend[r]
               /\ Q \cap pend[r].who = {}
               /\ th[r].pc \in {"add", "addrpc"} => Q \cap th[r].who = {}
    BY <1>2, <2>4, <2>5, <2>10, <2>12, Zenon
  <2>14. \A d \in Servers, x \in Messages : Carried(d, x)' =>
               MessageOK(d, x)' \/ (Carried(d, x) /\ (Personal(x) => x.who \notin S))
    BY <2>6, <2>7, <2>9, <2>10
  <2> QED BY <2>7, <2>8, <2>10, <2>11, <2>13, <2>14, SyncFrame, Zenon
<1> QED BY <1>3, <1>4, Zenon

\* The request of a server that the owner takes.
LEMMA AddServed ==
    ASSUME ThreadInv, Serves(Owner, "add"), UNCHANGED chan
    PROVE  LET m == Head(queue[Owner]) IN
           /\ m.who \in Servers \ {Owner} /\ th[m.who].pc = "addrpc" /\ m.ext = th[m.who].ext
           /\ m.ext \in Contents /\ QueueOK' /\ Alone'
           /\ \A d \in Servers, x \in Messages : Carried(d, x)' =>
                 Carried(d, x) /\ (Personal(x) => x.who # m.who /\ x.who # Owner)
<1>0. StateOK /\ Alone /\ Owner \in Servers
  BY Parts, Zenon
<1> DEFINE m == Head(queue[Owner])
<1>1. /\ m \in Messages /\ m.op = "add" /\ Carried(Owner, m)
      /\ \A x \in Messages : CarriedIn(chan, queue', Owner, x) => Apart(x, m)
  BY <1>0, ServeMoves, Zenon
<1>2. MessageOK(Owner, m)
  BY <1>0, <1>1, Zenon DEF ThreadInv
<1>3. m.ext \in Contents
  BY <1>0, ServedData, Zenon
<1> HIDE DEF m
<1>4. Personal(m) /\ m.who \in Servers \ {Owner} /\ th[m.who].pc = "addrpc" /\ m.ext = th[m.who].ext
  BY <1>1, <1>2, Zenon DEF MessageOK, Waits, Personal, ClientOps
<1>5. Mail /\ \A d \in Servers, x \in Messages : Carried(d, x)' => Carried(d, x)
  BY <1>0, ServedMail, Zenon
<1>6. ASSUME NEW d \in Servers, NEW x \in Messages, Carried(d, x)', Personal(x)
      PROVE  x.who # m.who /\ x.who # Owner
  <2>1. Carried(d, x)
    BY <1>5, <1>6, Zenon
  <2>2. d = Owner
    BY <1>6, <2>1, Zenon DEF ThreadInv, MessageOK
  <2>3. CarriedIn(chan, queue', Owner, x)
    BY <1>6, <2>2, Zenon DEF Carried
  <2>4. x.who # Owner
    BY <1>0, <1>6, <2>1, NoRequest, Zenon
  <2> QED BY <1>1, <1>4, <1>6, <2>3, <2>4, Zenon DEF Apart
<1> QED BY <1>3, <1>4, <1>5, <1>6, Zenon DEF Mail, m

LEMMA AddAtOwnerThreads == ASSUME ThreadInv, AddAtOwner PROVE ThreadInv'
<1>5. PICK m : m = Head(queue[Owner])
  BY Zenon
<1>6. PICK r : r = m.who
  BY Zenon
<1>0. /\ StateOK /\ Owner \in Servers /\ Owner \in Threads /\ DOMAIN th = Threads
      /\ Serves(Owner, "add") /\ UNCHANGED inode /\ UNCHANGED chan
  BY Parts, Zenon DEF AddAtOwner
<1>1. /\ r \in Servers \ {Owner} /\ th[r].pc = "addrpc" /\ m.ext = th[r].ext /\ m.ext \in Contents /\ QueueOK' /\ Alone'
      /\ \A d \in Servers, x \in Messages : Carried(d, x)' =>
             Carried(d, x) /\ (Personal(x) => x.who # r /\ x.who # Owner)
  BY <1>0, <1>5, <1>6, AddServed, Zenon
<1>2. InodeOK' /\ pend' = pend
  BY <1>0, SameInodes, Zenon DEF inode
<1>3. CASE SyncAnswer(r, FALSE)
  <2>0. th[r].who \in SUBSET Clients
    BY <1>1, Syncing, Zenon
  <2> DEFINE S == {r, Owner}
  <2>1. th' = [t \in Threads |-> IF t \in th[r].who \cup S THEN Ready ELSE th[t]]
    BY <1>3, Zenon DEF SyncAnswer
  <2>5. FinishSyncs(th[r].who, th[r].ext, FALSE)
    BY <1>3, Zenon DEF SyncAnswer
  <2>2. CallOK' /\ \A c \in Clients : call'[c] = IF c \in th[r].who THEN Idle ELSE call[c]
    <3> DEFINE P == th[r].who
    <3>1. P \in SUBSET Clients /\ FinishSyncs(P, th[r].ext, FALSE)
      BY <2>0, <2>5, Zenon
    <3> HIDE DEF P, S
    <3>2. CallOK' /\ \A c \in Clients : call'[c] = IF c \in P THEN Idle ELSE call[c]
      BY <1>0, <3>1, SyncsFail, Zenon
    <3> QED BY <3>2, Zenon DEF P
  <2>3. DOMAIN th' = Threads /\ \A t \in Threads : th'[t] = IF t \in th[r].who \cup S THEN Ready ELSE th[t]
    BY <2>1, Zenon
  <2>4. S \in SUBSET Servers /\ Owner \in S /\ r \in S /\ \A x : x \in S <=> x = r \/ x = Owner
    BY <1>0, <1>1, Zenon
  <2> HIDE DEF S
  <2> QED BY <1>1, <1>2, <2>2, <2>3, <2>4, SyncsEndStep
<1>4. CASE /\ th' = [th EXCEPT ![Owner] = [pc |-> "radd", who |-> m.who, ext |-> m.ext]]
           /\ UNCHANGED client
  <2> DEFINE w == [pc |-> "radd", who |-> m.who, ext |-> m.ext]
  <2>1. th' = [th EXCEPT ![Owner] = w] /\ w.pc = "radd" /\ w.who = r /\ w.ext = m.ext
    BY <1>4, <1>6, Zenon
  <2> HIDE DEF w
  <2>2. CallOK' /\ call' = call
    BY <1>0, <1>4, SameCalls, Zenon
  <2>3. th'[Owner] = w /\ (\A t \in Threads : t # Owner => th'[t] = th[t]) /\ DOMAIN th' = Threads
    BY <1>0, <2>1, Zenon
  <2>4. StateOK'
    BY <1>1, <1>2, <2>2, <2>3, Zenon DEF StateOK
  <2>5. OwnerOK'
    <3>1. r \in Threads /\ r # Owner
      BY <1>1, Zenon DEF Threads
    <3> QED BY <1>0, <1>1, <2>1, <2>3, <3>1, Zenon DEF OwnerOK, Waits
  <2> DEFINE W == {Owner}
  <2>6. W \in SUBSET Threads /\ \A x : x \in W <=> x = Owner
    BY <1>0, Zenon
  <2> HIDE DEF W
  <2>9. /\ \A t \in Threads \ W : th'[t] = th[t]
        /\ \A b \in Clients \ W : call'[b] = call[b]
        /\ \A s \in Servers : pend'[s] = pend[s] \/ pend'[s] = NoPend
        /\ \A b \in Clients \cap W : th[b].pc # "sync" /\ ClientOK(b)'
        /\ \A s \in Servers \cap W : s = Owner /\ (th'[s] = Ready \/ th'[s].pc \in {"truncate", "laminate", "radd"})
    BY <1>0, <1>2, <2>1, <2>2, <2>3, <2>6, DisjointAssumption, Zenon
  <2>10. \A d \in Servers, x \in Messages : Carried(d, x)' => Carried(d, x) /\ (Personal(x) => x.who \notin W)
    BY <1>1, <2>6
  <2> QED BY <1>1, <2>4, <2>5, <2>6, <2>9, <2>10, FrameStep, Zenon
<1> QED BY <1>3, <1>4, <1>5, <1>6, Zenon DEF AddAtOwner

LEMMA AddAtOwnerEndThreads == ASSUME ThreadInv, AddAtOwnerEnd PROVE ThreadInv'
<1>11. PICK r : r = th[Owner].who
  BY Zenon
<1> DEFINE S == {r, Owner}
<1>0. /\ StateOK /\ Owner \in Servers /\ th[Owner].pc = "radd" /\ UNCHANGED queue /\ UNCHANGED chan
      /\ AddExtents(Owner, th[Owner].ext) /\ SyncAnswer(r, TRUE)
  BY <1>11, Parts, Zenon DEF AddAtOwnerEnd, Added
<1>1. /\ r \in Servers /\ r # Owner /\ th[r].pc = "addrpc" /\ th[Owner].ext = th[r].ext
      /\ \A d \in Servers, m \in Messages : Carried(d, m) /\ Personal(m) => m.who # r /\ m.who # Owner
  <2>1. OwnerOK /\ Waits(r, "add")
    BY <1>0, <1>11, Zenon DEF ThreadInv, OwnerOK
  <2>2. r \in Servers /\ r # Owner /\ th[r].pc = "addrpc" /\ th[Owner].ext = th[r].ext
    BY <1>0, <1>11, <2>1, Zenon DEF OwnerOK, Waits, ClientOps
  <2>3. \A d \in Servers, m \in Messages : Carried(d, m) /\ Personal(m) => d = Owner
    BY Zenon DEF ThreadInv, MessageOK
  <2>4. \A m \in Messages : Carried(Owner, m) /\ Personal(m) => m.who # r
    BY <1>0, <1>11, <2>1, Zenon DEF OwnerOK
  <2> QED BY <1>0, <2>2, <2>3, <2>4, NoRequest, Zenon
<1>2. th[r].who \in SUBSET Clients /\ th[r].ext \in Contents
  BY <1>1, Syncing, Zenon
<1>3. th' = [t \in Threads |-> IF t \in th[r].who \cup S THEN Ready ELSE th[t]]
  BY <1>0, Zenon DEF SyncAnswer
<1>10. FinishSyncs(th[r].who, th[r].ext, TRUE)
  BY <1>0, Zenon DEF SyncAnswer
<1>4. InodeOK' /\ pend' = pend
  BY <1>0, <1>1, <1>2, AddExtentsType, Zenon
<1>5. CallOK' /\ \A c \in Clients : call'[c] = IF c \in th[r].who THEN Idle ELSE call[c]
  <2> DEFINE P == th[r].who
  <2>1. P \in SUBSET Clients /\ FinishSyncs(P, th[r].ext, TRUE)
    BY <1>2, <1>10, Zenon
  <2> HIDE DEF P, S
  <2>2. CallOK' /\ \A c \in Clients : call'[c] = IF c \in P THEN Idle ELSE call[c]
    BY <1>0, <1>2, <2>1, SyncsSucceed, Zenon
  <2> QED BY <2>2, Zenon DEF P
<1>6. DOMAIN th' = Threads /\ \A t \in Threads : th'[t] = IF t \in th[r].who \cup S THEN Ready ELSE th[t]
  BY <1>3, Zenon
<1>7. S \in SUBSET Servers /\ Owner \in S /\ r \in S /\ \A x : x \in S <=> x = r \/ x = Owner
  BY <1>0, <1>1, Zenon
<1> HIDE DEF S
<1>8. QueueOK' /\ Alone' /\ \A d \in Servers, m \in Messages : Carried(d, m)' => Carried(d, m)
  BY <1>0, QuietMail, Zenon DEF Mail
<1>9. \A d \in Servers, m \in Messages : Carried(d, m)' => Carried(d, m) /\ (Personal(m) => m.who \notin S)
  BY <1>1, <1>7, <1>8
<1> QED BY <1>1, <1>4, <1>5, <1>6, <1>7, <1>8, <1>9, SyncsEndStep, Zenon

\* A server queues a request to itself.
LEMMA QueueMoves ==
    ASSUME StateOK, NEW h \in Servers, NEW m \in Messages, ~Personal(m),
           queue' = [queue EXCEPT ![h] = Append(queue[h], m)], UNCHANGED chan
    PROVE  /\ QueueOK' /\ (Alone => Alone')
           /\ \A d \in Servers, x \in Messages : Carried(d, x)' => Carried(d, x) \/ x = m
           /\ \E i \in 1 .. Len(queue'[h]) : queue'[h][i] = m
           /\ \A d \in Servers : \A i \in 1 .. Len(queue[d]) : i \in 1 .. Len(queue'[d]) /\ queue'[d][i] = queue[d][i]
<1>0. /\ queue \in [Servers -> Seq(Messages)] /\ chan \in [Servers -> [Servers -> Seq(Messages)]] /\ Owner \in Servers
  BY OwnerAssumption, Zenon DEF StateOK, QueueOK
<1> DEFINE A == Append(queue[h], m)
           n == Len(queue[h])
<1>1. /\ A \in Seq(Messages) /\ Len(A) = n + 1 /\ n \in Nat
      /\ (\A k \in 1 .. n : A[k] = queue[h][k]) /\ A[n + 1] = m
  BY <1>0
<1>2. queue' = [queue EXCEPT ![h] = A]
  BY Zenon
<1> HIDE DEF A
<1>3. queue' \in [Servers -> Seq(Messages)] /\ queue'[h] = A /\ \A d \in Servers : d # h => queue'[d] = queue[d]
  BY <1>0, <1>1, <1>2, Zenon
<1>4. ASSUME NEW d \in Servers, NEW k \in 1 .. Len(queue'[d])
      PROVE  (k \in 1 .. Len(queue[d]) /\ queue'[d][k] = queue[d][k]) \/ queue'[d][k] = m
  <2>1. CASE d = h
    BY <1>1, <1>3, <2>1
  <2>2. CASE d # h
    BY <1>3, <2>2, Zenon
  <2> QED BY <2>1, <2>2, Zenon
<1>5. \A d \in Servers, x \in Messages : Carried(d, x)' => Carried(d, x) \/ x = m
  BY <1>4, Zenon DEF Carried, CarriedIn
<1>6. ASSUME Alone PROVE Alone'
  <2>1. \A x : Apart(x, m) /\ Apart(m, x)
    BY Zenon DEF Apart
  <2>2. \A s, r \in Servers : \A i \in 1 .. Len(chan[s][Owner]), j \in 1 .. Len(chan[r][Owner]) :
          s # r \/ i # j => Apart(chan[s][Owner][i], chan[r][Owner][j])
    BY <1>6, Zenon DEF Alone, AloneIn
  <2>3. ASSUME NEW i \in 1 .. Len(queue'[Owner]), NEW j \in 1 .. Len(queue'[Owner]), i # j
        PROVE  Apart(queue'[Owner][i], queue'[Owner][j])
    <3>1. (i \in 1 .. Len(queue[Owner]) /\ queue'[Owner][i] = queue[Owner][i]) \/ queue'[Owner][i] = m
      BY <1>0, <1>4, Zenon
    <3>2. (j \in 1 .. Len(queue[Owner]) /\ queue'[Owner][j] = queue[Owner][j]) \/ queue'[Owner][j] = m
      BY <1>0, <1>4, Zenon
    <3> QED BY <1>6, <2>1, <2>3, <3>1, <3>2, Zenon DEF Alone, AloneIn
  <2>4. ASSUME NEW s \in Servers, NEW i \in 1 .. Len(chan[s][Owner]), NEW j \in 1 .. Len(queue'[Owner])
        PROVE  Apart(chan[s][Owner][i], queue'[Owner][j])
    <3>1. (j \in 1 .. Len(queue[Owner]) /\ queue'[Owner][j] = queue[Owner][j]) \/ queue'[Owner][j] = m
      BY <1>0, <1>4, Zenon
    <3> QED BY <1>6, <2>1, <3>1, Zenon DEF Alone, AloneIn
  <2> QED BY <2>2, <2>3, <2>4, Zenon DEF Alone, AloneIn
<1>7. \E i \in 1 .. Len(queue'[h]) : queue'[h][i] = m
  <2>1. n + 1 \in 1 .. Len(queue'[h])
    BY <1>1, <1>3
  <2> QED BY <1>1, <1>3, <2>1, Zenon
<1>8. ASSUME NEW d \in Servers, NEW i \in 1 .. Len(queue[d])
      PROVE  i \in 1 .. Len(queue'[d]) /\ queue'[d][i] = queue[d][i]
  <2>1. CASE d = h
    BY <1>1, <1>3, <2>1
  <2>2. CASE d # h
    BY <1>3, <2>2, Zenon
  <2> QED BY <2>1, <2>2, Zenon
<1> QED BY <1>0, <1>3, <1>5, <1>6, <1>7, <1>8, Zenon DEF QueueOK

\* A sync writes something.
LEMMA SyncWrites ==
    ASSUME ThreadInv, NEW c \in Clients, Starts(c, "sync"), NEW e \in Contents
    PROVE  LET w == Write(e, call[c].first, call[c].last, call[c].data) IN w \in Contents /\ w # Empty
<1>1. call[c] \in Calls /\ call[c].op = "sync" /\ ClientOK(c)
  BY Working, Zenon DEF ThreadInv
<1>2. /\ call[c].first \in Blocks /\ call[c].last \in Blocks /\ call[c].data \in Data /\ call[c].data # NoData
      /\ call[c].first <= call[c].last
  BY <1>1, CallTypes, Zenon DEF ClientOK
<1> DEFINE w == Write(e, call[c].first, call[c].last, call[c].data)
<1>3. w \in Contents
  BY <1>2, DataTypes, Zenon
<1>4. w[call[c].first] = call[c].data
  BY <1>2 DEF Write, Blocks
<1>5. Empty[call[c].first] = NoData
  BY <1>2, Zenon DEF Empty
<1> QED BY <1>2, <1>3, <1>4, <1>5, Zenon

LEMMA SyncThreads == ASSUME ThreadInv, NEW c \in Clients, Sync(c) PROVE ThreadInv'
<1>0. /\ StateOK /\ Alone /\ Owner \in Servers /\ DOMAIN th = Threads /\ c \in Threads /\ c \notin Servers /\ Home[c] \in Servers
      /\ Starts(c, "sync") /\ th[c].pc = "called" /\ call[c].op = "sync" /\ call[c] # Idle /\ UNCHANGED chan /\ UNCHANGED queue
  BY Parts, Working, Zenon DEF Sync
<1>1. CASE Home[c] \notin ex \/ lam[Home[c]]
  <2> DEFINE a == Answer(FALSE)
  <2>1. Finish(c, a) /\ Rest(c, c) /\ UNCHANGED inode /\ a.ok \in BOOLEAN
    BY <1>1, AnswerTypes, Zenon DEF Sync, inode
  <2> HIDE DEF a
  <2> QED BY <1>0, <2>1, LocalThreads
<1>2. CASE ~(Home[c] \notin ex \/ lam[Home[c]])
  <2>0. PICK h : h = Home[c]
    BY Zenon
  <2> DEFINE e == Write(pend[h].ext, call[c].first, call[c].last, call[c].data)
             p == [who |-> pend[h].who \cup {c}, ext |-> e]
             w == At("sync", c)
  <2>1. /\ pend' = [pend EXCEPT ![h] = p] /\ th' = [th EXCEPT ![c] = w]
        /\ UNCHANGED <<call, ret, nops, ref>> /\ UNCHANGED <<ex, lam, size, ext>>
    BY <1>2, <2>0, Zenon DEF Sync
  <2>2. e \in Contents /\ e # Empty
    BY <1>0, <2>0, Pending, SyncWrites, Zenon
  <2> HIDE DEF e
  <2>3. p \in [who : SUBSET Clients, ext : Contents] /\ p.who = pend[h].who \cup {c} /\ p.ext = e
    BY <1>0, <2>0, <2>2, Pending, Zenon
  <2>4. w.pc = "sync"
    BY Zenon DEF At
  <2> HIDE DEF p, w
  <2>5. /\ QueueOK' /\ Alone'
        /\ \A d \in Servers, x \in Messages : Carried(d, x)' => Carried(d, x)
    BY <1>0, QuietMail, Zenon DEF Mail
  <2>6. InodeOK' /\ pend'[h] = p /\ \A s \in Servers : s # h => pend'[s] = pend[s]
    BY <1>0, <2>0, <2>1, <2>3, Zenon DEF StateOK, InodeOK
  <2>7. CallOK' /\ call' = call
    BY <1>0, <2>1, Zenon DEF StateOK, CallOK
  <2>8. DOMAIN th' = Threads /\ th'[c] = w /\ \A t \in Threads : t # c => th'[t] = th[t]
    BY <1>0, <2>1, Zenon
  <2>9. StateOK'
    BY <2>5, <2>6, <2>7, <2>8, Zenon DEF StateOK
  <2>10. ASSUME NEW b \in Clients PROVE ClientOK(b)'
    <3>1. CASE b = c
      <4>1. ClientOK(c)
        BY Zenon DEF ThreadInv
      <4> QED BY <1>0, <2>4, <2>7, <2>8, <3>1, <4>1, Zenon DEF ClientOK
    <3>2. CASE b # c
      <4>1. ClientOK(b) /\ th'[b] = th[b]
        BY <2>8, <3>2, Working, Zenon DEF ThreadInv
      <4> QED BY <2>7, <4>1, Zenon DEF ClientOK
    <3> QED BY <3>1, <3>2, Zenon
  <2>11. \A d \in Servers, x \in Messages : Carried(d, x) /\ Personal(x) => x.who # c
    BY <1>0, DisjointAssumption DEF ThreadInv, MessageOK, Waits
  <2>12. ASSUME NEW d \in Servers, NEW x \in Messages, Carried(d, x)' PROVE MessageOK(d, x)'
    <3>1. Carried(d, x) /\ MessageOK(d, x)
      BY <2>5, <2>12, Zenon DEF ThreadInv
    <3>2. CASE Personal(x)
      <4>1. x.who \in Threads /\ x.who # c
        BY <2>11, <3>1, <3>2, Zenon DEF MessageOK, Waits, Threads
      <4> QED BY <2>7, <2>8, <3>1, <3>2, <4>1, Zenon DEF MessageOK, Waits
    <3>3. CASE ~Personal(x)
      BY <3>1, <3>3, Zenon DEF MessageOK, Personal
    <3> QED BY <3>2, <3>3, Zenon
  <2>13. OwnerOK'
    <3>1. th[Owner].pc \in {"truncate", "laminate", "radd"} => th[Owner].who # c
      BY <1>0, DisjointAssumption, Zenon DEF ThreadInv, OwnerOK, Waits, ClientOps
    <3> DEFINE W == {c}
    <3>2. W \in SUBSET Threads /\ Owner \notin W /\ \A x : x \in W <=> x = c
      BY <1>0, Zenon
    <3> HIDE DEF W
    <3> QED BY <1>0, <2>4, <2>5, <2>7, <2>8, <3>1, <3>2, OwnerKeeps, SMTT(30)
  <2>14. ASSUME NEW s \in Servers PROVE ServerOK(s)'
    <3>0. th'[s] = th[s] /\ ServerOK(s) /\ \A b \in Clients : th[b].pc = "sync" => th'[b] = th[b]
      <4>1. s \in Threads /\ s # c
        BY <1>0, Zenon DEF Threads
      <4> QED BY <1>0, <2>8, <4>1, Working, Zenon DEF ThreadInv
    <3>1. /\ pend'[s].who # {} => pend'[s].ext # Empty
          /\ \A b \in pend'[s].who : Home[b] = s /\ th'[b].pc = "sync"
      <4>1. CASE s = h
        BY <2>0, <2>2, <2>3, <2>4, <2>6, <2>8, <3>0, <4>1, Pending
      <4>2. CASE s # h
        BY <2>6, <3>0, <4>2, Pending, Zenon
      <4> QED BY <4>1, <4>2, Zenon
    <3>2. ASSUME th[s].pc \in {"add", "addrpc"}, NEW b \in th[s].who
          PROVE  Home[b] = s /\ th'[b].pc = "sync" /\ b \notin pend'[s].who
      <4>1. b \in Clients /\ Home[b] = s /\ th[b].pc = "sync" /\ b \notin pend[s].who
        BY <3>2, Syncing, ZenonT(30)
      <4>2. b # c
        BY <1>0, <4>1, Zenon
      <4> QED BY <2>3, <2>6, <3>0, <4>1, <4>2, Zenon
    <3> QED BY <3>0, <3>1, <3>2, Zenon DEF ServerOK
  <2> QED BY <2>5, <2>9, <2>10, <2>12, <2>13, <2>14, Zenon DEF ThreadInv
<1> QED BY <1>1, <1>2, Zenon

\* The request to process the pending syncs is queued.
LEMMA SyncSubmitThreads == ASSUME ThreadInv, NEW c \in Clients, SyncSubmit(c) PROVE ThreadInv'
<1> DEFINE m == [op |-> "sync"]
           W == {}
<1>0. /\ StateOK /\ Alone /\ Owner \in Servers /\ Home[c] \in Servers /\ UNCHANGED chan /\ UNCHANGED th
      /\ UNCHANGED inode /\ UNCHANGED <<call, ret, nops, ref>>
      /\ queue' = [queue EXCEPT ![Home[c]] = Append(queue[Home[c]], m)]
  BY Parts, Working, Zenon DEF SyncSubmit
<1>1. m \in Messages /\ m.op = "sync" /\ ~Personal(m)
  BY MessageTypes, Zenon DEF Personal, ClientOps
<1>2. W \in SUBSET Threads /\ \A x : x \notin W
  BY Zenon
<1> HIDE DEF m, W
<1>3. /\ QueueOK' /\ Alone'
      /\ \A d \in Servers, x \in Messages : Carried(d, x)' => Carried(d, x) \/ x = m
  BY <1>0, <1>1, QueueMoves, Zenon
<1>4. InodeOK' /\ CallOK' /\ call' = call /\ \A r \in Servers : pend'[r] = pend[r]
  BY <1>0, SameInodes, Zenon DEF StateOK, CallOK
<1>5. StateOK'
  BY <1>0, <1>3, <1>4, Zenon DEF StateOK
<1>6. OwnerOK'
  BY <1>0, <1>1, <1>2, <1>3, <1>4, OwnerKeeps, Zenon
<1>7. MessageOK(Owner, m)' /\ \A d \in Servers : MessageOK(d, m)'
  BY <1>0, <1>1, Zenon DEF MessageOK, Personal
<1> QED BY <1>0, <1>2, <1>3, <1>4, <1>5, <1>6, <1>7, FrameStep, Zenon

LEMMA InitThreads == ASSUME Init PROVE ThreadInv
<1>0. /\ Owner \in Servers /\ Servers \subseteq Threads /\ Clients \subseteq Threads
      /\ Ready.pc = "idle" /\ Idle.op = "idle" /\ 0 \in Sizes /\ Empty \in Contents
  BY OwnerAssumption, ReadyIs, DataTypes, Zenon DEF Threads
<1>1. /\ th = [t \in Threads |-> Ready] /\ queue = [s \in Servers |-> <<>>]
      /\ chan = [s \in Servers |-> [d \in Servers |-> <<>>]]
      /\ pend = [s \in Servers |-> NoPend]
  BY Zenon DEF Init
<1>2. InodeOK
  BY <1>0, Zenon DEF Init, InodeOK, NoPend
<1>3. QueueOK
  <2>1. <<>> \in Seq(Messages)
    OBVIOUS
  <2> QED BY <1>1, <2>1, Zenon DEF QueueOK
<1>4. call = [c \in Clients |-> Idle] /\ DOMAIN ret = Clients /\ ref = AF!NoFile /\ nops = 0
  <2>1. AF!Idle = Idle
    BY Zenon DEF AF!Idle, Idle
  <2> QED BY <2>1, Zenon DEF Init, AF!Init
<1>5. ref \in Files
  <2> DEFINE r == [exists |-> FALSE, lam |-> FALSE, size |-> 0, ext |-> Empty]
  <2>1. ref = r
    BY <1>4, SameData, Zenon DEF AF!NoFile
  <2>2. r \in Files
    BY <1>0, Zenon DEF Files
  <2> QED BY <2>1, <2>2, Zenon
<1>6. CallOK
  BY <1>4, <1>5, Zenon DEF CallOK
<1>7. DOMAIN th = Threads /\ \A t \in Threads : th[t] = Ready
  BY <1>1, Zenon
<1>8. \A s, d \in Servers : Len(chan[s][d]) = 0 /\ Len(queue[d]) = 0
  BY <1>1, Zenon
<1>9. Alone /\ \A d \in Servers, m \in Messages : ~Carried(d, m)
  BY <1>0, <1>8 DEF Alone, AloneIn, Carried, CarriedIn
<1>10. OwnerOK
  BY <1>0, <1>7, Zenon DEF OwnerOK
<1>11. \A c \in Clients : ClientOK(c)
  BY <1>0, <1>4, <1>7, Zenon DEF ClientOK
<1>12. \A s \in Servers : ServerOK(s)
  BY <1>0, <1>1, <1>7, Zenon DEF ServerOK, NoPend
<1> QED BY <1>2, <1>3, <1>6, <1>7, <1>9, <1>10, <1>11, <1>12, Zenon DEF ThreadInv, StateOK

LEMMA StutterThreads == ASSUME ThreadInv, UNCHANGED vars PROVE ThreadInv'
<1>0. StateOK
  BY Parts, Zenon
<1>1. UNCHANGED inode /\ UNCHANGED client /\ UNCHANGED th /\ UNCHANGED queue /\ UNCHANGED chan
  BY Zenon DEF vars
<1>2. InodeOK' /\ (\A r \in Servers : pend'[r] = pend[r]) /\ CallOK' /\ call' = call
  BY <1>0, <1>1, SameInodes, SameCalls, Zenon
<1> QED BY <1>1, <1>2, QuietMail, HandledStep, Zenon

LEMMA NextThreads == ASSUME ThreadInv, [Next]_vars PROVE ThreadInv'
<1>0. Owner \in Clients \cup {Owner} /\ \A c \in Clients : c \in Clients \cup {Owner}
  BY Zenon
<1>1. ASSUME NEW c \in Clients, Call(c) \/ RequestManager(c) PROVE ThreadInv'
  BY <1>0, <1>1, CallThreads, CreateThreads, SyncThreads, SyncSubmitThreads, UnlinkThreads, ReadLocalThreads, ReadRemoteThreads,
     SizeLocalThreads, SizeRemoteThreads, SizeEndThreads, SizePollThreads, ForwardsThreads,
     TruncateThreads, TruncateEndThreads, LaminateThreads, LaminateEndThreads, Zenon DEF RequestManager
<1>2. ASSUME NEW s \in Servers, ServiceManager(s) PROVE ThreadInv'
  BY <1>0, <1>2, ProcessSyncThreads, SyncAddThreads, CreateAtOtherThreads, TruncateAtOtherThreads,
     LaminateAtOtherThreads, UnlinkAtOtherThreads, AddAtOwnerThreads, AddAtOwnerEndThreads,
     TruncateEndThreads, LaminateEndThreads, CreateAtOwnerThreads, TruncateThreads, LaminateThreads,
     ReadAtOwnerThreads, SizeAtOwnerThreads, Zenon DEF ServiceManager
<1>3. ASSUME NEW s \in Servers, NEW d \in Servers, Deliver(s, d) PROVE ThreadInv'
  BY <1>3, DeliverThreads, Zenon
<1> QED BY <1>1, <1>2, <1>3, StutterThreads, Zenon DEF Next

\* Whatever the programs call and in whatever order the requests arrive: a request is answered
\* once, by the thread that took it, to a client or a server that waits for just that request.
THEOREM ThreadsCorrect == Spec => []ThreadInv
BY InitThreads, NextThreads, PTL DEF Spec

------------------------------------------------------------------------------
(* Laminations stay *)

LEMMA LamKept ==
    ASSUME ThreadInv, [Next]_vars, NEW s \in Servers, s \in ex, lam[s], s \in ex'
    PROVE  lam'[s]
<1>0. lam \in [Servers -> BOOLEAN] /\ \A c \in Clients : Home[c] \in Servers
  BY HomeAssumption, Zenon DEF ThreadInv, StateOK, InodeOK
<1>1. lam' = lam => lam'[s]
  BY Zenon
<1>2. UNCHANGED inode => lam'[s]
  BY <1>1, Zenon DEF inode
<1>3. ASSUME NEW h \in Servers, h \notin ex, NEW l, NEW n, NewInode(h, l, n) PROVE lam'[s]
  <2>1. lam' = [lam EXCEPT ![h] = l] /\ h # s
    BY <1>3, Zenon DEF NewInode
  <2> QED BY <1>0, <2>1, Zenon
<1>4. ASSUME NEW h \in Servers, Destroy(h) PROVE lam'[s]
  <2>1. lam' = [lam EXCEPT ![h] = FALSE] /\ h # s
    BY <1>4, Zenon DEF Destroy
  <2> QED BY <1>0, <2>1, Zenon
<1>5. ASSUME NEW h, lam' = [lam EXCEPT ![h] = TRUE] PROVE lam'[s]
  BY <1>0, <1>5, Zenon
<1>6. ASSUME NEW h, NEW n, TruncateInode(h, n) PROVE lam'[s]
  BY <1>6, Zenon DEF TruncateInode
<1>7. ASSUME NEW h, NEW over, NEW cs, Added(h, over, cs) PROVE lam'[s]
  BY <1>7, Zenon DEF Added, AddExtents
<1>8. ASSUME NEW t, TruncateEnd(t) \/ LaminateEnd(t) PROVE lam'[s]
  BY <1>2, <1>6, <1>8, Zenon DEF TruncateEnd, LaminateEnd
<1>9. ASSUME NEW t, NEW c \in Clients, Truncate(t, c) \/ Laminate(t, c) PROVE lam'[s]
  BY <1>1, <1>2, <1>5, <1>9, ZenonT(30) DEF Truncate, Laminate
<1>10. ASSUME NEW c \in Clients, Call(c) \/ RequestManager(c) PROVE lam'[s]
  <2>1. Create(c) => lam'[s]
    BY <1>0, <1>2, <1>3, ZenonT(30) DEF Create
  <2>2. Sync(c) => lam'[s]
    BY Zenon DEF Sync
  <2>7. SyncSubmit(c) => lam'[s]
    BY <1>2, Zenon DEF SyncSubmit
  <2>3. Unlink(c) => lam'[s]
    BY <1>0, <1>4, Zenon DEF Unlink
  <2>4. ReadLocal(c) \/ ReadRemote(c) \/ SizeLocal(c) \/ SizeRemote(c) \/ SizePoll(c) \/ Call(c) => lam'[s]
    BY <1>2, Zenon DEF ReadLocal, ReadRemote, SizeLocal, SizeRemote, SizePoll, Call
  <2>5. SizeEnd(c) => lam'[s]
    BY <1>0, <1>2, <1>3, ZenonT(30) DEF SizeEnd
  <2>6. Forwards(c, "truncate") \/ Forwards(c, "laminate") => lam'[s]
    BY <1>2, Zenon DEF Forwards
  <2> QED BY <1>8, <1>9, <1>10, <2>1, <2>2, <2>3, <2>4, <2>5, <2>6, <2>7, Zenon DEF RequestManager
<1>11. ASSUME NEW r \in Servers, ServiceManager(r) PROVE lam'[s]
  <2>1. ProcessSync(r) \/ SyncAdd(r) => lam'[s]
    BY <1>7, Zenon DEF ProcessSync, SyncAdd
  <2>2. CreateAtOther(r) => lam'[s]
    BY <1>2, <1>3, Zenon DEF CreateAtOther
  <2>3. TruncateAtOther(r) \/ LaminateAtOther(r) => lam'[s]
    BY <1>2, <1>5, <1>6, Zenon DEF TruncateAtOther, LaminateAtOther
  <2>4. UnlinkAtOther(r) => lam'[s]
    BY <1>4, Zenon DEF UnlinkAtOther
  <2>5. AddAtOwner \/ AddAtOwnerEnd => lam'[s]
    BY <1>2, <1>7, Zenon DEF AddAtOwner, AddAtOwnerEnd
  <2>6. ASSUME NEW c \in Clients, CreateAtOwner(c) \/ ReadAtOwner(c) \/ SizeAtOwner(c) PROVE lam'[s]
    BY <1>2, <1>3, <2>6, OwnerAssumption, Zenon DEF CreateAtOwner, ReadAtOwner, SizeAtOwner
  <2> QED BY <1>8, <1>9, <1>11, <2>1, <2>2, <2>3, <2>4, <2>5, <2>6, Zenon DEF ServiceManager
<1>12. ASSUME NEW r \in Servers, NEW d \in Servers, Deliver(r, d) PROVE lam'[s]
  BY <1>2, <1>12, Zenon DEF Deliver
<1>13. UNCHANGED vars => lam'[s]
  BY <1>2, Zenon DEF vars
<1> QED BY <1>10, <1>11, <1>12, <1>13, Zenon DEF Next

\* LaminationSticks: whatever order the broadcasts arrive in, no server takes the
\* is_laminated attribute of an inode back; with any calls, unlinks included.
THEOREM LaminationIsFinal == Spec => LaminationSticks
<1>1. ThreadInv /\ [Next]_vars => [\A s \in Servers : (s \in ex /\ lam[s] /\ s \in ex') => lam'[s]]_vars
  BY LamKept, Zenon
<1> QED BY <1>1, ThreadsCorrect, PTL DEF Spec, LaminationSticks

=============================================================================
