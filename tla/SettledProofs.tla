--------------------------- MODULE SettledProofs ---------------------------
(***************************************************************************)
(* The inductive invariant SettledInv of settled programs, which make a    *)
(* call when everything that the previous one started has ended; and the   *)
(* lemmas that the steps of creations, unlinks, reads, size queries and    *)
(* the first steps of truncations and laminations keep it and are steps of *)
(* AtomicFile, for any number of clients, servers and blocks.  The module  *)
(* AtomicFileProofs has the other steps and the refinement.                *)
(***************************************************************************)
EXTENDS FileServiceProofs

------------------------------------------------------------------------------
(* What the servers have between and during calls *)

\* Wherever e has data, f has.
Covers(e, f) == \A b \in Blocks : e[b] # NoData => f[b] # NoData

\* The inode of the owner is the file; a copy elsewhere exists when the file does, is
\* the file once it is laminated, and until then has no data where the file has none.
\* A lamination without extents, or of a file that is not shared, is not heard of.
OwnerAgrees ==
    /\ Owner \in ex <=> ref.exists
    /\ ref.exists => lam[Owner] = ref.lam /\ size[Owner] = ref.size /\ ext[Owner] = ref.ext
Behind(s) == IF ref.lam THEN ref.ext = Empty \/ ~Shared ELSE Covers(ext[s], ref.ext)
CopyAgrees(s) ==
    /\ s \in ex <=> ref.exists
    /\ ref.exists /\ lam[s] => ref.lam /\ size[s] = ref.size /\ ext[s] = ref.ext
    /\ ref.exists /\ ~lam[s] => Behind(s)
Agrees(s) == IF s = Owner THEN OwnerAgrees ELSE CopyAgrees(s)

\* What the call of client c has done to server s before it returns.
AheadCreate(c, s) ==
    /\ call[c].op = "create" /\ th[c].pc = "rpc" /\ s = Home[c] /\ s # Owner
    /\ s \in ex /\ ~lam[s] /\ ext[s] = Empty
AheadSync(c, s) ==
    /\ call[c].op = "sync" /\ th[s].pc = "addrpc" /\ s # Owner /\ s \in ex /\ ref.exists /\ ~lam[s]
    /\ IF ref.lam THEN ref.ext = Empty \/ ~Shared ELSE Covers(ext[s], Overlay(ref.ext, th[s].ext))
AheadLaminate(c, s) ==
    /\ call[c].op = "laminate" /\ th[c].pc # "called" /\ s = Owner /\ ref.exists
    /\ Owner \in ex /\ lam[Owner] /\ size[Owner] = ref.size /\ ext[Owner] = ref.ext
Ahead(c, s) == AheadCreate(c, s) \/ AheadSync(c, s) \/ AheadLaminate(c, s)

Broadcasts == {"b_create", "b_truncate", "b_laminate", "b_unlink"}

InCall(c) ==
    /\ \A s \in Servers : Agrees(s) \/ Ahead(c, s)
    /\ call[c].op = "create" /\ th[c].pc = "rpc" => ~ref.exists /\ Home[c] # Owner
    /\ \A d \in Servers, m \in Messages : Carried(d, m) => m.op \notin Broadcasts

\* A broadcast m makes server d agree.
Settles(d, m) ==
    /\ m.op = "b_create" => ref.exists /\ ~ref.lam /\ (d \in ex => Agrees(d))
    /\ m.op = "b_truncate" => /\ ref.exists /\ ~ref.lam /\ d \in ex /\ ~lam[d]
                              /\ Covers(Cut(ext[d], m.size), ref.ext)
    /\ m.op = "b_laminate" => /\ ref.exists /\ ref.lam /\ Shared /\ d \in ex /\ m.size = ref.size /\ m.ext = ref.ext
                              /\ Agrees(d) \/ (~lam[d] /\ Covers(ext[d], ref.ext))
    /\ m.op = "b_unlink" => ~ref.exists
Settling ==
    /\ \A s \in Servers : Agrees(s) \/ \E m \in Messages : Carried(s, m) /\ m.op \in Broadcasts
    /\ \A d \in Servers, m \in Messages : Carried(d, m) => Settles(d, m)

\* What one sync writes.
Written(k) == Write(Empty, k.first, k.last, k.data)

OneSync(s) ==
    /\ pend[s].who = {} => pend[s] = NoPend
    /\ pend[s].who # {} => s \in ex
    /\ \A c \in pend[s].who : pend[s].ext = Written(call[c])
    /\ th[s].pc \in {"add", "addrpc"} => /\ th[s].who # {} /\ s \in ex /\ ~lam[s]
                                         /\ \A c \in th[s].who : th[s].ext = Written(call[c])

Queries ==
    /\ \A t \in Clients \cup {Owner} :
          /\ th[t].pc = "truncate" => th[t].old = ref.size
          /\ th[t].pc = "laminate" => Owner \in ex /\ lam[Owner]
    /\ th[Owner].pc = "radd" => Owner \in ex /\ ~lam[Owner]
    /\ \A c \in Clients : th[c].pc # "poll"
    /\ getting # {} =>
          \E c \in Clients : th[c].pc \in {"rpc", "attr"} /\ call[c].op = "size" /\ getting = {Home[c]}
    /\ \A c \in Clients : th[c].pc = "attr" => (th[c].ok <=> ref.exists) /\ (th[c].ok => th[c].size = ref.size)

Turns == \A b, c \in Clients : call[b] # Idle /\ call[c] # Idle => b = c

\* A lamination without extents is not queued.
NoEmptyNews ==
    \A d \in Servers : \A i \in 1 .. Len(queue[d]) : queue[d][i].op = "b_laminate" => queue[d][i].ext # Empty

SettledInv ==
    /\ ThreadInv /\ Turns /\ Queries /\ Within(ref.ext, ref.size)
    /\ \A s \in Servers : OneSync(s)
    /\ NoEmptyNews
    /\ NoCall => Settling
    /\ \A c \in Clients : call[c] # Idle => InCall(c)

------------------------------------------------------------------------------
(* What the operators of the data do *)

LEMMA CoversFacts ==
    ASSUME NEW e \in Contents, NEW f \in Contents, Covers(e, f)
    PROVE  /\ \A g \in Contents : Covers(e, Overlay(f, g)) /\ Covers(Overlay(e, g), Overlay(f, g))
           /\ \A n \in Sizes : Covers(Cut(e, n), f) /\ Covers(Cut(e, n), Cut(f, n))
           /\ Overlay(e, f) = f
<1>1. \A b \in Blocks : e[b] # NoData => f[b] # NoData
  BY Zenon DEF Covers
<1>2. ASSUME NEW g \in Contents PROVE Covers(e, Overlay(f, g)) /\ Covers(Overlay(e, g), Overlay(f, g))
  BY <1>1, Zenon DEF Covers, Overlay
<1>3. ASSUME NEW n \in Sizes PROVE Covers(Cut(e, n), f) /\ Covers(Cut(e, n), Cut(f, n))
  BY <1>1, Zenon DEF Covers, Cut
<1>4. Overlay(e, f) = f
  <2>1. f = [b \in Blocks |-> f[b]]
    BY Zenon DEF Contents
  <2>2. \A b \in Blocks : (IF f[b] = NoData THEN e[b] ELSE f[b]) = f[b]
    BY <1>1, Zenon
  <2> QED BY <2>1, <2>2, Zenon DEF Overlay
<1> QED BY <1>2, <1>3, <1>4, Zenon

LEMMA EmptyCovered == ASSUME NEW f PROVE Covers(Empty, f) /\ Within(Empty, 0)
BY Zenon DEF Covers, Empty, Within

\* A size beyond the data cuts nothing.
LEMMA CutBeyond ==
    ASSUME NEW e \in Contents, NEW m \in Sizes, NEW n \in Sizes, Within(e, m), ~(n < m)
    PROVE  Cut(e, n) = e
<1>1. \A b \in Blocks : (IF b < n THEN e[b] ELSE NoData) = e[b]
  BY BlocksAssumption DEF Within, Blocks, Sizes
<1>2. e = [b \in Blocks |-> e[b]]
  BY Zenon DEF Contents
<1> QED BY <1>1, <1>2, Zenon DEF Cut

\* One sync writes its blocks and asks for its size.
LEMMA WrittenIs ==
    ASSUME NEW k \in Calls, k.op = "sync", k.first <= k.last
    PROVE  /\ Written(k) \in Contents /\ Written(k) # Empty
           /\ \A e \in Contents : Overlay(e, Written(k)) = Write(e, k.first, k.last, k.data)
           /\ ExtentSize(Written(k)) = k.last + 1
<1>0. k.first \in Blocks /\ k.last \in Blocks /\ k.data \in Data /\ k.data # NoData
  BY CallTypes, Zenon
<1>1. Written(k) \in Contents
  BY <1>0, DataTypes, Zenon DEF Written
<1>2. \A b \in Blocks : Written(k)[b] = IF b \in k.first .. k.last THEN k.data ELSE NoData
  BY Zenon DEF Written, Write, Empty
<1>3. k.last \in k.first .. k.last
  BY <1>0 DEF Blocks
<1>4. Written(k)[k.last] # NoData
  BY <1>0, <1>2, <1>3, Zenon
<1>5. Written(k) # Empty
  BY <1>0, <1>4, Zenon DEF Empty
<1>6. ASSUME NEW e \in Contents PROVE Overlay(e, Written(k)) = Write(e, k.first, k.last, k.data)
  <2>1. \A b \in Blocks : (IF Written(k)[b] = NoData THEN e[b] ELSE Written(k)[b])
                          = IF b \in k.first .. k.last THEN k.data ELSE e[b]
    BY <1>0, <1>2, Zenon
  <2> QED BY <2>1, Zenon DEF Overlay, Write
<1> DEFINE n == ExtentSize(Written(k))
<1>7. n \in Sizes /\ Within(Written(k), n) /\ Written(k)[n - 1] # NoData /\ n - 1 \in Blocks
  BY <1>1, <1>5, SizeOfExtents, Zenon
<1> HIDE DEF n
<1>8. k.last < n
  BY <1>0, <1>4, <1>7, Zenon DEF Within
<1>9. n - 1 \in k.first .. k.last
  BY <1>2, <1>7, Zenon
<1>10. n = k.last + 1
  BY <1>0, <1>7, <1>8, <1>9, BlocksAssumption DEF Sizes, Blocks
<1> QED BY <1>1, <1>5, <1>6, <1>10, Zenon DEF n

------------------------------------------------------------------------------
(* What AtomicFile answers *)

Rightly(f, k, a) ==
    /\ a.ok => AF!Allowed(f, k) /\ a = AF!Found(f, k)
    /\ ~a.ok => ~AF!Allowed(f, k) /\ a = Answer(FALSE)

LEMMA SameAnswers ==
    /\ \A b : AF!Answer(b) = Answer(b)
    /\ \A e : AF!AnswerExt(e) = AnswerExt(e) /\ AF!AnswerSize(e) = AnswerSize(e)
    /\ AF!Idle = Idle /\ AF!Calls = Calls
<1>1. AF!Blocks = Blocks /\ AF!Sizes = Sizes /\ AF!Data = Data /\ AF!NoData = NoData
  BY Zenon DEF AF!Blocks, Blocks, AF!Sizes, Sizes, AF!Data, Data, AF!NoData, NoData
<1>2. AF!Empty = Empty
  BY <1>1, Zenon DEF AF!Empty, Empty
<1>3. /\ \A b : AF!Answer(b) = Answer(b)
      /\ \A e : AF!AnswerExt(e) = AnswerExt(e) /\ AF!AnswerSize(e) = AnswerSize(e)
  BY <1>2, Zenon DEF AF!Answer, Answer, AF!AnswerExt, AnswerExt, AF!AnswerSize, AnswerSize
<1>4. AF!Idle = Idle /\ AF!Calls = Calls
  BY <1>1, Zenon DEF AF!Idle, Idle, AF!Calls, Calls
<1> QED BY <1>3, <1>4, Zenon

LEMMA Right ==
    ASSUME NEW f \in Files, NEW k \in Calls
    PROVE  /\ k.op = "create" => /\ f.exists => Rightly(f, k, Answer(FALSE))
                                 /\ ~f.exists => Rightly(f, k, Answer(TRUE))
           /\ k.op = "unlink" => Rightly(f, k, Answer(TRUE))
           /\ k.op \in {"truncate", "sync"} =>
                 /\ ~f.exists \/ f.lam => Rightly(f, k, Answer(FALSE))
                 /\ f.exists /\ ~f.lam => Rightly(f, k, Answer(TRUE))
           /\ k.op \in {"laminate", "read", "size"} => (~f.exists => Rightly(f, k, Answer(FALSE)))
           /\ k.op = "laminate" /\ f.exists => Rightly(f, k, Answer(TRUE))
           /\ k.op = "read" /\ f.exists => Rightly(f, k, AnswerExt(f.ext))
           /\ k.op = "size" /\ f.exists => Rightly(f, k, AnswerSize(f.size))
<1>1. Answer(TRUE).ok = TRUE /\ Answer(FALSE).ok = FALSE /\ \A x : AnswerExt(x).ok = TRUE /\ AnswerSize(x).ok = TRUE
  BY AnswerTypes, Zenon
<1>2. CASE k.op = "create"
  <2>1. (AF!Allowed(f, k) <=> ~f.exists) /\ AF!Found(f, k) = Answer(TRUE)
    BY <1>2, SameAnswers, Zenon DEF AF!Allowed, AF!Found
  <2> QED BY <1>1, <1>2, <2>1, Zenon DEF Rightly
<1>3. CASE k.op = "unlink"
  <2>1. AF!Allowed(f, k) /\ AF!Found(f, k) = Answer(TRUE)
    BY <1>3, SameAnswers, Zenon DEF AF!Allowed, AF!Found
  <2> QED BY <1>1, <1>3, <2>1, Zenon DEF Rightly
<1>4. CASE k.op \in {"truncate", "sync"}
  <2>1. (AF!Allowed(f, k) <=> f.exists /\ ~f.lam) /\ AF!Found(f, k) = Answer(TRUE)
    BY <1>4, SameAnswers, Zenon DEF AF!Allowed, AF!Found
  <2> QED BY <1>1, <1>4, <2>1, Zenon DEF Rightly
<1>5. CASE k.op = "laminate"
  <2>1. (AF!Allowed(f, k) <=> f.exists) /\ AF!Found(f, k) = Answer(TRUE)
    BY <1>5, SameAnswers, Zenon DEF AF!Allowed, AF!Found
  <2> QED BY <1>1, <1>5, <2>1, Zenon DEF Rightly
<1>6. CASE k.op = "read"
  <2>1. (AF!Allowed(f, k) <=> f.exists) /\ AF!Found(f, k) = AnswerExt(f.ext)
    BY <1>6, SameAnswers, Zenon DEF AF!Allowed, AF!Found
  <2> QED BY <1>1, <1>6, <2>1, Zenon DEF Rightly
<1>7. CASE k.op = "size"
  <2>1. (AF!Allowed(f, k) <=> f.exists) /\ AF!Found(f, k) = AnswerSize(f.size)
    BY <1>7, SameAnswers, Zenon DEF AF!Allowed, AF!Found
  <2> QED BY <1>1, <1>7, <2>1, Zenon DEF Rightly
<1> QED BY <1>2, <1>3, <1>4, <1>5, <1>6, <1>7, CallTypes, Zenon

\* A call that returns the right answer is a step of AtomicFile.
LEMMA FinishReturns ==
    ASSUME NEW c \in Clients, call[c] # Idle, NEW a, Finish(c, a), Rightly(ref, call[c], a)
    PROVE  AF!Return(c)
<1>1. /\ call' = [call EXCEPT ![c] = Idle] /\ ret' = [ret EXCEPT ![c] = a]
      /\ ref' = IF a.ok THEN AF!Effect(ref, call[c]) ELSE ref
  BY Zenon DEF Finish
<1>2. CASE a.ok
  BY <1>1, <1>2, SameAnswers, Zenon DEF Rightly, AF!Return
<1>3. CASE ~a.ok
  BY <1>1, <1>3, SameAnswers, Zenon DEF Rightly, AF!Return
<1> QED BY <1>2, <1>3, Zenon

------------------------------------------------------------------------------
(* What is true while a client is in a call *)

LEMMA Has ==
    ASSUME SettledInv
    PROVE  /\ ThreadInv /\ StateOK /\ Owner \in Servers /\ ref \in Files /\ Within(ref.ext, ref.size)
           /\ ref.ext \in Contents /\ ref.size \in Sizes
           /\ \A s \in Servers : ext[s] \in Contents /\ size[s] \in Sizes /\ lam[s] \in BOOLEAN
BY Parts, Zenon DEF SettledInv, StateOK, CallOK, InodeOK, Files

\* It is the only one, and whatever the servers work on is its call.
LEMMA Sole ==
    ASSUME SettledInv, NEW c \in Clients, call[c] # Idle
    PROVE  /\ ~NoCall /\ InCall(c) /\ call[c] \in Calls /\ Home[c] \in Servers
           /\ \A b \in Clients : b # c => call[b] = Idle /\ th[b].pc = "idle"
           /\ \A s \in Servers : pend[s].who # {} =>
                 pend[s].who = {c} /\ th[c].pc = "sync" /\ Home[c] = s /\ pend[s].ext = Written(call[c]) /\ s \in ex
           /\ \A s \in Servers : th[s].pc \in {"add", "addrpc"} =>
                 /\ th[s].who = {c} /\ th[c].pc = "sync" /\ Home[c] = s /\ th[s].ext = Written(call[c])
                 /\ s \in ex /\ ~lam[s]
           /\ th[Owner].pc = "radd" => th[c].pc = "sync"
           /\ th[Owner].pc \in {"truncate", "laminate"} =>
                 th[Owner].who = c /\ th[c].pc = "rpc" /\ call[c].op = th[Owner].pc
           /\ th[c].pc = "sync" => call[c].op = "sync"
           /\ call[c].op = "sync" => call[c].first <= call[c].last
<1>0. ThreadInv /\ Turns /\ (\A s \in Servers : OneSync(s)) /\ InCall(c)
  BY Zenon DEF SettledInv
<1>1. /\ \A b \in Clients : b # c => call[b] = Idle
      /\ \A b \in Clients : th[b].pc = "idle" <=> call[b] = Idle
  BY <1>0, Working, Zenon DEF Turns
<1>2. \A b \in Clients : b # c => th[b].pc = "idle"
  BY <1>1, Zenon
<1>3. \A b \in Clients : th[b].pc \in {"sync", "rpc"} => b = c
  BY <1>2, Zenon
<1>4. ASSUME NEW s \in Servers, pend[s].who # {}
      PROVE  pend[s].who = {c} /\ th[c].pc = "sync" /\ Home[c] = s /\ pend[s].ext = Written(call[c]) /\ s \in ex
  <2>1. pend[s].who \in SUBSET Clients /\ \A b \in pend[s].who : Home[b] = s /\ th[b].pc = "sync"
    BY <1>0, Pending, Zenon
  <2>2. pend[s].who = {c}
    BY <1>3, <1>4, <2>1, Zenon
  <2>3. OneSync(s)
    BY <1>0, Zenon
  <2> QED BY <1>4, <2>1, <2>2, <2>3, Zenon DEF OneSync
<1>5. ASSUME NEW s \in Servers, th[s].pc \in {"add", "addrpc"}
      PROVE  /\ th[s].who = {c} /\ th[c].pc = "sync" /\ Home[c] = s /\ th[s].ext = Written(call[c])
             /\ s \in ex /\ ~lam[s]
  <2>1. th[s].who \in SUBSET Clients /\ \A b \in th[s].who : Home[b] = s /\ th[b].pc = "sync"
    BY <1>0, <1>5, Syncing, Zenon
  <2>2. OneSync(s)
    BY <1>0, Zenon
  <2>3. th[s].who = {c}
    BY <1>3, <1>5, <2>1, <2>2, Zenon DEF OneSync
  <2> QED BY <1>5, <2>1, <2>2, <2>3, Zenon DEF OneSync
<1>6. th[Owner].pc = "radd" => th[c].pc = "sync"
  <2>1. SUFFICES ASSUME th[Owner].pc = "radd" PROVE th[c].pc = "sync"
    BY Zenon
  <2>2. Waits(th[Owner].who, "add")
    BY <1>0, <2>1, Parts, Zenon DEF OwnerOK
  <2>3. th[Owner].who \in Servers /\ th[th[Owner].who].pc = "addrpc"
    BY <2>2, Zenon DEF Waits, ClientOps
  <2> QED BY <1>5, <2>3, Zenon
<1>7. th[Owner].pc \in {"truncate", "laminate"} =>
          th[Owner].who = c /\ th[c].pc = "rpc" /\ call[c].op = th[Owner].pc
  <2>1. SUFFICES ASSUME th[Owner].pc \in {"truncate", "laminate"}
                 PROVE  th[Owner].who = c /\ th[c].pc = "rpc" /\ call[c].op = th[Owner].pc
    BY Zenon
  <2>2. Waits(th[Owner].who, th[Owner].pc)
    BY <1>0, <2>1, Parts, Zenon DEF OwnerOK
  <2>3. th[Owner].who \in Clients /\ th[th[Owner].who].pc = "rpc" /\ call[th[Owner].who].op = th[Owner].pc
    BY <2>1, <2>2, Zenon DEF Waits
  <2> QED BY <1>3, <2>3, Zenon
<1>8. /\ call[c] \in Calls /\ Home[c] \in Servers
      /\ th[c].pc = "sync" => call[c].op = "sync"
      /\ call[c].op = "sync" => call[c].first <= call[c].last
  BY <1>0, HomeAssumption, Zenon DEF ThreadInv, ClientOK, StateOK, CallOK
<1> QED BY <1>0, <1>1, <1>2, <1>4, <1>5, <1>6, <1>7, <1>8, Zenon DEF NoCall

\* No metaget is pending unless the call asks for the size.
LEMMA NoGetting ==
    ASSUME SettledInv, NEW c \in Clients, call[c] # Idle, call[c].op # "size" \/ th[c].pc = "called"
    PROVE  getting = {}
<1>1. \A b \in Clients : b # c => th[b].pc = "idle"
  BY Sole, Zenon
<1> QED BY <1>1, Zenon DEF SettledInv, Queries

\* What a server that agrees knows.
LEMMA Knows ==
    ASSUME NEW s \in Servers, Agrees(s)
    PROVE  /\ s \in ex <=> ref.exists
           /\ ref.exists /\ lam[s] => ref.lam /\ size[s] = ref.size /\ ext[s] = ref.ext
           /\ s = Owner /\ ref.exists => lam[s] = ref.lam /\ size[s] = ref.size /\ ext[s] = ref.ext
           /\ s # Owner /\ ref.exists /\ ~lam[s] => Behind(s)
BY Zenon DEF Agrees, OwnerAgrees, CopyAgrees

\* Before the call has done anything, and during most calls, every server agrees.
LEMMA AllAgree ==
    ASSUME SettledInv, NEW c \in Clients, call[c] # Idle,
           \/ th[c].pc = "called"
           \/ call[c].op \in {"truncate", "unlink", "read", "size"}
           \/ call[c].op = "sync" /\ \A s \in Servers : th[s].pc # "addrpc"
    PROVE  \A s \in Servers : Agrees(s)
<1>1. InCall(c) /\ \A s \in Servers : th[s].pc = "addrpc" => th[c].pc = "sync"
  BY Sole, Zenon
<1> QED BY <1>1, Zenon DEF InCall, Ahead, AheadCreate, AheadSync, AheadLaminate

\* Only a lamination makes the owner different before it returns.
LEMMA OwnerAgreed ==
    ASSUME SettledInv, NEW c \in Clients, call[c] # Idle, call[c].op # "laminate"
    PROVE  OwnerAgrees
<1>1. InCall(c) /\ Owner \in Servers
  BY Sole, Has, Zenon
<1> QED BY <1>1, Zenon DEF InCall, Ahead, AheadCreate, AheadSync, AheadLaminate, Agrees

\* A server where nothing changes.
SameInode(s) == (s \in ex' <=> s \in ex) /\ lam'[s] = lam[s] /\ size'[s] = size[s] /\ ext'[s] = ext[s]

LEMMA StillAgrees ==
    ASSUME NEW s \in Servers, SameInode(s), ref' = ref, Agrees(s)
    PROVE  Agrees(s)'
BY Zenon DEF SameInode, Agrees, OwnerAgrees, CopyAgrees, Behind

LEMMA StillSettles ==
    ASSUME NEW s \in Servers, SameInode(s), ref' = ref, NEW m, Settles(s, m)
    PROVE  Settles(s, m)'
<1>1. Agrees(s) <=> Agrees(s)'
  BY Zenon DEF SameInode, Agrees, OwnerAgrees, CopyAgrees, Behind
<1> QED BY <1>1, Zenon DEF SameInode, Settles

------------------------------------------------------------------------------
(* Where messages are *)

LEMMA AppendHas ==
    ASSUME NEW q \in Seq(Messages), NEW m \in Messages
    PROVE  /\ \A k \in 1 .. Len(q) : k \in 1 .. Len(Append(q, m)) /\ Append(q, m)[k] = q[k]
           /\ Len(q) + 1 \in 1 .. Len(Append(q, m)) /\ Append(q, m)[Len(q) + 1] = m
OBVIOUS

\* A broadcast is on its way to every other server.
LEMMA BroadcastReaches ==
    ASSUME StateOK, NEW src \in Servers, NEW m \in Messages, Broadcast(src, m), NEW d \in Servers, d # src
    PROVE  Carried(d, m)'
<1>1. chan \in [Servers -> [Servers -> Seq(Messages)]] /\ chan[src][d] \in Seq(Messages)
  BY Zenon DEF StateOK, QueueOK
<1> DEFINE A == [r \in Servers |-> IF r = src THEN chan[src][r] ELSE Append(chan[src][r], m)]
<1>2. chan' = [chan EXCEPT ![src] = A]
  BY Zenon DEF Broadcast
<1>3. A[d] = Append(chan[src][d], m)
  BY Zenon
<1> HIDE DEF A
<1>4. chan'[src][d] = Append(chan[src][d], m)
  BY <1>1, <1>2, <1>3, Zenon
<1> DEFINE n == Len(chan[src][d]) + 1
<1>5. n \in 1 .. Len(Append(chan[src][d], m)) /\ Append(chan[src][d], m)[n] = m
  BY <1>1
<1> HIDE DEF n
<1>6. \E i \in 1 .. Len(chan'[src][d]) : chan'[src][d][i] = m
  BY <1>4, <1>5, Zenon
<1> QED BY <1>6, Zenon DEF Carried, CarriedIn

\* Delivery loses nothing but laminations without extents.
LEMMA DeliverKeeps ==
    ASSUME StateOK, NEW src \in Servers, NEW dst \in Servers, Deliver(src, dst),
           NEW d \in Servers, NEW x \in Messages, Carried(d, x)
    PROVE  Carried(d, x)' \/ (x.op = "b_laminate" /\ x.ext = Empty)
<1>0. /\ chan \in [Servers -> [Servers -> Seq(Messages)]] /\ queue \in [Servers -> Seq(Messages)]
      /\ \A s, r \in Servers : chan[s][r] \in Seq(Messages)
      /\ \A r \in Servers : queue[r] \in Seq(Messages)
  BY Zenon DEF StateOK, QueueOK
<1> DEFINE A == chan[src][dst]
<1>1. PICK i \in 1 .. Len(A) :
         /\ chan' = [chan EXCEPT ![src][dst] = WithoutNth(A, i)]
         /\ IF A[i].op = "b_laminate" /\ A[i].ext = Empty
            THEN queue' = queue
            ELSE queue' = [queue EXCEPT ![dst] = Append(queue[dst], A[i])]
  BY Zenon DEF Deliver
<1> DEFINE B == WithoutNth(A, i)
           y == A[i]
<1>2. A \in Seq(Messages) /\ Len(A) \in Nat /\ y \in Messages
  BY <1>0
<1>3. /\ B \in Seq(Messages) /\ Len(B) = Len(A) - 1
      /\ \A k \in 1 .. Len(B) : B[k] = A[IF k < i THEN k ELSE k + 1]
  BY <1>2, Removal, Zenon
<1>4. chan'[src][dst] = B /\ \A s, r \in Servers : s # src \/ r # dst => chan'[s][r] = chan[s][r]
  <2> HIDE DEF B
  <2> QED BY <1>0, <1>1, Zenon DEF B
<1>5. CASE \E k \in 1 .. Len(queue[d]) : queue[d][k] = x
  <2>1. PICK k \in 1 .. Len(queue[d]) : queue[d][k] = x
    BY <1>5, Zenon
  <2>2. queue' = queue \/ queue' = [queue EXCEPT ![dst] = Append(queue[dst], y)]
    BY <1>1, Zenon
  <2> HIDE DEF y
  <2>3. queue'[d] = queue[d] \/ queue'[d] = Append(queue[d], y)
    BY <1>0, <2>2, Zenon
  <2>4. k \in 1 .. Len(queue'[d]) /\ queue'[d][k] = x
    <3>1. queue[d] \in Seq(Messages) /\ y \in Messages
      BY <1>0, <1>2, Zenon
    <3>2. k \in 1 .. Len(Append(queue[d], y)) /\ Append(queue[d], y)[k] = queue[d][k]
      BY <2>1, <3>1, AppendHas, Zenon
    <3> QED BY <2>1, <2>3, <3>2, Zenon
  <2> QED BY <2>4, Zenon DEF Carried, CarriedIn
<1>6. CASE \E s \in Servers : \E k \in 1 .. Len(chan[s][d]) : chan[s][d][k] = x
  <2>1. PICK s \in Servers : \E k \in 1 .. Len(chan[s][d]) : chan[s][d][k] = x
    BY <1>6, Zenon
  <2>2. PICK k \in 1 .. Len(chan[s][d]) : chan[s][d][k] = x
    BY <2>1, Zenon
  <2>3. CASE s # src \/ d # dst
    <3>1. chan'[s][d] = chan[s][d]
      BY <1>4, <2>3, Zenon
    <3> QED BY <2>2, <3>1, Zenon DEF Carried, CarriedIn
  <2>4. CASE s = src /\ d = dst /\ k # i
    <3> DEFINE j == IF k < i THEN k ELSE k - 1
    <3>1. k \in 1 .. Len(A) /\ A[k] = x
      BY <2>2, <2>4, Zenon
    <3> HIDE DEF A, B
    <3>2. j \in 1 .. Len(B) /\ B[j] = A[k]
      BY <1>2, <1>3, <2>4, <3>1
    <3> HIDE DEF j
    <3>3. j \in 1 .. Len(chan'[src][d]) /\ chan'[src][d][j] = x
      BY <1>4, <2>4, <3>1, <3>2, Zenon
    <3> QED BY <3>3, Zenon DEF Carried, CarriedIn
  <2>5. CASE s = src /\ d = dst /\ k = i
    <3>1. y = x
      BY <2>2, <2>5, Zenon
    <3>2. CASE y.op = "b_laminate" /\ y.ext = Empty
      BY <3>1, <3>2, Zenon
    <3>3. CASE ~(y.op = "b_laminate" /\ y.ext = Empty)
      <4>1. queue' = [queue EXCEPT ![dst] = Append(queue[dst], y)]
        BY <1>1, <3>3, Zenon
      <4> HIDE DEF y
      <4>2. queue'[d] = Append(queue[d], y)
        BY <1>0, <2>5, <4>1, Zenon
      <4>3. Len(queue[d]) + 1 \in 1 .. Len(queue'[d]) /\ queue'[d][Len(queue[d]) + 1] = x
        BY <1>0, <1>2, <3>1, <4>2, AppendHas
      <4> QED BY <4>3, Zenon DEF Carried, CarriedIn
    <3> QED BY <3>2, <3>3, Zenon
  <2> QED BY <2>3, <2>4, <2>5, Zenon
<1> QED BY <1>5, <1>6, Zenon DEF Carried, CarriedIn

LEMMA DeliverNoEmpty ==
    ASSUME StateOK, NoEmptyNews, NEW src \in Servers, NEW dst \in Servers, Deliver(src, dst)
    PROVE  NoEmptyNews'
<1>0. queue \in [Servers -> Seq(Messages)] /\ \A r \in Servers : queue[r] \in Seq(Messages)
  BY Zenon DEF StateOK, QueueOK
<1>1. PICK i \in 1 .. Len(chan[src][dst]) :
         IF chan[src][dst][i].op = "b_laminate" /\ chan[src][dst][i].ext = Empty
         THEN queue' = queue
         ELSE queue' = [queue EXCEPT ![dst] = Append(queue[dst], chan[src][dst][i])]
  BY Zenon DEF Deliver
<1> DEFINE y == chan[src][dst][i]
<1>2. y \in Messages
  BY DEF StateOK, QueueOK
<1>3. CASE queue' = queue
  BY <1>3, Zenon DEF NoEmptyNews
<1>4. CASE ~(y.op = "b_laminate" /\ y.ext = Empty) /\ queue' = [queue EXCEPT ![dst] = Append(queue[dst], y)]
  <2> HIDE DEF y
  <2> SUFFICES ASSUME NEW d \in Servers, NEW k \in 1 .. Len(queue'[d]), queue'[d][k].op = "b_laminate"
               PROVE  queue'[d][k].ext # Empty
    BY Zenon DEF NoEmptyNews
  <2>1. \/ k \in 1 .. Len(queue[d]) /\ queue'[d][k] = queue[d][k]
        \/ queue'[d][k] = y
    BY <1>0, <1>2, <1>4
  <2> QED BY <1>4, <2>1, Zenon DEF NoEmptyNews
<1> QED BY <1>1, <1>3, <1>4, Zenon

\* A server that takes a request leaves the others.
LEMMA ServeNoEmpty ==
    ASSUME StateOK, NoEmptyNews, NEW s \in Servers, NEW op, Serves(s, op)
    PROVE  NoEmptyNews'
<1>1. /\ queue'[s] = Tail(queue[s]) /\ queue[s] # <<>> /\ queue[s] \in Seq(Messages)
      /\ \A d \in Servers : d # s => queue'[d] = queue[d]
  BY ServeMoves, Zenon
<1>2. \A k \in 1 .. Len(Tail(queue[s])) : k + 1 \in 1 .. Len(queue[s]) /\ Tail(queue[s])[k] = queue[s][k + 1]
  BY <1>1
<1> QED BY <1>1, <1>2, ZenonT(30) DEF NoEmptyNews

------------------------------------------------------------------------------
(* The parts of a step *)

\* What the steps of one call leave to be shown: the call goes on ...
LEMMA GoesOn ==
    ASSUME SettledInv, ThreadInv', NEW c \in Clients, call[c] # Idle, call' = call, ref' = ref,
           Queries', \A s \in Servers : OneSync(s)', NoEmptyNews',
           \A d \in Servers, m \in Messages : Carried(d, m)' => Carried(d, m) \/ m.op \notin Broadcasts,
           \A s \in Servers : Agrees(s)' \/ Ahead(c, s)',
           call[c].op = "create" /\ th'[c].pc = "rpc" => ~ref.exists /\ Home[c] # Owner
    PROVE  SettledInv'
<1>1. InCall(c) /\ Turns /\ Within(ref.ext, ref.size) /\ (\A b \in Clients : call[b] # Idle => b = c)
  BY Sole, Has, Zenon DEF SettledInv
<1>2. InCall(c)'
  <2>1. \A d \in Servers, m \in Messages : Carried(d, m)' => m.op \notin Broadcasts
    BY <1>1, Zenon DEF InCall
  <2>2. call'[c].op = "create" /\ th'[c].pc = "rpc" => ~ref'.exists /\ Home[c] # Owner
    BY Zenon
  <2> QED BY <2>1, <2>2, Zenon DEF InCall
<1>3. Turns' /\ Within(ref.ext, ref.size)' /\ ~NoCall'
  BY <1>1, Zenon DEF Turns, NoCall
<1>4. \A b \in Clients : call'[b] # Idle => InCall(b)'
  <2> SUFFICES ASSUME NEW b \in Clients, call'[b] # Idle PROVE InCall(b)'
    BY Zenon
  <2>1. b = c
    BY <1>1, Zenon
  <2> QED BY <1>2, <2>1, Zenon
<1> QED BY <1>3, <1>4, Zenon DEF SettledInv

\* ... or it returns, and no thread is left that works.
LEMMA Over ==
    ASSUME SettledInv, ThreadInv', NEW c \in Clients, call[c] # Idle, \A b \in Clients : call'[b] = Idle \/ (b # c /\ call'[b] = call[b]),
           getting' = {}, \A s \in Servers : pend'[s] = pend[s] \/ pend'[s] = NoPend,
           \A s \in Servers : th'[s] = th[s] \/ th'[s].pc \notin {"add", "addrpc"},
           NoEmptyNews', Within(ref'.ext, ref'.size), Settling'
    PROVE  SettledInv'
<1>1. NoCall'
  BY Sole, Zenon DEF NoCall
<1>2. \A b \in Clients : call'[b] = Idle /\ th'[b].pc = "idle"
  BY <1>1, Zenon DEF NoCall, ThreadInv, ClientOK
<1>3. Turns'
  BY <1>2, Zenon DEF Turns
<1>4. OwnerOK' /\ \A s \in Servers : ServerOK(s)'
  BY Zenon DEF ThreadInv
<1>5. ASSUME NEW s \in Servers PROVE OneSync(s)' /\ th'[s].pc \notin {"add", "addrpc"}
  <2>1. ServerOK(s)' /\ OneSync(s) /\ pend'[s].who \in SUBSET Clients
    BY <1>4, Parts, Zenon DEF SettledInv, ThreadInv, StateOK, InodeOK
  <2>2. pend'[s].who = {}
    BY <1>2, <2>1, Zenon DEF ServerOK
  <2>3. pend'[s] = NoPend
    BY <2>1, <2>2, Zenon DEF OneSync
  <2>4. ASSUME th'[s].pc \in {"add", "addrpc"} PROVE FALSE
    <3>1. th'[s].who \in SUBSET Clients /\ \A b \in th'[s].who : th'[b].pc = "sync"
      BY <2>1, <2>4, Zenon DEF ServerOK
    <3>2. th'[s] = th[s] /\ th[s].who # {}
      BY <2>1, <2>4, Zenon DEF OneSync
    <3> QED BY <1>2, <3>1, <3>2, Zenon
  <2> QED BY <2>2, <2>3, <2>4, Zenon DEF OneSync
<1>6. th'[Owner].pc \notin {"truncate", "laminate", "radd"}
  <2>1. \A w \in Servers : th'[w].pc # "addrpc"
    BY <1>5, Zenon
  <2>2. \A w, op : ~Waits(w, op)'
    BY <1>2, <2>1, Zenon DEF Waits
  <2> QED BY <1>4, <2>2, Zenon DEF OwnerOK
<1>7. Queries'
  BY <1>2, <1>6, Zenon DEF Queries
<1> QED BY <1>1, <1>2, <1>3, <1>5, <1>7, Zenon DEF SettledInv

\* Nobody is told: every server agrees with the file as the call leaves it.
LEMMA QuietEnd ==
    ASSUME SettledInv, NEW c \in Clients, call[c] # Idle,
           \A d \in Servers, m \in Messages : Carried(d, m)' => Carried(d, m),
           \A s \in Servers : Agrees(s)'
    PROVE  Settling'
<1>1. \A d \in Servers, m \in Messages : Carried(d, m) => m.op \notin Broadcasts
  BY Sole, Zenon DEF InCall
<1>2. \A d \in Servers, m \in Messages : Carried(d, m)' => m.op \notin Broadcasts
  BY <1>1, Zenon
<1>3. ASSUME NEW d \in Servers, NEW m \in Messages, Carried(d, m)' PROVE Settles(d, m)'
  BY <1>2, <1>3, Zenon DEF Settles, Broadcasts
<1> QED BY <1>3, Zenon DEF Settling

\* Server src tells all others.
LEMMA NewsEnd ==
    ASSUME SettledInv, NEW c \in Clients, call[c] # Idle, NEW src \in Servers, NEW m \in Messages, m.op \in Broadcasts,
           Broadcast(src, m), \A d \in Servers, x \in Messages : Carried(d, x)' => Carried(d, x) \/ (d # src /\ x = m),
           Agrees(src)', \A d \in Servers : d # src => Settles(d, m)'
    PROVE  Settling'
<1>1. \A d \in Servers, x \in Messages : Carried(d, x) => x.op \notin Broadcasts
  BY Sole, Zenon DEF InCall
<1>2. ASSUME NEW d \in Servers, NEW x \in Messages, Carried(d, x)' PROVE Settles(d, x)'
  <2>1. CASE d # src /\ x = m
    BY <2>1, Zenon
  <2>2. CASE ~(d # src /\ x = m)
    BY <1>1, <1>2, <2>2, Zenon DEF Settles, Broadcasts
  <2> QED BY <2>1, <2>2, Zenon
<1>3. \A d \in Servers : d # src => Carried(d, m)'
  BY Has, BroadcastReaches, Zenon
<1> QED BY <1>2, <1>3, Zenon DEF Settling

\* Between calls a server handles a broadcast, and agrees.
LEMMA HandledEnd ==
    ASSUME SettledInv, ThreadInv', NEW s \in Servers, NEW op \in Broadcasts, Serves(s, op),
           UNCHANGED <<getting, chan, th, client, applied>>,
           \A d \in Servers : d # s => SameInode(d), \A d \in Servers : pend'[d] = pend[d] \/ pend'[d] = NoPend,
           NoCall /\ Settles(s, Head(queue[s])) => Agrees(s)',
           \A m \in Messages : NoCall /\ Settles(s, Head(queue[s])) /\ Settles(s, m) => Settles(s, m)'
    PROVE  SettledInv' /\ UNCHANGED <<ref, call, ret>>
<1>0. StateOK /\ NoEmptyNews /\ UNCHANGED <<ref, call, ret>>
  BY Has, Zenon DEF SettledInv, client
<1>1. /\ Head(queue[s]) \in Messages /\ Head(queue[s]).op = op /\ Carried(s, Head(queue[s]))
      /\ \A d \in Servers, x \in Messages : CarriedIn(chan, queue', d, x) => Carried(d, x)
      /\ \A d \in Servers : d # s => queue'[d] = queue[d]
  BY <1>0, ServeMoves, Zenon
<1>2. \A d \in Servers, x \in Messages : Carried(d, x)' => Carried(d, x)
  BY <1>1, Zenon DEF Carried
<1>3. NoCall
  <2> SUFFICES ASSUME NEW c \in Clients, call[c] # Idle PROVE FALSE
    BY Zenon DEF NoCall
  <2> QED BY <1>1, Sole, Zenon DEF InCall
<1>4. Settling
  BY <1>3, Zenon DEF SettledInv
<1>5. Settles(s, Head(queue[s]))
  BY <1>1, <1>4, Zenon DEF Settling
<1>6. Settling'
  <2>1. ASSUME NEW d \in Servers, NEW m \in Messages, Carried(d, m)' PROVE Settles(d, m)'
    <3>1. Settles(d, m)
      BY <1>2, <1>4, <2>1, Zenon DEF Settling
    <3>2. CASE d = s
      BY <1>3, <1>5, <3>1, <3>2, Zenon
    <3>3. CASE d # s
      BY <1>0, <3>1, <3>3, StillSettles, Zenon
    <3> QED BY <3>2, <3>3, Zenon
  <2>2. ASSUME NEW d \in Servers PROVE Agrees(d)' \/ \E m \in Messages : Carried(d, m)' /\ m.op \in Broadcasts
    <3>1. CASE d = s
      BY <1>3, <1>5, <3>1, Zenon
    <3>2. CASE d # s
      <4>1. CASE Agrees(d)
        BY <1>0, <3>2, <4>1, StillAgrees, Zenon
      <4>2. CASE ~Agrees(d)
        <5>1. PICK m \in Messages : Carried(d, m) /\ m.op \in Broadcasts
          BY <1>4, <4>2, Zenon DEF Settling
        <5>2. Carried(d, m)'
          BY <1>1, <3>2, <5>1, Zenon DEF Carried, CarriedIn
        <5> QED BY <5>1, <5>2, Zenon
      <4> QED BY <4>1, <4>2, Zenon
    <3> QED BY <3>1, <3>2, Zenon
  <2> QED BY <2>1, <2>2, Zenon DEF Settling
<1>7. NoCall' /\ NoEmptyNews'
  BY <1>0, <1>3, ServeNoEmpty, Zenon DEF NoCall
<1>8. \A b \in Clients : th[b].pc = "idle" /\ call'[b] = Idle
  BY <1>0, <1>3, Has, Working, Zenon DEF NoCall
<1>9. Queries /\ getting = {} /\ th[Owner].pc \notin {"truncate", "laminate", "radd"}
  <2>1. Queries /\ getting = {}
    BY <1>8, Zenon DEF SettledInv, Queries
  <2>2. \A r \in Servers : th[r].pc \notin {"addrpc"}
    <3> SUFFICES ASSUME NEW r \in Servers, th[r].pc = "addrpc" PROVE FALSE
      BY Zenon
    <3>1. th[r].who \in SUBSET Clients /\ \A b \in th[r].who : th[b].pc = "sync"
      BY Has, Syncing, Zenon
    <3>2. OneSync(r)
      BY Zenon DEF SettledInv
    <3> QED BY <1>8, <3>1, <3>2, Zenon DEF OneSync
  <2>3. \A w, o : ~Waits(w, o)
    BY <1>8, <2>2, Zenon DEF Waits
  <2> QED BY <2>1, <2>3, Has, Parts, Zenon DEF OwnerOK
<1>10. Queries'
  BY <1>8, <1>9, Zenon DEF Queries
<1>11. ASSUME NEW r \in Servers PROVE OneSync(r)'
  <2>1. OneSync(r) /\ pend[r].who \in SUBSET Clients /\ \A b \in pend[r].who : th[b].pc = "sync"
    BY Has, Pending, Zenon DEF SettledInv
  <2>2. pend[r].who = {} /\ pend[r] = NoPend
    BY <1>8, <2>1, Zenon DEF OneSync
  <2>3. th[r].pc \notin {"add", "addrpc"}
    <3> SUFFICES ASSUME th[r].pc \in {"add", "addrpc"} PROVE FALSE
      BY Zenon
    <3>1. th[r].who \in SUBSET Clients /\ \A b \in th[r].who : th[b].pc = "sync"
      BY Has, Syncing, Zenon
    <3> QED BY <1>8, <2>1, <3>1, Zenon DEF OneSync
  <2>4. pend'[r] = NoPend /\ NoPend.who = {}
    BY <2>2, Zenon DEF NoPend
  <2> QED BY <2>3, <2>4, Zenon DEF OneSync
<1>12. Turns' /\ Within(ref.ext, ref.size)'
  BY <1>0, <1>8, Has, Zenon DEF Turns
<1> QED BY <1>0, <1>6, <1>7, <1>8, <1>10, <1>11, <1>12, Zenon DEF SettledInv

LEMMA Succeeds ==
    ASSUME StateOK, NEW c \in Clients, call[c] # Idle, NEW a, a.ok = TRUE, Finish(c, a)
    PROVE  IsEffect(ref, call[c], ref')
<1>0. a.ok \in BOOLEAN
  BY Zenon
<1>1. (a.ok => IsEffect(ref, call[c], ref')) /\ (~a.ok => ref' = ref)
  BY <1>0, FinishType
<1> QED BY <1>1, Zenon

\* A call that returns the right answer.
LEMMA AnswerEnd ==
    ASSUME SettledInv, ThreadInv', NEW c \in Clients, call[c] # Idle, NEW a, a.ok \in BOOLEAN, Finish(c, a),
           Rightly(ref, call[c], a), NEW t \in Threads, Rest(t, c), getting' = {},
           \A s \in Servers : pend'[s] = pend[s] \/ pend'[s] = NoPend,
           NoEmptyNews', Within(ref'.ext, ref'.size), Settling'
    PROVE  SettledInv' /\ AF!Return(c)
<1>0. StateOK /\ DOMAIN th = Threads /\ c \in Threads /\ \A s \in Servers : s \in Threads
  BY Has, Parts, Working, Zenon DEF Threads
<1>1. call'[c] = Idle /\ \A b \in Clients : b # c => call'[b] = call[b]
  BY <1>0, FinishType
<1>2. \A s \in Servers : th'[s] = th[s] \/ th'[s].pc \notin {"add", "addrpc"}
  BY <1>0, ReadyIs, Zenon DEF Rest
<1> QED BY <1>1, <1>2, Over, FinishReturns, Zenon

\* A call that returns the right answer and changes nothing.
LEMMA PlainReturn ==
    ASSUME SettledInv, ThreadInv', NEW c \in Clients, call[c] # Idle, NEW a, a.ok \in BOOLEAN, Finish(c, a),
           Rightly(ref, call[c], a), a.ok => call[c].op \in {"read", "size"},
           NEW t \in Threads, Rest(t, c), getting' = {}, UNCHANGED inode, NoEmptyNews',
           \A d \in Servers, m \in Messages : Carried(d, m)' => Carried(d, m),
           \A s \in Servers : Agrees(s)
    PROVE  SettledInv' /\ AF!Return(c)
<1>0. StateOK /\ Within(ref.ext, ref.size)
  BY Has, Zenon
<1>1. ref' = ref
  <2>1. /\ a.ok => IsEffect(ref, call[c], ref')
        /\ ~a.ok => ref' = ref
    BY <1>0, FinishType
  <2> QED BY <2>1, Zenon DEF IsEffect
<1>2. \A s \in Servers : SameInode(s) /\ pend'[s] = pend[s]
  BY Zenon DEF inode, SameInode
<1>3. \A s \in Servers : Agrees(s)'
  BY <1>1, <1>2, StillAgrees, Zenon
<1>4. Settling' /\ Within(ref'.ext, ref'.size)
  BY <1>0, <1>1, <1>3, QuietEnd, Zenon
<1> QED BY <1>2, <1>4, AnswerEnd

\* A broadcast with the queues unchanged.
LEMMA Tells ==
    ASSUME SettledInv, NEW src \in Servers, NEW m \in Messages, m.op \in Broadcasts, Broadcast(src, m),
           queue' \in [Servers -> Seq(Messages)], \A d \in Servers, x \in Messages : CarriedIn(chan, queue', d, x) => Carried(d, x)
    PROVE  \A d \in Servers, x \in Messages : Carried(d, x)' => Carried(d, x) \/ (d # src /\ x = m)
<1>1. StateOK /\ ~Personal(m) /\ queue' \in [Servers -> Seq(Messages)]
  BY Has, Zenon DEF Personal, ClientOps, Broadcasts
<1>2. \A d \in Servers, x \in Messages :
          CarriedIn(chan', queue', d, x) => CarriedIn(chan, queue', d, x) \/ (d # src /\ x = m)
  BY <1>1, BroadcastMoves, Zenon
<1> QED BY <1>2, Zenon DEF Carried

\* The threads of the servers go on with the sync, if there is one.
LEMMA SyncsStay ==
    ASSUME SettledInv, NEW c \in Clients, call[c] # Idle, call' = call,
           \A s \in Servers : th'[s] = th[s] \/ th'[s].pc \notin {"add", "addrpc"},
           \A s \in Servers : pend'[s] = pend[s] \/ pend'[s] = NoPend,
           call[c].op = "sync" => \A s \in Servers : (s \in ex => s \in ex') /\ (lam'[s] => lam[s])
    PROVE  \A s \in Servers : OneSync(s)'
<1> SUFFICES ASSUME NEW s \in Servers PROVE OneSync(s)'
  BY Zenon
<1>1. OneSync(s) /\ NoPend.who = {} /\ (th[c].pc = "sync" => call[c].op = "sync")
  BY Sole, Zenon DEF SettledInv, NoPend
<1>2. /\ pend[s].who # {} => th[c].pc = "sync"
      /\ th[s].pc \in {"add", "addrpc"} => th[c].pc = "sync"
  BY Sole, Zenon
<1>3. CASE call[c].op = "sync"
  <2>1. (s \in ex => s \in ex') /\ (lam'[s] => lam[s])
    BY <1>3, Zenon
  <2> QED BY <1>1, <2>1, Zenon DEF OneSync
<1>4. CASE call[c].op # "sync"
  <2>1. pend[s].who = {} /\ th[s].pc \notin {"add", "addrpc"}
    BY <1>1, <1>2, <1>4, Zenon
  <2> QED BY <1>1, <2>1, Zenon DEF OneSync
<1> QED BY <1>3, <1>4, Zenon

\* What threads c and Owner know.
LEMMA QueriesOf ==
    ASSUME SettledInv, NEW c \in Clients, call[c] # Idle, call' = call,
           \A b \in Clients : b # c => th'[b] = th[b],
           \A t \in {c, Owner} : th'[t].pc = "truncate" => th'[t].old = ref'.size,
           \A t \in {c, Owner} : th'[t].pc = "laminate" => Owner \in ex' /\ lam'[Owner],
           th'[Owner].pc = "radd" => Owner \in ex' /\ ~lam'[Owner], th'[c].pc # "poll",
           getting' # {} => th'[c].pc \in {"rpc", "attr"} /\ call[c].op = "size" /\ getting' = {Home[c]},
           th'[c].pc = "attr" => (th'[c].ok <=> ref'.exists) /\ (th'[c].ok => th'[c].size = ref'.size)
    PROVE  Queries'
<1>1. \A b \in Clients : b # c => th'[b].pc = "idle"
  BY Sole
<1> QED BY <1>1, Zenon DEF Queries

\* Inodes that are made, removed and changed.
LEMMA NewInodeIs ==
    ASSUME StateOK, NEW s \in Servers, NEW l, NEW n, NewInode(s, l, n)
    PROVE  /\ s \in ex' /\ lam'[s] = l /\ size'[s] = n /\ ext'[s] = Empty
           /\ \A d \in Servers : d # s => SameInode(d)
           /\ \A d \in Servers : pend'[d] = pend[d] \/ pend'[d] = NoPend
BY Zenon DEF NewInode, StateOK, InodeOK, SameInode

LEMMA DestroyIs ==
    ASSUME StateOK, NEW s \in Servers, Destroy(s)
    PROVE  /\ s \notin ex'
           /\ \A d \in Servers : d # s => SameInode(d)
           /\ \A d \in Servers : pend'[d] = pend[d] \/ pend'[d] = NoPend
BY Zenon DEF Destroy, StateOK, InodeOK, SameInode

LEMMA TruncateInodeIs ==
    ASSUME StateOK, NEW s \in Servers, NEW n, TruncateInode(s, n)
    PROVE  /\ s \in ex' <=> s \in ex
           /\ lam'[s] = lam[s] /\ size'[s] = n /\ ext'[s] = Cut(ext[s], n)
           /\ \A d \in Servers : d # s => SameInode(d)
           /\ pend' = pend
<1> DEFINE e == Cut(ext[s], n)
<1>1. ext' = [ext EXCEPT ![s] = e] /\ size' = [size EXCEPT ![s] = n] /\ UNCHANGED <<ex, lam, pend>>
  BY Zenon DEF TruncateInode
<1> HIDE DEF e
<1>2. ext'[s] = e
  BY <1>1, Zenon DEF StateOK, InodeOK
<1> QED BY <1>1, <1>2, Zenon DEF StateOK, InodeOK, SameInode, e

LEMMA AddExtentsIs ==
    ASSUME StateOK, NEW s \in Servers, NEW over, AddExtents(s, over)
    PROVE  /\ s \in ex' <=> s \in ex
           /\ lam'[s] = lam[s] /\ ext'[s] = Overlay(ext[s], over)
           /\ size'[s] = Max2(size[s], ExtentSize(Overlay(ext[s], over)))
           /\ \A d \in Servers : d # s => SameInode(d)
           /\ ex' = ex /\ lam' = lam /\ pend' = pend
<1> DEFINE e == Overlay(ext[s], over)
           n == Max2(size[s], ExtentSize(Overlay(ext[s], over)))
<1>1. ext' = [ext EXCEPT ![s] = e] /\ size' = [size EXCEPT ![s] = n] /\ UNCHANGED <<ex, lam, pend>>
  BY Zenon DEF AddExtents
<1> HIDE DEF e, n
<1>2. ext'[s] = e /\ size'[s] = n
  BY <1>1, Zenon DEF StateOK, InodeOK
<1> QED BY <1>1, <1>2, Zenon DEF StateOK, InodeOK, SameInode, e, n

------------------------------------------------------------------------------
(* The steps of the request manager threads *)

\* A call begins.
LEMMA CallSettled ==
    ASSUME SettledInv, Mode = "settled", ThreadInv', NEW c \in Clients, Call(c)
    PROVE  SettledInv' /\ AF!Call(c)
<1>0. ThreadInv /\ StateOK /\ NoCall /\ Quiet /\ DOMAIN th = Threads /\ c \in Threads /\ \A s \in Servers : s \in Threads
  BY Has, Parts, Working, Zenon DEF Call, MayCall, NoCall, Threads
<1>1. PICK op \in Calls : call' = [call EXCEPT ![c] = op]
  BY Zenon DEF Call
<1>2. /\ th' = [th EXCEPT ![c] = At("called", c)] /\ UNCHANGED <<inode, getting, queue, chan, ret, ref>>
      /\ At("called", c).pc = "called"
  BY Zenon DEF Call, At
<1>3. AF!Call(c)
  BY <1>0, <1>1, <1>2, SameAnswers, Zenon DEF AF!Call, NoCall
<1>4. call'[c] = op /\ op # Idle /\ \A b \in Clients : b # c => call'[b] = Idle
  BY <1>0, <1>1, CallTypes, Zenon DEF NoCall, StateOK, CallOK
<1>5. \A d \in Servers, m \in Messages : ~Carried(d, m) /\ ~Carried(d, m)'
  BY <1>0, <1>2 DEF Quiet, Carried, CarriedIn
<1>6. th'[c].pc = "called" /\ \A t \in Threads : t # c => th'[t] = th[t]
  <2> DEFINE w == At("called", c)
  <2>1. th' = [th EXCEPT ![c] = w] /\ w.pc = "called"
    BY <1>2, Zenon
  <2> HIDE DEF w
  <2> QED BY <1>0, <2>1, Zenon
<1>7. \A s \in Servers : th'[s] = Ready /\ th[s] = Ready /\ s # c
  BY <1>0, <1>6, Working DEF Quiet
<1>8. \A b \in Clients : th[b].pc = "idle" /\ b \in Threads
  BY <1>0, Working, Zenon DEF NoCall, Threads
<1>9. \A s \in Servers : Agrees(s)'
  <2>1. \A s \in Servers : Agrees(s) /\ SameInode(s)
    BY <1>0, <1>2, <1>5, Zenon DEF SettledInv, Settling, SameInode, inode
  <2> QED BY <1>2, <2>1, StillAgrees, Zenon
<1>10. InCall(c)'
  BY <1>5, <1>6, <1>9, Zenon DEF InCall
<1>11. \A b \in Clients : call'[b] # Idle => InCall(b)'
  BY <1>4, <1>10, Zenon
<1>12. Turns' /\ ~NoCall'
  BY <1>4, Zenon DEF Turns, NoCall
<1>13. Queries'
  <2>1. getting = {} /\ getting' = {}
    BY <1>2, <1>8, Zenon DEF SettledInv, Queries
  <2>2. \A b \in Clients : th'[b].pc \in {"idle", "called"}
    BY <1>6, <1>8, Zenon
  <2>3. th'[Owner].pc = "idle"
    BY <1>7, Has, ReadyIs, Zenon
  <2> QED BY <2>1, <2>2, <2>3, Zenon DEF Queries
<1>14. ASSUME NEW s \in Servers PROVE OneSync(s)'
  <2>1. pend'[s] = pend[s] /\ OneSync(s) /\ th'[s].pc = "idle"
    BY <1>2, <1>7, ReadyIs, Zenon DEF SettledInv, inode
  <2>2. pend[s].who = {}
    BY <1>0, <1>8, Pending
  <2> QED BY <2>1, <2>2, Zenon DEF OneSync
<1>15. NoEmptyNews' /\ Within(ref.ext, ref.size)'
  BY <1>2, Has, Zenon DEF NoEmptyNews, SettledInv
<1> QED BY <1>3, <1>11, <1>12, <1>13, <1>14, <1>15, Zenon DEF SettledInv

\* What is true when the RM thread of c starts.
LEMMA Started ==
    ASSUME SettledInv, NEW c \in Clients, NEW op, Starts(c, op)
    PROVE  /\ ThreadInv /\ StateOK /\ NoEmptyNews /\ DOMAIN th = Threads /\ c \in Threads /\ Owner \in Threads
           /\ th[c].pc = "called" /\ call[c].op = op /\ call[c] # Idle /\ call[c] \in Calls /\ ref \in Files
           /\ getting = {} /\ Home[c] \in Servers
           /\ \A s \in Servers : Agrees(s) /\ s # c
           /\ \A s \in Servers : pend[s] = NoPend /\ th[s].pc \notin {"add", "addrpc"}
           /\ th[Owner].pc \notin {"truncate", "laminate", "radd"}
<1>1. ThreadInv /\ StateOK /\ NoEmptyNews /\ DOMAIN th = Threads /\ c \in Threads /\ Owner \in Threads /\ ref \in Files
  BY Has, Parts, Working, Zenon DEF SettledInv
<1>2. th[c].pc = "called" /\ call[c].op = op /\ call[c] \in Calls /\ call[c] # Idle
  BY <1>1, Working, CallTypes, Zenon
<1>3. Home[c] \in Servers /\ \A s \in Servers : s # c
  BY <1>1, Working, Zenon
<1>4. getting = {} /\ \A s \in Servers : Agrees(s)
  BY <1>2, NoGetting, AllAgree, Zenon
<1>5. /\ \A s \in Servers : pend[s].who = {} /\ th[s].pc \notin {"add", "addrpc"} /\ OneSync(s)
      /\ th[Owner].pc \notin {"truncate", "laminate", "radd"}
  BY <1>2, Sole, Zenon DEF SettledInv
<1> QED BY <1>1, <1>2, <1>3, <1>4, <1>5, Zenon DEF OneSync

\* A thread that asks the owner and leaves the inodes.
LEMMA AskSettled ==
    ASSUME SettledInv, ThreadInv', NEW c \in Clients, NEW op \in {"truncate", "laminate", "read", "size"}, Starts(c, op),
           NEW src \in Servers, Send(src, Owner, Request(op, c)), NEW w, w.pc = "rpc", th' = [th EXCEPT ![c] = w],
           UNCHANGED inode, UNCHANGED client, UNCHANGED queue, getting' # {} => op = "size" /\ getting' = {Home[c]}
    PROVE  SettledInv' /\ UNCHANGED <<ref, call, ret>>
<1>0. /\ StateOK /\ NoEmptyNews /\ DOMAIN th = Threads /\ c \in Threads /\ Owner \in Threads /\ call[c] # Idle
      /\ call[c].op = op /\ \A s \in Servers : Agrees(s) /\ s # c
      /\ th[Owner].pc \notin {"truncate", "laminate", "radd"} /\ Owner \in Servers
  BY Started, Has, Zenon
<1>1. UNCHANGED <<ref, call, ret>> /\ \A s \in Servers : SameInode(s) /\ pend'[s] = pend[s]
  BY Zenon DEF client, inode, SameInode
<1>2. Request(op, c) \in Messages /\ Request(op, c).op = op
  BY MessageTypes DEF ClientOps
<1>3. \A d \in Servers, x \in Messages : Carried(d, x)' => Carried(d, x) \/ x.op \notin Broadcasts
  <2>1. \A d \in Servers, x \in Messages : Carried(d, x)' => Carried(d, x) \/ (d = Owner /\ x = Request(op, c))
    BY <1>0, <1>2, SendMoves, Zenon
  <2> QED BY <1>2, <2>1, Zenon DEF Broadcasts
<1>4. th'[c] = w /\ \A t \in Threads : t # c => th'[t] = th[t]
  BY <1>0, Zenon
<1>5. \A s \in Servers : Agrees(s)'
  BY <1>0, <1>1, StillAgrees, Zenon
<1>6. Queries'
  <2>1. \A b \in Clients : b # c => th'[b] = th[b]
    BY <1>4, Zenon DEF Threads
  <2>2. th'[c].pc = "rpc" /\ th'[Owner].pc \notin {"truncate", "laminate", "radd"}
    BY <1>0, <1>4, Zenon
  <2> QED BY <1>0, <1>1, <2>1, <2>2, QueriesOf, Zenon
<1>7. \A s \in Servers : OneSync(s)'
  <2>1. \A s \in Servers : th'[s] = th[s]
    BY <1>0, <1>4, Zenon DEF Threads
  <2> QED BY <1>0, <1>1, <2>1, SyncsStay, Zenon
<1>8. NoEmptyNews'
  BY <1>0, Zenon DEF NoEmptyNews
<1> QED BY <1>0, <1>1, <1>3, <1>5, <1>6, <1>7, <1>8, GoesOn, Zenon

LEMMA ForwardsSettled ==
    ASSUME SettledInv, ThreadInv', NEW c \in Clients, NEW op \in {"truncate", "laminate"}, Forwards(c, op)
    PROVE  SettledInv' /\ UNCHANGED <<ref, call, ret>>
<1>1. Starts(c, op) /\ Home[c] \in Servers /\ getting = {}
  BY Started, Zenon DEF Forwards
<1> DEFINE w == At("rpc", c)
<1>2. w.pc = "rpc" /\ th' = [th EXCEPT ![c] = w] /\ Send(Home[c], Owner, Request(op, c))
  BY Zenon DEF Forwards, At
<1>3. UNCHANGED inode /\ UNCHANGED client /\ UNCHANGED queue /\ getting' = {}
  BY <1>1, Zenon DEF Forwards
<1> HIDE DEF w
<1> QED BY <1>1, <1>2, <1>3, AskSettled, Zenon

LEMMA ReadRemoteSettled ==
    ASSUME SettledInv, ThreadInv', NEW c \in Clients, ReadRemote(c)
    PROVE  SettledInv' /\ UNCHANGED <<ref, call, ret>>
<1>1. Starts(c, "read") /\ Home[c] \in Servers /\ getting = {}
  BY Started, Zenon DEF ReadRemote
<1> DEFINE w == At("rpc", c)
<1>2. w.pc = "rpc" /\ th' = [th EXCEPT ![c] = w] /\ Send(Home[c], Owner, Request("read", c))
  BY Zenon DEF ReadRemote, At
<1>3. UNCHANGED inode /\ UNCHANGED client /\ UNCHANGED queue /\ getting' = {}
  BY <1>1, Zenon DEF ReadRemote
<1> HIDE DEF w
<1> QED BY <1>1, <1>2, <1>3, AskSettled, Zenon

LEMMA SizeRemoteSettled ==
    ASSUME SettledInv, ThreadInv', NEW c \in Clients, SizeRemote(c)
    PROVE  SettledInv' /\ UNCHANGED <<ref, call, ret>>
<1>1. Starts(c, "size") /\ Home[c] \in Servers /\ getting = {}
  BY Started, Zenon DEF SizeRemote
<1> DEFINE w == [pc |-> "rpc", who |-> c, need |-> Home[c] \notin ex]
<1>2. /\ w.pc = "rpc" /\ th' = [th EXCEPT ![c] = w] /\ Send(Home[c], Owner, Request("size", c))
      /\ getting' = getting \cup {Home[c]}
  BY <1>1, Zenon DEF SizeRemote
<1>3. UNCHANGED inode /\ UNCHANGED client /\ UNCHANGED queue
  BY Zenon DEF SizeRemote
<1> HIDE DEF w
<1> QED BY <1>1, <1>2, <1>3, AskSettled, Zenon

\* A thread that answers from the local inode.
LEMMA LocalSettled ==
    ASSUME SettledInv, ThreadInv', NEW c \in Clients, NEW op, Starts(c, op), NEW a, a.ok \in BOOLEAN, Finish(c, a),
           Rightly(ref, call[c], a), a.ok => op \in {"read", "size"}, Rest(c, c),
           UNCHANGED inode, UNCHANGED getting, UNCHANGED queue, UNCHANGED chan
    PROVE  SettledInv' /\ AF!Return(c)
<1>1. /\ ThreadInv /\ NoEmptyNews /\ c \in Threads /\ call[c] # Idle /\ call[c].op = op
      /\ getting' = {} /\ \A s \in Servers : Agrees(s)
  BY Started, Zenon
<1>2. NoEmptyNews' /\ \A d \in Servers, m \in Messages : Carried(d, m)' => Carried(d, m)
  BY <1>1, QuietMail, Zenon DEF NoEmptyNews
<1> QED BY <1>1, <1>2, PlainReturn

LEMMA ReadLocalSettled ==
    ASSUME SettledInv, ThreadInv', NEW c \in Clients, ReadLocal(c)
    PROVE  SettledInv' /\ AF!Return(c)
<1>1. /\ Starts(c, "read") /\ Home[c] \in ex /\ (Home[c] = Owner \/ lam[Home[c]]) /\ Rest(c, c)
      /\ Finish(c, AnswerExt(ext[Home[c]])) /\ UNCHANGED inode /\ UNCHANGED getting /\ UNCHANGED queue /\ UNCHANGED chan
  BY Zenon DEF ReadLocal
<1>2. Home[c] \in Servers /\ Agrees(Home[c]) /\ call[c].op = "read" /\ call[c] \in Calls /\ ref \in Files
  BY <1>1, Started, Zenon
<1>3. ref.exists /\ ext[Home[c]] = ref.ext
  BY <1>1, <1>2, Knows, Zenon
<1> DEFINE a == AnswerExt(ref.ext)
<1>4. a.ok \in BOOLEAN /\ Finish(c, a) /\ Rightly(ref, call[c], a)
  BY <1>1, <1>2, <1>3, AnswerTypes, Right, Zenon
<1> HIDE DEF a
<1> QED BY <1>1, <1>4, LocalSettled

LEMMA SizeLocalSettled ==
    ASSUME SettledInv, ThreadInv', NEW c \in Clients, SizeLocal(c)
    PROVE  SettledInv' /\ AF!Return(c)
<1>1. /\ Starts(c, "size") /\ (Home[c] = Owner \/ (Home[c] \in ex /\ lam[Home[c]])) /\ Rest(c, c)
      /\ Finish(c, LocalSize(Home[c])) /\ UNCHANGED inode /\ UNCHANGED getting /\ UNCHANGED queue /\ UNCHANGED chan
  BY Zenon DEF SizeLocal
<1>2. Home[c] \in Servers /\ Agrees(Home[c]) /\ call[c].op = "size" /\ call[c] \in Calls /\ ref \in Files
  BY <1>1, Started, Zenon
<1> DEFINE a == LocalSize(Home[c])
<1>3. Rightly(ref, call[c], a)
  <2>1. CASE ref.exists
    <3>1. a = AnswerSize(ref.size)
      BY <1>1, <1>2, <2>1, Knows, Zenon DEF LocalSize
    <3> QED BY <1>2, <2>1, <3>1, Right, Zenon
  <2>2. CASE ~ref.exists
    <3>1. a = Answer(FALSE)
      BY <1>1, <1>2, <2>2, Knows, Zenon DEF LocalSize
    <3> QED BY <1>2, <2>2, <3>1, Right, Zenon
  <2> QED BY <2>1, <2>2, Zenon
<1>4. a.ok \in BOOLEAN
  BY LocalSizeOk, Zenon
<1> HIDE DEF a
<1> QED BY <1>1, <1>3, <1>4, LocalSettled, SMTT(30) DEF a

\* Nobody polls in a settled program.
LEMMA SizePollSettled ==
    ASSUME SettledInv, NEW c \in Clients, SizePoll(c)
    PROVE  FALSE
BY DEF SettledInv, Queries, SizePoll, At

LEMMA SizeEndSettled ==
    ASSUME SettledInv, ThreadInv', NEW c \in Clients, SizeEnd(c)
    PROVE  SettledInv' /\ AF!Return(c)
<1>0. th[c].pc = "attr" /\ ThreadInv /\ NoEmptyNews /\ ref \in Files /\ c \in Threads
  BY Has, Working, Zenon DEF SizeEnd, SettledInv
<1>1. call[c] # Idle /\ call[c].op = "size" /\ call[c] \in Calls /\ Home[c] \in Servers
  BY <1>0, Sole, Zenon DEF ThreadInv, ClientOK
<1>2. th[c].ok \in BOOLEAN /\ (th[c].ok <=> ref.exists) /\ (th[c].ok => th[c].size = ref.size)
  BY <1>0, Zenon DEF ThreadInv, ClientOK, SettledInv, Queries
<1>3. \A s \in Servers : Agrees(s)
  BY <1>1, AllAgree, Zenon
<1>4. th[c].ok => Home[c] \in ex
  BY <1>1, <1>2, <1>3, Knows, Zenon
<1>5. getting' = {}
  <2>1. \A b \in Clients : b # c => th[b].pc = "idle"
    BY <1>1, Sole
  <2>2. getting = {} \/ getting = {Home[c]}
    BY <2>1, Zenon DEF SettledInv, Queries
  <2> QED BY <2>2, Zenon DEF SizeEnd
<1>6. UNCHANGED inode /\ UNCHANGED queue /\ UNCHANGED chan /\ Rest(c, c)
  BY <1>4, Zenon DEF SizeEnd
<1> DEFINE a == IF th[c].ok THEN AnswerSize(th[c].size) ELSE Answer(FALSE)
<1>7. Finish(c, a)
  BY ZenonT(30) DEF SizeEnd
<1>8. Rightly(ref, call[c], a) /\ a.ok \in BOOLEAN
  <2>1. CASE th[c].ok
    <3>1. a = AnswerSize(ref.size)
      BY <1>2, <2>1, Zenon
    <3> QED BY <1>0, <1>1, <1>2, <2>1, <3>1, Right, AnswerTypes, Zenon
  <2>2. CASE ~th[c].ok
    <3>1. a = Answer(FALSE)
      BY <2>2, Zenon
    <3> QED BY <1>0, <1>1, <1>2, <2>2, <3>1, Right, AnswerTypes, Zenon
  <2> QED BY <2>1, <2>2, Zenon
<1> HIDE DEF a
<1>9. NoEmptyNews' /\ \A d \in Servers, m \in Messages : Carried(d, m)' => Carried(d, m)
  BY <1>0, <1>6, QuietMail, Zenon DEF NoEmptyNews
<1> QED BY <1>0, <1>1, <1>3, <1>5, <1>6, <1>7, <1>8, <1>9, PlainReturn

\* A file that is made: the servers agree or are told.
LEMMA MadeHere ==
    ASSUME SettledInv, NEW c \in Clients, call[c] # Idle, call[c].op = "create", ~ref.exists, IsEffect(ref, call[c], ref'),
           NewInode(Owner, FALSE, 0), Broadcast(Owner, CreateMsg),
           queue' \in [Servers -> Seq(Messages)], \A d \in Servers, x \in Messages : CarriedIn(chan, queue', d, x) => Carried(d, x)
    PROVE  Settling' /\ Within(ref'.ext, ref'.size)
<1>0. StateOK /\ Owner \in Servers /\ InCall(c)
  BY Has, Sole, Zenon
<1>1. ref'.exists /\ ~ref'.lam /\ ref'.size = 0 /\ ref'.ext = Empty /\ ref'.lam \in BOOLEAN
  BY Zenon DEF IsEffect, Files
<1>2. /\ Owner \in ex' /\ lam'[Owner] = FALSE /\ size'[Owner] = 0 /\ ext'[Owner] = Empty
      /\ \A d \in Servers : d # Owner => SameInode(d)
  BY <1>0, NewInodeIs, Zenon
<1>3. Agrees(Owner)'
  BY <1>1, <1>2, Zenon DEF Agrees, OwnerAgrees
<1>4. CreateMsg \in Messages /\ CreateMsg.op = "b_create" /\ CreateMsg.op \in Broadcasts
  BY MessageTypes, Zenon DEF Broadcasts
<1>5. ASSUME NEW d \in Servers, d # Owner PROVE Settles(d, CreateMsg)'
  <2>1. d \in ex' => Agrees(d)'
    <3> SUFFICES ASSUME d \in ex' PROVE Agrees(d)'
      BY Zenon
    <3>1. SameInode(d) /\ d \in ex
      BY <1>2, <1>5, Zenon DEF SameInode
    <3>2. ~Agrees(d)
      BY <3>1, Knows, Zenon
    <3>3. Ahead(c, d)
      BY <1>0, <3>2, Zenon DEF InCall
    <3>4. ~lam[d] /\ ext[d] = Empty
      BY <3>3, Zenon DEF Ahead, AheadCreate, AheadSync, AheadLaminate
    <3>5. Covers(ext'[d], ref'.ext) /\ ~lam'[d]
      BY <3>1, <3>4, EmptyCovered, Zenon DEF SameInode
    <3> QED BY <1>1, <1>5, <3>5, Zenon DEF Agrees, CopyAgrees, Behind
  <2> QED BY <1>1, <1>4, <2>1, Zenon DEF Settles
<1>6. \A d \in Servers, x \in Messages : Carried(d, x)' => Carried(d, x) \/ (d # Owner /\ x = CreateMsg)
  BY <1>0, <1>4, Tells, Zenon
<1>7. Settling'
  BY <1>0, <1>3, <1>4, <1>5, <1>6, NewsEnd, Zenon
<1> QED BY <1>1, <1>7, EmptyCovered, Zenon

LEMMA CreateSettled ==
    ASSUME SettledInv, ThreadInv', NEW c \in Clients, Create(c)
    PROVE  SettledInv' /\ (AF!Return(c) \/ UNCHANGED <<ref, call, ret>>)
<1>0. Starts(c, "create") /\ UNCHANGED getting /\ UNCHANGED queue
  BY Zenon DEF Create
<1>1. /\ StateOK /\ NoEmptyNews /\ DOMAIN th = Threads /\ c \in Threads /\ Owner \in Threads /\ ref \in Files
      /\ call[c].op = "create" /\ call[c] # Idle /\ call[c] \in Calls /\ getting = {} /\ Home[c] \in Servers
      /\ \A s \in Servers : Agrees(s) /\ s # c
      /\ th[Owner].pc \notin {"truncate", "laminate", "radd"} /\ Owner \in Servers
  BY <1>0, Started, Has, Zenon
<1>2. getting' = {} /\ NoEmptyNews' /\ queue' \in [Servers -> Seq(Messages)] /\ \A d \in Servers, x \in Messages : CarriedIn(chan, queue', d, x) => Carried(d, x)
  BY <1>0, <1>1, Zenon DEF NoEmptyNews, StateOK, QueueOK, Carried
<1>3. CASE Home[c] \in ex
  <2> DEFINE a == Answer(FALSE)
  <2>1. Finish(c, a) /\ Rest(c, c) /\ UNCHANGED inode /\ UNCHANGED chan
    BY <1>3, Zenon DEF Create
  <2>2. ref.exists
    BY <1>1, <1>3, Knows, Zenon
  <2>3. a.ok \in BOOLEAN /\ ~a.ok /\ Rightly(ref, call[c], a)
    BY <1>1, <2>2, AnswerTypes, Right, Zenon
  <2> HIDE DEF a
  <2> QED BY <1>0, <2>1, <2>3, LocalSettled
<1>4. CASE Home[c] \notin ex /\ Home[c] = Owner
  <2> DEFINE a == Answer(TRUE)
  <2>1. Finish(c, a) /\ Rest(c, c) /\ NewInode(Owner, FALSE, 0) /\ Broadcast(Owner, CreateMsg)
    BY <1>4, Zenon DEF Create
  <2>2. ~ref.exists
    BY <1>1, <1>4, Knows, Zenon
  <2>0. a.ok = TRUE
    BY AnswerTypes, Zenon
  <2>3. a.ok \in BOOLEAN /\ Rightly(ref, call[c], a)
    BY <1>1, <2>2, AnswerTypes, Right, Zenon
  <2> HIDE DEF a
  <2>4. IsEffect(ref, call[c], ref')
    BY <1>1, <2>0, <2>1, Succeeds, Zenon
  <2>5. Settling' /\ Within(ref'.ext, ref'.size)
    BY <1>1, <1>2, <2>1, <2>2, <2>4, MadeHere, Zenon
  <2>6. \A s \in Servers : pend'[s] = pend[s] \/ pend'[s] = NoPend
    BY <1>1, <2>1, NewInodeIs, Zenon
  <2>7. call[c] # Idle /\ Finish(c, a) /\ c \in Threads /\ Rest(c, c) /\ getting' = {} /\ NoEmptyNews'
    BY <1>1, <1>2, <2>1, Zenon
  <2> QED BY <2>3, <2>5, <2>6, <2>7, AnswerEnd, SMTT(30)
<1>5. CASE Home[c] \notin ex /\ Home[c] # Owner
  <2> DEFINE w == At("rpc", c)
             h == Home[c]
  <2>1. /\ NewInode(h, FALSE, 0) /\ Send(h, Owner, Request("create", c)) /\ th' = [th EXCEPT ![c] = w]
        /\ UNCHANGED client /\ w.pc = "rpc"
    BY <1>5, Zenon DEF Create, At
  <2> HIDE DEF w
  <2>2. ~ref.exists
    BY <1>1, <1>5, Knows, Zenon
  <2>3. th'[c] = w /\ \A t \in Threads : t # c => th'[t] = th[t]
    BY <1>1, <2>1, Zenon
  <2>4. call' = call /\ ref' = ref /\ ret' = ret
    BY <2>1, Zenon DEF client
  <2>5. /\ h \in ex' /\ lam'[h] = FALSE /\ ext'[h] = Empty /\ \A d \in Servers : d # h => SameInode(d)
        /\ \A d \in Servers : pend'[d] = pend[d] \/ pend'[d] = NoPend
    BY <1>1, <2>1, NewInodeIs, Zenon
  <2>6. \A s \in Servers : Agrees(s)' \/ Ahead(c, s)'
    <3> SUFFICES ASSUME NEW s \in Servers PROVE Agrees(s)' \/ Ahead(c, s)'
      BY Zenon
    <3>1. CASE s = h
      BY <1>1, <1>5, <2>1, <2>3, <2>4, <2>5, <3>1, Zenon DEF Ahead, AheadCreate
    <3>2. CASE s # h
      BY <1>1, <2>4, <2>5, <3>2, StillAgrees, Zenon
    <3> QED BY <3>1, <3>2, Zenon
  <2>7. \A d \in Servers, x \in Messages : Carried(d, x)' => Carried(d, x) \/ x.op \notin Broadcasts
    <3>1. Request("create", c) \in Messages /\ Request("create", c).op = "create"
      BY MessageTypes DEF ClientOps
    <3>2. \A d \in Servers, x \in Messages : Carried(d, x)' => Carried(d, x) \/ (d = Owner /\ x = Request("create", c))
      BY <1>0, <1>1, <2>1, <3>1, SendMoves, Zenon
    <3> QED BY <3>1, <3>2, Zenon DEF Broadcasts
  <2>8. Queries'
    <3>1. \A b \in Clients : b # c => th'[b] = th[b]
      BY <2>3, Zenon DEF Threads
    <3>2. th'[c].pc = "rpc" /\ th'[Owner].pc \notin {"truncate", "laminate", "radd"} /\ getting' = {}
      BY <1>0, <1>1, <2>1, <2>3, Zenon
    <3> QED BY <1>1, <2>4, <3>1, <3>2, QueriesOf, Zenon
  <2>9. \A s \in Servers : OneSync(s)'
    <3>1. \A s \in Servers : th'[s] = th[s]
      BY <1>1, <2>3, Zenon DEF Threads
    <3> QED BY <1>1, <2>4, <2>5, <3>1, SyncsStay, Zenon
  <2> QED BY <1>1, <1>2, <1>5, <2>2, <2>4, <2>6, <2>7, <2>8, <2>9, GoesOn, Zenon
<1> QED BY <1>3, <1>4, <1>5, Zenon

LEMMA UnlinkSettled ==
    ASSUME SettledInv, ThreadInv', NEW c \in Clients, Unlink(c)
    PROVE  SettledInv' /\ AF!Return(c)
<1> DEFINE a == Answer(TRUE)
           m == [op |-> "b_unlink"]
           h == Home[c]
<1>0. /\ Starts(c, "unlink") /\ UNCHANGED getting /\ UNCHANGED queue /\ Destroy(h)
      /\ Broadcast(h, m) /\ Finish(c, a) /\ Rest(c, c)
  BY Zenon DEF Unlink
<1>1. /\ StateOK /\ NoEmptyNews /\ c \in Threads /\ call[c].op = "unlink" /\ call[c] # Idle /\ call[c] \in Calls
      /\ ref \in Files /\ getting = {} /\ h \in Servers
  BY <1>0, Started, Zenon
<1>2. getting' = {} /\ NoEmptyNews' /\ queue' \in [Servers -> Seq(Messages)] /\ \A d \in Servers, x \in Messages : CarriedIn(chan, queue', d, x) => Carried(d, x)
  BY <1>0, <1>1, Zenon DEF NoEmptyNews, StateOK, QueueOK, Carried
<1>11. a.ok = TRUE
  BY AnswerTypes, Zenon
<1>3. a.ok \in BOOLEAN /\ Rightly(ref, call[c], a)
  BY <1>1, AnswerTypes, Right, Zenon
<1>4. m \in Messages /\ m.op = "b_unlink" /\ m.op \in Broadcasts
  BY MessageTypes, Zenon DEF Broadcasts
<1> HIDE DEF a, m
<1>5. ~ref'.exists /\ ref'.ext = Empty /\ ref'.size = 0
  <2>1. IsEffect(ref, call[c], ref')
    BY <1>0, <1>1, <1>11, Succeeds, Zenon
  <2> QED BY <1>1, <2>1, Zenon DEF IsEffect
<1>6. h \notin ex' /\ \A d \in Servers : pend'[d] = pend[d] \/ pend'[d] = NoPend
  BY <1>0, <1>1, DestroyIs, Zenon
<1>7. Agrees(h)'
  BY <1>5, <1>6, Zenon DEF Agrees, OwnerAgrees, CopyAgrees
<1>8. \A d \in Servers : Settles(d, m)'
  BY <1>4, <1>5, Zenon DEF Settles
<1>9. \A d \in Servers, x \in Messages : Carried(d, x)' => Carried(d, x) \/ (d # h /\ x = m)
  BY <1>0, <1>1, <1>2, <1>4, Tells, Zenon
<1>10. Settling' /\ Within(ref'.ext, ref'.size)
  BY <1>0, <1>1, <1>4, <1>5, <1>7, <1>8, <1>9, NewsEnd, EmptyCovered, Zenon
<1>12. /\ call[c] # Idle /\ Finish(c, a) /\ c \in Threads /\ Rest(c, c) /\ getting' = {} /\ NoEmptyNews'
       /\ \A s \in Servers : pend'[s] = pend[s] \/ pend'[s] = NoPend
  BY <1>0, <1>1, <1>2, <1>6, Zenon
<1> QED BY <1>3, <1>10, <1>12, AnswerEnd, SMTT(30)

\* The RM thread adds its sync to the pending ones.
LEMMA SyncSettled ==
    ASSUME SettledInv, ThreadInv', NEW c \in Clients, Sync(c)
    PROVE  SettledInv' /\ (AF!Return(c) \/ UNCHANGED <<ref, call, ret>>)
<1> DEFINE h == Home[c]
<1>0. Starts(c, "sync") /\ UNCHANGED <<ex, lam, size, ext, getting, queue, chan>>
  BY Zenon DEF Sync
<1>1. /\ StateOK /\ NoEmptyNews /\ DOMAIN th = Threads /\ c \in Threads /\ Owner \in Threads /\ ref \in Files
      /\ call[c].op = "sync" /\ call[c] # Idle /\ call[c] \in Calls /\ getting = {} /\ h \in Servers
      /\ \A s \in Servers : Agrees(s) /\ s # c
      /\ \A s \in Servers : pend[s] = NoPend /\ th[s].pc \notin {"add", "addrpc"}
      /\ th[Owner].pc \notin {"truncate", "laminate", "radd"} /\ Owner \in Servers
  BY <1>0, Started, Has, Zenon
<1>2. CASE h \notin ex \/ lam[h]
  <2> DEFINE a == Answer(FALSE)
  <2>1. Finish(c, a) /\ Rest(c, c) /\ UNCHANGED pend
    BY <1>2, Zenon DEF Sync
  <2>2. ~ref.exists \/ ref.lam
    BY <1>1, <1>2, Knows, Zenon
  <2>3. a.ok \in BOOLEAN /\ ~a.ok /\ Rightly(ref, call[c], a)
    BY <1>1, <2>2, AnswerTypes, Right, Zenon
  <2>4. UNCHANGED inode /\ UNCHANGED queue /\ UNCHANGED chan /\ UNCHANGED getting
    BY <1>0, <2>1, Zenon DEF inode
  <2> HIDE DEF a
  <2> QED BY <1>0, <2>1, <2>3, <2>4, LocalSettled
<1>3. CASE h \in ex /\ ~lam[h]
  <2> DEFINE w == At("sync", c)
             p == [who |-> pend[h].who \cup {c}, ext |-> Write(pend[h].ext, call[c].first, call[c].last, call[c].data)]
  <2>1. /\ pend' = [pend EXCEPT ![h] = p] /\ th' = [th EXCEPT ![c] = w]
        /\ UNCHANGED <<call, ret, ref>> /\ w.pc = "sync"
    BY <1>3, Zenon DEF Sync, At
  <2>2. p.who = {c} /\ p.ext = Written(call[c])
    BY <1>1 DEF NoPend, Written
  <2> HIDE DEF w, p
  <2>4. th'[c] = w /\ \A t \in Threads : t # c => th'[t] = th[t]
    BY <1>1, <2>1, Zenon
  <2>5. call' = call /\ ref' = ref /\ ret' = ret
    BY <2>1, Zenon
  <2>6. pend'[h] = p /\ \A s \in Servers : s # h => pend'[s] = pend[s]
    BY <1>1, <2>1, Zenon DEF StateOK, InodeOK
  <2>7. \A s \in Servers : Agrees(s)'
    <3>1. \A s \in Servers : SameInode(s)
      BY <1>0, Zenon DEF SameInode
    <3> QED BY <1>1, <2>5, <3>1, StillAgrees, Zenon
  <2>8. NoEmptyNews' /\ \A d \in Servers, x \in Messages : Carried(d, x)' => Carried(d, x)
    BY <1>0, <1>1, Has, QuietMail, Zenon DEF NoEmptyNews
  <2>10. Queries'
    <3>1. \A b \in Clients : b # c => th'[b] = th[b]
      BY <2>4, Zenon DEF Threads
    <3>2. th'[c].pc = "sync" /\ th'[Owner].pc \notin {"truncate", "laminate", "radd"} /\ getting' = {}
      BY <1>0, <1>1, <2>1, <2>4, Zenon
    <3> QED BY <1>1, <2>5, <3>1, <3>2, QueriesOf, Zenon
  <2>11. ASSUME NEW s \in Servers PROVE OneSync(s)'
    <3>1. th'[s] = th[s] /\ th[s].pc \notin {"add", "addrpc"}
      BY <1>1, <2>4, Zenon DEF Threads
    <3>2. CASE s = h
      BY <1>0, <1>3, <2>2, <2>5, <2>6, <3>1, <3>2, Zenon DEF OneSync
    <3>3. CASE s # h
      <4>1. pend'[s] = NoPend /\ NoPend.who = {}
        BY <1>1, <2>6, <3>3, Zenon DEF NoPend
      <4> QED BY <3>1, <4>1, Zenon DEF OneSync
    <3> QED BY <3>2, <3>3, Zenon
  <2> QED BY <1>1, <2>5, <2>7, <2>8, <2>10, <2>11, GoesOn, Zenon
<1> QED BY <1>2, <1>3, Zenon

------------------------------------------------------------------------------
(* The answers of the owner *)

\* The owner has taken a request of client c.
LEMMA Asked ==
    ASSUME SettledInv, NEW c, NEW op \in ClientOps, Serves(Owner, op), Head(queue[Owner]).who = c
    PROVE  /\ c \in Clients /\ th[c].pc = "rpc" /\ call[c].op = op /\ call[c] # Idle /\ call[c] \in Calls
           /\ th[Owner] = Ready /\ th[Owner].pc = "idle" /\ Home[c] \in Servers
           /\ StateOK /\ ref \in Files /\ DOMAIN th = Threads /\ c \in Threads /\ Owner \in Threads /\ Owner \in Servers
           /\ NoEmptyNews' /\ queue' \in [Servers -> Seq(Messages)]
           /\ \A d \in Servers, x \in Messages : CarriedIn(chan, queue', d, x) => Carried(d, x)
           /\ op # "size" => getting = {}
           /\ \A s \in Servers : s # c
<1>1. ThreadInv /\ StateOK /\ NoEmptyNews /\ ref \in Files /\ DOMAIN th = Threads /\ Owner \in Threads /\ Owner \in Servers
  BY Has, Parts, Zenon DEF SettledInv
<1>2. /\ c \in Clients /\ th[c].pc = "rpc" /\ call[c].op = op /\ call[c] # Idle /\ th[Owner] = Ready
      /\ \A d \in Servers, x \in Messages : CarriedIn(chan, queue', d, x) => Carried(d, x)
      /\ queue' \in [Servers -> Seq(Messages)]
  BY <1>1, ClientServed, Zenon
<1>3. NoEmptyNews'
  BY <1>1, ServeNoEmpty, Zenon
<1>4. call[c] \in Calls /\ Home[c] \in Servers
  BY <1>2, Sole, Zenon
<1>5. op # "size" => getting = {}
  BY <1>2, NoGetting, Zenon
<1>6. c \in Threads /\ \A s \in Servers : s # c
  BY <1>1, <1>2, Working, Zenon
<1> QED BY <1>1, <1>2, <1>3, <1>4, <1>5, <1>6, ReadyIs, Zenon

\* The owner answers without a change.
LEMMA OwnerAnswers ==
    ASSUME SettledInv, ThreadInv', NEW c, NEW op \in ClientOps, Serves(Owner, op), Head(queue[Owner]).who = c,
           \A s \in Servers : Agrees(s), op # "size", UNCHANGED getting,
           NEW a, a.ok \in BOOLEAN, Finish(c, a), Rightly(ref, call[c], a), a.ok => op = "read",
           NEW t \in {c, Owner}, Rest(t, c), UNCHANGED inode, UNCHANGED chan
    PROVE  SettledInv' /\ AF!Return(c)
<1>1. /\ c \in Clients /\ call[c] # Idle /\ call[c].op = op /\ t \in Threads /\ getting = {} /\ NoEmptyNews'
      /\ \A d \in Servers, x \in Messages : CarriedIn(chan, queue', d, x) => Carried(d, x)
  BY Asked, Zenon
<1>2. getting' = {} /\ (a.ok => call[c].op \in {"read", "size"})
  BY <1>1, Zenon
<1>3. \A d \in Servers, x \in Messages : Carried(d, x)' => Carried(d, x)
  BY <1>1, Zenon DEF Carried
<1> QED BY <1>1, <1>2, <1>3, PlainReturn, SMTT(30)

LEMMA ReadAtOwnerSettled ==
    ASSUME SettledInv, ThreadInv', NEW c \in Clients, ReadAtOwner(c)
    PROVE  SettledInv' /\ AF!Return(c)
<1> DEFINE a == IF Owner \in ex THEN AnswerExt(ext[Owner]) ELSE Answer(FALSE)
<1>1. /\ Serves(Owner, "read") /\ Head(queue[Owner]).who = c /\ Finish(c, a) /\ Rest(c, c)
      /\ UNCHANGED inode /\ UNCHANGED getting /\ UNCHANGED chan /\ "read" \in ClientOps
  BY Zenon DEF ReadAtOwner, ClientOps
<1>2. /\ call[c] # Idle /\ call[c].op = "read" /\ call[c] \in Calls /\ ref \in Files /\ Owner \in Servers
  BY <1>1, Asked, Zenon
<1>3. \A s \in Servers : Agrees(s)
  BY <1>2, AllAgree, Zenon
<1>4. Rightly(ref, call[c], a) /\ a.ok \in BOOLEAN
  <2>1. CASE ref.exists
    <3>1. a = AnswerExt(ref.ext)
      BY <1>2, <1>3, <2>1, Knows, Zenon
    <3> QED BY <1>2, <2>1, <3>1, Right, AnswerTypes, Zenon
  <2>2. CASE ~ref.exists
    <3>1. a = Answer(FALSE)
      BY <1>2, <1>3, <2>2, Knows, Zenon
    <3> QED BY <1>2, <2>2, <3>1, Right, AnswerTypes, Zenon
  <2> QED BY <2>1, <2>2, Zenon
<1> HIDE DEF a
<1> QED BY <1>1, <1>3, <1>4, OwnerAnswers

LEMMA SizeAtOwnerSettled ==
    ASSUME SettledInv, ThreadInv', NEW c \in Clients, SizeAtOwner(c)
    PROVE  SettledInv' /\ UNCHANGED <<ref, call, ret>>
<1> DEFINE w == [pc |-> "attr", who |-> c, need |-> th[c].need, ok |-> Owner \in ex, lam |-> lam[Owner],
                 size |-> size[Owner]]
<1>0. /\ Serves(Owner, "size") /\ Head(queue[Owner]).who = c /\ th' = [th EXCEPT ![c] = w] /\ "size" \in ClientOps
      /\ UNCHANGED inode /\ UNCHANGED getting /\ UNCHANGED chan /\ UNCHANGED client
  BY Zenon DEF SizeAtOwner, ClientOps
<1>1. w.pc = "attr" /\ (w.ok <=> Owner \in ex) /\ w.size = size[Owner]
  BY Zenon
<1> HIDE DEF w
<1>2. /\ th[c].pc = "rpc" /\ call[c] # Idle /\ call[c].op = "size" /\ Owner \in Servers /\ DOMAIN th = Threads
      /\ c \in Threads /\ Owner \in Threads /\ NoEmptyNews' /\ th[Owner].pc = "idle"
      /\ \A d \in Servers, x \in Messages : CarriedIn(chan, queue', d, x) => Carried(d, x)
      /\ \A s \in Servers : s # c
  BY <1>0, Asked, Zenon
<1>3. \A s \in Servers : Agrees(s)
  BY <1>2, AllAgree, Zenon
<1>4. call' = call /\ ref' = ref /\ ret' = ret /\ \A s \in Servers : SameInode(s) /\ pend'[s] = pend[s]
  BY <1>0, Zenon DEF client, inode, SameInode
<1>5. th'[c] = w /\ \A t \in Threads : t # c => th'[t] = th[t]
  BY <1>0, <1>2, Zenon
<1>6. \A s \in Servers : Agrees(s)'
  BY <1>3, <1>4, StillAgrees, Zenon
<1>7. Queries'
  <2>1. \A b \in Clients : b # c => th'[b] = th[b]
    BY <1>5, Zenon DEF Threads
  <2>2. th'[c].pc = "attr" /\ th'[Owner].pc = "idle"
    BY <1>1, <1>2, <1>5, Zenon
  <2>3. (th'[c].ok <=> ref'.exists) /\ (th'[c].ok => th'[c].size = ref'.size)
    BY <1>1, <1>2, <1>3, <1>4, <1>5, Knows, Zenon
  <2>4. getting' # {} => getting' = {Home[c]}
    <3>1. \A b \in Clients : b # c => th[b].pc = "idle"
      BY <1>2, Sole, Zenon
    <3> QED BY <1>0, <3>1, Zenon DEF SettledInv, Queries
  <2> QED BY <1>2, <1>4, <2>1, <2>2, <2>3, <2>4, QueriesOf, Zenon
<1>8. \A s \in Servers : OneSync(s)'
  <2>1. \A s \in Servers : th'[s] = th[s]
    BY <1>2, <1>5, Zenon DEF Threads
  <2> QED BY <1>2, <1>4, <2>1, SyncsStay, Zenon
<1>9. \A d \in Servers, x \in Messages : Carried(d, x)' => Carried(d, x)
  BY <1>0, <1>2, Zenon DEF Carried
<1> QED BY <1>2, <1>4, <1>6, <1>7, <1>8, <1>9, GoesOn, Zenon

LEMMA CreateAtOwnerSettled ==
    ASSUME SettledInv, ThreadInv', NEW c \in Clients, CreateAtOwner(c)
    PROVE  SettledInv' /\ AF!Return(c)
<1>0. Serves(Owner, "create") /\ Head(queue[Owner]).who = c /\ Rest(c, c) /\ UNCHANGED getting /\ "create" \in ClientOps
  BY Zenon DEF CreateAtOwner, ClientOps
<1>1. /\ th[c].pc = "rpc" /\ call[c].op = "create" /\ call[c] # Idle /\ call[c] \in Calls /\ StateOK /\ ref \in Files
      /\ c \in Threads /\ NoEmptyNews' /\ queue' \in [Servers -> Seq(Messages)] /\ Owner \in Servers /\ getting' = {}
      /\ \A d \in Servers, x \in Messages : CarriedIn(chan, queue', d, x) => Carried(d, x)
  BY <1>0, Asked
<1>2. ~ref.exists /\ Owner \notin ex
  <2>1. ~ref.exists
    BY <1>1, Sole, Zenon DEF InCall
  <2>2. OwnerAgrees
    BY <1>1, OwnerAgreed, Zenon
  <2> QED BY <2>1, <2>2, Zenon DEF OwnerAgrees
<1> DEFINE a == Answer(TRUE)
<1>3. NewInode(Owner, FALSE, 0) /\ Broadcast(Owner, CreateMsg) /\ Finish(c, a)
  BY <1>2, Zenon DEF CreateAtOwner
<1>4. a.ok = TRUE
  BY AnswerTypes, Zenon
<1>5. a.ok \in BOOLEAN /\ Rightly(ref, call[c], a)
  BY <1>1, <1>2, AnswerTypes, Right, Zenon
<1> HIDE DEF a
<1>6. IsEffect(ref, call[c], ref')
  BY <1>1, <1>3, <1>4, Succeeds, Zenon
<1>7. Settling' /\ Within(ref'.ext, ref'.size)
  BY <1>1, <1>2, <1>3, <1>6, MadeHere, Zenon
<1>8. \A s \in Servers : pend'[s] = pend[s] \/ pend'[s] = NoPend
  BY <1>1, <1>3, NewInodeIs, Zenon
<1>9. call[c] # Idle /\ Finish(c, a) /\ c \in Threads /\ Rest(c, c) /\ getting' = {} /\ NoEmptyNews'
  BY <1>0, <1>1, <1>3, Zenon
<1> QED BY <1>5, <1>7, <1>8, <1>9, AnswerEnd, SMTT(30)

------------------------------------------------------------------------------
(* How truncations and laminations begin *)

\* The owner begins to execute them, in the RM thread of c or in its service manager.
LEMMA Begun ==
    ASSUME SettledInv, NEW t, NEW c \in Clients, NEW op \in {"truncate", "laminate"}, AtOwner(t, op, c)
    PROVE  /\ t \in {c, Owner} /\ t \in Threads /\ c \in Threads /\ Owner \in Threads /\ Owner \in Servers
           /\ call[c] # Idle /\ call[c].op = op /\ call[c] \in Calls /\ th[c].pc \in {"called", "rpc"}
           /\ t = c => th[c].pc = "called"
           /\ StateOK /\ ref \in Files /\ DOMAIN th = Threads /\ NoEmptyNews' /\ getting = {}
           /\ \A d \in Servers, x \in Messages : CarriedIn(chan, queue', d, x) => Carried(d, x)
           /\ th[Owner].pc \notin {"truncate", "laminate", "radd"}
           /\ \A s \in Servers : s # c
<1>1. CASE t = c /\ Starts(c, op) /\ UNCHANGED queue
  <2>1. /\ StateOK /\ NoEmptyNews /\ DOMAIN th = Threads /\ c \in Threads /\ Owner \in Threads /\ Owner \in Servers
        /\ th[c].pc = "called" /\ call[c].op = op /\ call[c] # Idle /\ call[c] \in Calls /\ ref \in Files
        /\ getting = {} /\ th[Owner].pc \notin {"truncate", "laminate", "radd"} /\ \A s \in Servers : s # c
    BY <1>1, Started, Has, Zenon
  <2>2. NoEmptyNews' /\ \A d \in Servers, x \in Messages : CarriedIn(chan, queue', d, x) => Carried(d, x)
    BY <1>1, <2>1, Zenon DEF NoEmptyNews, Carried
  <2> QED BY <1>1, <2>1, <2>2, Zenon
<1>2. CASE t = Owner /\ Serves(Owner, op) /\ Head(queue[Owner]).who = c
  <2>1. op \in ClientOps /\ op # "size"
    BY Zenon DEF ClientOps
  <2>2. /\ th[c].pc = "rpc" /\ call[c].op = op /\ call[c] # Idle /\ call[c] \in Calls
        /\ th[Owner].pc = "idle"
        /\ StateOK /\ ref \in Files /\ DOMAIN th = Threads /\ c \in Threads /\ Owner \in Threads /\ Owner \in Servers
        /\ NoEmptyNews' /\ getting = {} /\ \A s \in Servers : s # c
        /\ \A d \in Servers, x \in Messages : CarriedIn(chan, queue', d, x) => Carried(d, x)
    BY <1>2, <2>1, Asked, Zenon
  <2> QED BY <1>2, <2>2, Zenon
<1> QED BY <1>1, <1>2, Zenon DEF AtOwner

\* The thread t goes on, for client c.
LEMMA BegunSettled ==
    ASSUME SettledInv, ThreadInv', NEW t, NEW c \in Clients, NEW op \in {"truncate", "laminate"}, AtOwner(t, op, c),
           NEW w, w.pc = op, th' = [th EXCEPT ![t] = w], UNCHANGED client, UNCHANGED getting, UNCHANGED chan, UNCHANGED pend,
           op = "truncate" => w.old = ref.size, op = "laminate" => Owner \in ex' /\ lam'[Owner],
           \A s \in Servers : Agrees(s)' \/ Ahead(c, s)'
    PROVE  SettledInv' /\ UNCHANGED <<ref, call, ret>>
<1>1. /\ t \in {c, Owner} /\ t \in Threads /\ c \in Threads /\ Owner \in Threads /\ call[c] # Idle /\ call[c].op = op
      /\ th[c].pc \in {"called", "rpc"} /\ DOMAIN th = Threads /\ NoEmptyNews' /\ getting = {}
      /\ \A d \in Servers, x \in Messages : CarriedIn(chan, queue', d, x) => Carried(d, x)
      /\ th[Owner].pc \notin {"truncate", "laminate", "radd"} /\ Owner \in Servers /\ \A s \in Servers : s # c
  BY Begun
<1>2. call' = call /\ ref' = ref /\ ret' = ret
  BY Zenon DEF client
<1>3. th'[t] = w /\ \A r \in Threads : r # t => th'[r] = th[r]
  BY <1>1, Zenon
<1>4. Queries'
  <2>1. \A b \in Clients : b # c => th'[b] = th[b]
    BY <1>1, <1>3, DisjointAssumption, Zenon DEF Threads
  <2>2. th'[c].pc \in {"called", "rpc", op} /\ th'[Owner].pc # "radd" /\ getting' = {}
    BY <1>1, <1>3, Zenon
  <2>3. \A r \in {c, Owner} : th'[r].pc = "truncate" => th'[r].old = ref'.size
    BY <1>1, <1>2, <1>3, Zenon
  <2>4. \A r \in {c, Owner} : th'[r].pc = "laminate" => Owner \in ex' /\ lam'[Owner]
    BY <1>1, <1>3, Zenon
  <2> QED BY <1>1, <1>2, <2>1, <2>2, <2>3, <2>4, QueriesOf, Zenon
<1>5. \A s \in Servers : OneSync(s)'
  <2>1. \A s \in Servers : th'[s] = th[s] \/ th'[s].pc \notin {"add", "addrpc"}
    BY <1>1, <1>3, Zenon DEF Threads
  <2> QED BY <1>1, <1>2, <2>1, SyncsStay, Zenon
<1>6. \A d \in Servers, x \in Messages : Carried(d, x)' => Carried(d, x)
  BY <1>1, Zenon DEF Carried
<1> QED BY <1>1, <1>2, <1>4, <1>5, <1>6, GoesOn, Zenon

\* There is no file.
LEMMA BegunFails ==
    ASSUME SettledInv, ThreadInv', NEW t, NEW c \in Clients, NEW op \in {"truncate", "laminate"}, AtOwner(t, op, c),
           Owner \notin ex, Finish(c, Answer(FALSE)), Rest(t, c), UNCHANGED inode, UNCHANGED getting, UNCHANGED chan
    PROVE  SettledInv' /\ AF!Return(c)
<1>1. /\ t \in Threads /\ Owner \in Servers /\ call[c] # Idle /\ call[c].op = op /\ call[c] \in Calls /\ ref \in Files
      /\ NoEmptyNews' /\ getting' = {} /\ \A d \in Servers, x \in Messages : CarriedIn(chan, queue', d, x) => Carried(d, x)
  BY Begun
<1>2. \A s \in Servers : Agrees(s)
  BY <1>1, Sole, Zenon DEF InCall, Ahead, AheadCreate, AheadSync, AheadLaminate
<1>3. ~ref.exists
  BY <1>1, <1>2, Knows, Zenon
<1> DEFINE a == Answer(FALSE)
<1>4. a.ok \in BOOLEAN /\ ~a.ok /\ Rightly(ref, call[c], a) /\ Finish(c, a)
  BY <1>1, <1>3, AnswerTypes, Right, ZenonT(30)
<1> HIDE DEF a
<1>5. \A d \in Servers, x \in Messages : Carried(d, x)' => Carried(d, x)
  BY <1>1, Zenon DEF Carried
<1> QED BY <1>1, <1>2, <1>4, <1>5, PlainReturn

LEMMA TruncateSettled ==
    ASSUME SettledInv, ThreadInv', NEW t, NEW c \in Clients, Truncate(t, c)
    PROVE  SettledInv' /\ (AF!Return(c) \/ UNCHANGED <<ref, call, ret>>)
<1>0. AtOwner(t, "truncate", c) /\ UNCHANGED inode /\ UNCHANGED getting /\ UNCHANGED chan
  BY Zenon DEF Truncate
<1>1. CASE Owner \notin ex
  <2>1. Finish(c, Answer(FALSE)) /\ Rest(t, c)
    BY <1>1, Zenon DEF Truncate
  <2> QED BY <1>0, <1>1, <2>1, BegunFails, Zenon
<1>2. CASE Owner \in ex
  <2> DEFINE w == [pc |-> "truncate", who |-> c, old |-> size[Owner]]
  <2>1. th' = [th EXCEPT ![t] = w] /\ UNCHANGED client
    BY <1>2, Zenon DEF Truncate
  <2>2. w.pc = "truncate" /\ w.old = size[Owner]
    BY Zenon
  <2> HIDE DEF w
  <2>3. Owner \in Servers /\ call[c] # Idle /\ call[c].op = "truncate"
    BY <1>0, Begun, Zenon
  <2>4. \A s \in Servers : Agrees(s)
    BY <2>3, AllAgree, Zenon
  <2>5. w.old = ref.size
    BY <1>2, <2>2, <2>3, <2>4, Knows, Zenon
  <2>6. ref' = ref /\ UNCHANGED pend /\ \A s \in Servers : SameInode(s)
    BY <1>0, <2>1, Zenon DEF client, inode, SameInode
  <2>7. \A s \in Servers : Agrees(s)'
    BY <2>4, <2>6, StillAgrees, Zenon
  <2> QED BY <1>0, <2>1, <2>2, <2>5, <2>6, <2>7, BegunSettled, Zenon
<1> QED BY <1>1, <1>2, Zenon

LEMMA LaminateSettled ==
    ASSUME SettledInv, ThreadInv', NEW t, NEW c \in Clients, Laminate(t, c)
    PROVE  SettledInv' /\ (AF!Return(c) \/ UNCHANGED <<ref, call, ret>>)
<1>0. AtOwner(t, "laminate", c) /\ UNCHANGED <<ex, size, ext, pend, getting, chan>>
  BY Zenon DEF Laminate
<1>1. CASE Owner \notin ex
  <2>1. Finish(c, Answer(FALSE)) /\ Rest(t, c) /\ UNCHANGED lam
    BY <1>1, Zenon DEF Laminate
  <2>2. UNCHANGED inode /\ UNCHANGED getting /\ UNCHANGED chan
    BY <1>0, <2>1, Zenon DEF inode
  <2> QED BY <1>0, <1>1, <2>1, <2>2, BegunFails, Zenon
<1>2. CASE Owner \in ex
  <2> DEFINE w == At("laminate", c)
  <2>1. th' = [th EXCEPT ![t] = w] /\ UNCHANGED client /\ lam' = [lam EXCEPT ![Owner] = TRUE] /\ w.pc = "laminate"
    BY <1>2, Zenon DEF Laminate, At
  <2> HIDE DEF w
  <2>2. /\ Owner \in Servers /\ call[c] # Idle /\ call[c].op = "laminate" /\ StateOK /\ t \in {c, Owner}
        /\ t \in Threads /\ c \in Threads /\ Owner \in Threads /\ DOMAIN th = Threads /\ th[c].pc \in {"called", "rpc"}
        /\ t = c => th[c].pc = "called"
    BY <1>0, Begun, Zenon
  <2>3. lam'[Owner] = TRUE /\ Owner \in ex' /\ \A s \in Servers : s # Owner => SameInode(s)
    BY <1>0, <1>2, <2>1, <2>2, Zenon DEF SameInode, StateOK, InodeOK
  <2>4. ref' = ref /\ call' = call
    BY <2>1, Zenon DEF client
  <2>5. th'[c].pc # "called"
    <3>1. th'[t] = w /\ \A r \in Threads : r # t => th'[r] = th[r]
      BY <2>1, <2>2, Zenon
    <3>2. CASE t = c
      BY <2>1, <3>1, <3>2, Zenon
    <3>3. CASE t # c
      <4>1. t = Owner /\ Serves(Owner, "laminate") /\ Head(queue[Owner]).who = c
        BY <1>0, <3>3, Zenon DEF AtOwner
      <4>2. th[c].pc = "rpc"
        BY <4>1, Asked, Zenon DEF ClientOps
      <4> QED BY <2>2, <3>1, <3>3, <4>2, Zenon
    <3> QED BY <3>2, <3>3, Zenon
  <2>6. ASSUME NEW s \in Servers PROVE Agrees(s)' \/ Ahead(c, s)'
    <3>1. Agrees(s) \/ Ahead(c, s)
      BY <2>2, Sole, Zenon DEF InCall
    <3>2. CASE s # Owner
      <4>1. Agrees(s)
        BY <2>2, <3>1, <3>2, Zenon DEF Ahead, AheadCreate, AheadSync, AheadLaminate
      <4> QED BY <2>3, <2>4, <3>2, <4>1, StillAgrees, Zenon
    <3>3. CASE s = Owner
      <4>1. ref.exists /\ size[Owner] = ref.size /\ ext[Owner] = ref.ext
        BY <1>2, <2>2, <3>1, <3>3, Knows, Zenon DEF Ahead, AheadCreate, AheadSync, AheadLaminate
      <4> QED BY <1>0, <2>2, <2>3, <2>4, <2>5, <3>3, <4>1, Zenon DEF Ahead, AheadLaminate
    <3> QED BY <3>2, <3>3, Zenon
  <2>7. UNCHANGED getting /\ UNCHANGED chan /\ UNCHANGED pend /\ "laminate" # "truncate"
    BY <1>0, Zenon
  <2> QED BY <1>0, <2>1, <2>3, <2>6, <2>7, BegunSettled, ZenonT(30)
<1> QED BY <1>1, <1>2, Zenon
=============================================================================
