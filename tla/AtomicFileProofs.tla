-------------------------- MODULE AtomicFileProofs --------------------------
(***************************************************************************)
(* Proof that the servers implement AtomicFile for settled programs, which *)
(* make a call when everything that the previous one started has ended:    *)
(* for any number of clients, servers, blocks and calls, unlinks included, *)
(* and any order in which broadcasts arrive.                               *)
(***************************************************************************)
EXTENDS SettledProofs

------------------------------------------------------------------------------
(* How truncations and laminations end *)

\* The end of one, in thread t for client c.
LEMMA Ends ==
    ASSUME SettledInv, NEW t \in Clients \cup {Owner}, th[t].pc \in {"truncate", "laminate"}, UNCHANGED <<getting, queue>>
    PROVE  /\ th[t].who \in Clients /\ call[th[t].who] # Idle /\ call[th[t].who] \in Calls
           /\ call[th[t].who].op = th[t].pc
           /\ th[t].pc = "truncate" => th[t].old = ref.size
           /\ th[t].pc = "laminate" => Owner \in ex /\ lam[Owner] = TRUE
           /\ StateOK /\ ref \in Files /\ Owner \in Servers /\ t \in Threads /\ getting' = {} /\ NoEmptyNews'
           /\ queue' \in [Servers -> Seq(Messages)]
           /\ \A d \in Servers, x \in Messages : CarriedIn(chan, queue', d, x) => Carried(d, x)
<1>1. ThreadInv /\ StateOK /\ Owner \in Servers /\ ref \in Files /\ NoEmptyNews /\ Queries /\ lam[Owner] \in BOOLEAN
  BY Has, Zenon DEF SettledInv
<1>2. /\ th[t].who \in Clients /\ call[th[t].who] # Idle /\ call[th[t].who] \in Calls
      /\ call[th[t].who].op = th[t].pc
  BY <1>1, ForWhom, Zenon
<1>3. /\ th[t].pc = "truncate" => th[t].old = ref.size
      /\ th[t].pc = "laminate" => Owner \in ex /\ lam[Owner] = TRUE
  BY <1>1, Zenon DEF Queries
<1>4. getting = {}
  BY <1>2, NoGetting, Zenon
<1>5. t \in Threads
  BY <1>1, Zenon DEF Threads
<1>6. NoEmptyNews' /\ queue' \in [Servers -> Seq(Messages)]
      /\ \A d \in Servers, x \in Messages : CarriedIn(chan, queue', d, x) => Carried(d, x)
  BY <1>1, Zenon DEF NoEmptyNews, StateOK, QueueOK, Carried
<1> QED BY <1>1, <1>2, <1>3, <1>4, <1>5, <1>6, Zenon

\* The owner has cut its extents; the others hear of it when the file has shrunk.
LEMMA Shrunk ==
    ASSUME SettledInv, NEW c \in Clients, call[c] # Idle, call[c].op = "truncate", ref.exists, ~ref.lam,
           IsEffect(ref, call[c], ref'), TruncateInode(Owner, call[c].size),
           IF call[c].size < ref.size THEN Broadcast(Owner, TruncateMsg(call[c].size)) ELSE UNCHANGED chan,
           queue' \in [Servers -> Seq(Messages)], \A d \in Servers, x \in Messages : CarriedIn(chan, queue', d, x) => Carried(d, x)
    PROVE  Settling' /\ Within(ref'.ext, ref'.size)
<1> DEFINE n == call[c].size
<1>0. /\ StateOK /\ Owner \in Servers /\ Within(ref.ext, ref.size) /\ ref.ext \in Contents /\ ref.size \in Sizes
      /\ \A s \in Servers : ext[s] \in Contents /\ Agrees(s)
      /\ n \in Sizes
  BY Has, Sole, AllAgree, CallTypes, Zenon
<1>1. ref'.exists /\ ~ref'.lam /\ ref'.size = n /\ ref'.ext = Cut(ref.ext, n)
  BY ZenonT(30) DEF IsEffect
<1>2. /\ Owner \in ex' <=> Owner \in ex
      /\ lam'[Owner] = lam[Owner] /\ size'[Owner] = n /\ ext'[Owner] = Cut(ext[Owner], n)
      /\ \A d \in Servers : d # Owner => SameInode(d)
  BY <1>0, TruncateInodeIs, Zenon
<1>3. Agrees(Owner)'
  <2>1. Owner \in ex /\ lam[Owner] = ref.lam /\ ext[Owner] = ref.ext
    BY <1>0, Knows, Zenon
  <2>2. ref'.lam = ref.lam
    BY Zenon DEF IsEffect
  <2> QED BY <1>1, <1>2, <2>1, <2>2, Zenon DEF Agrees, OwnerAgrees
<1>4. ASSUME NEW d \in Servers, d # Owner
      PROVE  d \in ex' /\ ~lam'[d] /\ ext'[d] = ext[d] /\ Covers(ext[d], ref.ext)
  <2>1. d \in ex /\ ~lam[d] /\ Behind(d)
    BY <1>0, <1>4, Knows, Zenon
  <2>2. SameInode(d)
    BY <1>2, <1>4, Zenon
  <2> QED BY <2>1, <2>2, Zenon DEF Behind, SameInode
<1>5. CASE n < ref.size
  <2>0. PICK m \in Messages : m = TruncateMsg(n)
    BY <1>0, MessageTypes, Zenon
  <2>1. m \in Messages /\ m.op = "b_truncate" /\ m.op \in Broadcasts /\ m.size = n /\ Broadcast(Owner, m)
    BY <1>0, <1>5, <2>0, MessageTypes, Zenon DEF Broadcasts, TruncateMsg
  <2>2. ASSUME NEW d \in Servers, d # Owner PROVE Settles(d, m)'
    <3>1. Covers(Cut(ext'[d], m.size), ref'.ext)
      BY <1>0, <1>1, <1>4, <2>1, <2>2, CoversFacts, SMTT(30)
    <3> QED BY <1>1, <1>4, <2>1, <2>2, <3>1, Zenon DEF Settles
  <2>3. \A d \in Servers, x \in Messages : Carried(d, x)' => Carried(d, x) \/ (d # Owner /\ x = m)
    BY <1>0, <2>1, Tells, Zenon
  <2>4. Settling'
    BY <1>0, <1>3, <2>1, <2>2, <2>3, NewsEnd, Zenon
  <2> QED BY <1>1, <2>4, WithinCut, Zenon
<1>6. CASE ~(n < ref.size)
  <2>1. ref'.ext = ref.ext
    BY <1>0, <1>1, <1>6, CutBeyond, Zenon
  <2>2. ASSUME NEW d \in Servers, d # Owner PROVE Agrees(d)'
    BY <1>1, <1>4, <2>1, <2>2, Zenon DEF Agrees, CopyAgrees, Behind
  <2>3. \A d \in Servers, x \in Messages : Carried(d, x)' => Carried(d, x)
    BY <1>6, Zenon DEF Carried
  <2>4. \A s \in Servers : Agrees(s)'
    BY <1>3, <2>2, Zenon
  <2>5. Settling'
    BY <2>3, <2>4, QuietEnd, Zenon
  <2> QED BY <1>1, <2>5, WithinCut, Zenon
<1> QED BY <1>5, <1>6, Zenon

LEMMA TruncateEndSettled ==
    ASSUME SettledInv, ThreadInv', NEW t \in Clients \cup {Owner}, TruncateEnd(t)
    PROVE  SettledInv' /\ AF!Return(th[t].who)
<1>c. PICK c \in Clients : c = th[t].who
  BY Ends, Zenon DEF TruncateEnd
<1>0. th[t].pc = "truncate" /\ Rest(t, c) /\ UNCHANGED <<getting, queue>>
  BY <1>c, Zenon DEF TruncateEnd
<1>1. /\ c \in Clients /\ call[c] # Idle /\ call[c] \in Calls /\ call[c].op = "truncate" /\ th[t].old = ref.size
      /\ StateOK /\ ref \in Files /\ Owner \in Servers /\ t \in Threads /\ getting' = {} /\ NoEmptyNews'
      /\ queue' \in [Servers -> Seq(Messages)]
      /\ \A d \in Servers, x \in Messages : CarriedIn(chan, queue', d, x) => Carried(d, x)
  BY <1>0, <1>c, Ends, Zenon
<1>2. \A s \in Servers : Agrees(s)
  BY <1>1, AllAgree, Zenon
<1>3. (Owner \notin ex \/ lam[Owner]) <=> (~ref.exists \/ ref.lam)
  BY <1>1, <1>2, Knows, Zenon
<1>4. CASE Owner \notin ex \/ lam[Owner]
  <2> DEFINE a == Answer(FALSE)
  <2>1. Finish(c, a) /\ UNCHANGED inode /\ UNCHANGED chan
    BY <1>4, <1>c, ZenonT(30) DEF TruncateEnd
  <2>2. a.ok \in BOOLEAN /\ ~a.ok /\ Rightly(ref, call[c], a)
    BY <1>1, <1>3, <1>4, AnswerTypes, Right, Zenon
  <2> HIDE DEF a
  <2>3. \A d \in Servers, x \in Messages : Carried(d, x)' => Carried(d, x)
    BY <1>1, <2>1, Zenon DEF Carried
  <2>4. SettledInv' /\ AF!Return(c)
    BY <1>0, <1>1, <1>2, <2>1, <2>2, <2>3, PlainReturn
  <2> QED BY <1>c, <2>4, Zenon
<1>5. CASE ~(Owner \notin ex \/ lam[Owner])
  <2> DEFINE a == Answer(TRUE)
  <2>1. /\ Finish(c, a) /\ TruncateInode(Owner, call[c].size)
        /\ IF call[c].size < th[t].old THEN Broadcast(Owner, TruncateMsg(call[c].size)) ELSE UNCHANGED chan
    BY <1>5, <1>c, Zenon DEF TruncateEnd
  <2>2. a.ok = TRUE
    BY AnswerTypes, Zenon
  <2>3. a.ok \in BOOLEAN /\ Rightly(ref, call[c], a)
    BY <1>1, <1>3, <1>5, AnswerTypes, Right, Zenon
  <2> HIDE DEF a
  <2>4. IsEffect(ref, call[c], ref')
    BY <1>1, <2>1, <2>2, Succeeds, ZenonT(30)
  <2>5. /\ ref.exists /\ ~ref.lam
        /\ IF call[c].size < ref.size THEN Broadcast(Owner, TruncateMsg(call[c].size)) ELSE UNCHANGED chan
    BY <1>1, <1>3, <1>5, <2>1, Zenon
  <2>6. Settling' /\ Within(ref'.ext, ref'.size)
    BY <1>1, <2>1, <2>4, <2>5, Shrunk, Zenon
  <2>7. \A s \in Servers : pend'[s] = pend[s] \/ pend'[s] = NoPend
    BY <1>1, <2>1, TruncateInodeIs, Zenon
  <2>8. c \in Clients /\ call[c] # Idle /\ Finish(c, a) /\ t \in Threads /\ Rest(t, c) /\ getting' = {} /\ NoEmptyNews'
    BY <1>0, <1>1, <2>1, Zenon
  <2>9. SettledInv' /\ AF!Return(c)
    BY <2>3, <2>6, <2>7, <2>8, AnswerEnd, SMTT(30)
  <2> QED BY <1>c, <2>9, Zenon
<1> QED BY <1>4, <1>5, Zenon

\* The owner has laminated the file; the others hear of it when it is shared.
LEMMA Laminated ==
    ASSUME SettledInv, NEW c \in Clients, call[c] # Idle, call[c].op = "laminate", Owner \in ex, lam[Owner] = TRUE,
           IsEffect(ref, call[c], ref'), UNCHANGED inode,
           IF Shared THEN Broadcast(Owner, LaminateMsg) ELSE UNCHANGED chan,
           queue' \in [Servers -> Seq(Messages)], \A d \in Servers, x \in Messages : CarriedIn(chan, queue', d, x) => Carried(d, x)
    PROVE  Settling' /\ Within(ref'.ext, ref'.size)
<1>0. /\ StateOK /\ Owner \in Servers /\ Within(ref.ext, ref.size) /\ ref.ext \in Contents /\ InCall(c)
      /\ \A s \in Servers : ext[s] \in Contents
  BY Has, Sole, Zenon
<1>1. ref.exists /\ size[Owner] = ref.size /\ ext[Owner] = ref.ext
  <2>1. Agrees(Owner) \/ Ahead(c, Owner)
    BY <1>0, Zenon DEF InCall
  <2> QED BY <1>0, <2>1, Knows, Zenon DEF Ahead, AheadCreate, AheadSync, AheadLaminate
<1>2. ref'.exists /\ ref'.lam = TRUE /\ ref'.size = ref.size /\ ref'.ext = ref.ext
  BY <1>1, Zenon DEF IsEffect, Files
<1>3. Agrees(Owner)' /\ ex' = ex /\ lam' = lam /\ size' = size /\ ext' = ext
  BY <1>1, <1>2, Zenon DEF Agrees, OwnerAgrees, inode
<1>4. ASSUME NEW d \in Servers, d # Owner
      PROVE  /\ d \in ex /\ (lam[d] => size[d] = ref.size /\ ext[d] = ref.ext)
             /\ ~lam[d] => Behind(d)
  <2>1. Agrees(d)
    BY <1>0, <1>4, Zenon DEF InCall, Ahead, AheadCreate, AheadSync, AheadLaminate
  <2> QED BY <1>1, <1>4, <2>1, Knows, Zenon
<1>5. CASE Shared
  <2>0. PICK m \in Messages : m = LaminateMsg
    BY <1>0, MessageTypes, Zenon
  <2>1. m \in Messages /\ m.op = "b_laminate" /\ m.op \in Broadcasts /\ m.size = ref.size /\ m.ext = ref.ext /\ Broadcast(Owner, m)
    BY <1>0, <1>1, <1>5, <2>0, MessageTypes, Zenon DEF Broadcasts, LaminateMsg
  <2>2. ASSUME NEW d \in Servers, d # Owner PROVE Settles(d, m)'
    <3>1. CASE lam[d] \/ ref.lam
      <4>1. Agrees(d)'
        BY <1>2, <1>3, <1>4, <1>5, <2>2, <3>1, Zenon DEF Agrees, CopyAgrees, Behind
      <4> QED BY <1>2, <1>3, <1>4, <1>5, <2>1, <2>2, <4>1, Zenon DEF Settles
    <3>2. CASE ~lam[d] /\ ~ref.lam
      <4>1. Covers(ext'[d], ref'.ext) /\ ~lam'[d]
        BY <1>2, <1>3, <1>4, <2>2, <3>2, Zenon DEF Behind
      <4> QED BY <1>2, <1>3, <1>4, <1>5, <2>1, <2>2, <4>1, Zenon DEF Settles
    <3> QED BY <3>1, <3>2, Zenon
  <2>3. \A d \in Servers, x \in Messages : Carried(d, x)' => Carried(d, x) \/ (d # Owner /\ x = m)
    BY <1>0, <2>1, Tells, Zenon
  <2>4. Settling'
    BY <1>0, <1>3, <2>1, <2>2, <2>3, NewsEnd, Zenon
  <2> QED BY <1>0, <1>2, <2>4, Zenon
<1>6. CASE ~Shared
  <2>1. ASSUME NEW d \in Servers, d # Owner PROVE Agrees(d)'
    BY <1>2, <1>3, <1>4, <1>6, <2>1, Zenon DEF Agrees, CopyAgrees, Behind
  <2>2. \A d \in Servers, x \in Messages : Carried(d, x)' => Carried(d, x)
    BY <1>6, Zenon DEF Carried
  <2>3. \A s \in Servers : Agrees(s)'
    BY <1>3, <2>1, Zenon
  <2>4. Settling'
    BY <2>2, <2>3, QuietEnd, Zenon
  <2> QED BY <1>0, <1>2, <2>4, Zenon
<1> QED BY <1>5, <1>6, Zenon

LEMMA LaminateEndSettled ==
    ASSUME SettledInv, ThreadInv', NEW t \in Clients \cup {Owner}, LaminateEnd(t)
    PROVE  SettledInv' /\ AF!Return(th[t].who)
<1>c. PICK c \in Clients : c = th[t].who
  BY Ends, Zenon DEF LaminateEnd
<1> DEFINE a == Answer(TRUE)
<1>0. th[t].pc = "laminate" /\ Rest(t, c) /\ UNCHANGED inode /\ UNCHANGED <<getting, queue>>
  BY <1>c, Zenon DEF LaminateEnd
<1>1. /\ c \in Clients /\ call[c] # Idle /\ call[c] \in Calls /\ call[c].op = "laminate" /\ Owner \in ex /\ lam[Owner] = TRUE
      /\ StateOK /\ ref \in Files /\ Owner \in Servers /\ t \in Threads /\ getting' = {} /\ NoEmptyNews'
      /\ queue' \in [Servers -> Seq(Messages)]
      /\ \A d \in Servers, x \in Messages : CarriedIn(chan, queue', d, x) => Carried(d, x)
  BY <1>0, <1>c, Ends, ZenonT(30)
<1>2. ref.exists
  <2>1. Agrees(Owner) \/ Ahead(c, Owner)
    BY <1>1, Sole, Zenon DEF InCall
  <2> QED BY <1>1, <2>1, Knows, Zenon DEF Ahead, AheadCreate, AheadSync, AheadLaminate
<1>3. Finish(c, a) /\ IF Shared THEN Broadcast(Owner, LaminateMsg) ELSE UNCHANGED chan
  BY <1>1, <1>c, Zenon DEF LaminateEnd
<1>4. a.ok = TRUE
  BY AnswerTypes, Zenon
<1>5. a.ok \in BOOLEAN /\ Rightly(ref, call[c], a)
  BY <1>1, <1>2, AnswerTypes, Right, Zenon
<1> HIDE DEF a
<1>6. IsEffect(ref, call[c], ref')
  BY <1>1, <1>3, <1>4, Succeeds, Zenon
<1>7. Settling' /\ Within(ref'.ext, ref'.size)
  BY <1>0, <1>1, <1>3, <1>6, Laminated, Zenon
<1>8. \A s \in Servers : pend'[s] = pend[s] \/ pend'[s] = NoPend
  BY <1>0, Zenon DEF inode
<1>9. c \in Clients /\ call[c] # Idle /\ Finish(c, a) /\ t \in Threads /\ Rest(t, c) /\ getting' = {} /\ NoEmptyNews'
  BY <1>0, <1>1, <1>3, Zenon
<1>10. SettledInv' /\ AF!Return(c)
  BY <1>5, <1>7, <1>8, <1>9, AnswerEnd, SMTT(30)
<1> QED BY <1>10, <1>c, Zenon

------------------------------------------------------------------------------
(* Syncs *)

\* The client whose sync a server works on, or that waits for it.
LEMMA WorkOf ==
    ASSUME SettledInv, NEW s \in Servers, th[s].pc \in {"add", "addrpc"}
    PROVE  \E c \in Clients : /\ call[c] # Idle /\ call[c] \in Calls /\ call[c].op = "sync" /\ call[c].first <= call[c].last
                              /\ th[s].who = {c} /\ th[c].pc = "sync" /\ Home[c] = s /\ th[s].ext = Written(call[c])
                              /\ s \in ex /\ ~lam[s]
<1>1. OneSync(s) /\ ThreadInv
  BY Zenon DEF SettledInv
<1>2. th[s].who \in SUBSET Clients /\ \A b \in th[s].who : th[b].pc = "sync"
  BY <1>1, Syncing, Zenon
<1>3. PICK c : c \in th[s].who
  BY <1>1, Zenon DEF OneSync
<1>4. c \in Clients /\ call[c] # Idle
  BY <1>1, <1>2, <1>3, Working, Zenon
<1> QED BY <1>4, Sole, Zenon

LEMMA WaitingOf ==
    ASSUME SettledInv, NEW s \in Servers, pend[s].who # {}
    PROVE  \E c \in Clients : /\ call[c] # Idle /\ call[c] \in Calls /\ call[c].op = "sync" /\ call[c].first <= call[c].last
                              /\ pend[s].who = {c} /\ th[c].pc = "sync" /\ Home[c] = s /\ pend[s].ext = Written(call[c])
                              /\ s \in ex
<1>1. ThreadInv
  BY Zenon DEF SettledInv
<1>2. pend[s].who \in SUBSET Clients /\ \A b \in pend[s].who : th[b].pc = "sync"
  BY <1>1, Pending, Zenon
<1>3. PICK c : c \in pend[s].who
  BY Zenon
<1>4. c \in Clients /\ call[c] # Idle
  BY <1>1, <1>2, <1>3, Working, Zenon
<1> QED BY <1>4, Sole, Zenon

\* What the answer to the sync of one client is to AtomicFile.
LEMMA SyncFailed ==
    ASSUME StateOK, NEW c \in Clients, call[c] # Idle, call[c] \in Calls, call[c].op = "sync", NEW over, NEW P, P = {c},
           FinishSyncs(P, over, FALSE), ref.lam
    PROVE  /\ AF!Return(c) /\ ref' = ref
           /\ \A b \in Clients : call'[b] = Idle \/ (b # c /\ call'[b] = call[b])
<1>1. call \in [Clients -> Calls \cup {Idle}] /\ DOMAIN ret = Clients /\ ref \in Files
  BY Zenon DEF StateOK, CallOK
<1>2. call' = [b \in Clients |-> IF b \in P THEN Idle ELSE call[b]] /\ ref' = ref
  BY Zenon DEF FinishSyncs
<1>3. ret' = [b \in Clients |-> IF b \in P THEN Answer(FALSE) ELSE ret[b]]
  BY Zenon DEF FinishSyncs
<1>4. call' = [call EXCEPT ![c] = Idle]
  BY <1>1, <1>2, Zenon
<1>5. ret' = [ret EXCEPT ![c] = Answer(FALSE)]
  BY <1>1, <1>3, Zenon
<1>6. Answer(FALSE).ok = FALSE /\ Rightly(ref, call[c], Answer(FALSE))
  BY <1>1, AnswerTypes, Right, Zenon
<1>7. ~AF!Allowed(ref, call[c])
  BY <1>6, Zenon DEF Rightly
<1>8. AF!Return(c)
  BY <1>2, <1>4, <1>5, <1>7, SameAnswers, Zenon DEF AF!Return
<1> QED BY <1>2, <1>8, Zenon

LEMMA SyncDone ==
    ASSUME StateOK, NEW c \in Clients, call[c] # Idle, call[c] \in Calls, call[c].op = "sync", call[c].first <= call[c].last,
           NEW over \in Contents, over = Written(call[c]), NEW P \in SUBSET Clients, P = {c},
           FinishSyncs(P, over, TRUE), ref.exists, ~ref.lam
    PROVE  /\ AF!Return(c)
           /\ ref'.exists = ref.exists /\ ref'.lam = ref.lam
           /\ ref'.ext = Overlay(ref.ext, over) /\ ref'.size = Max2(ref.size, ExtentSize(over))
           /\ \A b \in Clients : call'[b] = Idle \/ (b # c /\ call'[b] = call[b])
<1>1. call \in [Clients -> Calls \cup {Idle}] /\ DOMAIN ret = Clients /\ ref \in Files /\ ref.ext \in Contents
  BY Zenon DEF StateOK, CallOK, Files
<1>2. /\ CallOK' /\ ref'.exists = ref.exists /\ ref'.lam = ref.lam
      /\ ref'.ext = Overlay(ref.ext, over) /\ ref'.size = Max2(ref.size, ExtentSize(over))
  BY SyncsSucceed, Zenon
<1>3. call' = [b \in Clients |-> IF b \in P THEN Idle ELSE call[b]]
  BY Zenon DEF FinishSyncs
<1>4. ret' = [b \in Clients |-> IF b \in P THEN Answer(TRUE) ELSE ret[b]]
  BY Zenon DEF FinishSyncs
<1>5. call' = [call EXCEPT ![c] = Idle]
  BY <1>1, <1>3, Zenon
<1>6. ret' = [ret EXCEPT ![c] = Answer(TRUE)]
  BY <1>1, <1>4, Zenon
<1>7. Answer(TRUE).ok = TRUE /\ Rightly(ref, call[c], Answer(TRUE))
  BY <1>1, AnswerTypes, Right, Zenon
<1>8. AF!Allowed(ref, call[c]) /\ AF!Found(ref, call[c]) = Answer(TRUE)
  BY <1>7, Zenon DEF Rightly
<1> DEFINE r == AF!Effect(ref, call[c])
<1>9. IsEffect(ref, call[c], r)
  BY <1>1, Effects, Zenon
<1> HIDE DEF r
<1>10. /\ r \in Files /\ r.exists = ref.exists /\ r.lam = ref.lam
       /\ r.size = Max2(ref.size, call[c].last + 1) /\ r.ext = Write(ref.ext, call[c].first, call[c].last, call[c].data)
  BY <1>9, Zenon DEF IsEffect
<1>11. r.size = ref'.size /\ r.ext = ref'.ext
  <2>1. ExtentSize(over) = call[c].last + 1 /\ Overlay(ref.ext, over) = Write(ref.ext, call[c].first, call[c].last, call[c].data)
    BY <1>1, WrittenIs, Zenon
  <2> QED BY <1>2, <1>10, <2>1, Zenon
<1>12. ref' \in Files
  BY <1>2, Zenon DEF CallOK
<1>13. r = ref'
  <2>1. \A f, g \in Files : f.exists = g.exists /\ f.lam = g.lam /\ f.size = g.size /\ f.ext = g.ext => f = g
    BY DEF Files
  <2> QED BY <1>2, <1>10, <1>11, <1>12, <2>1, Zenon
<1>14. AF!Return(c)
  BY <1>5, <1>6, <1>8, <1>13, SameAnswers, ZenonT(30) DEF AF!Return, r
<1> QED BY <1>2, <1>3, <1>14, Zenon

\* The owner has the extents, and answers.
LEMMA Synced ==
    ASSUME SettledInv, NEW c \in Clients, call[c] # Idle, call[c] \in Calls, call[c].op = "sync", call[c].first <= call[c].last,
           NEW over \in Contents, over = Written(call[c]), NEW P \in SUBSET Clients, P = {c},
           FinishSyncs(P, over, TRUE), AddExtents(Owner, over), Owner \in ex, ~lam[Owner],
           \A d \in Servers, m \in Messages : Carried(d, m)' => Carried(d, m)
    PROVE  Settling' /\ Within(ref'.ext, ref'.size) /\ AF!Return(c) /\ pend' = pend
           /\ \A b \in Clients : call'[b] = Idle \/ (b # c /\ call'[b] = call[b])
<1>0. /\ StateOK /\ Owner \in Servers /\ Within(ref.ext, ref.size) /\ ref.ext \in Contents /\ ref.size \in Sizes
      /\ InCall(c) /\ \A s \in Servers : ext[s] \in Contents
  BY Has, Sole, Zenon
<1>1. ref.exists /\ ~ref.lam /\ size[Owner] = ref.size /\ ext[Owner] = ref.ext /\ lam[Owner] = ref.lam
  BY <1>0, OwnerAgreed, Zenon DEF OwnerAgrees
<1>2. /\ AF!Return(c)
      /\ ref'.exists = ref.exists /\ ref'.lam = ref.lam
      /\ ref'.ext = Overlay(ref.ext, over) /\ ref'.size = Max2(ref.size, ExtentSize(over))
      /\ \A b \in Clients : call'[b] = Idle \/ (b # c /\ call'[b] = call[b])
  BY <1>0, <1>1, SyncDone, Zenon
<1>3. over # Empty
  BY WrittenIs, Zenon
<1>4. /\ Max2(ref.size, ExtentSize(Overlay(ref.ext, over))) = Max2(ref.size, ExtentSize(over))
      /\ Within(Overlay(ref.ext, over), Max2(ref.size, ExtentSize(over)))
  BY <1>0, <1>3, SizeOfOverlay, Zenon
<1>5. /\ Owner \in ex' /\ lam'[Owner] = lam[Owner] /\ ext'[Owner] = Overlay(ext[Owner], over)
      /\ size'[Owner] = Max2(size[Owner], ExtentSize(Overlay(ext[Owner], over)))
      /\ (\A d \in Servers : d # Owner => SameInode(d)) /\ pend' = pend
  BY <1>0, AddExtentsIs, Zenon
<1>6. Agrees(Owner)'
  BY <1>1, <1>2, <1>4, <1>5, Zenon DEF Agrees, OwnerAgrees
<1>7. ASSUME NEW d \in Servers, d # Owner PROVE Agrees(d)'
  <2>1. Agrees(d) \/ AheadSync(c, d)
    BY <1>0, Zenon DEF InCall, Ahead, AheadCreate, AheadLaminate
  <2>2. d \in ex /\ ~lam[d] /\ Covers(ext[d], Overlay(ref.ext, over))
    <3>1. CASE Agrees(d)
      <4>1. d \in ex /\ ~lam[d] /\ Covers(ext[d], ref.ext)
        BY <1>1, <1>7, <3>1, Knows, Zenon DEF Behind
      <4> QED BY <1>0, <4>1, CoversFacts, Zenon
    <3>2. CASE AheadSync(c, d)
      <4>1. th[d].ext = over
        <5>1. th[d].pc \in {"add", "addrpc"}
          BY <3>2, Zenon DEF AheadSync
        <5> QED BY <5>1, Sole, Zenon
      <4> QED BY <1>1, <3>2, <4>1, Zenon DEF AheadSync
    <3> QED BY <2>1, <3>1, <3>2, Zenon
  <2>3. SameInode(d)
    BY <1>5, <1>7, Zenon
  <2> QED BY <1>1, <1>2, <1>7, <2>2, <2>3, Zenon DEF SameInode, Agrees, CopyAgrees, Behind
<1>8. Settling'
  BY <1>6, <1>7, QuietEnd, Zenon
<1> QED BY <1>2, <1>4, <1>5, <1>8, Zenon

\* A step that only moves messages, or asks for a sync, and loses no broadcast that a server needs.
LEMMA Unmoved ==
    ASSUME SettledInv, ThreadInv', UNCHANGED th, UNCHANGED <<ref, call, ret>>, UNCHANGED getting,
           \A s \in Servers : SameInode(s) /\ pend'[s] = pend[s], NoEmptyNews',
           \A d \in Servers, x \in Messages : Carried(d, x)' => Carried(d, x) \/ x.op = "sync",
           \A d \in Servers, x \in Messages :
               NoCall /\ Settles(d, x) /\ Carried(d, x) /\ x.op \in Broadcasts => Carried(d, x)' \/ Agrees(d)
    PROVE  SettledInv' /\ UNCHANGED <<ref, call, ret>>
<1>0. call' = call /\ ref' = ref /\ ret' = ret /\ Owner \in Servers
  BY Has, Zenon
<1>1. \A s \in Servers : Agrees(s) => Agrees(s)'
  BY <1>0, StillAgrees, Zenon
<1>2. Turns' /\ Within(ref'.ext, ref'.size)
  BY <1>0, Zenon DEF SettledInv, Turns
<1>3. Owner \in ex' <=> Owner \in ex
  BY <1>0, Zenon DEF SameInode
<1>4. lam'[Owner] = lam[Owner]
  BY <1>0, Zenon DEF SameInode
<1>5. Queries'
  BY <1>0, <1>3, <1>4, Zenon DEF SettledInv, Queries
<1>6. \A s \in Servers : OneSync(s)'
  BY <1>0, SMTT(30) DEF SettledInv, OneSync, SameInode
<1>7. ASSUME NoCall' PROVE Settling'
  <2>1. NoCall /\ Settling
    BY <1>0, <1>7, Zenon DEF NoCall, SettledInv
  <2>2. ASSUME NEW d \in Servers, NEW x \in Messages, Carried(d, x)' PROVE Settles(d, x)'
    <3>1. Settles(d, x)
      BY <2>1, <2>2, Zenon DEF Settling, Settles
    <3> QED BY <1>0, <3>1, StillSettles, Zenon
  <2>3. ASSUME NEW d \in Servers PROVE Agrees(d)' \/ \E x \in Messages : Carried(d, x)' /\ x.op \in Broadcasts
    <3>1. CASE Agrees(d)
      BY <1>1, <3>1, Zenon
    <3>2. CASE ~Agrees(d)
      <4>1. PICK x \in Messages : Carried(d, x) /\ x.op \in Broadcasts
        BY <2>1, <3>2, Zenon DEF Settling
      <4>2. Settles(d, x)
        BY <2>1, <4>1, Zenon DEF Settling
      <4> QED BY <2>1, <3>2, <4>1, <4>2, Zenon
    <3> QED BY <3>1, <3>2, Zenon
  <2> QED BY <2>2, <2>3, Zenon DEF Settling
<1>8. ASSUME NEW c \in Clients, call'[c] # Idle PROVE InCall(c)'
  <2>1. InCall(c)
    BY <1>0, <1>8, Zenon DEF SettledInv
  <2>2. ASSUME NEW s \in Servers PROVE Agrees(s)' \/ Ahead(c, s)'
    <3>1. CASE Agrees(s)
      BY <1>1, <3>1, Zenon
    <3>2. CASE Ahead(c, s)
      <4>1. (s \in ex' <=> s \in ex) /\ lam'[s] = lam[s] /\ size'[s] = size[s] /\ ext'[s] = ext[s]
        BY Zenon DEF SameInode
      <4> QED BY <1>0, <3>2, <4>1, Zenon DEF Ahead, AheadCreate, AheadSync, AheadLaminate
    <3> QED BY <2>1, <3>1, <3>2, Zenon DEF InCall
  <2>3. \A d \in Servers, m \in Messages : Carried(d, m)' => m.op \notin Broadcasts
    BY <2>1, Zenon DEF InCall, Broadcasts
  <2> QED BY <1>0, <2>1, <2>2, <2>3, Zenon DEF InCall
<1> QED BY <1>0, <1>2, <1>5, <1>6, <1>7, <1>8, Zenon DEF SettledInv

\* A server that takes a request keeps the others.
LEMMA ServeKeeps ==
    ASSUME StateOK, NEW s \in Servers, NEW op, Serves(s, op), UNCHANGED chan,
           NEW d \in Servers, NEW x \in Messages, Carried(d, x), x.op # op
    PROVE  Carried(d, x)'
<1>1. /\ queue'[s] = Tail(queue[s]) /\ queue[s] # <<>> /\ queue[s] \in Seq(Messages) /\ Head(queue[s]).op = op
      /\ \A r \in Servers : r # s => queue'[r] = queue[r]
  BY ServeMoves, Zenon
<1>2. CASE \E r \in Servers : \E i \in 1 .. Len(chan[r][d]) : chan[r][d][i] = x
  BY <1>2, Zenon DEF Carried, CarriedIn
<1>3. CASE \E i \in 1 .. Len(queue[d]) : queue[d][i] = x
  <2>1. CASE d # s
    BY <1>1, <1>3, <2>1, Zenon DEF Carried, CarriedIn
  <2>2. CASE d = s
    <3>1. PICK i \in 1 .. Len(queue[s]) : queue[s][i] = x
      BY <1>3, <2>2, Zenon
    <3>2. i # 1
      BY <1>1, <3>1
    <3>3. i - 1 \in 1 .. Len(Tail(queue[s])) /\ Tail(queue[s])[i - 1] = x
      BY <1>1, <3>1, <3>2
    <3> QED BY <1>1, <2>2, <3>3, Zenon DEF Carried, CarriedIn
  <2> QED BY <2>1, <2>2, Zenon
<1> QED BY <1>2, <1>3, Zenon DEF Carried, CarriedIn

\* While a sync waits for a server that is ready, or is about to be added, every server agrees.
LEMMA NoneAsks ==
    ASSUME SettledInv, NEW c \in Clients, call[c] # Idle, call[c].op = "sync", th[Home[c]].pc # "addrpc"
    PROVE  \A s \in Servers : Agrees(s)
<1>1. \A s \in Servers : th[s].pc # "addrpc"
  BY Sole, Zenon
<1> QED BY <1>1, AllAgree, Zenon

LEMMA ProcessSyncSettled ==
    ASSUME SettledInv, ThreadInv', NEW s \in Servers, ProcessSync(s)
    PROVE  SettledInv' /\ (UNCHANGED <<ref, call, ret>> \/ \E c \in Clients : AF!Return(c))
<1>0. /\ Serves(s, "sync") /\ th[s] = Ready /\ pend' = [pend EXCEPT ![s] = NoPend]
      /\ UNCHANGED <<ex, lam, size, ext>> /\ UNCHANGED getting /\ UNCHANGED chan
  BY Zenon DEF ProcessSync, Serves
<1>1. /\ StateOK /\ ref \in Files /\ Within(ref.ext, ref.size) /\ Owner \in Servers /\ DOMAIN th = Threads
      /\ s \in Threads /\ Owner \in Threads
      /\ s \notin Clients /\ th[s].pc = "idle" /\ NoEmptyNews /\ pend \in [Servers -> [who : SUBSET Clients, ext : Contents]]
      /\ \A r \in Servers : r \in Threads
  BY <1>0, Has, Parts, ReadyIs, DisjointAssumption, Zenon DEF SettledInv, Threads, StateOK, InodeOK
<1>2. pend'[s] = NoPend /\ \A r \in Servers : r # s => pend'[r] = pend[r]
  BY <1>0, <1>1, Zenon
<1>3. NoEmptyNews' /\ \A d \in Servers, x \in Messages : Carried(d, x)' => Carried(d, x)
  <2>1. \A d \in Servers, x \in Messages : CarriedIn(chan, queue', d, x) => Carried(d, x)
    BY <1>0, <1>1, ServeMoves, Zenon
  <2> QED BY <1>0, <1>1, <2>1, ServeNoEmpty, Zenon DEF Carried
<1>4. \A r \in Servers : SameInode(r)
  BY <1>0, Zenon DEF SameInode
<1>5. CASE pend[s].who = {} /\ UNCHANGED th /\ UNCHANGED client
  <2>1. \A r \in Servers : SameInode(r) /\ pend'[r] = pend[r]
    BY <1>2, <1>4, <1>5, Zenon DEF SettledInv, OneSync
  <2>2. \A d \in Servers, x \in Messages : Carried(d, x) /\ x.op \in Broadcasts => Carried(d, x)'
    BY <1>0, <1>1, ServeKeeps DEF Broadcasts
  <2>3. UNCHANGED <<ref, call, ret>>
    BY <1>5, Zenon DEF client
  <2> QED BY <1>0, <1>3, <1>5, <2>1, <2>2, <2>3, Unmoved, Zenon
<1>6. CASE /\ pend[s].who # {} /\ lam[s]
           /\ FinishSyncs(pend[s].who, Empty, FALSE)
           /\ th' = [t \in Threads |-> IF t \in pend[s].who THEN Ready ELSE th[t]]
  <2>1. PICK c \in Clients : /\ call[c] # Idle /\ call[c] \in Calls /\ call[c].op = "sync" /\ pend[s].who = {c} /\ Home[c] = s
                             /\ s \in ex
    BY <1>6, WaitingOf, Zenon
  <2>2. \A r \in Servers : Agrees(r)
    BY <1>1, <2>1, NoneAsks, Zenon
  <2>3. ref.exists /\ ref.lam
    BY <1>6, <2>1, <2>2, Knows, Zenon
  <2>4. PICK P : P = pend[s].who
    BY Zenon
  <2>5. P = {c} /\ FinishSyncs(P, Empty, FALSE)
    BY <1>6, <2>1, <2>4, Zenon
  <2>6. /\ AF!Return(c) /\ ref' = ref
        /\ \A b \in Clients : call'[b] = Idle \/ (b # c /\ call'[b] = call[b])
    BY <1>1, <2>1, <2>3, <2>5, SyncFailed, Zenon
  <2>7. getting' = {}
    BY <1>0, <2>1, NoGetting, Zenon
  <2>8. \A r \in Servers : Agrees(r)'
    BY <1>4, <2>2, <2>6, StillAgrees, Zenon
  <2>9. Settling' /\ Within(ref'.ext, ref'.size)
    BY <1>1, <1>3, <2>1, <2>6, <2>8, QuietEnd, Zenon
  <2>10. \A r \in Servers : th'[r] = th[r] \/ th'[r].pc \notin {"add", "addrpc"}
    BY <1>1, <1>6, ReadyIs, Zenon
  <2>11. \A r \in Servers : pend'[r] = pend[r] \/ pend'[r] = NoPend
    BY <1>2, Zenon
  <2>12. SettledInv'
    BY <1>3, <2>1, <2>6, <2>7, <2>9, <2>10, <2>11, Over, Zenon
  <2> QED BY <2>6, <2>12, Zenon
<1>7. CASE /\ pend[s].who # {} /\ ~lam[s]
           /\ th' = [th EXCEPT ![s] = [pc |-> "add", who |-> pend[s].who, ext |-> pend[s].ext]]
           /\ UNCHANGED client
  <2>1. PICK c \in Clients : /\ call[c] # Idle /\ call[c] \in Calls /\ call[c].op = "sync" /\ pend[s].who = {c} /\ Home[c] = s
                             /\ s \in ex /\ pend[s].ext = Written(call[c]) /\ th[c].pc = "sync"
    BY <1>7, WaitingOf, Zenon
  <2>2. call' = call /\ ref' = ref /\ ret' = ret
    BY <1>7, Zenon DEF client
  <2>3. \A r \in Servers : Agrees(r)'
    BY <1>1, <1>4, <2>1, <2>2, NoneAsks, StillAgrees, Zenon
  <2>4. PICK w : w = [pc |-> "add", who |-> pend[s].who, ext |-> pend[s].ext]
    BY Zenon
  <2>5. th' = [th EXCEPT ![s] = w] /\ w.pc = "add" /\ w.who = {c} /\ w.ext = Written(call[c])
    BY <1>7, <2>1, <2>4, Zenon
  <2>6. th'[s] = w /\ \A t \in Threads : t # s => th'[t] = th[t]
    BY <1>1, <2>5, Zenon
  <2>7. \A b \in Clients : th'[b] = th[b]
    BY <1>1, <2>6, DisjointAssumption, Zenon DEF Threads
  <2>8. th[Owner].pc \notin {"truncate", "laminate"} /\ getting = {}
    BY <2>1, Sole, NoGetting, Zenon
  <2>9. Queries'
    <3>1. th'[Owner].pc \notin {"truncate", "laminate"} /\ th'[c].pc = "sync" /\ getting' = {}
      BY <1>0, <1>1, <2>1, <2>5, <2>6, <2>7, <2>8, Zenon
    <3>2. th'[Owner].pc = "radd" => Owner \in ex' /\ ~lam'[Owner]
      <4>1. th'[Owner].pc = "radd" => th[Owner].pc = "radd"
        BY <1>1, <2>5, <2>6, Zenon
      <4> QED BY <1>0, <4>1, Zenon DEF SettledInv, Queries
    <3>3. /\ \A t \in {c, Owner} : th'[t].pc = "truncate" => th'[t].old = ref'.size
          /\ \A t \in {c, Owner} : th'[t].pc = "laminate" => Owner \in ex' /\ lam'[Owner]
      BY <3>1, Zenon
    <3> QED BY <2>1, <2>2, <2>7, <3>1, <3>2, <3>3, QueriesOf, Zenon
  <2>10. ASSUME NEW r \in Servers PROVE OneSync(r)'
    <3>1. CASE r = s
      <4>1. NoPend.who = {}
        BY Zenon DEF NoPend
      <4> QED BY <1>0, <1>2, <1>7, <2>1, <2>2, <2>5, <2>6, <3>1, <4>1, Zenon DEF OneSync
    <3>2. CASE r # s
      <4>1. OneSync(r) /\ th'[r] = th[r] /\ pend'[r] = pend[r]
        BY <1>1, <1>2, <2>6, <3>2, Zenon DEF SettledInv
      <4> QED BY <1>0, <2>2, <4>1, Zenon DEF OneSync
    <3> QED BY <3>1, <3>2, Zenon
  <2>11. SettledInv'
    BY <1>3, <2>1, <2>2, <2>3, <2>9, <2>10, GoesOn, Zenon
  <2> QED BY <2>2, <2>11, Zenon
<1> QED BY <1>5, <1>6, <1>7, Zenon DEF ProcessSync

\* The threads that worked on a sync are ready again.
LEMMA SyncEnds ==
    ASSUME SettledInv, ThreadInv', NEW c \in Clients, call[c] # Idle, call[c].op = "sync",
           \A b \in Clients : call'[b] = Idle \/ (b # c /\ call'[b] = call[b]),
           UNCHANGED getting, UNCHANGED pend, \A t \in Threads : th'[t] = th[t] \/ th'[t] = Ready,
           NoEmptyNews', Within(ref'.ext, ref'.size), Settling'
    PROVE  SettledInv'
<1>1. getting' = {}
  BY NoGetting, Zenon
<1>2. \A s \in Servers : th'[s] = th[s] \/ th'[s].pc \notin {"add", "addrpc"}
  BY ReadyIs, Zenon DEF Threads
<1> QED BY <1>1, <1>2, Over, Zenon

LEMMA SyncAddSettled ==
    ASSUME SettledInv, ThreadInv', NEW s \in Servers, SyncAdd(s)
    PROVE  SettledInv' /\ (UNCHANGED <<ref, call, ret>> \/ \E c \in Clients : AF!Return(c))
<1>0. th[s].pc = "add" /\ AddExtents(s, th[s].ext) /\ UNCHANGED getting /\ UNCHANGED queue
  BY Zenon DEF SyncAdd, Added
<1>1. /\ StateOK /\ Owner \in Servers /\ DOMAIN th = Threads /\ s \in Threads /\ Owner \in Threads /\ s \notin Clients
      /\ NoEmptyNews' /\ ext[s] \in Contents /\ ref.ext \in Contents
  BY <1>0, Has, Parts, DisjointAssumption, Zenon DEF SettledInv, Threads, NoEmptyNews
<1>2. PICK c \in Clients : /\ call[c] # Idle /\ call[c] \in Calls /\ call[c].op = "sync" /\ call[c].first <= call[c].last
                           /\ th[s].who = {c} /\ th[c].pc = "sync" /\ Home[c] = s /\ th[s].ext = Written(call[c])
                           /\ s \in ex /\ ~lam[s]
  BY <1>0, WorkOf, Zenon
<1>3. PICK over : over = th[s].ext
  BY Zenon
<1>4. over \in Contents /\ over = Written(call[c]) /\ AddExtents(s, over)
  BY <1>0, <1>2, <1>3, WrittenIs, Zenon
<1>5. CASE s = Owner
  <2>1. PICK P : P = th[s].who
    BY Zenon
  <2>2. /\ FinishSyncs(P, over, TRUE) /\ UNCHANGED chan
        /\ th' = [t \in Threads |-> IF t \in P \cup {s} THEN Ready ELSE th[t]]
    BY <1>3, <1>5, <2>1, Zenon DEF SyncAdd
  <2>3. P = {c} /\ P \in SUBSET Clients
    BY <1>2, <2>1, Zenon
  <2>4. \A d \in Servers, m \in Messages : Carried(d, m)' => Carried(d, m)
    BY <1>0, <2>2, Zenon DEF Carried
  <2>5. AddExtents(Owner, over) /\ Owner \in ex /\ ~lam[Owner]
    BY <1>2, <1>4, <1>5, Zenon
  <2>6. /\ Settling' /\ Within(ref'.ext, ref'.size) /\ AF!Return(c) /\ pend' = pend
        /\ \A b \in Clients : call'[b] = Idle \/ (b # c /\ call'[b] = call[b])
    BY <1>2, <1>4, <2>2, <2>3, <2>4, <2>5, Synced, Zenon
  <2>7. \A t \in Threads : th'[t] = th[t] \/ th'[t] = Ready
    BY <2>2, Zenon
  <2>8. SettledInv'
    BY <1>0, <1>1, <1>2, <2>6, <2>7, SyncEnds, Zenon
  <2> QED BY <2>6, <2>8, Zenon
<1>6. CASE s # Owner
  <2>1. /\ Send(s, Owner, [op |-> "add", who |-> s, ext |-> th[s].ext])
        /\ th' = [th EXCEPT ![s].pc = "addrpc"] /\ UNCHANGED client
    BY <1>6, Zenon DEF SyncAdd
  <2>2. call' = call /\ ref' = ref /\ ret' = ret
    BY <2>1, Zenon DEF client
  <2>3. /\ th'[s] = [th[s] EXCEPT !.pc = "addrpc"] /\ \A t \in Threads : t # s => th'[t] = th[t]
    BY <1>1, <2>1, Zenon
  <2>4. th'[s].pc = "addrpc" /\ th'[s].who = {c} /\ th'[s].ext = over
    <3>1. th[s] = [pc |-> th[s].pc, who |-> th[s].who, ext |-> th[s].ext]
      BY <1>0, Has, Syncing, Zenon
    <3> QED BY <1>2, <1>3, <2>3, <3>1, Zenon
  <2>5. \A b \in Clients : th'[b] = th[b]
    BY <1>1, <2>3, Zenon DEF Threads
  <2>6. \A d \in Servers, x \in Messages : Carried(d, x)' => Carried(d, x) \/ x.op \notin Broadcasts
    <3>1. PICK m : m = [op |-> "add", who |-> s, ext |-> over]
      BY Zenon
    <3>2. m \in Messages /\ m.op = "add" /\ Send(s, Owner, m)
      BY <1>3, <1>4, <2>1, <3>1, Zenon DEF Messages
    <3>3. \A d \in Servers, x \in Messages : Carried(d, x)' => Carried(d, x) \/ (d = Owner /\ x = m)
      BY <1>0, <1>1, <3>2, SendMoves, Zenon
    <3> QED BY <3>2, <3>3, Zenon DEF Broadcasts
  <2>7. /\ s \in ex' /\ lam'[s] = lam[s] /\ ext'[s] = Overlay(ext[s], over)
        /\ (\A d \in Servers : d # s => SameInode(d)) /\ ex' = ex /\ lam' = lam /\ pend' = pend
    BY <1>1, <1>2, <1>4, AddExtentsIs, Zenon
  <2>8. \A r \in Servers : Agrees(r)
    BY <1>0, <1>2, NoneAsks, Zenon
  <2>9. AheadSync(c, s)'
    <3>1. ref.exists /\ Behind(s)
      BY <1>2, <1>6, <2>8, Knows, Zenon
    <3>2. IF ref.lam THEN ref.ext = Empty \/ ~Shared ELSE Covers(Overlay(ext[s], over), Overlay(ref.ext, over))
      BY <1>1, <1>4, <3>1, CoversFacts, Zenon DEF Behind
    <3> QED BY <1>2, <1>6, <2>2, <2>4, <2>7, <3>1, <3>2, Zenon DEF AheadSync
  <2>10. ASSUME NEW r \in Servers PROVE Agrees(r)' \/ Ahead(c, r)'
    <3>1. CASE r = s
      BY <2>9, <3>1, Zenon DEF Ahead
    <3>2. CASE r # s
      BY <2>2, <2>7, <2>8, <3>2, StillAgrees, Zenon
    <3> QED BY <3>1, <3>2, Zenon
  <2>11. Queries'
    <3>1. th[Owner].pc \notin {"truncate", "laminate"} /\ getting = {} /\ th'[Owner] = th[Owner]
      BY <1>1, <1>2, <1>6, <2>3, Sole, NoGetting, Zenon
    <3>2. th'[Owner].pc = "radd" => Owner \in ex' /\ ~lam'[Owner]
      BY <2>7, <3>1, Zenon DEF SettledInv, Queries
    <3>3. /\ \A t \in {c, Owner} : th'[t].pc = "truncate" => th'[t].old = ref'.size
          /\ \A t \in {c, Owner} : th'[t].pc = "laminate" => Owner \in ex' /\ lam'[Owner]
      BY <1>2, <2>5, <3>1, Zenon
    <3> QED BY <1>0, <1>2, <2>2, <2>5, <3>1, <3>2, <3>3, QueriesOf, Zenon
  <2>12. ASSUME NEW r \in Servers PROVE OneSync(r)'
    <3>0. OneSync(r)
      BY Zenon DEF SettledInv
    <3>1. CASE r = s
      BY <1>2, <1>4, <2>2, <2>4, <2>7, <3>0, <3>1, Zenon DEF OneSync
    <3>2. CASE r # s
      <4>1. th'[r] = th[r]
        BY <2>3, <3>2, Zenon DEF Threads
      <4> QED BY <2>2, <2>7, <3>0, <4>1, Zenon DEF OneSync
    <3> QED BY <3>1, <3>2, Zenon
  <2>13. SettledInv'
    BY <1>1, <1>2, <2>2, <2>6, <2>10, <2>11, <2>12, GoesOn, ZenonT(30)
  <2> QED BY <2>2, <2>13, Zenon
<1> QED BY <1>5, <1>6, Zenon

\* The server that waits for the owner, and its client.
LEMMA AddOf ==
    ASSUME SettledInv, Serves(Owner, "add"), UNCHANGED chan, NEW r, r = Head(queue[Owner]).who
    PROVE  /\ r \in Servers /\ r # Owner /\ th[r].pc = "addrpc" /\ Head(queue[Owner]).ext = th[r].ext
           /\ NoEmptyNews' /\ \A d \in Servers, x \in Messages : Carried(d, x)' => Carried(d, x)
<1>1. ThreadInv /\ StateOK /\ NoEmptyNews /\ Owner \in Servers
  BY Has, Zenon DEF SettledInv
<1>2. /\ r \in Servers /\ r # Owner /\ th[r].pc = "addrpc" /\ Head(queue[Owner]).ext = th[r].ext
      /\ \A d \in Servers, x \in Messages : Carried(d, x)' => Carried(d, x)
  BY <1>1, AddServed, Zenon
<1> QED BY <1>1, <1>2, ServeNoEmpty, Zenon

LEMMA AddAtOwnerSettled ==
    ASSUME SettledInv, ThreadInv', AddAtOwner
    PROVE  SettledInv' /\ (UNCHANGED <<ref, call, ret>> \/ \E c \in Clients : AF!Return(c))
<1>0. Serves(Owner, "add") /\ UNCHANGED inode /\ UNCHANGED getting /\ UNCHANGED chan /\ UNCHANGED pend
  BY Zenon DEF AddAtOwner, inode
<1>1. PICK r : r = Head(queue[Owner]).who
  BY Zenon
<1>2. /\ r \in Servers /\ r # Owner /\ th[r].pc = "addrpc" /\ Head(queue[Owner]).ext = th[r].ext
      /\ NoEmptyNews' /\ \A d \in Servers, x \in Messages : Carried(d, x)' => Carried(d, x)
  BY <1>0, <1>1, AddOf, Zenon
<1>3. PICK c \in Clients : /\ call[c] # Idle /\ call[c] \in Calls /\ call[c].op = "sync" /\ th[c].pc = "sync"
                           /\ th[r].who = {c} /\ r \in ex /\ ~lam[r]
  BY <1>2, WorkOf, Zenon
<1>4. /\ StateOK /\ Owner \in Servers /\ DOMAIN th = Threads /\ Owner \in Threads /\ Owner \notin Clients /\ r \in Threads
      /\ Within(ref.ext, ref.size) /\ InCall(c) /\ OwnerAgrees
  BY <1>2, <1>3, Has, Parts, DisjointAssumption, Sole, OwnerAgreed, Zenon DEF Threads
<1>5. \A s \in Servers : SameInode(s)
  BY <1>0, Zenon DEF inode, SameInode
<1>6. ref.exists
  BY <1>2, <1>3, <1>4, Knows, Zenon DEF InCall, Ahead, AheadCreate, AheadSync, AheadLaminate
<1>7. CASE Owner \notin ex \/ lam[Owner]
  <2>1. ref.lam
    BY <1>4, <1>6, <1>7, Zenon DEF OwnerAgrees
  <2>2. SyncAnswer(r, FALSE)
    BY <1>1, <1>7, Zenon DEF AddAtOwner
  <2>3. PICK P : P = th[r].who
    BY Zenon
  <2>4. PICK over : over = th[r].ext
    BY Zenon
  <2>5. FinishSyncs(P, over, FALSE) /\ th' = [t \in Threads |-> IF t \in P \cup {r, Owner} THEN Ready ELSE th[t]]
    BY <2>2, <2>3, <2>4, Zenon DEF SyncAnswer
  <2>6. P = {c}
    BY <1>3, <2>3, Zenon
  <2>7. /\ AF!Return(c) /\ ref' = ref
        /\ \A b \in Clients : call'[b] = Idle \/ (b # c /\ call'[b] = call[b])
    BY <1>3, <1>4, <2>1, <2>5, <2>6, SyncFailed, Zenon
  <2>8. ASSUME NEW s \in Servers PROVE Agrees(s)
    <3>1. Agrees(s) \/ AheadSync(c, s)
      BY <1>3, <1>4, Zenon DEF InCall, Ahead, AheadCreate, AheadLaminate
    <3>2. CASE AheadSync(c, s)
      BY <2>1, <3>2, Zenon DEF AheadSync, Agrees, CopyAgrees, Behind
    <3> QED BY <3>1, <3>2, Zenon
  <2>9. \A s \in Servers : Agrees(s)'
    BY <1>5, <2>7, <2>8, StillAgrees, Zenon
  <2>10. Settling' /\ Within(ref'.ext, ref'.size)
    BY <1>2, <1>3, <1>4, <2>7, <2>9, QuietEnd, Zenon
  <2>11. \A t \in Threads : th'[t] = th[t] \/ th'[t] = Ready
    BY <2>5, Zenon
  <2>12. SettledInv'
    BY <1>0, <1>2, <1>3, <2>7, <2>10, <2>11, SyncEnds, Zenon
  <2> QED BY <2>7, <2>12, Zenon
<1>8. CASE ~(Owner \notin ex \/ lam[Owner])
  <2>1. PICK w : w = [pc |-> "radd", who |-> Head(queue[Owner]).who, ext |-> Head(queue[Owner]).ext]
    BY Zenon
  <2>2. th' = [th EXCEPT ![Owner] = w] /\ UNCHANGED client /\ w.pc = "radd"
    BY <1>8, <2>1, Zenon DEF AddAtOwner
  <2>3. call' = call /\ ref' = ref /\ ret' = ret
    BY <2>2, Zenon DEF client
  <2>4. th'[Owner] = w /\ \A t \in Threads : t # Owner => th'[t] = th[t]
    BY <1>4, <2>2, Zenon
  <2>5. \A b \in Clients : th'[b] = th[b]
    BY <1>4, <2>4, Zenon DEF Threads
  <2>6. \A s \in Servers : th'[s] = th[s] \/ th'[s].pc \notin {"add", "addrpc"}
    BY <2>2, <2>4, Zenon DEF Threads
  <2>7. Owner \in ex' /\ ~lam'[Owner] /\ ex' = ex /\ lam' = lam
    BY <1>0, <1>8, Zenon DEF inode
  <2>8. Queries'
    <3>1. th'[Owner].pc = "radd" /\ th'[c].pc = "sync" /\ getting' = {}
      BY <1>0, <1>3, <2>2, <2>4, <2>5, NoGetting, Zenon
    <3>2. /\ \A t \in {c, Owner} : th'[t].pc = "truncate" => th'[t].old = ref'.size
          /\ \A t \in {c, Owner} : th'[t].pc = "laminate" => Owner \in ex' /\ lam'[Owner]
      BY <3>1, Zenon
    <3> QED BY <1>3, <2>3, <2>5, <2>7, <3>1, <3>2, QueriesOf, Zenon
  <2>9. \A s \in Servers : OneSync(s)'
    BY <1>0, <1>3, <2>3, <2>6, <2>7, SyncsStay, Zenon
  <2>10. ASSUME NEW s \in Servers PROVE Agrees(s)' \/ Ahead(c, s)'
    <3>1. Agrees(s) \/ AheadSync(c, s)
      BY <1>3, <1>4, Zenon DEF InCall, Ahead, AheadCreate, AheadLaminate
    <3>2. CASE Agrees(s)
      BY <1>5, <2>3, <3>2, StillAgrees, Zenon
    <3>3. CASE AheadSync(c, s)
      <4>1. th'[s] = th[s] /\ SameInode(s)
        BY <1>5, <2>4, <3>3, Zenon DEF AheadSync, Threads
      <4> QED BY <2>3, <3>3, <4>1, Zenon DEF Ahead, AheadSync, SameInode
    <3> QED BY <3>1, <3>2, <3>3, Zenon
  <2>11. SettledInv'
    BY <1>2, <1>3, <2>3, <2>8, <2>9, <2>10, GoesOn, Zenon
  <2> QED BY <2>3, <2>11, Zenon
<1> QED BY <1>7, <1>8, Zenon

LEMMA AddAtOwnerEndSettled ==
    ASSUME SettledInv, ThreadInv', AddAtOwnerEnd
    PROVE  SettledInv' /\ \E c \in Clients : AF!Return(c)
<1>1. PICK r : r = th[Owner].who
  BY Zenon
<1>0. /\ th[Owner].pc = "radd" /\ UNCHANGED queue /\ UNCHANGED chan /\ UNCHANGED getting
      /\ AddExtents(Owner, th[Owner].ext) /\ SyncAnswer(r, TRUE)
  BY <1>1, Zenon DEF AddAtOwnerEnd, Added
<1>2. r \in Servers /\ r # Owner /\ th[r].pc = "addrpc" /\ th[Owner].ext = th[r].ext
  <2>1. OwnerOK /\ Waits(r, "add")
    BY <1>0, <1>1, Has, Parts, Zenon DEF OwnerOK
  <2> QED BY <1>0, <1>1, <2>1, Zenon DEF OwnerOK, Waits, ClientOps
<1>3. PICK c \in Clients : /\ call[c] # Idle /\ call[c] \in Calls /\ call[c].op = "sync" /\ call[c].first <= call[c].last
                           /\ th[r].who = {c} /\ th[r].ext = Written(call[c])
  BY <1>2, WorkOf, Zenon
<1>4. PICK over : over = th[r].ext
  BY Zenon
<1>5. PICK P : P = th[r].who
  BY Zenon
<1>6. over \in Contents /\ over = Written(call[c]) /\ P = {c} /\ P \in SUBSET Clients /\ AddExtents(Owner, over)
  BY <1>0, <1>2, <1>3, <1>4, <1>5, WrittenIs, Zenon
<1>7. FinishSyncs(P, over, TRUE) /\ th' = [t \in Threads |-> IF t \in P \cup {r, Owner} THEN Ready ELSE th[t]]
  BY <1>0, <1>4, <1>5, ZenonT(30) DEF SyncAnswer
<1>8. Owner \in ex /\ ~lam[Owner] /\ NoEmptyNews'
  BY <1>0, Zenon DEF SettledInv, Queries, NoEmptyNews
<1>9. \A d \in Servers, m \in Messages : Carried(d, m)' => Carried(d, m)
  BY <1>0, Zenon DEF Carried
<1>10. /\ Settling' /\ Within(ref'.ext, ref'.size) /\ AF!Return(c) /\ pend' = pend
       /\ \A b \in Clients : call'[b] = Idle \/ (b # c /\ call'[b] = call[b])
  BY <1>3, <1>6, <1>7, <1>8, <1>9, Synced, Zenon
<1>11. \A t \in Threads : th'[t] = th[t] \/ th'[t] = Ready
  BY <1>7, Zenon
<1>12. SettledInv'
  BY <1>0, <1>3, <1>8, <1>10, <1>11, SyncEnds, Zenon
<1> QED BY <1>10, <1>12, Zenon

------------------------------------------------------------------------------
(* Broadcasts *)

\* What the handler of a broadcast has.
LEMMA Heard ==
    ASSUME SettledInv, NEW s \in Servers, NEW op \in Broadcasts, Serves(s, op)
    PROVE  /\ StateOK /\ Head(queue[s]) \in Messages /\ Head(queue[s]).op = op
           /\ op # "b_unlink" => s # Owner
           /\ op = "b_laminate" => Head(queue[s]).ext # Empty
           /\ ref.ext \in Contents /\ ref.size \in Sizes /\ ext[s] \in Contents
<1>1. StateOK /\ ThreadInv /\ NoEmptyNews /\ ref.ext \in Contents /\ ref.size \in Sizes /\ ext[s] \in Contents
  BY Has, Zenon DEF SettledInv
<1>2. /\ Head(queue[s]) \in Messages /\ Head(queue[s]).op = op /\ Carried(s, Head(queue[s]))
      /\ queue[s] # <<>> /\ queue[s] \in Seq(Messages)
  BY <1>1, ServeMoves, Zenon
<1>3. MessageOK(s, Head(queue[s]))
  BY <1>1, <1>2, Zenon DEF ThreadInv
<1>4. op # "b_unlink" => s # Owner
  BY <1>2, <1>3, Zenon DEF MessageOK, Broadcasts
<1>5. 1 \in 1 .. Len(queue[s]) /\ queue[s][1] = Head(queue[s])
  BY <1>2
<1>6. op = "b_laminate" => Head(queue[s]).ext # Empty
  BY <1>1, <1>2, <1>5, Zenon DEF NoEmptyNews
<1> QED BY <1>1, <1>2, <1>4, <1>6, Zenon

LEMMA CreateAtOtherSettled ==
    ASSUME SettledInv, ThreadInv', NEW s \in Servers, CreateAtOther(s)
    PROVE  SettledInv' /\ UNCHANGED <<ref, call, ret>>
<1>0. Serves(s, "b_create") /\ UNCHANGED <<getting, chan, th, client, applied>> /\ "b_create" \in Broadcasts /\ ref' = ref
  BY Zenon DEF CreateAtOther, Broadcasts, client
<1>1. StateOK /\ Head(queue[s]).op = "b_create" /\ s # Owner
  BY <1>0, Heard, Zenon
<1>2. CASE s \in ex
  <2>1. \A d \in Servers : SameInode(d) /\ pend'[d] = pend[d]
    BY <1>2, Zenon DEF CreateAtOther, inode, SameInode
  <2>2. Settles(s, Head(queue[s])) => Agrees(s)'
    BY <1>0, <1>1, <1>2, <2>1, StillAgrees, Zenon DEF Settles
  <2>3. \A m \in Messages : Settles(s, m) => Settles(s, m)'
    BY <1>0, <2>1, StillSettles, Zenon
  <2> QED BY <1>0, <2>1, <2>2, <2>3, HandledEnd, Zenon
<1>3. CASE s \notin ex
  <2>1. NewInode(s, FALSE, 0)
    BY <1>3, Zenon DEF CreateAtOther
  <2>2. /\ s \in ex' /\ lam'[s] = FALSE /\ ext'[s] = Empty
        /\ \A d \in Servers : d # s => SameInode(d)
        /\ \A d \in Servers : pend'[d] = pend[d] \/ pend'[d] = NoPend
    BY <1>1, <2>1, NewInodeIs, ZenonT(30)
  <2>3. Settles(s, Head(queue[s])) => Agrees(s)' /\ ref.exists /\ ~ref.lam
    <3>1. Covers(ext'[s], ref'.ext)
      BY <2>2, EmptyCovered, Zenon
    <3> QED BY <1>0, <1>1, <2>2, <3>1, Zenon DEF Settles, Agrees, CopyAgrees, Behind
  <2>4. \A m \in Messages : Settles(s, Head(queue[s])) /\ Settles(s, m) => Settles(s, m)'
    <3> SUFFICES ASSUME NEW m \in Messages, Settles(s, Head(queue[s])), Settles(s, m) PROVE Settles(s, m)'
      BY Zenon
    <3>1. m.op \notin {"b_truncate", "b_laminate", "b_unlink"} /\ Agrees(s)' /\ ref.exists /\ ~ref.lam
      BY <1>3, <2>3, Zenon DEF Settles
    <3> QED BY <1>0, <3>1, Zenon DEF Settles
  <2> QED BY <1>0, <2>2, <2>3, <2>4, HandledEnd, Zenon
<1> QED BY <1>2, <1>3, Zenon

LEMMA TruncateAtOtherSettled ==
    ASSUME SettledInv, ThreadInv', NEW s \in Servers, TruncateAtOther(s)
    PROVE  SettledInv' /\ UNCHANGED <<ref, call, ret>>
<1>0. Serves(s, "b_truncate") /\ UNCHANGED <<getting, chan, th, client, applied>> /\ "b_truncate" \in Broadcasts /\ ref' = ref
  BY Zenon DEF TruncateAtOther, Broadcasts, client
<1>1. /\ StateOK /\ Head(queue[s]).op = "b_truncate" /\ s # Owner /\ ref.ext \in Contents /\ ext[s] \in Contents
      /\ Head(queue[s]).size \in Sizes
  BY <1>0, Heard, Has, ServedData, Zenon
<1>2. CASE s \in ex /\ ~lam[s]
  <2>1. TruncateInode(s, Head(queue[s]).size)
    BY <1>2, Zenon DEF TruncateAtOther
  <2>2. PICK n : n = Head(queue[s]).size
    BY Zenon
  <2>3. /\ s \in ex' /\ lam'[s] = lam[s] /\ ext'[s] = Cut(ext[s], n)
        /\ (\A d \in Servers : d # s => SameInode(d)) /\ pend' = pend
    BY <1>1, <1>2, <2>1, <2>2, TruncateInodeIs, Zenon
  <2>4. ASSUME Settles(s, Head(queue[s])) PROVE Agrees(s)' /\ ref.exists /\ ~ref.lam /\ Covers(ext'[s], ref.ext)
    BY <1>0, <1>1, <1>2, <2>2, <2>3, <2>4, Zenon DEF Settles, Agrees, CopyAgrees, Behind
  <2>5. ext'[s] \in Contents
    BY <1>1, <2>2, <2>3, DataTypes, Zenon
  <2>6. ASSUME NEW m \in Messages, Settles(s, Head(queue[s])), Settles(s, m) PROVE Settles(s, m)'
    <3>1. m.op \notin {"b_laminate", "b_unlink"}
      BY <2>4, <2>6, Zenon DEF Settles
    <3>2. m.op = "b_truncate" => Covers(Cut(ext'[s], m.size), ref.ext)
      <4>1. m.op = "b_truncate" => m.size \in Sizes
        BY Zenon DEF Messages, ClientOps
      <4> QED BY <1>1, <2>4, <2>5, <2>6, <4>1, CoversFacts, Zenon
    <3> QED BY <1>0, <1>2, <2>3, <2>4, <2>6, <3>1, <3>2, Zenon DEF Settles
  <2> QED BY <1>0, <2>3, <2>4, <2>6, HandledEnd, Zenon
<1>3. CASE ~(s \in ex /\ ~lam[s])
  <2>1. \A d \in Servers : SameInode(d) /\ pend'[d] = pend[d]
    BY <1>3, Zenon DEF TruncateAtOther, inode, SameInode
  <2>2. ~Settles(s, Head(queue[s]))
    BY <1>1, <1>3, Zenon DEF Settles
  <2> QED BY <1>0, <2>1, <2>2, HandledEnd, Zenon
<1> QED BY <1>2, <1>3, Zenon

LEMMA LaminateAtOtherSettled ==
    ASSUME SettledInv, ThreadInv', NEW s \in Servers, LaminateAtOther(s)
    PROVE  SettledInv' /\ UNCHANGED <<ref, call, ret>>
<1>0. /\ Serves(s, "b_laminate") /\ UNCHANGED <<getting, chan, th, client, applied>> /\ "b_laminate" \in Broadcasts /\ ref' = ref
      /\ UNCHANGED pend
  BY Zenon DEF LaminateAtOther, Broadcasts, client
<1>1. /\ StateOK /\ Head(queue[s]).op = "b_laminate" /\ s # Owner /\ ref.ext \in Contents /\ ext[s] \in Contents
      /\ Head(queue[s]).ext # Empty
  BY <1>0, Heard, Zenon
<1>2. PICK x : x = Head(queue[s])
  BY Zenon
<1>3. PICK e : e = IF s \in ex /\ lam[s] THEN ext[s] ELSE Overlay(IF s \in ex THEN ext[s] ELSE Empty, x.ext)
  BY Zenon
<1>4. /\ ex' = ex \cup {s} /\ lam' = [lam EXCEPT ![s] = TRUE] /\ size' = [size EXCEPT ![s] = x.size]
      /\ ext' = [ext EXCEPT ![s] = e]
  <2>1. ex' = ex \cup {s} /\ lam' = [lam EXCEPT ![s] = TRUE] /\ size' = [size EXCEPT ![s] = x.size]
    BY <1>2, Zenon DEF LaminateAtOther
  <2>2. ext' = [ext EXCEPT ![s] = e]
    <3>1. CASE s \in ex
      BY <1>2, <1>3, <3>1, Zenon DEF LaminateAtOther
    <3>2. CASE s \notin ex
      BY <1>2, <1>3, <3>2, Zenon DEF LaminateAtOther
    <3> QED BY <3>1, <3>2, Zenon
  <2> QED BY <2>1, <2>2, Zenon
<1>5. /\ s \in ex' /\ lam'[s] = TRUE /\ size'[s] = x.size /\ ext'[s] = e
      /\ \A d \in Servers : d # s => SameInode(d)
  BY <1>1, <1>4, Zenon DEF StateOK, InodeOK, SameInode
<1>6. ASSUME Settles(s, Head(queue[s])) PROVE Agrees(s)' /\ ref.exists /\ ref.lam
  <2>1. /\ ref.exists /\ ref.lam /\ Shared /\ s \in ex /\ x.size = ref.size /\ x.ext = ref.ext /\ x.ext # Empty
        /\ Agrees(s) \/ (~lam[s] /\ Covers(ext[s], ref.ext))
    BY <1>1, <1>2, <1>6, Zenon DEF Settles
  <2>2. e = ref.ext
    <3>1. CASE lam[s]
      BY <1>3, <2>1, <3>1, Knows, Zenon
    <3>2. CASE ~lam[s]
      <4>1. Covers(ext[s], ref.ext)
        BY <1>1, <2>1, <3>2, Knows, Zenon DEF Behind
      <4>2. Overlay(ext[s], ref.ext) = ref.ext
        BY <1>1, <4>1, CoversFacts, Zenon
      <4> QED BY <1>3, <2>1, <3>2, <4>2, Zenon
    <3> QED BY <3>1, <3>2, Zenon
  <2> QED BY <1>0, <1>1, <1>5, <2>1, <2>2, Zenon DEF Agrees, CopyAgrees
<1>7. ASSUME NEW m \in Messages, Settles(s, Head(queue[s])), Settles(s, m) PROVE Settles(s, m)'
  <2>1. m.op \notin {"b_create", "b_truncate", "b_unlink"}
    BY <1>6, <1>7, Zenon DEF Settles
  <2> QED BY <1>0, <1>5, <1>6, <1>7, <2>1, ZenonT(30) DEF Settles
<1> QED BY <1>0, <1>5, <1>6, <1>7, HandledEnd, Zenon

LEMMA UnlinkAtOtherSettled ==
    ASSUME SettledInv, ThreadInv', NEW s \in Servers, UnlinkAtOther(s)
    PROVE  SettledInv' /\ UNCHANGED <<ref, call, ret>>
<1>0. /\ Serves(s, "b_unlink") /\ UNCHANGED <<getting, chan, th, client, applied>> /\ "b_unlink" \in Broadcasts /\ ref' = ref
      /\ Destroy(s)
  BY Zenon DEF UnlinkAtOther, Broadcasts, client
<1>1. StateOK /\ Head(queue[s]).op = "b_unlink"
  BY <1>0, Heard, Zenon
<1>2. /\ s \notin ex' /\ \A d \in Servers : d # s => SameInode(d)
      /\ \A d \in Servers : pend'[d] = pend[d] \/ pend'[d] = NoPend
  BY <1>0, <1>1, DestroyIs, Zenon
<1>3. ASSUME Settles(s, Head(queue[s])) PROVE Agrees(s)' /\ ~ref.exists
  BY <1>0, <1>1, <1>2, <1>3, Zenon DEF Settles, Agrees, OwnerAgrees, CopyAgrees
<1>4. ASSUME NEW m \in Messages, Settles(s, Head(queue[s])), Settles(s, m) PROVE Settles(s, m)'
  BY <1>0, <1>3, <1>4, Zenon DEF Settles
<1> QED BY <1>0, <1>2, <1>3, <1>4, HandledEnd, Zenon

LEMMA DeliverSettled ==
    ASSUME SettledInv, ThreadInv', NEW src \in Servers, NEW dst \in Servers, Deliver(src, dst)
    PROVE  SettledInv' /\ UNCHANGED <<ref, call, ret>>
<1>0. UNCHANGED inode /\ UNCHANGED getting /\ UNCHANGED th /\ UNCHANGED <<ref, call, ret>>
  BY Zenon DEF Deliver, client
<1>1. StateOK /\ ThreadInv /\ NoEmptyNews
  BY Has, Zenon DEF SettledInv
<1>2. NoEmptyNews' /\ \A d \in Servers, x \in Messages : Carried(d, x)' => Carried(d, x)
  BY <1>1, DeliverMoves, DeliverNoEmpty, Zenon
<1>3. ASSUME NEW d \in Servers, NEW x \in Messages, Settles(d, x), Carried(d, x) PROVE Carried(d, x)' \/ Agrees(d)
  <2>1. CASE ~(x.op = "b_laminate" /\ x.ext = Empty)
    BY <1>1, <1>3, <2>1, DeliverKeeps, Zenon
  <2>2. CASE x.op = "b_laminate" /\ x.ext = Empty
    <3>1. d # Owner
      BY <1>1, <1>3, <2>2, Zenon DEF ThreadInv, MessageOK
    <3> QED BY <1>3, <2>2, <3>1, Zenon DEF Settles, Agrees, CopyAgrees, Behind
  <2> QED BY <2>1, <2>2, Zenon
<1>4. \A s \in Servers : SameInode(s) /\ pend'[s] = pend[s]
  BY <1>0, Zenon DEF inode, SameInode
<1> QED BY <1>0, <1>2, <1>3, <1>4, Unmoved, Zenon

LEMMA SyncSubmitSettled ==
    ASSUME SettledInv, ThreadInv', NEW c \in Clients, SyncSubmit(c)
    PROVE  SettledInv' /\ UNCHANGED <<ref, call, ret>>
<1> DEFINE m == [op |-> "sync"]
<1>0. /\ UNCHANGED inode /\ UNCHANGED getting /\ UNCHANGED chan /\ UNCHANGED th /\ UNCHANGED <<ref, call, ret>>
      /\ queue' = [queue EXCEPT ![Home[c]] = Append(queue[Home[c]], m)]
  BY Zenon DEF SyncSubmit
<1>1. StateOK /\ ThreadInv /\ NoEmptyNews /\ Home[c] \in Servers
  BY Has, Working, Zenon DEF SettledInv
<1>2. m \in Messages /\ m.op = "sync" /\ ~Personal(m)
  BY MessageTypes, Zenon DEF Personal, ClientOps
<1> HIDE DEF m
<1>3. /\ \A d \in Servers, x \in Messages : Carried(d, x)' => Carried(d, x) \/ x = m
      /\ \A d \in Servers : \A i \in 1 .. Len(queue[d]) : i \in 1 .. Len(queue'[d]) /\ queue'[d][i] = queue[d][i]
  BY <1>0, <1>1, <1>2, QueueMoves, Zenon
<1>4. NoEmptyNews'
  <2> SUFFICES ASSUME NEW d \in Servers, NEW k \in 1 .. Len(queue'[d]), queue'[d][k].op = "b_laminate"
               PROVE  queue'[d][k].ext # Empty
    BY Zenon DEF NoEmptyNews
  <2>1. queue \in [Servers -> Seq(Messages)] /\ queue[d] \in Seq(Messages)
    BY <1>1, Zenon DEF StateOK, QueueOK
  <2>2. (k \in 1 .. Len(queue[d]) /\ queue'[d][k] = queue[d][k]) \/ queue'[d][k] = m
    BY <1>0, <1>1, <1>2, <2>1
  <2> QED BY <1>1, <1>2, <2>2, Zenon DEF NoEmptyNews
<1>5. \A d \in Servers, x \in Messages : Carried(d, x) => Carried(d, x)'
  BY <1>0, <1>3, Zenon DEF Carried, CarriedIn
<1>6. \A s \in Servers : SameInode(s) /\ pend'[s] = pend[s]
  BY <1>0, Zenon DEF inode, SameInode
<1> QED BY <1>0, <1>2, <1>3, <1>4, <1>5, <1>6, Unmoved, Zenon

------------------------------------------------------------------------------
(* The refinement *)

LEMMA InitSettled == ASSUME Init PROVE SettledInv /\ AF!Init
<1>0. ThreadInv /\ AF!Init
  BY InitThreads, Zenon DEF Init
<1>1. /\ th = [t \in Threads |-> Ready] /\ pend = [s \in Servers |-> NoPend] /\ ex = {} /\ getting = {}
      /\ queue = [s \in Servers |-> <<>>] /\ chan = [s \in Servers |-> [d \in Servers |-> <<>>]]
  BY Zenon DEF Init
<1>2. \A t \in Threads : th[t].pc = "idle"
  BY <1>1, ReadyIs, Zenon
<1>3. (\A c \in Clients : c \in Threads /\ call[c] = Idle) /\ (\A s \in Servers : s \in Threads) /\ Owner \in Servers
  BY <1>0, SameAnswers, Parts, Zenon DEF AF!Init, Threads
<1>4. ref.exists = FALSE /\ ref.size = 0 /\ ref.ext = Empty
  BY <1>0, SameData, Zenon DEF AF!Init
<1>5. Turns /\ Queries /\ Within(ref.ext, ref.size)
  BY <1>1, <1>2, <1>3, <1>4, EmptyCovered, Zenon DEF Turns, Queries
<1>6. \A s \in Servers : OneSync(s)
  BY <1>1, <1>2, <1>3, Zenon DEF OneSync, NoPend
<1>7. NoEmptyNews /\ \A d \in Servers, m \in Messages : ~Carried(d, m)
  BY <1>1 DEF NoEmptyNews, Carried, CarriedIn
<1>8. \A s \in Servers : Agrees(s)
  BY <1>1, <1>4, Zenon DEF Agrees, OwnerAgrees, CopyAgrees
<1>9. Settling
  BY <1>7, <1>8, Zenon DEF Settling
<1> QED BY <1>0, <1>3, <1>5, <1>6, <1>7, <1>9, Zenon DEF SettledInv

\* Every step is a call or a return of AtomicFile, or changes nothing that it has.
LEMMA NextSettled ==
    ASSUME Mode = "settled", SettledInv, [Next]_vars
    PROVE  SettledInv' /\ (UNCHANGED <<ref, call, ret>> \/ \E c \in Clients : AF!Call(c) \/ AF!Return(c))
<1>0. ThreadInv'
  BY NextThreads, Zenon DEF SettledInv
<1>1. Owner \in Clients \cup {Owner} /\ \A c \in Clients : c \in Clients \cup {Owner}
  BY Zenon
<1> DEFINE Goal == SettledInv' /\ (UNCHANGED <<ref, call, ret>> \/ \E c \in Clients : AF!Call(c) \/ AF!Return(c))
<1>2. ASSUME NEW t \in Clients \cup {Owner}, TruncateEnd(t) \/ LaminateEnd(t) PROVE Goal
  <2>1. th[t].pc \in {"truncate", "laminate"}
    BY <1>2, Zenon DEF TruncateEnd, LaminateEnd
  <2>2. th[t].who \in Clients
    BY <2>1, ForWhom, Zenon DEF SettledInv
  <2> QED BY <1>0, <1>2, <2>2, TruncateEndSettled, LaminateEndSettled, Zenon
<1>3. ASSUME NEW c \in Clients, Call(c) PROVE Goal
  BY <1>0, <1>3, CallSettled, Zenon
<1>4. ASSUME NEW t, NEW c \in Clients, Truncate(t, c) \/ Laminate(t, c) PROVE Goal
  BY <1>0, <1>4, TruncateSettled, LaminateSettled, Zenon
<1>5. ASSUME NEW c \in Clients, RequestManager(c) PROVE Goal
  <2>1. CASE Create(c) \/ Sync(c) \/ SyncSubmit(c) \/ Unlink(c)
    BY <1>0, <2>1, CreateSettled, SyncSettled, SyncSubmitSettled, UnlinkSettled, Zenon
  <2>2. CASE ReadLocal(c) \/ SizeLocal(c) \/ SizeEnd(c) \/ SizePoll(c)
    BY <1>0, <2>2, ReadLocalSettled, SizeLocalSettled, SizeEndSettled, SizePollSettled, Zenon
  <2>3. CASE ReadRemote(c) \/ SizeRemote(c) \/ \E op \in {"truncate", "laminate"} : Forwards(c, op)
    BY <1>0, <2>3, ReadRemoteSettled, SizeRemoteSettled, ForwardsSettled, Zenon
  <2> HIDE DEF Goal
  <2> QED BY <1>1, <1>2, <1>4, <1>5, <2>1, <2>2, <2>3, Zenon DEF RequestManager
<1>6. ASSUME NEW s \in Servers, ServiceManager(s) PROVE Goal
  <2>1. CASE ProcessSync(s) \/ SyncAdd(s)
    BY <1>0, <2>1, ProcessSyncSettled, SyncAddSettled, Zenon
  <2>2. CASE CreateAtOther(s) \/ TruncateAtOther(s) \/ LaminateAtOther(s) \/ UnlinkAtOther(s)
    BY <1>0, <2>2, CreateAtOtherSettled, TruncateAtOtherSettled, LaminateAtOtherSettled, UnlinkAtOtherSettled, Zenon
  <2>3. CASE AddAtOwner \/ AddAtOwnerEnd
    BY <1>0, <2>3, AddAtOwnerSettled, AddAtOwnerEndSettled, Zenon
  <2>4. CASE \E c \in Clients : CreateAtOwner(c) \/ ReadAtOwner(c) \/ SizeAtOwner(c)
    BY <1>0, <2>4, CreateAtOwnerSettled, ReadAtOwnerSettled, SizeAtOwnerSettled, Zenon
  <2> HIDE DEF Goal
  <2> QED BY <1>1, <1>2, <1>4, <1>6, <2>1, <2>2, <2>3, <2>4, Zenon DEF ServiceManager
<1>7. ASSUME NEW s \in Servers, NEW d \in Servers, Deliver(s, d) PROVE Goal
  BY <1>0, <1>7, DeliverSettled, Zenon
<1>8. ASSUME UNCHANGED vars PROVE Goal
  <2>1. /\ UNCHANGED th /\ UNCHANGED <<ref, call, ret>> /\ UNCHANGED getting /\ UNCHANGED inode /\ UNCHANGED queue /\ UNCHANGED chan
        /\ \A s \in Servers : SameInode(s) /\ pend'[s] = pend[s]
    BY <1>8, Zenon DEF vars, inode, client, SameInode
  <2>2. NoEmptyNews' /\ \A d \in Servers, x \in Messages : Carried(d, x)' <=> Carried(d, x)
    BY <2>1, Zenon DEF SettledInv, NoEmptyNews, Carried
  <2> QED BY <1>0, <2>1, <2>2, Unmoved, Zenon
<1> HIDE DEF Goal
<1>9. Goal
  BY <1>3, <1>5, <1>6, <1>7, <1>8, Zenon DEF Next
<1> QED BY <1>9, Zenon DEF Goal

\* In a program that makes a call only when everything that the previous one
\* started has ended, the servers are one copy of the file: each call returns
\* what AtomicFile says, at whatever server it is made, with unlinks and with
\* broadcasts that arrive in any order (unifyfs_request_manager.c,
\* unifyfs_service_manager.c and unifyfs_group_rpc.c).
THEOREM SettledProgramsSeeOneFile ==
    ASSUME Mode = "settled" PROVE Spec => ImplementsAtomicFile
<1>1. Init => SettledInv /\ AF!Init
  BY InitSettled, Zenon
<1>2. SettledInv /\ [Next]_vars => SettledInv' /\ [AF!Next]_(AF!avars)
  BY NextSettled, Zenon DEF AF!Next, AF!avars
<1> QED BY <1>1, <1>2, PTL DEF Spec, ImplementsAtomicFile, AF!Spec
=============================================================================
