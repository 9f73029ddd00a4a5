-------------------------- MODULE FileCommitProofs --------------------------
(* Proof that the inode of the owner is the file that the returned calls     *)
(* define, at every moment, in programs that do not unlink the file: for any *)
(* number of clients, servers, blocks and calls, and any order of arrival.   *)
EXTENDS FileServiceProofs

------------------------------------------------------------------------------
(* What the owner has, in programs that do not unlink the file *)

\* The file that the returned calls define is at the owner, at every moment and
\* whatever is under way; only a lamination shows before its call returns.
Committed ==
    /\ Owner \in ex <=> ref.exists
    /\ size[Owner] = ref.size
    /\ ext[Owner] = ref.ext
    /\ Within(ext[Owner], size[Owner])
    /\ ref.lam => lam[Owner]
    /\ lam[Owner] => Owner \in ex
    /\ \A t \in Clients \cup {Owner} : th[t].pc = "laminate" => lam[Owner]
    /\ lam[Owner] /\ ~ref.lam => \E t \in Clients \cup {Owner} : th[t].pc = "laminate"

\* Nobody removes the file, and the owner does not ask itself for the size.
Permanent ==
    /\ \A c \in Clients : call[c].op # "unlink"
    /\ \A d \in Servers, m \in Messages : Carried(d, m) => m.op # "b_unlink"
    /\ \A s \in Servers : pend[s].who # {} => s \in ex
    /\ \A c \in Clients : th[c].pc = "attr" \/ (th[c].pc = "rpc" /\ call[c].op = "size") => Home[c] # Owner

CommitInv == ThreadInv /\ Permanent /\ Committed /\ NoSyncForgotten /\ AckedAtOwner

------------------------------------------------------------------------------
(* What is committed at the owner *)

HasSync(q) == \E i \in 1 .. Len(q) : q[i].op = "sync"

OwnerSame == /\ Owner \in ex' <=> Owner \in ex
             /\ lam'[Owner] = lam[Owner] /\ size'[Owner] = size[Owner] /\ ext'[Owner] = ext[Owner]

LEMMA CommittedKept ==
    ASSUME Committed, OwnerSame, ref' = ref,
           \A t \in Clients \cup {Owner} : th'[t].pc = "laminate" <=> th[t].pc = "laminate"
    PROVE  Committed'
BY Zenon DEF Committed, OwnerSame

LEMMA CommitParts ==
    ASSUME CommitInv
    PROVE  /\ ThreadInv /\ Permanent /\ Committed /\ StateOK /\ DOMAIN th = Threads /\ Owner \in Servers /\ Owner \in Threads
           /\ NoSyncForgotten /\ AckedAtOwner
BY Parts, Zenon DEF CommitInv

\* A step that neither takes nor adds a sync, and answers none.
LEMMA CommitFrame ==
    ASSUME CommitInv, ThreadInv', Committed', UNCHANGED applied, acked' = acked, submit' = submit, ex \subseteq ex',
           \A c \in Clients : call'[c].op # "unlink",
           \A d \in Servers, m \in Messages : Carried(d, m)' => Carried(d, m) \/ m.op # "b_unlink",
           \A s \in Servers : pend'[s] = pend[s] \/ (pend'[s] = NoPend /\ s \notin ex),
           \A c \in Clients : \/ th'[c] = th[c] /\ call'[c] = call[c]
                              \/ th'[c].pc \notin {"attr", "rpc", "sync"}
                              \/ th'[c].pc # "sync" /\ (call'[c].op = "size" => Home[c] # Owner),
           \A s \in Servers : th[s].pc \in {"add", "addrpc"} => th'[s] = th[s],
           \A s \in Servers : HasSync(queue[s]) => HasSync(queue'[s])
    PROVE  CommitInv'
<1>0. Permanent /\ NoSyncForgotten /\ AckedAtOwner /\ ThreadInv
  BY CommitParts, Zenon
<1>1. \A s \in Servers : pend[s].who # {} => pend'[s] = pend[s]
  BY <1>0, Zenon DEF Permanent
<1>2. Permanent'
  <2>1. \A s \in Servers : pend'[s].who # {} => s \in ex'
    BY <1>0, Pending, Zenon DEF Permanent
  <2>2. ASSUME NEW c \in Clients, th'[c].pc = "attr" \/ (th'[c].pc = "rpc" /\ call'[c].op = "size")
        PROVE  Home[c] # Owner
    <3>1. ClientOK(c)'
      BY Zenon DEF ThreadInv
    <3>2. call'[c].op = "size"
      BY <2>2, <3>1, Zenon DEF ClientOK
    <3> QED BY <1>0, <2>2, <3>2, Zenon DEF Permanent
  <2> QED BY <1>0, <2>1, <2>2, Zenon DEF Permanent
<1>3. NoSyncForgotten'
  <2> SUFFICES ASSUME NEW c \in Clients, th'[c].pc = "sync"
               PROVE  \/ c \in pend'[Home[c]].who /\ (c \in submit' \/ HasSync(queue'[Home[c]]))
                      \/ th'[Home[c]].pc \in {"add", "addrpc"} /\ c \in th'[Home[c]].who
    BY Zenon DEF NoSyncForgotten, HasSync
  <2>1. th[c].pc = "sync" /\ Home[c] \in Servers
    BY <1>0, Working, Zenon
  <2>2. \/ c \in pend[Home[c]].who /\ (c \in submit \/ HasSync(queue[Home[c]]))
        \/ th[Home[c]].pc \in {"add", "addrpc"} /\ c \in th[Home[c]].who
    BY <1>0, <2>1, Zenon DEF NoSyncForgotten, HasSync
  <2> QED BY <1>1, <2>1, <2>2, Zenon
<1>4. AckedAtOwner'
  BY <1>0, Zenon DEF AckedAtOwner
<1> QED BY <1>2, <1>3, <1>4, Zenon DEF CommitInv

\* The queues.
LEMMA ServeKeepsSync ==
    ASSUME StateOK, NEW s \in Servers, NEW op, Serves(s, op), op # "sync"
    PROVE  \A d \in Servers : HasSync(queue[d]) => HasSync(queue'[d])
<1>1. /\ queue'[s] = Tail(queue[s]) /\ queue[s] # <<>> /\ queue[s] \in Seq(Messages) /\ Head(queue[s]).op = op
      /\ \A d \in Servers : d # s => queue'[d] = queue[d]
  BY ServeMoves, Zenon
<1>2. ASSUME HasSync(queue[s]) PROVE HasSync(queue'[s])
  <2>1. PICK i \in 1 .. Len(queue[s]) : queue[s][i].op = "sync"
    BY <1>2, Zenon DEF HasSync
  <2>2. i # 1
    BY <1>1, <2>1
  <2>3. i - 1 \in 1 .. Len(Tail(queue[s])) /\ Tail(queue[s])[i - 1] = queue[s][i]
    BY <1>1, <2>1, <2>2
  <2> QED BY <1>1, <2>1, <2>3, Zenon DEF HasSync
<1> QED BY <1>1, <1>2, Zenon

LEMMA DeliverKeepsSync ==
    ASSUME StateOK, NEW src \in Servers, NEW dst \in Servers, Deliver(src, dst)
    PROVE  \A d \in Servers : HasSync(queue[d]) => HasSync(queue'[d])
<1> SUFFICES ASSUME NEW d \in Servers, HasSync(queue[d]) PROVE HasSync(queue'[d])
  BY Zenon
<1>1. queue'[d] = queue[d] \/ \E x \in Messages : queue'[d] = Append(queue[d], x)
  BY DeliverMoves, Zenon
<1>2. queue[d] \in Seq(Messages)
  BY Zenon DEF StateOK, QueueOK
<1>3. PICK i \in 1 .. Len(queue[d]) : queue[d][i].op = "sync"
  BY Zenon DEF HasSync
<1>4. ASSUME NEW x \in Messages, queue'[d] = Append(queue[d], x) PROVE HasSync(queue'[d])
  <2>1. i \in 1 .. Len(queue'[d]) /\ queue'[d][i] = queue[d][i]
    BY <1>2, <1>4
  <2> QED BY <1>3, <2>1, Zenon DEF HasSync
<1> QED BY <1>1, <1>4, Zenon

\* A new inode away from the owner.
LEMMA NewInodeAway ==
    ASSUME StateOK, NEW s \in Servers, s \notin ex, NEW l, NEW n, NewInode(s, l, n)
    PROVE  /\ ex \subseteq ex' /\ \A r \in Servers : pend'[r] = pend[r] \/ (pend'[r] = NoPend /\ r \notin ex)
           /\ s # Owner => OwnerSame
BY OwnerAssumption, Zenon DEF NewInode, StateOK, InodeOK, OwnerSame

LEMMA SameAway == ASSUME UNCHANGED inode
                  PROVE  OwnerSame /\ ex \subseteq ex' /\ \A r \in Servers : pend'[r] = pend[r]
BY Zenon DEF inode, OwnerSame

\* A thread t that returns the call of client c.
LEMMA ReturnCommit ==
    ASSUME CommitInv, ThreadInv', Committed', UNCHANGED applied, ex \subseteq ex',
           NEW c \in Clients, NEW t \in Clients \cup {Owner}, call[c] # Idle, th[t].pc \notin {"add", "addrpc"},
           NEW a, a.ok \in BOOLEAN, Finish(c, a), Rest(t, c),
           \A d \in Servers, m \in Messages : Carried(d, m)' => Carried(d, m) \/ m.op # "b_unlink",
           \A s \in Servers : pend'[s] = pend[s] \/ (pend'[s] = NoPend /\ s \notin ex),
           \A s \in Servers : HasSync(queue[s]) => HasSync(queue'[s])
    PROVE  CommitInv'
<1>0. StateOK /\ DOMAIN th = Threads /\ c \in Threads /\ t \in Threads /\ c \notin Servers /\ Permanent /\ (t \in Servers => t = Owner)
  BY CommitParts, Working, Zenon
<1>8. submit' = submit
  BY Zenon DEF Finish
<1>1. call'[c] = Idle /\ (\A b \in Clients : b # c => call'[b] = call[b]) /\ acked' = acked
  BY <1>0, FinishType
<1> DEFINE w == Ready
<1>2. th' = [th EXCEPT ![t] = w, ![c] = w]
  BY Zenon DEF Rest
<1> HIDE DEF w
<1>3. \A x \in Threads : th'[x] = IF x = t \/ x = c THEN w ELSE th[x]
  BY <1>0, <1>2, Zenon
<1>4. w.pc = "idle" /\ Idle.op = "idle"
  BY ReadyIs, Zenon DEF w
<1>5. \A b \in Clients : call'[b].op # "unlink"
  BY <1>0, <1>1, <1>4, Zenon DEF Permanent
<1>6. \A b \in Clients : (th'[b] = th[b] /\ call'[b] = call[b]) \/ th'[b].pc \notin {"attr", "rpc", "sync"}
  <2>1. \A b \in Clients : b \in Threads
    BY Zenon DEF Threads
  <2> QED BY <1>1, <1>3, <1>4, <2>1, Zenon
<1>7. \A s \in Servers : th[s].pc \in {"add", "addrpc"} => th'[s] = th[s]
  <2>1. \A s \in Servers : s \in Threads
    BY Zenon DEF Threads
  <2> QED BY <1>0, <1>3, <2>1, Zenon
<1> QED BY <1>1, <1>5, <1>6, <1>7, <1>8, CommitFrame, Zenon

\* A client thread, or the owner's answer to it, that goes on.
LEMMA ProceedCommit ==
    ASSUME CommitInv, ThreadInv', Committed', UNCHANGED applied, UNCHANGED client, ex \subseteq ex',
           NEW t \in Clients \cup {Owner}, th[t].pc \notin {"add", "addrpc"}, NEW w, th' = [th EXCEPT ![t] = w],
           w.pc \notin {"attr", "rpc", "sync"} \/ (w.pc # "sync" /\ (call[t].op = "size" => Home[t] # Owner)),
           \A d \in Servers, m \in Messages : Carried(d, m)' => Carried(d, m) \/ m.op # "b_unlink",
           \A s \in Servers : pend'[s] = pend[s] \/ (pend'[s] = NoPend /\ s \notin ex),
           \A s \in Servers : HasSync(queue[s]) => HasSync(queue'[s])
    PROVE  CommitInv'
<1>0. StateOK /\ DOMAIN th = Threads /\ t \in Threads /\ Permanent /\ (t \in Servers => t = Owner) /\ (t \in Clients => t # Owner)
  BY CommitParts, Working, Zenon
<1>1. call' = call /\ acked' = acked /\ submit' = submit
  BY Zenon DEF client
<1>2. \A x \in Threads : th'[x] = IF x = t THEN w ELSE th[x]
  BY <1>0, Zenon
<1>3. \A b \in Clients : call'[b].op # "unlink"
  BY <1>0, <1>1, Zenon DEF Permanent
<1>4. (\A b \in Clients : b \in Threads) /\ (\A b \in Servers : b \in Threads)
  BY Zenon DEF Threads
<1>5. \A b \in Clients : \/ th'[b] = th[b] /\ call'[b] = call[b]
                         \/ th'[b].pc \notin {"attr", "rpc", "sync"}
                         \/ th'[b].pc # "sync" /\ (call'[b].op = "size" => Home[b] # Owner)
  BY <1>1, <1>2, <1>4, Zenon
<1>6. \A s \in Servers : th[s].pc \in {"add", "addrpc"} => th'[s] = th[s]
  BY <1>0, <1>2, <1>4, Zenon
<1> QED BY <1>1, <1>3, <1>5, <1>6, CommitFrame, Zenon

\* A call that returns without an effect.
LEMMA ReturnQuiet ==
    ASSUME CommitInv, ThreadInv', UNCHANGED applied, OwnerSame, ex \subseteq ex',
           NEW c \in Clients, NEW t \in Clients \cup {Owner}, call[c] # Idle,
           th[t].pc \notin {"add", "addrpc", "laminate"}, th[c].pc # "laminate",
           NEW a, a.ok \in BOOLEAN, a.ok => call[c].op \in {"read", "size"}, Finish(c, a), Rest(t, c),
           \A d \in Servers, m \in Messages : Carried(d, m)' => Carried(d, m) \/ m.op # "b_unlink",
           \A s \in Servers : pend'[s] = pend[s] \/ (pend'[s] = NoPend /\ s \notin ex),
           \A s \in Servers : HasSync(queue[s]) => HasSync(queue'[s])
    PROVE  CommitInv'
<1>0. StateOK /\ DOMAIN th = Threads /\ c \in Threads /\ t \in Threads /\ Committed
  BY CommitParts, Working, Zenon
<1>1. ref' = ref
  BY <1>0, FinishType DEF IsEffect
<1> DEFINE w == Ready
<1>2. th' = [th EXCEPT ![t] = w, ![c] = w]
  BY Zenon DEF Rest
<1> HIDE DEF w
<1>3. \A x \in Threads : th'[x] = IF x = t \/ x = c THEN w ELSE th[x]
  BY <1>0, <1>2, Zenon
<1>4. w.pc = "idle"
  BY ReadyIs, Zenon DEF w
<1>5. \A x \in Clients \cup {Owner} : th'[x].pc = "laminate" <=> th[x].pc = "laminate"
  BY <1>3, <1>4, CommitParts, Zenon DEF Threads
<1>6. Committed'
  BY <1>0, <1>1, <1>5, CommittedKept, Zenon
<1> QED BY <1>6, ReturnCommit

\* The same without any change to inodes and requests.
LEMMA ReturnLocal ==
    ASSUME CommitInv, ThreadInv', UNCHANGED applied, UNCHANGED inode, UNCHANGED queue, UNCHANGED chan,
           NEW c \in Clients, th[c].pc \notin {"idle", "laminate"},
           NEW a, a.ok \in BOOLEAN, a.ok => call[c].op \in {"read", "size"}, Finish(c, a), Rest(c, c)
    PROVE  CommitInv'
<1>1. ThreadInv /\ c \in Clients \cup {Owner} /\ call[c] # Idle
  BY CommitParts, Working, Zenon
<1>2. th[c].pc \notin {"add", "addrpc", "laminate"}
  BY <1>1, Zenon DEF ThreadInv, ClientOK
<1>3. \A d \in Servers, m \in Messages : Carried(d, m)' => Carried(d, m)
  BY <1>1, QuietMail, Zenon
<1> QED BY <1>1, <1>2, <1>3, SameAway, ReturnQuiet

\* A step of thread t that changes nothing at the owner.
LEMMA ProceedQuiet ==
    ASSUME CommitInv, ThreadInv', OwnerSame, UNCHANGED applied, UNCHANGED client, ex \subseteq ex',
           NEW t \in Clients \cup {Owner}, th[t].pc \notin {"add", "addrpc", "laminate"},
           NEW w, th' = [th EXCEPT ![t] = w],
           w.pc \notin {"attr", "rpc", "sync", "laminate"} \/ (w.pc \notin {"sync", "laminate"} /\ (call[t].op = "size" => Home[t] # Owner)),
           \A d \in Servers, m \in Messages : Carried(d, m)' => Carried(d, m) \/ m.op # "b_unlink",
           \A s \in Servers : pend'[s] = pend[s] \/ (pend'[s] = NoPend /\ s \notin ex),
           \A s \in Servers : HasSync(queue[s]) => HasSync(queue'[s])
    PROVE  CommitInv'
<1>0. DOMAIN th = Threads /\ Committed /\ t \in Threads
  BY CommitParts, Working, Zenon
<1>1. \A x \in Threads : th'[x] = IF x = t THEN w ELSE th[x]
  BY <1>0, Zenon
<1>2. \A x \in Clients \cup {Owner} : th'[x].pc = "laminate" <=> th[x].pc = "laminate"
  BY <1>1, CommitParts, Zenon DEF Threads
<1>3. ref' = ref
  BY Zenon DEF client
<1>4. Committed'
  BY <1>0, <1>2, <1>3, CommittedKept, Zenon
<1> QED BY <1>4, ProceedCommit, Zenon

LEMMA CallCommit == ASSUME CommitInv, "unlink" \notin Menu, NEW c \in Clients, Call(c) PROVE CommitInv'
<1>0. ThreadInv /\ StateOK /\ DOMAIN th = Threads /\ c \in Threads /\ Permanent /\ Committed /\ c \notin Servers /\ Owner \in Servers
  BY CommitParts, Working, Zenon
<1>1. ThreadInv'
  BY <1>0, CallThreads, Zenon
<1>2. PICK k \in Calls : call' = [call EXCEPT ![c] = k] /\ k.op \in Menu
  BY Zenon DEF Call
<1>3. call'[c] = k /\ \A b \in Clients : b # c => call'[b] = call[b]
  BY <1>0, <1>2, Zenon DEF StateOK, CallOK
<1>4. /\ UNCHANGED inode /\ UNCHANGED queue /\ UNCHANGED chan /\ UNCHANGED applied /\ ref' = ref /\ acked' = acked /\ submit' = submit
      /\ th' = [th EXCEPT ![c] = At("called", c)] /\ At("called", c).pc = "called"
  BY Zenon DEF Call, At
<1>5. \A b \in Clients : call'[b].op # "unlink"
  BY <1>0, <1>2, <1>3, Zenon DEF Permanent
<1>6. th'[c].pc = "called" /\ \A x \in Threads : x # c => th'[x] = th[x]
  BY <1>0, <1>4, Zenon
<1>7. (\A b \in Clients : b \in Threads) /\ \A b \in Servers : b \in Threads /\ b # c
  BY <1>0, Zenon DEF Threads
<1>8. th[c].pc = "idle"
  BY <1>0, Working, Zenon DEF Call
<1>9. Committed'
  <2>1. \A x \in Clients \cup {Owner} : th'[x].pc = "laminate" <=> th[x].pc = "laminate"
    BY <1>0, <1>6, <1>7, <1>8, Zenon
  <2> QED BY <1>0, <1>4, <2>1, SameAway, CommittedKept, Zenon
<1>10. /\ \A d \in Servers, m \in Messages : Carried(d, m)' => Carried(d, m)
       /\ ex \subseteq ex' /\ \A r \in Servers : pend'[r] = pend[r]
  BY <1>0, <1>4, QuietMail, SameAway, Zenon
<1>11. /\ \A b \in Clients : (th'[b] = th[b] /\ call'[b] = call[b]) \/ th'[b].pc \notin {"attr", "rpc", "sync"}
       /\ \A s \in Servers : th[s].pc \in {"add", "addrpc"} => th'[s] = th[s]
  BY <1>3, <1>6, <1>7, Zenon
<1> QED BY <1>1, <1>4, <1>5, <1>9, <1>10, <1>11, CommitFrame, Zenon

LEMMA ReadLocalCommit == ASSUME CommitInv, NEW c \in Clients, ReadLocal(c) PROVE CommitInv'
<1>0. ThreadInv /\ th[c].pc = "called" /\ call[c].op = "read"
  BY CommitParts, Working, Zenon DEF ReadLocal
<1>1. /\ Finish(c, AnswerExt(ext[Home[c]])) /\ Rest(c, c)
      /\ UNCHANGED inode /\ UNCHANGED queue /\ UNCHANGED chan /\ UNCHANGED applied
  BY Zenon DEF ReadLocal
<1> QED BY <1>0, <1>1, ReadLocalThreads, ReturnLocal, AnswerTypes, SMTT(30)

LEMMA SizeLocalCommit == ASSUME CommitInv, NEW c \in Clients, SizeLocal(c) PROVE CommitInv'
<1>0. ThreadInv /\ th[c].pc = "called" /\ call[c].op = "size"
  BY CommitParts, Working, Zenon DEF SizeLocal
<1>1. /\ Finish(c, LocalSize(Home[c])) /\ Rest(c, c)
      /\ UNCHANGED inode /\ UNCHANGED queue /\ UNCHANGED chan /\ UNCHANGED applied
  BY Zenon DEF SizeLocal
<1> QED BY <1>0, <1>1, SizeLocalThreads, ReturnLocal, LocalSizeOk, SMTT(30)

LEMMA SizePollCommit == ASSUME CommitInv, NEW c \in Clients, SizePoll(c) PROVE CommitInv'
<1>0. ThreadInv /\ th[c].pc = "poll" /\ call[c].op = "size"
  <2>1. ThreadInv /\ th[c].pc = "poll"
    BY CommitParts DEF SizePoll, At
  <2> QED BY <2>1, Zenon DEF ThreadInv, ClientOK
<1>1. /\ Finish(c, LocalSize(Home[c])) /\ Rest(c, c)
      /\ UNCHANGED inode /\ UNCHANGED queue /\ UNCHANGED chan /\ UNCHANGED applied
  BY Zenon DEF SizePoll
<1> QED BY <1>0, <1>1, SizePollThreads, ReturnLocal, LocalSizeOk, SMTT(30)

LEMMA SizeEndCommit == ASSUME CommitInv, NEW c \in Clients, SizeEnd(c) PROVE CommitInv'
<1>0. ThreadInv /\ StateOK /\ Permanent /\ th[c].pc = "attr" /\ Home[c] \in Servers /\ call[c] # Idle /\ c \in Clients \cup {Owner}
  BY CommitParts, Working, Zenon DEF SizeEnd
<1>1. call[c].op = "size" /\ Home[c] # Owner
  BY <1>0, Zenon DEF ThreadInv, ClientOK, Permanent
<1> DEFINE a == IF th[c].ok THEN AnswerSize(th[c].size) ELSE Answer(FALSE)
<1>2. Finish(c, a) /\ Rest(c, c) /\ UNCHANGED queue /\ UNCHANGED chan /\ UNCHANGED applied
  BY Zenon DEF SizeEnd
<1>3. a.ok \in BOOLEAN
  BY AnswerTypes, Zenon
<1> HIDE DEF a
<1>4. OwnerSame /\ ex \subseteq ex' /\ \A s \in Servers : pend'[s] = pend[s] \/ (pend'[s] = NoPend /\ s \notin ex)
  <2>1. CASE th[c].ok /\ th[c].need /\ Home[c] \notin ex
    <3>1. NewInode(Home[c], th[c].lam, th[c].size)
      BY <2>1, Zenon DEF SizeEnd
    <3> QED BY <1>0, <1>1, <2>1, <3>1, NewInodeAway, Zenon
  <2>2. CASE ~(th[c].ok /\ th[c].need /\ Home[c] \notin ex)
    <3>1. UNCHANGED inode
      BY <2>2, Zenon DEF SizeEnd
    <3> QED BY <3>1, SameAway, Zenon
  <2> QED BY <2>1, <2>2, Zenon
<1>5. ThreadInv' /\ \A d \in Servers, m \in Messages : Carried(d, m)' => Carried(d, m)
  BY <1>0, <1>2, SizeEndThreads, QuietMail, Zenon
<1> QED BY <1>0, <1>1, <1>2, <1>3, <1>4, <1>5, ReturnQuiet, SMTT(30)

LEMMA ForwardsCommit ==
    ASSUME CommitInv, NEW c \in Clients, NEW op \in {"truncate", "laminate"}, Forwards(c, op) PROVE CommitInv'
<1>0. /\ ThreadInv /\ th[c].pc = "called" /\ call[c].op = op /\ c \in Clients \cup {Owner} /\ Home[c] \in Servers
      /\ op \in ClientOps /\ At("rpc", c).pc = "rpc" /\ StateOK
  BY CommitParts, Working, Zenon DEF Forwards, At, ClientOps
<1>1. /\ Starts(c, op) /\ Send(Home[c], Owner, Request(op, c)) /\ th' = [th EXCEPT ![c] = At("rpc", c)]
      /\ UNCHANGED client /\ UNCHANGED queue /\ UNCHANGED inode /\ UNCHANGED applied
  BY Zenon DEF Forwards
<1>2. InodeOK' /\ \A r \in Servers : pend'[r] = pend[r]
  BY <1>0, <1>1, SameInodes, Zenon
<1>3. ThreadInv' /\ \A d \in Servers, x \in Messages : Carried(d, x)' => Carried(d, x) \/ x.op = op
  BY <1>0, <1>1, <1>2, AskStep, ZenonT(30)
<1> QED BY <1>0, <1>1, <1>3, SameAway, ProceedQuiet, Zenon

LEMMA ReadRemoteCommit == ASSUME CommitInv, NEW c \in Clients, ReadRemote(c) PROVE CommitInv'
<1>0. /\ ThreadInv /\ th[c].pc = "called" /\ call[c].op = "read" /\ c \in Clients \cup {Owner} /\ Home[c] \in Servers
      /\ "read" \in ClientOps /\ At("rpc", c).pc = "rpc" /\ StateOK
  BY CommitParts, Working, Zenon DEF ReadRemote, At, ClientOps
<1>1. /\ Starts(c, "read") /\ Send(Home[c], Owner, Request("read", c)) /\ th' = [th EXCEPT ![c] = At("rpc", c)]
      /\ UNCHANGED client /\ UNCHANGED queue /\ UNCHANGED inode /\ UNCHANGED applied
  BY Zenon DEF ReadRemote
<1>2. InodeOK' /\ \A r \in Servers : pend'[r] = pend[r]
  BY <1>0, <1>1, SameInodes, Zenon
<1>3. ThreadInv' /\ \A d \in Servers, x \in Messages : Carried(d, x)' => Carried(d, x) \/ x.op = "read"
  BY <1>0, <1>1, <1>2, AskStep, Zenon
<1> QED BY <1>0, <1>1, <1>3, SameAway, ProceedQuiet, Zenon

LEMMA SizeRemoteCommit == ASSUME CommitInv, NEW c \in Clients, SizeRemote(c) PROVE CommitInv'
<1>0. /\ ThreadInv /\ th[c].pc = "called" /\ call[c].op = "size" /\ c \in Clients \cup {Owner} /\ Home[c] \in Servers
      /\ "size" \in ClientOps /\ StateOK /\ Starts(c, "size") /\ Home[c] # Owner
  BY CommitParts, Working, Zenon DEF SizeRemote, ClientOps
<1>1. UNCHANGED client /\ UNCHANGED queue /\ UNCHANGED inode /\ UNCHANGED applied
  BY Zenon DEF SizeRemote
<1>2. InodeOK' /\ (\A r \in Servers : pend'[r] = pend[r]) /\ ThreadInv' /\ OwnerSame /\ ex \subseteq ex'
  BY <1>0, <1>1, SameInodes, SizeRemoteThreads, SameAway, Zenon
<1>3. CASE Home[c] \in getting
  <2>1. th' = [th EXCEPT ![c] = At("poll", c)] /\ UNCHANGED chan /\ At("poll", c).pc = "poll"
    BY <1>3, Zenon DEF SizeRemote, At
  <2>2. \A d \in Servers, x \in Messages : Carried(d, x)' => Carried(d, x)
    BY <1>0, <1>1, <2>1, QuietMail, Zenon
  <2> QED BY <1>0, <1>1, <1>2, <2>1, <2>2, ProceedQuiet, Zenon
<1>4. CASE Home[c] \notin getting
  <2> DEFINE w == [pc |-> "rpc", who |-> c, need |-> Home[c] \notin ex]
  <2>1. Send(Home[c], Owner, Request("size", c)) /\ th' = [th EXCEPT ![c] = w]
    BY <1>4, Zenon DEF SizeRemote
  <2>2. w.pc = "rpc"
    BY Zenon
  <2> HIDE DEF w
  <2>3. \A d \in Servers, x \in Messages : Carried(d, x)' => Carried(d, x) \/ x.op = "size"
    BY <1>0, <1>1, <1>2, <2>1, <2>2, AskStep, ZenonT(30)
  <2> QED BY <1>0, <1>1, <1>2, <2>1, <2>2, <2>3, ProceedQuiet, Zenon
<1> QED BY <1>3, <1>4, Zenon

LEMMA RestThreads ==
    ASSUME CommitInv, NEW c \in Clients, NEW t \in Clients \cup {Owner}, Rest(t, c)
    PROVE  \A x \in Clients \cup {Owner} :
              /\ th'[x].pc = "laminate" => th[x].pc = "laminate"
              /\ x # t /\ x # c => th'[x] = th[x]
<1>0. DOMAIN th = Threads /\ \A x \in Clients \cup {Owner} : x \in Threads
  BY CommitParts, Zenon DEF Threads
<1> DEFINE w == Ready
<1>2. th' = [th EXCEPT ![t] = w, ![c] = w]
  BY Zenon DEF Rest
<1> HIDE DEF w
<1>3. \A x \in Threads : th'[x] = IF x = t \/ x = c THEN w ELSE th[x]
  BY <1>0, <1>2, Zenon
<1>4. w.pc = "idle"
  BY ReadyIs, Zenon DEF w
<1> QED BY <1>0, <1>3, <1>4, Zenon

\* A call that succeeds.
LEMMA Succeeds ==
    ASSUME StateOK, NEW c \in Clients, call[c] # Idle, Finish(c, Answer(TRUE))
    PROVE  IsEffect(ref, call[c], ref')
<1>1. call[c] \in Calls /\ ref \in Files
  BY Zenon DEF StateOK, CallOK
<1>2. IsEffect(ref, call[c], AF!Effect(ref, call[c]))
  BY <1>1, Effects, Zenon
<1>3. ref' = AF!Effect(ref, call[c])
  BY AnswerTypes, ZenonT(30) DEF Finish
<1> QED BY <1>2, <1>3, Zenon

\* The file that a create defines.
LEMMA CreateCommitted ==
    ASSUME CommitInv, Owner \notin ex, NewInode(Owner, FALSE, 0), NEW k, k.op = "create", IsEffect(ref, k, ref'),
           \A x \in Clients \cup {Owner} : th'[x].pc = "laminate" => th[x].pc = "laminate"
    PROVE  Committed'
<1>0. StateOK /\ Committed /\ Owner \in Servers
  BY CommitParts, Zenon
<1>1. Owner \in ex' /\ lam'[Owner] = FALSE /\ size'[Owner] = 0 /\ ext'[Owner] = Empty
  BY <1>0, Zenon DEF NewInode, StateOK, InodeOK
<1>2. ref'.exists /\ ~ref'.lam /\ ref'.size = 0 /\ ref'.ext = Empty
  BY Zenon DEF IsEffect
<1>3. Within(Empty, 0)
  BY Zenon DEF Within, Empty
<1>4. \A x \in Clients \cup {Owner} : th'[x].pc # "laminate"
  BY <1>0, Zenon DEF Committed
<1> QED BY <1>1, <1>2, <1>3, <1>4, Zenon DEF Committed

LEMMA CreateCommit == ASSUME CommitInv, NEW c \in Clients, Create(c) PROVE CommitInv'
<1>0. /\ ThreadInv /\ ThreadInv' /\ StateOK /\ Starts(c, "create") /\ th[c].pc = "called" /\ call[c].op = "create" /\ call[c] # Idle
      /\ c \in Clients \cup {Owner} /\ Home[c] \in Servers /\ UNCHANGED queue /\ UNCHANGED applied
      /\ "create" \in ClientOps /\ Owner \in Servers
  BY CommitParts, Working, CreateThreads, ReadyIs, Zenon DEF Create, ClientOps
<1>1. CASE Home[c] \in ex
  <2> DEFINE a == Answer(FALSE)
  <2>1. Finish(c, a) /\ Rest(c, c) /\ UNCHANGED inode /\ UNCHANGED chan /\ a.ok \in BOOLEAN /\ ~a.ok
    BY <1>1, AnswerTypes, Zenon DEF Create
  <2> HIDE DEF a
  <2> QED BY <1>0, <2>1, ReturnLocal
<1>2. CASE Home[c] \notin ex /\ Home[c] = Owner
  <2> DEFINE a == Answer(TRUE)
  <2>1. /\ NewInode(Owner, FALSE, 0) /\ Broadcast(Owner, CreateMsg) /\ Finish(c, a) /\ Rest(c, c)
        /\ a.ok \in BOOLEAN
    BY <1>2, AnswerTypes, Zenon DEF Create
  <2>2. IsEffect(ref, call[c], ref')
    BY <1>0, <2>1, Succeeds, Zenon
  <2> HIDE DEF a
  <2>3. Committed'
    BY <1>0, <1>2, <2>1, <2>2, RestThreads, CreateCommitted, Zenon
  <2>4. CreateMsg \in Messages /\ CreateMsg.op = "b_create" /\ ~Personal(CreateMsg)
    BY MessageTypes, Zenon DEF Personal, ClientOps
  <2>5. \A d \in Servers, x \in Messages : Carried(d, x)' => Carried(d, x) \/ x.op = "b_create"
    BY <1>0, <2>1, <2>4, BroadcastMail, Zenon
  <2>6. ex \subseteq ex' /\ \A r \in Servers : pend'[r] = pend[r] \/ (pend'[r] = NoPend /\ r \notin ex)
    BY <1>0, <1>2, <2>1, NewInodeAway, Zenon
  <2> QED BY <1>0, <2>1, <2>3, <2>5, <2>6, ReturnCommit
<1>3. CASE Home[c] \notin ex /\ Home[c] # Owner
  <2>1. /\ NewInode(Home[c], FALSE, 0) /\ Send(Home[c], Owner, Request("create", c))
        /\ th' = [th EXCEPT ![c] = At("rpc", c)] /\ UNCHANGED client /\ At("rpc", c).pc = "rpc"
    BY <1>3, Zenon DEF Create, At
  <2>2. OwnerSame /\ ex \subseteq ex' /\ \A r \in Servers : pend'[r] = pend[r] \/ (pend'[r] = NoPend /\ r \notin ex)
    BY <1>0, <1>3, <2>1, NewInodeAway, Zenon
  <2>3. InodeOK'
    BY <1>0, <2>1, NewInodeType, ReadyIs, Zenon
  <2>4. \A d \in Servers, x \in Messages : Carried(d, x)' => Carried(d, x) \/ x.op = "create"
    BY <1>0, <2>1, <2>2, <2>3, AskStep, Zenon
  <2> QED BY <1>0, <2>1, <2>2, <2>4, ProceedQuiet, Zenon
<1> QED BY <1>1, <1>2, <1>3, Zenon

\* The owner answers a client.
LEMMA ServedOwner ==
    ASSUME CommitInv, NEW c \in Clients, NEW op \in ClientOps, Serves(Owner, op), Head(queue[Owner]).who = c
    PROVE  /\ ThreadInv /\ StateOK /\ Owner \in Servers /\ th[c].pc = "rpc" /\ call[c].op = op /\ call[c] # Idle
           /\ c \in Clients \cup {Owner} /\ Owner \in Clients \cup {Owner} /\ th[Owner].pc = "idle"
           /\ \A s \in Servers : HasSync(queue[s]) => HasSync(queue'[s])
<1>0. ThreadInv /\ StateOK /\ Owner \in Servers
  BY CommitParts, Zenon
<1>1. th[c].pc = "rpc" /\ call[c].op = op /\ call[c] # Idle /\ th[Owner].pc = "idle"
  BY <1>0, ClientServed, ReadyIs, Zenon
<1>2. op # "sync"
  BY Zenon DEF ClientOps
<1> QED BY <1>0, <1>1, <1>2, ServeKeepsSync, Zenon

LEMMA CreateAtOwnerCommit == ASSUME CommitInv, NEW c \in Clients, CreateAtOwner(c) PROVE CommitInv'
<1>0. /\ Serves(Owner, "create") /\ Head(queue[Owner]).who = c /\ "create" \in ClientOps
      /\ Rest(c, c) /\ UNCHANGED applied
  BY Zenon DEF CreateAtOwner, ClientOps
<1>1. /\ ThreadInv /\ ThreadInv' /\ StateOK /\ Owner \in Servers /\ th[c].pc = "rpc" /\ call[c].op = "create" /\ call[c] # Idle
      /\ c \in Clients \cup {Owner} /\ \A s \in Servers : HasSync(queue[s]) => HasSync(queue'[s])
  BY <1>0, ServedOwner, CreateAtOwnerThreads, Zenon
<1>2. CASE Owner \in ex
  <2> DEFINE a == Answer(FALSE)
  <2>1. Finish(c, a) /\ UNCHANGED inode /\ UNCHANGED chan /\ a.ok \in BOOLEAN /\ ~a.ok
    BY <1>2, AnswerTypes, Zenon DEF CreateAtOwner
  <2> HIDE DEF a
  <2>2. \A d \in Servers, x \in Messages : Carried(d, x)' => Carried(d, x)
    BY <1>0, <1>1, <2>1, ServedMail, Zenon
  <2> QED BY <1>0, <1>1, <2>1, <2>2, SameAway, ReturnQuiet
<1>3. CASE Owner \notin ex
  <2> DEFINE a == Answer(TRUE)
  <2>1. /\ NewInode(Owner, FALSE, 0) /\ Broadcast(Owner, CreateMsg) /\ Finish(c, a)
        /\ a.ok \in BOOLEAN
    BY <1>3, AnswerTypes, Zenon DEF CreateAtOwner
  <2>2. IsEffect(ref, call[c], ref')
    BY <1>1, <2>1, Succeeds, Zenon
  <2> HIDE DEF a
  <2>3. Committed'
    BY <1>0, <1>1, <1>3, <2>1, <2>2, RestThreads, CreateCommitted, Zenon
  <2>4. CreateMsg \in Messages /\ CreateMsg.op = "b_create" /\ ~Personal(CreateMsg)
    BY MessageTypes, Zenon DEF Personal, ClientOps
  <2>5. \A d \in Servers, x \in Messages : Carried(d, x)' => Carried(d, x) \/ x.op = "b_create"
    <3>1. ASSUME NEW q \in [Servers -> Seq(Messages)]
          PROVE  \A d \in Servers, x \in Messages :
                       CarriedIn(chan', q, d, x) => CarriedIn(chan, q, d, x) \/ (d # Owner /\ x = CreateMsg)
      BY <1>1, <2>1, <2>4, <3>1, BroadcastMoves, Zenon
    <3>2. /\ queue' \in [Servers -> Seq(Messages)]
          /\ \A d \in Servers, x \in Messages : CarriedIn(chan, queue', d, x) => Carried(d, x)
      BY <1>0, <1>1, ClientServed, Zenon
    <3> QED BY <2>4, <3>1, <3>2, Zenon DEF Carried
  <2>6. ex \subseteq ex' /\ \A r \in Servers : pend'[r] = pend[r] \/ (pend'[r] = NoPend /\ r \notin ex)
    BY <1>1, <1>3, <2>1, NewInodeAway, Zenon
  <2> QED BY <1>0, <1>1, <2>1, <2>3, <2>5, <2>6, ReturnCommit
<1> QED BY <1>2, <1>3, Zenon

LEMMA ReadAtOwnerCommit == ASSUME CommitInv, NEW c \in Clients, ReadAtOwner(c) PROVE CommitInv'
<1> DEFINE a == IF Owner \in ex THEN AnswerExt(ext[Owner]) ELSE Answer(FALSE)
<1>0. /\ Serves(Owner, "read") /\ Head(queue[Owner]).who = c /\ "read" \in ClientOps
      /\ Rest(c, c) /\ UNCHANGED applied /\ UNCHANGED inode /\ UNCHANGED chan /\ Finish(c, a)
  BY Zenon DEF ReadAtOwner, ClientOps
<1>1. a.ok \in BOOLEAN
  BY AnswerTypes, Zenon
<1> HIDE DEF a
<1>2. /\ ThreadInv /\ ThreadInv' /\ Owner \in Servers /\ th[c].pc = "rpc" /\ call[c].op = "read" /\ call[c] # Idle
      /\ c \in Clients \cup {Owner} /\ \A s \in Servers : HasSync(queue[s]) => HasSync(queue'[s])
  BY <1>0, ServedOwner, ReadAtOwnerThreads, Zenon
<1>3. \A d \in Servers, x \in Messages : Carried(d, x)' => Carried(d, x)
  BY <1>0, <1>2, ServedMail, Zenon
<1> QED BY <1>0, <1>1, <1>2, <1>3, SameAway, ReturnQuiet

LEMMA SizeAtOwnerCommit == ASSUME CommitInv, NEW c \in Clients, SizeAtOwner(c) PROVE CommitInv'
<1> DEFINE w == [pc |-> "attr", who |-> c, need |-> th[c].need, ok |-> Owner \in ex,
                 lam |-> lam[Owner], size |-> size[Owner]]
<1>0. /\ Serves(Owner, "size") /\ Head(queue[Owner]).who = c /\ "size" \in ClientOps
      /\ UNCHANGED applied /\ UNCHANGED inode /\ UNCHANGED chan /\ UNCHANGED client /\ th' = [th EXCEPT ![c] = w]
  BY Zenon DEF SizeAtOwner, ClientOps
<1>1. w.pc = "attr"
  BY Zenon
<1> HIDE DEF w
<1>2. /\ ThreadInv /\ ThreadInv' /\ Owner \in Servers /\ th[c].pc = "rpc" /\ call[c].op = "size"
      /\ c \in Clients \cup {Owner} /\ \A s \in Servers : HasSync(queue[s]) => HasSync(queue'[s])
  BY <1>0, ServedOwner, SizeAtOwnerThreads, Zenon
<1>3. \A d \in Servers, x \in Messages : Carried(d, x)' => Carried(d, x)
  BY <1>0, <1>2, ServedMail, Zenon
<1>4. Home[c] # Owner
  BY <1>2, CommitParts, Zenon DEF Permanent
<1> QED BY <1>0, <1>1, <1>2, <1>3, <1>4, SameAway, ProceedQuiet, Zenon

\* A thread of the owner begins an operation.
LEMMA AtOwnerMail ==
    ASSUME CommitInv, NEW t, NEW c \in Clients, NEW op \in ClientOps, AtOwner(t, op, c), UNCHANGED chan
    PROVE  /\ ThreadInv /\ StateOK /\ t \in Clients \cup {Owner} /\ th[t].pc \in {"idle", "called"}
           /\ th[c].pc \in {"called", "rpc"} /\ call[c] # Idle /\ call[c].op = op
           /\ \A d \in Servers, x \in Messages : Carried(d, x)' => Carried(d, x)
           /\ \A s \in Servers : HasSync(queue[s]) => HasSync(queue'[s])
<1>0. ThreadInv /\ StateOK /\ Owner \in Servers
  BY CommitParts, Zenon
<1>1. CASE t = c /\ Starts(c, op) /\ UNCHANGED queue
  <2>1. th[c].pc = "called" /\ call[c].op = op /\ call[c] # Idle
    BY <1>0, <1>1, Working, Zenon
  <2>2. \A d \in Servers, x \in Messages : Carried(d, x)' => Carried(d, x)
    BY <1>0, <1>1, QuietMail, Zenon
  <2> QED BY <1>0, <1>1, <2>1, <2>2, Zenon
<1>2. CASE t = Owner /\ Serves(t, op) /\ Head(queue[t]).who = c
  <2>1. Serves(Owner, op) /\ Head(queue[Owner]).who = c
    BY <1>2, Zenon
  <2>2. \A d \in Servers, x \in Messages : Carried(d, x)' => Carried(d, x)
    BY <1>0, <2>1, ServedMail, Zenon
  <2>3. /\ th[c].pc = "rpc" /\ call[c].op = op /\ call[c] # Idle /\ th[Owner].pc = "idle"
        /\ \A s \in Servers : HasSync(queue[s]) => HasSync(queue'[s])
    BY <2>1, ServedOwner, Zenon
  <2> QED BY <1>0, <1>2, <2>2, <2>3, Zenon
<1> QED BY <1>1, <1>2, Zenon DEF AtOwner

LEMMA TruncateCommit == ASSUME CommitInv, NEW t, NEW c \in Clients, Truncate(t, c) PROVE CommitInv'
<1>0. AtOwner(t, "truncate", c) /\ UNCHANGED inode /\ UNCHANGED chan /\ UNCHANGED applied /\ "truncate" \in ClientOps
  BY Zenon DEF Truncate, ClientOps
<1>1. /\ ThreadInv /\ t \in Clients \cup {Owner} /\ th[t].pc \in {"idle", "called"}
      /\ th[c].pc \in {"called", "rpc"} /\ call[c] # Idle
      /\ \A d \in Servers, x \in Messages : Carried(d, x)' => Carried(d, x)
      /\ \A s \in Servers : HasSync(queue[s]) => HasSync(queue'[s])
  BY <1>0, AtOwnerMail, Zenon
<1>2. ThreadInv'
  BY <1>1, TruncateThreads, Zenon
<1>3. CASE Owner \notin ex
  <2> DEFINE a == Answer(FALSE)
  <2>1. Finish(c, a) /\ Rest(t, c) /\ a.ok \in BOOLEAN /\ ~a.ok
    BY <1>3, AnswerTypes, Zenon DEF Truncate
  <2> HIDE DEF a
  <2> QED BY <1>0, <1>1, <1>2, <2>1, SameAway, ReturnQuiet
<1>4. CASE Owner \in ex
  <2> DEFINE w == [pc |-> "truncate", who |-> c, old |-> size[Owner]]
  <2>1. th' = [th EXCEPT ![t] = w] /\ UNCHANGED client /\ w.pc = "truncate"
    BY <1>4, Zenon DEF Truncate
  <2> HIDE DEF w
  <2> QED BY <1>0, <1>1, <1>2, <2>1, SameAway, ProceedQuiet, Zenon
<1> QED BY <1>3, <1>4, Zenon

LEMMA LaminateCommit == ASSUME CommitInv, NEW t, NEW c \in Clients, Laminate(t, c) PROVE CommitInv'
<1>0. /\ AtOwner(t, "laminate", c) /\ UNCHANGED <<ex, size, ext, pend>> /\ UNCHANGED chan /\ UNCHANGED applied
      /\ "laminate" \in ClientOps
  BY Zenon DEF Laminate, ClientOps
<1>1. /\ ThreadInv /\ StateOK /\ t \in Clients \cup {Owner} /\ th[t].pc \in {"idle", "called"}
      /\ th[c].pc \in {"called", "rpc"} /\ call[c] # Idle
      /\ \A d \in Servers, x \in Messages : Carried(d, x)' => Carried(d, x)
      /\ \A s \in Servers : HasSync(queue[s]) => HasSync(queue'[s])
  BY <1>0, AtOwnerMail, Zenon
<1>2. ThreadInv' /\ Owner \in Servers /\ Committed /\ DOMAIN th = Threads /\ t \in Threads
  BY <1>1, LaminateThreads, CommitParts, Working, Zenon
<1>3. CASE Owner \notin ex
  <2> DEFINE a == Answer(FALSE)
  <2>1. Finish(c, a) /\ Rest(t, c) /\ UNCHANGED inode /\ a.ok \in BOOLEAN /\ ~a.ok
    BY <1>0, <1>3, AnswerTypes, Zenon DEF Laminate, inode
  <2> HIDE DEF a
  <2> QED BY <1>0, <1>1, <1>2, <2>1, SameAway, ReturnQuiet
<1>4. CASE Owner \in ex
  <2> DEFINE w == At("laminate", c)
  <2>1. th' = [th EXCEPT ![t] = w] /\ UNCHANGED client /\ w.pc = "laminate" /\ lam' = [lam EXCEPT ![Owner] = TRUE]
    BY <1>4, Zenon DEF Laminate, At
  <2> HIDE DEF w
  <2>2. lam'[Owner] = TRUE /\ th'[t].pc = "laminate" /\ ref' = ref
    BY <1>1, <1>2, <2>1, Zenon DEF StateOK, InodeOK, client
  <2>3. Committed'
    BY <1>0, <1>1, <1>2, <1>4, <2>2, Zenon DEF Committed
  <2> QED BY <1>0, <1>1, <1>2, <2>1, <2>3, ProceedCommit, Zenon
<1> QED BY <1>3, <1>4, Zenon

LEMMA TruncateEndCommit ==
    ASSUME CommitInv, NEW t \in Clients \cup {Owner}, TruncateEnd(t) PROVE CommitInv'
<1> DEFINE c == th[t].who
<1>0. /\ ThreadInv /\ StateOK /\ Committed /\ Owner \in Servers /\ Rest(t, c) /\ UNCHANGED queue /\ UNCHANGED applied /\ th[t].pc = "truncate"
  BY CommitParts, Zenon DEF TruncateEnd
<1>1. /\ c \in Clients /\ call[c].op = "truncate" /\ call[c] \in Calls /\ call[c] # Idle
      /\ th[c].pc # "laminate"
  BY <1>0, ForWhom, Zenon
<1>2. ThreadInv'
  BY <1>0, TruncateEndThreads, Zenon
<1>3. CASE Owner \notin ex \/ lam[Owner]
  <2> DEFINE a == Answer(FALSE)
  <2>1. Finish(c, a) /\ UNCHANGED inode /\ UNCHANGED chan /\ a.ok \in BOOLEAN /\ ~a.ok
    BY <1>3, AnswerTypes, Zenon DEF TruncateEnd
  <2> HIDE DEF a, c
  <2>2. \A d \in Servers, x \in Messages : Carried(d, x)' => Carried(d, x)
    BY <1>0, <2>1, QuietMail, Zenon
  <2> QED BY <1>0, <1>1, <1>2, <2>1, <2>2, SameAway, ReturnQuiet, SMTT(30)
<1>4. CASE ~(Owner \notin ex \/ lam[Owner])
  <2> DEFINE a == Answer(TRUE)
             n == call[c].size
             m == TruncateMsg(n)
  <2>1. /\ TruncateInode(Owner, n) /\ Finish(c, a) /\ a.ok \in BOOLEAN
        /\ Broadcast(Owner, m) \/ UNCHANGED chan
    BY <1>4, AnswerTypes, Zenon DEF TruncateEnd
  <2>2. n \in Sizes
    BY <1>1, CallTypes, Zenon
  <2>3. m \in Messages /\ m.op = "b_truncate" /\ ~Personal(m)
    BY <2>2, MessageTypes, Zenon DEF Personal, ClientOps
  <2>4. /\ ref'.size = n /\ ref'.ext = Cut(ref.ext, n) /\ ref'.exists = ref.exists /\ ref'.lam = ref.lam
    <3>1. IsEffect(ref, call[c], ref')
      <4> HIDE DEF c
      <4> QED BY <1>0, <1>1, <2>1, Succeeds, Zenon
    <3> QED BY <1>1, <3>1, Zenon DEF IsEffect
  <2> HIDE DEF a, c, n, m
  <2>5. \A d \in Servers, x \in Messages : Carried(d, x)' => Carried(d, x) \/ x.op # "b_unlink"
    BY <1>0, <2>1, <2>3, BroadcastMail, QuietMail, Zenon
  <2>6. /\ UNCHANGED <<ex, lam, pend>> /\ size'[Owner] = n /\ ext'[Owner] = Cut(ext[Owner], n)
    BY <1>0, <2>1, Zenon DEF TruncateInode, StateOK, InodeOK
  <2>7. Committed'
    <3>1. \A x \in Clients \cup {Owner} : th'[x].pc # "laminate"
      BY <1>0, <1>1, <1>4, RestThreads, Zenon DEF Committed
    <3>2. Within(ext'[Owner], size'[Owner])
      BY <2>6, WithinCut, Zenon
    <3> QED BY <1>0, <1>4, <2>4, <2>6, <3>1, <3>2, Zenon DEF Committed
  <2> QED BY <1>0, <1>1, <1>2, <2>1, <2>5, <2>6, <2>7, ReturnCommit
<1> QED BY <1>3, <1>4, Zenon

LEMMA LaminateEndCommit ==
    ASSUME CommitInv, NEW t \in Clients \cup {Owner}, LaminateEnd(t) PROVE CommitInv'
<1> DEFINE c == th[t].who
           m == LaminateMsg
           a == Answer(TRUE)
<1>0. /\ ThreadInv /\ StateOK /\ Committed /\ Owner \in Servers /\ Rest(t, c) /\ UNCHANGED queue /\ UNCHANGED applied
      /\ th[t].pc = "laminate" /\ UNCHANGED inode
      /\ Broadcast(Owner, m) \/ UNCHANGED chan
  BY CommitParts, Zenon DEF LaminateEnd
<1>1. c \in Clients /\ call[c].op = "laminate" /\ call[c] # Idle
  BY <1>0, ForWhom, Zenon
<1>2. ThreadInv'
  BY <1>0, LaminateEndThreads, Zenon
<1>3. lam[Owner] /\ Owner \in ex
  BY <1>0, Zenon DEF Committed
<1>4. Finish(c, a) /\ a.ok \in BOOLEAN
  BY <1>3, AnswerTypes, Zenon DEF LaminateEnd
<1>5. m \in Messages /\ m.op = "b_laminate" /\ ~Personal(m)
  BY <1>0, MessageTypes, Zenon DEF Personal, ClientOps
<1>6. ref'.lam /\ ref'.exists = ref.exists /\ ref'.size = ref.size /\ ref'.ext = ref.ext
  <2>1. IsEffect(ref, call[c], ref')
    <3> HIDE DEF c
    <3> QED BY <1>0, <1>1, <1>4, Succeeds, Zenon
  <2> QED BY <1>1, <2>1, Zenon DEF IsEffect
<1> HIDE DEF a, c, m
<1>7. \A d \in Servers, x \in Messages : Carried(d, x)' => Carried(d, x) \/ x.op # "b_unlink"
  BY <1>0, <1>5, BroadcastMail, QuietMail, Zenon
<1>8. Committed'
  BY <1>0, <1>3, <1>6, Zenon DEF Committed, inode
<1> QED BY <1>0, <1>1, <1>2, <1>4, <1>7, <1>8, SameAway, ReturnCommit

\* A server that handles a broadcast, or a request that arrives.
LEMMA HandledCommit ==
    ASSUME CommitInv, ThreadInv', OwnerSame, ex \subseteq ex', UNCHANGED th, UNCHANGED client, UNCHANGED applied,
           \A d \in Servers, m \in Messages : Carried(d, m)' => Carried(d, m),
           \A s \in Servers : pend'[s] = pend[s] \/ (pend'[s] = NoPend /\ s \notin ex),
           \A s \in Servers : HasSync(queue[s]) => HasSync(queue'[s])
    PROVE  CommitInv'
<1>1. Committed /\ Permanent /\ ref' = ref /\ call' = call /\ acked' = acked /\ submit' = submit
  BY CommitParts, Zenon DEF client
<1>2. Committed'
  BY <1>1, CommittedKept, Zenon
<1>3. \A c \in Clients : call'[c].op # "unlink"
  BY <1>1, Zenon DEF Permanent
<1> QED BY <1>1, <1>2, <1>3, CommitFrame, Zenon

\* Broadcasts are not for the owner, and nobody broadcasts an unlink.
LEMMA NotAtOwner ==
    ASSUME CommitInv, NEW s \in Servers, NEW op \in {"b_create", "b_truncate", "b_laminate", "b_unlink"}, Serves(s, op)
    PROVE  /\ s # Owner /\ op # "b_unlink" /\ StateOK /\ ThreadInv
           /\ \A d \in Servers : HasSync(queue[d]) => HasSync(queue'[d])
           /\ UNCHANGED chan => \A d \in Servers, m \in Messages : Carried(d, m)' => Carried(d, m)
<1>0. ThreadInv /\ StateOK /\ Permanent
  BY CommitParts, Zenon
<1>1. PICK m : m = Head(queue[s])
  BY Zenon
<1>2. m \in Messages /\ m.op = op /\ Carried(s, m)
  BY <1>0, <1>1, ServeMoves, Zenon
<1>3. MessageOK(s, m)
  BY <1>0, <1>2, Zenon DEF ThreadInv
<1>4. op # "b_unlink"
  BY <1>0, <1>2, Zenon DEF Permanent
<1>5. s # Owner
  BY <1>2, <1>3, <1>4, Zenon DEF MessageOK
<1>6. \A d \in Servers : HasSync(queue[d]) => HasSync(queue'[d])
  BY <1>0, ServeKeepsSync, Zenon
<1>7. UNCHANGED chan => \A d \in Servers, x \in Messages : Carried(d, x)' => Carried(d, x)
  BY <1>0, ServedMail, Zenon
<1> QED BY <1>0, <1>4, <1>5, <1>6, <1>7, Zenon

LEMMA CreateAtOtherCommit == ASSUME CommitInv, NEW s \in Servers, CreateAtOther(s) PROVE CommitInv'
<1>0. Serves(s, "b_create") /\ UNCHANGED chan /\ UNCHANGED th /\ UNCHANGED client /\ UNCHANGED applied
  BY Zenon DEF CreateAtOther
<1>1. /\ s # Owner /\ StateOK /\ ThreadInv /\ \A d \in Servers : HasSync(queue[d]) => HasSync(queue'[d])
      /\ \A d \in Servers, m \in Messages : Carried(d, m)' => Carried(d, m)
  BY <1>0, NotAtOwner, Zenon
<1>2. OwnerSame /\ ex \subseteq ex' /\ \A r \in Servers : pend'[r] = pend[r] \/ (pend'[r] = NoPend /\ r \notin ex)
  <2>1. CASE s \in ex
    BY <2>1, SameAway, Zenon DEF CreateAtOther
  <2>2. CASE s \notin ex
    <3>1. NewInode(s, FALSE, 0)
      BY <2>2, Zenon DEF CreateAtOther
    <3> QED BY <1>1, <2>2, <3>1, NewInodeAway, Zenon
  <2> QED BY <2>1, <2>2, Zenon
<1> QED BY <1>0, <1>1, <1>2, CreateAtOtherThreads, HandledCommit, Zenon

LEMMA TruncateAtOtherCommit == ASSUME CommitInv, NEW s \in Servers, TruncateAtOther(s) PROVE CommitInv'
<1>0. Serves(s, "b_truncate") /\ UNCHANGED chan /\ UNCHANGED th /\ UNCHANGED client /\ UNCHANGED applied
  BY Zenon DEF TruncateAtOther
<1>1. /\ s # Owner /\ StateOK /\ ThreadInv /\ \A d \in Servers : HasSync(queue[d]) => HasSync(queue'[d])
      /\ \A d \in Servers, m \in Messages : Carried(d, m)' => Carried(d, m)
  BY <1>0, NotAtOwner, Zenon
<1>2. OwnerSame /\ ex \subseteq ex' /\ \A r \in Servers : pend'[r] = pend[r]
  BY <1>1, OwnerAssumption, Zenon DEF TruncateAtOther, TruncateInode, inode, OwnerSame, StateOK, InodeOK
<1> QED BY <1>0, <1>1, <1>2, TruncateAtOtherThreads, HandledCommit, Zenon

LEMMA LaminateAtOtherCommit == ASSUME CommitInv, NEW s \in Servers, LaminateAtOther(s) PROVE CommitInv'
<1>0. Serves(s, "b_laminate") /\ UNCHANGED chan /\ UNCHANGED th /\ UNCHANGED client /\ UNCHANGED applied /\ UNCHANGED pend
  BY Zenon DEF LaminateAtOther
<1>1. /\ s # Owner /\ StateOK /\ ThreadInv /\ \A d \in Servers : HasSync(queue[d]) => HasSync(queue'[d])
      /\ \A d \in Servers, m \in Messages : Carried(d, m)' => Carried(d, m)
  BY <1>0, NotAtOwner, Zenon
<1>2. OwnerSame /\ ex \subseteq ex'
  BY <1>1, OwnerAssumption, Zenon DEF LaminateAtOther, OwnerSame, StateOK, InodeOK
<1> QED BY <1>0, <1>1, <1>2, LaminateAtOtherThreads, HandledCommit, Zenon

LEMMA DeliverCommit == ASSUME CommitInv, NEW s \in Servers, NEW d \in Servers, Deliver(s, d) PROVE CommitInv'
<1>0. /\ ThreadInv /\ StateOK /\ UNCHANGED inode /\ UNCHANGED th /\ UNCHANGED client /\ UNCHANGED applied
  BY CommitParts, Zenon DEF Deliver
<1>1. \A r \in Servers, x \in Messages : Carried(r, x)' => Carried(r, x)
  BY <1>0, DeliverMoves, Zenon
<1> QED BY <1>0, <1>1, DeliverKeepsSync, DeliverThreads, SameAway, HandledCommit, Zenon

LEMMA StutterCommit == ASSUME CommitInv, UNCHANGED vars PROVE CommitInv'
<1>0. /\ ThreadInv /\ UNCHANGED inode /\ UNCHANGED th /\ UNCHANGED client /\ UNCHANGED applied /\ UNCHANGED queue /\ UNCHANGED chan
  BY CommitParts, Zenon DEF vars
<1>1. \A r \in Servers, x \in Messages : Carried(r, x)' => Carried(r, x)
  BY <1>0, QuietMail, Zenon
<1> QED BY <1>0, <1>1, StutterThreads, SameAway, HandledCommit, Zenon

\* Nobody unlinks.
LEMMA NoUnlink ==
    ASSUME CommitInv
    PROVE  /\ \A c \in Clients : ~Unlink(c)
           /\ \A s \in Servers : ~UnlinkAtOther(s)
<1>1. Permanent
  BY CommitParts, Zenon
<1>2. \A c \in Clients : ~Unlink(c)
  BY <1>1, ZenonT(30) DEF Permanent, Unlink, Starts
<1>3. ASSUME NEW s \in Servers, UnlinkAtOther(s) PROVE FALSE
  <2>1. Serves(s, "b_unlink")
    BY <1>3, Zenon DEF UnlinkAtOther
  <2> QED BY <2>1, NotAtOwner, Zenon
<1> QED BY <1>2, <1>3, Zenon

\* The syncs of the clients P end, and the service managers S are ready.
LEMMA SyncEndCommit ==
    ASSUME CommitInv, ThreadInv', Committed', AckedAtOwner', NEW P \in SUBSET Clients, NEW S \in SUBSET Servers,
           \A t \in Threads : th'[t] = IF t \in P \cup S THEN Ready ELSE th[t],
           \A c \in Clients : call'[c] = IF c \in P THEN Idle ELSE call[c],
           \A s \in S : th[s].pc \in {"add", "addrpc"} => th[s].who \subseteq P,
           ex' = ex, submit' = submit,
           \A s \in Servers : \/ pend'[s] = pend[s] /\ (HasSync(queue[s]) => HasSync(queue'[s]))
                              \/ pend'[s].who = {} /\ pend[s].who \subseteq P,
           \A d \in Servers, m \in Messages : Carried(d, m)' => Carried(d, m)
    PROVE  CommitInv'
<1>0. /\ Permanent /\ NoSyncForgotten /\ ThreadInv /\ Ready.pc = "idle" /\ Idle.op = "idle"
      /\ Clients \subseteq Threads /\ Servers \subseteq Threads /\ Clients \cap Servers = {}
  BY CommitParts, ReadyIs, DisjointAssumption, Zenon DEF Threads
<1>1. \A c \in Clients : IF c \in P THEN th'[c].pc = "idle" /\ call'[c].op = "idle" ELSE th'[c] = th[c] /\ call'[c] = call[c]
  BY <1>0, Zenon
<1>2. Permanent'
  <2>1. \A c \in Clients : call'[c].op # "unlink"
    BY <1>0, <1>1, Zenon DEF Permanent
  <2>2. \A s \in Servers : pend'[s].who # {} => s \in ex'
    BY <1>0, Zenon DEF Permanent
  <2>3. \A c \in Clients : th'[c].pc = "attr" \/ (th'[c].pc = "rpc" /\ call'[c].op = "size") => Home[c] # Owner
    BY <1>0, <1>1, Zenon DEF Permanent
  <2> QED BY <1>0, <2>1, <2>2, <2>3, Zenon DEF Permanent
<1>3. NoSyncForgotten'
  <2> SUFFICES ASSUME NEW c \in Clients, th'[c].pc = "sync"
               PROVE  \/ c \in pend'[Home[c]].who /\ (c \in submit' \/ HasSync(queue'[Home[c]]))
                      \/ th'[Home[c]].pc \in {"add", "addrpc"} /\ c \in th'[Home[c]].who
    BY Zenon DEF NoSyncForgotten, HasSync
  <2>1. th[c].pc = "sync" /\ c \notin P /\ Home[c] \in Servers
    BY <1>0, <1>1, Working, Zenon
  <2>2. \/ c \in pend[Home[c]].who /\ (c \in submit \/ HasSync(queue[Home[c]]))
        \/ th[Home[c]].pc \in {"add", "addrpc"} /\ c \in th[Home[c]].who
    BY <1>0, <2>1, Zenon DEF NoSyncForgotten, HasSync
  <2>3. th[Home[c]].pc \in {"add", "addrpc"} /\ c \in th[Home[c]].who => th'[Home[c]] = th[Home[c]]
    BY <1>0, <2>1, Zenon
  <2> QED BY <2>1, <2>2, <2>3, Zenon
<1> QED BY <1>2, <1>3, Zenon DEF CommitInv

\* The service manager of s goes on with the syncs.
LEMMA SyncGoCommit ==
    ASSUME CommitInv, ThreadInv', Committed', UNCHANGED client, UNCHANGED applied, NEW s \in Servers, NEW w,
           th' = [th EXCEPT ![s] = w], ex' = ex,
           \A b \in Clients : th[b].pc = "sync" /\ Home[b] = s =>
               \/ b \in pend'[s].who /\ (b \in submit' \/ HasSync(queue'[s]))
               \/ w.pc \in {"add", "addrpc"} /\ b \in w.who,
           \A r \in Servers : pend'[r] = pend[r] \/ (r = s /\ pend'[r].who = {}),
           \A r \in Servers \ {s} : HasSync(queue[r]) => HasSync(queue'[r]),
           \A d \in Servers, m \in Messages : Carried(d, m)' => Carried(d, m) \/ m.op # "b_unlink"
    PROVE  CommitInv'
<1>0. /\ Permanent /\ NoSyncForgotten /\ ThreadInv /\ DOMAIN th = Threads /\ AckedAtOwner
      /\ Clients \subseteq Threads /\ Servers \subseteq Threads /\ Clients \cap Servers = {}
  BY CommitParts, DisjointAssumption, Zenon DEF Threads
<1>1. call' = call /\ acked' = acked /\ submit' = submit
  BY Zenon DEF client
<1>2. th'[s] = w /\ (\A t \in Threads : t # s => th'[t] = th[t]) /\ \A c \in Clients : th'[c] = th[c]
  BY <1>0, Zenon
<1>3. Permanent'
  <2>1. \A r \in Servers : pend'[r].who # {} => r \in ex'
    BY <1>0, Zenon DEF Permanent
  <2> QED BY <1>0, <1>1, <1>2, <2>1, Zenon DEF Permanent
<1>4. NoSyncForgotten'
  <2> SUFFICES ASSUME NEW c \in Clients, th'[c].pc = "sync"
               PROVE  \/ c \in pend'[Home[c]].who /\ (c \in submit' \/ HasSync(queue'[Home[c]]))
                      \/ th'[Home[c]].pc \in {"add", "addrpc"} /\ c \in th'[Home[c]].who
    BY Zenon DEF NoSyncForgotten, HasSync
  <2>1. th[c].pc = "sync" /\ Home[c] \in Servers
    BY <1>0, <1>2, Working, Zenon
  <2>2. \/ c \in pend[Home[c]].who /\ (c \in submit \/ HasSync(queue[Home[c]]))
        \/ th[Home[c]].pc \in {"add", "addrpc"} /\ c \in th[Home[c]].who
    BY <1>0, <2>1, Zenon DEF NoSyncForgotten, HasSync
  <2>3. CASE Home[c] = s
    BY <1>2, <2>1, <2>3, Zenon
  <2>4. CASE Home[c] # s
    BY <1>0, <1>1, <1>2, <2>1, <2>2, <2>4, Zenon
  <2> QED BY <2>3, <2>4, Zenon
<1>5. AckedAtOwner'
  BY <1>0, <1>1, Zenon DEF AckedAtOwner
<1> QED BY <1>3, <1>4, <1>5, Zenon DEF CommitInv

LEMMA SyncCommit == ASSUME CommitInv, NEW c \in Clients, Sync(c) PROVE CommitInv'
<1>0. /\ ThreadInv /\ StateOK /\ Committed /\ Permanent /\ NoSyncForgotten /\ AckedAtOwner /\ DOMAIN th = Threads
      /\ c \in Threads /\ c \notin Servers /\ Home[c] \in Servers /\ Owner \in Servers
      /\ th[c].pc = "called" /\ call[c].op = "sync" /\ UNCHANGED chan /\ UNCHANGED queue /\ UNCHANGED applied
  BY CommitParts, Working, Zenon DEF Sync
<1>1. ThreadInv'
  BY <1>0, SyncThreads, Zenon
<1>2. CASE Home[c] \notin ex \/ lam[Home[c]]
  <2> DEFINE a == Answer(FALSE)
  <2>1. Finish(c, a) /\ Rest(c, c) /\ UNCHANGED inode /\ a.ok \in BOOLEAN /\ ~a.ok
    BY <1>2, AnswerTypes, Zenon DEF Sync, inode
  <2> HIDE DEF a
  <2> QED BY <1>0, <1>1, <2>1, ReturnLocal
<1>3. CASE ~(Home[c] \notin ex \/ lam[Home[c]])
  <2>0. PICK h : h = Home[c]
    BY Zenon
  <2> DEFINE e == Write(pend[h].ext, call[c].first, call[c].last, call[c].data)
             p == [who |-> pend[h].who \cup {c}, ext |-> e]
             w == At("sync", c)
  <2>1. /\ pend' = [pend EXCEPT ![h] = p] /\ submit' = submit \cup {c} /\ th' = [th EXCEPT ![c] = w]
        /\ UNCHANGED <<call, ref, acked>> /\ UNCHANGED <<ex, lam, size, ext>> /\ h \in ex
    BY <1>3, <2>0, Zenon DEF Sync
  <2>2. p.who = pend[h].who \cup {c} /\ w.pc = "sync"
    BY Zenon DEF At
  <2> HIDE DEF p, w
  <2>3. \A d \in Servers, x \in Messages : Carried(d, x)' => Carried(d, x)
    BY <1>0, QuietMail, Zenon
  <2>5. pend'[h] = p /\ \A r \in Servers : r # h => pend'[r] = pend[r]
    BY <1>0, <2>0, <2>1, Zenon DEF StateOK, InodeOK
  <2>6. /\ th'[c] = w /\ (\A t \in Threads : t # c => th'[t] = th[t])
        /\ \A t \in Clients \cup {Owner} : th'[t].pc = "laminate" <=> th[t].pc = "laminate"
    BY <1>0, <2>1, <2>2, Zenon DEF Threads
  <2>7. call' = call /\ ref' = ref /\ acked' = acked /\ OwnerSame
    BY <2>1, Zenon DEF OwnerSame
  <2>8. Committed'
    BY <1>0, <2>6, <2>7, CommittedKept, Zenon
  <2>9. Permanent'
    <3>1. \A r \in Servers : pend'[r].who # {} => r \in ex'
      BY <1>0, <2>1, <2>5, Zenon DEF Permanent
    <3>2. \A d \in Servers, x \in Messages : Carried(d, x)' => x.op # "b_unlink"
      BY <1>0, <2>3, Zenon DEF Permanent
    <3>3. \A b \in Clients : th'[b].pc = "attr" \/ (th'[b].pc = "rpc" /\ call'[b].op = "size") => Home[b] # Owner
      BY <1>0, <2>2, <2>6, <2>7, Zenon DEF Permanent, Threads
    <3> QED BY <1>0, <2>7, <3>1, <3>2, <3>3, Zenon DEF Permanent
  <2>10. NoSyncForgotten'
    <3> SUFFICES ASSUME NEW b \in Clients, th'[b].pc = "sync"
                 PROVE  \/ b \in pend'[Home[b]].who /\ (b \in submit' \/ HasSync(queue'[Home[b]]))
                        \/ th'[Home[b]].pc \in {"add", "addrpc"} /\ b \in th'[Home[b]].who
      BY Zenon DEF NoSyncForgotten, HasSync
    <3>1. CASE b = c
      BY <2>0, <2>1, <2>2, <2>5, <3>1, Zenon
    <3>2. CASE b # c
      <4>1. th'[b] = th[b] /\ Home[b] \in Servers /\ th'[Home[b]] = th[Home[b]]
        BY <1>0, <2>6, <3>2, Working, Zenon DEF Threads
      <4>2. \/ b \in pend[Home[b]].who /\ (b \in submit \/ HasSync(queue[Home[b]]))
            \/ th[Home[b]].pc \in {"add", "addrpc"} /\ b \in th[Home[b]].who
        BY <1>0, <4>1, Zenon DEF NoSyncForgotten, HasSync
      <4>3. b \in pend[Home[b]].who => b \in pend'[Home[b]].who
        BY <2>2, <2>5, <4>1, Zenon
      <4> QED BY <1>0, <2>1, <4>1, <4>2, <4>3, Zenon
    <3> QED BY <3>1, <3>2, Zenon
  <2>11. AckedAtOwner'
    BY <1>0, <2>7, Zenon DEF AckedAtOwner
  <2> QED BY <1>1, <2>8, <2>9, <2>10, <2>11, Zenon DEF CommitInv
<1> QED BY <1>2, <1>3, Zenon

LEMMA SyncSubmitCommit == ASSUME CommitInv, NEW c \in Clients, SyncSubmit(c) PROVE CommitInv'
<1> DEFINE m == [op |-> "sync"]
<1>0. /\ ThreadInv /\ StateOK /\ Committed /\ Permanent /\ NoSyncForgotten /\ AckedAtOwner /\ Home[c] \in Servers
      /\ UNCHANGED inode /\ UNCHANGED th /\ UNCHANGED chan /\ UNCHANGED <<call, ref, acked, applied>> /\ submit' = submit \ {c}
      /\ queue' = [queue EXCEPT ![Home[c]] = Append(queue[Home[c]], m)]
  BY CommitParts, Working, Zenon DEF SyncSubmit
<1>1. ThreadInv' /\ m \in Messages /\ m.op = "sync" /\ ~Personal(m)
  BY <1>0, SyncSubmitThreads, MessageTypes, Zenon DEF Personal, ClientOps
<1> HIDE DEF m
<1>2. /\ \A d \in Servers, x \in Messages : Carried(d, x)' => Carried(d, x) \/ x = m
      /\ \E i \in 1 .. Len(queue'[Home[c]]) : queue'[Home[c]][i] = m
      /\ \A d \in Servers : \A i \in 1 .. Len(queue[d]) : i \in 1 .. Len(queue'[d]) /\ queue'[d][i] = queue[d][i]
  BY <1>0, <1>1, QueueMoves, Zenon
<1>3. HasSync(queue'[Home[c]]) /\ \A d \in Servers : HasSync(queue[d]) => HasSync(queue'[d])
  BY <1>1, <1>2, Zenon DEF HasSync
<1>4. Committed' /\ AckedAtOwner'
  BY <1>0, SameAway, CommittedKept, Zenon DEF AckedAtOwner
<1>5. Permanent'
  <2>1. \A d \in Servers, x \in Messages : Carried(d, x)' => x.op # "b_unlink"
    BY <1>0, <1>1, <1>2, Zenon DEF Permanent
  <2>2. \A s \in Servers : pend'[s].who # {} => s \in ex'
    BY <1>0, Zenon DEF Permanent, inode
  <2> QED BY <1>0, <2>1, <2>2, Zenon DEF Permanent
<1>6. NoSyncForgotten'
  <2> SUFFICES ASSUME NEW b \in Clients, th'[b].pc = "sync"
               PROVE  \/ b \in pend'[Home[b]].who /\ (b \in submit' \/ HasSync(queue'[Home[b]]))
                      \/ th'[Home[b]].pc \in {"add", "addrpc"} /\ b \in th'[Home[b]].who
    BY Zenon DEF NoSyncForgotten, HasSync
  <2>1. th[b].pc = "sync" /\ Home[b] \in Servers /\ pend' = pend
    BY <1>0, Working, Zenon DEF inode
  <2>2. \/ b \in pend[Home[b]].who /\ (b \in submit \/ HasSync(queue[Home[b]]))
        \/ th[Home[b]].pc \in {"add", "addrpc"} /\ b \in th[Home[b]].who
    BY <1>0, <2>1, Zenon DEF NoSyncForgotten, HasSync
  <2> QED BY <1>0, <1>3, <2>1, <2>2, Zenon
<1> QED BY <1>1, <1>4, <1>5, <1>6, Zenon DEF CommitInv

\* A service manager that is ready works on no sync.
LEMMA ReadyPending ==
    ASSUME CommitInv, NEW s \in Servers, th[s] = Ready, NEW b \in Clients, th[b].pc = "sync", Home[b] = s
    PROVE  b \in pend[s].who /\ (b \in submit \/ HasSync(queue[s]))
BY CommitParts, ReadyIs, Zenon DEF NoSyncForgotten, HasSync

LEMMA ProcessSyncCommit == ASSUME CommitInv, NEW s \in Servers, ProcessSync(s) PROVE CommitInv'
<1>3. PICK P : P = pend[s].who
  BY Zenon
<1>0. /\ ThreadInv /\ StateOK /\ Committed /\ AckedAtOwner /\ Owner \in Servers
      /\ Serves(s, "sync") /\ th[s] = Ready /\ UNCHANGED chan /\ UNCHANGED applied /\ UNCHANGED <<ex, lam, size, ext>>
  BY CommitParts, Zenon DEF ProcessSync, Serves
<1>1. /\ ThreadInv' /\ OwnerSame /\ ex' = ex
      /\ \A d \in Servers, m \in Messages : Carried(d, m)' => Carried(d, m)
  BY <1>0, ProcessSyncThreads, ServedMail, Zenon DEF OwnerSame
<1>2. /\ P \in SUBSET Clients /\ P \in SUBSET Threads /\ \A c \in P : Home[c] = s /\ th[c].pc = "sync"
  BY <1>0, <1>3, Pending, Working, Zenon
<1>4. /\ pend'[s].who = {} /\ \A r \in Servers : r # s => pend'[r] = pend[r] /\ queue'[r] = queue[r]
  BY <1>0, ServeMoves, Pending DEF ProcessSync, StateOK, InodeOK
<1>5. ASSUME NEW Q \in SUBSET Clients, P \subseteq Q, \A c \in Q : th[c].pc = "sync",
             \A t \in Threads : th'[t] = IF t \in Q THEN Ready ELSE th[t],
             \A c \in Clients : call'[c] = IF c \in Q THEN Idle ELSE call[c],
             ref' = ref, acked' = acked, submit' = submit
      PROVE  CommitInv'
  <2> DEFINE S == {}
  <2>1. S \in SUBSET Servers /\ \A x : x \notin S
    BY Zenon
  <2> HIDE DEF S
  <2>2. \A t \in Threads : th'[t] = IF t \in Q \cup S THEN Ready ELSE th[t]
    BY <1>5, <2>1, Zenon
  <2>3. \A t \in Clients \cup {Owner} : th'[t].pc = "laminate" <=> th[t].pc = "laminate"
    BY <1>0, <1>5, ReadyIs, Zenon DEF Threads
  <2>4. Committed' /\ AckedAtOwner'
    BY <1>0, <1>1, <1>5, <2>3, CommittedKept, Zenon DEF AckedAtOwner
  <2>5. \A r \in Servers : \/ pend'[r] = pend[r] /\ (HasSync(queue[r]) => HasSync(queue'[r]))
                           \/ pend'[r].who = {} /\ pend[r].who \subseteq Q
    BY <1>3, <1>4, <1>5, Zenon
  <2> QED BY <1>1, <1>5, <2>1, <2>2, <2>4, <2>5, SyncEndCommit, Zenon
<1>6. CASE P = {} /\ UNCHANGED th /\ UNCHANGED client
  <2>1. call' = call /\ ref' = ref /\ acked' = acked /\ submit' = submit
    BY <1>6, Zenon DEF client
  <2> QED BY <1>2, <1>5, <1>6, <2>1, Zenon
<1>7. CASE /\ FinishSyncs(P, Empty, FALSE)
           /\ th' = [t \in Threads |-> IF t \in P THEN Ready ELSE th[t]]
  <2>1. (\A c \in Clients : call'[c] = IF c \in P THEN Idle ELSE call[c]) /\ ref' = ref /\ acked' = acked
    BY <1>0, <1>2, <1>7, SyncsFail, Zenon
  <2>2. \A t \in Threads : th'[t] = IF t \in P THEN Ready ELSE th[t]
    BY <1>7, Zenon
  <2>3. submit' = submit
    BY <1>7, Zenon DEF FinishSyncs
  <2> QED BY <1>2, <1>5, <2>1, <2>2, <2>3, Zenon
<1>8. CASE /\ th' = [th EXCEPT ![s] = [pc |-> "add", who |-> P, ext |-> pend[s].ext]]
           /\ UNCHANGED client
  <2> DEFINE w == [pc |-> "add", who |-> P, ext |-> pend[s].ext]
  <2>1. th' = [th EXCEPT ![s] = w] /\ w.pc = "add" /\ w.who = P
    BY <1>8, Zenon
  <2> HIDE DEF w
  <2>2. ref' = ref /\ DOMAIN th = Threads /\ s \in Threads
    BY <1>8, CommitParts, Zenon DEF client, Threads
  <2>3. \A t \in Clients \cup {Owner} : th'[t].pc = "laminate" <=> th[t].pc = "laminate"
    BY <1>0, <2>1, <2>2, ReadyIs, Zenon DEF Threads
  <2>4. Committed'
    BY <1>0, <1>1, <2>2, <2>3, CommittedKept, Zenon
  <2>5. \A b \in Clients : th[b].pc = "sync" /\ Home[b] = s => w.pc \in {"add", "addrpc"} /\ b \in w.who
    BY <1>0, <1>3, <2>1, ReadyPending, Zenon
  <2>6. /\ \A r \in Servers : pend'[r] = pend[r] \/ (r = s /\ pend'[r].who = {})
        /\ \A r \in Servers \ {s} : HasSync(queue[r]) => HasSync(queue'[r])
    BY <1>4, Zenon
  <2> QED BY <1>0, <1>1, <1>8, <2>1, <2>4, <2>5, <2>6, SyncGoCommit, Zenon
<1> QED BY <1>3, <1>6, <1>7, <1>8, ZenonT(30) DEF ProcessSync

\* The extents of a group of syncs are added at the owner, and the syncs succeed.
LEMMA AddCommitted ==
    ASSUME CommitInv, NEW over \in Contents, over # Empty, NEW P \in SUBSET Clients,
           Added(Owner, over, P), FinishSyncs(P, over, TRUE),
           \A t \in Clients \cup {Owner} : th'[t].pc = "laminate" <=> th[t].pc = "laminate"
    PROVE  Committed' /\ AckedAtOwner' /\ UNCHANGED <<ex, pend>>
<1>0. StateOK /\ Committed /\ AckedAtOwner /\ Owner \in Servers
  BY CommitParts, Zenon
<1>1. /\ ref'.exists = ref.exists /\ ref'.lam = ref.lam
      /\ ref'.ext = Overlay(ref.ext, over)
      /\ ref'.size = Max2(ref.size, ExtentSize(over))
      /\ acked' = acked \cup {call[c].data : c \in P}
  BY <1>0, SyncsSucceed, Zenon
<1>2. applied' = applied \cup {call[c].data : c \in P} /\ AddExtents(Owner, over)
  BY Zenon DEF Added
<1>3. /\ UNCHANGED <<ex, lam, pend>>
      /\ ext'[Owner] = Overlay(ext[Owner], over)
      /\ size'[Owner] = Max2(size[Owner], ExtentSize(Overlay(ext[Owner], over)))
  BY <1>0, <1>2, Zenon DEF AddExtents, StateOK, InodeOK
<1>4. ext[Owner] \in Contents /\ size[Owner] \in Sizes /\ Within(ext[Owner], size[Owner])
  BY <1>0, Zenon DEF StateOK, InodeOK, Committed
<1>5. /\ size'[Owner] = Max2(size[Owner], ExtentSize(over))
      /\ Within(ext'[Owner], size'[Owner])
  BY <1>3, <1>4, SizeOfOverlay
<1>6. Committed'
  BY <1>0, <1>1, <1>3, <1>5, Zenon DEF Committed
<1>7. AckedAtOwner'
  BY <1>0, <1>1, <1>2, Zenon DEF AckedAtOwner
<1> QED BY <1>3, <1>6, <1>7, Zenon

LEMMA SyncAddCommit == ASSUME CommitInv, NEW s \in Servers, SyncAdd(s) PROVE CommitInv'
<1>0. /\ ThreadInv /\ StateOK /\ Committed /\ Owner \in Servers /\ DOMAIN th = Threads /\ s \in Threads
      /\ th[s].pc = "add" /\ UNCHANGED queue /\ Added(s, th[s].ext, th[s].who)
  BY CommitParts, Zenon DEF SyncAdd, Threads
<1>1. /\ th[s] = [pc |-> th[s].pc, who |-> th[s].who, ext |-> th[s].ext]
      /\ th[s].who \in SUBSET Clients /\ th[s].ext \in Contents /\ th[s].ext # Empty
      /\ \A c \in th[s].who : th[c].pc = "sync"
  BY <1>0, Syncing, Zenon
<1>2. ThreadInv'
  BY <1>0, SyncAddThreads, Zenon
<1>3. CASE s = Owner
  <2>1. PICK P : P = th[s].who
    BY Zenon
  <2>2. PICK over : over = th[s].ext
    BY Zenon
  <2> DEFINE S == {s}
  <2>3. /\ P \in SUBSET Clients /\ over \in Contents /\ over # Empty /\ Added(Owner, over, P)
        /\ FinishSyncs(P, over, TRUE) /\ UNCHANGED chan
        /\ th' = [t \in Threads |-> IF t \in P \cup S THEN Ready ELSE th[t]]
    BY <1>0, <1>1, <1>3, <2>1, <2>2, Zenon DEF SyncAdd
  <2>4. S \in SUBSET Servers /\ \A x : x \in S <=> x = Owner
    BY <1>3, Zenon
  <2> HIDE DEF S
  <2>5. \A t \in Threads : th'[t] = IF t \in P \cup S THEN Ready ELSE th[t]
    BY <2>3, Zenon
  <2>6. \A t \in Clients \cup {Owner} : th'[t].pc = "laminate" <=> th[t].pc = "laminate"
    BY <1>0, <1>1, <1>3, <2>1, <2>4, <2>5, ReadyIs, Zenon DEF Threads
  <2>7. Committed' /\ AckedAtOwner' /\ UNCHANGED <<ex, pend>>
    BY <2>3, <2>6, AddCommitted, Zenon
  <2>8. \A c \in Clients : call'[c] = IF c \in P THEN Idle ELSE call[c]
    BY <1>0, <2>3, SyncsSucceed, Zenon
  <2>9. \A d \in Servers, m \in Messages : Carried(d, m)' => Carried(d, m)
    BY <1>0, <2>3, QuietMail, Zenon
  <2>10. \A x \in S : th[x].pc \in {"add", "addrpc"} => th[x].who \subseteq P
    BY <1>3, <2>1, <2>4, Zenon
  <2>11. /\ ex' = ex
         /\ \A x \in Servers : pend'[x] = pend[x] /\ (HasSync(queue[x]) => HasSync(queue'[x]))
    BY <1>0, <2>7, Zenon
  <2>12. submit' = submit
    BY <2>3, Zenon DEF FinishSyncs
  <2> QED BY <1>2, <2>3, <2>4, <2>5, <2>7, <2>8, <2>9, <2>10, <2>11, <2>12, SyncEndCommit, Zenon
<1>4. CASE s # Owner
  <2>1. /\ Send(s, Owner, [op |-> "add", who |-> s, ext |-> th[s].ext])
        /\ th' = [th EXCEPT ![s].pc = "addrpc"] /\ UNCHANGED client
    BY <1>4, Zenon DEF SyncAdd
  <2>2. PICK m \in Messages : m.op = "add" /\ Send(s, Owner, m)
    <3> DEFINE x == [op |-> "add", who |-> s, ext |-> th[s].ext]
    <3>1. x \in Messages /\ x.op = "add" /\ Send(s, Owner, x)
      BY <1>1, <2>1, Zenon DEF Messages
    <3> HIDE DEF x
    <3> QED BY <3>1, Zenon
  <2>3. PICK w : w = [th[s] EXCEPT !.pc = "addrpc"]
    BY Zenon
  <2>4. w.pc = "addrpc" /\ w.who = th[s].who
    BY <1>1, <2>3, Zenon
  <2>5. th' = [th EXCEPT ![s] = w]
    BY <2>1, <2>3, Zenon
  <2>6. \A d \in Servers, x \in Messages : Carried(d, x)' => Carried(d, x) \/ x = m
    BY <1>0, <2>2, SendMoves, Zenon
  <2>7. OwnerSame /\ ex' = ex /\ pend' = pend /\ UNCHANGED applied /\ ref' = ref
    BY <1>0, <1>4, <2>1, Zenon DEF Added, AddExtents, OwnerSame, StateOK, InodeOK, client
  <2>8. \A t \in Clients \cup {Owner} : th'[t].pc = "laminate" <=> th[t].pc = "laminate"
    BY <1>0, <1>4, <2>5, DisjointAssumption, Zenon DEF Threads
  <2>9. Committed'
    BY <1>0, <2>7, <2>8, CommittedKept, Zenon
  <2>10. \A b \in Clients : th[b].pc = "sync" /\ Home[b] = s =>
               \/ b \in pend'[s].who /\ (b \in submit' \/ HasSync(queue'[s]))
               \/ w.pc \in {"add", "addrpc"} /\ b \in w.who
    BY <1>0, <2>1, <2>4, <2>7, CommitParts, Zenon DEF NoSyncForgotten, HasSync, client
  <2>11. /\ \A r \in Servers : pend'[r] = pend[r] \/ (r = s /\ pend'[r].who = {})
         /\ \A r \in Servers \ {s} : HasSync(queue[r]) => HasSync(queue'[r])
         /\ \A d \in Servers, x \in Messages : Carried(d, x)' => Carried(d, x) \/ x.op # "b_unlink"
    BY <1>0, <2>2, <2>6, <2>7, Zenon
  <2> QED BY <1>2, <2>1, <2>5, <2>7, <2>9, <2>10, <2>11, SyncGoCommit, Zenon
<1> QED BY <1>3, <1>4, Zenon

LEMMA AddAtOwnerCommit == ASSUME CommitInv, AddAtOwner PROVE CommitInv'
<1>5. PICK m : m = Head(queue[Owner])
  BY Zenon
<1>6. PICK r : r = m.who
  BY Zenon
<1>0. /\ ThreadInv /\ StateOK /\ Committed /\ AckedAtOwner /\ Owner \in Servers /\ Owner \in Threads /\ DOMAIN th = Threads
      /\ Serves(Owner, "add") /\ UNCHANGED inode /\ UNCHANGED chan /\ UNCHANGED applied /\ th[Owner] = Ready
  BY CommitParts, Zenon DEF AddAtOwner, Serves
<1>1. /\ r \in Servers \ {Owner} /\ th[r].pc = "addrpc"
      /\ \A d \in Servers, x \in Messages : Carried(d, x)' => Carried(d, x)
  BY <1>0, <1>5, <1>6, AddServed, Zenon
<1>2. /\ ThreadInv' /\ OwnerSame /\ ex' = ex /\ pend' = pend
      /\ \A s \in Servers : HasSync(queue[s]) => HasSync(queue'[s])
  BY <1>0, AddAtOwnerThreads, ServeKeepsSync, Zenon DEF inode, OwnerSame
<1>3. CASE SyncAnswer(r, FALSE)
  <2>1. PICK P : P = th[r].who
    BY Zenon
  <2> DEFINE S == {r, Owner}
  <2>2. /\ P \in SUBSET Clients /\ \A c \in P : th[c].pc = "sync"
    BY <1>0, <1>1, <2>1, Syncing, Zenon
  <2>3. /\ FinishSyncs(P, th[r].ext, FALSE)
        /\ th' = [t \in Threads |-> IF t \in P \cup S THEN Ready ELSE th[t]]
    BY <1>3, <2>1, Zenon DEF SyncAnswer
  <2>4. S \in SUBSET Servers /\ \A x : x \in S <=> x = r \/ x = Owner
    BY <1>0, <1>1, Zenon
  <2> HIDE DEF S
  <2>5. \A t \in Threads : th'[t] = IF t \in P \cup S THEN Ready ELSE th[t]
    BY <2>3, Zenon
  <2>6. (\A c \in Clients : call'[c] = IF c \in P THEN Idle ELSE call[c]) /\ ref' = ref /\ acked' = acked
    BY <1>0, <2>2, <2>3, SyncsFail, Zenon
  <2>7. \A t \in Clients \cup {Owner} : th'[t].pc = "laminate" <=> th[t].pc = "laminate"
    <3>1. \A t \in Clients : t \in Threads /\ t \notin S
      BY <1>0, <1>1, <2>4, DisjointAssumption, Zenon DEF Threads
    <3> QED BY <1>0, <2>2, <2>4, <2>5, <3>1, ReadyIs, Zenon
  <2>8. Committed' /\ AckedAtOwner'
    BY <1>0, <1>2, <2>6, <2>7, CommittedKept, Zenon DEF AckedAtOwner
  <2>9. \A x \in S : th[x].pc \in {"add", "addrpc"} => th[x].who \subseteq P
    BY <1>0, <2>1, <2>4, ReadyIs, Zenon
  <2>10. submit' = submit
    BY <2>3, Zenon DEF FinishSyncs
  <2> QED BY <1>1, <1>2, <2>2, <2>4, <2>5, <2>6, <2>8, <2>9, <2>10, SyncEndCommit, Zenon
<1>4. CASE /\ th' = [th EXCEPT ![Owner] = [pc |-> "radd", who |-> m.who, ext |-> m.ext]]
           /\ UNCHANGED client
  <2> DEFINE w == [pc |-> "radd", who |-> m.who, ext |-> m.ext]
  <2>1. th' = [th EXCEPT ![Owner] = w] /\ w.pc = "radd"
    BY <1>4, Zenon
  <2> HIDE DEF w
  <2>2. ref' = ref /\ \A t \in Clients \cup {Owner} : th'[t].pc = "laminate" <=> th[t].pc = "laminate"
    BY <1>0, <1>4, <2>1, ReadyIs, Zenon DEF Threads, client
  <2>3. Committed'
    BY <1>0, <1>2, <2>2, CommittedKept, Zenon
  <2>4. \A b \in Clients : th[b].pc = "sync" /\ Home[b] = Owner =>
             b \in pend'[Owner].who /\ (b \in submit' \/ HasSync(queue'[Owner]))
    BY <1>0, <1>2, <1>4, ReadyPending, Zenon DEF client
  <2> QED BY <1>0, <1>1, <1>2, <1>4, <2>1, <2>3, <2>4, SyncGoCommit, Zenon
<1> QED BY <1>3, <1>4, <1>5, <1>6, Zenon DEF AddAtOwner

LEMMA AddAtOwnerEndCommit == ASSUME CommitInv, AddAtOwnerEnd PROVE CommitInv'
<1>1. PICK r : r = th[Owner].who
  BY Zenon
<1>2. PICK P : P = th[r].who
  BY Zenon
<1>3. PICK over : over = th[Owner].ext
  BY Zenon
<1> DEFINE S == {r, Owner}
<1>0. /\ ThreadInv /\ StateOK /\ Owner \in Servers /\ th[Owner].pc = "radd" /\ UNCHANGED queue /\ UNCHANGED chan
      /\ Added(Owner, over, P) /\ SyncAnswer(r, TRUE)
  BY <1>1, <1>2, <1>3, CommitParts, Zenon DEF AddAtOwnerEnd
<1>4. r \in Servers /\ th[r].pc = "addrpc" /\ th[r].ext = over
  <2>1. OwnerOK /\ Waits(r, "add")
    BY <1>0, <1>1, Zenon DEF ThreadInv, OwnerOK
  <2> QED BY <1>0, <1>1, <1>3, <2>1, Zenon DEF OwnerOK, Waits, ClientOps
<1>5. P \in SUBSET Clients /\ over \in Contents /\ over # Empty /\ \A c \in P : th[c].pc = "sync"
  BY <1>0, <1>2, <1>4, Syncing, Zenon
<1>6. FinishSyncs(P, over, TRUE) /\ th' = [t \in Threads |-> IF t \in P \cup S THEN Ready ELSE th[t]]
  BY <1>0, <1>2, <1>4, Zenon DEF SyncAnswer
<1>7. S \in SUBSET Servers /\ \A x : x \in S <=> x = r \/ x = Owner
  BY <1>0, <1>4, Zenon
<1> HIDE DEF S
<1>8. \A t \in Threads : th'[t] = IF t \in P \cup S THEN Ready ELSE th[t]
  BY <1>6, Zenon
<1>9. \A t \in Clients \cup {Owner} : th'[t].pc = "laminate" <=> th[t].pc = "laminate"
  <2>1. \A t \in Clients : t \in Threads /\ t \notin S
    BY <1>0, <1>4, <1>7, DisjointAssumption, Zenon DEF Threads
  <2>2. Owner \in Threads
    BY <1>0, Zenon DEF Threads
  <2> QED BY <1>0, <1>5, <1>7, <1>8, <2>1, <2>2, ReadyIs, Zenon
<1>10. Committed' /\ AckedAtOwner' /\ UNCHANGED <<ex, pend>>
  BY <1>0, <1>5, <1>6, <1>9, AddCommitted, Zenon
<1>11. \A c \in Clients : call'[c] = IF c \in P THEN Idle ELSE call[c]
  BY <1>0, <1>5, <1>6, SyncsSucceed, Zenon
<1>12. \A d \in Servers, m \in Messages : Carried(d, m)' => Carried(d, m)
  BY <1>0, QuietMail, Zenon
<1>13. \A x \in S : th[x].pc \in {"add", "addrpc"} => th[x].who \subseteq P
  BY <1>0, <1>2, <1>7, Zenon
<1>14. ex' = ex /\ \A x \in Servers : pend'[x] = pend[x] /\ (HasSync(queue[x]) => HasSync(queue'[x]))
  BY <1>0, <1>10, Zenon
<1>15. ThreadInv'
  BY <1>0, AddAtOwnerEndThreads, Zenon
<1>16. submit' = submit
  BY <1>6, Zenon DEF FinishSyncs
<1> QED BY <1>5, <1>7, <1>8, <1>10, <1>11, <1>12, <1>13, <1>14, <1>15, <1>16, SyncEndCommit, Zenon

LEMMA InitCommit == ASSUME Init PROVE CommitInv
<1>0. /\ Owner \in Servers /\ Servers \subseteq Threads /\ Clients \subseteq Threads
      /\ Ready.pc = "idle" /\ Idle.op = "idle" /\ ThreadInv
  BY OwnerAssumption, ReadyIs, InitThreads, Zenon DEF Threads
<1>1. /\ th = [t \in Threads |-> Ready] /\ queue = [s \in Servers |-> <<>>]
      /\ chan = [s \in Servers |-> [d \in Servers |-> <<>>]]
      /\ pend = [s \in Servers |-> NoPend] /\ ex = {} /\ acked = {}
      /\ lam = [s \in Servers |-> FALSE] /\ size = [s \in Servers |-> 0] /\ ext = [s \in Servers |-> Empty]
  BY Zenon DEF Init
<1>2. call = [c \in Clients |-> Idle] /\ ref = AF!NoFile
  <2>1. AF!Idle = Idle
    BY Zenon DEF AF!Idle, Idle
  <2> QED BY <2>1, Zenon DEF Init, AF!Init
<1>3. ref.exists = FALSE /\ ref.lam = FALSE /\ ref.size = 0 /\ ref.ext = Empty
  BY <1>2, SameData, Zenon DEF AF!NoFile
<1>4. \A t \in Threads : th[t].pc = "idle"
  BY <1>0, <1>1, Zenon
<1>5. \A s, d \in Servers : Len(chan[s][d]) = 0 /\ Len(queue[d]) = 0
  BY <1>1, Zenon
<1>6. \A d \in Servers, m \in Messages : ~Carried(d, m)
  BY <1>5 DEF Carried, CarriedIn
<1>7. Permanent
  <2>1. \A c \in Clients : call[c].op = "idle" /\ th[c].pc = "idle"
    BY <1>0, <1>2, <1>4, Zenon
  <2>2. \A s \in Servers : pend[s].who = {}
    BY <1>1, Zenon DEF NoPend
  <2> QED BY <1>6, <2>1, <2>2, Zenon DEF Permanent
<1>8. Committed
  <2>1. Within(Empty, 0)
    BY Zenon DEF Within, Empty
  <2>2. lam[Owner] = FALSE /\ size[Owner] = 0 /\ ext[Owner] = Empty /\ Owner \notin ex
    BY <1>0, <1>1, Zenon
  <2>3. \A t \in Clients \cup {Owner} : th[t].pc # "laminate"
    BY <1>0, <1>4, Zenon
  <2> QED BY <1>3, <2>1, <2>2, <2>3, Zenon DEF Committed
<1>9. NoSyncForgotten /\ AckedAtOwner
  BY <1>0, <1>1, <1>4, Zenon DEF NoSyncForgotten, AckedAtOwner
<1> QED BY <1>0, <1>7, <1>8, <1>9, Zenon DEF CommitInv

LEMMA NextCommit == ASSUME "unlink" \notin Menu, CommitInv, [Next]_vars PROVE CommitInv'
<1>0. Owner \in Clients \cup {Owner} /\ \A c \in Clients : c \in Clients \cup {Owner}
  BY Zenon
<1>1. ASSUME NEW c \in Clients, Call(c) \/ RequestManager(c) PROVE CommitInv'
  BY <1>0, <1>1, CallCommit, CreateCommit, SyncCommit, SyncSubmitCommit, NoUnlink, ReadLocalCommit, ReadRemoteCommit,
     SizeLocalCommit, SizeRemoteCommit, SizeEndCommit, SizePollCommit, ForwardsCommit,
     TruncateCommit, TruncateEndCommit, LaminateCommit, LaminateEndCommit, Zenon DEF RequestManager
<1>2. ASSUME NEW s \in Servers, ServiceManager(s) PROVE CommitInv'
  BY <1>0, <1>2, ProcessSyncCommit, SyncAddCommit, CreateAtOtherCommit, TruncateAtOtherCommit,
     LaminateAtOtherCommit, NoUnlink, AddAtOwnerCommit, AddAtOwnerEndCommit,
     TruncateEndCommit, LaminateEndCommit, CreateAtOwnerCommit, TruncateCommit, LaminateCommit,
     ReadAtOwnerCommit, SizeAtOwnerCommit, Zenon DEF ServiceManager
<1>3. ASSUME NEW s \in Servers, NEW d \in Servers, Deliver(s, d) PROVE CommitInv'
  BY <1>3, DeliverCommit, Zenon
<1> QED BY <1>1, <1>2, <1>3, StutterCommit, Zenon DEF Next

\* At every moment, with calls and broadcasts under way, the inode of the owner is
\* the file that the returned calls define, no sync is forgotten and an acknowledged
\* one is at the owner: rpc_fsync, process_pending_sync, add_extents, truncate and
\* laminate keep it.  The claim is about programs that do not unlink the file, whose
\* unlink frees inodes that other threads use.
THEOREM CommitCorrect == ASSUME "unlink" \notin Menu PROVE Spec => []CommitInv
<1>1. Init => CommitInv
  BY InitCommit, Zenon
<1>2. CommitInv /\ [Next]_vars => CommitInv'
  BY NextCommit, Zenon
<1> QED BY <1>1, <1>2, PTL DEF Spec

\* NoSyncForgotten: a client that waits for its sync (rpc_fsync) is in the list of
\* pending syncs of its server and a request to process the list is queued or its
\* own thread is about to queue it, or process_pending_sync has taken it: for any
\* number of clients and servers, any calls but unlink, and any order in which the
\* requests arrive.
THEOREM SyncsNotForgotten == ASSUME "unlink" \notin Menu PROVE Spec => []NoSyncForgotten
<1>1. CommitInv => NoSyncForgotten
  BY Zenon DEF CommitInv
<1> QED BY <1>1, CommitCorrect, PTL

\* AckedAtOwner: a sync that returned success has been added to the inode of the
\* owner, when process_pending_sync takes several syncs together and when the owner
\* is another server, for any number of clients and servers.
THEOREM AckedSyncsAtOwner == ASSUME "unlink" \notin Menu PROVE Spec => []AckedAtOwner
<1>1. CommitInv => AckedAtOwner
  BY Zenon DEF CommitInv
<1> QED BY <1>1, CommitCorrect, PTL

\* OwnerIsCommitted: whenever no call is in progress the inode of the owner has the
\* size, the extents and the lamination that the calls define, although broadcasts
\* are still under way; also after calls that ran concurrently.
THEOREM OwnerCommitted == ASSUME "unlink" \notin Menu PROVE Spec => []OwnerIsCommitted
<1>1. ASSUME CommitInv, NoCall PROVE \A t \in Clients \cup {Owner} : th[t].pc # "laminate"
  <2>0. ThreadInv
    BY <1>1, CommitParts, Zenon
  <2> SUFFICES ASSUME NEW t \in Clients \cup {Owner}, th[t].pc = "laminate" PROVE FALSE
    BY Zenon
  <2>1. th[t].who \in Clients /\ call[th[t].who] # Idle
    BY <2>0, ForWhom, Zenon
  <2> QED BY <1>1, <2>1, Zenon DEF NoCall
<1>2. CommitInv => OwnerIsCommitted
  <2> SUFFICES ASSUME CommitInv, NoCall, ref.exists
               PROVE  Owner \in ex /\ lam[Owner] = ref.lam /\ size[Owner] = ref.size /\ ext[Owner] = ref.ext
    BY Zenon DEF OwnerIsCommitted
  <2>1. Committed /\ lam[Owner] \in BOOLEAN /\ ref.lam \in BOOLEAN
    BY CommitParts, Zenon DEF StateOK, InodeOK, CallOK, Files
  <2>2. Owner \in ex /\ size[Owner] = ref.size /\ ext[Owner] = ref.ext
    BY <2>1, Zenon DEF Committed
  <2>3. lam[Owner] <=> ref.lam
    BY <1>1, <2>1, Zenon DEF Committed
  <2> QED BY <2>1, <2>2, <2>3, Zenon
<1> QED BY <1>2, CommitCorrect, PTL

\* Nothing but a read returns from a read.
LEMMA OtherReturns ==
    ASSUME NEW b \in Clients, NEW a, Finish(b, a), StateOK, call[b].op # "read", NEW c \in Clients, call[c].op = "read"
    PROVE  call'[c] = call[c]
BY Zenon DEF Finish, StateOK, CallOK

LEMMA SyncsReturn ==
    ASSUME NEW P, NEW e, NEW ok, FinishSyncs(P, e, ok), ThreadInv, \A b \in P : b \in Clients /\ th[b].pc = "sync",
           NEW c \in Clients, call[c].op = "read"
    PROVE  call'[c] = call[c]
<1>1. c \notin P
  BY Zenon DEF ThreadInv, ClientOK
<1> QED BY <1>1, Zenon DEF FinishSyncs

LEMMA ReadEnds ==
    ASSUME ThreadInv, Next, NEW c \in Clients, call[c].op = "read", call'[c] = Idle
    PROVE  ReadLocal(c) \/ ReadAtOwner(c)
<1>0. /\ StateOK /\ DOMAIN th = Threads /\ Idle.op = "idle" /\ call'[c] # call[c]
      /\ Owner \in Servers /\ (\A b \in Clients : b \in Clients \cup {Owner}) /\ Owner \in Clients \cup {Owner}
  BY Parts, ReadyIs, Zenon
<1>1. ~UNCHANGED client
  BY <1>0, Zenon DEF client
<1>2. ASSUME NEW b \in Clients, NEW a, Finish(b, a) PROVE call[b].op = "read" /\ b = c
  BY <1>0, <1>2, OtherReturns, Zenon DEF Finish, StateOK, CallOK
<1>3. ASSUME NEW t \in Clients \cup {Owner}, TruncateEnd(t) \/ LaminateEnd(t) PROVE FALSE
  <2>1. th[t].pc \in {"truncate", "laminate"} /\ \E a : Finish(th[t].who, a)
    BY <1>3, Zenon DEF TruncateEnd, LaminateEnd
  <2>2. th[t].who \in Clients /\ call[th[t].who].op # "read"
    BY <2>1, ForWhom, Zenon
  <2> QED BY <1>2, <2>1, <2>2, Zenon
<1>4. ASSUME NEW t, NEW b \in Clients, Truncate(t, b) \/ Laminate(t, b) PROVE FALSE
  <2>1. AtOwner(t, "truncate", b) \/ AtOwner(t, "laminate", b)
    BY <1>4, Zenon DEF Truncate, Laminate
  <2>2. call[b].op # "read"
    <3>1. CASE t = b /\ (Starts(b, "truncate") \/ Starts(b, "laminate"))
      BY <3>1, Zenon DEF Starts
    <3>2. CASE t = Owner /\ (Serves(t, "truncate") \/ Serves(t, "laminate")) /\ Head(queue[t]).who = b
      BY <3>2, ClientServed, Zenon DEF ClientOps
    <3> QED BY <2>1, <3>1, <3>2, Zenon DEF AtOwner
  <2>3. \E a : Finish(b, a)
    BY <1>1, <1>4, Zenon DEF Truncate, Laminate
  <2> QED BY <1>2, <2>2, <2>3, Zenon
<1>5. CASE \E b \in Clients : Call(b) \/ RequestManager(b)
  <2>1. PICK b \in Clients : Call(b) \/ RequestManager(b)
    BY <1>5, Zenon
  <2>2. ~Call(b)
    BY <1>0, Zenon DEF Call, StateOK, CallOK
  <2>3. ASSUME \E op \in {"create", "sync", "unlink", "size"} : Starts(b, op) PROVE \A a : ~Finish(b, a)
    BY <1>2, <2>3, Zenon DEF Starts
  <2>4. ~Create(b) /\ ~Sync(b) /\ ~SyncSubmit(b)
    BY <1>0, <1>1, <2>3, Zenon DEF Create, Sync, SyncSubmit
  <2>5. ~Unlink(b) /\ ~SizeLocal(b) /\ ~SizeRemote(b)
    BY <1>1, <2>3, Zenon DEF Unlink, SizeLocal, SizeRemote
  <2>6. ~SizeEnd(b) /\ ~SizePoll(b)
    <3>1. th[b].pc \in {"attr", "poll"} => call[b].op = "size"
      BY Zenon DEF ThreadInv, ClientOK
    <3>2. ASSUME SizeEnd(b) PROVE FALSE
      <4> DEFINE a == IF th[b].ok THEN AnswerSize(th[b].size) ELSE Answer(FALSE)
      <4>1. th[b].pc = "attr" /\ Finish(b, a)
        BY <3>2, ZenonT(30) DEF SizeEnd
      <4> HIDE DEF a
      <4> QED BY <1>2, <3>1, <4>1, Zenon
    <3>3. ASSUME SizePoll(b) PROVE FALSE
      <4>1. th[b].pc = "poll" /\ Finish(b, LocalSize(Home[b]))
        BY <3>3 DEF SizePoll, At
      <4> QED BY <1>2, <3>1, <4>1, Zenon
    <3> QED BY <3>2, <3>3, Zenon
  <2>7. ~ReadRemote(b) /\ ~Forwards(b, "truncate") /\ ~Forwards(b, "laminate")
    BY <1>1, Zenon DEF ReadRemote, Forwards
  <2>8. ReadLocal(b)
    BY <1>0, <1>3, <1>4, <2>1, <2>2, <2>4, <2>5, <2>6, <2>7, Zenon DEF RequestManager
  <2> QED BY <1>2, <2>8, Zenon DEF ReadLocal
<1>6. CASE \E s \in Servers : ServiceManager(s)
  <2>1. PICK s \in Servers : ServiceManager(s)
    BY <1>6, Zenon
  <2>2. ~CreateAtOther(s) /\ ~TruncateAtOther(s) /\ ~LaminateAtOther(s) /\ ~UnlinkAtOther(s)
    BY <1>1, Zenon DEF CreateAtOther, TruncateAtOther, LaminateAtOther, UnlinkAtOther
  <2>3. ~ProcessSync(s)
    <3>1. \A b \in pend[s].who : b \in Clients /\ th[b].pc = "sync"
      BY Pending, Zenon
    <3> QED BY <1>0, <1>1, <3>1, SyncsReturn, Zenon DEF ProcessSync
  <2>4. ASSUME NEW r \in Servers, th[r].pc \in {"add", "addrpc"}, NEW e, NEW ok, FinishSyncs(th[r].who, e, ok) PROVE FALSE
    <3>1. PICK P : P = th[r].who
      BY Zenon
    <3>2. \A b \in P : b \in Clients /\ th[b].pc = "sync"
      BY <2>4, <3>1, Syncing, Zenon
    <3>3. FinishSyncs(P, e, ok)
      BY <2>4, <3>1, Zenon
    <3> QED BY <1>0, <3>2, <3>3, SyncsReturn, Zenon
  <2>5. ~SyncAdd(s)
    BY <1>1, <2>4, Zenon DEF SyncAdd
  <2>6. ~AddAtOwner
    <3> SUFFICES ASSUME AddAtOwner PROVE FALSE
      BY Zenon
    <3>1. Serves(Owner, "add") /\ UNCHANGED chan /\ SyncAnswer(Head(queue[Owner]).who, FALSE)
      BY <1>1, Zenon DEF AddAtOwner
    <3>2. Head(queue[Owner]).who \in Servers /\ th[Head(queue[Owner]).who].pc = "addrpc"
      BY <3>1, AddServed, Zenon
    <3> QED BY <2>4, <3>1, <3>2, Zenon DEF SyncAnswer
  <2>7. ~AddAtOwnerEnd
    <3> SUFFICES ASSUME AddAtOwnerEnd PROVE FALSE
      BY Zenon
    <3>1. th[Owner].pc = "radd" /\ SyncAnswer(th[Owner].who, TRUE)
      BY ZenonT(30) DEF AddAtOwnerEnd
    <3>2. th[Owner].who \in Servers /\ th[th[Owner].who].pc = "addrpc"
      BY <3>1, Zenon DEF ThreadInv, OwnerOK, Waits, ClientOps
    <3> QED BY <2>4, <3>1, <3>2, Zenon DEF SyncAnswer
  <2>8. PICK b \in Clients : CreateAtOwner(b) \/ ReadAtOwner(b) \/ SizeAtOwner(b)
    BY <1>0, <1>3, <1>4, <2>1, <2>2, <2>3, <2>5, <2>6, <2>7, Zenon DEF ServiceManager
  <2>9. ~CreateAtOwner(b)
    <3> SUFFICES ASSUME CreateAtOwner(b) PROVE FALSE
      BY Zenon
    <3>1. Serves(Owner, "create") /\ Head(queue[Owner]).who = b /\ \E a : Finish(b, a)
      BY Zenon DEF CreateAtOwner
    <3>2. call[b].op = "create"
      BY <3>1, ClientServed, Zenon DEF ClientOps
    <3> QED BY <1>2, <3>1, <3>2, Zenon
  <2>10. ReadAtOwner(b)
    BY <1>1, <2>8, <2>9, Zenon DEF SizeAtOwner
  <2> QED BY <1>2, <2>10, Zenon DEF ReadAtOwner
<1>7. CASE \E s, d \in Servers : Deliver(s, d)
  BY <1>1, <1>7, Zenon DEF Deliver
<1> QED BY <1>5, <1>6, <1>7, Zenon DEF Next

\* ReadsSeeSyncs: a read at a server where the file is not laminated asks the owner,
\* and returns all that was synced and nothing that was truncated before it returns,
\* whatever broadcasts have not arrived.
THEOREM ReadsCorrect == ASSUME "unlink" \notin Menu PROVE Spec => ReadsSeeSyncs
<1>1. ASSUME CommitInv, Next, NEW c \in Clients, ReadReturns(c), ~lam[Home[c]] PROVE ret'[c].ext = ref.ext
  <2>1. /\ ThreadInv /\ StateOK /\ ext[Owner] = ref.ext
        /\ call[c].op = "read" /\ call'[c] = Idle /\ ret'[c].ok
    BY <1>1, CommitParts, Zenon DEF Committed, ReadReturns
  <2>2. \A a : Finish(c, a) => ret'[c] = a
    BY <2>1, Zenon DEF Finish, StateOK, CallOK
  <2>3. CASE ReadLocal(c)
    <3>1. Home[c] = Owner /\ ret'[c] = AnswerExt(ext[Home[c]])
      BY <1>1, <2>2, <2>3, Zenon DEF ReadLocal
    <3> QED BY <2>1, <3>1, AnswerTypes, Zenon
  <2>4. CASE ReadAtOwner(c)
    <3>1. ret'[c] = IF Owner \in ex THEN AnswerExt(ext[Owner]) ELSE Answer(FALSE)
      BY <2>2, <2>4, Zenon DEF ReadAtOwner
    <3>2. Owner \in ex
      BY <2>1, <3>1, AnswerTypes, Zenon
    <3> QED BY <2>1, <3>1, <3>2, AnswerTypes, Zenon
  <2> QED BY <1>1, <2>1, <2>3, <2>4, ReadEnds, Zenon
<1>2. CommitInv /\ [Next]_vars =>
         [\A c \in Clients : (ReadReturns(c) /\ ~lam[Home[c]]) => ret'[c].ext = ref.ext]_vars
  BY <1>1, Zenon
<1> QED BY <1>2, CommitCorrect, PTL DEF Spec, ReadsSeeSyncs

=============================================================================
