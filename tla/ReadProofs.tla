----------------------------- MODULE ReadProofs -----------------------------
(* Proofs about the read path, for any number of threads, servers, slots and *)
(* faults: the array of read requests, the lists of messages, what the       *)
(* updates of slots and lists do; the steps of the request manager, which    *)
(* fill slots, read the chunks of the server itself, send requests, handle   *)
(* responses and give slots back; those of the service managers, which take  *)
(* requests, read chunks and send responses; and the invariant of the path.  *)
EXTENDS ReadPath, FiniteSetTheorems, TLAPS

\* The inductive step of the array on its own: rm_reserve_read_req and
\* release_read_req keep everything between the counter and the last slot but
\* one free, and num_read_reqs exact.
LEMMA SlotStep == SlotInv /\ [SlotNext]_slotVars => SlotInv'
<1> USE MaxReadsAssumption
<1> SUFFICES ASSUME SlotInv, [SlotNext]_slotVars PROVE SlotInv'
  BY Zenon
<1>0. inUse \subseteq Slots /\ next \in 0 .. MaxReads - 1 /\ num \in 0 .. MaxReads
  BY Zenon DEF SlotInv, SlotsTypeOK
<1>1. IsFiniteSet(Slots) /\ Cardinality(Slots) = MaxReads
  BY FS_Interval DEF Slots
<1>2. IsFiniteSet(inUse)
  BY <1>0, <1>1, FS_Subset, Zenon
<1>3. ASSUME NEW i \in Slots, Reserve(i) PROVE SlotInv'
  <2>1. i \notin inUse
    BY <1>3, <1>0 DEF Reserve, FirstUnused, SlotInv, Slots
  <2>2. inUse' = inUse \cup {i} /\ num' = num + 1 /\ num < MaxReads
    BY <1>3, Zenon DEF Reserve
  <2>3. Cardinality(inUse \cup {i}) = Cardinality(inUse) + 1
    BY <1>2, <2>1, FS_AddElement, Zenon
  <2>4. SlotsTypeOK'
    BY <1>0, <1>3, <2>2 DEF Reserve, SlotsTypeOK, Slots
  <2>5. \A k \in Slots : next' <= k /\ k < MaxReads - 1 => k \notin inUse'
    BY <1>0, <1>3, <2>2 DEF Reserve, FirstUnused, SlotInv, Slots
  <2>6. num' = Cardinality(inUse')
    BY <2>2, <2>3, Zenon DEF SlotInv
  <2> QED BY <2>4, <2>5, <2>6, Zenon DEF SlotInv
<1>4. ASSUME NEW i \in Slots, Release(i) PROVE SlotInv'
  <2>1. i \in inUse /\ inUse' = inUse \ {i} /\ num' = num - 1
    BY <1>4, Zenon DEF Release
  <2>2. Cardinality(inUse \ {i}) = Cardinality(inUse) - 1
    BY <1>2, <2>1, FS_RemoveElement, Zenon
  <2>3. Cardinality(inUse) \in Nat /\ Cardinality(inUse \ {i}) \in Nat
    BY <1>2, FS_CardinalityType, FS_RemoveElement, Zenon
  <2>4. num' = Cardinality(inUse')
    BY <2>1, <2>2, Zenon DEF SlotInv
  <2>5. CASE num = 1
    <3>1. Cardinality(inUse \ {i}) = 0
      BY <2>2, <2>5 DEF SlotInv
    <3>2. inUse \ {i} = {}
      BY <3>1, <1>2, FS_RemoveElement, FS_EmptySet, Zenon
    <3>3. inUse' = {} /\ next' = 0
      BY <3>2, <2>1, <2>5, <1>4, Zenon DEF Release
    <3> QED BY <3>3, <2>4, <2>1, <2>5 DEF SlotInv, SlotsTypeOK
  <2>6. CASE num # 1
    <3>1. num' \in 0 .. MaxReads
      BY <1>0, <2>1, <2>3, <2>2, <2>4
    <3>2. next' = IF i = next - 1 THEN next - 1 ELSE next
      BY <1>4, <2>6, Zenon DEF Release
    <3>3. next' \in 0 .. MaxReads - 1
      BY <3>2, <1>0, Zenon DEF Slots
    <3>4. \A k \in Slots : next' <= k /\ k < MaxReads - 1 => k \notin inUse'
      BY <3>2, <1>0, <2>1 DEF SlotInv, Slots
    <3>5. inUse' \subseteq Slots
      BY <1>0, <2>1, Zenon
    <3> QED BY <3>1, <3>3, <3>4, <3>5, <2>4, Zenon DEF SlotInv, SlotsTypeOK
  <2> QED BY <2>5, <2>6, Zenon
<1>5. CASE UNCHANGED slotVars
  BY <1>5, Zenon DEF SlotInv, SlotsTypeOK, slotVars
<1> QED BY <1>3, <1>4, <1>5, Zenon DEF SlotNext

\* The array of read requests starts with every slot free.
LEMMA SlotStart == SlotInit => SlotInv
BY MaxReadsAssumption, FS_EmptySet DEF SlotInit, SlotInv, SlotsTypeOK, Slots

\* Both assertions about the array follow from the inductive invariant.
LEMMA SlotInvImplies == SlotInv => NextFree /\ SearchFinds
<1> USE MaxReadsAssumption
<1> SUFFICES ASSUME SlotInv PROVE NextFree /\ SearchFinds
  BY Zenon
<1>0. inUse \subseteq Slots /\ next \in 0 .. MaxReads - 1 /\ num = Cardinality(inUse)
  BY Zenon DEF SlotInv, SlotsTypeOK
<1>1. NextFree
  BY <1>0 DEF SlotInv, NextFree, Slots
<1>2. SearchFinds
  <2> SUFFICES ASSUME num < MaxReads, Slots \subseteq inUse PROVE FALSE
    BY Zenon DEF SearchFinds
  <2>1. inUse = Slots
    BY <1>0, Zenon
  <2>2. Cardinality(Slots) = MaxReads
    BY FS_Interval DEF Slots
  <2> QED BY <2>1, <2>2, <1>0
<1> QED BY <1>1, <1>2, Zenon

------------------------------------------------------------------------------
(* Facts about the lists of messages *)

\* What Append does to a list of a service manager.
LEMMA AppendFacts ==
    ASSUME NEW s, NEW e, IsSeq(s)
    PROVE  /\ IsSeq(Append(s, e))
           /\ Len(s) \in Nat /\ DOMAIN s = 1 .. Len(s)
           /\ DOMAIN Append(s, e) = 1 .. Len(s) + 1
           /\ \A k \in DOMAIN s : Append(s, e)[k] = s[k]
           /\ Append(s, e)[Len(s) + 1] = e
<1> DEFINE R == {s[k] : k \in DOMAIN s}
<1> DEFINE T == Append(s, e)
<1>1. s \in Seq(R) BY Zenon DEF IsSeq
<1> HIDE DEF R
<1>2. Len(s) \in Nat /\ DOMAIN s = 1 .. Len(s) BY <1>1
<1>3. Len(T) = Len(s) + 1 /\ DOMAIN T = 1 .. Len(s) + 1 BY <1>1
<1>4. \A k \in DOMAIN s : T[k] = s[k] BY <1>1, <1>2
<1>5. T[Len(s) + 1] = e BY <1>1
<1> DEFINE Q == R \cup {e}
<1>6. T \in Seq(Q)
  <2>1. s \in Seq(Q) /\ e \in Q BY <1>1
  <2> HIDE DEF Q
  <2> QED BY <2>1
<1> HIDE DEF T, Q
<1>7. T \in Seq({T[k] : k \in DOMAIN T}) BY <1>6
<1> QED BY <1>2, <1>3, <1>4, <1>5, <1>7, Zenon DEF IsSeq, T

\* What Head and Tail do to a list of a service manager.
LEMMA TailFacts ==
    ASSUME NEW s, IsSeq(s), s # <<>>
    PROVE  /\ IsSeq(Tail(s))
           /\ Len(s) \in Nat /\ DOMAIN s = 1 .. Len(s) /\ 1 \in DOMAIN s
           /\ DOMAIN Tail(s) = 1 .. Len(s) - 1
           /\ \A k \in DOMAIN Tail(s) : k + 1 \in DOMAIN s /\ k + 1 # 1 /\ Tail(s)[k] = s[k + 1]
           /\ Head(s) = s[1]
<1> DEFINE R == {s[k] : k \in DOMAIN s}
<1> DEFINE T == Tail(s)
<1>1. s \in Seq(R) BY Zenon DEF IsSeq
<1> HIDE DEF R
<1>2. Len(s) \in Nat \ {0} /\ DOMAIN s = 1 .. Len(s) BY <1>1
<1>3. Len(T) = Len(s) - 1 /\ DOMAIN T = 1 .. Len(s) - 1 BY <1>1
<1>4. \A k \in DOMAIN T : T[k] = s[k + 1] BY <1>1, <1>2, <1>3
<1>5. Head(s) = s[1] BY <1>1
<1>6. T \in Seq(R) BY <1>1
<1> HIDE DEF T
<1>7. T \in Seq({T[k] : k \in DOMAIN T}) BY <1>6
<1>8. \A k \in DOMAIN T : k + 1 \in DOMAIN s /\ k + 1 # 1 BY <1>2, <1>3
<1>9. 1 \in DOMAIN s BY <1>2
<1>10. IsSeq(T) BY <1>7, Zenon DEF IsSeq
<1> QED BY <1>2, <1>3, <1>4, <1>5, <1>8, <1>9, <1>10, Zenon DEF T

\* The empty list of a service manager.
LEMMA EmptyFacts == IsSeq(<<>>) /\ DOMAIN <<>> = {}
BY DEF IsSeq

\* A message for another slot keeps the messages of a list distinct.
LEMMA AppendDistinct ==
    ASSUME NEW s, NEW e, IsSeq(s), Distinct(s), \A k \in DOMAIN s : s[k].i # e.i
    PROVE  Distinct(Append(s, e))
BY AppendFacts DEF Distinct

\* A message for a slot that another list does not have keeps the lists apart.
LEMMA AppendApart ==
    ASSUME NEW s, NEW t, NEW e, IsSeq(s), Apart(s, t), \A k \in DOMAIN t : t[k].i # e.i
    PROVE  Apart(Append(s, e), t) /\ Apart(t, Append(s, e))
BY AppendFacts DEF Apart

\* The first message of a list is the only one for its slot there.
LEMMA TailDistinct ==
    ASSUME NEW s, IsSeq(s), s # <<>>, Distinct(s)
    PROVE  Distinct(Tail(s)) /\ \A k \in DOMAIN Tail(s) : Tail(s)[k].i # Head(s).i
BY TailFacts DEF Distinct

\* Taking the first message of a list keeps it apart from the others.
LEMMA TailApart ==
    ASSUME NEW s, NEW t, IsSeq(s), s # <<>>, Apart(s, t)
    PROVE  /\ Apart(Tail(s), t) /\ Apart(t, Tail(s))
           /\ \A k \in DOMAIN t : t[k].i # Head(s).i
BY TailFacts DEF Apart

------------------------------------------------------------------------------
(* Steps that leave the slots and the messages alone *)

\* The slots keep their shape in a step that leaves them alone.
LEMMA SameSlotShape ==
    ASSUME SlotShape, UNCHANGED <<slot, asked, resp>> PROVE SlotShape'
<1>1. slot' = slot /\ asked' = asked /\ resp' = resp
  BY Zenon
<1>2. (slot = [i \in Slots |-> [status |-> slot[i].status, id |-> slot[i].id,
                                ndx |-> slot[i].ndx, req |-> slot[i].req]])'
  BY <1>1, Zenon DEF SlotShape
<1>3. (resp = [i \in Slots |-> [r \in Servers |-> resp[i][r]]])'
  BY <1>1, Zenon DEF SlotShape
<1> QED BY <1>1, <1>2, <1>3, Zenon DEF SlotShape

\* So do the lists of the service managers.
LEMMA SameSvcShape ==
    ASSUME SvcShape, UNCHANGED svcVars PROVE SvcShape'
<1>1. sreqs' = sreqs /\ sbatch' = sbatch /\ sout' = sout /\ sbusy' = sbusy
  BY Zenon DEF svcVars
<1>2. (sreqs = [r \in Peers |-> sreqs[r]])' /\ (sbatch = [r \in Peers |-> sbatch[r]])'
      /\ (sout = [r \in Peers |-> sout[r]])'
  BY <1>1, Zenon DEF SvcShape
<1>3. (\A r \in Peers : IsSeq(sreqs[r]) /\ IsSeq(sbatch[r]) /\ IsSeq(sout[r]))'
  BY <1>1, Zenon DEF SvcShape
<1> QED BY <1>1, <1>2, <1>3, Zenon DEF SvcShape

\* A step that neither touches the slots nor the messages keeps the invariant,
\* if the request manager does not move to another response.
LEMMA Aside ==
    ASSUME PathInv, UNCHANGED <<reqVars, svcVars, posts>>,
           {"pc", "at"} \subseteq DOMAIN rm',
           rm'.pc = "deliver" => rm.pc = "deliver" /\ rm'.at = rm.at
    PROVE  PathInv'
<1>0. /\ UNCHANGED <<inUse, next, num, slot, asked, resp>>
      /\ UNCHANGED <<sreqs, sbatch, sout, sbusy, posts>>
  BY Zenon DEF reqVars, svcVars, slotVars
<1>1. SlotInv'
  BY <1>0, Zenon DEF PathInv, SlotInv, SlotsTypeOK
<1>2. Shape'
  BY SameSlotShape, SameSvcShape, Zenon DEF PathInv, Shape, reqVars
<1>3. (inUse = {i \in Slots : slot[i].status # "free"})'
  BY <1>0, Zenon DEF PathInv
<1>4. (\A i \in Slots, r \in Servers : Settled(i, r))'
  BY <1>0, Zenon DEF PathInv, Settled
<1>5. (rm.pc = "deliver" => rm.at[1] \in Slots /\ rm.at[2] \in Servers /\ resp[rm.at[1]][rm.at[2]] # <<>>)'
  BY <1>0, Zenon DEF PathInv
<1>6. (\A r \in Peers : AtServer(r))'
  BY <1>0 DEF PathInv, AtServer, AllAwaited, Awaited, Distinct, Apart
<1>7. (\A p \in posts : OnTheWay(p))'
  BY <1>0, SMTT(30) DEF PathInv, OnTheWay, Awaited
<1> QED BY <1>1, <1>2, <1>3, <1>4, <1>5, <1>6, <1>7, Zenon DEF PathInv

------------------------------------------------------------------------------
(* What the updates of slots do *)

SlotOK(f) == f = [i \in Slots |-> [status |-> f[i].status, id |-> f[i].id,
                                   ndx |-> f[i].ndx, req |-> f[i].req]]
RespOK(f) == f = [i \in Slots |-> [r \in Servers |-> f[i][r]]]

IsSlot(rec) == rec = [status |-> rec.status, id |-> rec.id, ndx |-> rec.ndx, req |-> rec.req]

\* A slot is filled or emptied.
LEMMA PutSlot ==
    ASSUME NEW f, SlotOK(f), NEW i \in Slots, NEW rec, IsSlot(rec)
    PROVE  /\ SlotOK([f EXCEPT ![i] = rec])
           /\ [f EXCEPT ![i] = rec][i] = rec
           /\ \A j \in Slots : j # i => [f EXCEPT ![i] = rec][j] = f[j]
<1> DEFINE g == [f EXCEPT ![i] = rec]
<1>1. DOMAIN f = Slots
  BY Zenon DEF SlotOK
<1>2. g = [j \in Slots |-> g[j]] /\ g[i] = rec /\ \A j \in Slots : j # i => g[j] = f[j]
  BY <1>1, Zenon
<1>3. \A j \in Slots : IsSlot(f[j])
  BY Zenon DEF SlotOK, IsSlot
<1>4. \A j \in Slots : IsSlot(g[j])
  BY <1>2, <1>3, Zenon
<1> HIDE DEF g
<1>5. SlotOK(g)
  BY <1>2, <1>4, Zenon DEF SlotOK, IsSlot
<1> QED BY <1>2, <1>5, Zenon DEF g

WithStatus(f, i, st) == [f EXCEPT ![i].status = st]
WithResp(f, i, r, v) == [f EXCEPT ![i][r] = v]
NoResp(f, i) == [f EXCEPT ![i] = [r \in Servers |-> <<>>]]

StatusIs(f, g, i, st) ==
    /\ SlotOK(g)
    /\ g[i].status = st /\ g[i].id = f[i].id /\ g[i].ndx = f[i].ndx /\ g[i].req = f[i].req
    /\ \A j \in Slots : j # i => g[j] = f[j]
RespIs(f, g, i, r, v) ==
    /\ RespOK(g)
    /\ g[i][r] = v
    /\ \A j \in Slots, q \in Servers : <<j, q>> # <<i, r>> => g[j][q] = f[j][q]
RespGone(f, g, i) ==
    /\ RespOK(g)
    /\ \A q \in Servers : g[i][q] = <<>>
    /\ \A j \in Slots : j # i => g[j] = f[j]

\* The status of a slot changes.
LEMMA SetStatus ==
    ASSUME NEW f, SlotOK(f), NEW i \in Slots, NEW st, NEW g, g = WithStatus(f, i, st)
    PROVE  StatusIs(f, g, i, st)
<1> DEFINE rec == [f[i] EXCEPT !.status = st]
<1>1. f[i] = [status |-> f[i].status, id |-> f[i].id, ndx |-> f[i].ndx, req |-> f[i].req]
  BY Zenon DEF SlotOK
<1>2. rec = [status |-> st, id |-> f[i].id, ndx |-> f[i].ndx, req |-> f[i].req]
  BY <1>1
<1>3. g = [f EXCEPT ![i] = rec]
  BY Zenon DEF WithStatus
<1> HIDE DEF rec
<1>4. IsSlot(rec) /\ rec.status = st /\ rec.id = f[i].id /\ rec.ndx = f[i].ndx /\ rec.req = f[i].req
  BY <1>2, Zenon DEF IsSlot
<1>5. SlotOK([f EXCEPT ![i] = rec])
  <2>1. IsSlot(rec) BY <1>4, Zenon
  <2> QED BY <2>1, PutSlot, Zenon
<1>6. SlotOK(g)
  BY <1>3, <1>5, Zenon
<1>7. g[i] = rec /\ \A j \in Slots : j # i => g[j] = f[j]
  BY <1>3, Zenon DEF SlotOK
<1> QED BY <1>4, <1>6, <1>7, Zenon DEF StatusIs

\* The response of a server changes.
LEMMA PutResp ==
    ASSUME NEW f, RespOK(f), NEW i \in Slots, NEW r \in Servers, NEW v, NEW g, g = WithResp(f, i, r, v)
    PROVE  RespIs(f, g, i, r, v)
<1>1. DOMAIN f = Slots /\ \A j \in Slots : f[j] = [q \in Servers |-> f[j][q]]
  BY Zenon DEF RespOK
<1>2. \A j \in Slots : DOMAIN f[j] = Servers
  BY <1>1, Zenon
<1>3. DOMAIN g = Slots /\ g = [j \in Slots |-> g[j]]
  BY <1>1, Zenon DEF WithResp
<1>4. g[i] = [f[i] EXCEPT ![r] = v] /\ \A j \in Slots : j # i => g[j] = f[j]
  BY <1>1, Zenon DEF WithResp
<1>5. g[i] = [q \in Servers |-> g[i][q]] /\ g[i][r] = v /\ \A q \in Servers : q # r => g[i][q] = f[i][q]
  BY <1>2, <1>4, Zenon
<1>6. \A j \in Slots : g[j] = [q \in Servers |-> g[j][q]]
  BY <1>1, <1>4, <1>5
<1>7. RespOK(g)
  BY <1>3, <1>6, Zenon DEF RespOK
<1> QED BY <1>4, <1>5, <1>7, Zenon DEF RespIs

\* The responses of a slot are cleared.
LEMMA ClearResp ==
    ASSUME NEW f, RespOK(f), NEW i \in Slots, NEW g, g = NoResp(f, i)
    PROVE  RespGone(f, g, i)
<1>1. DOMAIN f = Slots /\ \A j \in Slots : f[j] = [q \in Servers |-> f[j][q]]
  BY Zenon DEF RespOK
<1>2. g = [j \in Slots |-> g[j]] /\ g[i] = [r \in Servers |-> <<>>] /\ \A j \in Slots : j # i => g[j] = f[j]
  BY <1>1, Zenon DEF NoResp
<1>3. \A j \in Slots : g[j] = [q \in Servers |-> g[j][q]]
  BY <1>1, <1>2, Zenon
<1>4. RespOK(g)
  BY <1>2, <1>3, Zenon DEF RespOK
<1> QED BY <1>2, <1>4, Zenon DEF RespGone

------------------------------------------------------------------------------
(* What the updates of the lists of a server do *)

ListOK(f) == f = [r \in Peers |-> f[r]]
With(f, r, v) == [f EXCEPT ![r] = v]
Changed(f, g, r, v) == ListOK(g) /\ g[r] = v /\ \A q \in Peers : q # r => g[q] = f[q]

\* A list of one server changes.
LEMMA PutList ==
    ASSUME NEW f, ListOK(f), NEW r \in Peers, NEW v, NEW g, g = With(f, r, v)
    PROVE  Changed(f, g, r, v)
<1>1. DOMAIN f = Peers
  BY Zenon DEF ListOK
<1> QED BY <1>1, Zenon DEF ListOK, With, Changed

------------------------------------------------------------------------------
(* Steps of the request manager *)

\* The messages are what they were, and are still awaited.
LEMMA KeepMessages ==
    ASSUME PathInv, UNCHANGED <<svcVars, posts>>,
           \A m : \A r \in Peers : Awaited(m, r) => Awaited(m, r)'
    PROVE  /\ (\A r \in Peers : AtServer(r))'
           /\ (\A p \in posts : OnTheWay(p))'
<1>0. sreqs' = sreqs /\ sbatch' = sbatch /\ sout' = sout /\ sbusy' = sbusy /\ posts' = posts
  BY Zenon DEF svcVars
<1>1. ASSUME NEW r \in Peers PROVE AtServer(r)'
  <2>1. AtServer(r)
    BY Zenon DEF PathInv
  <2>2. AllAwaited(sreqs[r], r)' /\ AllAwaited(sbatch[r], r)' /\ AllAwaited(sout[r], r)'
    BY <1>0, <2>1, Zenon DEF AtServer, AllAwaited
  <2> QED BY <1>0, <2>1, <2>2, Zenon DEF AtServer, Distinct, Apart
<1>2. ASSUME NEW p \in posts' PROVE OnTheWay(p)'
  <2>1. OnTheWay(p) /\ p.from \in Peers
    BY <1>0, Zenon DEF PathInv, OnTheWay
  <2>2. Awaited(p, p.from)'
    BY <2>1, Zenon DEF OnTheWay
  <2> QED BY <1>0, <2>1, <2>2, Zenon DEF OnTheWay
<1> QED BY <1>1, <1>2, Zenon

\* rm_submit_read_request fills a free slot, which no message is for.
LEMMA RmSubmitStep ==
    ASSUME PathInv, NEW i \in Slots, RmSubmit(i)
    PROVE  PathInv'
<1>0. SlotInv /\ SlotShape /\ SvcShape /\ {"pc", "at"} \subseteq DOMAIN rm
  BY Zenon DEF PathInv, Shape
<1>1. SlotInv'
  BY <1>0, SlotStep, Zenon DEF RmSubmit, SlotNext
<1>2. i \notin inUse /\ inUse' = inUse \cup {i}
  BY <1>0 DEF RmSubmit, Reserve, FirstUnused, SlotInv, Slots, SlotsTypeOK
<1>3. slot[i].status = "free"
  BY <1>2, Zenon DEF PathInv
<1> DEFINE rec == [status |-> "ready", id |-> Request.id, ndx |-> rm.k, req |-> Extent]
<1>4. IsSlot(rec) /\ rec.status = "ready"
  BY Zenon DEF IsSlot
<1>5. slot' = [slot EXCEPT ![i] = rec] /\ SlotOK(slot)
  BY <1>0, Zenon DEF RmSubmit, SlotShape, SlotOK
<1> HIDE DEF rec
<1>6. SlotOK(slot') /\ slot'[i] = rec /\ \A j \in Slots : j # i => slot'[j] = slot[j]
  <2>1. IsSlot(rec) BY <1>4, Zenon
  <2>2. SlotOK([slot EXCEPT ![i] = rec]) BY <1>5, <2>1, PutSlot, Zenon
  <2> QED BY <1>5, <2>2, Zenon DEF SlotOK
<1> DEFINE row == [r \in Servers |-> IF r \in RemoteReads(Extent) THEN "ready" ELSE "none"]
<1>7. row \in [Servers -> {"none", "ready", "started", "complete", "lost"}] /\ \A r \in Servers : row[r] # "started"
  BY Zenon
<1>8. asked' = [asked EXCEPT ![i] = row]
  BY Zenon DEF RmSubmit
<1> HIDE DEF row
<1>9. /\ asked' \in [Slots -> [Servers -> {"none", "ready", "started", "complete", "lost"}]]
      /\ asked'[i] = row /\ \A j \in Slots : j # i => asked'[j] = asked[j]
  BY <1>0, <1>7, <1>8, Zenon DEF SlotShape
<1>10. resp' = resp /\ UNCHANGED <<svcVars, posts>>
  BY Zenon DEF RmSubmit
<1>11. rm' = [rm EXCEPT !.k = @ + 1, !.ret = "ok"] /\ rm.pc = "submit"
  BY Zenon DEF RmSubmit, Submitting, Running
<1>12. {"pc", "at"} \subseteq DOMAIN rm' /\ rm'.pc = "submit"
  BY <1>0, <1>11, Zenon
<1>13. SlotShape'
  BY <1>0, <1>6, <1>9, <1>10, Zenon DEF SlotShape, SlotOK
<1>14. SvcShape'
  BY <1>0, <1>10, SameSvcShape, Zenon
<1>15. (inUse = {j \in Slots : slot[j].status # "free"})'
  <2>1. inUse = {j \in Slots : slot[j].status # "free"}
    BY Zenon DEF PathInv
  <2>2. \A j \in Slots : slot'[j].status # "free" <=> (j = i \/ slot[j].status # "free")
    BY <1>4, <1>6, Zenon
  <2> QED BY <1>2, <2>1, <2>2, Zenon
<1>16. ASSUME NEW j \in Slots, NEW r \in Servers PROVE Settled(j, r)'
  <2>1. Settled(j, r) /\ Settled(i, r)
    BY Zenon DEF PathInv
  <2> QED BY <1>3, <1>4, <1>6, <1>7, <1>9, <1>10, <2>1, Zenon DEF Settled
<1>17. ASSUME NEW m, NEW r \in Peers, Awaited(m, r) PROVE Awaited(m, r)'
  <2>1. m.i \in Slots /\ m.i # i
    BY <1>3, <1>17, Zenon DEF Awaited
  <2> QED BY <1>6, <1>9, <1>10, <1>17, <2>1, Zenon DEF Awaited
<1>18. (\A r \in Peers : AtServer(r))' /\ (\A p \in posts : OnTheWay(p))'
  BY <1>10, <1>17, KeepMessages, Zenon
<1> QED BY <1>1, <1>12, <1>13, <1>14, <1>15, <1>16, <1>18, Zenon DEF PathInv, Shape

\* A request is sent to server r, read at once or lost: what all three do to the
\* slots.
LEMMA RequestSlot ==
    ASSUME PathInv, NEW i \in Slots, NEW r \in Servers, First(<<i, r>>, Unsent),
           NEW st \in {"started", "lost"},
           slot' = WithStatus(slot, i, "started"),
           asked' = [asked EXCEPT ![i][r] = st],
           UNCHANGED slotVars
    PROVE  /\ asked[i][r] = "ready" /\ i \in inUse /\ resp[i][r] = <<>>
           /\ SlotInv'
           /\ SlotOK(slot')
           /\ slot'[i].status = "started" /\ slot'[i].id = slot[i].id /\ slot'[i].ndx = slot[i].ndx
           /\ \A j \in Slots : j # i => slot'[j] = slot[j]
           /\ asked' \in [Slots -> [Servers -> {"none", "ready", "started", "complete", "lost"}]]
           /\ asked'[i][r] = st
           /\ \A j \in Slots, q \in Servers : <<j, q>> # <<i, r>> => asked'[j][q] = asked[j][q]
           /\ inUse' = {j \in Slots : slot'[j].status # "free"}
<1>0. SlotInv /\ SlotShape
  BY Zenon DEF PathInv, Shape
<1>1. <<i, r>> \in Unsent
  BY Zenon DEF First
<1>2. asked[i][r] = "ready" /\ i \in inUse
  BY <1>1, Zenon DEF Unsent
<1>3. resp[i][r] = <<>>
  <2>1. Settled(i, r)
    BY Zenon DEF PathInv
  <2> QED BY <1>2, <2>1, Zenon DEF Settled
<1>4. SlotInv'
  BY <1>0, SlotStep, Zenon
<1>5. SlotOK(slot)
  BY <1>0, Zenon DEF SlotShape, SlotOK
<1>6. /\ SlotOK(slot')
      /\ slot'[i].status = "started" /\ slot'[i].id = slot[i].id /\ slot'[i].ndx = slot[i].ndx
      /\ \A j \in Slots : j # i => slot'[j] = slot[j]
  <2>1. StatusIs(slot, slot', i, "started")
    BY <1>5, SetStatus, Zenon
  <2> QED BY <2>1, Zenon DEF StatusIs
<1>7. asked \in [Slots -> [Servers -> {"none", "ready", "started", "complete", "lost"}]]
  BY <1>0, Zenon DEF SlotShape
<1>8. /\ asked' \in [Slots -> [Servers -> {"none", "ready", "started", "complete", "lost"}]]
      /\ asked'[i][r] = st
      /\ \A j \in Slots, q \in Servers : <<j, q>> # <<i, r>> => asked'[j][q] = asked[j][q]
  BY <1>7, Zenon
<1>9. inUse' = {j \in Slots : slot'[j].status # "free"}
  <2>1. inUse = {j \in Slots : slot[j].status # "free"} /\ inUse' = inUse
    BY Zenon DEF PathInv, slotVars
  <2>2. \A j \in Slots : slot'[j].status # "free" <=> slot[j].status # "free"
    BY <1>2, <1>6, <2>1, Zenon
  <2> QED BY <2>1, <2>2, Zenon
<1> QED BY <1>2, <1>3, <1>4, <1>6, <1>8, <1>9, Zenon

\* rm_request_remote_chunks reads the chunks of the server itself at once; no
\* message is for that server.
LEMMA RmRequestLocalStep ==
    ASSUME PathInv, NEW i \in Slots, RmRequestLocal(i)
    PROVE  PathInv'
<1>0. SlotShape /\ SvcShape /\ {"pc", "at"} \subseteq DOMAIN rm
  BY Zenon DEF PathInv, Shape
<1>1. /\ First(<<i, Me>>, Unsent)
      /\ slot' = WithStatus(slot, i, "started")
      /\ asked' = [asked EXCEPT ![i][Me] = "started"]
      /\ UNCHANGED <<slotVars, rm, svcVars, posts>>
      /\ rm.pc = "request"
  BY Zenon DEF RmRequestLocal, Running, WithStatus
<1>2. Me \in Servers
  BY <1>1, Zenon DEF First, Unsent
<1>3. /\ asked[i][Me] = "ready" /\ i \in inUse /\ resp[i][Me] = <<>>
      /\ SlotInv'
      /\ SlotOK(slot')
      /\ slot'[i].status = "started" /\ slot'[i].id = slot[i].id /\ slot'[i].ndx = slot[i].ndx
      /\ \A j \in Slots : j # i => slot'[j] = slot[j]
      /\ asked' \in [Slots -> [Servers -> {"none", "ready", "started", "complete", "lost"}]]
      /\ asked'[i][Me] = "started"
      /\ \A j \in Slots, q \in Servers : <<j, q>> # <<i, Me>> => asked'[j][q] = asked[j][q]
      /\ inUse' = {j \in Slots : slot'[j].status # "free"}
  BY <1>1, <1>2, RequestSlot, Zenon
<1>4. PICK res : resp' = [resp EXCEPT ![i][Me] = res]
  BY Zenon DEF RmRequestLocal
<1>5. RespOK(resp)
  BY <1>0, Zenon DEF SlotShape, RespOK
<1>6. RespOK(resp') /\ \A j \in Slots, q \in Servers : <<j, q>> # <<i, Me>> => resp'[j][q] = resp[j][q]
  <2>1. resp' = WithResp(resp, i, Me, res)
    BY <1>4, Zenon DEF WithResp
  <2>2. RespIs(resp, resp', i, Me, res)
    BY <1>2, <1>5, <2>1, PutResp, Zenon
  <2> QED BY <2>2, Zenon DEF RespIs
<1>7. SlotShape'
  BY <1>3, <1>6, Zenon DEF SlotShape, SlotOK, RespOK
<1>8. SvcShape'
  BY <1>0, <1>1, SameSvcShape, Zenon
<1>9. ASSUME NEW j \in Slots, NEW q \in Servers PROVE Settled(j, q)'
  <2>1. Settled(j, q)
    BY Zenon DEF PathInv
  <2> QED BY <1>3, <1>6, <2>1, Zenon DEF Settled
<1>10. ASSUME NEW m, NEW q \in Peers, Awaited(m, q) PROVE Awaited(m, q)'
  <2>1. q \in Servers /\ <<m.i, q>> # <<i, Me>> /\ m.i \in Slots
    BY <1>10, Zenon DEF Peers, Awaited
  <2> QED BY <1>3, <1>6, <1>10, <2>1, Zenon DEF Awaited
<1>11. (\A q \in Peers : AtServer(q))' /\ (\A p \in posts : OnTheWay(p))'
  BY <1>1, <1>10, KeepMessages, Zenon
<1> QED BY <1>0, <1>1, <1>3, <1>7, <1>8, <1>9, <1>11, Zenon DEF PathInv, Shape

\* A request that cannot be made leaves no message behind.
LEMMA RmRequestLostStep ==
    ASSUME PathInv, NEW i \in Slots, NEW r \in Servers, RmRequestLost(i, r)
    PROVE  PathInv'
<1>0. SlotShape /\ SvcShape /\ {"pc", "at"} \subseteq DOMAIN rm
  BY Zenon DEF PathInv, Shape
<1>1. /\ First(<<i, r>>, Unsent)
      /\ slot' = WithStatus(slot, i, "started")
      /\ asked' = [asked EXCEPT ![i][r] = "lost"]
      /\ UNCHANGED <<slotVars, rm, svcVars, posts>> /\ resp' = resp
      /\ rm.pc = "request"
  BY Zenon DEF RmRequestLost, Running, WithStatus
<1>2. /\ asked[i][r] = "ready" /\ i \in inUse /\ resp[i][r] = <<>>
      /\ SlotInv'
      /\ SlotOK(slot')
      /\ slot'[i].status = "started" /\ slot'[i].id = slot[i].id /\ slot'[i].ndx = slot[i].ndx
      /\ \A j \in Slots : j # i => slot'[j] = slot[j]
      /\ asked' \in [Slots -> [Servers -> {"none", "ready", "started", "complete", "lost"}]]
      /\ asked'[i][r] = "lost"
      /\ \A j \in Slots, q \in Servers : <<j, q>> # <<i, r>> => asked'[j][q] = asked[j][q]
      /\ inUse' = {j \in Slots : slot'[j].status # "free"}
  BY <1>1, RequestSlot, Zenon
<1>3. SlotShape'
  <2>1. RespOK(resp')
    <3>1. RespOK(resp)
      BY <1>0, Zenon DEF SlotShape, RespOK
    <3> QED BY <1>1, <3>1, Zenon
  <2> QED BY <1>2, <2>1, Zenon DEF SlotShape, SlotOK, RespOK
<1>4. SvcShape'
  BY <1>0, <1>1, SameSvcShape, Zenon
<1>5. ASSUME NEW j \in Slots, NEW q \in Servers PROVE Settled(j, q)'
  <2>1. Settled(j, q)
    BY Zenon DEF PathInv
  <2> QED BY <1>1, <1>2, <2>1, Zenon DEF Settled
<1>6. ASSUME NEW m, NEW q \in Peers, Awaited(m, q) PROVE Awaited(m, q)'
  <2>1. q \in Servers /\ <<m.i, q>> # <<i, r>> /\ m.i \in Slots
    BY <1>2, <1>6, Zenon DEF Peers, Awaited
  <2>2. resp' = resp
    BY <1>1, Zenon
  <2> QED BY <1>2, <1>6, <2>1, <2>2, Zenon DEF Awaited
<1>7. (\A q \in Peers : AtServer(q))' /\ (\A p \in posts : OnTheWay(p))'
  BY <1>1, <1>6, KeepMessages, Zenon
<1> QED BY <1>0, <1>1, <1>2, <1>3, <1>4, <1>5, <1>7, Zenon DEF PathInv, Shape

------------------------------------------------------------------------------
(* Requests, responses and the release of slots *)

\* rm_request_remote_chunks sends a request to another server: it is a message
\* for a slot that had none there.
LEMMA RmRequestStep ==
    ASSUME PathInv, NEW i \in Slots, NEW r \in Peers, RmRequest(i, r)
    PROVE  PathInv'
<1>0. SlotShape /\ SvcShape /\ {"pc", "at"} \subseteq DOMAIN rm
  BY Zenon DEF PathInv, Shape
<1>1. /\ First(<<i, r>>, Unsent)
      /\ slot' = WithStatus(slot, i, "started")
      /\ asked' = [asked EXCEPT ![i][r] = "started"]
      /\ UNCHANGED <<slotVars, resp, sbatch, sout, sbusy, posts>>
      /\ rm.pc = "request"
      /\ rm' = [rm EXCEPT !.wait = <<"peer", r, i>>]
  BY Zenon DEF RmRequest, Running, WithStatus
<1>2. r \in Servers
  BY Zenon DEF Peers
<1>3. /\ asked[i][r] = "ready" /\ i \in inUse /\ resp[i][r] = <<>>
      /\ SlotInv'
      /\ SlotOK(slot')
      /\ slot'[i].status = "started" /\ slot'[i].id = slot[i].id /\ slot'[i].ndx = slot[i].ndx
      /\ \A j \in Slots : j # i => slot'[j] = slot[j]
      /\ asked' \in [Slots -> [Servers -> {"none", "ready", "started", "complete", "lost"}]]
      /\ asked'[i][r] = "started"
      /\ \A j \in Slots, q \in Servers : <<j, q>> # <<i, r>> => asked'[j][q] = asked[j][q]
      /\ inUse' = {j \in Slots : slot'[j].status # "free"}
  BY <1>1, <1>2, RequestSlot, Zenon
<1>4. PICK m : /\ m.i = i /\ m.id = slot[i].id /\ m.ndx = slot[i].ndx
               /\ sreqs' = With(sreqs, r, Append(sreqs[r], m))
  <2> DEFINE n == [i |-> i, id |-> slot[i].id, ndx |-> slot[i].ndx, req |-> slot[i].req]
  <2>1. n.i = i /\ n.id = slot[i].id /\ n.ndx = slot[i].ndx
    BY Zenon
  <2>2. sreqs' = With(sreqs, r, Append(sreqs[r], n))
    BY Zenon DEF RmRequest, With
  <2> HIDE DEF n
  <2> QED BY <2>1, <2>2, Zenon
<1>5. /\ ListOK(sreqs)
      /\ \A q \in Peers : IsSeq(sreqs[q]) /\ IsSeq(sbatch[q]) /\ IsSeq(sout[q])
  BY <1>0, Zenon DEF SvcShape, ListOK
<1>6. ListOK(sreqs') /\ sreqs'[r] = Append(sreqs[r], m) /\ \A q \in Peers : q # r => sreqs'[q] = sreqs[q]
  <2>1. PICK A : A = Append(sreqs[r], m)
    BY Zenon
  <2>2. ListOK(sreqs) /\ sreqs' = With(sreqs, r, A)
    BY <1>4, <1>5, <2>1, Zenon
  <2>3. Changed(sreqs, sreqs', r, A)
    BY <2>2, PutList, Zenon
  <2> QED BY <2>1, <2>3, Zenon DEF Changed
<1>7. RespOK(resp) /\ resp' = resp
  BY <1>0, <1>1, Zenon DEF SlotShape, RespOK
<1>8. SlotShape'
  <2>1. RespOK(resp')
    BY <1>7, Zenon
  <2> QED BY <1>3, <2>1, Zenon DEF SlotShape, SlotOK, RespOK
<1>9. SvcShape'
  <2>1. IsSeq(sreqs'[r])
    BY <1>5, <1>6, AppendFacts
  <2>2. \A q \in Peers : IsSeq(sreqs'[q]) /\ IsSeq(sbatch'[q]) /\ IsSeq(sout'[q])
    BY <1>1, <1>5, <1>6, <2>1, Zenon
  <2>3. /\ sbatch' = [q \in Peers |-> sbatch'[q]]
        /\ sout' = [q \in Peers |-> sout'[q]]
        /\ sbusy' \in [Peers -> BOOLEAN]
    BY <1>0, <1>1, Zenon DEF SvcShape
  <2> QED BY <1>6, <2>2, <2>3, Zenon DEF SvcShape, ListOK
<1>10. {"pc", "at"} \subseteq DOMAIN rm' /\ rm'.pc # "deliver"
  BY <1>0, <1>1, Zenon
<1>11. ASSUME NEW j \in Slots, NEW q \in Servers PROVE Settled(j, q)'
  <2>1. Settled(j, q)
    BY Zenon DEF PathInv
  <2> QED BY <1>3, <1>7, <2>1, Zenon DEF Settled
<1>12. ASSUME NEW n, NEW q \in Peers, Awaited(n, q)
       PROVE  Awaited(n, q)' /\ (q = r => n.i # i)
  <2>1. q \in Servers /\ <<n.i, q>> # <<i, r>> /\ n.i \in Slots
    BY <1>3, <1>12, Zenon DEF Peers, Awaited
  <2> QED BY <1>3, <1>7, <1>12, <2>1, Zenon DEF Awaited
<1>13. Awaited(m, r)'
  BY <1>2, <1>3, <1>4, <1>7, Zenon DEF Awaited
<1>14. ASSUME NEW q \in Peers PROVE AtServer(q)'
  <2>0. AtServer(q)
    BY Zenon DEF PathInv
  <2>1. sbatch' = sbatch /\ sout' = sout /\ sbusy' = sbusy
    BY <1>1, Zenon
  <2>2. AllAwaited(sbatch[q], q)' /\ AllAwaited(sout[q], q)'
    BY <1>12, <2>0, <2>1, Zenon DEF AtServer, AllAwaited
  <2>3. CASE q # r
    <3>1. sreqs'[q] = sreqs[q]
      BY <1>6, <2>3, Zenon
    <3>2. AllAwaited(sreqs[q], q)'
      BY <1>12, <2>0, <3>1, Zenon DEF AtServer, AllAwaited
    <3> QED BY <2>0, <2>1, <2>2, <3>1, <3>2 DEF AtServer, Distinct, Apart
  <2>4. CASE q = r
    <3>1. /\ \A k \in DOMAIN sreqs[r] : sreqs[r][k].i # m.i
          /\ \A k \in DOMAIN sbatch[r] : sbatch[r][k].i # m.i
          /\ \A k \in DOMAIN sout[r] : sout[r][k].i # m.i
      BY <1>4, <1>12, <2>0, <2>4, Zenon DEF AtServer, AllAwaited
    <3>2. IsSeq(sreqs[r]) /\ Distinct(sreqs[r]) /\ Apart(sreqs[r], sbatch[r]) /\ Apart(sreqs[r], sout[r])
      BY <1>5, <2>0, <2>4, Zenon DEF AtServer
    <3>3. Distinct(Append(sreqs[r], m))
      BY <3>1, <3>2, AppendDistinct, Zenon
    <3>4. Apart(Append(sreqs[r], m), sbatch[r]) /\ Apart(Append(sreqs[r], m), sout[r])
      BY <3>1, <3>2, AppendApart, Zenon
    <3>5. AllAwaited(sreqs[r], r)'
      <4>1. \A e : (\E k \in DOMAIN sreqs[r] : e = sreqs[r][k]) => Awaited(e, r)'
        <5>1. AllAwaited(sreqs[r], r)
          BY <2>0, <2>4, Zenon DEF AtServer
        <5> QED BY <1>12, <5>1, Zenon DEF AllAwaited
      <4>2. \A k \in DOMAIN Append(sreqs[r], m) :
              Append(sreqs[r], m)[k] = m \/ \E j \in DOMAIN sreqs[r] : Append(sreqs[r], m)[k] = sreqs[r][j]
        BY <3>2, AppendFacts
      <4>3. \A k \in DOMAIN sreqs'[r] :
              sreqs'[r][k] = m \/ \E j \in DOMAIN sreqs[r] : sreqs'[r][k] = sreqs[r][j]
        BY <1>6, <4>2, Zenon
      <4> QED BY <1>13, <4>1, <4>3, Zenon DEF AllAwaited, Awaited
    <3>6. Distinct(sreqs'[r]) /\ Apart(sreqs'[r], sbatch[r]) /\ Apart(sreqs'[r], sout[r])
      BY <1>6, <3>3, <3>4, Zenon
    <3> QED BY <2>0, <2>1, <2>2, <2>4, <3>5, <3>6, Zenon DEF AtServer
  <2> QED BY <2>3, <2>4, Zenon
<1>15. ASSUME NEW p \in posts' PROVE OnTheWay(p)'
  <2>0. p \in posts /\ posts' = posts /\ sbatch' = sbatch /\ sout' = sout /\ sbusy' = sbusy
    BY <1>1, Zenon
  <2>1. OnTheWay(p) /\ p.from \in Peers
    BY <2>0, Zenon DEF PathInv, OnTheWay
  <2>2. Awaited(p, p.from)' /\ (p.from = r => p.i # i)
    BY <1>12, <2>1, Zenon DEF OnTheWay
  <2>3. \A k \in DOMAIN sreqs'[p.from] : sreqs'[p.from][k].i # p.i
    BY <1>4, <1>5, <1>6, <2>1, <2>2, AppendFacts DEF OnTheWay
  <2> QED BY <2>0, <2>1, <2>2, <2>3, Zenon DEF OnTheWay
<1> QED BY <1>3, <1>8, <1>9, <1>10, <1>11, <1>14, <1>15, Zenon DEF PathInv, Shape

------------------------------------------------------------------------------
(* Steps of the request manager over the responses *)

\* release_read_req gives back a slot that waits for no response.
LEMMA RmReleaseStep ==
    ASSUME PathInv, NEW i \in Slots, RmRelease(i)
    PROVE  PathInv'
<1>0. SlotInv /\ SlotShape /\ SvcShape /\ {"pc", "at"} \subseteq DOMAIN rm
  BY Zenon DEF PathInv, Shape
<1>1. Release(i) /\ slot[i].status = "complete" /\ UNCHANGED <<svcVars, posts>>
  BY Zenon DEF RmRelease, Clear
<1>2. SlotInv' /\ inUse' = inUse \ {i}
  BY <1>0, <1>1, SlotStep, Zenon DEF SlotNext, Release
<1>3. slot' = [slot EXCEPT ![i] = Free] /\ SlotOK(slot)
  BY <1>0, Zenon DEF RmRelease, Clear, SlotShape, SlotOK
<1>4. IsSlot(Free) /\ Free.status = "free"
  BY Zenon DEF Free, IsSlot
<1>5. SlotOK(slot') /\ slot'[i] = Free /\ \A j \in Slots : j # i => slot'[j] = slot[j]
  <2>1. IsSlot(Free) BY <1>4, Zenon
  <2>2. SlotOK([slot EXCEPT ![i] = Free]) BY <1>3, <2>1, PutSlot, Zenon
  <2> QED BY <1>3, <2>2, Zenon DEF SlotOK
<1>6. /\ asked' \in [Slots -> [Servers -> {"none", "ready", "started", "complete", "lost"}]]
      /\ asked'[i] = [r \in Servers |-> "none"] /\ \A j \in Slots : j # i => asked'[j] = asked[j]
  BY <1>0, Zenon DEF RmRelease, Clear, SlotShape
<1>7. resp' = NoResp(resp, i) /\ RespOK(resp)
  <2>1. resp' = NoResp(resp, i)
    BY Zenon DEF RmRelease, Clear, NoResp
  <2>2. RespOK(resp)
    BY <1>0, Zenon DEF SlotShape, RespOK
  <2> QED BY <2>1, <2>2, Zenon
<1>8. /\ RespOK(resp')
      /\ \A q \in Servers : resp'[i][q] = <<>>
      /\ \A j \in Slots : j # i => resp'[j] = resp[j]
  <2>1. RespGone(resp, resp', i)
    BY <1>7, ClearResp, Zenon
  <2> QED BY <2>1, Zenon DEF RespGone
<1>9. SlotShape'
  BY <1>5, <1>6, <1>8, Zenon DEF SlotShape, SlotOK, RespOK
<1>10. SvcShape'
  BY <1>0, <1>1, SameSvcShape, Zenon
<1>11. rm' = [rm EXCEPT !.at = <<i + 1, 0>>] /\ rm.pc = "answer"
  BY Zenon DEF RmRelease, Running
<1>12. {"pc", "at"} \subseteq DOMAIN rm' /\ rm'.pc = "answer"
  BY <1>0, <1>11, Zenon
<1>13. (inUse = {j \in Slots : slot[j].status # "free"})'
  <2>1. inUse = {j \in Slots : slot[j].status # "free"}
    BY Zenon DEF PathInv
  <2>2. \A j \in Slots : slot'[j].status # "free" <=> (j # i /\ slot[j].status # "free")
    BY <1>4, <1>5, Zenon
  <2> QED BY <1>2, <2>1, <2>2, Zenon
<1>14. ASSUME NEW j \in Slots, NEW r \in Servers PROVE Settled(j, r)'
  <2>1. Settled(j, r)
    BY Zenon DEF PathInv
  <2> QED BY <1>5, <1>6, <1>8, <2>1, Zenon DEF Settled
<1>15. ASSUME NEW m, NEW r \in Peers, Awaited(m, r) PROVE Awaited(m, r)'
  <2>1. m.i \in Slots /\ m.i # i
    BY <1>1, <1>15, Zenon DEF Awaited
  <2> QED BY <1>5, <1>6, <1>8, <1>15, <2>1, Zenon DEF Awaited
<1>16. (\A r \in Peers : AtServer(r))' /\ (\A p \in posts : OnTheWay(p))'
  BY <1>1, <1>15, KeepMessages, Zenon
<1> QED BY <1>2, <1>9, <1>10, <1>12, <1>13, <1>14, <1>16, Zenon DEF PathInv, Shape

\* rm_handle_chunk_read_responses begins with a response that has come.
LEMMA RmHandleStep ==
    ASSUME PathInv, NEW i \in Slots, NEW r \in Servers, RmHandle(i, r)
    PROVE  PathInv'
<1>0. {"pc", "at"} \subseteq DOMAIN rm
  BY Zenon DEF PathInv, Shape
<1>1. UNCHANGED <<reqVars, svcVars, posts>>
  BY Zenon DEF RmHandle
<1>2. resp[i][r] # <<>>
  <2>1. <<i, r>> \in Responses \cup Completes /\ slot[i].status = "started"
    BY Zenon DEF RmHandle, First, Work
  <2>2. <<i, r>> \notin Completes
    BY <2>1, Zenon DEF Completes
  <2> QED BY <2>1, <2>2, Zenon DEF Responses
<1>3. {"pc", "at"} \subseteq DOMAIN rm' /\ rm'.at = <<i, r>>
  BY <1>0, Zenon DEF RmHandle
<1>4. SlotInv'
  BY <1>1, SlotStep, Zenon DEF PathInv, reqVars
<1>5. Shape'
  BY <1>1, <1>3, SameSlotShape, SameSvcShape, Zenon DEF PathInv, Shape, reqVars
<1>6. (inUse = {j \in Slots : slot[j].status # "free"})' /\ (\A j \in Slots, q \in Servers : Settled(j, q))'
  BY <1>1, Zenon DEF PathInv, Settled, reqVars, slotVars
<1>7. (rm.pc = "deliver" => rm.at[1] \in Slots /\ rm.at[2] \in Servers /\ resp[rm.at[1]][rm.at[2]] # <<>>)'
  BY <1>1, <1>2, <1>3 DEF reqVars
<1>8. ASSUME NEW m, NEW q \in Peers, Awaited(m, q) PROVE Awaited(m, q)'
  BY <1>1, <1>8, Zenon DEF Awaited, reqVars
<1>9. (\A q \in Peers : AtServer(q))' /\ (\A p \in posts : OnTheWay(p))'
  BY <1>1, <1>8, KeepMessages, Zenon
<1> QED BY <1>4, <1>5, <1>6, <1>7, <1>9, Zenon DEF PathInv

\* rm_handle_chunk_read_responses ends: the server is done with the slot, and the
\* slot is complete only when all servers are.
LEMMA RmHandledStep ==
    ASSUME PathInv, RmHandled
    PROVE  PathInv'
<1>0. SlotInv /\ SlotShape /\ SvcShape /\ {"pc", "at"} \subseteq DOMAIN rm
  BY Zenon DEF PathInv, Shape
<1>1. PICK i \in Slots, r \in Servers : i = rm.at[1] /\ r = rm.at[2] /\ resp[i][r] # <<>>
  BY Zenon DEF PathInv, RmHandled, Running
<1>2. /\ asked' = [asked EXCEPT ![i][r] = "complete"]
      /\ resp' = WithResp(resp, i, r, <<>>)
      /\ UNCHANGED <<slotVars, svcVars, posts>>
      /\ \/ AllHandled(i) /\ slot' = WithStatus(slot, i, "complete")
         \/ slot' = slot
  BY <1>1, Zenon DEF RmHandled, Handled, WithResp, WithStatus
<1>3. {"pc", "at"} \subseteq DOMAIN rm' /\ rm'.pc = "answer"
  BY <1>0, Zenon DEF RmHandled, TellComplete, Tell
<1>4. SlotInv'
  BY <1>0, <1>2, SlotStep, Zenon
<1>5. SlotOK(slot) /\ RespOK(resp)
  BY <1>0, Zenon DEF SlotShape, SlotOK, RespOK
<1>6. /\ RespOK(resp') /\ resp'[i][r] = <<>>
      /\ \A j \in Slots, q \in Servers : <<j, q>> # <<i, r>> => resp'[j][q] = resp[j][q]
  <2>1. RespIs(resp, resp', i, r, <<>>)
    BY <1>2, <1>5, PutResp, Zenon
  <2> QED BY <2>1, Zenon DEF RespIs
<1>7. /\ asked' \in [Slots -> [Servers -> {"none", "ready", "started", "complete", "lost"}]]
      /\ asked'[i][r] = "complete"
      /\ \A j \in Slots, q \in Servers : <<j, q>> # <<i, r>> => asked'[j][q] = asked[j][q]
  BY <1>0, <1>2, Zenon DEF SlotShape
<1>8. asked[i][r] = "started" /\ slot[i].status \notin {"free", "complete"}
  <2>1. Settled(i, r)
    BY Zenon DEF PathInv
  <2> QED BY <1>1, <2>1, Zenon DEF Settled
<1>9. /\ SlotOK(slot')
      /\ slot'[i].id = slot[i].id /\ slot'[i].ndx = slot[i].ndx
      /\ \A j \in Slots : j # i => slot'[j] = slot[j]
      /\ \/ AllHandled(i) /\ slot'[i].status = "complete"
         \/ slot'[i].status = slot[i].status
  <2>1. CASE AllHandled(i) /\ slot' = WithStatus(slot, i, "complete")
    <3>1. StatusIs(slot, slot', i, "complete")
      BY <1>5, <2>1, SetStatus, Zenon
    <3> QED BY <2>1, <3>1, Zenon DEF StatusIs
  <2>2. CASE slot' = slot
    BY <1>5, <2>2, Zenon
  <2> QED BY <1>2, <2>1, <2>2, Zenon
<1>10. SlotShape'
  BY <1>6, <1>7, <1>9, Zenon DEF SlotShape, SlotOK, RespOK
<1>11. SvcShape'
  BY <1>0, <1>2, SameSvcShape, Zenon
<1>12. (inUse = {j \in Slots : slot[j].status # "free"})'
  <2>1. inUse = {j \in Slots : slot[j].status # "free"} /\ inUse' = inUse
    BY <1>2, Zenon DEF PathInv, slotVars
  <2>2. \A j \in Slots : slot'[j].status # "free" <=> slot[j].status # "free"
    BY <1>8, <1>9, Zenon
  <2> QED BY <2>1, <2>2, Zenon
<1>13. ASSUME NEW j \in Slots, NEW q \in Servers PROVE Settled(j, q)'
  <2>1. Settled(j, q)
    BY Zenon DEF PathInv
  <2>2. AllHandled(i) => asked'[i][q] # "started"
    BY Zenon DEF AllHandled
  <2> QED BY <1>6, <1>7, <1>9, <2>1, <2>2, Zenon DEF Settled
<1>14. ASSUME NEW m, NEW q \in Peers, Awaited(m, q) PROVE Awaited(m, q)'
  <2>1. q \in Servers /\ m.i \in Slots /\ <<m.i, q>> # <<i, r>>
    BY <1>1, <1>14, Zenon DEF Awaited, Peers
  <2>2. asked'[m.i][q] = "started" /\ resp'[m.i][q] = <<>>
    BY <1>6, <1>7, <1>14, <2>1, Zenon DEF Awaited
  <2>3. m.i = i => ~AllHandled(i)
    BY <2>1, <2>2, Zenon DEF AllHandled
  <2> QED BY <1>9, <1>14, <2>1, <2>2, <2>3, Zenon DEF Awaited
<1>15. (\A q \in Peers : AtServer(q))' /\ (\A p \in posts : OnTheWay(p))'
  BY <1>2, <1>14, KeepMessages, Zenon
<1> QED BY <1>3, <1>4, <1>10, <1>11, <1>12, <1>13, <1>15, Zenon DEF PathInv, Shape

\* The messages of a list will be awaited after the step.
Waits(s, r) ==
    \A k \in DOMAIN s :
        /\ s[k].i \in Slots
        /\ slot'[s[k].i].status = "started" /\ slot'[s[k].i].id = s[k].id /\ slot'[s[k].i].ndx = s[k].ndx
        /\ asked'[s[k].i][r] = "started" /\ resp'[s[k].i][r] = <<>>

\* A list whose messages will be awaited is one of awaited messages after the step.
LEMMA WaitsNext ==
    ASSUME NEW r
    PROVE  /\ Waits(sreqs'[r], r) => AllAwaited(sreqs[r], r)'
           /\ Waits(sbatch'[r], r) => AllAwaited(sbatch[r], r)'
           /\ Waits(sout'[r], r) => AllAwaited(sout[r], r)'
BY Zenon DEF Waits, AllAwaited, Awaited

\* A step that leaves the slots alone leaves messages awaited.
LEMMA WaitsStill ==
    ASSUME UNCHANGED reqVars, NEW r, NEW s, AllAwaited(s, r)
    PROVE  Waits(s, r)
BY Zenon DEF Waits, AllAwaited, Awaited, reqVars

\* What a step of server r must keep so that the invariant holds: it touches the
\* lists of no other server and nothing of the slots.
LEMMA AtOneServer ==
    ASSUME PathInv, NEW r \in Peers, UNCHANGED reqVars,
           {"pc", "at"} \subseteq DOMAIN rm', rm'.pc = rm.pc, rm'.at = rm.at,
           SvcShape', AtServer(r)',
           \A q \in Peers : q # r => /\ sreqs'[q] = sreqs[q] /\ sbatch'[q] = sbatch[q]
                                    /\ sout'[q] = sout[q] /\ sbusy'[q] = sbusy[q],
           \A p \in posts' : p \in posts \/ p.from = r,
           \A p \in posts' : p.from = r => OnTheWay(p)'
    PROVE  PathInv'
<1>0. UNCHANGED <<inUse, next, num, slot, asked, resp>>
  BY Zenon DEF reqVars, slotVars
<1>1. SlotInv'
  BY <1>0, ZenonT(30) DEF PathInv, SlotInv, SlotsTypeOK
<1>2. Shape'
  BY <1>0, SameSlotShape, Zenon DEF PathInv, Shape
<1>3. (inUse = {i \in Slots : slot[i].status # "free"})'
  BY <1>0, Zenon DEF PathInv
<1>4. (\A i \in Slots, q \in Servers : Settled(i, q))'
  BY <1>0, Zenon DEF PathInv, Settled
<1>5. (rm.pc = "deliver" => rm.at[1] \in Slots /\ rm.at[2] \in Servers /\ resp[rm.at[1]][rm.at[2]] # <<>>)'
  BY <1>0, Zenon DEF PathInv
<1>6. ASSUME NEW q \in Peers PROVE AtServer(q)'
  <2>1. CASE q = r
    BY <2>1, Zenon
  <2>2. CASE q # r
    <3>1. AtServer(q)
      BY Zenon DEF PathInv
    <3>2. /\ sreqs'[q] = sreqs[q] /\ sbatch'[q] = sbatch[q]
          /\ sout'[q] = sout[q] /\ sbusy'[q] = sbusy[q]
      BY <2>2, Zenon
    <3>3. Waits(sreqs[q], q) /\ Waits(sbatch[q], q) /\ Waits(sout[q], q)
      BY <3>1, WaitsStill, Zenon DEF AtServer
    <3>4. AllAwaited(sreqs[q], q)' /\ AllAwaited(sbatch[q], q)' /\ AllAwaited(sout[q], q)'
      BY <3>2, <3>3, WaitsNext, Zenon
    <3> QED BY <3>1, <3>2, <3>4, Zenon DEF AtServer
  <2> QED BY <2>1, <2>2, Zenon
<1>7. ASSUME NEW p \in posts' PROVE OnTheWay(p)'
  <2>1. CASE p.from = r
    BY <2>1, Zenon
  <2>2. CASE p.from # r
    <3>1. p \in posts
      BY <2>2, Zenon
    <3>2. OnTheWay(p)
      BY <3>1, Zenon DEF PathInv
    <3>3. p.from \in Peers /\ Awaited(p, p.from)'
      BY <1>0, <3>2, Zenon DEF OnTheWay, Awaited
    <3>4. /\ sreqs'[p.from] = sreqs[p.from] /\ sbatch'[p.from] = sbatch[p.from]
          /\ sout'[p.from] = sout[p.from] /\ sbusy'[p.from] = sbusy[p.from]
      BY <2>2, <3>3, Zenon
    <3>5. \A q \in posts' : q.from = p.from /\ q.i = p.i => q = p
      BY <2>2, <3>2, Zenon DEF OnTheWay
    <3> QED BY <3>2, <3>3, <3>4, <3>5 DEF OnTheWay
  <2> QED BY <2>1, <2>2, Zenon
<1> QED BY <1>1, <1>2, <1>3, <1>4, <1>5, <1>6, <1>7, Zenon DEF PathInv

\* process_service_requests takes the list of requests.
LEMMA SvcTakeStep ==
    ASSUME PathInv, NEW r \in Peers, SvcTake(r)
    PROVE  PathInv'
<1>0. SvcShape /\ {"pc", "at"} \subseteq DOMAIN rm
  BY Zenon DEF PathInv, Shape
<1>1. /\ sbatch[r] = <<>> /\ sout[r] = <<>>
      /\ sbatch' = With(sbatch, r, sreqs[r]) /\ sreqs' = With(sreqs, r, <<>>)
      /\ UNCHANGED <<reqVars, rm, sout, sbusy, posts>>
  BY Zenon DEF SvcTake, With
<1>2. ListOK(sreqs) /\ ListOK(sbatch) /\ \A q \in Peers : IsSeq(sreqs[q]) /\ IsSeq(sbatch[q]) /\ IsSeq(sout[q])
  BY <1>0, Zenon DEF SvcShape, ListOK
<1>3. Changed(sbatch, sbatch', r, sreqs[r]) /\ Changed(sreqs, sreqs', r, <<>>)
  <2>1. Changed(sbatch, sbatch', r, sreqs[r])
    BY <1>1, <1>2, PutList, Zenon
  <2>2. Changed(sreqs, sreqs', r, <<>>)
    BY <1>1, <1>2, PutList, Zenon
  <2> QED BY <2>1, <2>2, Zenon
<1>4. /\ sbatch'[r] = sreqs[r] /\ sreqs'[r] = <<>> /\ sout'[r] = sout[r] /\ sbusy'[r] = sbusy[r]
      /\ \A q \in Peers : q # r => sbatch'[q] = sbatch[q] /\ sreqs'[q] = sreqs[q]
      /\ ListOK(sbatch') /\ ListOK(sreqs')
  BY <1>1, <1>3, Zenon DEF Changed
<1>5. SvcShape'
  <2>1. \A q \in Peers : IsSeq(sreqs'[q]) /\ IsSeq(sbatch'[q]) /\ IsSeq(sout'[q])
    BY <1>1, <1>2, <1>4, EmptyFacts, Zenon
  <2>2. sout' = [q \in Peers |-> sout'[q]] /\ sbusy' \in [Peers -> BOOLEAN]
    BY <1>0, <1>1, Zenon DEF SvcShape
  <2> QED BY <1>4, <2>1, <2>2, Zenon DEF SvcShape, ListOK
<1>6. AtServer(r)
  BY Zenon DEF PathInv
<1>7. \A m : Awaited(m, r) => Awaited(m, r)'
  BY <1>1, Zenon DEF Awaited, reqVars
<1>8. AtServer(r)'
  <2>1. AllAwaited(sbatch[r], r)' /\ AllAwaited(sreqs[r], r)' /\ AllAwaited(sout[r], r)'
    <3>1. AllAwaited(<<>>, r) /\ AllAwaited(sreqs[r], r)
      BY <1>6, EmptyFacts, Zenon DEF AtServer, AllAwaited
    <3>2. Waits(<<>>, r) /\ Waits(sreqs[r], r)
      BY <1>1, <3>1, WaitsStill, Zenon
    <3> QED BY <1>1, <1>4, <3>2, WaitsNext, Zenon
  <2>2. Distinct(<<>>) /\ Apart(<<>>, sreqs[r]) /\ Apart(sreqs[r], <<>>) /\ Apart(<<>>, <<>>)
    BY EmptyFacts, Zenon DEF Distinct, Apart
  <2>3. Distinct(sbatch'[r]) /\ Distinct(sreqs'[r]) /\ Distinct(sout'[r])
    BY <1>1, <1>4, <1>6, <2>2, Zenon DEF AtServer
  <2>4. Apart(sreqs'[r], sbatch'[r]) /\ Apart(sreqs'[r], sout'[r]) /\ Apart(sbatch'[r], sout'[r])
    BY <1>1, <1>4, <2>2, Zenon
  <2> QED BY <1>4, <1>6, <2>1, <2>3, <2>4, Zenon DEF AtServer
<1>9. ASSUME NEW p \in posts', p.from = r PROVE OnTheWay(p)'
  <2>1. OnTheWay(p) /\ posts' = posts
    BY <1>1, Zenon DEF PathInv
  <2>2. Awaited(p, p.from)'
    BY <1>7, <1>9, <2>1, Zenon DEF OnTheWay, Awaited
  <2>3. DOMAIN sreqs'[r] = {}
    BY <1>4, EmptyFacts, Zenon
  <2> QED BY <1>4, <1>9, <2>1, <2>2, <2>3, Zenon DEF OnTheWay
<1> QED BY <1>0, <1>1, <1>4, <1>5, <1>8, <1>9, AtOneServer, Zenon

\* process_chunk_read_rpc turns a request into a response of the same slot.
LEMMA SvcReadStep ==
    ASSUME PathInv, NEW r \in Peers, SvcRead(r)
    PROVE  PathInv'
<1>0. SvcShape /\ {"pc", "at"} \subseteq DOMAIN rm
  BY Zenon DEF PathInv, Shape
<1>1. UNCHANGED <<reqVars, sreqs, sbusy, posts>> /\ sbatch[r] # <<>>
  BY Zenon DEF SvcRead
<1>2. PICK m : m = Head(sbatch[r])
  BY Zenon
<1>3. PICK n : /\ n.i = m.i /\ n.id = m.id /\ n.ndx = m.ndx
               /\ sout' = With(sout, r, Append(sout[r], n))
  <2>1. PICK res : sout' = [sout EXCEPT ![r] =
                      Append(sout[r], [i |-> m.i, id |-> m.id, ndx |-> m.ndx, res |-> res])]
    BY <1>2, Zenon DEF SvcRead
  <2> DEFINE e == [i |-> m.i, id |-> m.id, ndx |-> m.ndx, res |-> res]
  <2>2. e.i = m.i /\ e.id = m.id /\ e.ndx = m.ndx
    BY Zenon
  <2>3. sout' = With(sout, r, Append(sout[r], e))
    BY <2>1, Zenon DEF With
  <2> HIDE DEF e
  <2> QED BY <2>2, <2>3, Zenon
<1>4. sbatch' = With(sbatch, r, Tail(sbatch[r]))
  BY Zenon DEF SvcRead, With
<1>5. {"pc", "at"} \subseteq DOMAIN rm' /\ rm'.pc = rm.pc /\ rm'.at = rm.at
  <2>1. rm' = rm \/ rm' = [rm EXCEPT !.wait = <<>>]
    BY Zenon DEF SvcRead
  <2> QED BY <1>0, <2>1, Zenon
<1>6. ListOK(sbatch) /\ ListOK(sout) /\ \A q \in Peers : IsSeq(sreqs[q]) /\ IsSeq(sbatch[q]) /\ IsSeq(sout[q])
  BY <1>0, Zenon DEF SvcShape, ListOK
<1>7. PICK A, B : A = Append(sout[r], n) /\ B = Tail(sbatch[r])
  BY Zenon
<1>8. /\ sbatch'[r] = B /\ sout'[r] = A /\ sreqs' = sreqs /\ sbusy' = sbusy
      /\ \A q \in Peers : q # r => sbatch'[q] = sbatch[q] /\ sout'[q] = sout[q]
      /\ ListOK(sbatch') /\ ListOK(sout')
  <2>1. sout' = With(sout, r, A) /\ sbatch' = With(sbatch, r, B)
    BY <1>3, <1>4, <1>7, Zenon
  <2>2. Changed(sout, sout', r, A)
    BY <1>6, <2>1, PutList, Zenon
  <2>3. Changed(sbatch, sbatch', r, B)
    BY <1>6, <2>1, PutList, Zenon
  <2> QED BY <1>1, <2>2, <2>3, Zenon DEF Changed
<1>9. /\ IsSeq(A) /\ IsSeq(B)
      /\ \A k \in DOMAIN A : A[k] = n \/ \E j \in DOMAIN sout[r] : A[k] = sout[r][j]
      /\ \A k \in DOMAIN B : \E j \in DOMAIN sbatch[r] : B[k] = sbatch[r][j]
      /\ \E j \in DOMAIN sbatch[r] : m = sbatch[r][j]
  BY <1>1, <1>2, <1>6, <1>7, AppendFacts, TailFacts
<1>10. SvcShape'
  <2>1. \A q \in Peers : IsSeq(sreqs'[q]) /\ IsSeq(sbatch'[q]) /\ IsSeq(sout'[q])
    BY <1>6, <1>8, <1>9, Zenon
  <2>2. sreqs' = [q \in Peers |-> sreqs'[q]] /\ sbusy' \in [Peers -> BOOLEAN]
    BY <1>0, <1>1, Zenon DEF SvcShape
  <2> QED BY <1>8, <2>1, <2>2, Zenon DEF SvcShape, ListOK
<1>11. AtServer(r)
  BY Zenon DEF PathInv
<1>12. \A e : Awaited(e, r) => Awaited(e, r)'
  BY <1>1, Zenon DEF Awaited, reqVars
<1>13. Awaited(m, r) /\ Awaited(n, r)
  <2>1. Awaited(m, r)
    BY <1>9, <1>11, Zenon DEF AtServer, AllAwaited
  <2> QED BY <1>3, <2>1, Zenon DEF Awaited
<1>14. AtServer(r)'
  <2>1. AllAwaited(A, r) /\ AllAwaited(B, r)
    <3>1. AllAwaited(sout[r], r) /\ AllAwaited(sbatch[r], r)
      BY <1>11, Zenon DEF AtServer
    <3> QED BY <1>9, <1>13, <3>1, Zenon DEF AllAwaited
  <2>2. AllAwaited(sbatch[r], r)' /\ AllAwaited(sout[r], r)' /\ AllAwaited(sreqs[r], r)'
    <3>1. Waits(A, r) /\ Waits(B, r) /\ Waits(sreqs[r], r)
      BY <1>1, <1>11, <2>1, WaitsStill, Zenon DEF AtServer
    <3> QED BY <1>8, <3>1, WaitsNext, Zenon
  <2>3. /\ Distinct(B) /\ Apart(B, sout[r]) /\ Apart(sreqs[r], B)
        /\ \A k \in DOMAIN B : B[k].i # n.i
        /\ \A k \in DOMAIN sout[r] : sout[r][k].i # n.i
        /\ \A k \in DOMAIN sreqs[r] : sreqs[r][k].i # n.i
    <3>1. /\ IsSeq(sbatch[r]) /\ Distinct(sbatch[r]) /\ Apart(sbatch[r], sout[r])
          /\ Apart(sbatch[r], sreqs[r])
      BY <1>6, <1>11, Zenon DEF AtServer, Apart
    <3>2. Distinct(B) /\ \A k \in DOMAIN B : B[k].i # n.i
      BY <1>1, <1>2, <1>3, <1>7, <3>1, TailDistinct, Zenon
    <3>3. Apart(B, sout[r]) /\ \A k \in DOMAIN sout[r] : sout[r][k].i # n.i
      BY <1>1, <1>2, <1>3, <1>7, <3>1, TailApart, Zenon
    <3>4. Apart(sreqs[r], B) /\ \A k \in DOMAIN sreqs[r] : sreqs[r][k].i # n.i
      BY <1>1, <1>2, <1>3, <1>7, <3>1, TailApart, Zenon
    <3> QED BY <3>2, <3>3, <3>4, Zenon
  <2>4. Distinct(A) /\ Apart(B, A) /\ Apart(sreqs[r], A)
    <3>1. IsSeq(sout[r]) /\ Distinct(sout[r]) /\ Apart(sout[r], B) /\ Apart(sout[r], sreqs[r])
      BY <1>6, <1>11, <2>3, Zenon DEF AtServer, Apart
    <3>2. Distinct(A)
      BY <1>7, <2>3, <3>1, AppendDistinct, Zenon
    <3>3. Apart(B, A) /\ Apart(sreqs[r], A)
      BY <1>7, <2>3, <3>1, AppendApart, Zenon
    <3> QED BY <3>2, <3>3, Zenon
  <2>5. A # <<>>
    <3>1. DOMAIN A # {}
      BY <1>6, <1>7, AppendFacts
    <3> QED BY <3>1, EmptyFacts, Zenon
  <2> QED BY <1>8, <1>11, <2>2, <2>3, <2>4, <2>5, Zenon DEF AtServer
<1>15. ASSUME NEW p \in posts', p.from = r PROVE OnTheWay(p)'
  <2>1. OnTheWay(p) /\ posts' = posts
    BY <1>1, Zenon DEF PathInv
  <2>2. Awaited(p, p.from)' /\ p.i # m.i
    BY <1>9, <1>12, <1>15, <2>1, Zenon DEF OnTheWay, Awaited
  <2>3. \A k \in DOMAIN B : B[k].i # p.i
    BY <1>9, <1>15, <2>1 DEF OnTheWay
  <2>4. \A k \in DOMAIN A : A[k].i = p.i => k = 1 /\ sbusy[r]
    <3>1. /\ \A k \in DOMAIN A : A[k] = n \/ (k \in DOMAIN sout[r] /\ A[k] = sout[r][k])
      BY <1>6, <1>7, AppendFacts
    <3> QED BY <1>3, <1>15, <2>1, <2>2, <3>1, Zenon DEF OnTheWay
  <2> QED BY <1>8, <1>15, <2>1, <2>2, <2>3, <2>4, Zenon DEF OnTheWay
<1> QED BY <1>1, <1>5, <1>8, <1>10, <1>14, <1>15, AtOneServer, Zenon

\* send_chunk_read_responses sends the first of the responses; none for its slot
\* is on the way.
LEMMA SvcSendStep ==
    ASSUME PathInv, NEW r \in Peers, SvcSend(r)
    PROVE  PathInv'
<1>0. SvcShape /\ {"pc", "at"} \subseteq DOMAIN rm
  BY Zenon DEF PathInv, Shape
<1>1. /\ UNCHANGED <<reqVars, rm, sreqs, sbatch, sout>>
      /\ sout[r] # <<>> /\ ~sbusy[r]
      /\ sbusy' = [sbusy EXCEPT ![r] = TRUE]
  BY Zenon DEF SvcSend
<1>2. PICK m : m = Head(sout[r])
  BY Zenon
<1>3. PICK n : /\ n.from = r /\ n.i = m.i /\ n.id = m.id /\ n.ndx = m.ndx
               /\ posts' = posts \cup {n}
  <2> DEFINE e == [from |-> r, i |-> m.i, id |-> m.id, ndx |-> m.ndx, res |-> m.res]
  <2>1. e.from = r /\ e.i = m.i /\ e.id = m.id /\ e.ndx = m.ndx
    BY Zenon
  <2>2. posts' = posts \cup {e}
    BY <1>2, Zenon DEF SvcSend
  <2> HIDE DEF e
  <2> QED BY <2>1, <2>2, Zenon
<1>4. sbusy' \in [Peers -> BOOLEAN] /\ sbusy'[r] /\ \A q \in Peers : q # r => sbusy'[q] = sbusy[q]
  BY <1>0, <1>1, Zenon DEF SvcShape
<1>5. SvcShape'
  <2>1. /\ sreqs' = [q \in Peers |-> sreqs'[q]] /\ sbatch' = [q \in Peers |-> sbatch'[q]]
        /\ sout' = [q \in Peers |-> sout'[q]]
    BY <1>0, <1>1, Zenon DEF SvcShape
  <2>2. \A q \in Peers : IsSeq(sreqs'[q]) /\ IsSeq(sbatch'[q]) /\ IsSeq(sout'[q])
    BY <1>0, <1>1, Zenon DEF SvcShape
  <2> QED BY <1>4, <2>1, <2>2, Zenon DEF SvcShape
<1>6. AtServer(r)
  BY Zenon DEF PathInv
<1>7. \A e : Awaited(e, r) => Awaited(e, r)'
  BY <1>1, Zenon DEF Awaited, reqVars
<1>8. AtServer(r)'
  <2>1. AllAwaited(sbatch[r], r)' /\ AllAwaited(sout[r], r)' /\ AllAwaited(sreqs[r], r)'
    BY <1>1, <1>6, <1>7, Zenon DEF AtServer, AllAwaited
  <2>2. sout'[r] = sout[r] /\ sbatch'[r] = sbatch[r] /\ sreqs'[r] = sreqs[r]
    BY <1>1, Zenon
  <2> QED BY <1>1, <1>6, <2>1, <2>2, Zenon DEF AtServer
<1>9. IsSeq(sout[r]) /\ 1 \in DOMAIN sout[r] /\ m = sout[r][1]
  <2>1. IsSeq(sout[r])
    BY <1>0, Zenon DEF SvcShape
  <2> QED BY <1>1, <1>2, <2>1, TailFacts, Zenon
<1>10. ASSUME NEW p \in posts, p.from = r
       PROVE  OnTheWay(p) /\ p.i # n.i
  <2>1. OnTheWay(p)
    BY Zenon DEF PathInv
  <2> QED BY <1>1, <1>3, <1>9, <1>10, <2>1, Zenon DEF OnTheWay
<1>11. ASSUME NEW p \in posts', p.from = r PROVE OnTheWay(p)'
  <2>1. CASE p \in posts
    <3>1. OnTheWay(p) /\ p.i # n.i
      BY <1>10, <1>11, <2>1, Zenon
    <3>2. Awaited(p, p.from)'
      BY <1>7, <1>11, <3>1, Zenon DEF OnTheWay, Awaited
    <3>3. \A q \in posts' : q.from = p.from /\ q.i = p.i => q = p
      BY <1>3, <3>1, Zenon DEF OnTheWay
    <3> QED BY <1>1, <1>4, <1>11, <3>1, <3>2, <3>3, Zenon DEF OnTheWay
  <2>2. CASE p = n
    <3>1. Awaited(m, r)
      BY <1>6, <1>9, Zenon DEF AtServer, AllAwaited
    <3>2. Awaited(p, p.from)'
      BY <1>1, <1>3, <2>2, <3>1, Zenon DEF Awaited, reqVars
    <3>3. /\ \A k \in DOMAIN sreqs[r] : sreqs[r][k].i # m.i
          /\ \A k \in DOMAIN sbatch[r] : sbatch[r][k].i # m.i
          /\ \A k \in DOMAIN sout[r] : sout[r][k].i = m.i => k = 1
      BY <1>6, <1>9, Zenon DEF AtServer, Distinct, Apart
    <3>4. \A q \in posts' : q.from = p.from /\ q.i = p.i => q = p
      BY <1>3, <1>10, <2>2, Zenon
    <3> QED BY <1>1, <1>3, <1>4, <2>2, <3>2, <3>3, <3>4 DEF OnTheWay
  <2> QED BY <1>3, <2>1, <2>2, Zenon
<1>12. \A p \in posts' : p \in posts \/ p.from = r
  BY <1>3, Zenon
<1> QED BY <1>0, <1>1, <1>4, <1>5, <1>8, <1>11, <1>12, AtOneServer, Zenon

------------------------------------------------------------------------------
(* Responses on their way *)

\* A response is taken off the list of its server.
LEMMA TakenOff ==
    ASSUME PathInv, NEW r \in Peers, sout[r] # <<>>, sout' = With(sout, r, Tail(sout[r])),
           sbusy' \in [Peers -> BOOLEAN], UNCHANGED <<sreqs, sbatch>>
    PROVE  /\ SvcShape'
           /\ sout'[r] = Tail(sout[r])
           /\ \A q \in Peers : q # r => sout'[q] = sout[q]
           /\ Distinct(sout'[r]) /\ Apart(sreqs[r], sout'[r]) /\ Apart(sbatch[r], sout'[r])
           /\ \A k \in DOMAIN sout'[r] :
                 k + 1 \in DOMAIN sout[r] /\ k + 1 # 1 /\ sout'[r][k] = sout[r][k + 1]
           /\ \A k \in DOMAIN sout'[r] : sout'[r][k].i # Head(sout[r]).i
<1>0. SvcShape
  BY Zenon DEF PathInv, Shape
<1>1. AtServer(r)
  BY Zenon DEF PathInv
<1>2. ListOK(sout) /\ \A q \in Peers : IsSeq(sreqs[q]) /\ IsSeq(sbatch[q]) /\ IsSeq(sout[q])
  BY <1>0, Zenon DEF SvcShape, ListOK
<1>3. PICK A : A = Tail(sout[r])
  BY Zenon
<1>4. ListOK(sout') /\ sout'[r] = A /\ \A q \in Peers : q # r => sout'[q] = sout[q]
  <2>1. sout' = With(sout, r, A)
    BY <1>3, Zenon
  <2>2. Changed(sout, sout', r, A)
    BY <1>2, <2>1, PutList, Zenon
  <2> QED BY <2>2, Zenon DEF Changed
<1>5. /\ IsSeq(A) /\ Distinct(A)
      /\ \A k \in DOMAIN A : k + 1 \in DOMAIN sout[r] /\ k + 1 # 1 /\ A[k] = sout[r][k + 1]
      /\ \A k \in DOMAIN A : A[k].i # Head(sout[r]).i
  <2>1. IsSeq(sout[r]) /\ Distinct(sout[r])
    BY <1>1, <1>2, Zenon DEF AtServer
  <2> QED BY <1>3, <2>1, TailFacts, TailDistinct, Zenon
<1>6. Apart(sreqs[r], A) /\ Apart(sbatch[r], A)
  BY <1>1, <1>5, Zenon DEF AtServer, Apart
<1>7. SvcShape'
  <2>1. \A q \in Peers : IsSeq(sreqs'[q]) /\ IsSeq(sbatch'[q]) /\ IsSeq(sout'[q])
    BY <1>2, <1>4, <1>5, Zenon
  <2>2. sreqs' = [q \in Peers |-> sreqs'[q]] /\ sbatch' = [q \in Peers |-> sbatch'[q]]
    BY <1>0, ZenonT(30) DEF SvcShape
  <2> QED BY <1>4, <2>1, <2>2, Zenon DEF SvcShape, ListOK
<1> QED BY <1>3, <1>4, <1>5, <1>6, <1>7, Zenon

\* The response that the server waits for is taken off its list.
LEMMA SentList ==
    ASSUME PathInv, NEW r \in Peers, sbusy[r], Sent(r), UNCHANGED <<sreqs, sbatch>>
    PROVE  /\ SvcShape'
           /\ sout[r] # <<>> /\ sout'[r] = Tail(sout[r]) /\ sbusy'[r] = FALSE
           /\ \A q \in Peers : q # r => sout'[q] = sout[q] /\ sbusy'[q] = sbusy[q]
           /\ Distinct(sout'[r]) /\ Apart(sreqs[r], sout'[r]) /\ Apart(sbatch[r], sout'[r])
           /\ \A k \in DOMAIN sout'[r] :
                 k + 1 \in DOMAIN sout[r] /\ k + 1 # 1 /\ sout'[r][k] = sout[r][k + 1]
           /\ \A k \in DOMAIN sout'[r] : sout'[r][k].i # Head(sout[r]).i
<1>1. sout[r] # <<>>
  BY Zenon DEF PathInv, AtServer
<1>2. sbusy' \in [Peers -> BOOLEAN] /\ sbusy'[r] = FALSE /\ \A q \in Peers : q # r => sbusy'[q] = sbusy[q]
  BY Zenon DEF Sent, PathInv, Shape, SvcShape
<1>3. sout' = With(sout, r, Tail(sout[r]))
  BY Zenon DEF Sent, With
<1> QED BY <1>1, <1>2, <1>3, TakenOff, Zenon

\* The chunk_read_response RPC times out: its response may still be on the way,
\* the server has nothing more for the slot.
LEMMA SvcTimeoutStep ==
    ASSUME PathInv, NEW r \in Peers, SvcTimeout(r)
    PROVE  PathInv'
<1>0. {"pc", "at"} \subseteq DOMAIN rm
  BY Zenon DEF PathInv, Shape
<1>1. UNCHANGED <<reqVars, rm, sreqs, sbatch, posts>> /\ sbusy[r] /\ Sent(r)
  BY Zenon DEF SvcTimeout
<1>2. /\ SvcShape'
      /\ sout[r] # <<>> /\ sout'[r] = Tail(sout[r]) /\ sbusy'[r] = FALSE
      /\ \A q \in Peers : q # r => sout'[q] = sout[q] /\ sbusy'[q] = sbusy[q]
      /\ Distinct(sout'[r]) /\ Apart(sreqs[r], sout'[r]) /\ Apart(sbatch[r], sout'[r])
      /\ \A k \in DOMAIN sout'[r] :
            k + 1 \in DOMAIN sout[r] /\ k + 1 # 1 /\ sout'[r][k] = sout[r][k + 1]
  BY <1>1, SentList, Zenon
<1>3. AtServer(r)
  BY Zenon DEF PathInv
<1>4. \A e : Awaited(e, r) => Awaited(e, r)'
  BY <1>1, Zenon DEF Awaited, reqVars
<1>5. AtServer(r)'
  <2>1. \A e : (\E k \in DOMAIN sout'[r] : e = sout'[r][k]) => Awaited(e, r)
    BY <1>2, <1>3, ZenonT(30) DEF AtServer, AllAwaited
  <2>2. AllAwaited(sbatch[r], r)' /\ AllAwaited(sout[r], r)' /\ AllAwaited(sreqs[r], r)'
    BY <1>1, <1>3, <1>4, <2>1 DEF AtServer, AllAwaited, Awaited
  <2>3. Distinct(sreqs[r])' /\ Distinct(sbatch[r])' /\ Apart(sreqs[r], sbatch[r])'
    BY <1>1, <1>3, Zenon DEF AtServer, Distinct, Apart
  <2> QED BY <1>1, <1>2, <2>2, <2>3, Zenon DEF AtServer
<1>6. ASSUME NEW p \in posts', p.from = r PROVE OnTheWay(p)'
  <2>1. OnTheWay(p) /\ posts' = posts
    BY <1>1, Zenon DEF PathInv
  <2>2. Awaited(p, p.from)'
    BY <1>4, <1>6, <2>1, Zenon DEF OnTheWay, Awaited
  <2>3. \A k \in DOMAIN sout'[r] : sout'[r][k].i # p.i
    BY <1>2, <1>6, <2>1, SMTT(30) DEF OnTheWay
  <2> QED BY <1>1, <1>6, <2>1, <2>2, <2>3, Zenon DEF OnTheWay
<1> QED BY <1>0, <1>1, <1>2, <1>5, <1>6, AtOneServer, Zenon

\* A response that is lost was the only message for its slot and server.
LEMMA SvcLostStep ==
    ASSUME PathInv, NEW r \in Peers, SvcLost(r)
    PROVE  PathInv'
<1>0. SlotInv /\ SlotShape /\ SvcShape /\ {"pc", "at"} \subseteq DOMAIN rm
  BY Zenon DEF PathInv, Shape
<1>1. AtServer(r) /\ IsSeq(sout[r])
  BY <1>0, Zenon DEF PathInv, SvcShape
<1>2. PICK m : m = Head(sout[r])
  BY Zenon
<1>3. /\ sout[r] # <<>> /\ ~sbusy[r]
      /\ sout' = With(sout, r, Tail(sout[r]))
      /\ asked' = [asked EXCEPT ![m.i][r] = "lost"]
      /\ UNCHANGED <<slotVars, slot, resp, rm, sreqs, sbatch, sbusy, posts>>
  BY <1>2, Zenon DEF SvcLost, With
<1>4. 1 \in DOMAIN sout[r] /\ m = sout[r][1]
  BY <1>1, <1>2, <1>3, TailFacts, Zenon
<1>5. PICK i \in Slots : i = m.i /\ Awaited(m, r) /\ r \in Servers
  BY <1>1, <1>4, Zenon DEF AtServer, AllAwaited, Awaited, Peers
<1>6. /\ asked' \in [Slots -> [Servers -> {"none", "ready", "started", "complete", "lost"}]]
      /\ asked'[i][r] = "lost"
      /\ \A j \in Slots, q \in Servers : <<j, q>> # <<i, r>> => asked'[j][q] = asked[j][q]
  <2>1. asked \in [Slots -> [Servers -> {"none", "ready", "started", "complete", "lost"}]]
    BY <1>0, Zenon DEF SlotShape
  <2> QED BY <1>3, <1>5, <2>1, Zenon
<1>7. SlotInv'
  BY <1>0, <1>3, SlotStep, Zenon
<1>8. SlotShape'
  <2>1. SlotOK(slot) /\ RespOK(resp)
    BY <1>0, Zenon DEF SlotShape, SlotOK, RespOK
  <2>2. SlotOK(slot') /\ RespOK(resp')
    BY <1>3, <2>1, Zenon
  <2> QED BY <1>6, <2>2, Zenon DEF SlotShape, SlotOK, RespOK
<1>9. (inUse = {j \in Slots : slot[j].status # "free"})'
  BY <1>3, Zenon DEF PathInv, slotVars
<1>10. ASSUME NEW j \in Slots, NEW q \in Servers PROVE Settled(j, q)'
  <2>1. Settled(j, q)
    BY Zenon DEF PathInv
  <2>2. resp[i][r] = <<>>
    BY <1>5, Zenon DEF Awaited
  <2> QED BY <1>3, <1>6, <2>1, <2>2, Zenon DEF Settled
<1>11. (rm.pc = "deliver" => rm.at[1] \in Slots /\ rm.at[2] \in Servers /\ resp[rm.at[1]][rm.at[2]] # <<>>)'
  BY <1>3, Zenon DEF PathInv
<1>12. /\ SvcShape'
       /\ \A q \in Peers : q # r => sout'[q] = sout[q]
       /\ Distinct(sout'[r]) /\ Apart(sreqs[r], sout'[r]) /\ Apart(sbatch[r], sout'[r])
       /\ \A k \in DOMAIN sout'[r] :
             k + 1 \in DOMAIN sout[r] /\ k + 1 # 1 /\ sout'[r][k] = sout[r][k + 1]
       /\ \A k \in DOMAIN sout'[r] : sout'[r][k].i # i
  <2>1. sbusy' \in [Peers -> BOOLEAN]
    BY <1>0, <1>3, Zenon DEF SvcShape
  <2> QED BY <1>2, <1>3, <1>5, <2>1, TakenOff, Zenon
\* Every other message is for another slot or server.
<1>13. ASSUME NEW e, NEW q \in Peers, Awaited(e, q), q = r => e.i # i
       PROVE  Awaited(e, q)'
  <2>1. q \in Servers /\ e.i \in Slots /\ <<e.i, q>> # <<i, r>>
    BY <1>13, Zenon DEF Awaited, Peers
  <2> QED BY <1>3, <1>6, <1>13, <2>1, Zenon DEF Awaited
<1>14. ASSUME NEW q \in Peers PROVE AtServer(q)'
  <2>1. sreqs' = sreqs /\ sbatch' = sbatch /\ sbusy' = sbusy
    BY <1>3, Zenon
  <2>2. AtServer(q)
    BY Zenon DEF PathInv
  <2>3. Distinct(sreqs[q])' /\ Distinct(sbatch[q])' /\ Apart(sreqs[q], sbatch[q])'
    BY <2>1, <2>2, Zenon DEF AtServer, Distinct, Apart
  <2>4. CASE q # r
    <3>1. sout'[q] = sout[q]
      BY <1>12, <2>4, Zenon
    <3>2. \A e : Awaited(e, q) => Awaited(e, q)'
      BY <1>13, <2>4, Zenon
    <3>3. AllAwaited(sreqs[q], q)' /\ AllAwaited(sbatch[q], q)'
      BY <2>1, <2>2, <3>2, Zenon DEF AtServer, AllAwaited
    <3>4. \A k \in DOMAIN sout[q] : Awaited(sout[q][k], q)
      BY <2>2, Zenon DEF AtServer, AllAwaited
    <3>5. AllAwaited(sout[q], q)'
      BY <3>1, <3>2, <3>4, Zenon DEF AllAwaited, Awaited
    <3> QED BY <2>1, <2>2, <2>3, <3>1, <3>3, <3>5 DEF AtServer, Distinct, Apart
  <2>5. CASE q = r
    <3>1. \A e : Awaited(e, r) /\ e.i # i => Awaited(e, r)'
      BY <1>13, Zenon
    <3>2. /\ \A k \in DOMAIN sreqs[r] : Awaited(sreqs[r][k], r) /\ sreqs[r][k].i # i
          /\ \A k \in DOMAIN sbatch[r] : Awaited(sbatch[r][k], r) /\ sbatch[r][k].i # i
      BY <1>1, <1>4, <1>5, Zenon DEF AtServer, AllAwaited, Apart
    <3>3. \A k \in DOMAIN sout[r] : Awaited(sout[r][k], r)
      BY <1>1, Zenon DEF AtServer, AllAwaited
    <3>4. \A k \in DOMAIN sout'[r] : Awaited(sout'[r][k], r) /\ sout'[r][k].i # i
      BY <1>12, <3>3, Zenon
    <3>5. /\ \A k \in DOMAIN sreqs[r] : Awaited(sreqs[r][k], r)'
          /\ \A k \in DOMAIN sbatch[r] : Awaited(sbatch[r][k], r)'
      BY <2>1, <3>1, <3>2, Zenon DEF Awaited
    <3>6. AllAwaited(sreqs[r], r)' /\ AllAwaited(sbatch[r], r)' /\ AllAwaited(sout[r], r)'
      BY <2>1, <3>1, <3>2, <3>4, Zenon DEF AllAwaited, Awaited
    <3>7. sbusy'[r] => sout'[r] # <<>>
      BY <1>3, <2>1, Zenon
    <3> QED BY <1>12, <2>1, <2>3, <2>5, <3>6, <3>7, Zenon DEF AtServer
  <2> QED BY <2>4, <2>5, Zenon
<1>15. ASSUME NEW o \in posts' PROVE OnTheWay(o)'
  <2>1. o \in posts /\ OnTheWay(o) /\ o.from \in Peers
    BY <1>3, Zenon DEF PathInv, OnTheWay
  <2>2. o.from = r => o.i # i
    BY <1>3, <1>4, <1>5, <2>1, Zenon DEF OnTheWay
  <2>3. Awaited(o, o.from)'
    BY <1>13, <2>1, <2>2, Zenon DEF OnTheWay
  <2>4. \A k \in DOMAIN sout'[o.from] : sout'[o.from][k].i = o.i => k = 1 /\ sbusy'[o.from]
    <3>1. CASE o.from # r
      BY <1>3, <1>12, <2>1, <3>1, Zenon DEF OnTheWay
    <3>2. CASE o.from = r
      <4>1. \A k \in DOMAIN sout[r] : sout[r][k].i # o.i
        BY <1>3, <2>1, <3>2, Zenon DEF OnTheWay
      <4>2. \A k \in DOMAIN sout'[r] : sout'[r][k].i # o.i
        BY <1>12, <4>1, Zenon
      <4> QED BY <3>2, <4>2, Zenon
    <3> QED BY <3>1, <3>2, Zenon
  <2> QED BY <1>3, <2>1, <2>3, <2>4, Zenon DEF OnTheWay
<1> QED BY <1>0, <1>3, <1>7, <1>8, <1>9, <1>10, <1>11, <1>12, <1>14, <1>15, Zenon DEF PathInv, Shape

\* rm_post_chunk_read_responses puts the response where it belongs: it was the
\* only message for its slot and server.
LEMMA PostStep ==
    ASSUME PathInv, NEW p \in posts, Post(p)
    PROVE  PathInv'
<1>0. SlotInv /\ SlotShape /\ SvcShape /\ {"pc", "at"} \subseteq DOMAIN rm
  BY Zenon DEF PathInv, Shape
<1>1. OnTheWay(p)
  BY Zenon DEF PathInv
<1>2. PICK i \in Slots, r \in Peers : i = p.i /\ r = p.from
  BY <1>1, Zenon DEF OnTheWay, Awaited
<1>3. /\ r \in Servers /\ slot[i].status = "started"
      /\ asked[i][r] = "started" /\ resp[i][r] = <<>>
  BY <1>1, <1>2, Zenon DEF OnTheWay, Awaited, Peers
<1>4. /\ posts' = posts \ {p}
      /\ UNCHANGED <<slotVars, rm, slot, asked, sreqs, sbatch>>
      /\ resp' = WithResp(resp, i, r, p.res)
      /\ IF sbusy[r] /\ Head(sout[r]).i = i THEN Sent(r) ELSE UNCHANGED <<sbusy, sout>>
  BY <1>2, <1>3, Zenon DEF Post, WithResp
<1>5. SlotOK(slot) /\ RespOK(resp)
  BY <1>0, Zenon DEF SlotShape, SlotOK, RespOK
<1>6. /\ RespOK(resp')
      /\ \A j \in Slots, q \in Servers : <<j, q>> # <<i, r>> => resp'[j][q] = resp[j][q]
  <2>1. RespIs(resp, resp', i, r, p.res)
    BY <1>3, <1>4, <1>5, PutResp, Zenon
  <2> QED BY <2>1, Zenon DEF RespIs
<1>7. SlotInv'
  BY <1>0, <1>4, SlotStep, Zenon
<1>8. SlotShape'
  <2>1. SlotOK(slot') /\ asked' \in [Slots -> [Servers -> {"none", "ready", "started", "complete", "lost"}]]
    BY <1>0, <1>4, <1>5, Zenon DEF SlotShape
  <2> QED BY <1>6, <2>1, Zenon DEF SlotShape, SlotOK, RespOK
<1>9. (inUse = {j \in Slots : slot[j].status # "free"})'
  BY <1>4, Zenon DEF PathInv, slotVars
<1>10. ASSUME NEW j \in Slots, NEW q \in Servers PROVE Settled(j, q)'
  <2>1. Settled(j, q)
    BY Zenon DEF PathInv
  <2> QED BY <1>3, <1>4, <1>6, <2>1, Zenon DEF Settled
<1>11. (rm.pc = "deliver" => rm.at[1] \in Slots /\ rm.at[2] \in Servers /\ resp[rm.at[1]][rm.at[2]] # <<>>)'
  BY <1>3, <1>4, <1>6, Zenon DEF PathInv
<1>12. AtServer(r)
  BY Zenon DEF PathInv
\* The lists of server r after the step.
<1>13. /\ SvcShape'
       /\ Distinct(sout'[r]) /\ Apart(sreqs[r], sout'[r]) /\ Apart(sbatch[r], sout'[r])
       /\ sbusy'[r] => sout'[r] # <<>>
       /\ \A q \in Peers : q # r => sout'[q] = sout[q] /\ sbusy'[q] = sbusy[q]
       /\ \A k \in DOMAIN sout'[r] : sout'[r][k].i # i
       /\ \A k \in DOMAIN sout'[r] : \E j \in DOMAIN sout[r] :
             /\ sout'[r][k] = sout[r][j]
             /\ j = 1 /\ sbusy[r] => k = 1 /\ sbusy'[r]
  <2>1. CASE sbusy[r] /\ Head(sout[r]).i = i
    <3>1. Sent(r) /\ UNCHANGED <<sreqs, sbatch>> /\ sbusy[r]
      BY <1>4, <2>1, Zenon
    <3>2. /\ SvcShape'
          /\ sbusy'[r] = FALSE
          /\ \A q \in Peers : q # r => sout'[q] = sout[q] /\ sbusy'[q] = sbusy[q]
          /\ Distinct(sout'[r]) /\ Apart(sreqs[r], sout'[r]) /\ Apart(sbatch[r], sout'[r])
          /\ \A k \in DOMAIN sout'[r] :
                k + 1 \in DOMAIN sout[r] /\ k + 1 # 1 /\ sout'[r][k] = sout[r][k + 1]
          /\ \A k \in DOMAIN sout'[r] : sout'[r][k].i # Head(sout[r]).i
      BY <3>1, SentList, Zenon
    <3> QED BY <2>1, <3>2, Zenon
  <2>2. CASE ~(sbusy[r] /\ Head(sout[r]).i = i)
    <3>1. sbusy' = sbusy /\ sout' = sout
      BY <1>4, <2>2, Zenon
    <3>2. SvcShape'
      BY <1>0, <1>4, <3>1, SameSvcShape, Zenon DEF svcVars
    <3>3. \A k \in DOMAIN sout[r] : sout[r][k].i # i
      <4>1. SUFFICES ASSUME NEW k \in DOMAIN sout[r], sout[r][k].i = i PROVE FALSE
        BY Zenon
      <4>2. k = 1 /\ sbusy[r]
        BY <1>1, <1>2, <4>1, Zenon DEF OnTheWay
      <4>3. IsSeq(sout[r]) /\ sout[r] # <<>>
        BY <1>0, <1>12, <4>2, Zenon DEF SvcShape, AtServer
      <4>4. Head(sout[r]) = sout[r][1]
        BY <4>3, TailFacts, Zenon
      <4> QED BY <2>2, <4>1, <4>2, <4>4, Zenon
    <3> QED BY <1>12, <3>1, <3>2, <3>3, Zenon DEF AtServer
  <2> QED BY <2>1, <2>2, Zenon
\* Every other message is for another slot or server.
<1>14. ASSUME NEW m, NEW q \in Peers, Awaited(m, q), q = r => m.i # i
       PROVE  Awaited(m, q)'
  <2>1. q \in Servers /\ m.i \in Slots /\ <<m.i, q>> # <<i, r>>
    BY <1>14, Zenon DEF Awaited, Peers
  <2> QED BY <1>4, <1>6, <1>14, <2>1, Zenon DEF Awaited
<1>15. ASSUME NEW q \in Peers PROVE AtServer(q)'
  <2>1. sreqs' = sreqs /\ sbatch' = sbatch
    BY <1>4, Zenon
  <2>2. AtServer(q)
    BY Zenon DEF PathInv
  <2>3. Distinct(sreqs[q])' /\ Distinct(sbatch[q])' /\ Apart(sreqs[q], sbatch[q])'
    BY <2>1, <2>2, Zenon DEF AtServer, Distinct, Apart
  <2>4. CASE q # r
    <3>1. sout'[q] = sout[q] /\ sbusy'[q] = sbusy[q]
      BY <1>13, <2>4, Zenon
    <3>2. \A e : Awaited(e, q) => Awaited(e, q)'
      BY <1>14, <2>4, Zenon
    <3>3. AllAwaited(sreqs[q], q)' /\ AllAwaited(sbatch[q], q)' /\ AllAwaited(sout[q], q)'
      <4>1. AllAwaited(sreqs[q], q)' /\ AllAwaited(sbatch[q], q)'
        BY <2>1, <2>2, <3>2, Zenon DEF AtServer, AllAwaited
      <4>2. \A k \in DOMAIN sout[q] : Awaited(sout[q][k], q)
        BY <2>2, Zenon DEF AtServer, AllAwaited
      <4>3. AllAwaited(sout[q], q)'
        BY <3>1, <3>2, <4>2, Zenon DEF AllAwaited, Awaited
      <4> QED BY <4>1, <4>3, Zenon
    <3> QED BY <2>1, <2>2, <2>3, <3>1, <3>3 DEF AtServer, Distinct, Apart
  <2>5. CASE q = r
    <3>1. \A e : Awaited(e, r) /\ e.i # i => Awaited(e, r)'
      BY <1>14, Zenon
    <3>2. /\ \A e : (\E k \in DOMAIN sreqs[r] : e = sreqs[r][k]) => Awaited(e, r) /\ e.i # i
          /\ \A e : (\E k \in DOMAIN sbatch[r] : e = sbatch[r][k]) => Awaited(e, r) /\ e.i # i
      BY <1>1, <1>2, <1>12, Zenon DEF OnTheWay, AtServer, AllAwaited
    <3>3. \A e : (\E k \in DOMAIN sout'[r] : e = sout'[r][k]) => Awaited(e, r) /\ e.i # i
      <4>1. \A k \in DOMAIN sout[r] : Awaited(sout[r][k], r)
        BY <1>12, Zenon DEF AtServer, AllAwaited
      <4>2. \A k \in DOMAIN sout'[r] : \E j \in DOMAIN sout[r] : sout'[r][k] = sout[r][j]
        BY <1>13, Zenon
      <4>3. \A k \in DOMAIN sout'[r] : sout'[r][k].i # i
        BY <1>13, Zenon
      <4> QED BY <4>1, <4>2, <4>3, Zenon
    <3>4. AllAwaited(sreqs[r], r)' /\ AllAwaited(sbatch[r], r)' /\ AllAwaited(sout[r], r)'
      BY <2>1, <3>1, <3>2, <3>3, Zenon DEF AllAwaited, Awaited
    <3> QED BY <1>13, <2>1, <2>3, <2>5, <3>4, Zenon DEF AtServer
  <2> QED BY <2>4, <2>5, Zenon
<1>16. ASSUME NEW o \in posts' PROVE OnTheWay(o)'
  <2>1. o \in posts /\ o # p
    BY <1>4, Zenon
  <2>2. OnTheWay(o) /\ o.from \in Peers
    BY <2>1, Zenon DEF PathInv, OnTheWay
  <2>3. o.from = r => o.i # i
    BY <1>2, <2>1, <2>2, Zenon DEF OnTheWay
  <2>4. Awaited(o, o.from)'
    BY <1>14, <2>2, <2>3, Zenon DEF OnTheWay
  <2>5. \A k \in DOMAIN sout'[o.from] : sout'[o.from][k].i = o.i => k = 1 /\ sbusy'[o.from]
    <3>1. CASE o.from # r
      BY <1>13, <2>2, <3>1, Zenon DEF OnTheWay
    <3>2. CASE o.from = r
      BY <1>13, <2>2, <3>2 DEF OnTheWay
    <3> QED BY <3>1, <3>2, Zenon
  <2> QED BY <1>4, <2>2, <2>4, <2>5, Zenon DEF OnTheWay
<1> QED BY <1>0, <1>4, <1>7, <1>8, <1>9, <1>10, <1>11, <1>13, <1>15, <1>16, Zenon DEF PathInv, Shape

------------------------------------------------------------------------------
(* The invariant, and what follows from it *)

\* The client and its handlers, and the timeouts of the client, leave slots and
\* messages alone.
LEMMA ClientSteps ==
    ASSUME PathInv,
           \/ \E t \in Threads : \/ Client(t) \/ ClientTimeout(t) \/ Refused(t)
                                 \/ \E c \in Calls[t] : Start(t, c)
           \/ \E h \in hand : Lookup(h) \/ Handle(h) \/ RpcFails(h)
    PROVE  PathInv'
<1>0. {"pc", "at"} \subseteq DOMAIN rm
  BY Zenon DEF PathInv, Shape
<1>1. UNCHANGED <<reqVars, svcVars, posts>>
  BY Zenon DEF Client, ClientTimeout, Refused, Start, WaitDone, Remove, WaitTimeout, CallTimeout,
         Lookup, Handle, RpcFails
<1>2. \/ rm' = rm
      \/ \E e : rm' = [rm EXCEPT !.wait = <<>>, !.sent = e]
  <2>1. ASSUME NEW t \in Threads, NEW c, Client(t) \/ ClientTimeout(t) \/ Refused(t) \/ Start(t, c)
        PROVE  rm' = rm
    BY <2>1, Zenon DEF Client, ClientTimeout, Refused, Start, WaitDone, Remove, WaitTimeout, CallTimeout
  <2>2. ASSUME NEW h \in hand, Lookup(h) \/ Handle(h) \/ RpcFails(h)
        PROVE  \/ rm' = rm \/ \E e : rm' = [rm EXCEPT !.wait = <<>>, !.sent = e]
    BY <2>2, Zenon DEF Lookup, Handle, RpcFails, Answer
  <2> QED BY <2>1, <2>2, Zenon
<1>3. {"pc", "at"} \subseteq DOMAIN rm' /\ rm'.pc = rm.pc /\ rm'.at = rm.at
  BY <1>0, <1>2, Zenon
<1> QED BY <1>1, <1>3, Aside, Zenon

\* The steps of the request manager that touch neither slots nor messages.
LEMMA RmAsideSteps ==
    ASSUME PathInv,
           \/ RmTake \/ RmRespond \/ RmFindFails \/ RmNoData \/ RmFull
           \/ RmRequestEnd \/ RmSendData \/ RmAnswerEnd \/ RmPeerTimeout
    PROVE  PathInv'
<1>0. {"pc", "at"} \subseteq DOMAIN rm
  BY Zenon DEF PathInv, Shape
<1>1. UNCHANGED <<reqVars, svcVars, posts>>
  BY Zenon DEF RmTake, RmRespond, RmFindFails, RmNoData, RmFull, RmRequestEnd, RmSendData,
         RmAnswerEnd, RmPeerTimeout
<1>2. CASE RmTake
  <2>1. {"pc", "at"} \subseteq DOMAIN rm' /\ rm'.pc # "deliver"
    BY <1>0, <1>2, Zenon DEF RmTake
  <2> QED BY <1>1, <2>1, Aside, Zenon
<1>3. CASE RmRespond \/ RmFindFails
  <2>1. {"pc", "at"} \subseteq DOMAIN rm' /\ rm'.pc # "deliver"
    BY <1>0, <1>3, Zenon DEF RmRespond, RmFindFails, Respond
  <2> QED BY <1>1, <2>1, Aside, Zenon
<1>4. CASE RmNoData
  <2>1. rm' = [[rm EXCEPT !.k = @ + 1] EXCEPT !.wait = <<"client">>]
    BY <1>4, Zenon DEF RmNoData, Tell
  <2>2. {"pc", "at"} \subseteq DOMAIN rm' /\ rm'.pc = rm.pc /\ rm'.at = rm.at
    BY <1>0, <2>1, Zenon
  <2> QED BY <1>1, <2>2, Aside, Zenon
<1>5. CASE RmFull
  <2>1. {"pc", "at"} \subseteq DOMAIN rm' /\ rm'.pc = rm.pc /\ rm'.at = rm.at
    BY <1>0, <1>5, Zenon DEF RmFull
  <2> QED BY <1>1, <2>1, Aside, Zenon
<1>6. CASE RmRequestEnd \/ RmAnswerEnd
  <2>1. {"pc", "at"} \subseteq DOMAIN rm' /\ rm'.pc # "deliver"
    BY <1>0, <1>6, Zenon DEF RmRequestEnd, RmAnswerEnd
  <2> QED BY <1>1, <2>1, Aside, Zenon
<1>7. CASE RmSendData
  <2>1. rm' = [[rm EXCEPT !.todo = Tail(@)] EXCEPT !.wait = <<"client">>]
    BY <1>7, Zenon DEF RmSendData, Tell
  <2>2. {"pc", "at"} \subseteq DOMAIN rm' /\ rm'.pc = rm.pc /\ rm'.at = rm.at
    BY <1>0, <2>1, Zenon
  <2> QED BY <1>1, <2>2, Aside, Zenon
<1>8. CASE RmPeerTimeout
  <2>1. {"pc", "at"} \subseteq DOMAIN rm' /\ rm'.pc = rm.pc /\ rm'.at = rm.at
    BY <1>0, <1>8, Zenon DEF RmPeerTimeout
  <2> QED BY <1>1, <2>1, Aside, Zenon
<1> QED BY <1>2, <1>3, <1>4, <1>5, <1>6, <1>7, <1>8, Zenon

\* At the start no slot is in use and no message is on its way.
LEMMA PathStart == Init => PathInv
<1> SUFFICES ASSUME Init PROVE PathInv
  BY Zenon
<1>1. SlotInv
  BY SlotStart, Zenon DEF Init
<1>2. SlotShape
  <2>1. slot = [i \in Slots |-> Free] /\ resp = [i \in Slots |-> [r \in Servers |-> <<>>]]
        /\ asked = [i \in Slots |-> [r \in Servers |-> "none"]]
    BY Zenon DEF Init
  <2>2. SlotOK(slot)
    BY <2>1, Zenon DEF SlotOK, Free
  <2>3. RespOK(resp)
    BY <2>1, Zenon DEF RespOK
  <2> QED BY <2>1, <2>2, <2>3, Zenon DEF SlotShape, SlotOK, RespOK
<1>3. /\ sreqs = [r \in Peers |-> <<>>] /\ sbatch = [r \in Peers |-> <<>>]
      /\ sout = [r \in Peers |-> <<>>] /\ sbusy = [r \in Peers |-> FALSE] /\ posts = {}
  BY Zenon DEF Init
<1>4. SvcShape
  BY <1>3, EmptyFacts, Zenon DEF SvcShape
<1>5. {"pc", "at"} \subseteq DOMAIN rm /\ rm.pc # "deliver"
  BY Zenon DEF Init, Loop
<1>6. inUse = {i \in Slots : slot[i].status # "free"}
  BY Zenon DEF Init, SlotInit, Free
<1>7. \A i \in Slots, r \in Servers : Settled(i, r)
  BY Zenon DEF Init, Settled
<1>8. \A r \in Peers : AtServer(r)
  BY <1>3, EmptyFacts, Zenon DEF AtServer, AllAwaited, Distinct, Apart
<1> QED BY <1>1, <1>2, <1>3, <1>4, <1>5, <1>6, <1>7, <1>8, Zenon DEF PathInv, Shape

\* Every step of the read path keeps the invariant.
LEMMA PathStep ==
    ASSUME PathInv, [Next]_vars
    PROVE  PathInv'
<1>1. CASE UNCHANGED vars
  <2>1. UNCHANGED <<reqVars, svcVars, posts, rm>> /\ {"pc", "at"} \subseteq DOMAIN rm
    BY <1>1, Zenon DEF vars, PathInv, Shape
  <2> QED BY <2>1, Aside, Zenon
<1>2. ASSUME NEW i \in Slots, RmSubmit(i) \/ RmRequestLocal(i) \/ RmRelease(i) PROVE PathInv'
  BY <1>2, RmSubmitStep, RmRequestLocalStep, RmReleaseStep, Zenon
<1>3. ASSUME NEW i \in Slots, NEW r \in Peers, RmRequest(i, r) PROVE PathInv'
  BY <1>3, RmRequestStep, Zenon
<1>4. ASSUME NEW i \in Slots, NEW r \in Servers, RmHandle(i, r) PROVE PathInv'
  BY <1>4, RmHandleStep, Zenon
<1>5. ASSUME NEW r \in Peers, ServiceManager(r) \/ SvcTimeout(r) \/ SvcLost(r) PROVE PathInv'
  BY <1>5, SvcTakeStep, SvcReadStep, SvcSendStep, SvcTimeoutStep, SvcLostStep, Zenon DEF ServiceManager
<1>6. ASSUME NEW p \in posts, Post(p) PROVE PathInv'
  BY <1>6, PostStep, Zenon
<1>7. CASE RmHandled
  BY <1>7, RmHandledStep, Zenon
<1>8. ASSUME NEW i \in Slots, NEW r \in Servers, RmRequestLost(i, r) PROVE PathInv'
  BY <1>8, RmRequestLostStep, Zenon
<1> QED BY <1>1, <1>2, <1>3, <1>4, <1>5, <1>6, <1>7, <1>8, ClientSteps, RmAsideSteps, Zenon
         DEF Next, RequestManager

\* The invariant holds in every state, for any number of threads, servers, slots
\* and faults.
THEOREM PathCorrect == Spec => []PathInv
BY PathStart, PathStep, PTL DEF Spec

\* A response finds the slot that asked for it (rm_post_chunk_read_responses),
\* whatever times out or is lost.
THEOREM ResponseFindsItsSlot == Spec => []RightSlot
<1>1. PathInv => RightSlot
  BY Zenon DEF PathInv, OnTheWay, Awaited, RightSlot
<1> QED BY <1>1, PathCorrect, PTL

\* The assertion of rm_reserve_read_req holds: the slot that the counter hands
\* out is free.
THEOREM ReserveIsSafe == Spec => []NextFree
<1>1. PathInv => NextFree
  BY SlotInvImplies, Zenon DEF PathInv
<1> QED BY <1>1, PathCorrect, PTL

\* The search of rm_reserve_read_req finds a slot whenever num_read_reqs says
\* that there is one.
THEOREM SearchIsSafe == Spec => []SearchFinds
<1>1. PathInv => SearchFinds
  BY SlotInvImplies, Zenon DEF PathInv
<1> QED BY <1>1, PathCorrect, PTL
=============================================================================
