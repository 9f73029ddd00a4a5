---------------------------- MODULE ServerProofs ----------------------------
(***************************************************************************)
(* Proofs about the broadcast tree and the collectives of the servers, for *)
(* any number of servers, any degree of the tree and any root; about the   *)
(* attributes of a file at its owner and at another server, for any number *)
(* of threads, changes, blocks and seconds; and about the truth of what    *)
(* `unifyfs start` reports, for any number of nodes and every key-value    *)
(* store.                                                                  *)
(***************************************************************************)
EXTENDS Collective, Attributes, Startup, FiniteSetTheorems, WellFoundedInduction, TLAPS

------------------------------------------------------------------------------
(* The tree *)

\* Multiplication by the degree is monotone.
LEMMA TimesMonotone ==
    ASSUME NEW a \in Nat, NEW b \in Nat, a < b
    PROVE  /\ a * K \in Nat /\ b * K \in Nat
           /\ a * K + K <= b * K
<1> DEFINE d == b - (a + 1)
<1>1. d \in Nat /\ b = (a + 1) + d
    OBVIOUS
<1>2. b * K = a * K + K + d * K
    BY <1>1, KAssumption
<1>3. d * K \in Nat /\ a * K \in Nat /\ b * K \in Nat
    BY <1>1, KAssumption
<1> QED
    BY <1>2, <1>3, KAssumption

\* The rotation is a bijection of the ranks that takes the root to position 0.
LEMMA Rotation ==
    ASSUME NEW r \in Servers, NEW s \in Servers
    PROVE  /\ Rotate(s, r) \in Servers
           /\ Unrotate(s, r) \in Servers
           /\ Unrotate(Rotate(s, r), r) = s
           /\ Rotate(Unrotate(s, r), r) = s
           /\ Rotate(s, r) = 0 <=> s = r
    BY NAssumption DEF Servers, Rotate, Unrotate

\* The parent computed from a position is the position whose children contain it.
LEMMA ParentOfPosition ==
    ASSUME NEW p \in Servers, p > 0
    PROVE  /\ ParentPos(p) \in Servers
           /\ ParentPos(p) < p
           /\ p \in ChildPos(ParentPos(p))
<1> DEFINE q == (p - 1) \div K
<1>1. p - 1 \in Nat /\ p \in Nat /\ p < N
    BY NAssumption DEF Servers
<1>2. q \in Int /\ p - 1 = K * q + ((p - 1) % K) /\ (p - 1) % K \in 0 .. (K - 1)
    BY <1>1, KAssumption
<1> QED
    BY KAssumption, NAssumption DEF ParentPos, ChildPos, Servers

\* A position is a child of one position only.
LEMMA OneParentPosition ==
    ASSUME NEW a \in Servers, NEW b \in Servers,
           NEW p \in ChildPos(a), p \in ChildPos(b)
    PROVE  a = b /\ p \in Servers /\ p > 0
<1>1. a \in Nat /\ b \in Nat /\ a * K \in Nat /\ b * K \in Nat
    BY NAssumption, KAssumption DEF Servers
<1>2. p \in Nat /\ p < N /\ p > a * K /\ p <= a * K + K /\ p > b * K /\ p <= b * K + K
    BY <1>1, KAssumption DEF ChildPos
<1>3. ~ (a < b)
    BY <1>1, <1>2, KAssumption
<1>4. ~ (b < a)
    BY <1>1, <1>2, KAssumption
<1> QED
    BY <1>1, <1>2, <1>3, <1>4, NAssumption DEF Servers

\* The views of the tree that the servers compute separately agree: the
\* children of a server (to which it forwards) are the servers that have it as
\* their parent (whom they answer), and a parent is closer to the root.
THEOREM ViewsAgree ==
    ASSUME NEW r \in Servers, NEW s \in Servers
    PROVE  /\ Children(s, r) \subseteq Servers
           /\ r \notin Children(s, r)
           /\ \A c \in Servers : c \in Children(s, r) <=> (c # r /\ Parent(c, r) = s)
           /\ s # r => /\ Parent(s, r) \in Servers
                       /\ Rotate(Parent(s, r), r) < Rotate(s, r)
<1>1. ASSUME NEW c \in Children(s, r)
      PROVE  c \in Servers /\ c # r /\ Parent(c, r) = s
    <2>1. PICK p \in ChildPos(Rotate(s, r)) : c = Unrotate(p, r)
        BY Zenon DEF Children
    <2>2. Rotate(s, r) \in Servers
        BY Rotation, Zenon
    <2>3. p \in Servers /\ p > 0
        BY <2>2, OneParentPosition, Zenon
    <2>4. c \in Servers /\ Rotate(c, r) = p
        BY <2>1, <2>3, Rotation, Zenon
    <2>5. ParentPos(p) = Rotate(s, r)
        BY <2>2, ParentOfPosition, OneParentPosition, Zenon
    <2>6. Parent(c, r) = s
        BY <2>3, <2>4, <2>5, Rotation DEF Parent
    <2> QED
        BY <2>3, <2>4, <2>6, Rotation
<1>2. ASSUME NEW c \in Servers, c # r
      PROVE  /\ Parent(c, r) \in Servers
             /\ Rotate(Parent(c, r), r) < Rotate(c, r)
             /\ c \in Children(Parent(c, r), r)
    <2> DEFINE p == Rotate(c, r)
    <2>1. p \in Servers /\ p > 0
        BY <1>2, Rotation DEF Servers
    <2>2. ParentPos(p) \in Servers /\ ParentPos(p) < p /\ p \in ChildPos(ParentPos(p))
        BY <2>1, ParentOfPosition, Zenon
    <2>3. Parent(c, r) = Unrotate(ParentPos(p), r)
        BY <2>1, Zenon DEF Parent
    <2>4. Parent(c, r) \in Servers /\ Rotate(Parent(c, r), r) = ParentPos(p)
        BY <2>2, <2>3, Rotation
    <2>5. c = Unrotate(p, r)
        BY Rotation, Zenon
    <2> QED
        BY <2>2, <2>4, <2>5, Zenon DEF Children
<1> QED
    BY <1>1, <1>2, Zenon

------------------------------------------------------------------------------
(* The inductive invariant *)

\* What the steps need to know of the tree with the root of the collective.
LEMMA TreeOfRoot ==
    ASSUME root \in Servers
    PROVE  /\ \A s \in Servers : Kids(s) \subseteq Servers /\ root \notin Kids(s)
           /\ \A s, c \in Servers : c \in Kids(s) <=> (c # root /\ Parent(c, root) = s)
           /\ \A s \in Servers : s # root => Parent(s, root) \in Servers
    BY ViewsAgree, Zenon DEF Kids

\* A new collective (collective_create on the root) satisfies the inductive invariant.
LEMMA InitIInv == Init => IInv
<1> SUFFICES ASSUME Init PROVE IInv
    BY Zenon
<1>1. TypeOK
    BY Zenon DEF Init, TypeOK, States, Replies
<1>2. Spread /\ RootState
    BY Zenon DEF Init, Spread, RootState
<1>3. Answered /\ NoUseAfterFree
    BY Zenon DEF Init, Answered, NoUseAfterFree, InUse
<1>4. Gathered /\ SignalNotLost
    BY Zenon DEF Init, Gathered, SignalNotLost
<1> QED
    BY <1>1, <1>2, <1>3, <1>4, Zenon DEF IInv

\* Every step of a server's handler, service manager or progress ULT keeps the
\* inductive invariant: one step of the proof per action.
LEMMA StepIInv == IInv /\ [Next]_vars => IInv'
<1> SUFFICES ASSUME IInv, [Next]_vars PROVE IInv'
    BY Zenon
<1> USE DEF IInv
<1>0. /\ \A s \in Servers : Kids(s) \subseteq Servers /\ root \notin Kids(s)
      /\ \A s, c \in Servers : c \in Kids(s) <=> (c # root /\ Parent(c, root) = s)
      /\ \A s \in Servers : s # root => Parent(s, root) \in Servers
    BY TreeOfRoot, Zenon DEF TypeOK
<1>1. ASSUME Invoke PROVE IInv'
    <2>1. TypeOK'
        BY <1>1, <1>0 DEF Invoke, Fault, ForwardTo, TypeOK, States
    <2>2. Spread'
        BY <1>1, <1>0 DEF Invoke, TypeOK, Spread, RootState
    <2>3. RootState'
        BY <1>1, Zenon DEF Invoke, TypeOK, RootState
    <2>4. Answered'
        BY <1>1 DEF Invoke, TypeOK, Answered
    <2>5. Gathered'
        BY <1>1 DEF Invoke, TypeOK, Gathered, Kids
    <2>6. NoUseAfterFree'
        BY <1>1, Zenon DEF Invoke, TypeOK, NoUseAfterFree, InUse
    <2>7. SignalNotLost'
        BY <1>1, Zenon DEF Invoke, TypeOK, SignalNotLost
    <2> QED
        BY <2>1, <2>2, <2>3, <2>4, <2>5, <2>6, <2>7, Zenon
<1>2. ASSUME CondWait PROVE IInv'
    <2>1. TypeOK'
        BY <1>2, <1>0, Zenon DEF CondWait, TypeOK
    <2>2. Spread'
        BY <1>2, Zenon DEF CondWait, Spread
    <2>3. RootState'
        BY <1>2, Zenon DEF CondWait, RootState
    <2>4. Answered'
        BY <1>2, Zenon DEF CondWait, Answered
    <2>5. Gathered'
        BY <1>2, Zenon DEF CondWait, Gathered, Kids
    <2>6. NoUseAfterFree'
        BY <1>2, Zenon DEF CondWait, NoUseAfterFree
    <2>7. SignalNotLost'
        BY <1>2, Zenon DEF CondWait, SignalNotLost
    <2> QED
        BY <2>1, <2>2, <2>3, <2>4, <2>5, <2>6, <2>7, Zenon
<1>3. ASSUME OwnedFilesFail PROVE IInv'
    <2>1. TypeOK'
        BY <1>3 DEF OwnedFilesFail, Fault, TypeOK
    <2>2. Spread'
        BY <1>3, Zenon DEF OwnedFilesFail, Spread, States
    <2>3. RootState'
        BY <1>3, KindAssumption, Zenon DEF OwnedFilesFail, RootState
    <2>4. Answered'
        BY <1>3, Zenon DEF OwnedFilesFail, Answered, RootState
    <2>5. Gathered'
        BY <1>3, Zenon DEF OwnedFilesFail, Fault, Gathered, Kids
    <2>6. NoUseAfterFree'
        BY <1>3, Zenon DEF OwnedFilesFail, Fault, NoUseAfterFree
    <2>7. SignalNotLost'
        BY <1>3, Zenon DEF OwnedFilesFail, SignalNotLost, RootState
    <2> QED
        BY <2>1, <2>2, <2>3, <2>4, <2>5, <2>6, <2>7, Zenon
<1>4. ASSUME CallerTimeout PROVE IInv'
    <2>1. TypeOK'
        BY <1>4, Zenon DEF CallerTimeout, TypeOK, States
    <2>2. Spread'
        BY <1>4, Zenon DEF CallerTimeout, TypeOK, Spread, States, Replies
    <2>3. RootState'
        BY <1>4, Zenon DEF CallerTimeout, RootState, Spread
    <2>4. Answered'
        BY <1>4, Zenon DEF CallerTimeout, Answered, Replies
    <2>5. Gathered'
        BY <1>4, <1>0, KindAssumption, Zenon DEF CallerTimeout, TypeOK, Gathered, Kids, States, Replies, RootState, Answered, Spread
    <2>6. NoUseAfterFree'
        BY <1>4, Zenon DEF CallerTimeout, TypeOK, NoUseAfterFree, RootState
    <2>7. SignalNotLost'
        BY <1>4, Zenon DEF CallerTimeout, SignalNotLost
    <2> QED
        BY <2>1, <2>2, <2>3, <2>4, <2>5, <2>6, <2>7, Zenon
<1>5. ASSUME CallerCleanup PROVE IInv'
    <2>1. TypeOK'
        BY <1>5, <1>0, Zenon DEF CallerCleanup, TypeOK, States
    <2>2. Spread'
        BY <1>5, <1>0, Zenon DEF CallerCleanup, TypeOK, Spread, States, Replies, RootState, Kids
    <2>3. RootState'
        BY <1>5, KindAssumption, Zenon DEF CallerCleanup, TypeOK, RootState, Spread
    <2>4. Answered'
        BY <1>5, Zenon DEF CallerCleanup, TypeOK, Answered, States, Replies, RootState, Spread
    <2>5. Gathered'
        BY <1>5, <1>0, KindAssumption, Zenon DEF CallerCleanup, TypeOK, Gathered, Kids, States, Replies, RootState, Answered, Spread
    <2>6. NoUseAfterFree'
        BY <1>5 DEF CallerCleanup, NoUseAfterFree, InUse, RootState
    <2>7. SignalNotLost'
        BY <1>5, Zenon DEF CallerCleanup, TypeOK, SignalNotLost
    <2> QED
        BY <2>1, <2>2, <2>3, <2>4, <2>5, <2>6, <2>7, Zenon
<1>6. ASSUME FinishAsync PROVE IInv'
    <2>1. TypeOK'
        BY <1>6, <1>0, Zenon DEF FinishAsync, TypeOK, States, Replies
    <2>2. Spread'
        BY <1>6, <1>0, Zenon DEF FinishAsync, TypeOK, Spread, States, Replies, RootState, Kids
    <2>3. RootState'
        BY <1>6, KindAssumption, Zenon DEF FinishAsync, TypeOK, RootState, Spread
    <2>4. Answered'
        BY <1>6 DEF FinishAsync, Answered
    <2>5. Gathered'
        BY <1>6, <1>0, KindAssumption DEF FinishAsync, TypeOK, Gathered, Kids, States, Replies, RootState, Answered, Spread
    <2>6. NoUseAfterFree'
        BY <1>6, Zenon DEF FinishAsync, TypeOK, NoUseAfterFree, InUse, RootState
    <2>7. SignalNotLost'
        BY <1>6, Zenon DEF FinishAsync, SignalNotLost, RootState
    <2> QED
        BY <2>1, <2>2, <2>3, <2>4, <2>5, <2>6, <2>7, Zenon
<1>7. ASSUME Signal PROVE IInv'
    <2>1. TypeOK'
        BY <1>7, <1>0, Zenon DEF Signal, TypeOK, States, Replies
    <2>2. Spread'
        BY <1>7 DEF Signal, Spread
    <2>3. RootState'
        BY <1>7 DEF Signal, RootState
    <2>4. Answered'
        BY <1>7 DEF Signal, Answered
    <2>5. Gathered'
        BY <1>7 DEF Signal, Gathered, Kids
    <2>6. NoUseAfterFree'
        BY <1>7 DEF Signal, NoUseAfterFree, InUse
    <2>7. SignalNotLost'
        BY <1>7, Zenon DEF Signal, SignalNotLost
    <2> QED
        BY <2>1, <2>2, <2>3, <2>4, <2>5, <2>6, <2>7, Zenon
<1>8. ASSUME ProgressRespond PROVE IInv'
    <2>1. TypeOK'
        BY <1>8, Zenon DEF ProgressRespond, TypeOK, States
    <2>2. Spread'
        BY <1>8, <1>0, Zenon DEF ProgressRespond, TypeOK, Spread, States, Replies, RootState, Kids
    <2>3. RootState'
        BY <1>8, KindAssumption, Zenon DEF ProgressRespond, TypeOK, RootState, Spread
    <2>4. Answered'
        BY <1>8, Zenon DEF ProgressRespond, TypeOK, Answered, States, Replies, RootState, Spread
    <2>5. Gathered'
        BY <1>8, <1>0, KindAssumption DEF ProgressRespond, TypeOK, Gathered, Kids, States, Replies, RootState, Answered, Spread
    <2>6. NoUseAfterFree'
        BY <1>8, Zenon DEF ProgressRespond, TypeOK, NoUseAfterFree, InUse, RootState
    <2>7. SignalNotLost'
        BY <1>8, Zenon DEF ProgressRespond, TypeOK, SignalNotLost, RootState
    <2> QED
        BY <2>1, <2>2, <2>3, <2>4, <2>5, <2>6, <2>7, Zenon
<1>9. ASSUME NEW s \in Servers, HandlerReject(s) PROVE IInv'
    <2>1. TypeOK'
        BY <1>9, <1>0 DEF HandlerReject, Handled, Fault, TypeOK, States, Replies
    <2>2. Spread'
        BY <1>9, <1>0 DEF HandlerReject, Handled, Fault, TypeOK, Spread, States, Replies, RootState, Kids
    <2>3. RootState'
        BY <1>9, KindAssumption, Zenon DEF HandlerReject, Handled, Fault, TypeOK, RootState, Spread
    <2>4. Answered'
        BY <1>9 DEF HandlerReject, Handled, Fault, TypeOK, Answered, States, Replies, RootState, Spread
    <2>5. Gathered'
        BY <1>9, <1>0, KindAssumption DEF HandlerReject, Handled, Fault, TypeOK, Gathered, Kids, States, Replies, RootState, Answered, Spread
    <2>6. NoUseAfterFree'
        BY <1>9, Zenon DEF HandlerReject, Handled, Fault, TypeOK, NoUseAfterFree, InUse, RootState
    <2>7. SignalNotLost'
        BY <1>9, Zenon DEF HandlerReject, Handled, Fault, TypeOK, SignalNotLost, RootState
    <2> QED
        BY <2>1, <2>2, <2>3, <2>4, <2>5, <2>6, <2>7, Zenon
<1>10. ASSUME NEW s \in Servers, Handler(s) PROVE IInv'
    <2>1. TypeOK'
        BY <1>10, <1>0 DEF Handler, Handled, Fault, ForwardTo, TypeOK, States, Replies
    <2>2. Spread'
        BY <1>10, <1>0 DEF Handler, Handled, Fault, ForwardTo, TypeOK, Spread, States, Replies, RootState, Kids
    <2>3. RootState'
        BY <1>10, KindAssumption DEF Handler, Handled, Fault, ForwardTo, TypeOK, RootState, Spread
    <2>4. Answered'
        BY <1>10 DEF Handler, Handled, Fault, ForwardTo, TypeOK, Answered, States, Replies, RootState, Spread
    <2>5. Gathered'
        BY <1>10, <1>0, KindAssumption DEF Handler, Handled, Fault, ForwardTo, TypeOK, Gathered, Kids, States, Replies, RootState, Answered, Spread
    <2>6. NoUseAfterFree'
        BY <1>10 DEF Handler, Handled, Fault, ForwardTo, TypeOK, NoUseAfterFree, InUse, RootState
    <2>7. SignalNotLost'
        BY <1>10, Zenon DEF Handler, Handled, Fault, ForwardTo, TypeOK, SignalNotLost, RootState
    <2> QED
        BY <2>1, <2>2, <2>3, <2>4, <2>5, <2>6, <2>7, Zenon
<1>11. ASSUME NEW s \in Servers, LocalOp(s) PROVE IInv'
    <2>1. TypeOK'
        BY <1>11, <1>0, Zenon DEF LocalOp, TypeOK, States, Replies
    <2>2. Spread'
        BY <1>11, <1>0, Zenon DEF LocalOp, TypeOK, Spread, States, Replies, RootState, Kids
    <2>3. RootState'
        BY <1>11, KindAssumption, Zenon DEF LocalOp, TypeOK, RootState, Spread
    <2>4. Answered'
        BY <1>11, Zenon DEF LocalOp, TypeOK, Answered, States, Replies, RootState, Spread
    <2>5. Gathered'
        BY <1>11, <1>0, KindAssumption DEF LocalOp, TypeOK, Gathered, Kids, States, Replies, RootState, Answered, Spread
    <2>6. NoUseAfterFree'
        BY <1>11, Zenon DEF LocalOp, TypeOK, NoUseAfterFree, InUse, RootState
    <2>7. SignalNotLost'
        BY <1>11, Zenon DEF LocalOp, TypeOK, SignalNotLost, RootState
    <2> QED
        BY <2>1, <2>2, <2>3, <2>4, <2>5, <2>6, <2>7, Zenon
<1>12. ASSUME NEW s \in Servers, LocalOpFail(s) PROVE IInv'
    <2>1. TypeOK'
        BY <1>12, <1>0 DEF LocalOpFail, Fault, TypeOK, States, Replies
    <2>2. Spread'
        BY <1>12, <1>0, Zenon DEF LocalOpFail, Fault, TypeOK, Spread, States, Replies, RootState, Kids
    <2>3. RootState'
        BY <1>12, KindAssumption, Zenon DEF LocalOpFail, Fault, TypeOK, RootState, Spread
    <2>4. Answered'
        BY <1>12, Zenon DEF LocalOpFail, Fault, TypeOK, Answered, States, Replies, RootState, Spread
    <2>5. Gathered'
        BY <1>12, <1>0, KindAssumption DEF LocalOpFail, Fault, TypeOK, Gathered, Kids, States, Replies, RootState, Answered, Spread
    <2>6. NoUseAfterFree'
        BY <1>12, Zenon DEF LocalOpFail, Fault, TypeOK, NoUseAfterFree, InUse, RootState
    <2>7. SignalNotLost'
        BY <1>12, Zenon DEF LocalOpFail, Fault, TypeOK, SignalNotLost, RootState
    <2> QED
        BY <2>1, <2>2, <2>3, <2>4, <2>5, <2>6, <2>7, Zenon
<1>13. ASSUME NEW s \in Servers, LocalOpStuck(s) PROVE IInv'
    <2>1. TypeOK'
        BY <1>13, <1>0 DEF LocalOpStuck, Fault, TypeOK, States, Replies
    <2>2. Spread'
        BY <1>13, <1>0, Zenon DEF LocalOpStuck, Fault, TypeOK, Spread, States, Replies, RootState, Kids
    <2>3. RootState'
        BY <1>13, KindAssumption, Zenon DEF LocalOpStuck, Fault, TypeOK, RootState, Spread
    <2>4. Answered'
        BY <1>13, Zenon DEF LocalOpStuck, Fault, TypeOK, Answered, States, Replies, RootState, Spread
    <2>5. Gathered'
        BY <1>13, <1>0, KindAssumption DEF LocalOpStuck, Fault, TypeOK, Gathered, Kids, States, Replies, RootState, Answered, Spread
    <2>6. NoUseAfterFree'
        BY <1>13, Zenon DEF LocalOpStuck, Fault, TypeOK, NoUseAfterFree, InUse, RootState
    <2>7. SignalNotLost'
        BY <1>13, Zenon DEF LocalOpStuck, Fault, TypeOK, SignalNotLost, RootState
    <2> QED
        BY <2>1, <2>2, <2>3, <2>4, <2>5, <2>6, <2>7, Zenon
<1>14. ASSUME NEW s \in Servers, WaitFails(s) PROVE IInv'
    <2>1. TypeOK'
        BY <1>14, <1>0, Zenon DEF WaitFails, TypeOK, States, Replies
    <2>2. Spread'
        BY <1>14, <1>0, Zenon DEF WaitFails, TypeOK, Spread, States, Replies, RootState, Kids
    <2>3. RootState'
        BY <1>14, KindAssumption, Zenon DEF WaitFails, TypeOK, RootState, Spread
    <2>4. Answered'
        BY <1>14 DEF WaitFails, TypeOK, Answered, States, Replies, RootState, Spread
    <2>5. Gathered'
        BY <1>14, <1>0, KindAssumption DEF WaitFails, TypeOK, Gathered, Kids, States, Replies, RootState, Answered, Spread
    <2>6. NoUseAfterFree'
        BY <1>14, Zenon DEF WaitFails, TypeOK, NoUseAfterFree, InUse, RootState
    <2>7. SignalNotLost'
        BY <1>14, Zenon DEF WaitFails, TypeOK, SignalNotLost, RootState
    <2> QED
        BY <2>1, <2>2, <2>3, <2>4, <2>5, <2>6, <2>7, Zenon
<1>15. ASSUME NEW s \in Servers, Finish(s) PROVE IInv'
    <2>1. TypeOK'
        BY <1>15, <1>0, Zenon DEF Finish, TypeOK, States, Replies
    <2>2. Spread'
        BY <1>15, <1>0, Zenon DEF Finish, TypeOK, Spread, States, Replies, RootState, Kids
    <2>3. RootState'
        BY <1>15, KindAssumption, Zenon DEF Finish, TypeOK, RootState, Spread
    <2>4. Answered'
        BY <1>15 DEF Finish, TypeOK, Answered, States, Replies, RootState, Spread
    <2>5. Gathered'
        BY <1>15, <1>0, KindAssumption DEF Finish, TypeOK, Gathered, Kids, States, Replies, RootState, Answered, Spread
    <2>6. NoUseAfterFree'
        BY <1>15, Zenon DEF Finish, TypeOK, NoUseAfterFree, InUse, RootState
    <2>7. SignalNotLost'
        BY <1>15, Zenon DEF Finish, TypeOK, SignalNotLost, RootState
    <2> QED
        BY <2>1, <2>2, <2>3, <2>4, <2>5, <2>6, <2>7, Zenon
<1>16. ASSUME NEW s \in Servers, NEW c \in Servers, ChildResponse(s, c) PROVE IInv'
    <2>1. TypeOK'
        BY <1>16, <1>0, Zenon DEF ChildResponse, TypeOK, States, Replies
    <2>2. Spread'
        BY <1>16, <1>0, Zenon DEF ChildResponse, TypeOK, Spread, States, Replies, RootState, Kids
    <2>3. RootState'
        BY <1>16, KindAssumption, Zenon DEF ChildResponse, TypeOK, RootState, Spread
    <2>4. Answered'
        BY <1>16 DEF ChildResponse, TypeOK, Answered, States, Replies, RootState, Spread
    <2>5. Gathered'
        BY <1>16, <1>0, KindAssumption DEF ChildResponse, TypeOK, Gathered, Kids, States, Replies, RootState, Answered, Spread
    <2>6. NoUseAfterFree'
        BY <1>16, Zenon DEF ChildResponse, TypeOK, NoUseAfterFree, InUse, RootState
    <2>7. SignalNotLost'
        BY <1>16, Zenon DEF ChildResponse, TypeOK, SignalNotLost, RootState
    <2> QED
        BY <2>1, <2>2, <2>3, <2>4, <2>5, <2>6, <2>7, Zenon
<1>17. ASSUME NEW s \in Servers, NEW c \in Servers, ChildUnread(s, c) PROVE IInv'
    <2>1. TypeOK'
        BY <1>17, <1>0 DEF ChildUnread, Fault, TypeOK, States, Replies
    <2>2. Spread'
        BY <1>17, <1>0, Zenon DEF ChildUnread, Fault, TypeOK, Spread, States, Replies, RootState, Kids
    <2>3. RootState'
        BY <1>17, KindAssumption, Zenon DEF ChildUnread, Fault, TypeOK, RootState, Spread
    <2>4. Answered'
        BY <1>17 DEF ChildUnread, Fault, TypeOK, Answered, States, Replies, RootState, Spread
    <2>5. Gathered'
        BY <1>17, <1>0, KindAssumption DEF ChildUnread, Fault, TypeOK, Gathered, Kids, States, Replies, RootState, Answered, Spread
    <2>6. NoUseAfterFree'
        BY <1>17, Zenon DEF ChildUnread, Fault, TypeOK, NoUseAfterFree, InUse, RootState
    <2>7. SignalNotLost'
        BY <1>17, Zenon DEF ChildUnread, Fault, TypeOK, SignalNotLost, RootState
    <2> QED
        BY <2>1, <2>2, <2>3, <2>4, <2>5, <2>6, <2>7, Zenon
<1>18. ASSUME NEW s \in Servers, NEW c \in Servers, ChildUnmerged(s, c) PROVE IInv'
    <2>1. TypeOK'
        BY <1>18, <1>0 DEF ChildUnmerged, Fault, TypeOK, States, Replies
    <2>2. Spread'
        BY <1>18, <1>0, Zenon DEF ChildUnmerged, Fault, TypeOK, Spread, States, Replies, RootState, Kids
    <2>3. RootState'
        BY <1>18, KindAssumption, Zenon DEF ChildUnmerged, Fault, TypeOK, RootState, Spread
    <2>4. Answered'
        BY <1>18 DEF ChildUnmerged, Fault, TypeOK, Answered, States, Replies, RootState, Spread
    <2>5. Gathered'
        BY <1>18, <1>0, KindAssumption DEF ChildUnmerged, Fault, TypeOK, Gathered, Kids, States, Replies, RootState, Answered, Spread
    <2>6. NoUseAfterFree'
        BY <1>18, Zenon DEF ChildUnmerged, Fault, TypeOK, NoUseAfterFree, InUse, RootState
    <2>7. SignalNotLost'
        BY <1>18, Zenon DEF ChildUnmerged, Fault, TypeOK, SignalNotLost, RootState
    <2> QED
        BY <2>1, <2>2, <2>3, <2>4, <2>5, <2>6, <2>7, Zenon
<1>19. ASSUME ProgressLost PROVE IInv'
    <2>1. TypeOK'
        BY <1>19, <1>0 DEF ProgressLost, Fault, TypeOK, States, Replies
    <2>2. Spread'
        BY <1>19, <1>0, Zenon DEF ProgressLost, Fault, TypeOK, Spread, States, Replies, RootState, Kids
    <2>3. RootState'
        BY <1>19, KindAssumption, Zenon DEF ProgressLost, Fault, TypeOK, RootState, Spread
    <2>4. Answered'
        BY <1>19 DEF ProgressLost, Fault, TypeOK, Answered, States, Replies, RootState, Spread
    <2>5. Gathered'
        BY <1>19, <1>0, KindAssumption DEF ProgressLost, Fault, TypeOK, Gathered, Kids, States, Replies, RootState, Answered, Spread
    <2>6. NoUseAfterFree'
        BY <1>19, Zenon DEF ProgressLost, Fault, TypeOK, NoUseAfterFree, InUse, RootState
    <2>7. SignalNotLost'
        BY <1>19, Zenon DEF ProgressLost, Fault, TypeOK, SignalNotLost, RootState
    <2> QED
        BY <2>1, <2>2, <2>3, <2>4, <2>5, <2>6, <2>7, Zenon
<1>20. ASSUME UNCHANGED vars PROVE IInv'
    BY <1>20 DEF vars, TypeOK, Spread, RootState, Answered, Gathered, Kids, NoUseAfterFree, SignalNotLost
<1> QED
    BY <1>1, <1>2, <1>3, <1>4, <1>5, <1>6, <1>7, <1>8, <1>9, <1>10, <1>11, <1>12, <1>13, <1>14, <1>15, <1>16, <1>17, <1>18, <1>19, <1>20, Zenon DEF Next, AtRoot, AtServer

\* The inductive invariant holds in every state of a collective.
LEMMA Invariance == Spec => []IInv
    BY InitIInv, StepIInv, PTL DEF Spec

------------------------------------------------------------------------------
(* The theorems *)

\* Every variable of a collective keeps its type.
THEOREM TypeCorrect == Spec => []TypeOK
<1>1. IInv => TypeOK
    BY Zenon DEF IInv
<1> QED
    BY <1>1, Invariance, PTL

\* The views of the tree that the servers compute (unifyfs_tree_init) let each
\* server handle the request of a collective at most once.
THEOREM NoDuplicates == Spec => []HandledAtMostOnce
<1>1. IInv => HandledAtMostOnce
    BY DEF IInv, TypeOK, Spread, HandledAtMostOnce
<1> QED
    BY <1>1, Invariance, PTL

\* A success that a server reports (collective_finish) covers the children whose
\* answers it took in.
THEOREM SuccessIsHonest == Spec => []SuccessCoversChildren
<1>1. ASSUME IInv, NEW s \in Servers, reply[s] = "ok"
      PROVE  /\ s \in ran
             /\ \A c \in Kids(s) \ unheard :
                   reply[c] = "ok" /\ (c \notin unmerged => files[c] \subseteq files[s])
    <2>1. s # root /\ st[s] = "done" /\ out[s] = "ok" /\ pend[s] = {}
        BY <1>1, Zenon DEF IInv, TypeOK, RootState, Answered
    <2> QED
        BY <1>1, <2>1, Zenon DEF IInv, Gathered
<1>2. IInv => SuccessCoversChildren
    BY <1>1, Zenon DEF SuccessCoversChildren
<1> QED
    BY <1>2, Invariance, PTL

\* The coll_request is not freed under the service manager or the progress ULT.
THEOREM MemoryIsSafe == Spec => []NoUseAfterFree
<1>1. IInv => NoUseAfterFree
    BY Zenon DEF IInv
<1> QED
    BY <1>1, Invariance, PTL

\* The caller never waits for a signal of collective_finish that is already sent.
THEOREM NoLostSignal == Spec => []SignalNotLost
<1>1. IInv => SignalNotLost
    BY Zenon DEF IInv
<1> QED
    BY <1>1, Invariance, PTL

\* If something is wrong with a server, it is wrong with one nearest to the root.
LEMMA Nearest ==
    ASSUME root \in Servers, NEW Bad, Bad \subseteq Servers, Bad # {}
    PROVE  \E s \in Bad : \A b \in Bad : Rotate(s, root) <= Rotate(b, root)
<1> DEFINE Dist == {Rotate(b, root) : b \in Bad}
           Less == OpToRel(<, Nat)
<1>1. \A b \in Bad : Rotate(b, root) \in Nat
    <2>1. \A b \in Bad : Rotate(b, root) \in Servers
        BY Rotation, Zenon
    <2> QED
        BY <2>1, NAssumption DEF Servers
<1>2. Dist \subseteq Nat /\ Dist # {}
    BY <1>1, Zenon
<1>3. \A m, n \in Nat : <<m, n>> \in Less <=> m < n
    BY Zenon DEF OpToRel
<1>4. IsWellFoundedOn(Less, Nat)
    BY NatLessThanWellFounded, Zenon
<1> HIDE DEF Less
<1>5. \E n \in Dist : \A m \in Dist : ~ (<<m, n>> \in Less)
    BY <1>2, <1>4, WFMin, Zenon
<1>6. PICK n \in Dist : \A m \in Dist : ~ (<<m, n>> \in Less)
    BY <1>5, Zenon
<1>7. \A m \in Dist : m \in Nat /\ n \in Nat /\ ~ (m < n)
    BY <1>2, <1>3, <1>6, Zenon
<1>8. \A m \in Dist : n <= m
    BY <1>7
<1> QED
    BY <1>8, Zenon

\* When the root finished without an error, the collective reached every server
\* whose answer came up to the root.
THEOREM Complete == Spec => []CompleteAtRoot
<1>1. ASSUME IInv, st[root] \in {"signalled", "done"}, out[root] = "ok",
             NEW S \in SUBSET Servers, ReachesRoot(S), S \cap unheard = {}
      PROVE  /\ S \ {root} \subseteq ran
             /\ Kind = "gather" /\ S \cap unmerged = {} => S \ {root} \subseteq files[root]
    <2> USE DEF IInv
    <2> DEFINE Passed(s) == S \cap unmerged = {} => files[s] \subseteq files[root]
    <2>1. root \in Servers /\ pend[root] = {}
        BY <1>1, Zenon DEF TypeOK, Answered
    <2>2. ASSUME NEW p \in Servers, p = root \/ reply[p] = "ok"
          PROVE  \A c \in Kids(p) \ unheard :
                    reply[c] = "ok" /\ (c \notin unmerged => files[c] \subseteq files[p])
        <3>1. st[p] \in {"signalled", "done"} /\ out[p] = "ok" /\ pend[p] = {}
            BY <1>1, <2>1, <2>2, Zenon DEF TypeOK, RootState, Answered
        <3> QED
            BY <1>1, <3>1, Zenon DEF Gathered
    <2>3. ASSUME NEW s \in Servers, s # root
          PROVE  /\ Parent(s, root) \in Servers
                 /\ s \in Kids(Parent(s, root))
                 /\ Rotate(Parent(s, root), root) < Rotate(s, root)
        BY <2>1, <2>3, ViewsAgree, Zenon DEF Kids
    <2>4. \A s \in S \ {root} : reply[s] = "ok" /\ Passed(s)
        <3> DEFINE Bad == {s \in S \ {root} : ~ (reply[s] = "ok" /\ Passed(s))}
        <3> SUFFICES ASSUME Bad # {} PROVE FALSE
            BY Zenon
        <3>1. PICK s \in Bad : \A b \in Bad : Rotate(s, root) <= Rotate(b, root)
            BY <2>1, Nearest, Zenon
        <3>2. s \in Servers /\ Parent(s, root) \in Servers /\ s \in Kids(Parent(s, root))
              /\ Rotate(Parent(s, root), root) < Rotate(s, root)
            BY <2>3, Zenon
        <3>3. Rotate(Parent(s, root), root) \in Nat /\ Rotate(s, root) \in Nat
            BY <2>1, <3>2, Rotation, NAssumption DEF Servers
        <3>4. Parent(s, root) \notin Bad
            BY <3>1, <3>2, <3>3
        <3>5. Parent(s, root) \in S /\ s \in S /\ s \notin unheard
            BY <1>1, Zenon DEF ReachesRoot
        <3>6. (Parent(s, root) = root \/ reply[Parent(s, root)] = "ok") /\ Passed(Parent(s, root))
            BY <3>4, <3>5, Zenon
        <3>7. reply[s] = "ok" /\ (s \notin unmerged => files[s] \subseteq files[Parent(s, root)])
            BY <2>2, <3>2, <3>5, <3>6, Zenon
        <3> QED
            BY <3>5, <3>6, <3>7, Zenon
    <2>5. \A s \in S \ {root} : s \in ran /\ (Kind = "gather" => s \in files[s])
        <3> SUFFICES ASSUME NEW s \in S \ {root}
                     PROVE  s \in ran /\ (Kind = "gather" => s \in files[s])
            BY Zenon
        <3>1. s \in Servers /\ st[s] = "done" /\ out[s] = "ok"
            BY <1>1, <2>4, Zenon DEF TypeOK, Answered
        <3> QED
            BY <1>1, <3>1, Zenon DEF Gathered
    <2> QED
        BY <2>4, <2>5, Zenon
<1>2. IInv => CompleteAtRoot
    BY <1>1, Zenon DEF CompleteAtRoot
<1> QED
    BY <1>2, Invariance, PTL

------------------------------------------------------------------------------
(* The inode functions *)

\* A set of blocks that is not empty has a last one.
LEMMA LastBlock ==
    ASSUME NEW M \in Nat, NEW S \in SUBSET (1 .. M), S # {}
    PROVE  \E b \in S : \A d \in S : d <= b
<1> DEFINE Rest == {M - b : b \in S}
           Less == OpToRel(<, Nat)
<1>1. Rest \subseteq Nat /\ Rest # {}
  <2>1. \A b \in S : M - b \in Nat
    OBVIOUS
  <2> QED BY <2>1, Zenon
<1>2. \A m, n \in Nat : <<m, n>> \in Less <=> m < n
  BY Zenon DEF OpToRel
<1>3. IsWellFoundedOn(Less, Nat)
  BY NatLessThanWellFounded, Zenon
<1> HIDE DEF Less
<1>4. PICK n \in Rest : \A m \in Rest : ~(<<m, n>> \in Less)
  BY <1>1, <1>3, WFMin, Zenon
<1>5. \A m \in Rest : m \in Nat /\ n \in Nat /\ ~(m < n)
  BY <1>1, <1>2, <1>4, Zenon
<1>6. PICK b \in S : n = M - b
  BY <1>4, Zenon
<1>7. \A d \in S : M - d \in Rest
  BY Zenon
<1> HIDE DEF Rest
<1>8. \A d \in S : d <= b
  BY <1>5, <1>6, <1>7
<1> QED BY <1>8, Zenon

\* What a request may say of the attributes: some of them, or all.
Given == [size : Nat \cup {INVALID}, mode : Int, mtime : Int, lam : {0, 1, INVALID}]

\* An update keeps an inode an inode; what becomes of size and lamination.
LEMMA Update ==
    ASSUME AttrTypeOK, NEW i \in Inodes, NEW a \in Given, NEW op
    PROVE  /\ unifyfs_file_attr_update(op, i, a) \in Inodes
           /\ unifyfs_file_attr_update(op, i, a).here = i.here
           /\ unifyfs_file_attr_update(op, i, a).blocks = i.blocks
           /\ unifyfs_file_attr_update(op, i, a).size =
                IF a.size # INVALID /\ op \in {"create", "laminate"} THEN a.size ELSE i.size
           /\ unifyfs_file_attr_update(op, i, a).lam =
                IF a.lam # INVALID /\ op \in {"create", "laminate"} THEN a.lam ELSE i.lam
<1> DEFINE j == unifyfs_file_attr_update(op, i, a)
           m == IF a.mode # INVALID /\ op \in {"chmod", "create", "laminate"} THEN a.mode ELSE i.mode
           n == IF a.size # INVALID /\ op \in {"create", "laminate"} THEN a.size ELSE i.size
           u == IF a.mtime # 0 /\ op \in {"create", "utime", "laminate"} THEN a.mtime ELSE i.mtime
           l == IF a.lam # INVALID /\ op \in {"create", "laminate"} THEN a.lam ELSE i.lam
<1>1. j = [i EXCEPT !.last_update = clock, !.mode = m, !.size = n, !.mtime = u, !.lam = l]
  BY Zenon DEF unifyfs_file_attr_update
<1>2. m \in Int /\ n \in Nat /\ u \in Int /\ l \in {0, 1} /\ clock \in Int
  BY DEF Inodes, Given, AttrTypeOK
<1> HIDE DEF m, n, u, l
<1>3. j \in Inodes /\ j.here = i.here /\ j.blocks = i.blocks /\ j.size = n /\ j.lam = l
  BY <1>1, <1>2, Zenon DEF Inodes
<1> QED BY <1>3, Zenon DEF m, n, u, l

\* Attributes of an inode are attributes, and the ones that requests carry are given.
LEMMA Kinds ==
    /\ Attrs \subseteq Given
    /\ \A i \in Inodes : Fields(i) \in Attrs /\ Fields(i).size = i.size /\ Fields(i).lam = i.lam
    /\ \A m \in Int : Chmod(m) \in Given
    /\ Created \in Attrs
    /\ NoInode \in Inodes /\ ~NoInode.here
BY DEF Attrs, Given, Inodes, Fields, Chmod, unifyfs_file_attr_set_invalid, Created, NoInode, INVALID

\* unifyfs_inode_create: an existing inode stays, a new one has the attributes given.
LEMMA Creates ==
    ASSUME AttrTypeOK, NEW i \in Inodes, NEW a \in Attrs
    PROVE  /\ unifyfs_inode_create(i, a) \in Inodes
           /\ unifyfs_inode_create(i, a).here
           /\ i.here => unifyfs_inode_create(i, a) = i
           /\ ~i.here => /\ unifyfs_inode_create(i, a).size = a.size
                         /\ unifyfs_inode_create(i, a).lam = a.lam
<1> DEFINE new == [NoInode EXCEPT !.here = TRUE]
<1>1. new \in Inodes /\ new.here
  <2>1. NoInode \in Inodes
    BY Kinds, Zenon
  <2> QED BY <2>1, Zenon DEF Inodes
<1>2. a \in Given /\ a.size # INVALID /\ a.lam # INVALID
  BY Kinds DEF Attrs, INVALID
<1> HIDE DEF new
<1>3. /\ unifyfs_file_attr_update("create", new, a) \in Inodes
      /\ unifyfs_file_attr_update("create", new, a).here
      /\ unifyfs_file_attr_update("create", new, a).size = a.size
      /\ unifyfs_file_attr_update("create", new, a).lam = a.lam
  BY <1>1, <1>2, Update
<1>4. unifyfs_inode_create(i, a) = IF i.here THEN i ELSE unifyfs_file_attr_update("create", new, a)
  BY Zenon DEF unifyfs_inode_create, unifyfs_inode_alloc, new
<1> QED BY <1>3, <1>4, Zenon

\* Changes of mode or times leave size and lamination alone.
LEMMA MetasetKeeps ==
    ASSUME AttrTypeOK, NEW i \in Inodes, NEW a \in Given, NEW op \in {"chmod", "utime"}
    PROVE  /\ unifyfs_inode_metaset(i, op, a) \in Inodes
           /\ unifyfs_inode_metaset(i, op, a).here = i.here
           /\ unifyfs_inode_metaset(i, op, a).size = i.size
           /\ unifyfs_inode_metaset(i, op, a).lam = i.lam
BY Update DEF unifyfs_inode_metaset, unifyfs_inode_update_attr

\* A lamination sets both.
LEMMA MetasetLaminates ==
    ASSUME AttrTypeOK, NEW i \in Inodes, i.here, NEW a \in Attrs
    PROVE  /\ unifyfs_inode_metaset(i, "laminate", a) \in Inodes
           /\ unifyfs_inode_metaset(i, "laminate", a).size = a.size
           /\ unifyfs_inode_metaset(i, "laminate", a).lam = a.lam
<1>1. a \in Given /\ a.size # INVALID /\ a.lam # INVALID
  BY Kinds DEF Attrs, INVALID
<1> QED BY <1>1, Update DEF unifyfs_inode_metaset, unifyfs_inode_update_attr

\* Extents are added to an unlaminated inode only.
LEMMA AddExtents ==
    ASSUME NEW i \in Inodes, NEW bs \in SUBSET (1 .. MaxSize)
    PROVE  /\ unifyfs_inode_add_extents(i, bs) \in Inodes
           /\ unifyfs_inode_add_extents(i, bs).here = i.here
           /\ unifyfs_inode_add_extents(i, bs).lam = i.lam
           /\ i.lam = 1 => unifyfs_inode_add_extents(i, bs) = i
<1> DEFINE all == i.blocks \cup bs
           last == CHOOSE b \in all : \A d \in all : d <= b
           n == IF \E b \in all : b > i.size THEN last ELSE i.size
<1>1. all \in SUBSET (1 .. MaxSize) /\ i.size \in Nat
  BY Zenon DEF Inodes
<1>2. ASSUME all # {} PROVE last \in Nat
  <2>1. \E b \in all : \A d \in all : d <= b
    BY <1>1, <1>2, LastBlock, AttributesAssumption, Zenon
  <2>2. last \in all
    BY <2>1, Zenon
  <2> QED BY <1>1, <2>2, AttributesAssumption
<1>3. n \in Nat
  BY <1>1, <1>2, Zenon
<1>4. CASE i.here /\ i.lam = 0
  <2> DEFINE j == [i EXCEPT !.blocks = all, !.size = n]
  <2>1. unifyfs_inode_add_extents(i, bs) = j
    BY <1>4, Zenon DEF unifyfs_inode_add_extents
  <2> HIDE DEF n, all
  <2>2. j \in Inodes /\ j.here = i.here /\ j.lam = i.lam
    BY <1>1, <1>3, Zenon DEF Inodes
  <2> HIDE DEF j
  <2> QED BY <1>4, <2>1, <2>2
<1>5. CASE ~(i.here /\ i.lam = 0)
  BY <1>5, Zenon DEF unifyfs_inode_add_extents
<1> QED BY <1>4, <1>5, Zenon

\* So is truncation.
LEMMA Truncates ==
    ASSUME NEW i \in Inodes, NEW n \in Nat
    PROVE  /\ unifyfs_inode_truncate(i, n) \in Inodes
           /\ unifyfs_inode_truncate(i, n).here = i.here
           /\ unifyfs_inode_truncate(i, n).lam = i.lam
           /\ i.lam = 1 => unifyfs_inode_truncate(i, n) = i
<1> DEFINE kept == {b \in i.blocks : b <= n}
<1>1. kept \in SUBSET (1 .. MaxSize)
  BY Zenon DEF Inodes
<1>2. CASE i.here /\ i.lam = 0
  <2> DEFINE j == [i EXCEPT !.size = n, !.blocks = kept]
  <2>1. unifyfs_inode_truncate(i, n) = j
    BY <1>2, Zenon DEF unifyfs_inode_truncate
  <2> HIDE DEF kept
  <2>2. j \in Inodes /\ j.here = i.here /\ j.lam = i.lam
    BY <1>1, Zenon DEF Inodes
  <2> HIDE DEF j
  <2> QED BY <1>2, <2>1, <2>2
<1>3. CASE ~(i.here /\ i.lam = 0)
  BY <1>3, Zenon DEF unifyfs_inode_truncate
<1> QED BY <1>2, <1>3, Zenon

------------------------------------------------------------------------------
(* The steps *)

\* What an inode of the owner is turned into by a change, and what is broadcast:
\* once laminated it stays so with its size, once removed it does not come back.
Goes(i) ==
    /\ i \in Inodes
    /\ own.here /\ own.lam = 1 /\ i.here => i.lam = 1 /\ i.size = own.size
    /\ changes # 0 /\ ~own.here => ~i.here

\* A message that is true of the inode the owner has after the step.
Announces(m) == /\ m \in Messages
                /\ m.attr.lam = 1 /\ own'.here => own'.lam = 1 /\ m.attr.size = own'.size
                /\ m.op = "laminate" => m.attr.lam = 1

\* A message that the broadcast functions send about an inode is one of Messages.
LEMMA BcastType ==
    ASSUME AttrTypeOK, NEW i \in Inodes, NEW op \in {"create", "truncate", "laminate", "unlink"}
    PROVE  /\ Bcast(op, i) \in Messages
           /\ Bcast(op, i).op = op
           /\ Bcast(op, i).attr = Fields(i)
<1>1. Fields(i) \in Attrs /\ i.blocks \in SUBSET (1 .. MaxSize) /\ changes \in Nat
  BY Kinds, Zenon DEF Inodes, AttrTypeOK
<1> QED BY <1>1, Zenon DEF Bcast, Messages

\* Every change that the owner makes goes on from what was there.
LEMMA OwnerGoes ==
    ASSUME AttrInv, Owner
    PROVE  /\ Goes(own') /\ changes' = changes + 1
           /\ \A m \in bcasts' : m \in bcasts \/ Announces(m)
<1> USE DEF Goes
<1>0. AttrTypeOK /\ own \in Inodes /\ own.lam \in {0, 1} /\ changes \in Nat
  BY Zenon DEF AttrInv, AttrTypeOK, Inodes
<1>1. CASE OwnerCreate
  <2>1. own' = unifyfs_inode_create(own, Created) /\ ~own.here /\ changes = 0
    BY <1>1, Zenon DEF OwnerCreate, OwnerChange, unifyfs_inode_metaset
  <2>0. Created \in Attrs /\ Created.lam = 0
    BY Kinds, Zenon DEF Created
  <2>2. own' \in Inodes /\ own'.lam = 0
    BY <1>0, <2>0, <2>1, Creates, Zenon
  <2>3. bcasts' = bcasts \cup {Bcast("create", own')} /\ changes' = changes + 1
    BY <1>1, Zenon DEF OwnerCreate, OwnerChange
  <2>4. Bcast("create", own') \in Messages /\ Bcast("create", own').attr.lam = 0
        /\ Bcast("create", own').op = "create"
    BY <1>0, <2>2, BcastType, Kinds, Zenon
  <2> QED BY <2>1, <2>2, <2>3, <2>4 DEF Announces
<1>2. CASE OwnerChmod
  <2>1. /\ own' = unifyfs_inode_metaset(own, "chmod", Chmod(changes + 1))
        /\ UNCHANGED bcasts /\ changes' = changes + 1
    BY <1>2, Zenon DEF OwnerChmod, OwnerChange
  <2>2. Chmod(changes + 1) \in Given
    BY <1>0, Kinds
  <2>3. own' \in Inodes /\ own'.here = own.here /\ own'.lam = own.lam /\ own'.size = own.size
    BY <1>0, <2>1, <2>2, MetasetKeeps, Zenon
  <2> QED BY <2>1, <2>3, Zenon
<1>3. CASE sm_add_extents
  <2>1. PICK b \in 1 .. MaxSize : own' = unifyfs_inode_add_extents(own, {b})
    BY <1>3, Zenon DEF sm_add_extents, OwnerChange
  <2>2. /\ own' \in Inodes /\ own'.here = own.here /\ own'.lam = own.lam
        /\ own.lam = 1 => own' = own
    BY <1>0, <2>1, AddExtents, Zenon
  <2>3. UNCHANGED bcasts /\ changes' = changes + 1
    BY <1>3, Zenon DEF sm_add_extents, OwnerChange
  <2> QED BY <2>2, <2>3, Zenon
<1>4. ASSUME NEW n \in 0 .. MaxSize, sm_truncate(n) PROVE
           /\ Goes(own') /\ changes' = changes + 1
           /\ \A m \in bcasts' : m \in bcasts \/ Announces(m)
  <2>1. own' = unifyfs_inode_truncate(own, n) /\ changes' = changes + 1 /\ n \in Nat
    BY <1>4, AttributesAssumption DEF sm_truncate, OwnerChange
  <2>2. /\ own' \in Inodes /\ own'.here = own.here /\ own'.lam = own.lam
        /\ own.lam = 1 => own' = own
    BY <1>0, <2>1, Truncates, Zenon
  <2>3. bcasts' = IF own.lam = 0 /\ n < own.size THEN bcasts \cup {Bcast("truncate", own')} ELSE bcasts
    BY <1>4, Zenon DEF sm_truncate
  <2>4. Bcast("truncate", own') \in Messages /\ Bcast("truncate", own').attr.lam = own.lam
        /\ Bcast("truncate", own').op = "truncate"
    BY <1>0, <2>2, BcastType, Kinds, Zenon
  <2> QED BY <2>1, <2>2, <2>3, <2>4 DEF Announces
<1>5. CASE sm_laminate
  <2>1. own' = unifyfs_inode_laminate(own) /\ own.here /\ changes' = changes + 1
    BY <1>5, Zenon DEF sm_laminate, OwnerChange
  <2>2. own' \in Inodes /\ own'.here /\ own'.lam = 1 /\ own'.size = own.size
    BY <1>0, <2>1, Zenon DEF unifyfs_inode_laminate, Inodes
  <2>3. bcasts' = bcasts \cup {Bcast("laminate", own')}
    BY <1>5, Zenon DEF sm_laminate
  <2>4. Bcast("laminate", own') \in Messages /\ Bcast("laminate", own').attr.lam = 1
        /\ Bcast("laminate", own').attr.size = own'.size
    BY <1>0, <2>2, BcastType, Kinds, Zenon
  <2> QED BY <2>1, <2>2, <2>3, <2>4, Zenon DEF Announces
<1>6. CASE OwnerUnlink
  <2>1. own' = NoInode /\ changes' = changes + 1
    BY <1>6, Zenon DEF OwnerUnlink, OwnerChange, unifyfs_inode_unlink
  <2>2. own' \in Inodes /\ ~own'.here
    BY <2>1, Kinds, Zenon
  <2>3. bcasts' = bcasts \cup {Bcast("unlink", own)}
    BY <1>6, Zenon DEF OwnerUnlink
  <2>4. Bcast("unlink", own) \in Messages /\ Bcast("unlink", own).op = "unlink"
    BY <1>0, BcastType, Zenon
  <2> QED BY <2>1, <2>2, <2>3, <2>4, Zenon DEF Announces
<1> QED BY <1>1, <1>2, <1>3, <1>4, <1>5, <1>6, Zenon DEF Owner

\* The owner changes the file.
LEMMA OwnerStep == ASSUME AttrInv, Owner PROVE AttrInv'
<1>0. /\ AttrTypeOK /\ Unheard /\ LaminatedSize /\ AskedIsCurrent
      /\ \A m \in bcasts : Final(m.attr) /\ (m.op = "laminate" => m.attr.lam = 1)
      /\ \A t \in Threads : Knows(fcall[t])
  BY Zenon DEF AttrInv
<1>1. /\ Goes(own') /\ changes' = changes + 1
      /\ \A m \in bcasts' : m \in bcasts \/ Announces(m)
  BY OwnerGoes, Zenon
<1>2. UNCHANGED <<clock, loc, pending>> /\ Seen(own')
  BY Zenon DEF Owner
<1>3. Fields(own') \in Attrs
  BY <1>1, Kinds, Zenon DEF Goes
<1>4. \A t \in Threads :
        /\ fcall'[t] = IF fcall[t].pc \in {"idle", "done"} THEN fcall[t]
                       ELSE [fcall[t] EXCEPT !.seen = fcall[t].seen \cup {Fields(own')}]
        /\ fcall[t] \in FileCalls /\ fcall'[t] \in FileCalls
        /\ fcall'[t].pc = fcall[t].pc /\ fcall'[t].ok = fcall[t].ok /\ fcall'[t].got = fcall[t].got
        /\ fcall'[t].kind = fcall[t].kind /\ fcall'[t].path = fcall[t].path
        /\ fcall'[t].exact = fcall[t].exact /\ fcall'[t].sized = fcall[t].sized
        /\ fcall[t].pc \notin {"idle", "done"} => fcall'[t].seen = fcall[t].seen \cup {Fields(own')}
  <2> TAKE t \in Threads
  <2> DEFINE c == fcall[t]
             d == [c EXCEPT !.seen = c.seen \cup {Fields(own')}]
  <2>1. c \in FileCalls /\ fcall'[t] = IF c.pc \in {"idle", "done"} THEN c ELSE d
    BY <1>0, <1>2, Zenon DEF Seen, AttrTypeOK
  <2>2. /\ d \in FileCalls /\ d.pc = c.pc /\ d.ok = c.ok /\ d.got = c.got /\ d.kind = c.kind
        /\ d.path = c.path /\ d.exact = c.exact /\ d.sized = c.sized
        /\ d.seen = c.seen \cup {Fields(own')}
    BY <1>3, <2>1, Zenon DEF FileCalls
  <2> HIDE DEF d
  <2> QED BY <2>1, <2>2, Zenon DEF d
<1>5. fcall' \in [Threads -> FileCalls]
  BY <1>2, <1>4, Zenon DEF Seen
<1>6. AttrTypeOK'
  BY <1>0, <1>1, <1>2, <1>5 DEF AttrTypeOK, Goes, Announces
<1>7. \A a : changes # 0 /\ Final(a) => Final(a)'
  BY <1>1, Zenon DEF Goes, Final
<1>8. changes' # 0
  BY <1>0, <1>1 DEF AttrTypeOK
<1>9. LaminatedSize'
  BY <1>0, <1>1, <1>2, Zenon DEF LaminatedSize, Goes, Unheard
<1>10. AskedIsCurrent'
  <2> SUFFICES ASSUME NEW t \in Threads, fcall'[t].pc = "done", fcall'[t].ok
               PROVE  /\ fcall'[t].kind = "metaget" /\ fcall'[t].path = "asked" => fcall'[t].exact
                      /\ fcall'[t].kind = "filesize" /\ fcall'[t].path # "poll"
                           => fcall'[t].sized \/ (fcall'[t].path = "local" /\ ~own'.here)
    BY Zenon DEF AskedIsCurrent, Returned
  <2>1. fcall[t].pc = "done" /\ fcall[t].ok
    BY <1>4, Zenon
  <2>2. /\ fcall'[t].kind = fcall[t].kind /\ fcall'[t].path = fcall[t].path
        /\ fcall'[t].exact = fcall[t].exact /\ fcall'[t].sized = fcall[t].sized
    BY <1>4, Zenon
  <2>3. changes # 0
    BY <1>0, <2>1, Zenon DEF Unheard
  <2>4. ~own.here => ~own'.here
    BY <1>1, <2>3, Zenon DEF Goes
  <2>5. /\ fcall[t].kind = "metaget" /\ fcall[t].path = "asked" => fcall[t].exact
        /\ fcall[t].kind = "filesize" /\ fcall[t].path # "poll"
             => fcall[t].sized \/ (fcall[t].path = "local" /\ ~own.here)
    BY <1>0, <2>1, Zenon DEF AskedIsCurrent, Returned
  <2> QED BY <2>2, <2>4, <2>5, Zenon
<1>11. ASSUME NEW m \in bcasts' PROVE Final(m.attr)' /\ (m.op = "laminate" => m.attr.lam = 1)
  BY <1>0, <1>1, <1>7, Zenon DEF Announces, Final, Unheard
<1>12. ASSUME NEW t \in Threads PROVE Knows(fcall[t])'
  BY <1>0, <1>4, <1>7, ZenonT(30) DEF Knows, Unheard
<1> QED BY <1>6, <1>8, <1>9, <1>10, <1>11, <1>12, Zenon DEF AttrInv, Unheard

\* A broadcast is applied to the copy: what it makes of the copy is final too.
LEMMA AppliesStep ==
    ASSUME AttrInv, NEW m \in bcasts, NEW i \in Inodes, Applies(m, i),
           i.here /\ i.lam = 1 /\ own.here => own.lam = 1 /\ i.size = own.size
    PROVE  AttrInv'
<1>1. /\ loc' = i /\ bcasts' \subseteq bcasts
      /\ UNCHANGED <<clock, own, pending, fcall, changes>>
  BY Zenon DEF Applies
<1>2. AttrTypeOK'
  BY <1>1, Zenon DEF AttrInv, AttrTypeOK
<1>3. Unheard'
  BY <1>1, Zenon DEF AttrInv, Unheard
<1>4. LaminatedSize' /\ AskedIsCurrent'
  BY <1>1, Zenon DEF AttrInv, LaminatedSize, AskedIsCurrent, Returned
<1>5. \A t \in Threads : Knows(fcall[t])'
  BY <1>1, Zenon DEF AttrInv, Knows, Final
<1>6. \A x \in bcasts' : Final(x.attr)' /\ (x.op = "laminate" => x.attr.lam = 1)
  BY <1>1, Zenon DEF AttrInv, Final
<1> QED BY <1>2, <1>3, <1>4, <1>5, <1>6, Zenon DEF AttrInv

LEMMA BroadcastStep == ASSUME AttrInv, Broadcasts PROVE AttrInv'
<1>0. /\ AttrTypeOK /\ loc \in Inodes /\ LaminatedSize
      /\ \A m \in bcasts : /\ m.attr \in Attrs /\ m.blocks \in SUBSET (1 .. MaxSize)
                           /\ m.attr.size \in Nat /\ Final(m.attr)
  BY Zenon DEF AttrInv, AttrTypeOK, Messages, Attrs
<1>1. ASSUME process_fileattr_bcast_rpc PROVE AttrInv'
  <2>1. PICK m \in bcasts : Applies(m, unifyfs_inode_create(loc, m.attr))
    BY <1>1, Zenon DEF process_fileattr_bcast_rpc, unifyfs_inode_metaset
  <2>2. /\ unifyfs_inode_create(loc, m.attr) \in Inodes
        /\ loc.here => unifyfs_inode_create(loc, m.attr) = loc
        /\ ~loc.here => /\ unifyfs_inode_create(loc, m.attr).size = m.attr.size
                        /\ unifyfs_inode_create(loc, m.attr).lam = m.attr.lam
    BY <1>0, Creates, Zenon
  <2> QED BY <1>0, <2>1, <2>2, AppliesStep, Zenon DEF Final, LaminatedSize
<1>2. ASSUME process_truncate_bcast_rpc PROVE AttrInv'
  <2>1. PICK m \in bcasts : Applies(m, unifyfs_inode_truncate(loc, m.attr.size))
    BY <1>2, Zenon DEF process_truncate_bcast_rpc
  <2>2. /\ unifyfs_inode_truncate(loc, m.attr.size) \in Inodes
        /\ unifyfs_inode_truncate(loc, m.attr.size).here = loc.here
        /\ unifyfs_inode_truncate(loc, m.attr.size).lam = loc.lam
        /\ loc.lam = 1 => unifyfs_inode_truncate(loc, m.attr.size) = loc
    BY <1>0, Truncates, Zenon
  <2> QED BY <1>0, <2>1, <2>2, AppliesStep, Zenon DEF LaminatedSize
<1>3. ASSUME process_unlink_bcast_rpc PROVE AttrInv'
  <2>1. PICK m \in bcasts : Applies(m, NoInode)
    BY <1>3, Zenon DEF process_unlink_bcast_rpc, unifyfs_inode_unlink
  <2> QED BY <2>1, Kinds, AppliesStep, Zenon
<1>4. ASSUME process_laminate_bcast_rpc PROVE AttrInv'
  <2> DEFINE there(m) == unifyfs_inode_create(loc, [m.attr EXCEPT !.lam = 0])
             full(m)  == unifyfs_inode_add_extents(there(m), m.blocks)
             final(m) == unifyfs_inode_metaset(full(m), "laminate", m.attr)
  <2>1. PICK m \in bcasts : Applies(m, final(m))
    BY <1>4, Zenon DEF process_laminate_bcast_rpc
  <2>2. [m.attr EXCEPT !.lam = 0] \in Attrs
    BY <1>0, Zenon DEF Attrs
  <2>3. there(m) \in Inodes /\ there(m).here
    BY <1>0, <2>2, Creates, Zenon
  <2> HIDE DEF there
  <2>4. full(m) \in Inodes /\ full(m).here
    BY <1>0, <2>3, AddExtents, Zenon
  <2> HIDE DEF full
  <2>5. final(m) \in Inodes /\ final(m).size = m.attr.size /\ final(m).lam = m.attr.lam
    BY <1>0, <2>4, MetasetLaminates, Zenon
  <2> HIDE DEF final
  <2> QED BY <1>0, <2>1, <2>5, AppliesStep, Zenon DEF Final
<1> QED BY <1>1, <1>2, <1>3, <1>4, Zenon DEF Broadcasts

\* A call that has returned: the part of AskedIsCurrent about it.
Honest(c) ==
    c.pc = "done" /\ c.ok =>
        /\ c.kind = "metaget" /\ c.path = "asked" => c.exact
        /\ c.kind = "filesize" /\ c.path # "poll" => c.sized \/ (c.path = "local" /\ ~own.here)

\* One thread goes on with its call; the copy may change, the owner's inode does not.
LEMMA CallStep ==
    ASSUME AttrInv, NEW t \in Threads, NEW c \in FileCalls,
           fcall' = [fcall EXCEPT ![t] = c],
           UNCHANGED <<clock, own, bcasts, changes>>,
           loc' \in Inodes, pending' \in BOOLEAN,
           loc'.here /\ loc'.lam = 1 /\ own.here => own.lam = 1 /\ loc'.size = own.size,
           changes = 0 => ~loc'.here /\ (c.pc \in {"reply", "stored", "done"} => ~c.ok),
           Knows(c), Honest(c)
    PROVE  AttrInv'
<1>1. \A s \in Threads : fcall'[s] = IF s = t THEN c ELSE fcall[s]
  BY Zenon DEF AttrInv, AttrTypeOK
<1>2. AttrTypeOK'
  BY Zenon DEF AttrInv, AttrTypeOK
<1>3. Unheard'
  BY <1>1, Zenon DEF AttrInv, Unheard
<1>4. LaminatedSize'
  BY Zenon DEF LaminatedSize
<1>5. AskedIsCurrent'
  BY <1>1 DEF AttrInv, AskedIsCurrent, Returned, Honest
<1>6. \A a : Final(a) => Final(a)'
  BY Zenon DEF Final
<1>7. \A s \in Threads : Knows(fcall[s])'
  BY <1>1, <1>6, SMTT(30) DEF AttrInv, Knows
<1>8. \A x \in bcasts' : Final(x.attr)' /\ (x.op = "laminate" => x.attr.lam = 1)
  BY <1>6, Zenon DEF AttrInv
<1> QED BY <1>2, <1>3, <1>4, <1>5, <1>7, <1>8, Zenon DEF AttrInv

\* A step that leaves the copy as it is.
LEMMA QuietStep ==
    ASSUME AttrInv, NEW t \in Threads, NEW c \in FileCalls,
           fcall' = [fcall EXCEPT ![t] = c],
           UNCHANGED <<clock, own, loc, bcasts, changes>>, pending' \in BOOLEAN,
           changes = 0 => (c.pc \in {"reply", "stored", "done"} => ~c.ok),
           Knows(c), Honest(c)
    PROVE  AttrInv'
BY CallStep, Zenon DEF AttrInv, AttrTypeOK, LaminatedSize, Unheard

\* The call that has not begun: one without a kind.
Unplanned == [pc : {"idle", "poll", "rpc", "queued", "reply", "stored", "failed", "done"},
              kind : {"none"}, need : BOOLEAN, ok : BOOLEAN, got : Attrs,
              path : {"none", "local", "asked", "poll"}, mode : Int, seen : SUBSET Attrs,
              exact : BOOLEAN, sized : BOOLEAN]

LEMMA IdleType == Idle \in Unplanned
<1>1. Fields(NoInode) \in Attrs
  BY Kinds, Zenon
<1> QED BY <1>1 DEF Idle, Unplanned

LEMMA Planned ==
    ASSUME NEW i \in Unplanned, NEW k \in {"metaget", "filesize", "metaset"}, NEW m \in Int
    PROVE  [i EXCEPT !.kind = k, !.mode = m] \in FileCalls
BY Zenon DEF FileCalls, Unplanned

\* A call returns: what it returns is judged by what the owner has been meanwhile.
LEMMA ReturnStep ==
    ASSUME AttrInv, NEW t \in Threads, NEW ok \in BOOLEAN, NEW got \in Attrs,
           NEW path \in {"local", "asked", "poll"}, NEW seen,
           seen = IF Begin(t) THEN {Fields(own)} ELSE fcall[t].seen,
           Return(t, ok, got, path),
           UNCHANGED <<clock, own, loc, bcasts, changes>>, pending' \in BOOLEAN,
           changes = 0 => ~ok,
           ok /\ path = "asked" => got \in seen,
           ok /\ path = "local" /\ own.here /\ fcall[t].kind = "filesize" =>
               \E a \in seen : a.size = got.size
    PROVE  AttrInv'
<1> DEFINE e == got \in seen
           z == \E a \in seen : a.size = got.size
           c == [Idle EXCEPT !.pc = "done", !.kind = fcall[t].kind, !.ok = ok, !.path = path,
                             !.exact = e, !.sized = z]
<1>1. fcall' = [fcall EXCEPT ![t] = c]
  BY Zenon DEF Return
<1>2. fcall[t].kind \in {"metaget", "filesize", "metaset"} /\ e \in BOOLEAN /\ z \in BOOLEAN
  BY DEF AttrInv, AttrTypeOK, FileCalls
<1>3. ok /\ path = "asked" => e /\ z
  BY Zenon
<1>4. ok /\ path = "local" /\ own.here /\ fcall[t].kind = "filesize" => z
  BY Zenon
<1> HIDE DEF e, z
<1>6. /\ c \in FileCalls /\ c.pc = "done" /\ c.kind = fcall[t].kind /\ c.ok = ok /\ c.path = path
      /\ c.exact = e /\ c.sized = z
  BY <1>2, IdleType, ZenonT(30) DEF FileCalls, Unplanned
<1> HIDE DEF c
<1>7. Knows(c)
  BY <1>6, Zenon DEF Knows
<1>8. Honest(c)
  BY <1>3, <1>4, <1>6, Zenon DEF Honest
<1> QED BY <1>1, <1>6, <1>7, <1>8, QuietStep, Zenon

\* A lookup that goes to the owner, or waits for the thread that does.
LEMMA AskStep ==
    ASSUME AttrInv, NEW t \in Threads, AskOwner(t), Begin(t),
           UNCHANGED <<clock, own, loc, bcasts, changes>>
    PROVE  AttrInv'
<1> DEFINE p == IF pending THEN "poll" ELSE "rpc"
           n == ~loc.here
           c == [fcall[t] EXCEPT !.pc = p, !.need = n, !.seen = {Fields(own)}]
<1>1. fcall' = [fcall EXCEPT ![t] = c] /\ pending' = TRUE
  BY Zenon DEF AskOwner, AttrInv, AttrTypeOK
<1>2. p \in {"poll", "rpc"} /\ n \in BOOLEAN /\ Fields(own) \in Attrs /\ fcall[t] \in FileCalls
  BY Kinds, Zenon DEF AttrInv, AttrTypeOK
<1> HIDE DEF p, n
<1>3. c \in FileCalls /\ c.pc = p /\ c.seen = {Fields(own)}
  BY <1>2, Zenon DEF FileCalls
<1> HIDE DEF c
<1>4. Knows(c) /\ Honest(c)
  BY <1>2, <1>3, Zenon DEF Knows, Honest
<1> QED BY <1>1, <1>2, <1>3, <1>4, QuietStep, Zenon

\* Every step of a call.
LEMMA FileCallStep == ASSUME AttrInv, NEW t \in Threads, FileCall(t) PROVE AttrInv'
<1>0. /\ AttrTypeOK /\ Unheard /\ LaminatedSize /\ Knows(fcall[t]) /\ Honest(fcall[t])
      /\ own \in Inodes /\ loc \in Inodes /\ fcall[t] \in FileCalls /\ fcall[t].ok \in BOOLEAN
      /\ fcall[t].got \in Attrs /\ loc.here \in BOOLEAN /\ own.here \in BOOLEAN
      /\ pending \in BOOLEAN /\ fcall[t].mode \in Int
  BY Zenon DEF AttrInv, AttrTypeOK, FileCalls, Inodes, AskedIsCurrent, Honest, Returned
<1>01. /\ Fields(loc) \in Attrs /\ Fields(loc).size = loc.size
       /\ Fields(own) \in Attrs /\ Fields(own).size = own.size /\ Fields(own).lam = own.lam
  BY <1>0, Kinds, Zenon
<1>1. ASSUME unifyfs_invoke_metaget_rpc(t) PROVE AttrInv'
  <2>1. /\ Begin(t) /\ fcall[t].kind = "metaget" /\ UNCHANGED <<clock, own, loc, bcasts, changes>>
        /\ \/ loc.here /\ Return(t, TRUE, Fields(loc), "local") /\ UNCHANGED pending
           \/ AskOwner(t)
    BY <1>1, Zenon DEF unifyfs_invoke_metaget_rpc, Starts, Fresh
  <2> QED BY <1>0, <1>01, <2>1, ReturnStep, AskStep, Zenon DEF Unheard
<1>2. ASSUME unifyfs_invoke_filesize_rpc(t) PROVE AttrInv'
  <2>1. /\ Begin(t) /\ fcall[t].kind = "filesize" /\ UNCHANGED <<clock, own, loc, bcasts, changes>>
        /\ \/ /\ loc.here /\ loc.lam = 1 /\ Return(t, TRUE, Fields(loc), "local")
              /\ UNCHANGED pending
           \/ AskOwner(t)
    BY <1>2, Zenon DEF unifyfs_invoke_filesize_rpc, Starts
  <2>2. loc.here /\ loc.lam = 1 /\ own.here => Fields(own).size = Fields(loc).size
    BY <1>0, <1>01, Zenon DEF LaminatedSize
  <2> QED BY <1>0, <1>01, <2>1, <2>2, ReturnStep, AskStep, Zenon DEF Unheard
<1>3. ASSUME unifyfs_invoke_metaset_rpc(t) PROVE AttrInv'
  <2>1. /\ fcall[t].kind = "metaset" /\ Begin(t)
        /\ loc' = unifyfs_inode_metaset(loc, "chmod", Chmod(fcall[t].mode))
        /\ UNCHANGED <<clock, own, pending, bcasts, changes>>
    BY <1>3, Zenon DEF unifyfs_invoke_metaset_rpc, Starts
  <2>2. CASE ~loc.here
    <3>1. loc' = loc /\ Return(t, FALSE, Fields(loc), "local")
      BY <1>3, <2>1, <2>2, Zenon DEF unifyfs_invoke_metaset_rpc, unifyfs_inode_metaset,
                              unifyfs_inode_update_attr
    <3> QED BY <1>0, <1>01, <2>1, <3>1, ReturnStep, Zenon
  <2>3. CASE loc.here
    <3> DEFINE c == [fcall[t] EXCEPT !.pc = "rpc", !.seen = {Fields(own)}]
    <3>1. fcall' = [fcall EXCEPT ![t] = c]
      BY <1>0, <1>3, <2>3, Zenon DEF unifyfs_invoke_metaset_rpc, AttrTypeOK
    <3>2. c \in FileCalls /\ c.pc = "rpc" /\ c.seen = {Fields(own)}
      BY <1>0, <1>01, Zenon DEF FileCalls
    <3> HIDE DEF c
    <3>3. Chmod(fcall[t].mode) \in Given
      BY <1>0, Kinds, Zenon
    <3>4. loc' \in Inodes /\ loc'.here = loc.here /\ loc'.size = loc.size /\ loc'.lam = loc.lam
      BY <1>0, <2>1, <3>3, MetasetKeeps, Zenon
    <3>5. Knows(c) /\ Honest(c)
      BY <3>2, Zenon DEF Knows, Honest
    <3> QED BY <1>0, <2>1, <3>1, <3>2, <3>4, <3>5, CallStep, Zenon DEF LaminatedSize, Unheard
  <2> QED BY <2>2, <2>3, Zenon
<1>4. ASSUME metaget_rpc(t) PROVE AttrInv'
  <2> DEFINE c == [fcall[t] EXCEPT !.pc = "queued"]
  <2>1. fcall' = [fcall EXCEPT ![t] = c] /\ UNCHANGED <<clock, own, loc, pending, bcasts, changes>>
    BY <1>0, <1>4, Zenon DEF metaget_rpc, AttrTypeOK
  <2>2. c \in FileCalls /\ c.pc = "queued" /\ c.seen = fcall[t].seen
    BY <1>0, Zenon DEF FileCalls
  <2> HIDE DEF c
  <2>3. Knows(c) /\ Honest(c)
    BY <1>0, <1>4, <2>2, Zenon DEF Knows, Honest, metaget_rpc
  <2> QED BY <1>0, <2>1, <2>2, <2>3, QuietStep, Zenon
<1>5. ASSUME sm_process_metaget_rpc(t) PROVE AttrInv'
  <2> DEFINE c == [fcall[t] EXCEPT !.pc = "reply", !.ok = own.here, !.got = Fields(own)]
  <2>1. fcall' = [fcall EXCEPT ![t] = c] /\ UNCHANGED <<clock, own, loc, pending, bcasts, changes>>
    BY <1>0, <1>5, Zenon DEF sm_process_metaget_rpc, AttrTypeOK
  <2>2. /\ c \in FileCalls /\ c.pc = "reply" /\ c.seen = fcall[t].seen
        /\ c.got = Fields(own) /\ c.ok = own.here
    BY <1>0, <1>01, Zenon DEF FileCalls
  <2> HIDE DEF c
  <2>3. Fields(own) \in fcall[t].seen
    BY <1>0, <1>5, Zenon DEF Knows, sm_process_metaget_rpc
  <2>4. Knows(c) /\ Honest(c)
    BY <1>01, <2>2, <2>3, Zenon DEF Knows, Honest, Final
  <2> QED BY <1>0, <2>1, <2>2, <2>4, QuietStep, Zenon DEF Unheard
<1>6. ASSUME StoreAnswer(t) PROVE AttrInv'
  <2> DEFINE c == [fcall[t] EXCEPT !.pc = "stored"]
  <2>1. fcall' = [fcall EXCEPT ![t] = c] /\ UNCHANGED <<clock, own, pending, bcasts, changes>>
    BY <1>0, <1>6, Zenon DEF StoreAnswer, AttrTypeOK
  <2>2. /\ c \in FileCalls /\ c.pc = "stored" /\ c.seen = fcall[t].seen
        /\ c.got = fcall[t].got /\ c.ok = fcall[t].ok
    BY <1>0, Zenon DEF FileCalls
  <2> HIDE DEF c
  <2>3. fcall[t].pc = "reply" /\ (fcall[t].ok => Final(fcall[t].got))
    BY <1>0, <1>6, Zenon DEF Knows, StoreAnswer
  <2>4. Knows(c) /\ Honest(c)
    BY <1>0, <2>2, <2>3, Zenon DEF Knows, Honest
  <2>5. /\ loc' \in Inodes
        /\ loc'.here /\ loc'.lam = 1 /\ own.here => own.lam = 1 /\ loc'.size = own.size
    <3>1. CASE ~fcall[t].ok
      BY <1>0, <1>6, <3>1, Zenon DEF StoreAnswer, LaminatedSize
    <3>2. CASE fcall[t].ok /\ fcall[t].need
      <4>1. loc' = unifyfs_inode_create(loc, fcall[t].got)
        BY <1>6, <3>2, Zenon DEF StoreAnswer, unifyfs_inode_metaset
      <4> QED BY <1>0, <2>3, <3>2, <4>1, Creates, SMTT(30) DEF Final, LaminatedSize
    <3>3. CASE fcall[t].ok /\ ~fcall[t].need
      <4>1. loc' = unifyfs_inode_metaset(loc, "utime", fcall[t].got)
        BY <1>6, <3>3, Zenon DEF StoreAnswer
      <4>2. fcall[t].got \in Given
        BY <1>0, Kinds, Zenon
      <4>3. loc' \in Inodes /\ loc'.here = loc.here /\ loc'.size = loc.size /\ loc'.lam = loc.lam
        BY <1>0, <4>1, <4>2, MetasetKeeps, Zenon
      <4> QED BY <1>0, <4>3, Zenon DEF LaminatedSize
    <3> QED BY <3>1, <3>2, <3>3, Zenon
  <2>6. changes = 0 => ~loc'.here /\ ~c.ok
    BY <1>0, <1>6, <2>2, <2>3, Zenon DEF Unheard, StoreAnswer
  <2> QED BY <1>0, <2>1, <2>2, <2>4, <2>5, <2>6, CallStep, Zenon
<1>7. ASSUME clear_pending_metaget(t) PROVE AttrInv'
  <2>1. /\ fcall[t].pc \in {"stored", "failed"} /\ pending' = FALSE
        /\ Return(t, fcall[t].ok, fcall[t].got, "asked")
        /\ UNCHANGED <<clock, own, loc, bcasts, changes>>
    BY <1>7, Zenon DEF clear_pending_metaget
  <2>2. fcall[t].ok => fcall[t].got \in fcall[t].seen
    BY <1>0, <2>1, Zenon DEF Knows
  <2>3. changes = 0 => ~fcall[t].ok
    BY <1>0, <2>1, Zenon DEF Unheard, Knows
  <2>4. ~Begin(t)
    BY <2>1, Zenon DEF Begin
  <2> QED BY <1>0, <2>1, <2>2, <2>3, <2>4, ReturnStep, Zenon
<1>8. ASSUME check_pending_metaget(t) PROVE AttrInv'
  <2>1. /\ fcall[t].pc = "poll" /\ Return(t, loc.here, Fields(loc), "poll")
        /\ UNCHANGED <<clock, own, loc, pending, bcasts, changes>>
    BY <1>8, Zenon DEF check_pending_metaget
  <2> QED BY <1>0, <1>01, <2>1, ReturnStep, Zenon DEF Unheard
<1>9. ASSUME sm_process_metaset_rpc(t) PROVE AttrInv'
  <2>1. /\ own' = unifyfs_inode_metaset(own, "chmod", Chmod(fcall[t].mode))
        /\ UNCHANGED <<clock, loc, pending, bcasts, changes>>
    BY <1>9, Zenon DEF sm_process_metaset_rpc
  <2>2. Chmod(fcall[t].mode) \in Given
    BY <1>0, Kinds, Zenon
  <2>3. own' \in Inodes /\ own'.here = own.here /\ own'.size = own.size /\ own'.lam = own.lam
    BY <1>0, <2>1, <2>2, MetasetKeeps, Zenon
  <2>4. Fields(own') \in Attrs
    BY <2>3, Kinds, Zenon
  <2> DEFINE e == [Idle EXCEPT !.pc = "done", !.kind = "metaset", !.ok = own.here]
             d(s) == [fcall[s] EXCEPT !.seen = fcall[s].seen \cup {Fields(own')}]
  <2>5. e \in FileCalls /\ e.pc = "done" /\ e.kind = "metaset" /\ e.ok = own.here
    BY <1>0, IdleType, Zenon DEF FileCalls, Unplanned
  <2>6. ASSUME NEW s \in Threads
        PROVE  /\ d(s) \in FileCalls /\ d(s).pc = fcall[s].pc /\ d(s).ok = fcall[s].ok
               /\ d(s).got = fcall[s].got /\ d(s).seen = fcall[s].seen \cup {Fields(own')}
    BY <1>0, <2>4, Zenon DEF FileCalls, AttrTypeOK
  <2>7. fcall' = [s \in Threads |-> IF s = t THEN e ELSE IF fcall[s].pc \in {"idle", "done"}
                                    THEN fcall[s] ELSE d(s)]
    BY <1>9, Zenon DEF sm_process_metaset_rpc
  <2> HIDE DEF e, d
  <2>8. AttrTypeOK'
    BY <1>0, <2>1, <2>3, <2>5, <2>6, <2>7, Zenon DEF AttrTypeOK
  <2>9. Unheard'
    BY <1>0, <2>1, <2>3, <2>5, <2>6, <2>7, Zenon DEF Unheard
  <2>10. LaminatedSize'
    BY <1>0, <2>1, <2>3, Zenon DEF LaminatedSize
  <2>11. AskedIsCurrent'
    BY <2>3, <2>5, <2>6, <2>7, Zenon DEF AttrInv, AskedIsCurrent, Returned
  <2>12. \A a : Final(a) <=> Final(a)'
    BY <2>3, Zenon DEF Final
  <2>13. ASSUME NEW s \in Threads PROVE Knows(fcall[s])'
    BY <2>5, <2>6, <2>7, <2>12, Zenon DEF AttrInv, Knows
  <2>14. \A x \in bcasts' : Final(x.attr)' /\ (x.op = "laminate" => x.attr.lam = 1)
    BY <2>1, <2>12, Zenon DEF AttrInv
  <2> QED BY <2>8, <2>9, <2>10, <2>11, <2>13, <2>14, Zenon DEF AttrInv
<1> QED BY <1>1, <1>2, <1>3, <1>4, <1>5, <1>6, <1>7, <1>8, <1>9, Zenon DEF FileCall

\* The wait for the owner ends with an error.
LEMMA FailStep == ASSUME AttrInv, NEW t \in Threads, metaget_wait_fails(t) PROVE AttrInv'
<1> DEFINE c == [fcall[t] EXCEPT !.pc = "failed", !.ok = FALSE]
<1>0. fcall[t] \in FileCalls /\ pending \in BOOLEAN /\ Knows(fcall[t])
  BY Zenon DEF AttrInv, AttrTypeOK
<1>1. fcall' = [fcall EXCEPT ![t] = c] /\ UNCHANGED <<clock, own, loc, pending, bcasts, changes>>
  BY Zenon DEF metaget_wait_fails, AttrInv, AttrTypeOK
<1>2. c \in FileCalls /\ c.pc = "failed" /\ c.seen = fcall[t].seen /\ ~c.ok
  BY <1>0, ZenonT(30) DEF FileCalls
<1> HIDE DEF c
<1>3. Knows(c) /\ Honest(c)
  BY <1>0, <1>2, Zenon DEF Knows, Honest, metaget_wait_fails
<1> QED BY <1>0, <1>1, <1>2, <1>3, QuietStep, Zenon

------------------------------------------------------------------------------
(* The theorems *)

\* Before anything has happened.
LEMMA AttrInitially == AttrInit => AttrInv
<1> SUFFICES ASSUME AttrInit PROVE AttrInv
  BY Zenon
<1>1. PICK plan \in Plans : fcall = [t \in Threads |-> [Idle EXCEPT !.kind = plan[t], !.mode = 100]]
  BY Zenon DEF AttrInit
<1>2. \A t \in Threads : plan[t] \in {"metaget", "filesize", "metaset"}
  BY AttributesAssumption, Zenon
<1>3. ASSUME NEW t \in Threads PROVE fcall[t] \in FileCalls /\ fcall[t].pc = "idle"
  <2> DEFINE k == plan[t]
             c == [Idle EXCEPT !.kind = k, !.mode = 100]
  <2>1. k \in {"metaget", "filesize", "metaset"}
    BY <1>2, Zenon
  <2> HIDE DEF k
  <2>2. c.pc = "idle"
    BY Zenon DEF Idle
  <2>3. 100 \in Int
    OBVIOUS
  <2>4. c \in FileCalls
    BY <2>1, <2>3, IdleType, Planned, ZenonT(30)
  <2>5. fcall[t] = c
    BY <1>1, ZenonT(30) DEF k
  <2> HIDE DEF c
  <2> QED BY <2>2, <2>4, <2>5, Zenon
<1>4. own = NoInode /\ loc = NoInode /\ NoInode \in Inodes /\ ~NoInode.here
      /\ clock = 1 /\ pending = FALSE /\ bcasts = {} /\ changes = 0
  BY Kinds, ZenonT(30) DEF AttrInit
<1>5. fcall \in [Threads -> FileCalls]
  BY <1>1, <1>3, Zenon
<1>6. AttrTypeOK
  BY <1>4, <1>5, Zenon DEF AttrTypeOK
<1>7. Unheard /\ LaminatedSize /\ AskedIsCurrent
  BY <1>3, <1>4, Zenon DEF Unheard, LaminatedSize, AskedIsCurrent, Returned
<1>8. \A t \in Threads : Knows(fcall[t])
  BY <1>3, Zenon DEF Knows
<1> QED BY <1>4, <1>6, <1>7, <1>8, Zenon DEF AttrInv

\* A step that changes the clock at most.
LEMMA IdleStep ==
    ASSUME AttrInv, UNCHANGED <<own, loc, pending, bcasts, fcall, changes>>, clock' \in Nat
    PROVE  AttrInv'
<1>1. AttrTypeOK'
  BY Zenon DEF AttrInv, AttrTypeOK
<1>2. Unheard'
  BY Zenon DEF AttrInv, Unheard
<1>3. LaminatedSize' /\ AskedIsCurrent'
  BY Zenon DEF AttrInv, LaminatedSize, AskedIsCurrent, Returned
<1>4. \A t \in Threads : Knows(fcall[t])'
  BY Zenon DEF AttrInv, Knows, Final
<1>5. \A x \in bcasts' : Final(x.attr)' /\ (x.op = "laminate" => x.attr.lam = 1)
  BY Zenon DEF AttrInv, Final
<1> QED BY <1>1, <1>2, <1>3, <1>4, <1>5, Zenon DEF AttrInv

\* The inductive invariant: attributes that call the file laminated, wherever they
\* are, in the copy, a broadcast or an answer, are the owner's final ones.
THEOREM AttrCorrect == AttrSpec => []AttrInv
<1>1. ASSUME AttrInv, [AttrNext]_attrVars PROVE AttrInv'
  <2>1. CASE Tick
    <3>1. UNCHANGED <<own, loc, pending, bcasts, fcall, changes>> /\ clock' = clock + 1
      BY <2>1, Zenon DEF Tick
    <3> QED BY <1>1, <3>1, IdleStep, SMTT(30) DEF AttrInv, AttrTypeOK
  <2>2. CASE UNCHANGED attrVars
    <3>1. UNCHANGED <<own, loc, pending, bcasts, fcall, changes>> /\ UNCHANGED clock
      BY <2>2, Zenon DEF attrVars
    <3> QED BY <1>1, <3>1, IdleStep, Zenon DEF AttrInv, AttrTypeOK
  <2> QED BY <1>1, <2>1, <2>2, OwnerStep, BroadcastStep, FileCallStep, FailStep, Zenon DEF AttrNext
<1> QED BY <1>1, AttrInitially, PTL DEF AttrSpec

\* AskedIsCurrent: a metaget that asked the owner (unifyfs_invoke_metaget_rpc), and a
\* size lookup (unifyfs_invoke_filesize_rpc) that did not wait for another thread's
\* lookup, returns what the owner had at some moment of the call; only a copy of a
\* laminated file answers on until the broadcast of its unlink arrives.
THEOREM AnswersAreCurrent == AttrSpec => []AskedIsCurrent
<1>1. AttrInv => AskedIsCurrent
  BY Zenon DEF AttrInv
<1> QED BY <1>1, AttrCorrect, PTL

\* LaminatedSize: a server that knows the file to be laminated has its final size,
\* whether process_laminate_bcast_rpc told it or the answer to a metaget, and late
\* truncations and attribute broadcasts (unifyfs_file_attr_update) do not change it.
THEOREM LaminatedSizeIsFinal == AttrSpec => []LaminatedSize
<1>1. AttrInv => LaminatedSize
  BY Zenon DEF AttrInv
<1> QED BY <1>1, AttrCorrect, PTL

------------------------------------------------------------------------------
(* The start of the servers *)

\* The rank of a server and what it publishes.
GivenRank(h) == IF setup.store = "fs" THEN process_servers_hostfile(h) ELSE TaskRank(h)
Published(h) == IF setup.store = "pmi2" THEN [sep |-> "!", host |-> h] ELSE Address(h)

Connected == {"boot", "await", "collect", "bcast", "pids", "lines", "loop"}
Addressed == {"rpc", "fence", "connect"} \cup Connected
Named == {"shm", "remote"} \cup Addressed
Stages == {"off", "kv", "local", "final", "gone", "dead", "exited"} \cup Named
Addresses == {NoAddr} \cup {Address(h) : h \in Hosts}

StartShape ==
    /\ setup \in Setups /\ Launches(setup)
    /\ lau \in {"start", "wait", "stage", "up", "down", "stopping"}
    /\ DOMAIN launched = {"servers", "ranked", "stage", "status", "killed"}
    /\ sv \in [Hosts -> Stages] /\ rank \in [Hosts -> Ranks]
    /\ DOMAIN lkey = Hosts /\ DOMAIN rkey = Ranks /\ DOMAIN cl = Hosts
    /\ infos \in [Hosts -> Seq(Addresses)] /\ done \in [Hosts -> BOOLEAN]
    /\ pidfile \in {-1, 0, NumHosts}

\* The ranks are given when a server starts.
RanksGiven ==
    /\ lau = "start" => \A h \in Hosts : sv[h] = "off"
    /\ lau # "start" => hostfile = Nodes /\ launched.servers = Hosts /\ launched.ranked
    /\ \A h \in Hosts : sv[h] # "off" => rank[h] = GivenRank(h)

\* Server g has been given rank r.
Holds(g, r) == sv[g] # "off" /\ rank[g] = r

\* An address is there when its server has come so far, and is never a wrong one.
Keys ==
    /\ \A r \in Ranks :
          \/ rkey[r] = NoAddr \/ (rkey[r] = NoValue /\ setup.store = "fs")
          \/ \E g \in Hosts : Holds(g, r) /\ rkey[r] = Published(g)
    /\ lau # "stopping" => \A h \in Hosts :
          /\ sv[h] \in Named => lkey[h] = "set"
          /\ sv[h] \in Addressed => rkey[rank[h]] = Published(h)

Infos == \A h \in Hosts :
    /\ Len(infos[h]) <= NumHosts
    /\ \A i \in 1 .. Len(infos[h]) :
          infos[h][i] = NoAddr \/ \E g \in Hosts : Holds(g, i - 1) /\ infos[h][i] = Address(g)
    /\ sv[h] \in Connected =>
          Len(infos[h]) = NumHosts /\ (setup.lazy \/ \A i \in 1 .. NumHosts : infos[h][i] # NoAddr)

\* The bootstrap of server h is over.
Booted(h) == sv[h] = "loop" \/ (sv[h] = "await" /\ done[h])

\* `unifyfs start` has seen the pid file.
SeenReady == lau \in {"stage", "up"} /\ (setup.fault = "none" \/ ~setup.stage)

\* The pid file is written when the bootstrap is over everywhere.
Boot ==
    /\ lau = "stage" => setup.stage
    /\ lau # "stopping" =>
          /\ \A h \in Hosts : done[h] => sv[h] \in {"await", "loop"}
          /\ \A h \in Hosts : sv[h] \in {"pids", "lines"} => \A g \in Hosts \ {h} : done[g]
          /\ (lau # "start" /\ pidfile = NumHosts) \/ SeenReady => \A h \in Hosts : Booted(h)

NobodyFailed == setup.fault = "none" => \A h \in Hosts : cl[h] # "failed"

StartInv == StartShape /\ RanksGiven /\ Keys /\ Infos /\ Boot /\ NobodyFailed

\* Every number of a job is the rank of one host, in the host file and by the process
\* manager.
LEMMA HostCount == NumHosts \in Nat \ {0} /\ Ranks = 0 .. NumHosts - 1 /\ 0 \in Ranks /\ IsFiniteSet(Ranks) /\ Cardinality(Ranks) = NumHosts
<1>1. NumHosts \in Nat /\ NumHosts # 0
  BY StartupAssumption, FS_CardinalityType, FS_EmptySet, Zenon DEF NumHosts
<1>2. IsFiniteSet(0 .. NumHosts - 1) /\ Cardinality(0 .. NumHosts - 1) = IF 0 > NumHosts - 1 THEN 0 ELSE (NumHosts - 1) - 0 + 1
  BY <1>1, FS_Interval
<1> QED BY <1>1, <1>2 DEF Ranks

LEMMA TaskRanks ==
    /\ \A h \in Hosts : TaskRank(h) \in Ranks
    /\ \A g, h \in Hosts : TaskRank(g) = TaskRank(h) => g = h
    /\ \A r \in Ranks : \E h \in Hosts : TaskRank(h) = r
<1> DEFINE Below(h) == {g \in Hosts : g < h}
<1>0. IsFiniteSet(Hosts) /\ Hosts \subseteq Nat
  BY StartupAssumption, Zenon
<1>1. ASSUME NEW h \in Hosts
      PROVE  IsFiniteSet(Below(h)) /\ TaskRank(h) = Cardinality(Below(h)) /\ TaskRank(h) \in Ranks
  <2>1. Below(h) \in SUBSET Hosts /\ h \notin Below(h)
    BY <1>0
  <2>2. IsFiniteSet(Below(h)) /\ Cardinality(Below(h)) <= NumHosts /\ NumHosts # Cardinality(Below(h))
    <3> HIDE DEF Below
    <3> QED BY <1>0, <2>1, FS_Subset, Zenon DEF NumHosts
  <2>3. Cardinality(Below(h)) \in Nat
    BY <2>2, FS_CardinalityType, Zenon
  <2> QED BY <2>2, <2>3, HostCount DEF TaskRank
<1>2. ASSUME NEW g \in Hosts, NEW h \in Hosts, g < h PROVE TaskRank(g) # TaskRank(h)
  <2>0. g < h /\ ~(g < g) /\ \A x \in Hosts : x < g => x < h
    BY <1>0, <1>2
  <2>1. Below(g) \in SUBSET Below(h) /\ g \in Below(h) /\ g \notin Below(g)
    BY <2>0, Zenon
  <2> HIDE DEF Below
  <2> QED BY <1>1, <2>1, FS_Subset, Zenon
<1>3. \A g, h \in Hosts : TaskRank(g) = TaskRank(h) => g = h
  BY <1>0, <1>2
<1> DEFINE f == [h \in Hosts |-> TaskRank(h)]
<1>4. f \in Injection(Hosts, Ranks)
  BY <1>1, <1>3, Zenon DEF Injection, IsInjective
<1>5. f \in Surjection(Hosts, Ranks)
  <2> HIDE DEF f
  <2> QED BY <1>4, HostCount, FS_Injection, Zenon DEF NumHosts
<1>6. \A r \in Ranks : \E h \in Hosts : f[h] = r
  <2> HIDE DEF f
  <2> QED BY <1>5, Zenon DEF Surjection
<1> QED BY <1>1, <1>3, <1>6, Zenon

LEMMA HostfileRanks ==
    ASSUME NEW s, Launches(s), hostfile = NodesOf(s)
    PROVE  /\ \A h \in Hosts : process_servers_hostfile(h) \in Ranks
           /\ \A g, h \in Hosts : process_servers_hostfile(g) = process_servers_hostfile(h) => g = h
           /\ \A r \in Ranks : \E h \in Hosts : process_servers_hostfile(h) = r
<1>0. /\ hostfile \in Seq(Hosts) /\ Len(hostfile) = NumHosts /\ NumHosts \in Nat \ {0}
      /\ \A i, j \in 1 .. NumHosts : hostfile[i] = hostfile[j] => i = j
      /\ \A h \in Hosts : \E i \in 1 .. NumHosts : hostfile[i] = h
  BY HostCount, Zenon DEF Launches
<1>1. ASSUME NEW i \in 1 .. NumHosts PROVE process_servers_hostfile(hostfile[i]) = i - 1
  <2> DEFINE at == {j \in 1 .. Len(hostfile) : hostfile[j] = hostfile[i]}
  <2>1. at = {i}
    BY <1>0
  <2>2. (CHOOSE k \in at : \A j \in at : j <= k) = i
    BY <1>0, <2>1
  <2> QED BY <2>1, <2>2, Zenon DEF process_servers_hostfile
<1>2. ASSUME NEW h \in Hosts PROVE \E i \in 1 .. NumHosts : h = hostfile[i] /\ process_servers_hostfile(h) = i - 1
  BY <1>0, <1>1
<1>3. ASSUME NEW r \in Ranks PROVE \E h \in Hosts : process_servers_hostfile(h) = r
  <2>1. r + 1 \in 1 .. NumHosts /\ hostfile[r + 1] \in Hosts /\ (r + 1) - 1 = r
    BY <1>0, HostCount
  <2> QED BY <1>1, <2>1, Zenon
<1>4. ASSUME NEW h \in Hosts PROVE process_servers_hostfile(h) \in Ranks
  <2>1. \A i \in 1 .. NumHosts : i - 1 \in Ranks
    BY HostCount
  <2> QED BY <1>2, <2>1, Zenon
<1>5. ASSUME NEW g \in Hosts, NEW h \in Hosts, process_servers_hostfile(g) = process_servers_hostfile(h)
      PROVE  g = h
  <2>1. PICK i \in 1 .. NumHosts : g = hostfile[i] /\ process_servers_hostfile(g) = i - 1
    BY <1>2, Zenon
  <2>2. PICK j \in 1 .. NumHosts : h = hostfile[j] /\ process_servers_hostfile(h) = j - 1
    BY <1>2, Zenon
  <2>3. i = j
    BY <1>0, <1>5, <2>1, <2>2
  <2> QED BY <2>1, <2>2, <2>3, Zenon
<1> QED BY <1>3, <1>4, <1>5, Zenon

LEMMA Ranking ==
    ASSUME StartShape, RanksGiven, lau # "start"
    PROVE  /\ \A h \in Hosts : GivenRank(h) \in Ranks
           /\ \A g, h \in Hosts : GivenRank(g) = GivenRank(h) => g = h
           /\ \A r \in Ranks : \E h \in Hosts : GivenRank(h) = r
<1>1. CASE setup.store = "fs"
  <2>1. Launches(setup) /\ hostfile = NodesOf(setup)
    BY Zenon DEF StartShape, RanksGiven, Nodes, NodesOf
  <2>2. \A h \in Hosts : GivenRank(h) = process_servers_hostfile(h)
    BY <1>1, Zenon DEF GivenRank
  <2> QED BY <2>1, <2>2, HostfileRanks, Zenon
<1>2. CASE setup.store # "fs"
  BY <1>2, TaskRanks, Zenon DEF GivenRank
<1> QED BY <1>1, <1>2, Zenon

\* What the steps of a server leave alone.
Still == UNCHANGED <<setup, launched, lau, hostfile>>

LEMMA StartParts ==
    ASSUME StartInv
    PROVE  /\ StartShape /\ RanksGiven /\ Keys /\ Infos /\ Boot /\ NobodyFailed
           /\ \A h \in Hosts : sv[h] \in Stages /\ rank[h] \in Ranks /\ infos[h] \in Seq(Addresses) /\ done[h] \in BOOLEAN
           /\ \A h \in Hosts : sv[h] # "off" => lau # "start"
           /\ setup.store \in Stores
  BY StartupAssumption, Zenon DEF StartInv, StartShape, RanksGiven, SetupsOK

\* The address at position i of server_infos is that of rank i - 1.
LEMMA InfoRanks ==
    ASSUME StartInv
    PROVE  \A g \in Hosts : \A i \in 1 .. Len(infos[g]) : i - 1 \in Ranks
<1> SUFFICES ASSUME NEW g \in Hosts, NEW i \in 1 .. Len(infos[g]) PROVE i - 1 \in Ranks
  OBVIOUS
<1>1. PICK n : n = Len(infos[g])
  OBVIOUS
<1>2. infos[g] \in Seq(Addresses) /\ n <= NumHosts
  BY <1>1, StartParts, Zenon DEF Infos
<1>3. n \in Nat
  BY <1>1, <1>2
<1>4. i \in 1 .. n
  BY <1>1, Zenon
<1>5. NumHosts \in Nat /\ Ranks = 0 .. NumHosts - 1
  BY HostCount, Zenon
<1> QED BY <1>2, <1>3, <1>4, <1>5

\* A step that changes no address and by which no server gets its connections.
LEMMA InfosKept ==
    ASSUME StartInv, infos' = infos, setup' = setup,
           \A g \in Hosts, r \in Ranks : Holds(g, r) => Holds(g, r)',
           \A g \in Hosts : sv'[g] \in Connected =>
               \/ sv[g] \in Connected
               \/ Len(infos[g]) = NumHosts /\ (setup.lazy \/ \A i \in 1 .. NumHosts : infos[g][i] # NoAddr)
    PROVE  Infos'
<1>1. ASSUME NEW g \in Hosts, NEW i \in 1 .. Len(infos[g])
      PROVE  infos[g][i] = NoAddr \/ \E k \in Hosts : Holds(k, i - 1)' /\ infos[g][i] = Address(k)
  <2>1. i - 1 \in Ranks
    BY InfoRanks, Zenon
  <2> QED BY <2>1, StartParts, Zenon DEF Infos
<1>2. ASSUME NEW g \in Hosts
      PROVE  /\ Len(infos[g]) <= NumHosts
             /\ sv'[g] \in Connected =>
                   Len(infos[g]) = NumHosts /\ (setup.lazy \/ \A i \in 1 .. NumHosts : infos[g][i] # NoAddr)
  BY StartParts, Zenon DEF Infos
<1> QED BY <1>1, <1>2, Zenon DEF Infos

\* Two servers do not have the same rank.
LEMMA OneHolds ==
    ASSUME StartInv, NEW g \in Hosts, NEW h \in Hosts, Holds(g, rank[h]), sv[h] # "off"
    PROVE  g = h
  BY StartParts, Ranking DEF Holds, RanksGiven

\* Ranks and publications depend on the setup and the host file alone.
LEMMA GivenStays ==
    ASSUME setup' = setup, hostfile' = hostfile
    PROVE  \A g : GivenRank(g)' = GivenRank(g) /\ Published(g)' = Published(g)
  BY DEF GivenRank, process_servers_hostfile, Published, TaskRank

\* A step that changes no address for servers.
LEMMA RankKeysKept ==
    ASSUME Keys, rkey' = rkey, setup' = setup,
           \A g \in Hosts, r \in Ranks : Holds(g, r) => Holds(g, r)',
           \A g \in Hosts : Published(g)' = Published(g)
    PROVE  \A r \in Ranks :
              \/ rkey'[r] = NoAddr \/ (rkey'[r] = NoValue /\ setup'.store = "fs")
              \/ \E g \in Hosts : Holds(g, r)' /\ rkey'[r] = Published(g)'
<1> SUFFICES ASSUME NEW r \in Ranks
             PROVE  \/ rkey[r] = NoAddr \/ (rkey[r] = NoValue /\ setup.store = "fs")
                    \/ \E g \in Hosts : Holds(g, r)' /\ rkey[r] = Published(g)'
  BY Zenon
<1>1. \/ rkey[r] = NoAddr \/ (rkey[r] = NoValue /\ setup.store = "fs")
      \/ \E g \in Hosts : Holds(g, r) /\ rkey[r] = Published(g)
  BY Zenon DEF Keys
<1>2. ASSUME NEW g \in Hosts, Holds(g, r), rkey[r] = Published(g) PROVE Holds(g, r)' /\ rkey[r] = Published(g)'
  BY <1>2, Zenon
<1> QED BY <1>1, <1>2, Zenon

\* A server moves on: it keeps its rank.
LEMMA RanksStay ==
    ASSUME StartInv, Still, NEW h \in Hosts, sv[h] # "off", NEW to \in Stages \ {"off"},
           sv' = [sv EXCEPT ![h] = to], rank' = rank
    PROVE  /\ RanksGiven' /\ sv' \in [Hosts -> Stages] /\ sv'[h] = to /\ (\A g \in Hosts : g # h => sv'[g] = sv[g])
           /\ \A g \in Hosts, r \in Ranks : Holds(g, r)' <=> Holds(g, r)
           /\ \A g \in Hosts : Published(g)' = Published(g)
<1>0. /\ sv \in [Hosts -> Stages] /\ lau # "start" /\ RanksGiven
      /\ setup' = setup /\ launched' = launched /\ lau' = lau /\ hostfile' = hostfile
  BY StartParts, Zenon DEF Still, StartShape
<1>1. sv' \in [Hosts -> Stages] /\ sv'[h] = to /\ \A g \in Hosts : g # h => sv'[g] = sv[g]
  BY <1>0, Zenon
<1>2. \A g \in Hosts : GivenRank(g)' = GivenRank(g) /\ Published(g)' = Published(g)
  BY <1>0, GivenStays, Zenon
<1>3. RanksGiven'
  BY <1>0, <1>1, <1>2, Zenon DEF RanksGiven, Nodes
<1> QED BY <1>1, <1>2, <1>3, Zenon DEF Holds

\* Steps that change neither keys nor addresses.
LEMMA PlainMove ==
    ASSUME StartInv, Still, NEW h \in Hosts, sv[h] # "off", NEW to \in Stages \ {"off"},
           sv' = [sv EXCEPT ![h] = to], UNCHANGED <<rank, lkey, rkey, infos, done, cl, pidfile>>,
           to \in Named => sv[h] \in Named, to \in Addressed => sv[h] \in Addressed,
           to \in Connected => Len(infos[h]) = NumHosts /\ (setup.lazy \/ \A i \in 1 .. NumHosts : infos[h][i] # NoAddr),
           lau # "stopping" =>
              /\ to \in {"pids", "lines"} => \A g \in Hosts \ {h} : done[g]
              /\ done[h] => to \in {"await", "loop"}
              /\ Booted(h) => to = "loop"
    PROVE  StartInv'
<1>0. StartShape /\ RanksGiven /\ Keys /\ Infos /\ Boot /\ NobodyFailed
  BY StartParts, Zenon
<1>1. /\ setup' = setup /\ launched' = launched /\ lau' = lau /\ hostfile' = hostfile /\ rank' = rank /\ lkey' = lkey
      /\ rkey' = rkey /\ infos' = infos /\ done' = done /\ cl' = cl /\ pidfile' = pidfile
  BY Zenon DEF Still
<1>2. /\ RanksGiven' /\ sv' \in [Hosts -> Stages] /\ sv'[h] = to /\ (\A g \in Hosts : g # h => sv'[g] = sv[g])
      /\ \A g \in Hosts, r \in Ranks : Holds(g, r)' <=> Holds(g, r)
      /\ \A g \in Hosts : Published(g)' = Published(g)
  BY <1>1, RanksStay, Zenon
<1>3. StartShape' /\ NobodyFailed'
  BY <1>0, <1>1, <1>2, Zenon DEF StartShape, NobodyFailed
<1>4. Keys'
  <2>1. \A g \in Hosts : (sv'[g] \in Named => sv[g] \in Named) /\ (sv'[g] \in Addressed => sv[g] \in Addressed)
    BY <1>2, Zenon
  <2>2. ASSUME NEW g \in Hosts, lau # "stopping"
        PROVE  /\ sv'[g] \in Named => lkey[g] = "set"
               /\ sv'[g] \in Addressed => rkey[rank[g]] = Published(g)
    BY <1>0, <2>1, <2>2, Zenon DEF Keys
  <2>3. \A r \in Ranks :
           \/ rkey'[r] = NoAddr \/ (rkey'[r] = NoValue /\ setup'.store = "fs")
           \/ \E g \in Hosts : Holds(g, r)' /\ rkey'[r] = Published(g)'
    BY <1>0, <1>1, <1>2, RankKeysKept, Zenon
  <2> QED BY <1>1, <1>2, <2>2, <2>3, Zenon DEF Keys
<1>5. Infos'
  <2>1. \A g \in Hosts : sv'[g] \in Connected =>
           \/ sv[g] \in Connected
           \/ Len(infos[g]) = NumHosts /\ (setup.lazy \/ \A i \in 1 .. NumHosts : infos[g][i] # NoAddr)
    BY <1>0, <1>1, <1>2, Zenon
  <2> QED BY <1>1, <1>2, <2>1, InfosKept, Zenon
<1>6. Boot'
  BY <1>0, <1>1, <1>2 DEF Boot, Booted, SeenReady
<1> QED BY <1>2, <1>3, <1>4, <1>5, <1>6, Zenon DEF StartInv

\* The later steps of a server in a job that is not being stopped.
LEMMA ServerMoves ==
    ASSUME StartInv, NEW h \in Hosts,
           \/ svcmgr_init(h) \/ unifyfs_keyval_fence_remote(h) \/ unifyfs_invoke_server_pid_rpc(h)
           \/ wait_for_bootstrap_condition(h) \/ unifyfs_complete_bootstrap(h)
           \/ margo_server_rpc_finalize(h) \/ DieEarly(h)
    PROVE  StartInv'
<1>0. StartShape /\ RanksGiven /\ Keys /\ Infos /\ Boot /\ NobodyFailed /\ sv[h] \in Stages /\ sv \in [Hosts -> Stages]
  BY StartParts, Zenon DEF StartShape
<1>1. Still /\ UNCHANGED <<rank, lkey, rkey, infos, done, cl, pidfile>>
  BY Zenon DEF svcmgr_init, unifyfs_keyval_fence_remote, unifyfs_invoke_server_pid_rpc,
         wait_for_bootstrap_condition, unifyfs_complete_bootstrap, margo_server_rpc_finalize, DieEarly,
         Still, lauVars, keyVars, bootVars
<1>2. CASE svcmgr_init(h)
  BY <1>0, <1>1, <1>2, PlainMove, Zenon DEF svcmgr_init, Moves, Boot, Booted, Stages, Named, Addressed, Connected
<1>3. CASE unifyfs_keyval_fence_remote(h)
  BY <1>0, <1>1, <1>3, PlainMove, Zenon
     DEF unifyfs_keyval_fence_remote, Moves, Boot, Booted, Stages, Named, Addressed, Connected
<1>4. CASE unifyfs_invoke_server_pid_rpc(h)
  <2>1. sv[h] = "boot" /\ \E to \in {"await", "exited"} : sv' = [sv EXCEPT ![h] = to]
    BY <1>4, Zenon DEF unifyfs_invoke_server_pid_rpc
  <2> QED BY <1>0, <1>1, <2>1, PlainMove, Zenon DEF Infos, Boot, Booted, Stages, Named, Addressed, Connected
<1>5. CASE wait_for_bootstrap_condition(h)
  <2>1. sv[h] = "await" /\ \/ done[h] /\ sv' = [sv EXCEPT ![h] = "loop"]
                           \/ ~done[h] /\ sv' = [sv EXCEPT ![h] = "exited"]
    BY <1>5, Zenon DEF wait_for_bootstrap_condition
  <2> QED BY <1>0, <1>1, <2>1, PlainMove, Zenon DEF Infos, Boot, Booted, Stages, Named, Addressed, Connected
<1>6. CASE unifyfs_complete_bootstrap(h)
  <2>1. /\ sv[h] \in {"boot", "collect"}
        /\ \E to \in {"collect", "bcast", "exited"} : sv' = [sv EXCEPT ![h] = to]
    BY <1>6, Zenon DEF unifyfs_complete_bootstrap, Moves
  <2> QED BY <1>0, <1>1, <2>1, PlainMove, Zenon DEF Infos, Boot, Booted, Stages, Named, Addressed, Connected
<1>7. CASE margo_server_rpc_finalize(h)
  BY <1>0, <1>1, <1>7, PlainMove, Zenon DEF margo_server_rpc_finalize, Moves, Boot, Booted, Stages, Named, Addressed, Connected
<1>8. CASE DieEarly(h)
  BY <1>0, <1>1, <1>8, PlainMove, Zenon DEF DieEarly, Lives, Booted, Stages, Named, Addressed, Connected
<1> QED BY <1>2, <1>3, <1>4, <1>5, <1>6, <1>7, <1>8, Zenon

\* The rank is given; the directories of the keys do not matter here.
LEMMA RankGiven ==
    ASSUME StartInv, NEW h \in Hosts, unifyfs_keyval_init(h)
    PROVE  StartInv'
<1>0. /\ StartShape /\ RanksGiven /\ Keys /\ Infos /\ Boot /\ NobodyFailed /\ setup.store \in Stores
      /\ sv[h] = "off" /\ lau # "start" /\ sv \in [Hosts -> Stages] /\ rank \in [Hosts -> Ranks] /\ launched.ranked
  BY StartParts, Zenon DEF StartShape, RanksGiven, unifyfs_keyval_init, Moves
<1>1. /\ setup' = setup /\ launched' = launched /\ lau' = lau /\ hostfile' = hostfile /\ lkey' = lkey
      /\ rkey' = rkey /\ infos' = infos /\ done' = done /\ cl' = cl /\ pidfile' = pidfile
      /\ sv' = [sv EXCEPT ![h] = "kv"]
  BY Zenon DEF unifyfs_keyval_init, Moves, lauVars, bootVars
<1>2. /\ GivenRank(h) \in Ranks /\ rank' = [rank EXCEPT ![h] = GivenRank(h)]
  <2>1. GivenRank(h) \in Ranks
    BY <1>0, Ranking, Zenon
  <2>2. GivenRank(h) = CASE setup.store = "pmi2" -> unifyfs_pmi2_init(h)
                         [] setup.store = "pmix" -> unifyfs_pmix_init(h)
                         [] setup.store = "fs" -> get_server_rank_and_size(h)
    BY <1>0, Zenon DEF GivenRank, unifyfs_pmi2_init, unifyfs_pmix_init, get_server_rank_and_size, Stores
  <2> QED BY <2>1, <2>2, Zenon DEF unifyfs_keyval_init
<1>3. /\ sv' \in [Hosts -> Stages] /\ sv'[h] = "kv" /\ rank' \in [Hosts -> Ranks] /\ rank'[h] = GivenRank(h)
      /\ \A g \in Hosts : g # h => sv'[g] = sv[g] /\ rank'[g] = rank[g]
  BY <1>0, <1>1, <1>2, Zenon DEF Stages
<1>4. \A g \in Hosts : GivenRank(g)' = GivenRank(g) /\ Published(g)' = Published(g)
  BY <1>1, GivenStays, Zenon
<1>5. \A g \in Hosts, r \in Ranks : Holds(g, r) => Holds(g, r)'
  BY <1>0, <1>3, Zenon DEF Holds
<1>6. RanksGiven' /\ StartShape' /\ NobodyFailed'
  <2>1. RanksGiven'
    BY <1>0, <1>1, <1>3, <1>4, Zenon DEF RanksGiven, Nodes
  <2>2. StartShape' /\ NobodyFailed'
    BY <1>0, <1>1, <1>3, Zenon DEF StartShape, NobodyFailed
  <2> QED BY <2>1, <2>2, Zenon
<1>7. Keys'
  <2>1. \A r \in Ranks :
           \/ rkey'[r] = NoAddr \/ (rkey'[r] = NoValue /\ setup'.store = "fs")
           \/ \E g \in Hosts : Holds(g, r)' /\ rkey'[r] = Published(g)'
    BY <1>0, <1>1, <1>4, <1>5, RankKeysKept, Zenon
  <2>2. "kv" \notin Named /\ "kv" \notin Addressed
    BY Zenon DEF Named, Addressed, Connected
  <2>3. ASSUME NEW g \in Hosts, lau # "stopping"
        PROVE  /\ sv'[g] \in Named => lkey[g] = "set"
               /\ sv'[g] \in Addressed => rkey[rank'[g]] = Published(g)'
    <3>1. CASE g = h
      BY <1>3, <2>2, <3>1, Zenon
    <3>2. CASE g # h
      BY <1>0, <1>3, <1>4, <2>3, <3>2, Zenon DEF Keys
    <3> QED BY <3>1, <3>2, Zenon
  <2> QED BY <1>1, <2>1, <2>3, Zenon DEF Keys
<1>8. Infos'
  <2>1. \A g \in Hosts : sv'[g] \in Connected =>
           \/ sv[g] \in Connected
           \/ Len(infos[g]) = NumHosts /\ (setup.lazy \/ \A i \in 1 .. NumHosts : infos[g][i] # NoAddr)
    BY <1>0, <1>1, <1>3, <1>5, Zenon DEF Connected
  <2> QED BY <1>1, <1>5, <2>1, InfosKept, Zenon
<1>9. Boot'
  BY <1>0, <1>1, <1>3, Zenon DEF Boot, Booted, SeenReady
<1> QED BY <1>6, <1>7, <1>8, <1>9, Zenon DEF StartInv

\* A step of a server that changes a key, before it has connected.
LEMMA KeyMove ==
    ASSUME StartInv, Still, NEW h \in Hosts, NEW to \in {"local", "shm", "remote", "rpc"},
           sv[h] \in {"kv", "local", "shm", "remote"}, sv' = [sv EXCEPT ![h] = to],
           UNCHANGED <<rank, infos, done, cl, pidfile>>, DOMAIN lkey' = Hosts, DOMAIN rkey' = Ranks,
           lau # "stopping" /\ to \in Named => lkey'[h] = "set", to \in Addressed => rkey'[rank[h]] = Published(h),
           \A g \in Hosts : g # h => lkey'[g] = lkey[g],
           \A r \in Ranks : r # rank[h] => rkey'[r] = rkey[r],
           \/ rkey'[rank[h]] = rkey[rank[h]] \/ (rkey'[rank[h]] = NoValue /\ setup.store = "fs")
           \/ rkey'[rank[h]] = Published(h)
    PROVE  StartInv'
<1>0. /\ StartShape /\ RanksGiven /\ Keys /\ Infos /\ Boot /\ NobodyFailed
      /\ sv[h] # "off" /\ \A g \in Hosts : rank[g] \in Ranks
  BY StartParts, Zenon
<1>1. /\ setup' = setup /\ launched' = launched /\ lau' = lau /\ hostfile' = hostfile /\ rank' = rank
      /\ infos' = infos /\ done' = done /\ cl' = cl /\ pidfile' = pidfile
  BY Zenon DEF Still
<1>2. /\ RanksGiven' /\ sv' \in [Hosts -> Stages] /\ sv'[h] = to /\ (\A g \in Hosts : g # h => sv'[g] = sv[g])
      /\ \A g \in Hosts, r \in Ranks : Holds(g, r)' <=> Holds(g, r)
      /\ \A g \in Hosts : Published(g)' = Published(g)
  BY <1>0, <1>1, RanksStay, Zenon DEF Stages, Named, Addressed
<1>3. StartShape' /\ NobodyFailed'
  BY <1>0, <1>1, <1>2, Zenon DEF StartShape, NobodyFailed
<1>4. Keys'
  <2>1. ASSUME NEW r \in Ranks
        PROVE  \/ rkey'[r] = NoAddr \/ (rkey'[r] = NoValue /\ setup.store = "fs")
               \/ \E g \in Hosts : Holds(g, r) /\ rkey'[r] = Published(g)
    <3>1. CASE r = rank[h]
      <4>1. Holds(h, r)
        BY <1>0, <3>1, Zenon DEF Holds
      <4>2. \/ rkey[r] = NoAddr \/ (rkey[r] = NoValue /\ setup.store = "fs")
            \/ \E g \in Hosts : Holds(g, r) /\ rkey[r] = Published(g)
        BY <1>0, Zenon DEF Keys
      <4>3. rkey'[r] = rkey[r] \/ (rkey'[r] = NoValue /\ setup.store = "fs") \/ rkey'[r] = Published(h)
        BY <3>1, Zenon
      <4> QED BY <4>1, <4>2, <4>3, Zenon
    <3>2. CASE r # rank[h]
      <4>1. \/ rkey[r] = NoAddr \/ (rkey[r] = NoValue /\ setup.store = "fs")
            \/ \E g \in Hosts : Holds(g, r) /\ rkey[r] = Published(g)
        BY <1>0, Zenon DEF Keys
      <4>2. rkey'[r] = rkey[r]
        BY <3>2, Zenon
      <4> QED BY <4>1, <4>2, Zenon
    <3> QED BY <3>1, <3>2, Zenon
  <2>2. ASSUME NEW g \in Hosts, g # h, sv[g] # "off" PROVE rank[g] # rank[h]
    BY <1>0, <2>2, OneHolds, Zenon DEF Holds
  <2>3. ASSUME NEW g \in Hosts, lau # "stopping"
        PROVE  /\ sv'[g] \in Named => lkey'[g] = "set"
               /\ sv'[g] \in Addressed => rkey'[rank[g]] = Published(g)
    <3>1. CASE g = h
      BY <1>2, <2>3, <3>1, Zenon
    <3>2. CASE g # h
      BY <1>0, <1>2, <2>2, <2>3, <3>2, Zenon DEF Keys, Named, Addressed, Connected
    <3> QED BY <3>1, <3>2, Zenon
  <2> QED BY <1>1, <1>2, <2>1, <2>3 DEF Keys
<1>5. Infos'
  <2>1. \A g \in Hosts : sv'[g] \in Connected =>
           \/ sv[g] \in Connected
           \/ Len(infos[g]) = NumHosts /\ (setup.lazy \/ \A i \in 1 .. NumHosts : infos[g][i] # NoAddr)
    BY <1>0, <1>1, <1>2, Zenon DEF Connected
  <2> QED BY <1>1, <1>2, <2>1, InfosKept, Zenon
<1>6. Boot'
  BY <1>0, <1>1, <1>2 DEF Boot, Booted, SeenReady
<1> QED BY <1>2, <1>3, <1>4, <1>5, <1>6, Zenon DEF StartInv

LEMMA KeysPublished ==
    ASSUME StartInv, NEW h \in Hosts, margo_server_rpc_init(h)
    PROVE  StartInv'
<1>0. DOMAIN lkey = Hosts /\ DOMAIN rkey = Ranks /\ rank[h] \in Ranks /\ Keys
  BY StartParts, Zenon DEF StartShape
<1>1. CASE setup_local_target(h)
  <2>1. Still /\ UNCHANGED <<rank, infos, done, cl, pidfile>> /\ rkey' = rkey
    BY <1>1, Zenon DEF setup_local_target, Still, lauVars, bootVars
  <2>2. \/ sv[h] = "kv" /\ sv' = [sv EXCEPT ![h] = "local"] /\ lkey' = [lkey EXCEPT ![h] = "empty"]
        \/ sv[h] = "local" /\ sv' = [sv EXCEPT ![h] = "shm"] /\ lkey' = [lkey EXCEPT ![h] = "set"]
    BY <1>1, Zenon DEF setup_local_target, rpc_publish_local_server_addr, unifyfs_keyval_publish_local,
                unifyfs_fskv_publish_local, Moves
  <2>3. PICK to \in {"local", "shm"} :
           /\ sv' = [sv EXCEPT ![h] = to] /\ DOMAIN lkey' = Hosts /\ (to = "shm" => lkey'[h] = "set")
           /\ \A g \in Hosts : g # h => lkey'[g] = lkey[g]
    BY <1>0, <2>2, Zenon
  <2>4. to \notin Addressed /\ (to \in Named => to = "shm") /\ sv[h] \in {"kv", "local"}
    BY <2>2, Zenon DEF Named, Addressed, Connected
  <2> QED BY <1>0, <2>1, <2>3, <2>4, KeyMove, Zenon
<1>2. CASE setup_remote_target(h)
  <2>1. Still /\ UNCHANGED <<rank, infos, done, cl, pidfile>> /\ lkey' = lkey
    BY <1>2, Zenon DEF setup_remote_target, Still, lauVars, bootVars
  <2>2. \/ /\ setup.store = "fs" /\ sv[h] = "shm" /\ sv' = [sv EXCEPT ![h] = "remote"]
           /\ rkey' = [rkey EXCEPT ![rank[h]] = NoValue]
        \/ /\ sv[h] \in {"shm", "remote"} /\ sv' = [sv EXCEPT ![h] = "rpc"]
           /\ rkey' = [rkey EXCEPT ![rank[h]] = Published(h)]
    BY <1>2, Zenon DEF setup_remote_target, rpc_publish_remote_server_addr, unifyfs_keyval_publish_remote,
                unifyfs_fskv_publish_remote, unifyfs_pmi2_publish, unifyfs_pmix_publish, Moves, Published, Address
  <2>3. PICK to \in {"remote", "rpc"} :
           /\ sv' = [sv EXCEPT ![h] = to] /\ DOMAIN rkey' = Ranks /\ (to = "rpc" => rkey'[rank[h]] = Published(h))
           /\ \A r \in Ranks : r # rank[h] => rkey'[r] = rkey[r]
           /\ (rkey'[rank[h]] = NoValue /\ setup.store = "fs") \/ rkey'[rank[h]] = Published(h)
    BY <1>0, <2>2, Zenon
  <2>4. (to \in Addressed => to = "rpc") /\ sv[h] \in {"shm", "remote"} /\ (lau # "stopping" => lkey[h] = "set")
    BY <1>0, <2>2, Zenon DEF Named, Addressed, Connected, Keys
  <2> QED BY <1>0, <2>1, <2>3, <2>4, KeyMove, Zenon
<1> QED BY <1>1, <1>2, Zenon DEF margo_server_rpc_init

\* What a lookup returns.
LEMMA Lookup ==
    ASSUME StartInv, NEW r \in Ranks
    PROVE  /\ margo_connect_server(r) = NoAddr \/ \E g \in Hosts : Holds(g, r) /\ margo_connect_server(r) = Address(g)
           /\ \A g \in Hosts : rkey[r] = Published(g) => margo_connect_server(r) = Address(g)
<1>0. Keys /\ setup.store \in Stores
  BY StartParts, Zenon
<1>1. /\ setup.store = "fs" => margo_connect_server(r) = IF rkey[r] = NoValue THEN NoAddr ELSE rkey[r]
      /\ setup.store = "pmi2" => margo_connect_server(r) = unifyfs_pmi2_lookup(rkey[r])
      /\ setup.store = "pmix" => margo_connect_server(r) = rkey[r]
  BY Zenon DEF margo_connect_server, rpc_lookup_remote_server_addr, unifyfs_keyval_lookup_remote,
         unifyfs_fskv_lookup_remote, unifyfs_pmix_lookup
<1>a. /\ NoAddr.sep # "!" /\ unifyfs_pmi2_lookup(NoAddr) = NoAddr
      /\ \A g \in Hosts : /\ Address(g) # NoValue
                         /\ unifyfs_pmi2_lookup([sep |-> "!", host |-> g]) = Address(g)
  BY Zenon DEF NoAddr, NoValue, unifyfs_pmi2_lookup, Address
<1>2. ASSUME NEW g \in Hosts, rkey[r] = Published(g) PROVE margo_connect_server(r) = Address(g)
  <2>1. CASE setup.store = "pmi2"
    BY <1>1, <1>2, <1>a, <2>1, Zenon DEF Published
  <2>2. CASE setup.store # "pmi2"
    <3>1. rkey[r] = Address(g) /\ rkey[r] # NoValue
      BY <1>2, <1>a, <2>2, Zenon DEF Published
    <3> QED BY <1>0, <1>1, <2>2, <3>1, Zenon DEF Stores
  <2> QED BY <2>1, <2>2, Zenon
<1>3. ASSUME rkey[r] = NoAddr \/ (rkey[r] = NoValue /\ setup.store = "fs") PROVE margo_connect_server(r) = NoAddr
  BY <1>0, <1>1, <1>3, <1>a, Zenon DEF Stores
<1> QED BY <1>0, <1>2, <1>3, Zenon DEF Keys

LEMMA ServerConnects ==
    ASSUME StartInv, NEW h \in Hosts, margo_connect_servers(h)
    PROVE  StartInv'
<1>0. /\ StartShape /\ RanksGiven /\ Keys /\ Infos /\ Boot /\ NobodyFailed /\ sv[h] = "connect"
      /\ infos \in [Hosts -> Seq(Addresses)] /\ NumHosts \in Nat
  BY StartParts, HostCount, Zenon DEF StartShape, margo_connect_servers
<1>1. Still /\ UNCHANGED <<rank, lkey, rkey, done, cl, pidfile>>
  BY Zenon DEF margo_connect_servers, Still, lauVars, keyVars, bootVars
<1>2. CASE ~(Len(infos[h]) < NumHosts)
  <2>1. infos' = infos /\ \/ sv' = [sv EXCEPT ![h] = "exited"]
                          \/ sv' = [sv EXCEPT ![h] = "boot"] /\ (setup.lazy \/ \A i \in 1 .. NumHosts : infos[h][i] # NoAddr)
    BY <1>2, Zenon DEF margo_connect_servers
  <2>2. Len(infos[h]) = NumHosts
    BY <1>0, <1>2 DEF Infos
  <2> QED BY <1>0, <1>1, <2>1, <2>2, PlainMove, Zenon DEF Boot, Booted, Stages, Named, Addressed, Connected
<1>3. CASE Len(infos[h]) < NumHosts
  <2> DEFINE k == Len(infos[h])
  <2>1. PICK a : infos' = [infos EXCEPT ![h] = Append(infos[h], a)] /\ sv' = sv
                 /\ a = IF setup.lazy THEN NoAddr ELSE margo_connect_server(k)
    BY <1>3, Zenon DEF margo_connect_servers
  <2>2. k \in Ranks /\ infos[h] \in Seq(Addresses) /\ k \in Nat
    BY <1>0, <1>3, HostCount
  <2>3. a = NoAddr \/ \E g \in Hosts : Holds(g, k) /\ a = Address(g)
    BY <2>1, <2>2, Lookup, Zenon
  <2>4. a \in Addresses
    BY <2>3, Zenon DEF Addresses
  <2>5. /\ Append(infos[h], a) \in Seq(Addresses) /\ Len(Append(infos[h], a)) = k + 1
        /\ Append(infos[h], a)[k + 1] = a /\ \A i \in 1 .. k : Append(infos[h], a)[i] = infos[h][i]
    BY <2>2, <2>4
  <2>6. /\ infos' \in [Hosts -> Seq(Addresses)] /\ (\A g \in Hosts : g # h => infos'[g] = infos[g])
        /\ Len(infos'[h]) = k + 1 /\ infos'[h][k + 1] = a /\ \A i \in 1 .. k : infos'[h][i] = infos[h][i]
    BY <1>0, <2>1, <2>5, Zenon
  <2>7. /\ setup' = setup /\ launched' = launched /\ lau' = lau /\ hostfile' = hostfile /\ rank' = rank /\ lkey' = lkey
        /\ rkey' = rkey /\ done' = done /\ cl' = cl /\ pidfile' = pidfile /\ sv' = sv
    BY <1>1, <2>1, Zenon DEF Still
  <2>8. /\ \A g, r : Holds(g, r)' <=> Holds(g, r)
        /\ \A g : GivenRank(g)' = GivenRank(g) /\ Published(g)' = Published(g)
    <3>1. \A g, r : Holds(g, r)' <=> Holds(g, r)
      BY <2>7, Zenon DEF Holds
    <3>2. setup' = setup /\ hostfile' = hostfile
      BY <2>7, Zenon
    <3> QED BY <3>1, <3>2, GivenStays, Zenon
  <2>9. RanksGiven' /\ Keys' /\ StartShape' /\ Boot' /\ NobodyFailed'
    <3>1. RanksGiven'
      BY <1>0, <2>7, <2>8, Zenon DEF RanksGiven, Nodes
    <3>2. Keys'
      <4>1. \A r \in Ranks :
               \/ rkey'[r] = NoAddr \/ (rkey'[r] = NoValue /\ setup'.store = "fs")
               \/ \E g \in Hosts : Holds(g, r)' /\ rkey'[r] = Published(g)'
        BY <1>0, <2>7, <2>8, RankKeysKept, Zenon
      <4>2. ASSUME NEW g \in Hosts, lau # "stopping"
            PROVE  /\ sv[g] \in Named => lkey[g] = "set"
                   /\ sv[g] \in Addressed => rkey[rank[g]] = Published(g)
        BY <1>0, <4>2, Zenon DEF Keys
      <4> QED BY <2>7, <2>8, <4>1, <4>2, Zenon DEF Keys
    <3>3. StartShape'
      BY <1>0, <2>6, <2>7, Zenon DEF StartShape
    <3>4. Boot' /\ NobodyFailed'
      BY <1>0, <2>7, Zenon DEF Boot, Booted, SeenReady, NobodyFailed
    <3> QED BY <3>1, <3>2, <3>3, <3>4, Zenon
  <2>10. ASSUME NEW g \in Hosts
         PROVE  /\ Len(infos'[g]) <= NumHosts
                /\ \A i \in 1 .. Len(infos'[g]) :
                      infos'[g][i] = NoAddr \/ \E f \in Hosts : Holds(f, i - 1) /\ infos'[g][i] = Address(f)
                /\ sv[g] \in Connected =>
                      Len(infos'[g]) = NumHosts /\ (setup.lazy \/ \A i \in 1 .. NumHosts : infos'[g][i] # NoAddr)
    <3>1. CASE g # h
      BY <1>0, <2>6, <3>1 DEF Infos
    <3>2. CASE g = h
      <4>1. sv[g] \notin Connected /\ k + 1 <= NumHosts
        <5>1. sv[g] \notin Connected
          BY <1>0, <3>2, Zenon DEF Connected
        <5>2. NumHosts \in Nat /\ k < NumHosts /\ k \in Nat
          BY <1>3, <2>2, HostCount, Zenon
        <5>3. k + 1 <= NumHosts
          <6> HIDE DEF k
          <6> QED BY <5>2
        <5> QED BY <5>1, <5>3, Zenon
      <4>2. ASSUME NEW i \in 1 .. k + 1
            PROVE  infos'[h][i] = NoAddr \/ \E f \in Hosts : Holds(f, i - 1) /\ infos'[h][i] = Address(f)
        <5>1. CASE i = k + 1
          <6>1. i - 1 = k
            <7> HIDE DEF k
            <7> QED BY <2>2, <5>1
          <6> QED BY <2>3, <2>6, <5>1, <6>1, Zenon
        <5>2. CASE i \in 1 .. k
          BY <1>0, <2>6, <5>2, Zenon DEF Infos
        <5>3. i = k + 1 \/ i \in 1 .. k
          <6> HIDE DEF k
          <6> QED BY <2>2
        <5> QED BY <5>1, <5>2, <5>3, Zenon
      <4> QED BY <2>6, <3>2, <4>1, <4>2, Zenon
    <3> QED BY <3>1, <3>2, Zenon
  <2> QED BY <2>7, <2>8, <2>9, <2>10, Zenon DEF StartInv, Infos
<1> QED BY <1>2, <1>3, Zenon

\* The broadcast: it reaches a server that waits, is over, or fails.
LEMMA BroadcastKeeps ==
    ASSUME StartInv, NEW h \in Hosts, unifyfs_invoke_broadcast_bootstrap_complete(h)
    PROVE  StartInv'
<1>0. /\ StartShape /\ RanksGiven /\ Keys /\ Infos /\ Boot /\ NobodyFailed /\ sv[h] = "bcast" /\ done \in [Hosts -> BOOLEAN]
  BY StartParts, Zenon DEF StartShape, unifyfs_invoke_broadcast_bootstrap_complete
<1>1. Still /\ UNCHANGED <<rank, lkey, rkey, infos, cl, pidfile>>
  BY Zenon DEF unifyfs_invoke_broadcast_bootstrap_complete, Still, lauVars, keyVars
<1>2. CASE \E g \in Hosts \ {h} : process_bootstrap_bcast_rpc(g) /\ UNCHANGED sv
  <2>1. PICK g \in Hosts : sv[g] = "await" /\ done' = [done EXCEPT ![g] = TRUE] /\ sv' = sv
    BY <1>2, Zenon DEF process_bootstrap_bcast_rpc, unifyfs_signal_bootstrap_complete
  <2>2. done' \in [Hosts -> BOOLEAN] /\ \A x \in Hosts : done'[x] <=> (done[x] \/ x = g)
    BY <1>0, <2>1, Zenon
  <2>3. /\ setup' = setup /\ launched' = launched /\ lau' = lau /\ hostfile' = hostfile /\ rank' = rank /\ lkey' = lkey
        /\ rkey' = rkey /\ infos' = infos /\ cl' = cl /\ pidfile' = pidfile /\ sv' = sv
    BY <1>1, <2>1, Zenon DEF Still
  <2>4. /\ \A x, r : Holds(x, r)' <=> Holds(x, r)
        /\ \A x : GivenRank(x)' = GivenRank(x) /\ Published(x)' = Published(x)
    BY <2>3 DEF Holds, GivenRank, process_servers_hostfile, Published, TaskRank
  <2>5. RanksGiven' /\ Keys' /\ StartShape' /\ Infos' /\ NobodyFailed'
    <3>1. RanksGiven'
      BY <1>0, <2>3, <2>4, Zenon DEF RanksGiven, Nodes
    <3>2. Keys' /\ NobodyFailed'
      BY <1>0, <2>3, <2>4, Zenon DEF Keys, NobodyFailed
    <3>3. Infos'
      BY <1>0, <2>3, <2>4, Zenon DEF Infos
    <3>4. StartShape'
      BY <1>0, <2>2, <2>3, Zenon DEF StartShape
    <3> QED BY <3>1, <3>2, <3>3, <3>4, Zenon
  <2>6. Boot'
    BY <1>0, <2>1, <2>2, <2>3, Zenon DEF Boot, Booted, SeenReady
  <2> QED BY <2>5, <2>6, Zenon DEF StartInv
<1>3. CASE (\A g \in Hosts \ {h} : done[g]) /\ sv' = [sv EXCEPT ![h] = "pids"] /\ UNCHANGED done
  BY <1>0, <1>1, <1>3, PlainMove, Zenon DEF Infos, Boot, Booted, Stages, Named, Addressed, Connected
<1>4. CASE sv' = [sv EXCEPT ![h] = "exited"] /\ UNCHANGED done
  BY <1>0, <1>1, <1>4, PlainMove, Zenon DEF Boot, Booted, Stages, Named, Addressed, Connected
<1> QED BY <1>2, <1>3, <1>4, Zenon DEF unifyfs_invoke_broadcast_bootstrap_complete

\* The pid file: when it is complete, the bootstrap is over everywhere.
LEMMA PidFileKeeps ==
    ASSUME StartInv, NEW h \in Hosts, create_server_pid_file(h)
    PROVE  StartInv'
<1>0. /\ StartShape /\ RanksGiven /\ Keys /\ Infos /\ Boot /\ NobodyFailed /\ NumHosts \in Nat \ {0}
      /\ sv[h] \in {"pids", "lines"} /\ \A g \in Hosts : done[g] \in BOOLEAN
  BY StartParts, HostCount, Zenon DEF create_server_pid_file, Moves
<1>1. /\ setup' = setup /\ launched' = launched /\ lau' = lau /\ hostfile' = hostfile /\ rank' = rank /\ lkey' = lkey
      /\ rkey' = rkey /\ infos' = infos /\ done' = done /\ cl' = cl
  BY Zenon DEF create_server_pid_file, keyVars, bootVars
<1>2. PICK to \in {"lines", "loop"} :
         sv' = [sv EXCEPT ![h] = to] /\ (to = "lines" => pidfile' = 0) /\ (to = "loop" => pidfile' = NumHosts)
  BY Zenon DEF create_server_pid_file, Moves
<1>3. /\ RanksGiven' /\ sv' \in [Hosts -> Stages] /\ sv'[h] = to /\ (\A g \in Hosts : g # h => sv'[g] = sv[g])
      /\ \A g \in Hosts, r \in Ranks : Holds(g, r)' <=> Holds(g, r)
      /\ \A g \in Hosts : Published(g)' = Published(g)
  BY <1>0, <1>1, <1>2, RanksStay, Zenon DEF Still, Stages, Named, Addressed, Connected
<1>4. StartShape' /\ NobodyFailed'
  BY <1>0, <1>1, <1>2, <1>3, Zenon DEF StartShape, NobodyFailed
<1>5. Keys'
  BY <1>0, <1>1, <1>3, Zenon DEF Keys, Named, Addressed, Connected
<1>6. Infos'
  <2>1. \A g \in Hosts : sv'[g] \in Connected =>
           \/ sv[g] \in Connected
           \/ Len(infos[g]) = NumHosts /\ (setup.lazy \/ \A i \in 1 .. NumHosts : infos[g][i] # NoAddr)
    BY <1>0, <1>1, <1>3, Zenon DEF Connected
  <2> QED BY <1>1, <1>3, <2>1, InfosKept, Zenon
<1>7. Boot'
  <2>1. CASE lau = "stopping"
    BY <1>0, <1>1, <2>1, Zenon DEF Boot
  <2>2. CASE lau # "stopping"
    <3>1. \A g \in Hosts : g # h => done[g] /\ sv[g] \in {"await", "loop"}
      BY <1>0, <2>2, Zenon DEF Boot
    <3>2. ~done[h] /\ ~SeenReady
      BY <1>0, <2>2, Zenon DEF Boot, Booted
    <3> QED BY <1>0, <1>1, <1>2, <1>3, <2>2, <3>1, <3>2, Zenon DEF Boot, Booted, SeenReady
  <2> QED BY <2>1, <2>2, Zenon
<1> QED BY <1>3, <1>4, <1>5, <1>6, <1>7, Zenon DEF StartInv

\* A server is stopped.  Its keys go.
LEMMA KeysRemoved ==
    ASSUME StartInv, NEW h \in Hosts, unifyfs_keyval_fini(h)
    PROVE  StartInv'
<1>0. /\ StartShape /\ RanksGiven /\ Keys /\ Infos /\ Boot /\ NobodyFailed /\ sv[h] = "loop" /\ lau = "stopping"
      /\ setup.store \in Stores /\ DOMAIN lkey = Hosts /\ DOMAIN rkey = Ranks /\ rank[h] \in Ranks
  BY StartParts, Zenon DEF unifyfs_keyval_fini, Moves, StartShape
<1>1. /\ setup' = setup /\ launched' = launched /\ lau' = lau /\ hostfile' = hostfile /\ rank' = rank
      /\ infos' = infos /\ done' = done /\ cl' = cl /\ pidfile' = pidfile /\ sv' = [sv EXCEPT ![h] = "final"]
  BY Zenon DEF unifyfs_keyval_fini, Moves, lauVars, bootVars
<1>2. /\ DOMAIN lkey' = Hosts /\ DOMAIN rkey' = Ranks /\ \A r \in Ranks : rkey'[r] = rkey[r] \/ rkey'[r] = NoAddr
  <2>1. lkey' = [lkey EXCEPT ![h] = "none"]
    BY Zenon DEF unifyfs_keyval_fini, unifyfs_fskv_fini
  <2>2. rkey' = rkey \/ rkey' = [rkey EXCEPT ![rank[h]] = NoAddr]
    BY <1>0, Zenon DEF unifyfs_keyval_fini, unifyfs_pmi2_fini, unifyfs_pmix_fini, Stores
  <2> QED BY <1>0, <2>1, <2>2, Zenon
<1>3. /\ RanksGiven' /\ sv' \in [Hosts -> Stages] /\ sv'[h] = "final" /\ (\A g \in Hosts : g # h => sv'[g] = sv[g])
      /\ \A g \in Hosts, r \in Ranks : Holds(g, r)' <=> Holds(g, r)
      /\ \A g \in Hosts : Published(g)' = Published(g)
  BY <1>0, <1>1, RanksStay, Zenon DEF Still, Stages
<1>4. StartShape' /\ NobodyFailed'
  BY <1>0, <1>1, <1>2, <1>3, Zenon DEF StartShape, NobodyFailed
<1>5. Keys' /\ Boot'
  BY <1>0, <1>1, <1>2, <1>3 DEF Keys, Boot
<1>6. Infos'
  <2>1. \A g \in Hosts : sv'[g] \in Connected =>
           \/ sv[g] \in Connected
           \/ Len(infos[g]) = NumHosts /\ (setup.lazy \/ \A i \in 1 .. NumHosts : infos[g][i] # NoAddr)
    BY <1>0, <1>1, <1>3, Zenon DEF Connected
  <2> QED BY <1>1, <1>3, <2>1, InfosKept, Zenon
<1> QED BY <1>3, <1>4, <1>5, <1>6, Zenon DEF StartInv

\* Steps that change no server.
LEMMA ServersStay ==
    ASSUME StartInv, UNCHANGED <<setup, sv, rank, lkey, rkey, infos, done>>, NobodyFailed', DOMAIN cl' = Hosts,
           lau' \in {"start", "wait", "stage", "up", "down", "stopping"}, lau' # "start" \/ lau' = lau,
           lau = "stopping" => lau' = "stopping",
           DOMAIN launched' = {"servers", "ranked", "stage", "status", "killed"},
           lau' # "start" => hostfile' = Nodes /\ launched'.servers = Hosts /\ launched'.ranked, pidfile' \in {-1, 0, NumHosts}, Boot'
    PROVE  StartInv'
<1>0. StartShape /\ RanksGiven /\ Keys /\ Infos /\ \A g \in Hosts : sv[g] # "off" => lau # "start"
  BY StartParts, Zenon
<1>1. /\ setup' = setup /\ rank' = rank /\ lkey' = lkey /\ rkey' = rkey /\ infos' = infos /\ done' = done /\ sv' = sv
  BY Zenon
<1>2. /\ \A x, r : Holds(x, r)' <=> Holds(x, r)
      /\ \A x : Published(x)' = Published(x)
      /\ Nodes' = Nodes
  BY <1>1, Zenon DEF Holds, Published, Nodes
<1>3. \A g \in Hosts : sv[g] # "off" => rank'[g] = GivenRank(g)'
  <2>1. ASSUME NEW g \in Hosts, sv[g] # "off" PROVE hostfile' = hostfile /\ rank[g] = GivenRank(g)
    BY <1>0, <2>1, Zenon DEF RanksGiven
  <2>2. ASSUME NEW g \in Hosts, hostfile' = hostfile PROVE GivenRank(g)' = GivenRank(g)
    BY <1>1, <2>2, GivenStays, Zenon
  <2> QED BY <1>1, <2>1, <2>2, Zenon
<1>4. RanksGiven'
  BY <1>0, <1>1, <1>2, <1>3, Zenon DEF RanksGiven
<1>5. Keys'
  <2>1. lau' # "stopping" => lau # "stopping"
    BY Zenon
  <2>2. ASSUME NEW g \in Hosts, lau # "stopping"
        PROVE  /\ sv[g] \in Named => lkey[g] = "set"
               /\ sv[g] \in Addressed => rkey[rank[g]] = Published(g)
    BY <1>0, <2>2, Zenon DEF Keys
  <2>3. \A r \in Ranks :
           \/ rkey'[r] = NoAddr \/ (rkey'[r] = NoValue /\ setup'.store = "fs")
           \/ \E g \in Hosts : Holds(g, r)' /\ rkey'[r] = Published(g)'
    BY <1>0, <1>1, <1>2, RankKeysKept, Zenon
  <2> QED BY <1>1, <1>2, <2>1, <2>2, <2>3, Zenon DEF Keys
<1>6. Infos'
  BY <1>1, <1>2, InfosKept, Zenon
<1>7. StartShape'
  BY <1>0, <1>1, Zenon DEF StartShape
<1> QED BY <1>4, <1>5, <1>6, <1>7, Zenon DEF StartInv

LEMMA LauncherKeeps ==
    ASSUME StartInv, Launcher \/ unifyfs_stop_servers
    PROVE  StartInv'
<1>0. /\ StartShape /\ RanksGiven /\ Boot /\ NobodyFailed /\ NumHosts \in Nat \ {0} /\ pidfile \in {-1, 0, NumHosts}
      /\ DOMAIN launched = {"servers", "ranked", "stage", "status", "killed"} /\ DOMAIN cl = Hosts
      /\ setup.stage \in BOOLEAN
  BY StartParts, HostCount, StartupAssumption, Zenon DEF StartShape, SetupsOK
<1>1. /\ UNCHANGED <<setup, sv, rank, lkey, rkey, infos, done>> /\ cl' = cl /\ setup' = setup /\ sv' = sv /\ done' = done
  BY Zenon DEF Launcher, unifyfs_start_servers, wait_server_initialization, wait_stage, unifyfs_stop_servers,
         keyVars, bootVars
<1>2. NobodyFailed' /\ DOMAIN cl' = Hosts
  BY <1>0, <1>1, Zenon DEF NobodyFailed
<1>3. CASE unifyfs_start_servers
  <2>1. lau = "start" /\ lau' = "wait" /\ hostfile' = Nodes /\ pidfile' = -1
    BY <1>3, Zenon DEF unifyfs_start_servers, write_hostfile, remove_server_pid_file
  <2>2. launched' = [launched EXCEPT !.servers = RunsOn(Nodes, LaunchOf(setup), "unifyfsd"),
                           !.ranked = OptionOf(LaunchOf(setup), "-H") = "share_hostfile"]
    BY <1>3, Zenon DEF unifyfs_start_servers, LaunchServers, LaunchOf, Nodes, NodesOf
  <2>3. RunsOn(Nodes, LaunchOf(setup), "unifyfsd") = Hosts /\ OptionOf(LaunchOf(setup), "-H") = "share_hostfile"
    BY <1>0, Zenon DEF StartShape, Launches, Nodes, NodesOf
  <2>4. DOMAIN launched' = {"servers", "ranked", "stage", "status", "killed"} /\ launched'.servers = Hosts /\ launched'.ranked
    BY <1>0, <2>2, <2>3, Zenon
  <2>5. Boot'
    BY <1>0, <1>1, <2>1 DEF Boot, Booted, SeenReady, RanksGiven
  <2> QED BY <1>1, <1>2, <2>1, <2>4, <2>5, ServersStay, Zenon
<1>4. CASE wait_server_initialization
  <2>1. /\ lau = "wait" /\ lau' \in {"stage", "up", "down"} /\ hostfile' = hostfile /\ pidfile' = pidfile
        /\ lau' = "stage" => setup.stage
        /\ lau' = "up" => ~setup.stage /\ pidfile = Len(hostfile)
        /\ setup.fault = "none" => pidfile > 0
    BY <1>0, <1>4, Zenon DEF wait_server_initialization, TimesOut
  <2>2. /\ DOMAIN launched' = {"servers", "ranked", "stage", "status", "killed"}
        /\ launched'.servers = launched.servers /\ launched'.ranked = launched.ranked
    <3>1. launched' = launched \/ \E x, y : launched' = [launched EXCEPT !.stage = x, !.status = y]
      BY <1>0, <1>4, Zenon DEF wait_server_initialization, LaunchStage
    <3> QED BY <1>0, <3>1, Zenon
  <2>3. Len(hostfile) = NumHosts /\ hostfile = Nodes /\ launched.servers = Hosts /\ launched.ranked
    BY <1>0, <2>1, Zenon DEF RanksGiven, StartShape, Launches, Nodes, NodesOf
  <2>4. Boot'
    BY <1>0, <1>1, <2>1, <2>3 DEF Boot, Booted, SeenReady
  <2> QED BY <1>0, <1>1, <1>2, <2>1, <2>2, <2>3, <2>4, ServersStay, Zenon
<1>5. CASE wait_stage
  <2>1. /\ lau = "stage" /\ lau' \in {"up", "down"} /\ hostfile' = hostfile /\ pidfile' = pidfile /\ launched' = launched
    BY <1>5, Zenon DEF wait_stage
  <2>2. hostfile = Nodes /\ launched.servers = Hosts /\ launched.ranked
    BY <1>0, <2>1, Zenon DEF RanksGiven
  <2>3. Boot'
    BY <1>0, <1>1, <2>1 DEF Boot, Booted, SeenReady
  <2> QED BY <1>0, <1>1, <1>2, <2>1, <2>2, <2>3, ServersStay, Zenon
<1>6. CASE unifyfs_stop_servers
  <2>1. /\ lau = "up" /\ lau' = "stopping" /\ hostfile' = hostfile /\ pidfile' = pidfile
        /\ \E x : launched' = [launched EXCEPT !.killed = x]
    BY <1>6, Zenon DEF unifyfs_stop_servers, LaunchKill
  <2>2. /\ DOMAIN launched' = {"servers", "ranked", "stage", "status", "killed"}
        /\ launched'.servers = launched.servers /\ launched'.ranked = launched.ranked
    BY <1>0, <2>1, Zenon
  <2>3. hostfile = Nodes /\ launched.servers = Hosts /\ launched.ranked
    BY <1>0, <2>1, Zenon DEF RanksGiven
  <2>4. Boot'
    BY <2>1, Zenon DEF Boot
  <2> QED BY <1>0, <1>1, <1>2, <2>1, <2>2, <2>3, <2>4, ServersStay, Zenon
<1> QED BY <1>3, <1>4, <1>5, <1>6, Zenon DEF Launcher

\* Clients look for their servers when these are ready.
LEMMA ClientsKeep ==
    ASSUME StartInv, StageProgram \/ \E h \in Hosts : Mount(h)
    PROVE  StartInv'
<1>0. /\ StartShape /\ RanksGiven /\ Keys /\ Boot /\ NobodyFailed /\ pidfile \in {-1, 0, NumHosts} /\ DOMAIN cl = Hosts
      /\ DOMAIN launched = {"servers", "ranked", "stage", "status", "killed"} /\ lau \in {"stage", "up"}
      /\ hostfile = Nodes /\ launched.servers = Hosts /\ launched.ranked
  BY StartParts, Zenon DEF StartShape, RanksGiven, StageProgram, Mount
<1>1. /\ UNCHANGED <<setup, sv, rank, lkey, rkey, infos, done>> /\ setup' = setup /\ sv' = sv /\ done' = done
      /\ lau' = lau /\ hostfile' = hostfile /\ pidfile' = pidfile /\ launched' = launched
  BY Zenon DEF StageProgram, Mount, lauVars, keyVars, bootVars
<1>2. Boot'
  BY <1>0, <1>1 DEF Boot, Booted, SeenReady
<1>3. DOMAIN cl' = Hosts /\ NobodyFailed'
  <2>1. CASE StageProgram
    BY <1>0, <1>1, <2>1, Zenon DEF StageProgram, NobodyFailed
  <2>2. ASSUME NEW h \in Hosts, Mount(h) PROVE DOMAIN cl' = Hosts /\ NobodyFailed'
    <3>1. setup.fault = "none" => Booted(h) /\ lkey[h] = "set"
      BY <1>0, Zenon DEF Boot, SeenReady, Keys, Booted, Named, Addressed, Connected
    <3>2. setup.fault = "none" => rpc_lookup_local_server_addr(h) /\ Ready(h)
      BY <3>1, Zenon DEF Booted, Ready, rpc_lookup_local_server_addr, unifyfs_keyval_lookup_local, unifyfs_fskv_lookup_local
    <3>3. cl' = [cl EXCEPT ![h] = IF rpc_lookup_local_server_addr(h) /\ Ready(h) THEN "mounted" ELSE "failed"]
      BY <2>2, Zenon DEF Mount
    <3> QED BY <1>0, <1>1, <3>2, <3>3, Zenon DEF NobodyFailed
  <2> QED BY <2>1, <2>2, Zenon
<1> QED BY <1>0, <1>1, <1>2, <1>3, ServersStay, Zenon

LEMMA StartInits ==
    ASSUME StartInit
    PROVE  StartInv
<1>1. NumHosts \in Nat \ {0} /\ 0 \in Ranks
  BY HostCount, Zenon
<1>2. StartShape
  BY <1>1, LaunchAssumption DEF StartInit, StartShape, Stages
<1>3. RanksGiven /\ NobodyFailed
  BY Zenon DEF StartInit, RanksGiven, NobodyFailed
<1>4. Keys
  BY Zenon DEF StartInit, Keys, Named, Addressed, Connected
<1>5. Infos
  BY <1>1 DEF StartInit, Infos, Connected
<1>6. Boot
  BY Zenon DEF StartInit, Boot, Booted, SeenReady
<1> QED BY <1>2, <1>3, <1>4, <1>5, <1>6, Zenon DEF StartInv

LEMMA StartSteps ==
    ASSUME StartInv, [StartNext]_startVars
    PROVE  StartInv'
<1>1. CASE UNCHANGED startVars
  <2>1. /\ UNCHANGED <<setup, sv, rank, lkey, rkey, infos, done>> /\ setup' = setup /\ sv' = sv /\ done' = done /\ cl' = cl
        /\ lau' = lau /\ hostfile' = hostfile /\ pidfile' = pidfile /\ launched' = launched
    BY <1>1, Zenon DEF startVars
  <2>2. Boot' /\ NobodyFailed'
    BY <2>1, StartParts, Zenon DEF Boot, Booted, SeenReady, NobodyFailed
  <2> QED BY <2>1, <2>2, StartParts, ServersStay, Zenon DEF StartShape, RanksGiven
<1>2. CASE \E h \in Hosts : Server(h) \/ DieEarly(h)
  BY <1>2, ServerMoves, RankGiven, KeysPublished, ServerConnects, BroadcastKeeps, PidFileKeeps, KeysRemoved, Zenon DEF Server
<1>3. CASE Launcher \/ unifyfs_stop_servers
  BY <1>3, LauncherKeeps, Zenon
<1>4. CASE StageProgram \/ \E h \in Hosts : Mount(h)
  BY <1>4, ClientsKeep, Zenon
<1> QED BY <1>1, <1>2, <1>3, <1>4, Zenon DEF StartNext

LEMMA StartImplies == ASSUME StartInv PROVE StartTruthful
<1>0. /\ StartShape /\ RanksGiven /\ Keys /\ Infos /\ Boot /\ NobodyFailed /\ NumHosts \in Nat
      /\ setup.lazy \in BOOLEAN /\ setup.stage \in BOOLEAN
  BY StartParts, HostCount, StartupAssumption, Zenon DEF StartShape, SetupsOK
<1>1. ASSUME lau = "up", ~(setup.stage /\ setup.fault # "none"), NEW h \in Hosts, NEW r \in Ranks
      PROVE  Booted(h) /\ \E g \in Hosts : rank[g] = r /\ get_margo_server_address(h, r) = Address(g)
  <2>1. \A g \in Hosts : Booted(g) /\ sv[g] \in Connected
    BY <1>0, <1>1, Zenon DEF Boot, SeenReady, Booted, Connected
  <2>2. PICK g \in Hosts : rank[g] = r /\ Holds(g, r)
    BY <1>0, <1>1, <2>1, Ranking DEF RanksGiven, Holds, Connected
  <2>3. rkey[r] = Published(g)
    BY <1>0, <1>1, <2>1, <2>2, Zenon DEF Keys, Addressed
  <2>4. margo_connect_server(r) = Address(g)
    BY <2>3, Lookup, Zenon
  <2>5. r + 1 \in 1 .. Len(infos[h]) /\ (r + 1) - 1 = r
    BY <1>0, <2>1, HostCount DEF Infos
  <2>6. ASSUME NEW k \in Hosts, Holds(k, r) PROVE k = g
    BY <2>2, <2>6, OneHolds, Zenon DEF Holds
  <2>7. CASE infos[h][r + 1] = NoAddr
    BY <1>0, <2>1, <2>2, <2>4, <2>5, <2>7, Zenon DEF Infos, get_margo_server_address
  <2>8. CASE infos[h][r + 1] # NoAddr
    BY <1>0, <2>1, <2>2, <2>5, <2>6, <2>8, Zenon DEF Infos, get_margo_server_address
  <2> QED BY <2>1, <2>7, <2>8, Zenon
<1>2. \E r \in Ranks : TRUE
  BY HostCount, Zenon
<1> QED BY <1>0, <1>1, <1>2, Zenon DEF StartTruthful, Booted, NobodyFailed

\* `unifyfs start` tells the truth (unifyfs_start_servers, wait_server_initialization):
\* when it reports success the bootstrap is over at every server and every server
\* finds each rank at the server that has it; and in a job without a fault no client
\* fails to find its server.  This holds for every number of nodes, each key-value
\* store, lazy connect or not, and whatever server dies or fence ends early, when the
\* launch command starts one server on each node; as StartTruthful says, not of a start
\* with a fault that also stages files in.
THEOREM StartIsTruthful ==
    StartInit /\ [][StartNext]_startVars => []StartTruthful
<1>1. StartInit => StartInv
  BY StartInits, Zenon
<1>2. StartInv /\ [StartNext]_startVars => StartInv'
  BY StartSteps, Zenon
<1>3. StartInv => StartTruthful
  BY StartImplies, Zenon
<1> QED BY <1>1, <1>2, <1>3, PTL
=============================================================================
