---------------------------- MODULE TSQueueProofs ----------------------------
(***************************************************************************)
(* Theorems about TSQueue for every set of threads, capacity and bound.    *)
(***************************************************************************)
EXTENDS TSQueue, SequenceTheorems, FiniteSetTheorems, TLAPS

(* Moving the head of one sequence to the end of another keeps their       *)
(* concatenation: the shape of pop().                                      *)
LEMMA MoveHead ==
  ASSUME NEW S, NEW d \in Seq(S), NEW q \in Seq(S), q # <<>>
  PROVE  Append(d, Head(q)) \o Tail(q) = d \o q
<1>1. /\ Head(q) \in S /\ Tail(q) \in Seq(S) /\ Len(Tail(q)) = Len(q) - 1
      /\ Len(q) \in Nat \ {0}
      /\ \A i \in 1..Len(Tail(q)) : Tail(q)[i] = q[i + 1]
  BY HeadTailProperties, EmptySeq
<1>2. /\ Append(d, Head(q)) \in Seq(S)
      /\ Len(Append(d, Head(q))) = Len(d) + 1
      /\ \A i \in 1..Len(d) : Append(d, Head(q))[i] = d[i]
      /\ Append(d, Head(q))[Len(d) + 1] = q[1]
  BY <1>1, AppendProperties, Head(q) = q[1]
<1> DEFINE l == Append(d, Head(q)) \o Tail(q)
           r == d \o q
<1>3. /\ l \in Seq(S) /\ Len(l) = Len(d) + Len(q)
      /\ \A i \in 1..Len(d) + Len(q) :
           l[i] = IF i <= Len(d) + 1 THEN Append(d, Head(q))[i] ELSE Tail(q)[i - (Len(d) + 1)]
  BY <1>1, <1>2, LenProperties, ConcatProperties
<1>4. /\ r \in Seq(S) /\ Len(r) = Len(d) + Len(q)
      /\ \A i \in 1..Len(d) + Len(q) : r[i] = IF i <= Len(d) THEN d[i] ELSE q[i - Len(d)]
  BY <1>1, LenProperties, ConcatProperties
<1>5. ASSUME NEW i \in 1..Len(l) PROVE l[i] = r[i]
  <2>0. Len(d) \in Nat /\ Len(q) \in Nat /\ i \in 1..Len(d) + Len(q)
    BY <1>1, <1>3, LenProperties
  <2>1. CASE i <= Len(d) BY <2>0, <2>1, <1>2, <1>3, <1>4
  <2>2. CASE i = Len(d) + 1
    <3>1. l[i] = q[1] BY <2>0, <2>2, <1>2, <1>3
    <3>2. r[i] = q[1] BY <2>0, <2>2, <1>4
    <3> QED BY <3>1, <3>2
  <2>3. CASE i > Len(d) + 1
    <3> DEFINE j == i - (Len(d) + 1)
    <3>1. j \in 1..Len(Tail(q)) /\ j + 1 = i - Len(d) BY <2>0, <2>3, <1>1
    <3>2. l[i] = Tail(q)[j] BY <2>0, <2>3, <1>3
    <3>3. Tail(q)[j] = q[i - Len(d)] BY <3>1, <1>1
    <3>4. r[i] = q[i - Len(d)] BY <2>0, <2>3, <1>4
    <3> QED BY <3>2, <3>3, <3>4
  <2> QED BY <2>0, <2>1, <2>2, <2>3
<1> QED BY <1>3, <1>4, <1>5, SeqEqual

(* Appending to the second of two sequences appends to their concatenation: *)
(* the shape of push().                                                     *)
LEMMA AppendToBack ==
  ASSUME NEW S, NEW d \in Seq(S), NEW q \in Seq(S), NEW e \in S
  PROVE  d \o Append(q, e) = Append(d \o q, e)
<1>1. <<e>> \in Seq(S) /\ d \o q \in Seq(S)
  BY ConcatProperties
<1>2. Append(q, e) = q \o <<e>> /\ Append(d \o q, e) = (d \o q) \o <<e>>
  BY <1>1, AppendIsConcat
<1> QED BY <1>1, <1>2, ConcatAssociative

-----------------------------------------------------------------------------
LEMMA TypeInit == Init => TypeOK
<1>1. <<>> \in Seq(Nat) /\ Len(<<>>) = 0
  BY EmptySeq
<1> SUFFICES ASSUME Init PROVE TypeOK
  OBVIOUS
<1>2. queue \in Seq(Nat) /\ accepted \in Seq(Nat) /\ delivered \in Seq(Nat) /\ Len(queue) = 0
  BY <1>1 DEF Init
<1>3. /\ closed \in BOOLEAN /\ pc \in [Threads -> PC] /\ pushes \in Nat
      /\ op \in [Threads -> PushOps \cup PopOps \cup {"close", "none"}]
      /\ item \in [Producers -> Nat] /\ result \in [Threads -> {"none", "ok", "fail"}]
  BY DEF Init, PC
<1> QED BY <1>2, <1>3, TSQueueAssumption DEF TypeOK

LEMMA TypeStep == TypeOK /\ [Next]_vars => TypeOK'
<1> SUFFICES ASSUME TypeOK, [Next]_vars PROVE TypeOK'
  OBVIOUS
<1> USE TSQueueAssumption
<1>1. ASSUME NEW p \in Producers, CallPush(p) PROVE TypeOK'
  BY <1>1 DEF TypeOK, CallPush, Call, Goto, PC, Threads
<1>2. ASSUME NEW p \in Producers, PushWait(p) PROVE TypeOK'
  BY <1>2 DEF TypeOK, PushWait, Goto, PC
<1>3. ASSUME NEW p \in Producers, PushRefused(p) PROVE TypeOK'
  BY <1>3 DEF TypeOK, PushRefused, Return, Goto, PC
<1>4. ASSUME NEW p \in Producers, PushItem(p) PROVE TypeOK'
  <2>1. item[p] \in Nat BY <1>4 DEF TypeOK, Threads
  <2>2. queue' \in Seq(Nat) /\ accepted' \in Seq(Nat) /\ Len(queue') = Len(queue) + 1
    BY <1>4, <2>1, AppendProperties DEF TypeOK, PushItem
  <2>3. Len(queue') <= Capacity
    BY <1>4, <2>2, LenProperties DEF TypeOK, PushItem
  <2>4. pc' \in [Threads -> PC]
    BY <1>4 DEF TypeOK, PushItem, Goto, PC
  <2> QED BY <1>4, <2>2, <2>3, <2>4 DEF TypeOK, PushItem
<1>5. ASSUME NEW c \in Consumers, CallPop(c) PROVE TypeOK'
  BY <1>5, ZenonT(20) DEF TypeOK, CallPop, Call, Goto, PC
<1>6. ASSUME NEW c \in Consumers, PopWait(c) PROVE TypeOK'
  BY <1>6 DEF TypeOK, PopWait, Goto, PC
<1>7. ASSUME NEW c \in Consumers, PopItem(c) PROVE TypeOK'
  <2>1. /\ Head(queue) \in Nat /\ queue' \in Seq(Nat) /\ Len(queue') = Len(queue) - 1
    BY <1>7, HeadTailProperties DEF TypeOK, PopItem
  <2>2. delivered' \in Seq(Nat)
    BY <1>7, <2>1, AppendProperties DEF TypeOK, PopItem
  <2>3. Len(queue') <= Capacity BY <2>1, LenProperties DEF TypeOK
  <2> QED BY <1>7, <2>1, <2>2, <2>3 DEF TypeOK, PopItem, Goto, PC
<1>8. ASSUME NEW c \in Consumers, PopNone(c) PROVE TypeOK'
  BY <1>8 DEF TypeOK, PopNone, Return, Goto, PC
<1>9. ASSUME NEW c \in Consumers, PopTimeout(c) PROVE TypeOK'
  BY <1>9 DEF TypeOK, PopTimeout, Goto, PC
<1>10. ASSUME NEW k \in Closers, CallClose(k) PROVE TypeOK'
  BY <1>10 DEF TypeOK, CallClose, Call, Goto, PC
<1>11. ASSUME NEW k \in Closers, CloseSet(k) PROVE TypeOK'
  BY <1>11 DEF TypeOK, CloseSet, Goto, PC
<1>12. ASSUME NEW k \in Closers, CloseWakeEmpty(k) PROVE TypeOK'
  BY <1>12 DEF TypeOK, CloseWakeEmpty, NotifyAll, PC
<1>13. ASSUME NEW k \in Closers, CloseWakeFull(k) PROVE TypeOK'
  BY <1>13 DEF TypeOK, CloseWakeFull, NotifyAll, PC
<1>14. ASSUME NEW t \in Threads, NEW W \in SUBSET Threads, NotifyOne(t, W) PROVE TypeOK'
  BY <1>14 DEF TypeOK, NotifyOne, Goto, PC
<1>15. ASSUME NEW t \in Threads, SpuriousWake(t) PROVE TypeOK'
  BY <1>15 DEF TypeOK, SpuriousWake, Goto, PC
<1>16. ASSUME UNCHANGED vars PROVE TypeOK'
  BY <1>16 DEF TypeOK, vars
<1>17. NotEmptyWaiters \in SUBSET Threads /\ NotFullWaiters \in SUBSET Threads
  BY DEF NotEmptyWaiters, NotFullWaiters, Threads
<1> QED
  BY <1>1, <1>2, <1>3, <1>4, <1>5, <1>6, <1>7, <1>8, <1>9, <1>10, <1>11, <1>12, <1>13,
     <1>14, <1>15, <1>16, <1>17
     DEF Next, PushStep, PopStep, CloseStep, PushNotify, PopNotify, Threads

(* The state of every reachable queue is well formed, and queue_ never      *)
(* holds more than capacity_ items.                                         *)
THEOREM TypeCorrect == Spec => []TypeOK
BY TypeInit, TypeStep, PTL DEF Spec

-----------------------------------------------------------------------------
LEMMA OrderStep == TypeOK /\ ExactlyOnceInOrder /\ [Next]_vars => ExactlyOnceInOrder'
<1> SUFFICES ASSUME TypeOK, ExactlyOnceInOrder, [Next]_vars PROVE ExactlyOnceInOrder'
  OBVIOUS
<1>1. ASSUME NEW p \in Producers, PushItem(p) PROVE ExactlyOnceInOrder'
  <2>1. item[p] \in Nat BY DEF TypeOK
  <2>2. delivered \o Append(queue, item[p]) = Append(delivered \o queue, item[p])
    BY <2>1, AppendToBack DEF TypeOK
  <2> QED BY <1>1, <2>2 DEF PushItem, ExactlyOnceInOrder
<1>2. ASSUME NEW c \in Consumers, PopItem(c) PROVE ExactlyOnceInOrder'
  <2>1. Append(delivered, Head(queue)) \o Tail(queue) = delivered \o queue
    BY <1>2, MoveHead DEF TypeOK, PopItem
  <2> QED BY <1>2, <2>1 DEF PopItem, ExactlyOnceInOrder
<1>3. ASSUME UNCHANGED <<queue, accepted, delivered>> PROVE ExactlyOnceInOrder'
  BY <1>3 DEF ExactlyOnceInOrder
<1>4. \/ \E p \in Producers : PushItem(p)
      \/ \E c \in Consumers : PopItem(c)
      \/ UNCHANGED <<queue, accepted, delivered>>
  BY DEF Next, vars, PushStep, PopStep, CloseStep, CallPush, CallPop, CallClose, Call,
         PushWait, PushRefused, PushNotify, PopWait, PopNone, PopNotify, PopTimeout,
         NotifyOne, CloseSet, CloseWakeEmpty, CloseWakeFull, NotifyAll, SpuriousWake
<1> QED BY <1>1, <1>2, <1>3, <1>4

(* No interleaving of push, pop and close loses, duplicates or reorders an  *)
(* item.                                                                    *)
THEOREM FIFO == Spec => []ExactlyOnceInOrder
<1>1. Init => ExactlyOnceInOrder
  BY ConcatEmptySeq, EmptySeq DEF Init, ExactlyOnceInOrder
<1> QED BY <1>1, TypeCorrect, OrderStep, PTL DEF Spec

(* isClosed() never goes back to false: the consumer loops that leave on    *)
(* closed-and-drained leave nothing behind.                                 *)
THEOREM ClosedIsFinal == Spec => ClosedStaysDrained
<1>1. ASSUME TypeOK, [Next]_vars, IsClosed PROVE IsClosed'
  <2>1. ~ \E p \in Producers : PushItem(p)
    BY <1>1 DEF PushItem, IsClosed
  <2>2. ~ \E c \in Consumers : PopItem(c)
    BY <1>1 DEF PopItem, IsClosed
  <2> QED
    BY <1>1, <2>1, <2>2
       DEF IsClosed, Next, vars, PushStep, PopStep, CloseStep, CallPush, CallPop, CallClose,
           Call, PushWait, PushRefused, PushNotify, PopWait, PopNone, PopNotify, PopTimeout,
           NotifyOne, CloseSet, CloseWakeEmpty, CloseWakeFull, NotifyAll, SpuriousWake
<1> QED BY <1>1, TypeCorrect, PTL DEF Spec, ClosedStaysDrained

-----------------------------------------------------------------------------
(***************************************************************************)
(* TSQueue implements the channel.                                         *)
(***************************************************************************)

(* Which operation a thread inside one can be in. *)
OpMatchesRole ==
  /\ \A p \in Producers : pc[p] # "idle" => op[p] \in PushOps
  /\ \A c \in Consumers : /\ pc[c] # "idle" => op[c] \in PopOps
                          /\ pc[c] = "expired" => op[c] = "pop_for"
  /\ \A k \in Closers : pc[k] # "idle" => op[k] = "close"
  /\ \A t \in Threads : pc[t] = "waiting" => t \notin Closers

RInv == TypeOK /\ ExactlyOnceInOrder /\ OpMatchesRole

LEMMA RoleStep == TypeOK /\ OpMatchesRole /\ [Next]_vars => OpMatchesRole'
<1> SUFFICES ASSUME TypeOK, OpMatchesRole, [Next]_vars PROVE OpMatchesRole'
  OBVIOUS
<1> USE TSQueueAssumption DEF Threads, PushOps, PopOps
<1>0. pc \in [Threads -> PC] /\ DOMAIN op = Threads
  BY DEF TypeOK
<1>1. ASSUME NEW p \in Producers, CallPush(p) PROVE OpMatchesRole'
  BY <1>0, <1>1 DEF OpMatchesRole, CallPush, Call, Goto
<1>2. ASSUME NEW c \in Consumers, CallPop(c) PROVE OpMatchesRole'
  BY <1>0, <1>2 DEF OpMatchesRole, CallPop, Call, Goto
<1>3. ASSUME NEW k \in Closers, CallClose(k) PROVE OpMatchesRole'
  BY <1>0, <1>3 DEF OpMatchesRole, CallClose, Call, Goto
<1>4. ASSUME NEW p \in Producers, PushStep(p) PROVE OpMatchesRole'
  <2>1. ASSUME PushNotify(p) PROVE OpMatchesRole'
    BY <1>0, <2>1 DEF OpMatchesRole, PushNotify, NotifyOne, Goto, NotEmptyWaiters
  <2>2. CASE PushWait(p) BY <1>0, <2>2 DEF OpMatchesRole, PushWait, Goto
  <2>3. CASE PushRefused(p) BY <1>0, <2>3 DEF OpMatchesRole, PushRefused, Return, Goto
  <2>4. CASE PushItem(p) BY <1>0, <2>4 DEF OpMatchesRole, PushItem, Goto
  <2> QED BY <1>4, <2>1, <2>2, <2>3, <2>4 DEF PushStep
<1>5. ASSUME NEW c \in Consumers, PopStep(c) PROVE OpMatchesRole'
  <2>1. ASSUME PopNotify(c) PROVE OpMatchesRole'
    BY <1>0, <2>1 DEF OpMatchesRole, PopNotify, NotifyOne, Goto, NotFullWaiters
  <2>2. CASE PopWait(c) BY <1>0, <2>2 DEF OpMatchesRole, PopWait, Goto
  <2>3. CASE PopNone(c) BY <1>0, <2>3 DEF OpMatchesRole, PopNone, Return, Goto
  <2>4. CASE PopItem(c) BY <1>0, <2>4 DEF OpMatchesRole, PopItem, Goto
  <2> QED BY <1>5, <2>1, <2>2, <2>3, <2>4 DEF PopStep
<1>6. ASSUME NEW k \in Closers, CloseStep(k) PROVE OpMatchesRole'
  BY <1>0, <1>6 DEF OpMatchesRole, CloseStep, CloseSet, CloseWakeEmpty, CloseWakeFull,
                    NotifyAll, Goto, NotEmptyWaiters, NotFullWaiters
<1>7. ASSUME NEW c \in Consumers, PopTimeout(c) PROVE OpMatchesRole'
  BY <1>0, <1>7 DEF OpMatchesRole, PopTimeout, Goto
<1>8. ASSUME NEW t \in Threads, SpuriousWake(t) PROVE OpMatchesRole'
  BY <1>0, <1>8 DEF OpMatchesRole, SpuriousWake, Goto
<1>9. ASSUME UNCHANGED vars PROVE OpMatchesRole'
  BY <1>9 DEF OpMatchesRole, vars
<1> QED BY <1>1, <1>2, <1>3, <1>4, <1>5, <1>6, <1>7, <1>8, <1>9 DEF Next

LEMMA InFlight ==
  ASSUME RInv
  PROVE  /\ Len(accepted) - Len(delivered) = Len(queue)
         /\ Len(accepted) \in Nat /\ Len(delivered) \in Nat /\ Len(queue) \in Nat
         /\ queue = <<>> <=> Len(delivered) = Len(accepted)
         /\ queue # <<>> => Head(queue) = accepted[Len(delivered) + 1]
<1>1. queue \in Seq(Nat) /\ delivered \in Seq(Nat) /\ accepted = delivered \o queue
  BY DEF RInv, TypeOK, ExactlyOnceInOrder
<1>2. /\ Len(queue) \in Nat /\ Len(delivered) \in Nat
      /\ Len(accepted) = Len(delivered) + Len(queue)
      /\ \A i \in 1..Len(delivered) + Len(queue) :
            accepted[i] = IF i <= Len(delivered) THEN delivered[i] ELSE queue[i - Len(delivered)]
  BY <1>1, LenProperties, ConcatProperties
<1>3. queue = <<>> <=> Len(queue) = 0
  BY <1>1, EmptySeq
<1>4. ASSUME queue # <<>> PROVE Head(queue) = accepted[Len(delivered) + 1]
  <2>1. Len(queue) >= 1 BY <1>2, <1>3, <1>4
  <2>2. accepted[Len(delivered) + 1] = queue[1] BY <1>2, <2>1
  <2> QED BY <2>2, Head(queue) = queue[1]
<1> QED BY <1>2, <1>3, <1>4

(* Moving one thread moves the abstract operation of that thread alone. *)
LEMMA PendingMoves ==
  ASSUME TypeOK, NEW t \in Threads, NEW l \in PC, Goto(t, l), op' = op
  PROVE  Pending' = [Pending EXCEPT ![t] =
                       IF l \in {"enter", "waiting", "expired"} THEN op[t] ELSE "none"]
BY DEF TypeOK, Goto, Pending

(* A wake-up is invisible to the channel. *)
LEMMA PendingKept ==
  ASSUME TypeOK, op' = op, pc' \in [Threads -> PC],
         \A t \in Threads : pc[t] \in {"enter", "waiting", "expired"}
                        <=> pc'[t] \in {"enter", "waiting", "expired"}
  PROVE  Pending' = Pending
BY DEF TypeOK, Pending

LEMMA RefineStep == RInv /\ RInv' /\ [Next]_vars => [Channel!ChanNext]_(Channel!chanVars)
<1> SUFFICES ASSUME RInv, RInv', [Next]_vars PROVE [Channel!ChanNext]_(Channel!chanVars)
  OBVIOUS
<1> USE DEF Threads
<1>a. TypeOK /\ OpMatchesRole /\ pc' \in [Threads -> PC]
  BY DEF RInv, TypeOK
<1>b. \A l \in PC : l \in {"idle", "enter", "waiting", "expired", "notify", "wakeEmpty", "wakeFull"}
  BY DEF PC
<1>c. /\ queue = <<>> <=> Channel!Drained
      /\ Len(queue) >= Capacity <=> Channel!Full
  BY InFlight, TSQueueAssumption DEF Channel!Drained, Channel!Full
<1> DEFINE Hidden == UNCHANGED Channel!chanVars
<1>1. ASSUME NEW t \in Threads, NEW o, Call(t, o) PROVE Channel!Begin(t, o)
  <2>1. Pending[t] = "none" BY <1>1 DEF Call, Pending
  <2>2. Pending' = [Pending EXCEPT ![t] = o]
    BY <1>a, <1>1 DEF Call, Goto, Pending, TypeOK
  <2> QED BY <1>1, <2>1, <2>2 DEF Call, Channel!Begin
<1>2. ASSUME NEW p \in Producers, CallPush(p) PROVE Channel!BeginPush(p)
  <2>1. \E o \in PushOps : Channel!Begin(p, o) BY <1>1, <1>2 DEF CallPush
  <2>2. item' = [item EXCEPT ![p] = item'[p]] /\ item'[p] \in Nat
    BY <1>a, <1>2 DEF CallPush, TypeOK
  <2> QED BY <2>1, <2>2 DEF Channel!BeginPush, Channel!PushOps, PushOps
<1>3. ASSUME NEW c \in Consumers, CallPop(c) PROVE Channel!BeginPop(c)
  BY <1>1, <1>3 DEF CallPop, Channel!BeginPop, Channel!PopOps, PopOps
<1>4. ASSUME NEW k \in Closers, CallClose(k) PROVE Channel!BeginClose(k)
  BY <1>1, <1>4 DEF CallClose, Channel!BeginClose
<1>5. ASSUME NEW p \in Producers, PushItem(p) PROVE Channel!Accept(p)
  <2>1. Pending[p] \in PushOps BY <1>a, <1>5 DEF PushItem, Pending, OpMatchesRole
  <2>2. Pending' = [Pending EXCEPT ![p] = "none"]
    BY <1>a, <1>5, PendingMoves DEF PushItem, PC
  <2>3. ~Channel!Full BY <1>5, <1>c, InFlight, TSQueueAssumption DEF PushItem
  <2> QED BY <1>5, <2>1, <2>2, <2>3 DEF PushItem, Channel!Accept, Channel!End, Channel!PushOps, PushOps
<1>6. ASSUME NEW p \in Producers, PushRefused(p) PROVE Channel!Refuse(p)
  <2>1. Pending[p] = op[p] /\ op[p] \in PushOps
    BY <1>a, <1>6 DEF PushRefused, Pending, OpMatchesRole
  <2>2. Pending' = [Pending EXCEPT ![p] = "none"]
    BY <1>a, <1>6, PendingMoves DEF PushRefused, Return, PC
  <2> QED
    BY <1>6, <1>c, <2>1, <2>2
       DEF PushRefused, Return, Channel!Refuse, Channel!End, Channel!PushOps, PushOps
<1>7. ASSUME NEW c \in Consumers, PopItem(c) PROVE Channel!Deliver(c)
  <2>1. Pending[c] \in PopOps BY <1>a, <1>7 DEF PopItem, Pending, OpMatchesRole
  <2>2. Pending' = [Pending EXCEPT ![c] = "none"]
    BY <1>a, <1>7, PendingMoves DEF PopItem, PC
  <2>3. ~Channel!Drained /\ Head(queue) = accepted[Len(delivered) + 1]
    BY <1>7, <1>c, InFlight DEF PopItem
  <2> QED BY <1>7, <2>1, <2>2, <2>3 DEF PopItem, Channel!Deliver, Channel!End, Channel!PopOps, PopOps
<1>8. ASSUME NEW c \in Consumers, PopNone(c) PROVE Channel!GiveUp(c)
  <2>1. Pending[c] = op[c] /\ op[c] \in PopOps /\ (pc[c] = "expired" => op[c] = "pop_for")
    BY <1>a, <1>8 DEF PopNone, Pending, OpMatchesRole
  <2>2. Pending' = [Pending EXCEPT ![c] = "none"]
    BY <1>a, <1>8, PendingMoves DEF PopNone, Return, PC
  <2> QED
    BY <1>8, <1>c, <2>1, <2>2
       DEF PopNone, Return, Channel!GiveUp, Channel!End, PopOps
<1>9. ASSUME NEW k \in Closers, CloseSet(k) PROVE Channel!Shut(k)
  <2>1. Pending[k] = "close" BY <1>a, <1>9 DEF CloseSet, Pending, OpMatchesRole
  <2>2. Pending' = [Pending EXCEPT ![k] = "none"]
    BY <1>a, <1>9, PendingMoves DEF CloseSet, PC
  <2> QED BY <1>9, <2>1, <2>2 DEF CloseSet, Channel!Shut, Channel!End
<1>10. ASSUME NEW t \in Threads, PushWait(t) \/ PopWait(t) \/ PopTimeout(t) \/ SpuriousWake(t)
       PROVE  Hidden
  <2>1. Pending' = Pending
    BY <1>a, <1>10, PendingKept DEF PushWait, PopWait, PopTimeout, SpuriousWake, Goto, TypeOK
  <2> QED BY <1>10, <2>1 DEF PushWait, PopWait, PopTimeout, SpuriousWake, Channel!chanVars
<1>11. ASSUME NEW t \in Threads, PushNotify(t) \/ PopNotify(t) PROVE Hidden
  <2>1. Pending' = Pending
    BY <1>a, <1>11, PendingKept
       DEF PushNotify, PopNotify, NotifyOne, NotEmptyWaiters, NotFullWaiters, Goto, TypeOK
  <2> QED BY <1>11, <2>1 DEF PushNotify, PopNotify, NotifyOne, Channel!chanVars
<1>12. ASSUME NEW k \in Closers, CloseWakeEmpty(k) \/ CloseWakeFull(k) PROVE Hidden
  <2>1. Pending' = Pending
    BY <1>a, <1>12, PendingKept
       DEF CloseWakeEmpty, CloseWakeFull, NotifyAll, NotEmptyWaiters, NotFullWaiters, TypeOK
  <2> QED BY <1>12, <2>1 DEF CloseWakeEmpty, CloseWakeFull, NotifyAll, Channel!chanVars
<1>13. ASSUME UNCHANGED vars PROVE Hidden
  BY <1>13 DEF vars, Channel!chanVars, Pending
<1>14. CASE \E p \in Producers : CallPush(p) \/ PushStep(p) \/ SpuriousWake(p)
  BY <1>14, <1>2, <1>5, <1>6, <1>10, <1>11 DEF PushStep, Channel!ChanNext
<1>15. CASE \E c \in Consumers : CallPop(c) \/ PopStep(c) \/ PopTimeout(c) \/ SpuriousWake(c)
  BY <1>15, <1>3, <1>7, <1>8, <1>10, <1>11 DEF PopStep, Channel!ChanNext
<1>16. CASE \E k \in Closers : CallClose(k) \/ CloseStep(k)
  BY <1>16, <1>4, <1>9, <1>12 DEF CloseStep, Channel!ChanNext
<1> QED BY <1>13, <1>14, <1>15, <1>16 DEF Next

(* Every call of the queue takes effect at one instant between its start    *)
(* and its return, with the outcome the channel allows: TSQueue implements  *)
(* ClosableChannel.                                                         *)
THEOREM Refinement == Spec => Linearizable
<1>1. Init => Channel!ChanInit
  BY DEF Init, Channel!ChanInit, Pending, Threads, Channel!Threads
<1>2. Init => OpMatchesRole
  BY DEF Init, OpMatchesRole, Threads
<1>3. Spec => []RInv
  BY <1>2, TypeCorrect, FIFO, RoleStep, PTL DEF Spec, RInv
<1> QED BY <1>1, <1>3, RefineStep, PTL DEF Spec, Linearizable, Channel!ChanSpec

-----------------------------------------------------------------------------
(***************************************************************************)
(* No wake-up is lost: the threads that stand for the items, and those     *)
(* that stand for the free slots, are counted.                             *)
(***************************************************************************)

ItemTakers == Cardinality(Notifying(Producers)) + Cardinality(AwakeConsumers)
SlotTakers == Cardinality(Notifying(Consumers)) + Cardinality(AwakeProducers)

Counted ==
  /\ IsFiniteSet(Notifying(Producers)) /\ IsFiniteSet(AwakeConsumers)
  /\ IsFiniteSet(Notifying(Consumers)) /\ IsFiniteSet(AwakeProducers)
  /\ Cardinality(Notifying(Producers)) \in Nat /\ Cardinality(AwakeConsumers) \in Nat
  /\ Cardinality(Notifying(Consumers)) \in Nat /\ Cardinality(AwakeProducers) \in Nat

LEMMA TakersCounted == Counted
<1>1. /\ Notifying(Producers) \in SUBSET Producers /\ AwakeConsumers \in SUBSET Consumers
      /\ Notifying(Consumers) \in SUBSET Consumers /\ AwakeProducers \in SUBSET Producers
  BY DEF Notifying, AwakeConsumers, AwakeProducers
<1>2. /\ IsFiniteSet(Notifying(Producers)) /\ IsFiniteSet(AwakeConsumers)
      /\ IsFiniteSet(Notifying(Consumers)) /\ IsFiniteSet(AwakeProducers)
  BY <1>1, TSQueueAssumption, FS_Subset
<1> QED BY <1>2, FS_CardinalityType DEF Counted

LEMMA OneMore ==
  ASSUME NEW S, IsFiniteSet(S), NEW x, x \notin S
  PROVE  Cardinality(S \cup {x}) = Cardinality(S) + 1
BY FS_AddElement

LEMMA OneLess ==
  ASSUME NEW S, IsFiniteSet(S), NEW x \in S
  PROVE  Cardinality(S \ {x}) = Cardinality(S) - 1
BY FS_RemoveElement

(* notify_one() finds a waiter to wake, or there is none; nobody else moves. *)
LEMMA Notified ==
  ASSUME TypeOK, NEW t \in Threads, NEW W \in SUBSET Threads, NotifyOne(t, W),
         \A w \in W : pc[w] = "waiting"
  PROVE  /\ pc[t] = "notify" /\ pc'[t] = "idle"
         /\ \/ W = {} /\ \A u \in Threads : u # t => pc'[u] = pc[u]
            \/ \E w \in W : /\ w # t /\ pc'[w] = "enter"
                            /\ \A u \in Threads : u \notin {t, w} => pc'[u] = pc[u]
<1>1. pc \in [Threads -> PC] BY DEF TypeOK
<1>2. CASE W = {} /\ Goto(t, "idle")
  BY <1>1, <1>2 DEF NotifyOne, Goto
<1>3. ASSUME NEW w \in W, pc' = [pc EXCEPT ![t] = "idle", ![w] = "enter"]
      PROVE  w # t /\ pc'[w] = "enter" /\ pc'[t] = "idle"
             /\ \A u \in Threads : u \notin {t, w} => pc'[u] = pc[u]
  BY <1>1, <1>3 DEF NotifyOne
<1> QED BY <1>2, <1>3 DEF NotifyOne

-----------------------------------------------------------------------------
(* Sleeping consumers *)

(* What the promise to the sleeping consumers reads did not change for the *)
(* worse.                                                                  *)
LEMMA ItemsStillCovered ==
  ASSUME NoLostItemWakeup, closed' = closed, queue' = queue,
         NotEmptyWaiters' \subseteq NotEmptyWaiters,
         \A k \in Closers : pc[k] = "wakeEmpty" => pc'[k] = "wakeEmpty",
         ItemTakers' = ItemTakers
  PROVE  NoLostItemWakeup'
BY DEF NoLostItemWakeup, ItemTakers

LEMMA ItemWakeupStep == TypeOK /\ TypeOK' /\ NoLostItemWakeup /\ [Next]_vars => NoLostItemWakeup'
<1> SUFFICES ASSUME TypeOK, TypeOK', NoLostItemWakeup, [Next]_vars PROVE NoLostItemWakeup'
  OBVIOUS
<1> USE DEF Threads
<1>a. /\ pc \in [Threads -> PC] /\ pc' \in [Threads -> PC]
      /\ queue \in Seq(Nat) /\ queue' \in Seq(Nat) /\ Len(queue) \in Nat /\ Len(queue') \in Nat
  BY DEF TypeOK
<1>b. /\ Producers \cap Consumers = {} /\ Producers \cap Closers = {} /\ Consumers \cap Closers = {}
  BY TSQueueAssumption
<1>c. /\ IsFiniteSet(Notifying(Producers)) /\ IsFiniteSet(AwakeConsumers)
      /\ Cardinality(Notifying(Producers)) \in Nat /\ Cardinality(AwakeConsumers) \in Nat
  BY TakersCounted DEF Counted
<1>d. Cardinality(Notifying(Producers))' \in Nat /\ Cardinality(AwakeConsumers)' \in Nat
  <2>1. Counted' BY TakersCounted, PTL
  <2> QED BY <2>1 DEF Counted
<1>p. ASSUME NEW p \in Producers, NEW l \in PC \ {"notify"}, Goto(p, l), pc[p] # "notify",
             queue' = queue, closed' = closed
      PROVE  NoLostItemWakeup'
  <2>1. /\ Notifying(Producers)' = Notifying(Producers) /\ AwakeConsumers' = AwakeConsumers
        /\ NotEmptyWaiters' = NotEmptyWaiters /\ \A k \in Closers : pc'[k] = pc[k]
    BY <1>a, <1>b, <1>p DEF Goto, Notifying, AwakeConsumers, NotEmptyWaiters
  <2> QED BY <1>p, <2>1, ItemsStillCovered DEF ItemTakers
<1>k. ASSUME NEW k \in Closers, NEW l \in PC, Goto(k, l), pc[k] # "wakeEmpty",
             queue' = queue, closed' = closed
      PROVE  NoLostItemWakeup'
  <2>1. /\ Notifying(Producers)' = Notifying(Producers) /\ AwakeConsumers' = AwakeConsumers
        /\ NotEmptyWaiters' = NotEmptyWaiters
        /\ \A j \in Closers : pc[j] = "wakeEmpty" => pc'[j] = "wakeEmpty"
    BY <1>a, <1>b, <1>k DEF Goto, Notifying, AwakeConsumers, NotEmptyWaiters
  <2> QED BY <1>k, <2>1, ItemsStillCovered DEF ItemTakers
(* An item that arrives brings the notify_one() its producer owes. *)
<1>1. ASSUME NEW p \in Producers, PushItem(p) PROVE NoLostItemWakeup'
  <2>1. /\ Notifying(Producers)' = Notifying(Producers) \cup {p} /\ p \notin Notifying(Producers)
        /\ AwakeConsumers' = AwakeConsumers /\ NotEmptyWaiters' = NotEmptyWaiters
    BY <1>a, <1>b, <1>1 DEF PushItem, Goto, Notifying, AwakeConsumers, NotEmptyWaiters
  <2>2. Cardinality(Notifying(Producers)') = Cardinality(Notifying(Producers)) + 1
    BY <1>c, <2>1, OneMore
  <2>3. Len(queue') = Len(queue) + 1 /\ ~closed /\ ~closed'
    BY <1>a, <1>1 DEF PushItem, TypeOK
  <2> QED BY <1>a, <1>c, <2>1, <2>2, <2>3, SMTT(30) DEF NoLostItemWakeup
<1>2. ASSUME NEW p \in Producers, PushNotify(p) PROVE NoLostItemWakeup'
  <2>0. NotEmptyWaiters \subseteq Threads /\ \A w \in NotEmptyWaiters : pc[w] = "waiting"
    BY DEF NotEmptyWaiters
  <2>1. queue' = queue /\ closed' = closed /\ pc[p] = "notify"
    BY <1>2 DEF PushNotify, NotifyOne
  <2>2. CASE NotEmptyWaiters = {} /\ \A u \in Threads : u # p => pc'[u] = pc[u]
    <3>1. NotEmptyWaiters' = {} BY <1>b, <2>2 DEF NotEmptyWaiters
    <3> QED BY <3>1 DEF NoLostItemWakeup
  <2>3. ASSUME NEW w \in NotEmptyWaiters, w # p, pc'[w] = "enter", pc'[p] = "idle",
               \A u \in Threads : u \notin {p, w} => pc'[u] = pc[u]
        PROVE  NoLostItemWakeup'
    <3>1. /\ Notifying(Producers)' = Notifying(Producers) \ {p} /\ p \in Notifying(Producers)
          /\ AwakeConsumers' = AwakeConsumers \cup {w} /\ w \notin AwakeConsumers
          /\ NotEmptyWaiters' \subseteq NotEmptyWaiters /\ \A k \in Closers : pc'[k] = pc[k]
      BY <1>b, <2>1, <2>3 DEF Notifying, AwakeConsumers, NotEmptyWaiters
    <3>2. /\ Cardinality(Notifying(Producers)') = Cardinality(Notifying(Producers)) - 1
          /\ Cardinality(AwakeConsumers') = Cardinality(AwakeConsumers) + 1
      BY <1>c, <3>1, OneMore, OneLess
    <3>3. ItemTakers' = ItemTakers BY <1>c, <3>2 DEF ItemTakers
    <3> QED BY <2>1, <3>1, <3>3, ItemsStillCovered
  <2> QED BY <1>2, <2>0, <2>2, <2>3, Notified DEF PushNotify
<1>3. ASSUME NEW c \in Consumers, PopItem(c) PROVE NoLostItemWakeup'
  <2>1. /\ Notifying(Producers)' = Notifying(Producers)
        /\ AwakeConsumers' = AwakeConsumers \ {c} /\ c \in AwakeConsumers
        /\ NotEmptyWaiters' = NotEmptyWaiters /\ \A k \in Closers : pc'[k] = pc[k]
    BY <1>a, <1>b, <1>3 DEF PopItem, Goto, Notifying, AwakeConsumers, NotEmptyWaiters
  <2>2. Cardinality(AwakeConsumers') = Cardinality(AwakeConsumers) - 1
    BY <1>c, <2>1, OneLess
  <2>3. Len(queue') = Len(queue) - 1 /\ closed' = closed
    BY <1>a, <1>3 DEF PopItem
  <2> QED BY <1>a, <1>c, <2>1, <2>2, <2>3 DEF NoLostItemWakeup
(* A consumer that goes to sleep has seen an empty, open queue. *)
<1>4. ASSUME NEW c \in Consumers, PopWait(c) PROVE NoLostItemWakeup'
  <2>1. Len(queue') = 0 /\ ~closed' BY <1>4 DEF PopWait
  <2> QED BY <1>d, <2>1 DEF NoLostItemWakeup
<1>5. ASSUME NEW c \in Consumers, PopNone(c) PROVE NoLostItemWakeup'
  <2>1. /\ NotEmptyWaiters' = NotEmptyWaiters /\ \A k \in Closers : pc'[k] = pc[k]
    BY <1>a, <1>b, <1>5 DEF PopNone, Return, Goto, NotEmptyWaiters
  <2>2. Len(queue') = 0 /\ closed' = closed BY <1>5 DEF PopNone
  <2> QED BY <1>d, <2>1, <2>2 DEF NoLostItemWakeup
(* A consumer that begins a call, times out or is woken joins the awake. *)
<1>6. ASSUME NEW c \in Consumers, NEW l \in {"enter", "expired"}, Goto(c, l),
             pc[c] \in {"idle", "waiting"}, queue' = queue, closed' = closed
      PROVE  NoLostItemWakeup'
  <2>1. /\ Notifying(Producers)' = Notifying(Producers)
        /\ AwakeConsumers' = AwakeConsumers \cup {c} /\ c \notin AwakeConsumers
        /\ NotEmptyWaiters' \subseteq NotEmptyWaiters /\ \A k \in Closers : pc'[k] = pc[k]
    BY <1>a, <1>b, <1>6 DEF Goto, Notifying, AwakeConsumers, NotEmptyWaiters
  <2>2. Cardinality(AwakeConsumers') = Cardinality(AwakeConsumers) + 1
    BY <1>c, <2>1, OneMore
  <2> QED BY <1>6, <1>a, <1>c, <2>1, <2>2 DEF NoLostItemWakeup
<1>7. ASSUME NEW c \in Consumers, PopNotify(c) PROVE NoLostItemWakeup'
  <2>0. NotFullWaiters \subseteq Threads /\ \A w \in NotFullWaiters : pc[w] = "waiting"
    BY DEF NotFullWaiters
  <2>1. /\ Notifying(Producers)' = Notifying(Producers) /\ AwakeConsumers' = AwakeConsumers
        /\ NotEmptyWaiters' = NotEmptyWaiters /\ \A k \in Closers : pc'[k] = pc[k]
    BY <1>7, <1>b, <2>0, Notified
       DEF PopNotify, Notifying, AwakeConsumers, NotEmptyWaiters, NotFullWaiters
  <2> QED BY <1>7, <2>1, ItemsStillCovered DEF PopNotify, NotifyOne, ItemTakers
(* close(): whoever sleeps is owed the notify_all() that follows. *)
<1>8. ASSUME NEW k \in Closers, CloseSet(k) PROVE NoLostItemWakeup'
  BY <1>a, <1>8 DEF CloseSet, Goto, NoLostItemWakeup
<1>9. ASSUME NEW k \in Closers, CloseWakeEmpty(k) PROVE NoLostItemWakeup'
  <2>1. NotEmptyWaiters' = {}
    BY <1>a, <1>b, <1>9 DEF CloseWakeEmpty, NotifyAll, NotEmptyWaiters
  <2> QED BY <2>1 DEF NoLostItemWakeup
<1>10. ASSUME NEW k \in Closers, CloseWakeFull(k) PROVE NoLostItemWakeup'
  <2>1. /\ Notifying(Producers)' = Notifying(Producers) /\ AwakeConsumers' = AwakeConsumers
        /\ NotEmptyWaiters' = NotEmptyWaiters
        /\ \A j \in Closers : pc[j] = "wakeEmpty" => pc'[j] = "wakeEmpty"
    BY <1>a, <1>b, <1>10
       DEF CloseWakeFull, NotifyAll, Notifying, AwakeConsumers, NotEmptyWaiters, NotFullWaiters
  <2> QED BY <1>10, <2>1, ItemsStillCovered DEF CloseWakeFull, NotifyAll, ItemTakers
<1>11. CASE \E p \in Producers : CallPush(p) \/ PushStep(p) \/ SpuriousWake(p)
  <2>1. ASSUME NEW p \in Producers, CallPush(p) PROVE NoLostItemWakeup'
    BY <1>p, <2>1 DEF CallPush, Call, PC
  <2>2. ASSUME NEW p \in Producers, PushWait(p) PROVE NoLostItemWakeup'
    BY <1>p, <2>2 DEF PushWait, PC
  <2>3. ASSUME NEW p \in Producers, PushRefused(p) PROVE NoLostItemWakeup'
    BY <1>p, <2>3 DEF PushRefused, Return, PC
  <2>4. ASSUME NEW p \in Producers, SpuriousWake(p) PROVE NoLostItemWakeup'
    BY <1>p, <2>4 DEF SpuriousWake, PC
  <2> QED BY <1>1, <1>2, <1>11, <2>1, <2>2, <2>3, <2>4 DEF PushStep
<1>12. CASE \E c \in Consumers : CallPop(c) \/ PopStep(c) \/ PopTimeout(c) \/ SpuriousWake(c)
  <2>1. ASSUME NEW c \in Consumers, CallPop(c) PROVE NoLostItemWakeup'
    BY <1>6, <2>1 DEF CallPop, Call
  <2>2. ASSUME NEW c \in Consumers, PopTimeout(c) PROVE NoLostItemWakeup'
    BY <1>6, <2>2 DEF PopTimeout
  <2>3. ASSUME NEW c \in Consumers, SpuriousWake(c) PROVE NoLostItemWakeup'
    BY <1>6, <2>3 DEF SpuriousWake
  <2> QED BY <1>3, <1>4, <1>5, <1>7, <1>12, <2>1, <2>2, <2>3 DEF PopStep
<1>13. CASE \E k \in Closers : CallClose(k) \/ CloseStep(k)
  <2>1. ASSUME NEW k \in Closers, CallClose(k) PROVE NoLostItemWakeup'
    BY <1>k, <2>1 DEF CallClose, Call, PC
  <2> QED BY <1>8, <1>9, <1>10, <1>13, <2>1 DEF CloseStep
<1>14. CASE UNCHANGED vars
  BY <1>14 DEF vars, NoLostItemWakeup, NotEmptyWaiters, Notifying, AwakeConsumers
<1> QED BY <1>11, <1>12, <1>13, <1>14 DEF Next

-----------------------------------------------------------------------------
(* Sleeping producers: the same with the free slots in place of the items. *)

LEMMA SlotsStillCovered ==
  ASSUME NoLostSlotWakeup, closed' = closed, queue' = queue,
         NotFullWaiters' \subseteq NotFullWaiters,
         (\E k \in Closers : pc[k] \in {"wakeEmpty", "wakeFull"})
            => \E k \in Closers : pc'[k] \in {"wakeEmpty", "wakeFull"},
         SlotTakers' = SlotTakers
  PROVE  NoLostSlotWakeup'
BY DEF NoLostSlotWakeup, SlotTakers

LEMMA SlotWakeupStep == TypeOK /\ TypeOK' /\ NoLostSlotWakeup /\ [Next]_vars => NoLostSlotWakeup'
<1> SUFFICES ASSUME TypeOK, TypeOK', NoLostSlotWakeup, [Next]_vars PROVE NoLostSlotWakeup'
  OBVIOUS
<1> USE DEF Threads
<1>a. /\ pc \in [Threads -> PC] /\ pc' \in [Threads -> PC]
      /\ queue \in Seq(Nat) /\ queue' \in Seq(Nat) /\ Len(queue) \in Nat /\ Len(queue') \in Nat
      /\ Capacity \in Nat
  BY TSQueueAssumption DEF TypeOK
<1>b. /\ Producers \cap Consumers = {} /\ Producers \cap Closers = {} /\ Consumers \cap Closers = {}
  BY TSQueueAssumption
<1>c. /\ IsFiniteSet(Notifying(Consumers)) /\ IsFiniteSet(AwakeProducers)
      /\ Cardinality(Notifying(Consumers)) \in Nat /\ Cardinality(AwakeProducers) \in Nat
  BY TakersCounted DEF Counted
<1>d. Cardinality(Notifying(Consumers))' \in Nat /\ Cardinality(AwakeProducers)' \in Nat
  <2>1. Counted' BY TakersCounted, PTL
  <2> QED BY <2>1 DEF Counted
<1>p. ASSUME NEW c \in Consumers, NEW l \in PC \ {"notify"}, Goto(c, l), pc[c] # "notify",
             queue' = queue, closed' = closed
      PROVE  NoLostSlotWakeup'
  <2>1. /\ Notifying(Consumers)' = Notifying(Consumers) /\ AwakeProducers' = AwakeProducers
        /\ NotFullWaiters' = NotFullWaiters /\ \A k \in Closers : pc'[k] = pc[k]
    BY <1>a, <1>b, <1>p DEF Goto, Notifying, AwakeProducers, NotFullWaiters
  <2> QED BY <1>p, <2>1, SlotsStillCovered DEF SlotTakers
<1>k. ASSUME NEW k \in Closers, pc[k] = "idle", Goto(k, "enter"), queue' = queue, closed' = closed
      PROVE  NoLostSlotWakeup'
  <2>1. /\ Notifying(Consumers)' = Notifying(Consumers) /\ AwakeProducers' = AwakeProducers
        /\ NotFullWaiters' = NotFullWaiters
        /\ \A j \in Closers : pc[j] \in {"wakeEmpty", "wakeFull"} => pc'[j] = pc[j]
    BY <1>a, <1>b, <1>k DEF Goto, Notifying, AwakeProducers, NotFullWaiters
  <2> QED BY <1>k, <2>1, SlotsStillCovered DEF SlotTakers
(* A slot that is freed brings the notify_one() its consumer owes. *)
<1>1. ASSUME NEW c \in Consumers, PopItem(c) PROVE NoLostSlotWakeup'
  <2>1. /\ Notifying(Consumers)' = Notifying(Consumers) \cup {c} /\ c \notin Notifying(Consumers)
        /\ AwakeProducers' = AwakeProducers /\ NotFullWaiters' = NotFullWaiters
        /\ \A k \in Closers : pc'[k] = pc[k]
    BY <1>a, <1>b, <1>1 DEF PopItem, Goto, Notifying, AwakeProducers, NotFullWaiters
  <2>2. Cardinality(Notifying(Consumers)') = Cardinality(Notifying(Consumers)) + 1
    BY <1>c, <2>1, OneMore
  <2>3. Len(queue') = Len(queue) - 1 /\ closed' = closed
    BY <1>a, <1>1 DEF PopItem
  <2> QED BY <1>a, <1>c, <2>1, <2>2, <2>3 DEF NoLostSlotWakeup
<1>2. ASSUME NEW c \in Consumers, PopNotify(c) PROVE NoLostSlotWakeup'
  <2>0. NotFullWaiters \subseteq Threads /\ \A w \in NotFullWaiters : pc[w] = "waiting"
    BY DEF NotFullWaiters
  <2>1. queue' = queue /\ closed' = closed /\ pc[c] = "notify"
    BY <1>2 DEF PopNotify, NotifyOne
  <2>2. CASE NotFullWaiters = {} /\ \A u \in Threads : u # c => pc'[u] = pc[u]
    <3>1. NotFullWaiters' = {} BY <1>b, <2>2 DEF NotFullWaiters
    <3> QED BY <3>1 DEF NoLostSlotWakeup
  <2>3. ASSUME NEW w \in NotFullWaiters, w # c, pc'[w] = "enter", pc'[c] = "idle",
               \A u \in Threads : u \notin {c, w} => pc'[u] = pc[u]
        PROVE  NoLostSlotWakeup'
    <3>1. /\ Notifying(Consumers)' = Notifying(Consumers) \ {c} /\ c \in Notifying(Consumers)
          /\ AwakeProducers' = AwakeProducers \cup {w} /\ w \notin AwakeProducers
          /\ NotFullWaiters' \subseteq NotFullWaiters /\ \A k \in Closers : pc'[k] = pc[k]
      BY <1>b, <2>1, <2>3 DEF Notifying, AwakeProducers, NotFullWaiters
    <3>2. /\ Cardinality(Notifying(Consumers)') = Cardinality(Notifying(Consumers)) - 1
          /\ Cardinality(AwakeProducers') = Cardinality(AwakeProducers) + 1
      BY <1>c, <3>1, OneMore, OneLess
    <3>3. SlotTakers' = SlotTakers BY <1>c, <3>2 DEF SlotTakers
    <3> QED BY <2>1, <3>1, <3>3, SlotsStillCovered
  <2> QED BY <1>2, <2>0, <2>2, <2>3, Notified DEF PopNotify
<1>3. ASSUME NEW p \in Producers, PushItem(p) PROVE NoLostSlotWakeup'
  <2>1. /\ Notifying(Consumers)' = Notifying(Consumers)
        /\ AwakeProducers' = AwakeProducers \ {p} /\ p \in AwakeProducers
        /\ NotFullWaiters' = NotFullWaiters
    BY <1>a, <1>b, <1>3 DEF PushItem, Goto, Notifying, AwakeProducers, NotFullWaiters
  <2>2. Cardinality(AwakeProducers') = Cardinality(AwakeProducers) - 1
    BY <1>c, <2>1, OneLess
  <2>3. Len(queue') = Len(queue) + 1 /\ ~closed /\ ~closed'
    BY <1>a, <1>3 DEF PushItem, TypeOK
  <2> QED BY <1>a, <1>c, <2>1, <2>2, <2>3 DEF NoLostSlotWakeup
(* A producer that goes to sleep, or that is refused while the queue is     *)
(* open, has seen no free slot.                                             *)
<1>4. ASSUME NEW p \in Producers, PushWait(p) PROVE NoLostSlotWakeup'
  <2>1. Len(queue') >= Capacity /\ ~closed' BY <1>4 DEF PushWait
  <2> QED BY <1>a, <1>d, <2>1 DEF NoLostSlotWakeup
<1>5. ASSUME NEW p \in Producers, PushRefused(p) PROVE NoLostSlotWakeup'
  <2>1. NotFullWaiters' = NotFullWaiters /\ \A k \in Closers : pc'[k] = pc[k]
    BY <1>a, <1>b, <1>5 DEF PushRefused, Return, Goto, NotFullWaiters
  <2>2. closed' = closed /\ (closed \/ Len(queue') >= Capacity)
    BY <1>5 DEF PushRefused
  <2> QED BY <1>a, <1>d, <2>1, <2>2 DEF NoLostSlotWakeup
(* A producer that begins a call or is woken joins the awake. *)
<1>6. ASSUME NEW p \in Producers, Goto(p, "enter"), pc[p] \in {"idle", "waiting"},
             queue' = queue, closed' = closed
      PROVE  NoLostSlotWakeup'
  <2>1. /\ Notifying(Consumers)' = Notifying(Consumers)
        /\ AwakeProducers' = AwakeProducers \cup {p} /\ p \notin AwakeProducers
        /\ NotFullWaiters' \subseteq NotFullWaiters /\ \A k \in Closers : pc'[k] = pc[k]
    BY <1>a, <1>b, <1>6 DEF Goto, Notifying, AwakeProducers, NotFullWaiters
  <2>2. Cardinality(AwakeProducers') = Cardinality(AwakeProducers) + 1
    BY <1>c, <2>1, OneMore
  <2> QED BY <1>6, <1>a, <1>c, <2>1, <2>2 DEF NoLostSlotWakeup
<1>7. ASSUME NEW p \in Producers, PushNotify(p) PROVE NoLostSlotWakeup'
  <2>0. NotEmptyWaiters \subseteq Threads /\ \A w \in NotEmptyWaiters : pc[w] = "waiting"
    BY DEF NotEmptyWaiters
  <2>1. /\ Notifying(Consumers)' = Notifying(Consumers) /\ AwakeProducers' = AwakeProducers
        /\ NotFullWaiters' = NotFullWaiters /\ \A k \in Closers : pc'[k] = pc[k]
    BY <1>7, <1>b, <2>0, Notified
       DEF PushNotify, Notifying, AwakeProducers, NotEmptyWaiters, NotFullWaiters
  <2> QED BY <1>7, <2>1, SlotsStillCovered DEF PushNotify, NotifyOne, SlotTakers
(* close() calls the producers' notify_all() last. *)
<1>8. ASSUME NEW k \in Closers, CloseSet(k) PROVE NoLostSlotWakeup'
  BY <1>a, <1>8 DEF CloseSet, Goto, NoLostSlotWakeup
<1>9. ASSUME NEW k \in Closers, CloseWakeEmpty(k) PROVE NoLostSlotWakeup'
  <2>1. /\ Notifying(Consumers)' = Notifying(Consumers) /\ AwakeProducers' = AwakeProducers
        /\ NotFullWaiters' = NotFullWaiters /\ pc'[k] = "wakeFull"
    BY <1>a, <1>b, <1>9
       DEF CloseWakeEmpty, NotifyAll, Notifying, AwakeProducers, NotEmptyWaiters, NotFullWaiters
  <2> QED BY <1>9, <2>1, SlotsStillCovered DEF CloseWakeEmpty, NotifyAll, SlotTakers
<1>10. ASSUME NEW k \in Closers, CloseWakeFull(k) PROVE NoLostSlotWakeup'
  <2>1. NotFullWaiters' = {}
    BY <1>a, <1>b, <1>10 DEF CloseWakeFull, NotifyAll, NotFullWaiters
  <2> QED BY <2>1 DEF NoLostSlotWakeup
<1>11. CASE \E p \in Producers : CallPush(p) \/ PushStep(p) \/ SpuriousWake(p)
  <2>1. ASSUME NEW p \in Producers, CallPush(p) PROVE NoLostSlotWakeup'
    BY <1>6, <2>1 DEF CallPush, Call
  <2>2. ASSUME NEW p \in Producers, SpuriousWake(p) PROVE NoLostSlotWakeup'
    BY <1>6, <2>2 DEF SpuriousWake
  <2> QED BY <1>3, <1>4, <1>5, <1>7, <1>11, <2>1, <2>2 DEF PushStep
<1>12. CASE \E c \in Consumers : CallPop(c) \/ PopStep(c) \/ PopTimeout(c) \/ SpuriousWake(c)
  <2>1. ASSUME NEW c \in Consumers, CallPop(c) PROVE NoLostSlotWakeup'
    BY <1>p, <2>1 DEF CallPop, Call, PC
  <2>2. ASSUME NEW c \in Consumers, PopWait(c) PROVE NoLostSlotWakeup'
    BY <1>p, <2>2 DEF PopWait, PC
  <2>3. ASSUME NEW c \in Consumers, PopNone(c) PROVE NoLostSlotWakeup'
    BY <1>p, <2>3 DEF PopNone, Return, PC
  <2>4. ASSUME NEW c \in Consumers, PopTimeout(c) PROVE NoLostSlotWakeup'
    BY <1>p, <2>4 DEF PopTimeout, PC
  <2>5. ASSUME NEW c \in Consumers, SpuriousWake(c) PROVE NoLostSlotWakeup'
    BY <1>p, <2>5 DEF SpuriousWake, PC
  <2> QED BY <1>1, <1>2, <1>12, <2>1, <2>2, <2>3, <2>4, <2>5 DEF PopStep
<1>13. CASE \E k \in Closers : CallClose(k) \/ CloseStep(k)
  <2>1. ASSUME NEW k \in Closers, CallClose(k) PROVE NoLostSlotWakeup'
    BY <1>k, <2>1 DEF CallClose, Call
  <2> QED BY <1>8, <1>9, <1>10, <1>13, <2>1 DEF CloseStep
<1>14. CASE UNCHANGED vars
  BY <1>14 DEF vars, NoLostSlotWakeup, NotFullWaiters, Notifying, AwakeProducers
<1> QED BY <1>11, <1>12, <1>13, <1>14 DEF Next

-----------------------------------------------------------------------------
(* No consumer sleeps on not_empty_ while an item is there for it and       *)
(* nobody is about to wake it or to take the item; a closed queue wakes it. *)
THEOREM NoItemIsOverslept == Spec => []NoLostItemWakeup
<1>1. Init => NoLostItemWakeup
  BY DEF Init, NoLostItemWakeup, NotEmptyWaiters, Threads
<1> QED BY <1>1, TypeCorrect, ItemWakeupStep, PTL DEF Spec

(* No producer sleeps on not_full_ while a slot is free and nobody is about *)
(* to wake it or to fill the slot; a closed queue wakes it.                 *)
THEOREM NoSlotIsOverslept == Spec => []NoLostSlotWakeup
<1>1. Init => NoLostSlotWakeup
  BY DEF Init, NoLostSlotWakeup, NotFullWaiters, Threads
<1> QED BY <1>1, TypeCorrect, SlotWakeupStep, PTL DEF Spec
=============================================================================
