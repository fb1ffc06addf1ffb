------------------------------- MODULE TSQueue -------------------------------
(***************************************************************************)
(* include/thread_safe_queue.h.  Every access to queue_ and closed_ holds  *)
(* mutex_, so a critical section is one step.  What is not atomic is kept  *)
(* apart: waiting on a condition variable (which releases the mutex), the  *)
(* re-evaluation of the predicate after a wake-up, and the notifications,  *)
(* which push(), pop() and close() send after they have unlocked.          *)
(*                                                                         *)
(* A thread waiting on not_full_ is a producer at "waiting", one waiting   *)
(* on not_empty_ a consumer at "waiting".                                  *)
(***************************************************************************)
EXTENDS Naturals, Sequences, FiniteSets

CONSTANTS Producers, Consumers, Closers,
          Capacity,     \* capacity_
          MaxPushes     \* bound: push() and try_push() calls in a behaviour

ASSUME TSQueueAssumption ==
  /\ Capacity \in Nat \ {0}
  /\ MaxPushes \in Nat
  /\ IsFiniteSet(Producers) /\ IsFiniteSet(Consumers)
  /\ Producers \cap Consumers = {}
  /\ Producers \cap Closers = {}
  /\ Consumers \cap Closers = {}

Threads == Producers \cup Consumers \cup Closers

PushOps == {"push", "try_push"}
PopOps  == {"pop", "try_pop", "pop_for"}

VARIABLES queue,      \* queue_
          closed,     \* closed_
          pc,         \* where each thread is
          op,         \* the operation it is inside
          item,       \* the argument of a producer's call
          result,     \* how its last call ended
          pushes,     \* push calls begun; the next one carries pushes + 1
          accepted,   \* history: items pushed into queue_, in order
          delivered   \* history: items moved out of queue_, in order

vars == <<queue, closed, pc, op, item, result, pushes, accepted, delivered>>

(***************************************************************************)
(* "idle"     outside every operation                                      *)
(* "enter"    holds no lock; next step locks and evaluates the predicate   *)
(* "waiting"  asleep on its condition variable                             *)
(* "expired"  pop_for() timed out; next step evaluates the predicate once  *)
(*            more, as wait_for() with a predicate does                    *)
(* "notify"   unlocked after moving an item, notify_one() not called yet   *)
(* "wakeEmpty", "wakeFull"  inside close(), the next notify_all() to call  *)
(***************************************************************************)
PC == {"idle", "enter", "waiting", "expired", "notify", "wakeEmpty", "wakeFull"}

Init ==
  /\ queue = <<>> /\ closed = FALSE
  /\ pc = [t \in Threads |-> "idle"]
  /\ op = [t \in Threads |-> "none"]
  /\ item = [p \in Producers |-> 0]
  /\ result = [t \in Threads |-> "none"]
  /\ pushes = 0 /\ accepted = <<>> /\ delivered = <<>>

NotEmptyWaiters == {c \in Consumers : pc[c] = "waiting"}
NotFullWaiters  == {p \in Producers : pc[p] = "waiting"}

Goto(t, l) == pc' = [pc EXCEPT ![t] = l]

Return(t, res) == Goto(t, "idle") /\ result' = [result EXCEPT ![t] = res]

Call(t, o) ==
  /\ pc[t] = "idle"
  /\ Goto(t, "enter")
  /\ op' = [op EXCEPT ![t] = o]
  /\ UNCHANGED <<queue, closed, result, accepted, delivered>>

-----------------------------------------------------------------------------
(* push() and try_push() *)

CallPush(p) ==
  /\ pushes < MaxPushes
  /\ \E o \in PushOps : Call(p, o)
  /\ pushes' = pushes + 1
  /\ item' = [item EXCEPT ![p] = pushes + 1]

PushWait(p) ==
  /\ pc[p] = "enter" /\ op[p] = "push"
  /\ Len(queue) >= Capacity /\ ~closed
  /\ Goto(p, "waiting")
  /\ UNCHANGED <<queue, closed, op, item, result, pushes, accepted, delivered>>

PushRefused(p) ==
  /\ pc[p] = "enter"
  /\ closed \/ (op[p] = "try_push" /\ Len(queue) >= Capacity)
  /\ Return(p, "fail")
  /\ UNCHANGED <<queue, closed, op, item, pushes, accepted, delivered>>

(* Mutant: room for one more than capacity_ (<= for <). *)
PushItemOverfull(p) ==
  /\ pc[p] = "enter"
  /\ Len(queue) <= Capacity /\ ~closed
  /\ queue' = Append(queue, item[p])
  /\ accepted' = Append(accepted, item[p])
  /\ Goto(p, "notify")
  /\ result' = [result EXCEPT ![p] = "ok"]
  /\ UNCHANGED <<closed, op, item, pushes, delivered>>

(* Mutant: closed_ is not looked at again after the wait. *)
PushItemAfterClose(p) ==
  /\ pc[p] = "enter"
  /\ Len(queue) < Capacity
  /\ queue' = Append(queue, item[p])
  /\ accepted' = Append(accepted, item[p])
  /\ Goto(p, "notify")
  /\ result' = [result EXCEPT ![p] = "ok"]
  /\ UNCHANGED <<closed, op, item, pushes, delivered>>

PushItem(p) ==
  /\ pc[p] = "enter"
  /\ Len(queue) < Capacity /\ ~closed
  /\ queue' = Append(queue, item[p])
  /\ accepted' = Append(accepted, item[p])
  /\ Goto(p, "notify")
  /\ result' = [result EXCEPT ![p] = "ok"]
  /\ UNCHANGED <<closed, op, item, pushes, delivered>>

(* t has moved an item and unlocked: notify_one() wakes one of the waiters, *)
(* any of them, or does nothing when there is none.                         *)
NotifyOne(t, waiters) ==
  /\ pc[t] = "notify"
  /\ \/ \E w \in waiters : pc' = [pc EXCEPT ![t] = "idle", ![w] = "enter"]
     \/ waiters = {} /\ Goto(t, "idle")
  /\ UNCHANGED <<queue, closed, op, item, result, pushes, accepted, delivered>>

(* Mutant: notify_one() is forgotten. *)
NoNotify(t) ==
  /\ pc[t] = "notify"
  /\ Goto(t, "idle")
  /\ UNCHANGED <<queue, closed, op, item, result, pushes, accepted, delivered>>

PushNotify(p) == NotifyOne(p, NotEmptyWaiters)

-----------------------------------------------------------------------------
(* pop(), try_pop() and pop_for() *)

CallPop(c) == /\ \E o \in PopOps : Call(c, o)
              /\ UNCHANGED <<item, pushes>>

PopWait(c) ==
  /\ pc[c] = "enter" /\ op[c] \in {"pop", "pop_for"}
  /\ queue = <<>> /\ ~closed
  /\ Goto(c, "waiting")
  /\ UNCHANGED <<queue, closed, op, item, result, pushes, accepted, delivered>>

(* Mutant: front() is copied out but pop() is not called. *)
PopItemKept(c) ==
  /\ pc[c] \in {"enter", "expired"}
  /\ queue # <<>>
  /\ delivered' = Append(delivered, Head(queue))
  /\ Goto(c, "notify")
  /\ result' = [result EXCEPT ![c] = "ok"]
  /\ UNCHANGED <<queue, closed, op, item, pushes, accepted>>

PopItem(c) ==
  /\ pc[c] \in {"enter", "expired"}
  /\ queue # <<>>
  /\ queue' = Tail(queue)
  /\ delivered' = Append(delivered, Head(queue))
  /\ Goto(c, "notify")
  /\ result' = [result EXCEPT ![c] = "ok"]
  /\ UNCHANGED <<closed, op, item, pushes, accepted>>

(* Mutant: a closed queue gives nullopt before it is drained. *)
PopNoneWhenClosed(c) ==
  /\ pc[c] \in {"enter", "expired"}
  /\ closed \/ (queue = <<>> /\ (op[c] = "try_pop" \/ pc[c] = "expired"))
  /\ Return(c, "fail")
  /\ UNCHANGED <<queue, closed, op, item, pushes, accepted, delivered>>

PopNone(c) ==
  /\ pc[c] \in {"enter", "expired"}
  /\ queue = <<>>
  /\ closed \/ op[c] = "try_pop" \/ pc[c] = "expired"
  /\ Return(c, "fail")
  /\ UNCHANGED <<queue, closed, op, item, pushes, accepted, delivered>>

PopNotify(c) == NotifyOne(c, NotFullWaiters)

(* Mutant: the timeout returns without looking at the queue again. *)
PopTimeoutBlind(c) ==
  /\ pc[c] = "waiting" /\ op[c] = "pop_for"
  /\ Return(c, "fail")
  /\ UNCHANGED <<queue, closed, op, item, pushes, accepted, delivered>>

(* Mutant: every timeout starts a new wait of the full length. *)
PopTimeoutRestart(c) ==
  /\ pc[c] = "waiting" /\ op[c] = "pop_for"
  /\ Goto(c, "enter")
  /\ UNCHANGED <<queue, closed, op, item, result, pushes, accepted, delivered>>

PopTimeout(c) ==
  /\ pc[c] = "waiting" /\ op[c] = "pop_for"
  /\ Goto(c, "expired")
  /\ UNCHANGED <<queue, closed, op, item, result, pushes, accepted, delivered>>

-----------------------------------------------------------------------------
(* close() and the spurious wake-ups a condition variable allows *)

CallClose(k) == Call(k, "close") /\ UNCHANGED <<item, pushes>>

CloseSet(k) ==
  /\ pc[k] = "enter"
  /\ closed' = TRUE
  /\ Goto(k, "wakeEmpty")
  /\ result' = [result EXCEPT ![k] = "ok"]
  /\ UNCHANGED <<queue, op, item, pushes, accepted, delivered>>

NotifyAll(k, waiters, l) ==
  /\ pc' = [t \in Threads |-> IF t \in waiters THEN "enter" ELSE IF t = k THEN l ELSE pc[t]]
  /\ UNCHANGED <<queue, closed, op, item, result, pushes, accepted, delivered>>

CloseWakeEmpty(k) == pc[k] = "wakeEmpty" /\ NotifyAll(k, NotEmptyWaiters, "wakeFull")

(* Mutant: only the consumers are woken. *)
CloseForgetsProducers(k) == pc[k] = "wakeFull" /\ NotifyAll(k, {}, "idle")

CloseWakeFull(k)  == pc[k] = "wakeFull"  /\ NotifyAll(k, NotFullWaiters, "idle")

SpuriousWake(t) ==
  /\ pc[t] = "waiting"
  /\ Goto(t, "enter")
  /\ UNCHANGED <<queue, closed, op, item, result, pushes, accepted, delivered>>

-----------------------------------------------------------------------------
PushStep(p)  == PushWait(p) \/ PushRefused(p) \/ PushItem(p) \/ PushNotify(p)
PopStep(c)   == PopWait(c) \/ PopItem(c) \/ PopNone(c) \/ PopNotify(c)
CloseStep(k) == CloseSet(k) \/ CloseWakeEmpty(k) \/ CloseWakeFull(k)

Next ==
  \/ \E p \in Producers : CallPush(p) \/ PushStep(p) \/ SpuriousWake(p)
  \/ \E c \in Consumers : CallPop(c) \/ PopStep(c) \/ PopTimeout(c) \/ SpuriousWake(c)
  \/ \E k \in Closers : CallClose(k) \/ CloseStep(k)

Spec == Init /\ [][Next]_vars

(***************************************************************************)
(* Fairness.  A thread inside an operation is scheduled and gets the mutex *)
(* (WF); the deadline of pop_for() is absolute, so no run of spurious      *)
(* wake-ups puts it off for ever (SF).  Consumers keep calling, as the     *)
(* loops in LoadBalancer::run, FastPath::run and outputWriterThread do.    *)
(* Producers and closers may stop calling.                                 *)
(***************************************************************************)
Fairness ==
  /\ \A p \in Producers : WF_vars(PushStep(p))
  /\ \A c \in Consumers : /\ WF_vars(PopStep(c)) /\ SF_vars(PopTimeout(c))
                          /\ WF_vars(CallPop(c))
  /\ \A k \in Closers : WF_vars(CloseStep(k))

FairSpec == Spec /\ Fairness

-----------------------------------------------------------------------------
(* isClosed() *)
IsClosed == closed /\ queue = <<>>

TypeOK ==
  /\ queue \in Seq(Nat) /\ accepted \in Seq(Nat) /\ delivered \in Seq(Nat)
  /\ Len(queue) <= Capacity
  /\ closed \in BOOLEAN
  /\ pc \in [Threads -> PC]
  /\ op \in [Threads -> PushOps \cup PopOps \cup {"close", "none"}]
  /\ item \in [Producers -> Nat]
  /\ result \in [Threads -> {"none", "ok", "fail"}]
  /\ pushes \in Nat

(* No item is lost, duplicated or reordered: what was pushed is what was   *)
(* popped followed by what is still in queue_, whatever the interleaving.  *)
ExactlyOnceInOrder == accepted = delivered \o queue

(* No lost wake-up.  While a consumer sleeps on not_empty_, every item in  *)
(* queue_ is matched by a producer that has not sent its notify_one() yet  *)
(* or by a consumer that is awake and will evaluate the predicate; after   *)
(* close() a sleeper is owed a notify_all().                               *)
AwakeConsumers == {c \in Consumers : pc[c] \in {"enter", "expired"}}
AwakeProducers == {p \in Producers : pc[p] = "enter"}
Notifying(S)   == {t \in S : pc[t] = "notify"}

NoLostItemWakeup ==
  NotEmptyWaiters # {} =>
    IF closed THEN \E k \in Closers : pc[k] = "wakeEmpty"
    ELSE Len(queue) <= Cardinality(Notifying(Producers)) + Cardinality(AwakeConsumers)

(* The same for free slots and producers that sleep on not_full_. *)
NoLostSlotWakeup ==
  NotFullWaiters # {} =>
    IF closed THEN \E k \in Closers : pc[k] \in {"wakeEmpty", "wakeFull"}
    ELSE Capacity - Len(queue) <= Cardinality(Notifying(Consumers)) + Cardinality(AwakeProducers)

(* isClosed() is final: once a consumer has seen closed-and-drained, no    *)
(* item can be accepted any more, so leaving its loop strands nothing.     *)
ClosedStaysDrained == [][IsClosed => IsClosed']_vars

(* An accepted item is delivered, also when close() comes in between. *)
EveryItemDelivered ==
  \A i \in 1..MaxPushes :
    (\E n \in DOMAIN accepted : accepted[n] = i) ~> (\E n \in DOMAIN delivered : delivered[n] = i)

(* No call blocks for ever once the queue is closed. *)
CloseReleasesEveryone == closed ~> [](\A t \in Threads : pc[t] # "waiting")

(* Backpressure ends: while consumers keep popping, a push() returns. *)
EveryPushReturns == \A p \in Producers : pc[p] = "enter" ~> pc[p] = "idle"

(* pop_for() returns whether or not anything is ever pushed. *)
PopForReturns == \A c \in Consumers : (pc[c] = "waiting" /\ op[c] = "pop_for") ~> pc[c] = "idle"

(* Every call takes effect at one instant: TSQueue implements the channel. *)
Pending == [t \in Threads |-> IF pc[t] \in {"enter", "waiting", "expired"} THEN op[t] ELSE "none"]

Channel == INSTANCE ClosableChannel
             WITH sent <- accepted, received <- delivered, shut <- closed,
                  pending <- Pending, arg <- item, outcome <- result
Linearizable == Channel!ChanSpec
=============================================================================
