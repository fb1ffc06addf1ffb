--------------------------- MODULE ClosableChannel ---------------------------
(***************************************************************************)
(* What TSQueue<T> promises its callers, with no lock and no condition     *)
(* variable: every call takes effect at one instant between its start and  *)
(* its return.  The channel is two histories, `sent' and `received'; the   *)
(* items in flight are the part of `sent' that is not in `received' yet.   *)
(***************************************************************************)
EXTENDS Naturals, Sequences

CONSTANTS Producers, Consumers, Closers, Capacity

Threads == Producers \cup Consumers \cup Closers
PushOps == {"push", "try_push"}
PopOps  == {"pop", "try_pop", "pop_for"}

VARIABLES sent,      \* items accepted, in order
          received,  \* items handed out, in order
          shut,      \* close() has taken effect
          pending,   \* the operation a thread is inside, "none" outside
          arg,       \* the item a producer's call carries
          outcome    \* how a thread's last call ended: "ok" or "fail"

chanVars == <<sent, received, shut, pending, arg, outcome>>

Drained == Len(received) = Len(sent)
Full    == Len(sent) - Len(received) >= Capacity

ChanInit == /\ sent = <<>> /\ received = <<>> /\ shut = FALSE
            /\ pending = [t \in Threads |-> "none"]
            /\ arg = [p \in Producers |-> 0]
            /\ outcome = [t \in Threads |-> "none"]

Begin(t, o) == /\ pending[t] = "none"
               /\ pending' = [pending EXCEPT ![t] = o]
               /\ UNCHANGED <<sent, received, shut, outcome>>

BeginPush(p) == /\ \E o \in PushOps : Begin(p, o)
                /\ arg'[p] \in Nat /\ arg' = [arg EXCEPT ![p] = arg'[p]]
BeginPop(c)  == \E o \in PopOps : Begin(c, o) /\ UNCHANGED arg
BeginClose(k) == Begin(k, "close") /\ UNCHANGED arg

End(t, res) == /\ pending' = [pending EXCEPT ![t] = "none"]
               /\ outcome' = [outcome EXCEPT ![t] = res]
               /\ UNCHANGED arg

(* An item is accepted only by an open channel with room. *)
Accept(p) == /\ pending[p] \in PushOps /\ ~shut /\ ~Full
             /\ sent' = Append(sent, arg[p])
             /\ End(p, "ok") /\ UNCHANGED <<received, shut>>

(* push() fails only on a closed channel, try_push() also on a full one. *)
Refuse(p) == /\ \/ pending[p] \in PushOps /\ shut
                \/ pending[p] = "try_push" /\ Full
             /\ End(p, "fail") /\ UNCHANGED <<sent, received, shut>>

(* The oldest item in flight, and no other, is handed out. *)
Deliver(c) == /\ pending[c] \in PopOps /\ ~Drained
              /\ received' = Append(received, sent[Len(received) + 1])
              /\ End(c, "ok") /\ UNCHANGED <<sent, shut>>

(* pop() gives nullopt only when closed and drained; try_pop() and pop_for() *)
(* give up on an open channel too, but never while an item is in flight.    *)
GiveUp(c) == /\ Drained
             /\ \/ pending[c] \in {"try_pop", "pop_for"}
                \/ pending[c] = "pop" /\ shut
             /\ End(c, "fail") /\ UNCHANGED <<sent, received, shut>>

Shut(k) == /\ pending[k] = "close"
           /\ shut' = TRUE
           /\ End(k, "ok") /\ UNCHANGED <<sent, received>>

ChanNext == \/ \E p \in Producers : BeginPush(p) \/ Accept(p) \/ Refuse(p)
            \/ \E c \in Consumers : BeginPop(c) \/ Deliver(c) \/ GiveUp(c)
            \/ \E k \in Closers : BeginClose(k) \/ Shut(k)

ChanSpec == ChanInit /\ [][ChanNext]_chanVars
=============================================================================
