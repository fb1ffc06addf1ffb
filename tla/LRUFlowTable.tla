---------------------------- MODULE LRUFlowTable ----------------------------
(***************************************************************************)
(* include/lru_flow_table.h: a hash map of pointers into a linked list.    *)
(* List nodes are allocated and freed, and a freed node may be handed out  *)
(* again, so a stale pointer would silently refer to another flow.         *)
(*                                                                         *)
(* A flow is abstracted to its packet count, which its user raises once    *)
(* through the reference getOrCreate() or get() returned.                  *)
(***************************************************************************)
EXTENDS SequencesExt

CONSTANTS Tuples,
          Nodes,      \* addresses the allocator hands out
          NoNode,     \* no address
          Limits,     \* the values of max_flows considered
          MaxCalls    \* bound: calls in a behaviour

ASSUME LRUFlowTableAssumption ==
  /\ Limits \subseteq Nat
  /\ Tuples # {} /\ NoNode \notin Nodes
  /\ MaxCalls \in Nat
  /\ \A n \in Limits : Cardinality(Nodes) > n

VARIABLES max_flows,        \* max_flows_
          flows_map,        \* flows_map_: tuple -> node
          lru_list,         \* lru_list_: nodes, least recently used first
          tupleAt, flowAt,  \* the contents of a node
          evictions_total,  \* evictions_total_
          ref,              \* the node the last call returned, if still to be used
          calls,            \* history: the tuples of the calls since clear()
          cleared,          \* history: clear() has dropped flows
          refTuple,         \* history: the tuple ref was asked for
          expected          \* history: what each resident flow should contain

vars == <<max_flows, flows_map, lru_list, tupleAt, flowAt, evictions_total, ref,
          calls, cleared, refTuple, expected>>

AnyTuple == CHOOSE t \in Tuples : TRUE

Init ==
  /\ max_flows \in Limits
  /\ flows_map = <<>> /\ lru_list = <<>>
  /\ tupleAt = [n \in Nodes |-> AnyTuple] /\ flowAt = [n \in Nodes |-> 0]
  /\ evictions_total = 0
  /\ ref = NoNode
  /\ calls = <<>> /\ cleared = FALSE
  /\ refTuple = AnyTuple /\ expected = [t \in Tuples |-> 0]

Size      == Cardinality(DOMAIN flows_map)
Allocated == {lru_list[i] : i \in DOMAIN lru_list}
Splice(n) == LET at == CHOOSE i \in DOMAIN lru_list : lru_list[i] = n
             IN Append(RemoveAt(lru_list, at), n)

Called(t, n) == /\ Len(calls) < MaxCalls
                /\ calls' = Append(calls, t)
                /\ ref' = n /\ refTuple' = t

(* Mutant: a flow that is found keeps its place in the list. *)
FoundWithoutSplice(t) ==
  /\ t \in DOMAIN flows_map
  /\ Called(t, flows_map[t])
  /\ UNCHANGED <<max_flows, flows_map, lru_list, tupleAt, flowAt, evictions_total, cleared, expected>>

(* The flow exists: getOrCreate() and get() do the same. *)
Found(t) ==
  /\ t \in DOMAIN flows_map
  /\ lru_list' = Splice(flows_map[t])
  /\ Called(t, flows_map[t])
  /\ UNCHANGED <<max_flows, flows_map, tupleAt, flowAt, evictions_total, cleared, expected>>

(* Mutant: the map keeps the pointer to the node that is freed. *)
EvictKeepsPointer ==
  IF lru_list = <<>> THEN [list |-> lru_list, map |-> flows_map, count |-> 0]
  ELSE [list |-> Tail(lru_list), map |-> flows_map, count |-> 1]

(* Mutant: the pointer of the evicted flow is nulled, its key stays. *)
EvictNulls ==
  IF lru_list = <<>> THEN [list |-> lru_list, map |-> flows_map, count |-> 0]
  ELSE [list  |-> Tail(lru_list),
        map   |-> [flows_map EXCEPT ![tupleAt[Head(lru_list)]] = NoNode],
        count |-> 1]

(* evictLRU(): what it leaves of the list and of the map. *)
evictLRU ==
  IF lru_list = <<>> THEN [list |-> lru_list, map |-> flows_map, count |-> 0]
  ELSE LET gone == tupleAt[Head(lru_list)] IN
       [list  |-> Tail(lru_list),
        map   |-> [t \in DOMAIN flows_map \ {gone} |-> flows_map[t]],
        count |-> 1]

(* Mutant: the entry that makes the table too large is let in first. *)
FullTooLate == Size > max_flows

Full == Size >= max_flows

(* Mutant: a node is recycled with the flow that was in it. *)
RecycledFlow(n) == flowAt[n]

(* The flow in a new entry. *)
EmptyFlow(n) == 0

(* getOrCreate() of a tuple that is not there. *)
Create(t) ==
  /\ t \notin DOMAIN flows_map
  /\ LET kept == IF Full THEN evictLRU ELSE [list |-> lru_list, map |-> flows_map, count |-> 0] IN
     \E n \in Nodes \ {kept.list[i] : i \in DOMAIN kept.list} :
       /\ lru_list' = Append(kept.list, n)
       /\ flows_map' = [u \in DOMAIN kept.map \cup {t} |-> IF u = t THEN n ELSE kept.map[u]]
       /\ evictions_total' = evictions_total + kept.count
       /\ tupleAt' = [tupleAt EXCEPT ![n] = t]
       /\ flowAt' = [flowAt EXCEPT ![n] = EmptyFlow(n)]
       /\ Called(t, n)
  /\ expected' = [expected EXCEPT ![t] = 0]
  /\ UNCHANGED <<max_flows, cleared>>

(* The user of the table writes through the reference it was given. *)
UseRef ==
  /\ ref # NoNode
  /\ flowAt' = [flowAt EXCEPT ![ref] = @ + 1]
  /\ expected' = [expected EXCEPT ![refTuple] = @ + 1]
  /\ ref' = NoNode
  /\ UNCHANGED <<max_flows, flows_map, lru_list, tupleAt, evictions_total, calls, cleared, refTuple>>

ClearOnce == ~cleared       \* bound: clear() drops flows at most once

clear ==
  /\ ClearOnce
  /\ flows_map' = <<>> /\ lru_list' = <<>>
  /\ ref' = NoNode /\ calls' = <<>>
  /\ cleared' = (lru_list # <<>>)
  /\ UNCHANGED <<max_flows, tupleAt, flowAt, evictions_total, refTuple, expected>>

(* Nobody need call the table again. *)
Idle == ref = NoNode /\ UNCHANGED vars

Next == (\E t \in Tuples : Found(t) \/ Create(t)) \/ UseRef \/ clear \/ Idle

Spec == Init /\ [][Next]_vars

-----------------------------------------------------------------------------
(* exportFlows(): later entries for a tuple overwrite earlier ones. *)
exportFlows == [t \in {tupleAt[n] : n \in Allocated} |->
                  LET last == CHOOSE i \in DOMAIN lru_list :
                                /\ tupleAt[lru_list[i]] = t
                                /\ \A j \in DOMAIN lru_list : tupleAt[lru_list[j]] = t => j <= i
                  IN flowAt[lru_list[last]]]

TypeOK ==
  /\ max_flows \in Limits
  /\ DOMAIN flows_map \subseteq Tuples /\ \A t \in DOMAIN flows_map : flows_map[t] \in Nodes
  /\ lru_list \in Seq(Nodes)
  /\ tupleAt \in [Nodes -> Tuples] /\ flowAt \in [Nodes -> Nat]
  /\ evictions_total \in Nat /\ ref \in Nodes \cup {NoNode}
  /\ Len(calls) <= MaxCalls

(* The map and the list describe the same flows: every pointer leads to a  *)
(* linked node of its own tuple and every linked node has its pointer; so  *)
(* size() is the length of the list, which never exceeds the limit (one    *)
(* entry if the limit is zero).                                            *)
MapMatchesList ==
  /\ Allocated = {flows_map[t] : t \in DOMAIN flows_map}
  /\ \A t \in DOMAIN flows_map : tupleAt[flows_map[t]] = t
  /\ Size = Len(lru_list)
  /\ Size <= (IF max_flows = 0 THEN 1 ELSE max_flows)

(* The reference that was returned is still a flow of the table, that of   *)
(* the tuple asked for, and no flow was ever written through a stale one.  *)
NoAliasing ==
  /\ ref # NoNode => refTuple \in DOMAIN flows_map /\ flows_map[refTuple] = ref
  /\ exportFlows = [t \in DOMAIN flows_map |-> expected[t]]

(* The flows kept are the most recently used ones: a tuple is resident iff *)
(* fewer different tuples than fit were asked for after it.                *)
UsedSince(i) == {calls[j] : j \in {j \in DOMAIN calls : j > i}}
KeepsMostRecent ==
  \A t \in Tuples :
    t \in DOMAIN flows_map <=>
      \E i \in DOMAIN calls :
        /\ calls[i] = t
        /\ Cardinality(UsedSince(i) \ {t}) < (IF max_flows = 0 THEN 1 ELSE max_flows)

Table == INSTANCE FlowTable
           WITH limit <- max_flows, forgotten <- evictions_total, NewFlow <- 0,
                table <- [i \in DOMAIN lru_list |->
                            [tuple |-> tupleAt[lru_list[i]], flow |-> flowAt[lru_list[i]]]]
ImplementsFlowTable == Table!TableSpec
=============================================================================
