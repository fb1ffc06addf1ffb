------------------------------ MODULE FlowTable ------------------------------
(***************************************************************************)
(* What a FastPath relies on: a table of at most Bound flows, kept in the  *)
(* order of their last use, that forgets the least recently used one when  *)
(* it needs room.  The operators work on a table as a value, so that       *)
(* FastPath can use them too.                                              *)
(***************************************************************************)
EXTENDS SequencesExt

CONSTANTS Tuples, Limits, NewFlow

VARIABLES limit,      \* how many flows were asked for
          table,      \* [tuple, flow] entries, most recently used last
          forgotten   \* how many entries were evicted

tableVars == <<limit, table, forgotten>>

(* A table for no flow at all still holds the one in use. *)
Bound(max) == IF max = 0 THEN 1 ELSE max

Holds(tbl, t)   == \E i \in DOMAIN tbl : tbl[i].tuple = t
Place(tbl, t)   == CHOOSE i \in DOMAIN tbl : tbl[i].tuple = t
FlowOf(tbl, t)  == tbl[Place(tbl, t)].flow
Without(tbl, t) == IF Holds(tbl, t) THEN RemoveAt(tbl, Place(tbl, t)) ELSE tbl

Used(tbl, t, flow) == Append(Without(tbl, t), [tuple |-> t, flow |-> flow])

(* Finding or creating t's flow, its new value being flow. *)
Store(tbl, max, t, flow) ==
  IF ~Holds(tbl, t) /\ Len(tbl) >= Bound(max) THEN Used(Tail(tbl), t, flow) ELSE Used(tbl, t, flow)
Lookup(tbl, t) == IF Holds(tbl, t) THEN FlowOf(tbl, t) ELSE NewFlow

TableInit == limit \in Limits /\ table = <<>> /\ forgotten = 0

GetOrCreate(t) ==
  /\ table' = Store(table, limit, t, Lookup(table, t))
  /\ forgotten' = forgotten + (IF ~Holds(table, t) /\ Len(table) >= Bound(limit) THEN 1 ELSE 0)
  /\ UNCHANGED limit

Get(t) == /\ Holds(table, t)
          /\ table' = Used(table, t, FlowOf(table, t))
          /\ UNCHANGED <<limit, forgotten>>

(* The caller changes the flow it was given last. *)
Change == /\ table # <<>> /\ DOMAIN table' = DOMAIN table
          /\ table' = [table EXCEPT ![Len(table)].flow = table'[Len(table)].flow]
          /\ UNCHANGED <<limit, forgotten>>

Clear == table' = <<>> /\ UNCHANGED <<limit, forgotten>>

TableSpec == TableInit /\ [][(\E t \in Tuples : GetOrCreate(t) \/ Get(t)) \/ Change \/ Clear]_tableVars
=============================================================================
