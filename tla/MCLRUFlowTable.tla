--------------------------- MODULE MCLRUFlowTable ---------------------------
(* LRUFlowTable with a few tuples and tables of at most two flows. *)
EXTENDS LRUFlowTable, TLC

Symmetry == Permutations(Nodes)
=============================================================================
