------------------------------ MODULE MCTSQueue ------------------------------
(* TSQueue on small sets of threads. *)
EXTENDS TSQueue, TLC

Symmetry == Permutations(Producers) \cup Permutations(Consumers)
=============================================================================
