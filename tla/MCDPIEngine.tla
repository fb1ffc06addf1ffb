---------------------------- MODULE MCDPIEngine ----------------------------
(* DPIEngine on small captures and few threads. *)
EXTENDS DPIEngine, TLC

CONSTANTS f0, f1   \* 5-tuples, named after their hash

Hash1 == f0 :> 0
Hash2 == Hash1 @@ f1 :> 1

(* Every capture of at most three records. *)
Captures3 == UNION {[1..k -> Flows \cup {Junk, Corrupt}] : k \in 0..3}

(* And one of a single flow, long enough to fill every queue and every     *)
(* hand between the reader and the writer, and one more.                   *)
CapturesLive == Captures3 \cup {[i \in 1..8 |-> f0]}

OneFlow == {[i \in 1..6 |-> f0]}
=============================================================================
