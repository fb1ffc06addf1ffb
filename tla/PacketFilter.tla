---------------------------- MODULE PacketFilter ----------------------------
(***************************************************************************)
(* What the engine promises, with no threads and no queues: every packet   *)
(* of the capture that can be parsed is emitted or discarded, exactly      *)
(* once; the packets of one flow are emitted in capture order; and the     *)
(* report is made when every packet taken has been decided, and counts     *)
(* what really happened.                                                   *)
(***************************************************************************)
EXTENDS Naturals, Sequences, FiniteSets

CONSTANTS Flows

VARIABLES capture,    \* the records of the input file
          taken,      \* how many of them have been read
          emitted,    \* the output file: indices into capture
          discarded,  \* the packets dropped by policy
          report      \* the statistics returned, NoReport before that

filterVars == <<capture, taken, emitted, discarded, report>>

NoReport == [total |-> 0, forwarded |-> 0, dropped |-> 0, made |-> FALSE]

Emitted    == {emitted[n] : n \in DOMAIN emitted}
Packets    == {i \in 1..taken : capture[i] \in Flows}
Undecided  == Packets \ (Emitted \cup discarded)

FilterInit == /\ taken = 0 /\ emitted = <<>> /\ discarded = {}
              /\ report = NoReport

Take == /\ ~report.made /\ taken < Len(capture)
        /\ taken' = taken + 1
        /\ UNCHANGED <<capture, emitted, discarded, report>>

Emit(i) == /\ ~report.made
           /\ \A j \in Emitted : capture[j] = capture[i] => j < i
           /\ emitted' = Append(emitted, i)
           /\ UNCHANGED <<capture, taken, discarded, report>>

Discard(i) == /\ ~report.made
              /\ discarded' = discarded \cup {i}
              /\ UNCHANGED <<capture, taken, emitted, report>>

(* Either the whole capture was read or it could not be opened. *)
Finish == /\ ~report.made /\ taken \in {0, Len(capture)} /\ Undecided = {}
          /\ report' = [total |-> taken, forwarded |-> Len(emitted),
                        dropped |-> Cardinality(discarded), made |-> TRUE]
          /\ UNCHANGED <<capture, taken, emitted, discarded>>

FilterNext == Take \/ (\E i \in Undecided : Emit(i) \/ Discard(i)) \/ Finish

FilterSpec == FilterInit /\ [][FilterNext]_filterVars
=============================================================================
