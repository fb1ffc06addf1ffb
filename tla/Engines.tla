------------------------------- MODULE Engines -------------------------------
(***************************************************************************)
(* The two engines on the same capture: the single-threaded one            *)
(* (SimpleEngine) and a fast path of the multi-threaded one (FastPath).    *)
(***************************************************************************)
EXTENDS SimpleEngine

CONSTANTS SCAN_MAX_PKTS, DDOS_MIN_PACKETS, EXFIL_MIN_BYTES, max_flows

VARIABLES flow_table, evictions, f_forwarded, f_dropped, classified, anomalies, log

fastVars == <<flow_table, evictions, f_forwarded, f_dropped, classified, anomalies, log>>
bothVars == <<vars, fastVars>>

Parser == INSTANCE PacketParser
AppHint == [t \in Tuples |-> Parser!app_hint(PortsOf[t].src, PortsOf[t].dst)]

Fast == INSTANCE FastPath
          WITH Hint <- AppHint, rules_ <- rules, forwarded <- f_forwarded, dropped <- f_dropped

ASSUME EnginesAssumption ==
  /\ max_flows \in Nat
  /\ SCAN_MAX_PKTS \in Nat /\ DDOS_MIN_PACKETS \in Nat \ {0, 1} /\ EXFIL_MIN_BYTES \in Nat
  /\ \A p \in Packets : /\ p.flags \subseteq {"SYN", "FIN", "RST"}
                        /\ p.size \in Nat \ {0} /\ p.entropy \in 0..Fast!MaxEntropy

BothInit == Init /\ Fast!Init

(* One packet, taken by both. *)
BothTake(p) == /\ Drop(p) \/ Forward(p)
               /\ Fast!FastDrop(p) \/ Fast!BlockAndDrop(p) \/ Fast!Forward(p)

(* A record that cannot be parsed does not get as far as a fast path. *)
BothUnparsed == ForwardUnparsed /\ UNCHANGED fastVars

BothNext == \/ \E p \in Packets : BothTake(p)
            \/ BothUnparsed
            \/ UNCHANGED bothVars

BothSpec == BothInit /\ [][BothNext]_bothVars

(* The decision logic exists twice, in main_simple.cpp and fast_path.cpp.  *)
(* Until the fast path evicts a flow, the engines forward, drop and delay  *)
(* the same packets of every flow, but for those whose port-based app type *)
(* is the subject of a rule: these the single-threaded engine blocks only  *)
(* now and then, and never delays.                                         *)
EnginesAgree ==
  evictions = 0 =>
    /\ Cardinality(Parsed) = Len(log)
    /\ \A j \in Parsed :
         LET i == Cardinality({k \in Parsed : k <= j}) IN
         /\ output[j].packet = log[i].packet
         /\ {PortApp(Of(j)), AppHint[Of(j)]} \cap (rules.apps \cup rules.throttled) = {} =>
              output[j].verdict = log[i].verdict /\ output[j].delayed = log[i].delayed
=============================================================================
