---------------------------- MODULE FlowAnalyzer ----------------------------
(***************************************************************************)
(* FlowAnalyzer::score() of src/flow_analyzer.cpp.  Scores are in          *)
(* thousandths and entropy in thousandths of a bit.  A flow carries the    *)
(* sum and the sum of the squares of its packet sizes, from which the      *)
(* variance that the code keeps with Welford's method follows exactly.     *)
(***************************************************************************)
EXTENDS Integers

CONSTANTS
  SCAN_MAX_PKTS, DDOS_MIN_PACKETS,   \* thresholds of flow_analyzer.h:
  EXFIL_MIN_BYTES                    \* 3, 50 and 100000 there

ASSUME FlowAnalyzerAssumption ==
  SCAN_MAX_PKTS \in Nat /\ DDOS_MIN_PACKETS \in Nat \ {0, 1} /\ EXFIL_MIN_BYTES \in Nat

FLAG_THRESHOLD == 700

AnomalyTypes == {"NONE", "PORT_SCAN", "DDOS_SUSPECT", "DATA_EXFILTRATION", "HIGH_ENTROPY", "PROTOCOL_ANOMALY"}

TlsApps == {"HTTPS", "YOUTUBE", "NETFLIX", "FACEBOOK", "GOOGLE", "GITHUB", "DISCORD",
            "INSTAGRAM", "TWITTER", "WHATSAPP", "TWITCH", "REDDIT", "TIKTOK"}

AtMost1000(x) == IF x > 1000 THEN 1000 ELSE x

portScan(f) ==
  IF f.packet_count <= SCAN_MAX_PKTS /\ f.syn > 0 /\ f.fin = 0
  THEN IF f.byte_count < 128 * f.packet_count THEN 850 ELSE 500
  ELSE 0

(* n(n-1) times the variance of n sizes *)
ScaledVariance(f) == f.packet_count * f.squares - f.byte_count * f.byte_count
(* Mutant: the variance of a whole population. *)
PopulationPairs(f) == f.packet_count * f.packet_count

Pairs(f) == f.packet_count * (f.packet_count - 1)

ddos(f) ==
  IF f.packet_count >= DDOS_MIN_PACKETS /\ ScaledVariance(f) < 10 * Pairs(f)
  THEN 1000 - ((40 * ScaledVariance(f) + Pairs(f) - 1) \div Pairs(f))
  ELSE 0

exfiltration(f) ==
  LET normal == 2048 * f.packet_count IN
  IF f.byte_count >= EXFIL_MIN_BYTES /\ f.byte_count > normal
  THEN AtMost1000(500 + (500 * (f.byte_count - normal)) \div normal)
  ELSE 0

highEntropy(f) ==
  IF f.app_type \notin TlsApps /\ f.entropy > 7500 THEN AtMost1000(500 + f.entropy - 7500) ELSE 0

FlagRatio(f) ==
  LET most == IF f.syn > f.rst THEN f.syn ELSE f.rst IN
  IF f.packet_count >= 3 /\ 10 * most > 8 * f.packet_count THEN (1000 * most) \div f.packet_count ELSE 0

ChristmasTree(f) == IF f.packet_count >= 3 /\ f.syn > 0 /\ f.fin > 0 /\ f.rst > 0 THEN 900 ELSE 0

Verdicts(f) == << [type |-> "PORT_SCAN", score |-> portScan(f)],
                  [type |-> "DDOS_SUSPECT", score |-> ddos(f)],
                  [type |-> "DATA_EXFILTRATION", score |-> exfiltration(f)],
                  [type |-> "HIGH_ENTROPY", score |-> highEntropy(f)],
                  [type |-> "PROTOCOL_ANOMALY", score |-> FlagRatio(f)],
                  [type |-> "PROTOCOL_ANOMALY", score |-> ChristmasTree(f)] >>

(* The highest score wins, the earlier detector on a tie. *)
score(f) ==
  LET v == Verdicts(f)
      best == CHOOSE i \in DOMAIN v : \A j \in DOMAIN v :
                v[j].score < v[i].score \/ (v[j].score = v[i].score /\ i <= j)
  IN IF f.packet_count < 2 \/ v[best].score = 0 THEN [type |-> "NONE", score |-> 0] ELSE v[best]

-----------------------------------------------------------------------------
(* When a flow is flagged, with every detector's score solved for the      *)
(* threshold: a few small bare SYNs, a variance of at most 7.5, an average *)
(* of at least 2867.2 bytes, an entropy of at least 7.7 bits outside TLS,  *)
(* more than four SYNs or RSTs to five packets, or all three flags.        *)
Suspicious(f) ==
  \/ f.packet_count \in 2..SCAN_MAX_PKTS /\ f.syn > 0 /\ f.fin = 0 /\ f.byte_count < 128 * f.packet_count
  \/ f.packet_count >= DDOS_MIN_PACKETS /\ 2 * ScaledVariance(f) <= 15 * f.packet_count * (f.packet_count - 1)
  \/ f.packet_count >= 2 /\ f.byte_count >= EXFIL_MIN_BYTES /\ 10 * f.byte_count >= 28672 * f.packet_count
  \/ f.packet_count >= 2 /\ f.app_type \notin TlsApps /\ f.entropy >= 7700
  \/ /\ f.packet_count >= 3
     /\ \/ 5 * f.syn > 4 * f.packet_count
        \/ 5 * f.rst > 4 * f.packet_count
        \/ f.syn > 0 /\ f.fin > 0 /\ f.rst > 0

(* A flow of packet_count sizes: where the variance is looked at it is not *)
(* negative, and no flag is counted more than once per packet.             *)
WellFormed(f) ==
  /\ f.packet_count \in Nat /\ f.byte_count \in Nat /\ f.squares \in Nat /\ f.entropy \in Nat
  /\ f.syn \in 0..f.packet_count /\ f.fin \in 0..f.packet_count /\ f.rst \in 0..f.packet_count
  /\ f.packet_count >= DDOS_MIN_PACKETS => ScaledVariance(f) >= 0

(* A flow is flagged exactly when one of the conditions holds, for all the *)
(* rounding, ordering and short-cuts of score(); the score stays in [0, 1] *)
(* and an unflagged flow with a type has a score.                          *)
JudgedRight(f) ==
  /\ score(f).score >= FLAG_THRESHOLD <=> Suspicious(f)
  /\ score(f).score \in 0..1000
  /\ score(f).type = "NONE" <=> score(f).score = 0
=============================================================================
