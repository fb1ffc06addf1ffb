------------------------------ MODULE FastPath ------------------------------
(***************************************************************************)
(* FastPath::processPacket and classifyFlow, src/fast_path.cpp: what one   *)
(* fast path, alone with its flow table, decides about each packet.        *)
(*                                                                         *)
(* A packet is [tuple, host, flags, size, entropy]; host is what           *)
(* SNIExtractor::extractAny finds in its payload.  The table is the one    *)
(* FlowTable specifies and LRUFlowTable implements.                        *)
(***************************************************************************)
EXTENDS Rules, FlowAnalyzer, FiniteSetsExt

CONSTANTS
  Tuples, SrcIP, Hint,     \* 5-tuples, their source address, their app_hint
  Packets,                 \* the packets considered
  NoHost, NoPayload,       \* no hostname found; no payload to look into
  rules_,                  \* the rules: [ips, apps, domains, throttled]
  max_flows,               \* capacity of the flow table
  MaxPackets               \* bound: packets in a behaviour

ASSUME FastPathAssumption ==
  /\ Hint \in [Tuples -> {UNKNOWN, "HTTP", "HTTPS", "DNS"}]
  /\ DOMAIN SrcIP = Tuples
  /\ NoHost \notin Names /\ NoPayload \notin Names /\ NoHost # NoPayload
  /\ \A p \in Packets :
       /\ p.tuple \in Tuples /\ p.host \in (Names \ {""}) \cup {NoHost, NoPayload}
       /\ p.flags \subseteq {"SYN", "FIN", "RST"}

MaxEntropy == 8000    \* eight bits

ASSUME MeasureAssumption == \A p \in Packets : p.size \in Nat \ {0} /\ p.entropy \in 0..MaxEntropy

ASSUME CapacityAssumption == max_flows \in Nat /\ MaxPackets \in Nat

VARIABLES flow_table, evictions,                      \* flow_table_
          forwarded, dropped, classified, anomalies,  \* the counters
          log                                         \* history: the packets and what became of them

vars == <<flow_table, evictions, forwarded, dropped, classified, anomalies, log>>

NewFlow == [sni |-> "", app_type |-> UNKNOWN, blocked |-> FALSE, throttled |-> FALSE, classified |-> FALSE,
            packet_count |-> 0, byte_count |-> 0, squares |-> 0, syn |-> 0, fin |-> 0, rst |-> 0,
            entropy |-> 0, anomaly |-> [type |-> "NONE", score |-> 0]]

Table == INSTANCE FlowTable WITH limit <- max_flows, table <- flow_table, forgotten <- evictions,
                                 Limits <- {max_flows}

Init == /\ Table!TableInit
        /\ forwarded = 0 /\ dropped = 0 /\ classified = 0 /\ anomalies = 0
        /\ log = <<>>

-----------------------------------------------------------------------------
HasPayload(p) == p.host # NoPayload
One(b) == IF b THEN 1 ELSE 0

IPBlocked(p) == isBlocked(rules_, SrcIP[p.tuple], UNKNOWN, "")

(* Mutant: the port-based hint overwrites what is known of the flow. *)
OpenedAlways(f, p) == [f EXCEPT !.app_type = Hint[p.tuple], !.blocked = IPBlocked(p)]

(* A new flow starts from the hint and the IP rule. *)
Opened(f, p) ==
  IF f.packet_count # 0 THEN f
  ELSE [f EXCEPT !.app_type = Hint[p.tuple], !.blocked = IPBlocked(p)]

(* Every packet is counted and measured, dropped or not. *)
Measured(f, p) ==
  [f EXCEPT !.packet_count = @ + 1,
            !.byte_count = @ + p.size,
            !.squares = @ + p.size * p.size,
            !.syn = @ + One("SYN" \in p.flags),
            !.fin = @ + One("FIN" \in p.flags),
            !.rst = @ + One("RST" \in p.flags),
            !.entropy = IF HasPayload(p) THEN p.entropy ELSE @]

(* Mutant: every hostname reclassifies the flow. *)
NewsAlways(f, p) == p.host \in Names

(* The packet tells what the flow is, and nothing did before. *)
News(f, p) == ~f.classified /\ p.host \in Names

(* Mutant: a throttled flow stays throttled when it is classified. *)
classifyKeepsThrottle(f, p) ==
  IF ~News(f, p) THEN f
  ELSE [f EXCEPT !.sni = p.host, !.app_type = AppOfName[p.host], !.classified = TRUE,
                 !.throttled = @ \/ isThrottled(rules_, AppOfName[p.host])]

classifyFlow(f, p) ==
  IF ~News(f, p) THEN f
  ELSE [f EXCEPT !.sni = p.host, !.app_type = AppOfName[p.host], !.classified = TRUE,
                 !.throttled = isThrottled(rules_, AppOfName[p.host])]

ToBlock(f, p) ==
  IF f.classified THEN isBlocked(rules_, SrcIP[p.tuple], f.app_type, f.sni) ELSE IPBlocked(p)

(* Mutant: a flow is scored one packet late. *)
DueLate(f) == f.packet_count > 5 /\ f.packet_count % 5 = 1

Due(f) == f.packet_count >= 5 /\ f.packet_count % 5 = 0
Scored(f) == IF Due(f) THEN [f EXCEPT !.anomaly = score(f)] ELSE f
Throttled(f) == [f EXCEPT !.throttled = @ \/ isThrottled(rules_, f.app_type)]

(* The flow as the packet finds it, and as DPI leaves it. *)
Arrived(p) == LET f == Table!Lookup(flow_table, p.tuple) IN Measured(Opened(f, p), p)
Inspected(p) == classifyFlow(Arrived(p), p)

Record(p, flow, verdict, delayed, flagged) ==
  /\ Len(log) < MaxPackets
  /\ flow_table' = Table!Store(flow_table, max_flows, p.tuple, flow)
  /\ evictions' = evictions + One(~Table!Holds(flow_table, p.tuple)
                                  /\ Len(flow_table) >= Table!Bound(max_flows))
  /\ log' = Append(log, [packet |-> p, verdict |-> verdict, delayed |-> delayed, flagged |-> flagged])

Drop == dropped' = dropped + 1 /\ UNCHANGED <<forwarded, anomalies>>

(* The flow is already blocked: no inspection. *)
FastDrop(p) ==
  /\ Arrived(p).blocked
  /\ Record(p, Arrived(p), "drop", FALSE, FALSE)
  /\ Drop /\ UNCHANGED classified

(* The rules block the flow from now on. *)
BlockAndDrop(p) ==
  /\ ~Arrived(p).blocked /\ ToBlock(Inspected(p), p)
  /\ Record(p, [Inspected(p) EXCEPT !.blocked = TRUE], "drop", FALSE, FALSE)
  /\ Drop /\ classified' = classified + One(News(Arrived(p), p))

Forward(p) ==
  /\ ~Arrived(p).blocked /\ ~ToBlock(Inspected(p), p)
  /\ LET f == Throttled(Scored(Inspected(p)))
         flagged == Due(f) /\ f.anomaly.score >= FLAG_THRESHOLD
     IN /\ Record(p, f, "forward", f.throttled, flagged)
        /\ anomalies' = anomalies + One(flagged)
  /\ forwarded' = forwarded + 1
  /\ classified' = classified + One(News(Arrived(p), p))
  /\ UNCHANGED dropped

(* The input queue is closed and drained, or nothing more arrives. *)
Idle == UNCHANGED vars

Next == (\E p \in Packets : FastDrop(p) \/ BlockAndDrop(p) \/ Forward(p)) \/ Idle

Spec == Init /\ [][Next]_vars

-----------------------------------------------------------------------------
(* The final report: DPIEngine::collectStats and printReport on the flows  *)
(* that are still in the table.                                            *)
Flows == {flow_table[i].flow : i \in DOMAIN flow_table}
Kept  == {flow_table[i] : i \in DOMAIN flow_table}

SumOver(S, val) == MapThenSumSet(LAMBDA x : val[x], S)

app_totals ==
  [a \in {f.app_type : f \in Flows} |->
     LET entries == {e \in Kept : e.flow.app_type = a} IN SumOver(entries, [e \in entries |-> e.flow.packet_count])]
detected_snis == {f.sni : f \in Flows} \ {""}

(* Mutant: a name is marked like the application it belongs to. *)
MarkedByApp(sni) == AppOfName[sni] \in rules_.apps

(* [BLOCKED] behind a name: the rules are asked with the address 0. *)
MarkedBlocked(sni) == isBlocked(rules_, "0.0.0.0", AppOfName[sni], sni)

total_anomalies == Cardinality({e \in Kept : e.flow.anomaly.score >= FLAG_THRESHOLD})

-----------------------------------------------------------------------------
(* What a packet's fate should be, told from the packets before it alone.  *)
(* The table remembers a flow as long as fewer other flows than it holds   *)
(* came between two of its packets: Memory(i) are the packets whose traces *)
(* the flow of packet i carries.                                           *)
Of(i)      == log[i].packet.tuple
Earlier(i) == {j \in 1..(i - 1) : Of(j) = Of(i)}
Forgot(i)  == Earlier(i) = {}
              \/ Cardinality({Of(k) : k \in (Max(Earlier(i)) + 1)..(i - 1)}) >= Table!Bound(max_flows)
Start(i)   == Max({j \in Earlier(i) \cup {i} : Forgot(j)})
Memory(i)  == LET start == Start(i) IN {j \in start..i : Of(j) = Of(i)}

Tells(i) == {j \in Memory(i) : log[j].packet.host \in Names}
HostOf(i) == log[Min(Tells(i))].packet.host
AppAt(i) == IF Tells(i) = {} THEN Hint[Of(i)] ELSE AppOfName[HostOf(i)]

(* A packet is dropped iff its address is blocked, or the first hostname   *)
(* its remembered flow has shown is, itself or by its application: later   *)
(* hostnames, port hints and the order of the rules do not matter, and     *)
(* blocked flows stay blocked until they are evicted.                      *)
VerdictFollowsHistory ==
  \A i \in DOMAIN log :
    log[i].verdict = "drop" <=>
      \/ isBlocked(rules_, SrcIP[Of(i)], UNKNOWN, "")
      \/ Tells(i) # {} /\ isBlocked(rules_, SrcIP[Of(i)], AppOfName[HostOf(i)], HostOf(i))

(* A packet is delayed iff its flow's application, as known by then, is    *)
(* throttled: the sticky flag does not outlive a better classification.    *)
DelayFollowsTheApp ==
  \A i \in DOMAIN log :
    log[i].verdict = "forward" => (log[i].delayed <=> isThrottled(rules_, AppAt(i)))

(* The last packet of a resident flow. *)
LastOf(t) == Max({i \in DOMAIN log : Of(i) = t})

(* The features of a flow made of the packets S. *)
Features(S, app) ==
  LET flags(x) == Cardinality({j \in S : x \in log[j].packet.flags})
      loaded == {j \in S : HasPayload(log[j].packet)}
  IN [app_type |-> app, packet_count |-> Cardinality(S),
      byte_count |-> SumOver(S, [j \in S |-> log[j].packet.size]),
      squares |-> SumOver(S, [j \in S |-> log[j].packet.size * log[j].packet.size]),
      syn |-> flags("SYN"), fin |-> flags("FIN"), rst |-> flags("RST"),
      entropy |-> IF loaded = {} THEN 0 ELSE log[Max(loaded)].packet.entropy]

(* The first n of the packets S. *)
FirstOf(S, n) == {j \in S : Cardinality({k \in S : k <= j}) <= n}

(* The anomaly reported for a flow that is not blocked is the score of its *)
(* features at its last multiple of five packets, and older flows' traces  *)
(* do not enter it.                                                        *)
ScoreIsOfLastMultipleOfFive ==
  \A e \in {flow_table[i] : i \in DOMAIN flow_table} :
    LET i == LastOf(e.tuple)
        n == 5 * (Cardinality(Memory(i)) \div 5)
    IN log[i].verdict = "forward" =>
         e.flow.anomaly = IF n = 0 THEN NewFlow.anomaly
                          ELSE LET S == FirstOf(Memory(i), n) IN score(Features(S, AppAt(Max(S))))

(* The counters tell what happened: a flow is counted as classified once   *)
(* each time it is opened, however it ends.                                *)
CountersAddUp ==
  /\ forwarded + dropped = Len(log)
  /\ anomalies = Cardinality({i \in DOMAIN log : log[i].flagged})
  /\ evictions + Len(flow_table) = Cardinality({i \in DOMAIN log : Forgot(i)})
  /\ classified = Cardinality({Min(Tells(i)) : i \in {i \in DOMAIN log :
                      Tells(i) # {} /\ ~isBlocked(rules_, SrcIP[Of(i)], UNKNOWN, "")}})

(* The report tells the history of the flows the table has not forgotten:  *)
(* it counts their packets under what is known of them at the end, shows   *)
(* the first name each has shown, counts those whose last scoring found an *)
(* anomaly; and the flows of a name are being dropped iff it is marked.    *)
ReportTellsTheHistory ==
  LET last   == {LastOf(e.tuple) : e \in Kept}
      memory == [i \in last |-> Memory(i)]
      names  == [i \in last |-> IF isBlocked(rules_, SrcIP[Of(i)], UNKNOWN, "") THEN {}
                                ELSE {j \in memory[i] : log[j].packet.host \in Names}]
      name   == [i \in {i \in last : names[i] # {}} |-> log[Min(names[i])].packet.host]
      apps   == [i \in last |-> IF names[i] = {} THEN Hint[Of(i)] ELSE AppOfName[name[i]]]
      scored == [i \in last |-> {j \in memory[i] : /\ log[j].verdict = "forward"
                                                   /\ Cardinality({k \in memory[i] : k <= j}) % 5 = 0}]
  IN /\ app_totals = [a \in {apps[i] : i \in last} |-> Cardinality(UNION {memory[i] : i \in {i \in last : apps[i] = a}})]
     /\ detected_snis = {name[i] : i \in DOMAIN name}
     /\ \A i \in DOMAIN name : MarkedBlocked(name[i]) <=> log[i].verdict = "drop"
     /\ total_anomalies = Cardinality({i \in last : scored[i] # {} /\ log[Max(scored[i])].flagged})

-----------------------------------------------------------------------------
(* Statements the documentation makes. *)

(* rule_manager.h:7 "App blacklist: block all traffic of a specific app    *)
(* type": no packet of a flow whose app type is blocked is forwarded.      *)
BlockedAppsAreBlocked ==
  \A i \in DOMAIN log : log[i].verdict = "forward" => AppAt(i) \notin rules_.apps

(* ANOMALY_DETECTION_REFERENCE.md:101-110 flows of "1-3 packets": "Each ->  *)
(* score=0.85 -> PORT_SCAN alert".                                         *)
PortScansAreReported ==
  \A e \in {flow_table[i] : i \in DOMAIN flow_table} :
    LET f == e.flow IN
    (~f.blocked /\ f.packet_count \in 2..3 /\ f.syn = f.packet_count /\ f.byte_count < 128 * f.packet_count)
      => f.anomaly.type = "PORT_SCAN"

(* ARCHITECTURE.md:541 evicted flows cause "false negatives, not false     *)
(* positives": a packet is flagged only if its flow, remembered from its   *)
(* first packet on, would have been suspicious at some point, too.         *)
WholeFlow(i) == {j \in 1..i : Of(j) = Of(i)}

EvictionMakesNoFalsePositive ==
  \A i \in DOMAIN log : log[i].flagged =>
    \E n \in 1..i :
      /\ n <= Cardinality(WholeFlow(i))
      /\ score(Features(FirstOf(WholeFlow(i), n), AppAt(i))).score >= FLAG_THRESHOLD
=============================================================================
