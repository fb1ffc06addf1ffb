---------------------------- MODULE SimpleEngine ----------------------------
(***************************************************************************)
(* The single-threaded engine: the packet loop of src/main_simple.cpp.     *)
(* Packets are as in FastPath; Junk is a record that cannot be parsed.     *)
(* The flow table never forgets.                                           *)
(***************************************************************************)
EXTENDS Rules, FiniteSets

CONSTANTS
  Tuples, SrcIP,
  PortsOf,               \* tuple -> [src, dst]
  Packets, Junk,
  NoHost, NoPayload,
  rules,                 \* [ips, apps, domains, throttled]
  MaxPackets             \* bound: records in a behaviour

ASSUME SimpleEngineAssumption ==
  /\ PortsOf \in [Tuples -> [src : Nat, dst : Nat]]
  /\ DOMAIN SrcIP = Tuples
  /\ NoHost \notin Names /\ NoPayload \notin Names /\ NoHost # NoPayload
  /\ \A p \in Packets : p.tuple \in Tuples /\ p.host \in (Names \ {""}) \cup {NoHost, NoPayload}
  /\ Junk \notin Packets
  /\ MaxPackets \in Nat

VARIABLES flows,                                                 \* tuple -> flow
          total_packets, forwarded, dropped, throttled_pkts,     \* stats
          extracted,                                             \* sni_, http_, dns_extracted
          app_pkt_counts, detected_snis,                         \* of the report
          output                                                 \* what was written, and what was not

vars == <<flows, total_packets, forwarded, dropped, throttled_pkts, extracted,
          app_pkt_counts, detected_snis, output>>

NewFlow == [sni |-> "", app_type |-> UNKNOWN, blocked |-> FALSE, throttled |-> FALSE,
            classified |-> FALSE, packet_count |-> 0]

Init == /\ flows = [t \in Tuples |-> NewFlow]
        /\ total_packets = 0 /\ forwarded = 0 /\ dropped = 0 /\ throttled_pkts = 0
        /\ extracted = [sni |-> 0, http |-> 0, dns |-> 0]
        /\ app_pkt_counts = [a \in AppTypes |-> 0] /\ detected_snis = {}
        /\ output = <<>>

(* The app type the ports of a tuple suggest here. *)
On(t, port) == port \in {PortsOf[t].src, PortsOf[t].dst}
PortApp(t) == IF On(t, 443) THEN "HTTPS"
              ELSE IF On(t, 80) \/ PortsOf[t].dst = 8080 THEN "HTTP"
              ELSE IF On(t, 53) THEN "DNS" ELSE UNKNOWN

One(b) == IF b THEN 1 ELSE 0
Unseen(t) == flows[t].packet_count = 0

Counted(p) ==
  LET f == flows[p.tuple] IN
  [f EXCEPT !.packet_count = @ + 1, !.app_type = IF Unseen(p.tuple) THEN PortApp(p.tuple) ELSE @]

(* An unclassified flow is judged anew by every packet: by its port-based  *)
(* app if the packet has a payload, by its address alone otherwise.        *)
Judged(f, p) ==
  [f EXCEPT !.blocked = isBlocked(rules, SrcIP[p.tuple],
                                  IF p.host = NoPayload THEN UNKNOWN ELSE f.app_type, "")]

(* Mutant: the hostname is not part of the decision. *)
ClassifiedByApp(f, p) ==
  LET app == AppOfName[p.host] IN
  [f EXCEPT !.sni = p.host, !.app_type = app, !.classified = TRUE,
            !.blocked = isBlocked(rules, SrcIP[p.tuple], app, ""),
            !.throttled = isThrottled(rules, app)]

Classified(f, p) ==
  LET app == AppOfName[p.host] IN
  [f EXCEPT !.sni = p.host, !.app_type = app, !.classified = TRUE,
            !.blocked = isBlocked(rules, SrcIP[p.tuple], app, p.host),
            !.throttled = isThrottled(rules, app)]

(* Mutant: every hostname is news. *)
NewsAlways(f, p) == p.host \in Names

News(f, p) == ~f.classified /\ p.host \in Names

Seen(p) == LET f == Counted(p) IN
           IF News(f, p) THEN Classified(f, p) ELSE IF f.classified THEN f ELSE Judged(f, p)

Written(p, verdict, delayed) ==
  /\ total_packets < MaxPackets
  /\ total_packets' = total_packets + 1
  /\ output' = Append(output, [packet |-> p, verdict |-> verdict, delayed |-> delayed])

(* A hostname is credited to an extractor by the ports alone. *)
Extractor(t) == IF On(t, 443) THEN "sni" ELSE IF On(t, 53) THEN "dns" ELSE "http"

(* Mutant: a packet is counted before it is looked into. *)
UpdateBefore(p) ==
  /\ flows' = [flows EXCEPT ![p.tuple] = Seen(p)]
  /\ extracted' = [extracted EXCEPT ![Extractor(p.tuple)] = @ + One(News(Counted(p), p))]
  /\ app_pkt_counts' = [app_pkt_counts EXCEPT ![Counted(p).app_type] = @ + 1]
  /\ detected_snis' = detected_snis \cup (IF News(Counted(p), p) THEN {p.host} ELSE {})

Update(p) ==
  /\ flows' = [flows EXCEPT ![p.tuple] = Seen(p)]
  /\ extracted' = [extracted EXCEPT ![Extractor(p.tuple)] = @ + One(News(Counted(p), p))]
  /\ app_pkt_counts' = [app_pkt_counts EXCEPT ![Seen(p).app_type] = @ + 1]
  /\ detected_snis' = detected_snis \cup (IF News(Counted(p), p) THEN {p.host} ELSE {})

(* A record that cannot be parsed passes. *)
ForwardUnparsed ==
  /\ Written(Junk, "forward", FALSE)
  /\ forwarded' = forwarded + 1
  /\ UNCHANGED <<flows, dropped, throttled_pkts, extracted, app_pkt_counts, detected_snis>>

Drop(p) ==
  /\ Seen(p).blocked
  /\ Written(p, "drop", FALSE) /\ Update(p)
  /\ dropped' = dropped + 1
  /\ UNCHANGED <<forwarded, throttled_pkts>>

Forward(p) ==
  /\ ~Seen(p).blocked
  /\ Written(p, "forward", Seen(p).throttled) /\ Update(p)
  /\ forwarded' = forwarded + 1
  /\ throttled_pkts' = throttled_pkts + One(Seen(p).throttled)
  /\ UNCHANGED dropped

(* [BLOCKED] behind a name in the report. *)
MarkedBlocked(sni) == isBlocked(rules, "0.0.0.0", AppOfName[sni], sni)

(* End of file. *)
Done == UNCHANGED vars

Next == ForwardUnparsed \/ (\E p \in Packets : Drop(p) \/ Forward(p)) \/ Done

Spec == Init /\ [][Next]_vars

-----------------------------------------------------------------------------
(* Once a flow is classified, nothing changes what is known of it or what  *)
(* is done to its packets.                                                 *)
ClassificationIsFinal ==
  [][\A t \in Tuples : flows[t].classified =>
        [flows'[t] EXCEPT !.packet_count = 0] = [flows[t] EXCEPT !.packet_count = 0]]_vars

(* For each parsed record, the hostname its flow had shown by then.        *)
Parsed == {i \in DOMAIN output : output[i].packet # Junk}
Of(i)  == output[i].packet.tuple
HostAt ==
  LET parsed == Parsed
      telling == {j \in parsed : output[j].packet.host \in Names}
      first == [i \in parsed |-> {j \in telling : j <= i /\ Of(j) = Of(i)
                                                 /\ \A k \in telling : Of(k) = Of(i) => j <= k}]
  IN [i \in parsed |-> IF first[i] = {} THEN NoHost ELSE output[CHOOSE j \in first[i] : TRUE].packet.host]
Number(S(_)) == Cardinality({i \in DOMAIN output : S(i)})

(* The report agrees with what happened to the records: each is written or *)
(* dropped, and counted under what was known of its flow by then; a        *)
(* hostname counts once for each flow that showed one; from then on that   *)
(* flow's packets are dropped iff the report marks the name as blocked or  *)
(* the address is.                                                         *)
ReportAddsUp ==
  LET host  == HostAt
      app   == [i \in DOMAIN host |-> IF host[i] = NoHost THEN PortApp(Of(i)) ELSE AppOfName[host[i]]]
      named == {i \in DOMAIN host : host[i] # NoHost}
  IN /\ total_packets = Len(output) /\ total_packets = forwarded + dropped
     /\ forwarded = Number(LAMBDA i : output[i].verdict = "forward")
     /\ throttled_pkts = Number(LAMBDA i : output[i].delayed)
     /\ \A a \in AppTypes : app_pkt_counts[a] = Cardinality({i \in DOMAIN app : app[i] = a})
     /\ detected_snis = {host[i] : i \in named}
     /\ extracted.sni + extracted.http + extracted.dns = Cardinality({Of(i) : i \in named})
     /\ \A i \in named : output[i].verdict = "drop" <=> MarkedBlocked(host[i]) \/ SrcIP[Of(i)] \in rules.ips

-----------------------------------------------------------------------------
(* types.h:159 "bool blocked: hard block, drop all packets": a flow that   *)
(* was blocked is never forwarded again.                                   *)
BlockedStaysBlocked == [][\A t \in Tuples : flows[t].blocked => flows'[t].blocked]_vars
=============================================================================
