------------------------- MODULE SimpleEngineProofs -------------------------
(***************************************************************************)
(* Theorems about SimpleEngine for every set of flows, packets, hostnames  *)
(* and rules: what is known of a flow, and the report at the end; and that *)
(* the two engines of Engines decide alike.                                *)
(***************************************************************************)
EXTENDS Engines, DataFacts, FiniteSetTheorems

Flow   == [sni : Names, app_type : AppTypes, blocked : BOOLEAN, throttled : BOOLEAN,
           classified : BOOLEAN, packet_count : Nat]
Packed == [packet : Packets \cup {Junk}, verdict : {"drop", "forward"}, delayed : BOOLEAN]

Typed ==
  /\ flows \in [Tuples -> Flow]
  /\ total_packets \in Nat /\ forwarded \in Nat /\ dropped \in Nat /\ throttled_pkts \in Nat
  /\ extracted \in [sni : Nat, http : Nat, dns : Nat]
  /\ app_pkt_counts \in [AppTypes -> Nat]
  /\ output \in Seq(Packed)

(* sniToAppType finds the first row that matches. *)
LEMMA NamesHaveApps == \A n \in Names : AppOfName[n] \in AppTypes
<1> SUFFICES ASSUME NEW n \in Names PROVE sniToAppType(n) \in AppTypes
  BY DEF AppOfName
<1> DEFINE hits == Hits(Lower[n])
<1>1. \A i \in DOMAIN Signatures : Signatures[i].app \in AppTypes
  BY DEF Signatures, AppTypes
<1>2. DOMAIN Signatures \subseteq Nat
  BY DEF Signatures
<1>3. hits \subseteq DOMAIN Signatures
  BY DEF Hits
<1> HIDE DEF hits
<1>4. hits # {} => FirstHit(hits) \in hits
  <2>1. hits # {} => \E i \in hits : \A j \in hits : i <= j
    BY <1>2, <1>3, LeastElement
  <2> QED BY <2>1 DEF FirstHit
<1>5. hits # {} => Signatures[FirstHit(hits)].app \in AppTypes
  BY <1>1, <1>3, <1>4
<1>6. "HTTPS" \in AppTypes /\ UNKNOWN \in AppTypes
  BY DEF AppTypes
<1> QED BY <1>5, <1>6 DEF sniToAppType, hits

LEMMA PortAppTyped == \A t : PortApp(t) \in AppTypes
BY DEF PortApp, AppTypes, UNKNOWN

LEMMA SeenTyped ==
  ASSUME Typed, NEW p \in Packets
  PROVE  /\ p.tuple \in Tuples /\ Seen(p) \in Flow
         /\ Extractor(p.tuple) \in {"sni", "http", "dns"}
<1>1. p.tuple \in Tuples BY SimpleEngineAssumption
<1> DEFINE f == flows[p.tuple]
           c == Counted(p)
<1>2. f \in Flow BY <1>1 DEF Typed
<1>3. c \in Flow
  <2>1. PortApp(p.tuple) \in AppTypes BY PortAppTyped
  <2>2. (IF Unseen(p.tuple) THEN PortApp(p.tuple) ELSE f.app_type) \in AppTypes
    BY <1>2, <2>1 DEF Flow
  <2> HIDE DEF f
  <2>3. f.packet_count + 1 \in Nat BY <1>2 DEF Flow
  <2>4. c = [f EXCEPT !.packet_count = @ + 1, !.app_type = IF Unseen(p.tuple) THEN PortApp(p.tuple) ELSE @]
    BY DEF Counted, f
  <2> HIDE DEF c
  <2> QED BY <1>2, <2>2, <2>3, <2>4 DEF Flow
<1> HIDE DEF f, c
<1>4. Judged(c, p) \in Flow
  <2>1. isBlocked(rules, SrcIP[p.tuple], IF p.host = NoPayload THEN UNKNOWN ELSE c.app_type, "") \in BOOLEAN
    BY DEF isBlocked
  <2> QED BY <1>3, <2>1 DEF Judged, Flow
<1>5. p.host \in Names => Classified(c, p) \in Flow
  <2>1. isBlocked(rules, SrcIP[p.tuple], AppOfName[p.host], p.host) \in BOOLEAN
    BY DEF isBlocked
  <2>2. isThrottled(rules, AppOfName[p.host]) \in BOOLEAN
    BY DEF isThrottled
  <2> QED BY <1>3, <2>1, <2>2, NamesHaveApps DEF Classified, Flow
<1>6. Seen(p) \in Flow BY <1>3, <1>4, <1>5 DEF Seen, News, c
<1> QED BY <1>1, <1>6 DEF Extractor

LEMMA TypedInit == Init => Typed
<1> SUFFICES ASSUME Init PROVE Typed
  OBVIOUS
<1>1. NewFlow \in Flow
  BY RulesAssumption DEF NewFlow, Flow, AppTypes
<1>2. output \in Seq(Packed) BY EmptySeq DEF Init
<1> QED BY <1>1, <1>2 DEF Init, Typed

(* The three outcomes of a record: the entry it makes. *)
Logged(r) ==
  /\ total_packets' = total_packets + 1
  /\ output' = Append(output, r) /\ r \in Packed

LEMMA Outcomes ==
  ASSUME Typed, [Next]_vars
  PROVE  \/ /\ ForwardUnparsed
            /\ Logged([packet |-> Junk, verdict |-> "forward", delayed |-> FALSE])
         \/ \E p \in Packets :
              /\ Drop(p) /\ Update(p) /\ Seen(p).blocked
              /\ Logged([packet |-> p, verdict |-> "drop", delayed |-> FALSE])
         \/ \E p \in Packets :
              /\ Forward(p) /\ Update(p) /\ ~Seen(p).blocked
              /\ Logged([packet |-> p, verdict |-> "forward", delayed |-> Seen(p).throttled])
         \/ UNCHANGED vars
<1>1. CASE ForwardUnparsed
  BY <1>1 DEF ForwardUnparsed, Written, Logged, Packed
<1>2. ASSUME NEW p \in Packets, Drop(p)
      PROVE  /\ Drop(p) /\ Update(p) /\ Seen(p).blocked
             /\ Logged([packet |-> p, verdict |-> "drop", delayed |-> FALSE])
  BY <1>2 DEF Drop, Written, Logged, Packed
<1>3. ASSUME NEW p \in Packets, Forward(p)
      PROVE  /\ Forward(p) /\ Update(p) /\ ~Seen(p).blocked
             /\ Logged([packet |-> p, verdict |-> "forward", delayed |-> Seen(p).throttled])
  <2>1. Seen(p).throttled \in BOOLEAN BY SeenTyped DEF Flow
  <2> QED BY <1>3, <2>1 DEF Forward, Written, Logged, Packed
<1>4. CASE Done BY <1>4 DEF Done
<1> QED BY <1>1, <1>2, <1>3, <1>4 DEF Next

LEMMA TypedStep == Typed /\ [Next]_vars => Typed'
<1> SUFFICES ASSUME Typed, [Next]_vars PROVE Typed'
  OBVIOUS
<1>1. ASSUME NEW r, Logged(r) PROVE total_packets' \in Nat /\ output' \in Seq(Packed)
  BY <1>1, AppendProperties DEF Logged, Typed
<1>2. ASSUME NEW p \in Packets, Update(p)
      PROVE  /\ flows' \in [Tuples -> Flow]
             /\ extracted' \in [sni : Nat, http : Nat, dns : Nat]
             /\ app_pkt_counts' \in [AppTypes -> Nat]
  <2>1. p.tuple \in Tuples /\ Seen(p) \in Flow /\ Seen(p).app_type \in AppTypes
        /\ Extractor(p.tuple) \in {"sni", "http", "dns"}
    BY SeenTyped DEF Flow
  <2>2. flows' \in [Tuples -> Flow] BY <1>2, <2>1 DEF Update, Typed
  <2>3. One(News(Counted(p), p)) \in Nat BY DEF One
  <2>4. extracted' \in [sni : Nat, http : Nat, dns : Nat]
    <3>1. PICK e \in {"sni", "http", "dns"}, k \in Nat : extracted' = [extracted EXCEPT ![e] = @ + k]
      BY <1>2, <2>1, <2>3 DEF Update
    <3>2. extracted \in [sni : Nat, http : Nat, dns : Nat] BY DEF Typed
    <3> QED BY <3>1, <3>2
  <2>5. app_pkt_counts' \in [AppTypes -> Nat] BY <1>2, <2>1 DEF Update, Typed
  <2> QED BY <2>2, <2>4, <2>5
<1>3. CASE ForwardUnparsed /\ Logged([packet |-> Junk, verdict |-> "forward", delayed |-> FALSE])
  BY <1>1, <1>3 DEF ForwardUnparsed, Typed
<1>4. ASSUME NEW p \in Packets, Drop(p), Update(p), NEW r, Logged(r) PROVE Typed'
  BY <1>1, <1>2, <1>4 DEF Drop, Typed
<1>5. ASSUME NEW p \in Packets, Forward(p), Update(p), NEW r, Logged(r) PROVE Typed'
  <2>1. One(Seen(p).throttled) \in Nat BY DEF One
  <2> QED BY <1>1, <1>2, <1>5, <2>1 DEF Forward, Typed
<1>6. CASE UNCHANGED vars BY <1>6 DEF vars, Typed
<1> QED BY <1>3, <1>4, <1>5, <1>6, Outcomes

LEMMA TypeInvariant == Spec => []Typed
BY TypedInit, TypedStep, PTL DEF Spec

-----------------------------------------------------------------------------
(* What is known of a flow: nothing but its ports' app type until the first *)
(* hostname, and from then on what the hostname told.                       *)
Settled ==
  \A t \in Tuples : LET f == flows[t] IN
    /\ f.classified => /\ f.packet_count > 0
                       /\ f.app_type = AppOfName[f.sni]
                       /\ f.blocked = isBlocked(rules, SrcIP[t], f.app_type, f.sni)
    /\ ~f.classified /\ f.packet_count > 0 => f.app_type = PortApp(t)

Keeps(f, g) == [g EXCEPT !.packet_count = 0] = [f EXCEPT !.packet_count = 0]

LEMMA SeenIs ==
  ASSUME Typed, Settled, NEW p \in Packets,
         NEW t, t = p.tuple, NEW f, f = flows[t], NEW g, g = Seen(p)
  PROVE  /\ t \in Tuples /\ f \in Flow /\ g \in Flow
         /\ g.packet_count = f.packet_count + 1
         /\ f.classified => Keeps(f, g)
         /\ g.classified <=> f.classified \/ p.host \in Names
         /\ ~f.classified /\ p.host \in Names =>
              /\ g.sni = p.host /\ g.app_type = AppOfName[p.host]
              /\ g.blocked = isBlocked(rules, SrcIP[t], g.app_type, g.sni)
         /\ ~g.classified => g.app_type = PortApp(t)
         /\ News(Counted(p), p) <=> ~f.classified /\ p.host \in Names
<1>1. t \in Tuples /\ f \in Flow /\ g \in Flow
  BY SeenTyped DEF Typed
<1> DEFINE a == IF f.packet_count = 0 THEN PortApp(t) ELSE f.app_type
           c == [f EXCEPT !.packet_count = @ + 1, !.app_type = a]
<1>2. Counted(p) = c
  BY DEF Counted, Unseen
<1>3. /\ f.classified => f.packet_count # 0
      /\ ~f.classified /\ f.packet_count # 0 => f.app_type = PortApp(t)
      /\ f.packet_count \in Nat /\ f.classified \in BOOLEAN
  BY <1>1 DEF Settled, Flow
<1>4. /\ f.classified => a = f.app_type
      /\ ~f.classified => a = PortApp(t)
  BY <1>3
<1> HIDE DEF a
<1>5. c.classified = f.classified /\ c.packet_count = f.packet_count + 1 /\ c.app_type = a
  BY <1>1 DEF Flow
<1>6. News(c, p) <=> ~f.classified /\ p.host \in Names
  BY <1>5 DEF News
<1>7. g = IF News(c, p) THEN Classified(c, p) ELSE IF c.classified THEN c ELSE Judged(c, p)
  BY <1>2 DEF Seen
<1>8. f.classified => Keeps(f, c)
  BY <1>1, <1>4 DEF Keeps, Flow
<1>9. c \in Flow
  <2>1. a \in AppTypes BY <1>1, <1>3, <1>4, PortAppTyped DEF Flow
  <2>2. f.packet_count + 1 \in Nat BY <1>3
  <2> QED BY <1>1, <2>1, <2>2 DEF Flow
<1> HIDE DEF c
<1>10. CASE f.classified
  BY <1>1, <1>2, <1>5, <1>6, <1>7, <1>8, <1>10
<1>11. CASE ~f.classified /\ p.host \in Names
  <2>1. g = Classified(c, p) BY <1>6, <1>7, <1>11
  <2>2. /\ g.sni = p.host /\ g.app_type = AppOfName[p.host] /\ g.classified = TRUE
        /\ g.blocked = isBlocked(rules, SrcIP[t], AppOfName[p.host], p.host)
        /\ g.packet_count = c.packet_count
    BY <2>1, <1>9 DEF Classified, Flow
  <2> QED BY <1>1, <1>2, <1>5, <1>6, <1>11, <2>2
<1>12. CASE ~f.classified /\ p.host \notin Names
  <2>1. g = Judged(c, p) BY <1>5, <1>6, <1>7, <1>12
  <2>2. g.classified = c.classified /\ g.packet_count = c.packet_count /\ g.app_type = a
    BY <2>1, <1>5, <1>9 DEF Judged, Flow
  <2> QED BY <1>1, <1>2, <1>4, <1>5, <1>6, <1>12, <2>2
<1> QED BY <1>10, <1>11, <1>12

(* Only packets change what is known of flows. *)
LEMMA FlowSteps ==
  Typed /\ [Next]_vars => (\E p \in Packets : flows' = [flows EXCEPT ![p.tuple] = Seen(p)]) \/ UNCHANGED flows
<1> SUFFICES ASSUME Typed, [Next]_vars
             PROVE  (\E p \in Packets : flows' = [flows EXCEPT ![p.tuple] = Seen(p)]) \/ UNCHANGED flows
  OBVIOUS
<1> QED BY Outcomes DEF ForwardUnparsed, Update, vars

LEMMA SettledStep == Typed /\ Settled /\ [Next]_vars => Settled'
<1> SUFFICES ASSUME Typed, Settled, [Next]_vars PROVE Settled'
  OBVIOUS
<1>1. ASSUME NEW p \in Packets, flows' = [flows EXCEPT ![p.tuple] = Seen(p)] PROVE Settled'
  <2> SUFFICES ASSUME NEW f, f = flows[p.tuple], NEW g, g = Seen(p), NEW s, s = p.tuple PROVE Settled'
    OBVIOUS
  <2>1. /\ s \in Tuples /\ f \in Flow /\ g \in Flow
        /\ g.packet_count = f.packet_count + 1
        /\ f.classified => Keeps(f, g)
        /\ g.classified <=> f.classified \/ p.host \in Names
        /\ ~f.classified /\ p.host \in Names =>
              /\ g.sni = p.host /\ g.app_type = AppOfName[p.host]
              /\ g.blocked = isBlocked(rules, SrcIP[s], g.app_type, g.sni)
        /\ ~g.classified => g.app_type = PortApp(s)
    BY SeenIs
  <2>2. f.classified => g.sni = f.sni /\ g.app_type = f.app_type /\ g.blocked = f.blocked
    BY <2>1 DEF Keeps, Flow
  <2>3. f.classified => f.app_type = AppOfName[f.sni] /\ f.blocked = isBlocked(rules, SrcIP[s], f.app_type, f.sni)
    BY <2>1 DEF Settled
  <2>4. g.packet_count > 0 BY <2>1 DEF Flow
  <2>5. \A t \in Tuples : flows'[t] = IF t = s THEN g ELSE flows[t]
    BY <1>1 DEF Typed
  <2>6. /\ g.classified => /\ g.app_type = AppOfName[g.sni]
                           /\ g.blocked = isBlocked(rules, SrcIP[s], g.app_type, g.sni)
        /\ ~g.classified => g.app_type = PortApp(s)
    BY <2>1, <2>2, <2>3
  <2> QED BY <2>4, <2>5, <2>6 DEF Settled
<1>2. CASE UNCHANGED flows BY <1>2 DEF Settled
<1> QED BY <1>1, <1>2, FlowSteps

LEMMA SettledInit == Init => Settled
<1> SUFFICES ASSUME Init PROVE Settled
  OBVIOUS
<1>1. \A t \in Tuples : flows[t] = NewFlow BY DEF Init
<1>2. NewFlow.classified = FALSE /\ NewFlow.packet_count = 0 BY DEF NewFlow
<1>3. \A t \in Tuples : ~flows[t].classified /\ flows[t].packet_count = 0 BY <1>1, <1>2
<1> QED BY <1>3 DEF Settled

LEMMA SettledInvariant == Spec => [](Typed /\ Settled)
<1>1. Init => Typed /\ Settled BY TypedInit, SettledInit
<1>2. Typed /\ Settled /\ [Next]_vars => (Typed /\ Settled)' BY TypedStep, SettledStep
<1> QED BY <1>1, <1>2, PTL DEF Spec

(* Once a hostname has classified a flow, nothing changes what is known of  *)
(* it, or what is done to its packets, but the number of its packets.       *)
THEOREM FinalClassification == Spec => ClassificationIsFinal
<1> DEFINE Final == \A t \in Tuples : flows[t].classified =>
        [flows'[t] EXCEPT !.packet_count = 0] = [flows[t] EXCEPT !.packet_count = 0]
<1>1. Typed /\ Settled /\ [Next]_vars => Final
  <2> SUFFICES ASSUME Typed, Settled, [Next]_vars, NEW t \in Tuples, flows[t].classified
               PROVE  Keeps(flows[t], flows'[t])
    BY DEF Keeps
  <2>1. ASSUME NEW p \in Packets, flows' = [flows EXCEPT ![p.tuple] = Seen(p)]
        PROVE  Keeps(flows[t], flows'[t])
    <3>1. CASE t = p.tuple
      <4>1. Keeps(flows[t], Seen(p)) BY <3>1, SeenIs
      <4>2. flows'[t] = Seen(p) BY <2>1, <3>1 DEF Typed
      <4> QED BY <4>1, <4>2
    <3>2. CASE t # p.tuple
      <4>1. flows'[t] = flows[t] BY <2>1, <3>2 DEF Typed
      <4> QED BY <4>1 DEF Keeps
    <3> QED BY <3>1, <3>2
  <2>2. CASE UNCHANGED flows BY <2>2 DEF Keeps
  <2> QED BY <2>1, <2>2, FlowSteps
<1>2. Typed /\ Settled /\ [Next]_vars => [Final]_vars BY <1>1
<1> HIDE DEF Final
<1>3. Spec => [][Final]_vars BY <1>2, SettledInvariant, PTL DEF Spec
<1> QED BY <1>3 DEF ClassificationIsFinal, Final

-----------------------------------------------------------------------------
(* The records read, and the hostname of each one's flow at that time. *)
Tells(t)  == {j \in Parsed : Of(j) = t /\ output[j].packet.host \in Names}
Firsts(i) == {j \in Tells(Of(i)) : j <= i /\ \A k \in Tells(Of(i)) : j <= k}

HostFacts ==
  /\ DOMAIN HostAt = Parsed
  /\ \A i \in Parsed : /\ Firsts(i) = {} => HostAt[i] = NoHost
                       /\ \A j \in Firsts(i) : HostAt[i] = output[j].packet.host

LEMMA HostAtIs == Typed => HostFacts
<1> SUFFICES ASSUME Typed PROVE HostFacts
  OBVIOUS
<1> DEFINE telling == {j \in Parsed : output[j].packet.host \in Names}
           first(i) == {j \in telling : j <= i /\ Of(j) = Of(i)
                                        /\ \A k \in telling : Of(k) = Of(i) => j <= k}
           first_f == [i \in Parsed |-> first(i)]
<1>1. \A i : first(i) = Firsts(i) BY DEF Firsts, Tells
<1>2. HostAt = [i \in Parsed |-> IF first_f[i] = {} THEN NoHost
                                 ELSE output[CHOOSE j \in first_f[i] : TRUE].packet.host]
  BY DEF HostAt
<1> HIDE DEF first
<1>3. \A i \in Parsed : first_f[i] = Firsts(i) BY <1>1
<1> HIDE DEF first_f
<1>4. Parsed \subseteq Nat
  BY LenProperties DEF Parsed, Typed
<1>5. ASSUME NEW i \in Parsed, NEW j \in Firsts(i) PROVE (CHOOSE k \in Firsts(i) : TRUE) = j
  <2>1. \A k \in Firsts(i) : k = j
    <3>1. \A k, l \in Firsts(i) : k \in Nat /\ l \in Nat /\ k <= l BY <1>4 DEF Firsts, Tells
    <3> QED BY <1>5, <3>1
  <2>2. (CHOOSE k \in Firsts(i) : TRUE) \in Firsts(i) BY <1>5
  <2> QED BY <2>1, <2>2
<1>6. ASSUME NEW i \in Parsed PROVE
        /\ Firsts(i) = {} => HostAt[i] = NoHost
        /\ \A j \in Firsts(i) : HostAt[i] = output[j].packet.host
  <2>1. HostAt[i] = IF Firsts(i) = {} THEN NoHost ELSE output[CHOOSE j \in Firsts(i) : TRUE].packet.host
    BY <1>2, <1>3
  <2> QED BY <1>5, <2>1
<1>7. DOMAIN HostAt = Parsed BY <1>2
<1> QED BY <1>6, <1>7 DEF HostFacts

(* A record is added at the end. *)
Grown(r) ==
  LET n == Len(output) + 1 IN
  /\ Len(output) \in Nat /\ Len(output') = n
  /\ DOMAIN output = 1..Len(output) /\ DOMAIN output' = DOMAIN output \cup {n} /\ n \notin DOMAIN output
  /\ \A i \in DOMAIN output : output'[i] = output[i]
  /\ output'[n] = r

LEMMA LogGrows ==
  ASSUME Typed, NEW r, Logged(r)
  PROVE  /\ Grown(r)
         /\ r.packet = Junk => Parsed' = Parsed
         /\ r.packet # Junk => Parsed' = Parsed \cup {Len(output) + 1}
         /\ \A i \in DOMAIN output : Of(i)' = Of(i)
         /\ \A i : i = Len(output) + 1 => Of(i)' = r.packet.tuple
<1>1. Grown(r)
  BY AppendProperties, LenProperties DEF Typed, Logged, Grown
<1>2. /\ \A i \in DOMAIN output : Of(i)' = Of(i)
      /\ \A i : i = Len(output) + 1 => Of(i)' = r.packet.tuple
  BY <1>1 DEF Grown, Of
<1>3. /\ r.packet = Junk => Parsed' = Parsed
      /\ r.packet # Junk => Parsed' = Parsed \cup {Len(output) + 1}
  BY <1>1 DEF Grown, Parsed
<1> QED BY <1>1, <1>2, <1>3

(* A flow is classified by the first of its packets that shows a hostname. *)
Told ==
  \A t \in Tuples :
    /\ flows[t].classified <=> Tells(t) # {}
    /\ flows[t].classified => \E j \in Tells(t) :
         flows[t].sni = output[j].packet.host /\ \A k \in Tells(t) : j <= k

LEMMA TellsStep ==
  ASSUME Typed, NEW p \in Packets, NEW r, Logged(r), r.packet = p, NEW t
  PROVE  Tells(t)' = IF t = p.tuple /\ p.host \in Names THEN Tells(t) \cup {Len(output) + 1} ELSE Tells(t)
<1> DEFINE n == Len(output) + 1
<1>1. p # Junk BY SimpleEngineAssumption
<1>2. /\ Grown(r) /\ Parsed' = Parsed \cup {n} /\ \A i \in DOMAIN output : Of(i)' = Of(i)
      /\ \A i : i = n => Of(i)' = p.tuple
  BY <1>1, LogGrows
<1>3. Parsed \subseteq DOMAIN output BY DEF Parsed
<1>4. \A j : j \in Tells(t)' <=> j \in Parsed' /\ Of(j)' = t /\ output'[j].packet.host \in Names
  BY DEF Tells
<1>5. \A j : j \in Tells(t) <=> j \in Parsed /\ Of(j) = t /\ output[j].packet.host \in Names
  BY DEF Tells
<1>6. \A j \in Parsed : output'[j] = output[j] /\ Of(j)' = Of(j) /\ j # n
  BY <1>2, <1>3 DEF Grown
<1>7. output'[n].packet.host = p.host BY <1>2 DEF Grown
<1> HIDE DEF n
<1>8. \A j : j \in Tells(t)' <=> j \in Tells(t) \/ (j = n /\ t = p.tuple /\ p.host \in Names)
  <2> TAKE j
  <2>1. CASE j \in Parsed BY <1>2, <1>4, <1>5, <1>6, <2>1
  <2>2. CASE j = n
    <3>1. n \notin Parsed /\ n \in Parsed' BY <1>2, <1>6
    <3>2. Of(j)' = p.tuple BY <1>2, <2>2
    <3> QED BY <1>4, <1>5, <1>7, <2>2, <3>1, <3>2
  <2>3. CASE j \notin Parsed /\ j # n BY <1>2, <1>4, <1>5, <2>3
  <2> QED BY <2>1, <2>2, <2>3
<1> QED BY <1>8 DEF n

LEMMA ToldStep == Typed /\ Settled /\ Told /\ [Next]_vars => Told'
<1> SUFFICES ASSUME Typed, Settled, Told, [Next]_vars PROVE Told'
  OBVIOUS
<1>1. ASSUME NEW p \in Packets, Update(p), NEW r, Logged(r), r.packet = p PROVE Told'
  <2> SUFFICES ASSUME NEW s, s = p.tuple, NEW f, f = flows[s], NEW g, g = Seen(p), NEW t \in Tuples
               PROVE  /\ flows'[t].classified <=> Tells(t)' # {}
                      /\ flows'[t].classified => \E j \in Tells(t)' :
                           flows'[t].sni = output'[j].packet.host /\ \A k \in Tells(t)' : j <= k
    BY DEF Told
  <2>1. /\ s \in Tuples /\ (f.classified => Keeps(f, g)) /\ f \in Flow /\ g \in Flow
        /\ g.classified <=> f.classified \/ p.host \in Names
        /\ ~f.classified /\ p.host \in Names => g.sni = p.host
    BY SeenIs
  <2>2. flows'[t] = IF t = s THEN g ELSE flows[t] BY <1>1, <2>1 DEF Update, Typed
  <2>3. f.classified => g.sni = f.sni /\ g.classified BY <2>1 DEF Keeps, Flow
  <2>4. /\ Len(output) + 1 \in Nat /\ \A j \in Tells(t) : j \in Nat /\ j <= Len(output) + 1
        /\ \A j \in Tells(t) : output'[j] = output[j]
        /\ output'[Len(output) + 1].packet = p
    BY <1>1, LogGrows DEF Tells, Parsed, Grown
  <2>5. Tells(t)' = IF t = s /\ p.host \in Names THEN Tells(t) \cup {Len(output) + 1} ELSE Tells(t)
    BY <1>1, TellsStep
  <2>6. /\ flows[t].classified <=> Tells(t) # {}
        /\ flows[t].classified => \E j \in Tells(t) :
             flows[t].sni = output[j].packet.host /\ \A k \in Tells(t) : j <= k
    BY DEF Told
  <2>7. CASE flows[t].classified
    <3>1. PICK j \in Tells(t) : flows[t].sni = output[j].packet.host /\ \A k \in Tells(t) : j <= k
      BY <2>6, <2>7
    <3>2. flows'[t].classified /\ flows'[t].sni = flows[t].sni BY <2>2, <2>3, <2>7
    <3>3. j \in Tells(t)' /\ \A k \in Tells(t)' : j <= k BY <2>4, <2>5, <3>1
    <3> QED BY <2>4, <3>1, <3>2, <3>3
  <2>8. CASE ~flows[t].classified /\ t = s /\ p.host \in Names
    <3>1. Tells(t)' = {Len(output) + 1} BY <2>5, <2>6, <2>8
    <3>2. flows'[t].classified /\ flows'[t].sni = p.host BY <2>1, <2>2, <2>8
    <3> QED BY <2>4, <3>1, <3>2
  <2>9. CASE ~flows[t].classified /\ ~(t = s /\ p.host \in Names)
    <3>1. Tells(t)' = {} BY <2>5, <2>6, <2>9
    <3>2. ~flows'[t].classified BY <2>1, <2>2, <2>9
    <3> QED BY <3>1, <3>2
  <2> QED BY <2>7, <2>8, <2>9
<1>2. ASSUME ForwardUnparsed, NEW r, Logged(r), r.packet = Junk PROVE Told'
  <2>1. flows' = flows /\ Parsed' = Parsed /\ \A i \in Parsed : Of(i)' = Of(i) /\ output'[i] = output[i]
    BY <1>2, LogGrows DEF ForwardUnparsed, Grown, Parsed
  <2>2. \A t : Tells(t)' = Tells(t) BY <2>1 DEF Tells
  <2>3. \A t : \A j \in Tells(t) : output'[j] = output[j] BY <2>1 DEF Tells
  <2> QED BY <2>1, <2>2, <2>3 DEF Told
<1>3. CASE UNCHANGED vars
  <2>1. \A t : Tells(t)' = Tells(t) BY <1>3 DEF vars, Tells, Parsed, Of
  <2> QED BY <1>3, <2>1 DEF Told, vars
<1> QED BY <1>1, <1>2, <1>3, Outcomes

(* The new record's hostname is the one its flow is left with.              *)
LEMMA HostsGrow ==
  ASSUME Typed, Typed', Told', NEW p \in Packets, Update(p), NEW r, Logged(r), r.packet = p,
         NEW n, n = Len(output) + 1, NEW g, g = Seen(p)
  PROVE  /\ n \notin Parsed /\ Parsed' = Parsed \cup {n}
         /\ \A i \in Parsed : HostAt'[i] = HostAt[i]
         /\ HostAt'[n] = IF g.classified THEN g.sni ELSE NoHost
<1>1. p # Junk BY SimpleEngineAssumption
<1>2. /\ Grown(r) /\ Parsed' = Parsed \cup {n} /\ \A i \in DOMAIN output : Of(i)' = Of(i)
      /\ Of(n)' = p.tuple
  BY <1>1, LogGrows
<1>3. Parsed \subseteq DOMAIN output /\ n \notin DOMAIN output /\ n \in Nat
      /\ \A i \in DOMAIN output : i \in Nat /\ i < n
  BY <1>2 DEF Parsed, Grown
<1>4. HostFacts /\ HostFacts'
  <2>1. HostFacts BY HostAtIs
  <2>2. Typed' => HostFacts' BY HostAtIs, PTL
  <2> QED BY <2>1, <2>2
<1>5. \A t : Tells(t)' = IF t = p.tuple /\ p.host \in Names THEN Tells(t) \cup {n} ELSE Tells(t)
  BY TellsStep
<1>6. ASSUME NEW i \in Parsed PROVE HostAt'[i] = HostAt[i]
  <2>1. Of(i)' = Of(i) /\ i \in Parsed' BY <1>2, <1>3
  <2>2. \A j : j \in Firsts(i)' <=> j \in Tells(Of(i))' /\ j <= i /\ \A k \in Tells(Of(i))' : j <= k
    BY DEF Firsts
  <2>3. \A j : j \in Firsts(i) <=> j \in Tells(Of(i)) /\ j <= i /\ \A k \in Tells(Of(i)) : j <= k
    BY DEF Firsts
  <2> SUFFICES ASSUME NEW t, t = Of(i) PROVE HostAt'[i] = HostAt[i]
    OBVIOUS
  <2>4. Tells(Of(i))' = Tells(t)' BY <2>1
  <2>5. Tells(t) \subseteq Parsed BY DEF Tells
  <2>6. \A j : j \in Firsts(i)' <=> j \in Firsts(i)
    <3> TAKE j
    <3>1. j <= i /\ j = n => FALSE BY <1>3
    <3>2. j \in Parsed => j < n BY <1>3
    <3> QED BY <1>3, <1>5, <2>2, <2>3, <2>4, <2>5, <3>1, <3>2
  <2>7. Firsts(i)' = Firsts(i) BY <2>6
  <2>8. \A j \in Firsts(i) : output'[j] = output[j]
    BY <1>2, <1>3, <2>3, <2>5 DEF Grown
  <2> QED BY <1>4, <2>1, <2>7, <2>8 DEF HostFacts
<1>7. HostAt'[n] = IF g.classified THEN g.sni ELSE NoHost
  <2> SUFFICES ASSUME NEW t, t = p.tuple PROVE HostAt'[n] = IF g.classified THEN g.sni ELSE NoHost
    OBVIOUS
  <2>1. t \in Tuples /\ flows'[t] = g BY SeenTyped DEF Update, Typed
  <2>2. n \in Parsed' BY <1>2
  <2>3. \A j : j \in Firsts(n)' <=> j \in Tells(t)' /\ j <= n /\ \A k \in Tells(t)' : j <= k
    BY <1>2 DEF Firsts
  <2>4. /\ g.classified <=> Tells(t)' # {}
        /\ g.classified => \E j \in Tells(t)' : g.sni = output'[j].packet.host /\ \A k \in Tells(t)' : j <= k
    BY <2>1 DEF Told
  <2>5. \A j \in Tells(t)' : j <= n
    <3>1. Tells(t)' \subseteq Tells(t) \cup {n} BY <1>5
    <3>2. Tells(t) \subseteq Parsed BY DEF Tells
    <3>3. n <= n /\ \A j \in Parsed : j <= n BY <1>3
    <3> QED BY <3>1, <3>2, <3>3
  <2>6. CASE g.classified
    <3>1. PICK j \in Tells(t)' : g.sni = output'[j].packet.host /\ \A k \in Tells(t)' : j <= k
      BY <2>4, <2>6
    <3>2. j \in Firsts(n)' BY <2>3, <2>5, <3>1
    <3> QED BY <1>4, <2>2, <2>6, <3>1, <3>2 DEF HostFacts
  <2>7. CASE ~g.classified
    <3>1. Firsts(n)' = {} BY <2>3, <2>4, <2>7
    <3> QED BY <1>4, <2>2, <2>7, <3>1 DEF HostFacts
  <2> QED BY <2>6, <2>7
<1> QED BY <1>2, <1>3, <1>6, <1>7

LEMMA HostsStay ==
  ASSUME Typed, Typed', NEW r, Logged(r), r.packet = Junk
  PROVE  Parsed' = Parsed /\ \A i \in Parsed : HostAt'[i] = HostAt[i] /\ Of(i)' = Of(i) /\ output'[i] = output[i]
<1>1. Parsed' = Parsed /\ \A i \in Parsed : Of(i)' = Of(i) /\ output'[i] = output[i]
  BY LogGrows DEF Grown, Parsed
<1>2. HostFacts /\ HostFacts'
  <2>1. HostFacts BY HostAtIs
  <2>2. Typed' => HostFacts' BY HostAtIs, PTL
  <2> QED BY <2>1, <2>2
<1>3. \A t : Tells(t)' = Tells(t) /\ Tells(t) \subseteq Parsed BY <1>1 DEF Tells
<1>4. ASSUME NEW i \in Parsed PROVE HostAt'[i] = HostAt[i]
  <2>1. Firsts(i)' = Firsts(i) /\ Firsts(i) \subseteq Parsed
    <3> SUFFICES ASSUME NEW t, t = Of(i) PROVE Firsts(i)' = Firsts(i) /\ Firsts(i) \subseteq Parsed
      OBVIOUS
    <3>1. Tells(Of(i))' = Tells(t)' BY <1>1
    <3> QED BY <1>3, <3>1 DEF Firsts
  <2> QED BY <1>1, <1>2, <2>1 DEF HostFacts
<1> QED BY <1>1, <1>4

-----------------------------------------------------------------------------
(* The parts of the report. *)
AppAt(i)  == IF HostAt[i] = NoHost THEN PortApp(Of(i)) ELSE AppOfName[HostAt[i]]
Under(a)  == {i \in Parsed : AppAt(i) = a}
Named     == {i \in Parsed : HostAt[i] # NoHost}
Sent      == {i \in DOMAIN output : output[i].verdict = "forward"}
Late      == {i \in DOMAIN output : output[i].delayed}

Tallies  == /\ total_packets = Len(output) /\ total_packets = forwarded + dropped
            /\ forwarded = Cardinality(Sent) /\ throttled_pkts = Cardinality(Late)
PerApp   == \A a \in AppTypes : app_pkt_counts[a] = Cardinality(Under(a))
Credited == /\ detected_snis = {HostAt[i] : i \in Named}
            /\ extracted.sni + extracted.http + extracted.dns = Cardinality({Of(i) : i \in Named})
Verdicts == \A i \in Named : output[i].verdict = "drop" <=> MarkedBlocked(HostAt[i]) \/ SrcIP[Of(i)] \in rules.ips

LEMMA PartsOfReport == Typed => (ReportAddsUp <=> Tallies /\ PerApp /\ Credited /\ Verdicts)
<1> SUFFICES ASSUME Typed PROVE ReportAddsUp <=> Tallies /\ PerApp /\ Credited /\ Verdicts
  OBVIOUS
<1>1. DOMAIN HostAt = Parsed BY HostAtIs DEF HostFacts
<1> DEFINE app == [i \in DOMAIN HostAt |-> IF HostAt[i] = NoHost THEN PortApp(Of(i)) ELSE AppOfName[HostAt[i]]]
<1>2. \A a : {i \in DOMAIN app : app[i] = a} = Under(a) BY <1>1 DEF Under, AppAt
<1>3. {i \in DOMAIN HostAt : HostAt[i] # NoHost} = Named BY <1>1 DEF Named
<1> HIDE DEF app
<1>4. ReportAddsUp <=>
       /\ total_packets = Len(output) /\ total_packets = forwarded + dropped
       /\ forwarded = Number(LAMBDA i : output[i].verdict = "forward")
       /\ throttled_pkts = Number(LAMBDA i : output[i].delayed)
       /\ \A a \in AppTypes : app_pkt_counts[a] = Cardinality({i \in DOMAIN app : app[i] = a})
       /\ detected_snis = {HostAt[i] : i \in Named}
       /\ extracted.sni + extracted.http + extracted.dns = Cardinality({Of(i) : i \in Named})
       /\ \A i \in Named : output[i].verdict = "drop" <=> MarkedBlocked(HostAt[i]) \/ SrcIP[Of(i)] \in rules.ips
  BY <1>3, Zenon DEF ReportAddsUp, app
<1>5. Number(LAMBDA i : output[i].verdict = "forward") = Cardinality(Sent)
  BY DEF Number, Sent
<1>6. Number(LAMBDA i : output[i].delayed) = Cardinality(Late)
  BY DEF Number, Late
<1> QED BY <1>2, <1>4, <1>5, <1>6 DEF Tallies, PerApp, Credited, Verdicts

(* A set that gets one new member, or stays, and its size.                  *)
LEMMA OneMore ==
  ASSUME NEW S, IsFiniteSet(S), NEW n, n \notin S, NEW b \in BOOLEAN,
         NEW T, T = IF b THEN S \cup {n} ELSE S
  PROVE  Cardinality(T) = Cardinality(S) + One(b) /\ Cardinality(S) \in Nat /\ One(b) \in {0, 1}
<1>1. Cardinality(S) \in Nat BY FS_CardinalityType
<1>2. CASE b BY <1>1, <1>2, FS_AddElement DEF One
<1>3. CASE ~b BY <1>1, <1>3 DEF One
<1> QED BY <1>2, <1>3

LEMMA LogIsFinite ==
  Typed => /\ IsFiniteSet(DOMAIN output) /\ IsFiniteSet(Parsed) /\ IsFiniteSet(Sent) /\ IsFiniteSet(Late)
           /\ IsFiniteSet({Of(i) : i \in Named}) /\ \A a : IsFiniteSet(Under(a))
<1> SUFFICES ASSUME Typed PROVE IsFiniteSet(DOMAIN output) /\ IsFiniteSet(Parsed) /\ IsFiniteSet(Sent)
                    /\ IsFiniteSet(Late) /\ IsFiniteSet({Of(i) : i \in Named})
                    /\ \A a : IsFiniteSet(Under(a))
  OBVIOUS
<1>1. IsFiniteSet(DOMAIN output)
  <2>1. DOMAIN output = 1..Len(output) /\ Len(output) \in Nat BY LenProperties DEF Typed
  <2> QED BY <2>1, FS_Interval
<1>2. IsFiniteSet(Parsed) BY <1>1, FS_Subset DEF Parsed
<1>3. IsFiniteSet(Sent) BY <1>1, FS_Subset DEF Sent
<1>4. IsFiniteSet(Late) BY <1>1, FS_Subset DEF Late
<1>5. IsFiniteSet(Named) BY <1>2, FS_Subset DEF Named
<1>6. IsFiniteSet({Of(i) : i \in Named})
  <2> DEFINE f == [i \in Named |-> Of(i)]
             T == {Of(i) : i \in Named}
  <2>1. f \in Surjection(Named, T) BY DEF Surjection
  <2> HIDE DEF f, T
  <2>2. IsFiniteSet(T) BY <1>5, <2>1, FS_Surjection
  <2> QED BY <2>2 DEF T
<1>7. ASSUME NEW a PROVE IsFiniteSet(Under(a)) BY <1>2, FS_Subset DEF Under
<1> QED BY <1>1, <1>2, <1>3, <1>4, <1>6, <1>7

LEMMA LogCounts ==
  ASSUME Typed, NEW r, Logged(r)
  PROVE  /\ Len(output') = Len(output) + 1
         /\ Cardinality(Sent)' = Cardinality(Sent) + One(r.verdict = "forward")
         /\ Cardinality(Late)' = Cardinality(Late) + One(r.delayed)
         /\ Cardinality(Sent) \in Nat /\ Cardinality(Late) \in Nat
<1>1. Grown(r) BY LogGrows
<1> DEFINE n == Len(output) + 1
<1>2. r.delayed \in BOOLEAN BY DEF Logged, Packed
<1>3. Sent' = IF r.verdict = "forward" THEN Sent \cup {n} ELSE Sent
  BY <1>1 DEF Grown, Sent
<1>4. Late' = IF r.delayed THEN Late \cup {n} ELSE Late
  BY <1>1, <1>2 DEF Grown, Late
<1>5. n \notin Sent /\ n \notin Late BY <1>1 DEF Grown, Sent, Late
<1>6. IsFiniteSet(Sent) /\ IsFiniteSet(Late) BY LogIsFinite
<1>7. Cardinality(Sent') = Cardinality(Sent) + One(r.verdict = "forward") /\ Cardinality(Sent) \in Nat
  BY <1>3, <1>5, <1>6, OneMore
<1>8. Cardinality(Late') = Cardinality(Late) + One(r.delayed) /\ Cardinality(Late) \in Nat
  BY <1>2, <1>4, <1>5, <1>6, OneMore
<1> QED BY <1>1, <1>7, <1>8 DEF Grown

LEMMA TalliesStep == Typed /\ Tallies /\ [Next]_vars => Tallies'
<1> SUFFICES ASSUME Typed, Tallies, [Next]_vars PROVE Tallies'
  OBVIOUS
<1>1. ASSUME NEW r, Logged(r), NEW x, x = One(r.verdict = "forward"), NEW y, y = One(r.delayed),
             forwarded' = forwarded + x, dropped' = dropped + (1 - x), throttled_pkts' = throttled_pkts + y
      PROVE  Tallies'
  <2>1. x \in {0, 1} BY <1>1 DEF One
  <2>2. /\ total_packets' = Len(output') /\ forwarded' = Cardinality(Sent')
        /\ throttled_pkts' = Cardinality(Late')
    BY <1>1, LogCounts DEF Logged, Tallies
  <2>3. total_packets' = forwarded' + dropped'
    <3>1. /\ total_packets = forwarded + dropped /\ total_packets' = total_packets + 1
          /\ forwarded \in Nat /\ dropped \in Nat
      BY <1>1 DEF Logged, Tallies, Typed
    <3> QED BY <1>1, <2>1, <3>1
  <2> QED BY <2>2, <2>3 DEF Tallies
<1>2. CASE ForwardUnparsed /\ Logged([packet |-> Junk, verdict |-> "forward", delayed |-> FALSE])
  BY <1>1, <1>2 DEF ForwardUnparsed, One, Typed
<1>3. ASSUME NEW p \in Packets, Drop(p), Logged([packet |-> p, verdict |-> "drop", delayed |-> FALSE])
      PROVE  Tallies'
  <2>1. forwarded' = forwarded + 0 /\ dropped' = dropped + (1 - 0) /\ throttled_pkts' = throttled_pkts + 0
    BY <1>3 DEF Drop, Typed
  <2>2. One("drop" = "forward") = 0 BY DEF One
  <2>3. One(FALSE) = 0 BY DEF One
  <2> SUFFICES ASSUME NEW r, r = [packet |-> p, verdict |-> "drop", delayed |-> FALSE] PROVE Tallies'
    OBVIOUS
  <2>4. Logged(r) /\ 0 = One(r.verdict = "forward") /\ 0 = One(r.delayed) BY <1>3, <2>2, <2>3
  <2> QED BY <1>1, <2>1, <2>4
<1>4. ASSUME NEW p \in Packets, Forward(p),
             Logged([packet |-> p, verdict |-> "forward", delayed |-> Seen(p).throttled])
      PROVE  Tallies'
  <2>1. /\ forwarded' = forwarded + 1 /\ dropped' = dropped + (1 - 1)
        /\ throttled_pkts' = throttled_pkts + One(Seen(p).throttled)
    BY <1>4 DEF Forward, Typed
  <2> QED BY <1>1, <1>4, <2>1 DEF One
<1>5. CASE UNCHANGED vars BY <1>5 DEF vars, Tallies, Sent, Late
<1> QED BY <1>2, <1>3, <1>4, <1>5, Outcomes

(* A flow is classified iff one of its packets is counted under a name, and *)
(* the name is the flow's.                                                  *)
LEMMA NamesAreKnown ==
  ASSUME Typed, Told, NEW t \in Tuples
  PROVE  /\ flows[t].classified <=> t \in {Of(i) : i \in Named}
         /\ flows[t].classified => \E j \in Named : HostAt[j] = flows[t].sni
<1>1. HostFacts BY HostAtIs
<1>2. NoHost \notin Names BY SimpleEngineAssumption
<1>3. ASSUME flows[t].classified PROVE \E j \in Named : Of(j) = t /\ HostAt[j] = flows[t].sni
  <2>1. PICK j \in Tells(t) : flows[t].sni = output[j].packet.host /\ \A k \in Tells(t) : j <= k
    BY <1>3 DEF Told
  <2>2. j \in Parsed /\ Of(j) = t /\ output[j].packet.host \in Names BY DEF Tells
  <2>3. j \in Firsts(j) BY <2>1, <2>2 DEF Firsts
  <2>4. HostAt[j] = output[j].packet.host BY <1>1, <2>2, <2>3 DEF HostFacts
  <2> QED BY <1>2, <2>1, <2>2, <2>4 DEF Named
<1>4. ASSUME NEW j \in Named, Of(j) = t PROVE flows[t].classified
  <2>1. Firsts(j) # {} BY <1>1 DEF HostFacts, Named
  <2>2. Tells(t) # {} BY <1>4, <2>1 DEF Firsts
  <2> QED BY <2>2 DEF Told
<1> QED BY <1>3, <1>4

(* What a packet adds to the sets the report is compared with.              *)
LEMMA RecordCounts ==
  ASSUME Typed, Typed', Settled, Settled', Told', NEW p \in Packets, Update(p), NEW r, Logged(r),
         r.packet = p, NEW n, n = Len(output) + 1, NEW g, g = Seen(p), NEW t, t = p.tuple
  PROVE  /\ \A i \in Parsed : HostAt'[i] = HostAt[i] /\ Of(i)' = Of(i) /\ output'[i] = output[i]
         /\ HostAt'[n] = (IF g.classified THEN g.sni ELSE NoHost) /\ Of(n)' = t /\ output'[n] = r
         /\ Named' = (IF g.classified THEN Named \cup {n} ELSE Named) /\ n \notin Named
         /\ Named \subseteq Parsed
         /\ \A a : Under(a)' = (IF a = g.app_type THEN Under(a) \cup {n} ELSE Under(a)) /\ n \notin Under(a)
<1>1. p # Junk BY SimpleEngineAssumption
<1>2. /\ Grown(r) /\ \A i \in DOMAIN output : Of(i)' = Of(i)
      /\ \A i : i = n => Of(i)' = t
  BY <1>1, LogGrows
<1>3. /\ n \notin Parsed /\ Parsed' = Parsed \cup {n}
      /\ \A i \in Parsed : HostAt'[i] = HostAt[i]
      /\ HostAt'[n] = IF g.classified THEN g.sni ELSE NoHost
  BY HostsGrow
<1>4. \A i \in Parsed : HostAt'[i] = HostAt[i] /\ Of(i)' = Of(i) /\ output'[i] = output[i]
  BY <1>2, <1>3 DEF Parsed, Grown
<1>5. Of(n)' = t /\ output'[n] = r BY <1>2 DEF Grown
<1>6. /\ t \in Tuples /\ g \in Flow /\ NoHost \notin Names
      /\ ~g.classified => g.app_type = PortApp(t)
  <2>1. \A f : f = flows[t] => t \in Tuples /\ g \in Flow /\ (~g.classified => g.app_type = PortApp(t))
    BY SeenIs
  <2> QED BY <2>1, SimpleEngineAssumption
<1>7. g.classified => g.app_type = AppOfName[g.sni] /\ g.sni \in Names
  <2>1. flows'[t] = g BY <1>6 DEF Update, Typed
  <2> QED BY <1>6, <2>1 DEF Settled, Flow
<1>8. Named \subseteq Parsed /\ \A a : Under(a) \subseteq Parsed BY DEF Named, Under
<1>9. Named' = IF g.classified THEN Named \cup {n} ELSE Named
  <2>1. HostAt'[n] # NoHost <=> g.classified BY <1>3, <1>6, <1>7
  <2>2. \A i : i \in Named' <=> i \in Parsed' /\ HostAt'[i] # NoHost BY DEF Named
  <2>3. \A i : i \in Named <=> i \in Parsed /\ HostAt[i] # NoHost BY DEF Named
  <2>4. \A i : i \in Named' <=> i \in Named \/ (i = n /\ g.classified)
    BY <1>3, <2>1, <2>2, <2>3
  <2> QED BY <2>4
<1>10. ASSUME NEW a PROVE Under(a)' = IF a = g.app_type THEN Under(a) \cup {n} ELSE Under(a)
  <2>1. AppAt(n)' = g.app_type
    <3>1. AppAt(n)' = IF HostAt'[n] = NoHost THEN PortApp(t) ELSE AppOfName[HostAt'[n]]
      BY <1>5 DEF AppAt
    <3> QED BY <1>3, <1>6, <1>7, <3>1
  <2>2. \A i \in Parsed : AppAt(i)' = AppAt(i) BY <1>4 DEF AppAt
  <2>3. \A i : i \in Under(a)' <=> i \in Parsed' /\ AppAt(i)' = a BY DEF Under
  <2>4. \A i : i \in Under(a) <=> i \in Parsed /\ AppAt(i) = a BY DEF Under
  <2>5. \A i : i \in Under(a)' <=> i \in Under(a) \/ (i = n /\ a = g.app_type)
    <3> TAKE i
    <3>1. CASE i \in Parsed BY <1>3, <2>2, <2>3, <2>4, <3>1
    <3>2. CASE i = n
      <4>1. AppAt(i)' = g.app_type BY <2>1, <3>2
      <4> QED BY <1>3, <2>3, <2>4, <3>2, <4>1
    <3>3. CASE i \notin Parsed /\ i # n BY <1>3, <2>3, <2>4, <3>3
    <3> QED BY <3>1, <3>2, <3>3
  <2> QED BY <2>5
<1> QED BY <1>3, <1>4, <1>5, <1>8, <1>9, <1>10

LEMMA PerAppStep ==
  ASSUME Typed, Typed', Settled, Settled', Told', PerApp,
         NEW p \in Packets, Update(p), NEW r, Logged(r), r.packet = p
  PROVE  PerApp'
<1> SUFFICES ASSUME NEW n, n = Len(output) + 1, NEW g, g = Seen(p), NEW a \in AppTypes
             PROVE  app_pkt_counts'[a] = Cardinality(Under(a)')
  BY DEF PerApp
<1>1. Under(a)' = (IF a = g.app_type THEN Under(a) \cup {n} ELSE Under(a)) /\ n \notin Under(a)
  BY RecordCounts
<1>2. IsFiniteSet(Under(a)) BY LogIsFinite
<1>3. g.app_type \in AppTypes BY SeenTyped DEF Flow
<1>4. app_pkt_counts' = [app_pkt_counts EXCEPT ![g.app_type] = @ + 1] /\ app_pkt_counts \in [AppTypes -> Nat]
  BY DEF Update, Typed
<1>5. app_pkt_counts[a] = Cardinality(Under(a)) BY DEF PerApp
<1>6. CASE a = g.app_type
  <2>1. Cardinality(Under(a)') = Cardinality(Under(a)) + 1
    <3> SUFFICES ASSUME NEW S, S = Under(a) PROVE Cardinality(Under(a)') = Cardinality(S) + 1
      OBVIOUS
    <3>1. IsFiniteSet(S) /\ n \notin S BY <1>1, <1>2
    <3>2. Cardinality(S \cup {n}) = Cardinality(S) + 1 BY <3>1, FS_AddElement
    <3>3. Under(a)' = S \cup {n} BY <1>1, <1>6
    <3> QED BY <3>2, <3>3
  <2>2. app_pkt_counts'[a] = app_pkt_counts[a] + 1 BY <1>3, <1>4, <1>6
  <2> QED BY <1>5, <2>1, <2>2
<1>7. CASE a # g.app_type
  <2>1. Under(a)' = Under(a) BY <1>1, <1>7
  <2>2. app_pkt_counts'[a] = app_pkt_counts[a] BY <1>3, <1>4, <1>7
  <2> QED BY <1>5, <2>1, <2>2
<1> QED BY <1>6, <1>7

LEMMA CreditedStep ==
  ASSUME Typed, Typed', Settled, Settled', Told, Told', Credited,
         NEW p \in Packets, Update(p), NEW r, Logged(r), r.packet = p
  PROVE  Credited'
<1> SUFFICES ASSUME NEW n, n = Len(output) + 1, NEW g, g = Seen(p), NEW t, t = p.tuple,
                    NEW f, f = flows[t]
             PROVE  Credited'
  OBVIOUS
<1>1. /\ \A i \in Parsed : HostAt'[i] = HostAt[i] /\ Of(i)' = Of(i)
      /\ HostAt'[n] = (IF g.classified THEN g.sni ELSE NoHost) /\ Of(n)' = t
      /\ Named' = (IF g.classified THEN Named \cup {n} ELSE Named)
      /\ Named \subseteq Parsed
  BY RecordCounts
<1>2. /\ t \in Tuples /\ f \in Flow /\ g \in Flow
      /\ f.classified => Keeps(f, g)
      /\ g.classified <=> f.classified \/ p.host \in Names
      /\ ~f.classified /\ p.host \in Names => g.sni = p.host
      /\ News(Counted(p), p) <=> ~f.classified /\ p.host \in Names
  BY SeenIs
<1>3. f.classified => g.sni = f.sni BY <1>2 DEF Keeps, Flow
<1> DEFINE news == ~f.classified /\ p.host \in Names
<1>4. /\ f.classified <=> t \in {Of(i) : i \in Named}
      /\ f.classified => \E j \in Named : HostAt[j] = f.sni
  BY <1>2, NamesAreKnown
<1>5. detected_snis' = {HostAt'[i] : i \in Named'}
  <2>1. {HostAt'[i] : i \in Named'} = {HostAt[i] : i \in Named} \cup (IF g.classified THEN {g.sni} ELSE {})
    BY <1>1
  <2>2. detected_snis' = detected_snis \cup (IF news THEN {p.host} ELSE {})
    BY <1>2 DEF Update
  <2>3. f.classified => f.sni \in {HostAt[i] : i \in Named} BY <1>4
  <2> QED BY <1>2, <1>3, <2>1, <2>2, <2>3 DEF Credited
<1> DEFINE O == {Of(i) : i \in Named}
           P == {Of(i)' : i \in Named'}
<1>6. P = IF news THEN O \cup {t} ELSE O
  <2>1. P = IF g.classified THEN O \cup {t} ELSE O BY <1>1
  <2> QED BY <1>2, <1>4, <2>1
<1>7. news => t \notin O BY <1>4
<1>8. IsFiniteSet(O) BY LogIsFinite
<1>9. Cardinality(P) = Cardinality(O) + One(news)
  <2>1. CASE news
    <3> HIDE DEF O, P
    <3>1. P = O \cup {t} /\ t \notin O BY <1>6, <1>7, <2>1
    <3>2. Cardinality(P) = Cardinality(O) + One(TRUE) BY <1>8, <3>1, OneMore
    <3> QED BY <2>1, <3>2 DEF One
  <2>2. CASE ~news
    <3> HIDE DEF O, P
    <3>1. P = O BY <1>6, <2>2
    <3>2. Cardinality(O) \in Nat BY <1>8, FS_CardinalityType
    <3> QED BY <2>2, <3>1, <3>2 DEF One
  <2> QED BY <2>1, <2>2
<1>10. extracted'.sni + extracted'.http + extracted'.dns
         = extracted.sni + extracted.http + extracted.dns + One(news)
  <2> SUFFICES ASSUME NEW k, k = One(news), NEW e, e = Extractor(t)
               PROVE extracted'.sni + extracted'.http + extracted'.dns
                       = extracted.sni + extracted.http + extracted.dns + k
    OBVIOUS
  <2>1. k \in Nat /\ e \in {"sni", "http", "dns"} BY SeenTyped DEF One
  <2>2. extracted' = [extracted EXCEPT ![e] = @ + k]
    <3>1. One(News(Counted(p), p)) = k BY <1>2 DEF One
    <3> QED BY <3>1 DEF Update
  <2>3. extracted \in [sni : Nat, http : Nat, dns : Nat] BY DEF Typed
  <2> HIDE DEF news
  <2> QED BY <2>1, <2>2, <2>3
<1> HIDE DEF news
<1>11. extracted.sni + extracted.http + extracted.dns = Cardinality(O) BY DEF Credited
<1>12. extracted'.sni + extracted'.http + extracted'.dns = Cardinality(P)
  BY <1>9, <1>10, <1>11
<1> QED BY <1>5, <1>12 DEF Credited

LEMMA VerdictsStep ==
  ASSUME Typed, Typed', Settled, Settled', Told', Verdicts, "0.0.0.0" \notin rules.ips,
         NEW p \in Packets, Update(p), NEW r, Logged(r), r.packet = p,
         r.verdict = "drop" <=> Seen(p).blocked
  PROVE  Verdicts'
<1> SUFFICES ASSUME NEW n, n = Len(output) + 1, NEW g, g = Seen(p), NEW t, t = p.tuple,
                    NEW f, f = flows[t]
             PROVE  Verdicts'
  OBVIOUS
<1>1. /\ \A i \in Parsed : HostAt'[i] = HostAt[i] /\ Of(i)' = Of(i) /\ output'[i] = output[i]
      /\ HostAt'[n] = (IF g.classified THEN g.sni ELSE NoHost) /\ Of(n)' = t /\ output'[n] = r
      /\ Named' = (IF g.classified THEN Named \cup {n} ELSE Named)
      /\ Named \subseteq Parsed
  BY RecordCounts
<1>2. t \in Tuples /\ flows'[t] = g BY SeenTyped DEF Update, Typed
<1>3. g.classified => g.blocked = isBlocked(rules, SrcIP[t], AppOfName[g.sni], g.sni)
  BY <1>2 DEF Settled
<1>4. g.classified => (r.verdict = "drop" <=> MarkedBlocked(g.sni) \/ SrcIP[t] \in rules.ips)
  <2>1. isBlocked(rules, SrcIP[t], AppOfName[g.sni], g.sni)
          <=> MarkedBlocked(g.sni) \/ SrcIP[t] \in rules.ips
    BY DEF MarkedBlocked, isBlocked
  <2> QED BY <1>3, <2>1
<1> SUFFICES ASSUME NEW i \in Named'
             PROVE  output'[i].verdict = "drop" <=> MarkedBlocked(HostAt'[i]) \/ SrcIP[Of(i)'] \in rules.ips
  BY DEF Verdicts
<1>5. CASE i \in Named
  <2>1. HostAt'[i] = HostAt[i] /\ Of(i)' = Of(i) /\ output'[i] = output[i] BY <1>1, <1>5
  <2>2. output[i].verdict = "drop" <=> MarkedBlocked(HostAt[i]) \/ SrcIP[Of(i)] \in rules.ips
    BY <1>5 DEF Verdicts
  <2> QED BY <2>1, <2>2
<1>6. CASE i = n /\ g.classified
  <2>1. Of(i)' = t /\ HostAt'[i] = g.sni /\ output'[i] = r BY <1>1, <1>6
  <2> QED BY <1>4, <1>6, <2>1
<1> QED BY <1>1, <1>5, <1>6

Report   == Tallies /\ PerApp /\ Credited /\ Verdicts
Reported == Typed /\ Settled /\ Told /\ Report

LEMMA ReportedInit == Init => Reported
<1> SUFFICES ASSUME Init PROVE Reported
  OBVIOUS
<1>1. Typed /\ Settled BY TypedInit, SettledInit
<1>2. output = <<>> /\ DOMAIN output = {} /\ Len(output) = 0 BY DEF Init
<1>3. Parsed = {} /\ Sent = {} /\ Late = {} BY <1>2 DEF Parsed, Sent, Late
<1>4. Named = {} /\ \A a : Under(a) = {} BY <1>3 DEF Named, Under
<1>5. Cardinality({}) = 0 BY FS_EmptySet
<1>6. Told
  <2>1. \A t : Tells(t) = {} BY <1>3 DEF Tells
  <2>2. \A t \in Tuples : flows[t].classified = FALSE BY DEF Init, NewFlow
  <2> QED BY <2>1, <2>2 DEF Told
<1>7. Tallies BY <1>2, <1>3, <1>5 DEF Init, Tallies
<1>8. PerApp BY <1>4, <1>5 DEF Init, PerApp
<1>9. Credited
  <2>1. {HostAt[i] : i \in Named} = {} /\ {Of(i) : i \in Named} = {} BY <1>4
  <2>2. detected_snis = {} /\ extracted.sni + extracted.http + extracted.dns = 0 BY DEF Init
  <2> QED BY <1>5, <2>1, <2>2 DEF Credited
<1>10. Verdicts BY <1>4 DEF Verdicts
<1> QED BY <1>1, <1>6, <1>7, <1>8, <1>9, <1>10 DEF Reported, Report

LEMMA ReportedStep == "0.0.0.0" \notin rules.ips /\ Reported /\ [Next]_vars => Reported'
<1> SUFFICES ASSUME "0.0.0.0" \notin rules.ips, Reported, [Next]_vars PROVE Reported'
  OBVIOUS
<1>1. Typed /\ Settled /\ Told /\ Tallies /\ PerApp /\ Credited /\ Verdicts BY DEF Reported, Report
<1>2. Typed' /\ Settled' /\ Told' /\ Tallies' BY <1>1, TypedStep, SettledStep, ToldStep, TalliesStep
<1>3. ASSUME NEW p \in Packets, Update(p), NEW r, Logged(r), r.packet = p,
             r.verdict = "drop" <=> Seen(p).blocked
      PROVE  PerApp' /\ Credited' /\ Verdicts'
  <2>1. PerApp' BY <1>1, <1>2, <1>3, PerAppStep
  <2>2. Credited' BY <1>1, <1>2, <1>3, CreditedStep
  <2>3. Verdicts' BY <1>1, <1>2, <1>3, VerdictsStep
  <2> QED BY <2>1, <2>2, <2>3
<1>4. ASSUME ForwardUnparsed, NEW r, Logged(r), r.packet = Junk PROVE PerApp' /\ Credited' /\ Verdicts'
  <2>1. Parsed' = Parsed /\ \A i \in Parsed : HostAt'[i] = HostAt[i] /\ Of(i)' = Of(i) /\ output'[i] = output[i]
    BY <1>1, <1>2, <1>4, HostsStay
  <2>2. Named' = Named /\ Named \subseteq Parsed BY <2>1 DEF Named
  <2>3. \A a : Under(a)' = Under(a)
    <3>1. \A i \in Parsed : AppAt(i)' = AppAt(i) BY <2>1 DEF AppAt
    <3> QED BY <2>1, <3>1 DEF Under
  <2>4. PerApp' BY <1>1, <1>4, <2>3 DEF ForwardUnparsed, PerApp
  <2>5. Credited'
    <3>1. {HostAt'[i] : i \in Named'} = {HostAt[i] : i \in Named}
          /\ {Of(i)' : i \in Named'} = {Of(i) : i \in Named}
      BY <2>1, <2>2
    <3> QED BY <1>1, <1>4, <3>1 DEF ForwardUnparsed, Credited
  <2>6. Verdicts' BY <1>1, <2>1, <2>2 DEF Verdicts
  <2> QED BY <2>4, <2>5, <2>6
<1>5. ASSUME UNCHANGED vars PROVE PerApp' /\ Credited' /\ Verdicts'
  <2>1. output' = output BY <1>5 DEF vars
  <2>2. Parsed' = Parsed /\ \A i : Of(i)' = Of(i) BY <2>1 DEF Parsed, Of
  <2>3. HostAt' = HostAt BY <2>1 DEF HostAt, Parsed, Of
  <2>4. Named' = Named /\ \A i : AppAt(i)' = AppAt(i) BY <2>2, <2>3 DEF Named, AppAt
  <2>5. \A a : Under(a)' = Under(a) BY <2>2, <2>4 DEF Under
  <2>6. PerApp' BY <1>1, <1>5, <2>5 DEF vars, PerApp
  <2>7. Credited' BY <1>1, <1>5, <2>2, <2>3, <2>4 DEF vars, Credited
  <2>8. Verdicts' BY <1>1, <2>1, <2>2, <2>3, <2>4 DEF Verdicts
  <2> QED BY <2>6, <2>7, <2>8
<1>6. PerApp' /\ Credited' /\ Verdicts'
  <2>1. CASE ForwardUnparsed /\ Logged([packet |-> Junk, verdict |-> "forward", delayed |-> FALSE])
    BY <1>4, <2>1
  <2>2. ASSUME NEW p \in Packets, Update(p), Seen(p).blocked,
               Logged([packet |-> p, verdict |-> "drop", delayed |-> FALSE])
        PROVE  PerApp' /\ Credited' /\ Verdicts'
    BY <1>3, <2>2
  <2>3. ASSUME NEW p \in Packets, Update(p), ~Seen(p).blocked,
               Logged([packet |-> p, verdict |-> "forward", delayed |-> Seen(p).throttled])
        PROVE  PerApp' /\ Credited' /\ Verdicts'
    <3> SUFFICES ASSUME NEW r, r = [packet |-> p, verdict |-> "forward", delayed |-> Seen(p).throttled]
                 PROVE  PerApp' /\ Credited' /\ Verdicts'
      OBVIOUS
    <3>1. Logged(r) /\ r.packet = p /\ r.verdict # "drop" BY <2>3
    <3> QED BY <1>3, <2>3, <3>1
  <2> QED BY <1>1, <1>5, <2>1, <2>2, <2>3, Outcomes
<1> QED BY <1>2, <1>6 DEF Reported, Report

(* Whatever records are read, in whatever order, the report at the end      *)
(* agrees with what happened to them.  The hypothesis is needed: the report *)
(* asks the rules about the address 0.0.0.0, so that a rule against that    *)
(* address would mark every name as blocked.                                *)
THEOREM ReportIsTrue ==
  ASSUME "0.0.0.0" \notin rules.ips
  PROVE  Spec => []ReportAddsUp
<1>1. Init => Reported BY ReportedInit
<1>2. Reported /\ [Next]_vars => Reported' BY ReportedStep
<1>3. Reported => ReportAddsUp BY PartsOfReport DEF Reported, Report
<1> QED BY <1>1, <1>2, <1>3, PTL DEF Spec

-----------------------------------------------------------------------------
(* The two engines side by side.  The theorems about a fast path hold for   *)
(* the one here: what they assume is true of these packets and tuples.      *)
FP == INSTANCE FastPathProofs
        WITH Hint <- AppHint, rules_ <- rules, forwarded <- f_forwarded, dropped <- f_dropped

LEMMA FastAssumed ==
  /\ max_flows \in Nat /\ MaxPackets \in Nat
  /\ \A p \in Packets : p.size \in Nat \ {0} /\ p.entropy \in 0..FP!MaxEntropy
  /\ AppHint \in [Tuples -> {FP!UNKNOWN, "HTTP", "HTTPS", "DNS"}]
  /\ DOMAIN SrcIP = Tuples
  /\ NoHost \notin Names /\ NoPayload \notin Names /\ NoHost # NoPayload
  /\ \A p \in Packets :
       /\ p.tuple \in Tuples /\ p.host \in (Names \ {""}) \cup {NoHost, NoPayload}
       /\ p.flags \subseteq {"SYN", "FIN", "RST"}
  /\ SCAN_MAX_PKTS \in Nat /\ DDOS_MIN_PACKETS \in Nat \ {0, 1} /\ EXFIL_MIN_BYTES \in Nat
  /\ Names \subseteq STRING /\ "" \in Names
  /\ Lower \in [Names -> Names]
  /\ \A n \in Names : Lower[Lower[n]] = Lower[n]
<1>1. AppHint \in [Tuples -> {FP!UNKNOWN, "HTTP", "HTTPS", "DNS"}]
  <2>1. \A a, b : Parser!app_hint(a, b) \in {FP!UNKNOWN, "HTTP", "HTTPS", "DNS"}
    BY DEF Parser!app_hint, FP!UNKNOWN
  <2> QED BY <2>1 DEF AppHint
<1>2. Fast!MaxEntropy = FP!MaxEntropy BY DEF Fast!MaxEntropy, FP!MaxEntropy
<1> QED BY <1>1, <1>2, EnginesAssumption, SimpleEngineAssumption, RulesAssumption, Zenon

(* The operators of the fast path under their two names.                    *)
LEMMA SameScore == \A f : Fast!score(f) = FP!score(f)
<1>1. \A f : Fast!portScan(f) = FP!portScan(f) BY DEF Fast!portScan, FP!portScan
<1>2. \A f : Fast!Pairs(f) = FP!Pairs(f) /\ Fast!ScaledVariance(f) = FP!ScaledVariance(f)
  BY DEF Fast!Pairs, FP!Pairs, Fast!ScaledVariance, FP!ScaledVariance
<1>3. \A f : Fast!ddos(f) = FP!ddos(f) BY <1>2 DEF Fast!ddos, FP!ddos
<1>4. \A f : Fast!exfiltration(f) = FP!exfiltration(f)
  BY DEF Fast!exfiltration, FP!exfiltration, Fast!AtMost1000, FP!AtMost1000
<1>5. \A f : Fast!highEntropy(f) = FP!highEntropy(f)
  BY DEF Fast!highEntropy, FP!highEntropy, Fast!AtMost1000, FP!AtMost1000, Fast!TlsApps, FP!TlsApps
<1>6. \A f : Fast!FlagRatio(f) = FP!FlagRatio(f) /\ Fast!ChristmasTree(f) = FP!ChristmasTree(f)
  BY DEF Fast!FlagRatio, FP!FlagRatio, Fast!ChristmasTree, FP!ChristmasTree
<1>7. \A f : Fast!Verdicts(f) = FP!Verdicts(f)
  BY <1>1, <1>3, <1>4, <1>5, <1>6, Zenon DEF Fast!Verdicts, FP!Verdicts
<1> DEFINE Best(v) == CHOOSE i \in DOMAIN v : \A j \in DOMAIN v :
                        v[j].score < v[i].score \/ (v[j].score = v[i].score /\ i <= j)
           Score(f, v) == IF f.packet_count < 2 \/ v[Best(v)].score = 0 THEN [type |-> "NONE", score |-> 0]
                          ELSE v[Best(v)]
<1>8. \A f : Fast!score(f) = Score(f, Fast!Verdicts(f)) BY DEF Fast!score
<1>9. \A f : FP!score(f) = Score(f, FP!Verdicts(f)) BY DEF FP!score
<1> HIDE DEF Score
<1> QED BY <1>7, <1>8, <1>9

LEMMA SameFlow ==
  ASSUME NEW p
  PROVE  /\ Fast!Arrived(p) = FP!Arrived(p) /\ Fast!Inspected(p) = FP!Inspected(p)
         /\ \A f : /\ Fast!News(f, p) = FP!News(f, p) /\ Fast!ToBlock(f, p) = FP!ToBlock(f, p)
                  /\ Fast!Throttled(Fast!Scored(f)) = FP!Throttled(FP!Scored(f))
<1>1. \A ip, app, sni : Fast!isBlocked(rules, ip, app, sni) = FP!isBlocked(rules, ip, app, sni)
  <2>1. \A sni, d : Fast!domainMatches(sni, d) = FP!domainMatches(sni, d)
    BY DEF Fast!domainMatches, FP!domainMatches
  <2> QED BY <2>1 DEF Fast!isBlocked, FP!isBlocked, Fast!UNKNOWN, FP!UNKNOWN
<1>2. \A app : Fast!isThrottled(rules, app) = FP!isThrottled(rules, app)
  BY DEF Fast!isThrottled, FP!isThrottled, Fast!UNKNOWN, FP!UNKNOWN
<1>3. Fast!AppOfName = FP!AppOfName
  <2>1. Fast!Signatures = FP!Signatures BY DEF Fast!Signatures, FP!Signatures
  <2>2. \A a, b : Fast!ContainsText(a, b) = FP!ContainsText(a, b)
    BY DEF Fast!ContainsText, FP!ContainsText
  <2>3. \A n : Fast!Hits(n) = FP!Hits(n) BY <2>1, <2>2 DEF Fast!Hits, FP!Hits
  <2>4. \A s : Fast!FirstHit(s) = FP!FirstHit(s) BY DEF Fast!FirstHit, FP!FirstHit
  <2>5. \A n : Fast!sniToAppType(n) = FP!sniToAppType(n)
    BY <2>1, <2>3, <2>4 DEF Fast!sniToAppType, FP!sniToAppType, Fast!UNKNOWN, FP!UNKNOWN
  <2> QED BY <2>5 DEF Fast!AppOfName, FP!AppOfName
<1>4. Fast!IPBlocked(p) = FP!IPBlocked(p)
  BY <1>1 DEF Fast!IPBlocked, FP!IPBlocked, Fast!UNKNOWN, FP!UNKNOWN
<1>5. \A f : Fast!Opened(f, p) = FP!Opened(f, p) BY <1>4 DEF Fast!Opened, FP!Opened
<1>6. \A f : Fast!Measured(f, p) = FP!Measured(f, p)
  BY DEF Fast!Measured, FP!Measured, Fast!One, FP!One, Fast!HasPayload, FP!HasPayload
<1>7. \A tbl, t : Fast!Table!Lookup(tbl, t) = FP!Table!Lookup(tbl, t)
  <2>1. Fast!UNKNOWN = FP!UNKNOWN BY DEF Fast!UNKNOWN, FP!UNKNOWN
  <2>2. Fast!NewFlow = FP!NewFlow BY <2>1, Zenon DEF Fast!NewFlow, FP!NewFlow
  <2>3. \A tbl, t : /\ Fast!Table!Holds(tbl, t) = FP!Table!Holds(tbl, t)
                    /\ Fast!Table!FlowOf(tbl, t) = FP!Table!FlowOf(tbl, t)
    BY DEF Fast!Table!Holds, FP!Table!Holds, Fast!Table!FlowOf, FP!Table!FlowOf, Fast!Table!Place, FP!Table!Place
  <2> QED BY <2>2, <2>3 DEF Fast!Table!Lookup, FP!Table!Lookup
<1>8. Fast!Arrived(p) = FP!Arrived(p) BY <1>5, <1>6, <1>7 DEF Fast!Arrived, FP!Arrived
<1>9. \A f : Fast!News(f, p) = FP!News(f, p) BY DEF Fast!News, FP!News
<1>10. \A f : Fast!classifyFlow(f, p) = FP!classifyFlow(f, p)
  BY <1>2, <1>3, <1>9 DEF Fast!classifyFlow, FP!classifyFlow
<1>11. \A f : Fast!ToBlock(f, p) = FP!ToBlock(f, p) BY <1>1, <1>4 DEF Fast!ToBlock, FP!ToBlock
<1>12. \A f : Fast!Scored(f) = FP!Scored(f) BY SameScore DEF Fast!Scored, FP!Scored, Fast!Due, FP!Due
<1>13. \A f : Fast!Throttled(f) = FP!Throttled(f) BY <1>2 DEF Fast!Throttled, FP!Throttled
<1> QED BY <1>8, <1>9, <1>10, <1>11, <1>12, <1>13 DEF Fast!Inspected, FP!Inspected

LEMMA SameTable ==
  /\ \A tbl, max, t, flow : Fast!Table!Store(tbl, max, t, flow) = FP!Table!Store(tbl, max, t, flow)
  /\ \A tbl, t : Fast!Table!Holds(tbl, t) = FP!Table!Holds(tbl, t)
  /\ \A max : Fast!Table!Bound(max) = FP!Table!Bound(max)
<1>1. \A tbl, t : Fast!Table!Holds(tbl, t) = FP!Table!Holds(tbl, t)
  BY DEF Fast!Table!Holds, FP!Table!Holds
<1>2. \A max : Fast!Table!Bound(max) = FP!Table!Bound(max) BY DEF Fast!Table!Bound, FP!Table!Bound
<1>3. \A tbl, t : Fast!Table!Without(tbl, t) = FP!Table!Without(tbl, t)
  <2>1. \A s, i : Fast!Table!RemoveAt(s, i) = FP!Table!RemoveAt(s, i)
    BY DEF Fast!Table!RemoveAt, FP!Table!RemoveAt
  <2> QED BY <1>1, <2>1 DEF Fast!Table!Without, FP!Table!Without, Fast!Table!Place, FP!Table!Place
<1>4. \A tbl, t, flow : Fast!Table!Used(tbl, t, flow) = FP!Table!Used(tbl, t, flow)
  BY <1>3 DEF Fast!Table!Used, FP!Table!Used
<1>5. \A tbl, max, t, flow : Fast!Table!Store(tbl, max, t, flow) = FP!Table!Store(tbl, max, t, flow)
  BY <1>1, <1>2, <1>4, Zenon DEF Fast!Table!Store, FP!Table!Store
<1> QED BY <1>1, <1>2, <1>5

(* What a fast path does with a packet: g is the flow as it finds it, h as  *)
(* DPI leaves it, flow as it is stored, and r what becomes of the packet.   *)
Kept(p, g, h, flow, r) ==
  \/ g.blocked /\ flow = g /\ r.verdict = "drop" /\ r.delayed = FALSE
  \/ /\ ~g.blocked /\ FP!ToBlock(h, p)
     /\ flow = [h EXCEPT !.blocked = TRUE] /\ r.verdict = "drop" /\ r.delayed = FALSE
  \/ /\ ~g.blocked /\ ~FP!ToBlock(h, p)
     /\ flow = FP!Throttled(FP!Scored(h)) /\ r.verdict = "forward" /\ r.delayed = flow.throttled

Filed(p, flow, r) ==
  /\ flow_table' = FP!Table!Store(flow_table, max_flows, p.tuple, flow)
  /\ evictions' = evictions + (IF ~FP!Table!Holds(flow_table, p.tuple)
                                 /\ Len(flow_table) >= FP!Table!Bound(max_flows) THEN 1 ELSE 0)
  /\ log' = Append(log, r) /\ r.packet = p

LEMMA FastStep ==
  ASSUME NEW p, Fast!FastDrop(p) \/ Fast!BlockAndDrop(p) \/ Fast!Forward(p)
  PROVE  \E flow, r : Kept(p, FP!Arrived(p), FP!Inspected(p), flow, r) /\ Filed(p, flow, r)
<1> DEFINE g == FP!Arrived(p)
           h == FP!Inspected(p)
<1>1. /\ Fast!Arrived(p) = g /\ Fast!Inspected(p) = h
      /\ Fast!ToBlock(h, p) = FP!ToBlock(h, p)
      /\ Fast!Throttled(Fast!Scored(h)) = FP!Throttled(FP!Scored(h))
  BY SameFlow
<1> HIDE DEF g, h
<1>2. ASSUME NEW flow, NEW v, NEW d, NEW x, Fast!Record(p, flow, v, d, x)
      PROVE  \E r : Filed(p, flow, r) /\ r.verdict = v /\ r.delayed = d
  <2> DEFINE r == [packet |-> p, verdict |-> v, delayed |-> d, flagged |-> x]
  <2>1. r.packet = p /\ r.verdict = v /\ r.delayed = d OBVIOUS
  <2>2. /\ flow_table' = Fast!Table!Store(flow_table, max_flows, p.tuple, flow)
        /\ evictions' = evictions + Fast!One(~Fast!Table!Holds(flow_table, p.tuple)
                                             /\ Len(flow_table) >= Fast!Table!Bound(max_flows))
        /\ log' = Append(log, r)
    BY <1>2 DEF Fast!Record
  <2> HIDE DEF r
  <2>3. Filed(p, flow, r) BY <2>1, <2>2, SameTable DEF Filed, Fast!One
  <2> QED BY <2>1, <2>3
<1>3. CASE Fast!FastDrop(p)
  <2>1. PICK v, d, x : g.blocked /\ Fast!Record(p, g, v, d, x) /\ v = "drop" /\ d = FALSE
    BY <1>1, <1>3 DEF Fast!FastDrop
  <2>2. PICK r : Filed(p, g, r) /\ r.verdict = v /\ r.delayed = d BY <1>2, <2>1
  <2> QED BY <2>1, <2>2 DEF Kept, g, h
<1>4. CASE Fast!BlockAndDrop(p)
  <2> DEFINE k == [h EXCEPT !.blocked = TRUE]
  <2>1. PICK v, d, x : /\ ~g.blocked /\ FP!ToBlock(h, p) /\ Fast!Record(p, k, v, d, x)
                       /\ v = "drop" /\ d = FALSE
    BY <1>1, <1>4 DEF Fast!BlockAndDrop
  <2>2. PICK r : Filed(p, k, r) /\ r.verdict = v /\ r.delayed = d BY <1>2, <2>1
  <2> QED BY <2>1, <2>2 DEF Kept, g, h
<1>5. CASE Fast!Forward(p)
  <2> DEFINE k == FP!Throttled(FP!Scored(h))
  <2>1. ~g.blocked /\ ~FP!ToBlock(h, p) /\ \E x : Fast!Record(p, k, "forward", k.throttled, x)
    BY <1>1, <1>5 DEF Fast!Forward
  <2>2. PICK r : Filed(p, k, r) /\ r.verdict = "forward" /\ r.delayed = k.throttled BY <1>2, <2>1
  <2> QED BY <2>1, <2>2 DEF Kept, g, h
<1> QED BY <1>3, <1>4, <1>5

(* Seen through the flow of the other engine: told is whether it is         *)
(* classified, host the name it has.  Until an eviction, the table of the   *)
(* fast path holds for each flow what that engine knows of it.              *)
Twins(f, g, t) ==
  \/ g = FP!NewFlow /\ f.packet_count = 0 /\ ~f.classified
  \/ FP!Known(g, t, f.classified, f.sni) /\ f.packet_count > 0

Alike ==
  /\ FP!IsSeq(flow_table) /\ FP!Single(flow_table)
  /\ \A t \in Tuples : Twins(flows[t], FP!Table!Lookup(flow_table, t), t)

(* What the other engine does with a flow that is not classified, and with  *)
(* one that is.                                                             *)
Slowed == \A t \in Tuples : flows[t].throttled = (flows[t].classified /\ isThrottled(rules, flows[t].app_type))

Quiet(t) == {PortApp(t), AppHint[t]} \cap (rules.apps \cup rules.throttled) = {}

LEMMA SameRules ==
  /\ \A ip, app, sni : FP!isBlocked(rules, ip, app, sni) = isBlocked(rules, ip, app, sni)
  /\ \A app : FP!isThrottled(rules, app) = isThrottled(rules, app)
  /\ FP!AppOfName = AppOfName /\ FP!UNKNOWN = UNKNOWN
<1>1. FP!UNKNOWN = UNKNOWN BY DEF FP!UNKNOWN, UNKNOWN
<1>2. \A ip, app, sni : FP!isBlocked(rules, ip, app, sni) = isBlocked(rules, ip, app, sni)
  <2>1. \A sni, d : FP!domainMatches(sni, d) = domainMatches(sni, d)
    BY DEF FP!domainMatches, domainMatches
  <2> QED BY <1>1, <2>1 DEF FP!isBlocked, isBlocked
<1>3. \A app : FP!isThrottled(rules, app) = isThrottled(rules, app)
  BY <1>1 DEF FP!isThrottled, isThrottled
<1>4. FP!AppOfName = AppOfName
  <2>1. FP!Signatures = Signatures BY DEF FP!Signatures, Signatures
  <2>2. \A a, b : FP!ContainsText(a, b) = ContainsText(a, b) BY DEF FP!ContainsText, ContainsText
  <2>3. \A n : FP!Hits(n) = Hits(n) BY <2>1, <2>2 DEF FP!Hits, Hits
  <2>4. \A s : FP!FirstHit(s) = FirstHit(s) BY DEF FP!FirstHit, FirstHit
  <2>5. \A n : FP!sniToAppType(n) = sniToAppType(n)
    BY <1>1, <2>1, <2>3, <2>4 DEF FP!sniToAppType, sniToAppType
  <2> QED BY <2>5 DEF FP!AppOfName, AppOfName
<1> QED BY <1>1, <1>2, <1>3, <1>4

LEMMA SeenSlows ==
  ASSUME Typed, Settled, Slowed, NEW p \in Packets,
         NEW t, t = p.tuple, NEW g, g = Seen(p)
  PROVE  /\ g.throttled = (g.classified /\ isThrottled(rules, g.app_type))
         /\ ~g.classified /\ Quiet(t) => (g.blocked <=> SrcIP[t] \in rules.ips)
<1> DEFINE f == flows[t]
           a == IF f.packet_count = 0 THEN PortApp(t) ELSE f.app_type
           c == [f EXCEPT !.packet_count = @ + 1, !.app_type = a]
<1>1. /\ t \in Tuples /\ f \in Flow /\ g \in Flow
      /\ f.classified => Keeps(f, g)
      /\ g.classified <=> f.classified \/ p.host \in Names
      /\ ~g.classified => g.app_type = PortApp(t)
      /\ News(Counted(p), p) <=> ~f.classified /\ p.host \in Names
  BY SeenIs
<1>2. Counted(p) = c
  BY DEF Counted, Unseen
<1>3. f.throttled = (f.classified /\ isThrottled(rules, f.app_type)) BY <1>1 DEF Slowed
<1>4. g = IF News(c, p) THEN Classified(c, p) ELSE IF c.classified THEN c ELSE Judged(c, p)
  BY <1>2 DEF Seen
<1> HIDE DEF a
<1>5. /\ c.classified = f.classified /\ c.throttled = f.throttled /\ c.app_type = a
      /\ DOMAIN c = {"sni", "app_type", "blocked", "throttled", "classified", "packet_count"}
  BY <1>1 DEF Flow
<1>6. CASE f.classified
  <2>1. g.throttled = f.throttled /\ g.app_type = f.app_type BY <1>1, <1>6 DEF Keeps, Flow
  <2> QED BY <1>1, <1>3, <1>6, <2>1
<1> HIDE DEF f, c
<1>7. CASE ~f.classified /\ p.host \in Names
  <2>1. g = Classified(c, p) BY <1>1, <1>2, <1>4, <1>7
  <2>2. g.throttled = isThrottled(rules, AppOfName[p.host]) /\ g.app_type = AppOfName[p.host]
    BY <1>5, <2>1 DEF Classified
  <2>3. g.classified = TRUE BY <1>1, <1>7 DEF Flow
  <2> QED BY <2>2, <2>3 DEF isThrottled
<1>8. CASE ~f.classified /\ p.host \notin Names
  <2>1. g = Judged(c, p) BY <1>1, <1>2, <1>4, <1>5, <1>8
  <2> DEFINE app == IF p.host = NoPayload THEN UNKNOWN ELSE c.app_type
  <2>2. g.throttled = c.throttled /\ g.app_type = c.app_type /\ g.blocked = isBlocked(rules, SrcIP[t], app, "")
    BY <1>5, <2>1 DEF Judged
  <2>3. ~g.classified /\ ~g.throttled
    <3>1. g.throttled = FALSE BY <1>3, <1>5, <1>8, <2>2
    <3> QED BY <1>1, <1>8, <3>1
  <2>4. Quiet(t) => ~(app # UNKNOWN /\ app \in rules.apps)
    BY <1>1, <2>2, <2>3 DEF Quiet
  <2> HIDE DEF app
  <2>5. isBlocked(rules, SrcIP[t], app, "") <=> SrcIP[t] \in rules.ips \/ (app # UNKNOWN /\ app \in rules.apps)
    BY Zenon DEF isBlocked
  <2>6. g.throttled = FALSE BY <1>1, <2>3 DEF Flow
  <2> QED BY <2>2, <2>3, <2>4, <2>5, <2>6
<1> QED BY <1>6, <1>7, <1>8

LEMMA SlowedInit == Init => Slowed
<1> SUFFICES ASSUME Init, NEW t \in Tuples PROVE ~flows[t].throttled /\ ~flows[t].classified /\ flows[t].throttled = FALSE
  BY DEF Slowed
<1>1. NewFlow.throttled = FALSE /\ NewFlow.classified = FALSE BY DEF NewFlow
<1>2. flows[t] = NewFlow BY DEF Init
<1> QED BY <1>1, <1>2

LEMMA SlowedStep == Typed /\ Settled /\ Slowed /\ [Next]_vars => Slowed'
<1> SUFFICES ASSUME Typed, Settled, Slowed, [Next]_vars PROVE Slowed'
  OBVIOUS
<1>1. ASSUME NEW p \in Packets, flows' = [flows EXCEPT ![p.tuple] = Seen(p)] PROVE Slowed'
  <2> DEFINE s == p.tuple
             g == Seen(p)
  <2>1. g.throttled = (g.classified /\ isThrottled(rules, g.app_type)) BY SeenSlows
  <2>2. \A t \in Tuples : flows'[t] = IF t = s THEN g ELSE flows[t] BY <1>1 DEF Typed
  <2> HIDE DEF s, g
  <2> QED BY <2>1, <2>2 DEF Slowed
<1>2. CASE UNCHANGED flows BY <1>2 DEF Slowed
<1> QED BY <1>1, <1>2, FlowSteps

LEMMA FastFate ==
  ASSUME NEW p, NEW t, t = p.tuple, NEW f, NEW told \in BOOLEAN, NEW host,
         (f = FP!NewFlow /\ ~told) \/ FP!Known(f, t, told, host),
         NEW told2, told2 = (told \/ p.host \in Names), NEW host2, host2 = (IF told THEN host ELSE p.host),
         NEW g, g = FP!Measured(FP!Opened(f, p), p), NEW h, h = FP!classifyFlow(g, p)
  PROVE  FP!Fated(p, t, told, told2, host2, g, h)
<1>1. FP!Fates BY FP!FatesHold, FastAssumed, Zenon
<1> QED BY <1>1 DEF FP!Fates

(* The same packet, taken by both engines: what each knows of its flow      *)
(* stays the same, and so do their decisions, unless the flow's ports       *)
(* suggest an app type that a rule is about.                                *)
LEMMA SameDecision ==
  ASSUME Typed, Settled, Slowed, NEW p \in Packets, NEW t, t = p.tuple,
         NEW e, Twins(flows[t], e, t),
         NEW g, g = FP!Measured(FP!Opened(e, p), p), NEW h, h = FP!classifyFlow(g, p),
         NEW flow, NEW r, Kept(p, g, h, flow, r), NEW s, s = Seen(p)
  PROVE  /\ Twins(s, flow, t)
         /\ Quiet(t) => /\ r.verdict = IF s.blocked THEN "drop" ELSE "forward"
                        /\ r.delayed = (~s.blocked /\ s.throttled)
<1> DEFINE f == flows[t]
           told == f.classified
           told2 == told \/ p.host \in Names
           host2 == IF told THEN f.sni ELSE p.host
<1>1. /\ t \in Tuples /\ f \in Flow /\ s \in Flow
      /\ s.packet_count = f.packet_count + 1
      /\ f.classified => Keeps(f, s)
      /\ s.classified <=> f.classified \/ p.host \in Names
      /\ ~f.classified /\ p.host \in Names =>
              /\ s.sni = p.host /\ s.app_type = AppOfName[p.host]
              /\ s.blocked = isBlocked(rules, SrcIP[t], s.app_type, s.sni)
      /\ ~s.classified => s.app_type = PortApp(t)
  BY SeenIs
<1>2. /\ told \in BOOLEAN /\ s.classified \in BOOLEAN /\ s.blocked \in BOOLEAN /\ s.throttled \in BOOLEAN
      /\ f.packet_count \in Nat
  BY <1>1 DEF Flow
<1>3. s.packet_count > 0 BY <1>1, <1>2
<1>4. s.classified <=> told2 BY <1>1
<1>5. told2 => /\ s.sni = host2 /\ s.app_type = AppOfName[host2]
               /\ s.blocked = isBlocked(rules, SrcIP[t], AppOfName[host2], host2)
  <2>1. told => s.sni = f.sni /\ s.app_type = f.app_type /\ s.blocked = f.blocked
    BY <1>1 DEF Keeps, Flow
  <2>2. told => f.app_type = AppOfName[f.sni] /\ f.blocked = isBlocked(rules, SrcIP[t], f.app_type, f.sni)
    BY <1>1 DEF Settled
  <2> QED BY <1>1, <2>1, <2>2
<1>6. /\ s.throttled = (s.classified /\ isThrottled(rules, s.app_type))
      /\ ~s.classified /\ Quiet(t) => (s.blocked <=> SrcIP[t] \in rules.ips)
  BY SeenSlows
<1>7. (e = FP!NewFlow /\ ~told) \/ FP!Known(e, t, told, f.sni) BY DEF Twins
<1>8. FP!Fated(p, t, told, told2, host2, g, h)
  <2> HIDE DEF told, told2, host2
  <2>1. told2 = (told \/ p.host \in Names) BY DEF told2
  <2>2. host2 = (IF told THEN f.sni ELSE p.host) BY DEF host2
  <2> QED BY <1>2, <1>7, <2>1, <2>2, FastFate
<1>9. FP!Bad(t, told2, host2) <=>
        SrcIP[t] \in rules.ips \/ (told2 /\ isBlocked(rules, SrcIP[t], AppOfName[host2], host2))
  <2>1. FP!IPBlock(t) <=> SrcIP[t] \in rules.ips BY Zenon DEF FP!IPBlock, FP!isBlocked
  <2> QED BY <2>1, SameRules DEF FP!Bad
<1> HIDE DEF f, told2, host2, told
<1>10. Quiet(t) => (FP!Bad(t, told2, host2) <=> s.blocked)
  <2>1. CASE told2
    <3>1. SrcIP[t] \in rules.ips => isBlocked(rules, SrcIP[t], AppOfName[host2], host2) BY DEF isBlocked
    <3> QED BY <1>2, <1>5, <1>9, <2>1, <3>1
  <2>2. CASE ~told2 BY <1>4, <1>6, <1>9, <2>2
  <2> QED BY <2>1, <2>2
<1>11. Quiet(t) => (FP!isThrottled(rules, IF told2 THEN FP!AppOfName[host2] ELSE AppHint[t]) <=> s.throttled)
  <2>1. CASE told2 BY <1>2, <1>4, <1>5, <1>6, <2>1, SameRules
  <2>2. CASE ~told2
    <3>1. s.throttled = FALSE BY <1>2, <1>4, <1>6, <2>2
    <3>2. Quiet(t) => ~FP!isThrottled(rules, AppHint[t]) BY DEF Quiet, FP!isThrottled
    <3> QED BY <2>2, <3>1, <3>2
  <2> QED BY <2>1, <2>2
<1>12. ASSUME FP!Known(flow, t, told2, host2) PROVE Twins(s, flow, t)
  <2>1. FP!Known(flow, t, s.classified, s.sni)
    <3>1. CASE told2
      <4>1. s.classified = TRUE /\ told2 = TRUE /\ s.sni = host2 BY <1>2, <1>4, <1>5, <3>1
      <4> QED BY <1>12, <4>1 DEF FP!Known, FP!Learnt
    <3>2. CASE ~told2 BY <1>4, <1>12, <3>2 DEF FP!Known, FP!Learnt
    <3> QED BY <3>1, <3>2
  <2> QED BY <1>3, <2>1 DEF Twins
<1>13. CASE g.blocked
  <2>1. flow = g /\ r.verdict = "drop" /\ r.delayed = FALSE BY <1>13 DEF Kept
  <2>2. FP!Known(flow, t, told2, host2) /\ FP!Bad(t, told2, host2) BY <1>8, <1>13, <2>1 DEF FP!Fated
  <2> QED BY <1>10, <1>12, <2>1, <2>2
<1>14. CASE ~g.blocked /\ FP!ToBlock(h, p)
  <2>1. flow = [h EXCEPT !.blocked = TRUE] /\ r.verdict = "drop" /\ r.delayed = FALSE BY <1>14 DEF Kept
  <2>2. FP!Known(flow, t, told2, host2) /\ FP!Bad(t, told2, host2) BY <1>8, <1>14, <2>1 DEF FP!Fated
  <2> QED BY <1>10, <1>12, <2>1, <2>2
<1>15. CASE ~g.blocked /\ ~FP!ToBlock(h, p)
  <2>1. flow = FP!Throttled(FP!Scored(h)) /\ r.verdict = "forward" /\ r.delayed = flow.throttled
    BY <1>15 DEF Kept
  <2>2. /\ FP!Known(flow, t, told2, host2) /\ ~FP!Bad(t, told2, host2)
        /\ flow.throttled <=> FP!isThrottled(rules, IF told2 THEN FP!AppOfName[host2] ELSE AppHint[t])
    BY <1>8, <1>15, <2>1 DEF FP!Fated
  <2>3. flow.throttled \in BOOLEAN BY <2>2 DEF FP!Known, FP!IsFlow
  <2>4. Quiet(t) => ~s.blocked /\ (r.delayed <=> s.throttled) /\ r.delayed \in BOOLEAN
    BY <1>10, <1>11, <2>1, <2>2, <2>3
  <2> QED BY <1>2, <1>12, <2>1, <2>2, <2>4
<1> QED BY <1>13, <1>14, <1>15

-----------------------------------------------------------------------------
(* A packet taken by both engines, and the entry each makes.                *)
LEMMA BothStep ==
  ASSUME Typed, NEW p \in Packets, BothTake(p)
  PROVE  /\ Update(p) /\ [Next]_vars
         /\ \E o : /\ Logged(o) /\ o.packet = p
                   /\ o.verdict = IF Seen(p).blocked THEN "drop" ELSE "forward"
                   /\ o.delayed = (~Seen(p).blocked /\ Seen(p).throttled)
         /\ \E flow, r : Kept(p, FP!Arrived(p), FP!Inspected(p), flow, r) /\ Filed(p, flow, r)
<1>1. \E flow, r : Kept(p, FP!Arrived(p), FP!Inspected(p), flow, r) /\ Filed(p, flow, r)
  BY FastStep DEF BothTake
<1>2. CASE Drop(p)
  <2> DEFINE o == [packet |-> p, verdict |-> "drop", delayed |-> FALSE]
  <2>1. Update(p) /\ Seen(p).blocked /\ Logged(o)
    BY <1>2 DEF Drop, Written, Logged, Packed
  <2>2. o.packet = p /\ o.verdict = "drop" /\ o.delayed = FALSE OBVIOUS
  <2>3. [Next]_vars BY <1>2 DEF Next
  <2> HIDE DEF o
  <2> QED BY <1>1, <2>1, <2>2, <2>3
<1>3. CASE Forward(p)
  <2> DEFINE o == [packet |-> p, verdict |-> "forward", delayed |-> Seen(p).throttled]
  <2>1. Seen(p).throttled \in BOOLEAN BY SeenTyped DEF Flow
  <2>2. Update(p) /\ ~Seen(p).blocked /\ Logged(o)
    BY <1>3, <2>1 DEF Forward, Written, Logged, Packed
  <2>3. o.packet = p /\ o.verdict = "forward" /\ o.delayed = Seen(p).throttled OBVIOUS
  <2>4. [Next]_vars BY <1>3 DEF Next
  <2> HIDE DEF o
  <2> QED BY <1>1, <2>1, <2>2, <2>3, <2>4
<1> QED BY <1>2, <1>3 DEF BothTake

LEMMA AlikeInit == BothInit => Alike
<1> SUFFICES ASSUME BothInit PROVE Alike
  OBVIOUS
<1>1. flow_table = <<>> BY DEF BothInit, Fast!Init, Fast!Table!TableInit
<1>2. FP!IsSeq(flow_table) /\ Len(flow_table) = 0
  <2>1. flow_table \in Seq({}) BY <1>1, EmptySeq
  <2> QED BY <1>1, <2>1, EmptySeq, LenProperties DEF FP!IsSeq
<1>3. FP!Single(flow_table) BY <1>2 DEF FP!Single
<1>4. ASSUME NEW t \in Tuples PROVE Twins(flows[t], FP!Table!Lookup(flow_table, t), t)
  <2>1. ~FP!Table!Holds(flow_table, t) BY <1>1 DEF FP!Table!Holds
  <2>2. FP!Table!Lookup(flow_table, t) = FP!NewFlow BY <2>1 DEF FP!Table!Lookup
  <2>3. NewFlow.packet_count = 0 /\ NewFlow.classified = FALSE BY DEF NewFlow
  <2>4. flows[t] = NewFlow BY DEF BothInit, Init
  <2> QED BY <2>2, <2>3, <2>4 DEF Twins
<1> QED BY <1>2, <1>3, <1>4 DEF Alike

LEMMA AlikeStep ==
  ASSUME Typed, Settled, Slowed, Alike, NEW p \in Packets, Update(p), NEW flow, NEW r,
         Kept(p, FP!Arrived(p), FP!Inspected(p), flow, r), Filed(p, flow, r),
         evictions = 0, evictions' = 0, NEW s, s = Seen(p)
  PROVE  /\ Alike'
         /\ Quiet(p.tuple) => /\ r.verdict = IF s.blocked THEN "drop" ELSE "forward"
                              /\ r.delayed = (~s.blocked /\ s.throttled)
<1> DEFINE t == p.tuple
           e == FP!Table!Lookup(flow_table, t)
           g == FP!Measured(FP!Opened(e, p), p)
           h == FP!classifyFlow(g, p)
<1>1. t \in Tuples BY SimpleEngineAssumption
<1>2. FP!Arrived(p) = g /\ FP!Inspected(p) = h BY DEF FP!Arrived, FP!Inspected
<1>3. Twins(flows[t], e, t) BY <1>1 DEF Alike
<1> HIDE DEF e, g, h
<1>4. /\ Twins(s, flow, t)
      /\ Quiet(t) => /\ r.verdict = IF s.blocked THEN "drop" ELSE "forward"
                     /\ r.delayed = (~s.blocked /\ s.throttled)
  <2>1. g = FP!Measured(FP!Opened(e, p), p) /\ h = FP!classifyFlow(g, p) BY DEF g, h
  <2>2. Kept(p, g, h, flow, r) BY <1>2
  <2> QED BY <1>3, <2>1, <2>2, SameDecision
<1> DEFINE new == FP!Table!Store(flow_table, max_flows, t, flow)
<1>5. flow_table' = new BY DEF Filed
<1>6. FP!Table!Holds(flow_table, t) \/ ~(Len(flow_table) >= FP!Table!Bound(max_flows))
  BY DEF Filed
<1>7. FP!Updates BY FP!UpdatesHold, FastAssumed, Zenon
<1>8. /\ FP!IsSeq(new) /\ FP!Single(new)
      /\ \A u : FP!Table!Lookup(new, u) = IF u = t THEN flow ELSE FP!Table!Lookup(flow_table, u)
  <2>1. FP!IsSeq(flow_table) /\ FP!Single(flow_table) BY DEF Alike
  <2> QED BY <1>6, <1>7, <2>1 DEF FP!Updates
<1> HIDE DEF new, t
<1>9. \A u \in Tuples : flows'[u] = IF u = t THEN s ELSE flows[u] BY DEF Update, Typed, t
<1>10. ASSUME NEW u \in Tuples PROVE Twins(flows'[u], FP!Table!Lookup(new, u), u)
  <2>1. CASE u = t
    <3>1. flows'[u] = s /\ FP!Table!Lookup(new, u) = flow BY <1>8, <1>9, <2>1
    <3> QED BY <1>4, <2>1, <3>1
  <2>2. CASE u # t
    <3>1. flows'[u] = flows[u] /\ FP!Table!Lookup(new, u) = FP!Table!Lookup(flow_table, u)
      BY <1>8, <1>9, <2>2
    <3> QED BY <3>1 DEF Alike
  <2> QED BY <2>1, <2>2
<1>11. Alike' BY <1>5, <1>8, <1>10 DEF Alike
<1> QED BY <1>4, <1>11 DEF t

Longer(m, l, x) ==
  /\ FP!IsSeq(m) /\ Len(l) \in Nat /\ Len(m) = Len(l) + 1
  /\ \A i \in 1..Len(l) : m[i] = l[i]
  /\ m[Len(m)] = x

LEMMA LogAppends ==
  ASSUME NEW l, FP!IsSeq(l), NEW x, NEW m, m = Append(l, x)
  PROVE  Longer(m, l, x)
<1>1. PICK S : l \in Seq(S) BY DEF FP!IsSeq
<1> DEFINE V == S \cup {x}
<1>2. l \in Seq(V) BY <1>1, SeqMonotonic
<1>3. x \in V OBVIOUS
<1> HIDE DEF V
<1>4. /\ m \in Seq(V) /\ Len(m) = Len(l) + 1
      /\ \A i \in 1..Len(l) : m[i] = l[i]
      /\ m[Len(l) + 1] = x
  BY <1>2, <1>3, AppendProperties
<1>5. Len(l) \in Nat /\ Len(m) \in Nat /\ DOMAIN m = 1..Len(m) BY <1>2, <1>4, LenProperties
<1> QED BY <1>4, <1>5 DEF FP!IsSeq, Longer

(* The j-th entry of one engine and its counterpart in the log of the other.*)
Rank(j) == Cardinality({k \in Parsed : k <= j})
Paired(o, l, t) == o.packet = l.packet /\ (Quiet(t) => o.verdict = l.verdict /\ o.delayed = l.delayed)

Matching ==
  /\ Cardinality(Parsed) = Len(log)
  /\ \A j \in Parsed : Rank(j) \in 1..Len(log) /\ Paired(output[j], log[Rank(j)], Of(j))

LEMMA MatchingStep ==
  ASSUME Typed, FP!IsSeq(log), Matching, NEW o, Logged(o), o.packet # Junk,
         NEW r, log' = Append(log, r), Paired(o, r, o.packet.tuple)
  PROVE  Matching'
<1> SUFFICES ASSUME NEW n, n = Len(output) + 1, NEW c, c = Len(log) PROVE Matching'
  OBVIOUS
<1>1. /\ Grown(o) /\ Parsed' = Parsed \cup {n} /\ \A i \in DOMAIN output : Of(i)' = Of(i)
      /\ \A i : i = n => Of(i)' = o.packet.tuple
  BY LogGrows
<1>2. /\ Parsed \subseteq 1..Len(output) /\ Len(output) \in Nat
      /\ \A i \in Parsed : output'[i] = output[i] /\ Of(i)' = Of(i)
      /\ output'[n] = o
  BY <1>1 DEF Grown, Parsed
<1>3. Of(n)' = o.packet.tuple BY <1>1
<1>4. n \notin Parsed /\ n \in Nat /\ \A i \in Parsed : i \in Nat /\ i < n BY <1>2
<1>5. /\ FP!IsSeq(log') /\ c \in Nat /\ Len(log') = c + 1
      /\ \A i \in 1..c : log'[i] = log[i]
      /\ log'[c + 1] = r
  <2>1. Longer(log', log, r) BY LogAppends
  <2> QED BY <2>1 DEF Longer
<1>6. IsFiniteSet(Parsed) /\ Cardinality(Parsed) = c BY LogIsFinite DEF Matching
<1>7. Cardinality(Parsed \cup {n}) = c + 1
  <2> SUFFICES ASSUME NEW S, S = Parsed PROVE Cardinality(S \cup {n}) = c + 1
    OBVIOUS
  <2>1. IsFiniteSet(S) /\ n \notin S /\ Cardinality(S) = c BY <1>4, <1>6
  <2> QED BY <2>1, FS_AddElement
<1>8. ASSUME NEW j \in Parsed PROVE Rank(j)' = Rank(j) /\ Rank(j) \in 1..c
  <2>1. {k \in Parsed' : k <= j} = {k \in Parsed : k <= j}
    <3>1. ~(n <= j) BY <1>4
    <3> QED BY <1>1, <3>1
  <2>2. Rank(j) \in 1..c BY DEF Matching
  <2> QED BY <2>1, <2>2 DEF Rank
<1>9. Rank(n)' = c + 1
  <2>1. {k \in Parsed' : k <= n} = Parsed \cup {n} BY <1>1, <1>4
  <2>2. Rank(n)' = Cardinality({k \in Parsed' : k <= n}) BY DEF Rank
  <2> QED BY <1>7, <2>1, <2>2
<1>10. ASSUME NEW j \in Parsed PROVE Rank(j)' \in 1..(c + 1) /\ Paired(output'[j], log'[Rank(j)'], Of(j)')
  <2>1. Rank(j)' \in 1..c /\ log'[Rank(j)'] = log[Rank(j)] BY <1>5, <1>8
  <2>2. Paired(output[j], log[Rank(j)], Of(j)) BY DEF Matching
  <2>3. Rank(j)' \in 1..(c + 1) BY <1>5, <2>1
  <2> QED BY <1>2, <2>1, <2>2, <2>3
<1>11. Rank(n)' \in 1..(c + 1) /\ Paired(output'[n], log'[Rank(n)'], Of(n)')
  <2>1. log'[Rank(n)'] = r /\ c + 1 \in 1..(c + 1) BY <1>5, <1>9
  <2> QED BY <1>2, <1>3, <1>9, <2>1
<1>12. \A j \in Parsed' : Rank(j)' \in 1..Len(log') /\ Paired(output'[j], log'[Rank(j)'], Of(j)')
  <2> SUFFICES ASSUME NEW j \in Parsed'
               PROVE  Rank(j)' \in 1..(c + 1) /\ Paired(output'[j], log'[Rank(j)'], Of(j)')
    BY <1>5
  <2>1. CASE j \in Parsed BY <1>10, <2>1
  <2>2. CASE j = n
    <3>1. Rank(j)' = Rank(n)' /\ Of(j)' = Of(n)' BY <2>2 DEF Rank, Of
    <3> QED BY <1>11, <2>2, <3>1
  <2> QED BY <1>1, <2>1, <2>2
<1>13. Cardinality(Parsed') = Len(log') BY <1>1, <1>5, <1>7
<1> QED BY <1>12, <1>13 DEF Matching

(* As long as no flow has been evicted, the engines agree on every flow and *)
(* on every packet so far.                                                  *)
InStep ==
  /\ Typed /\ Settled /\ Slowed /\ evictions \in Nat /\ FP!IsSeq(log)
  /\ evictions = 0 => Alike /\ Matching

LEMMA InStepInit == BothInit => InStep
<1> SUFFICES ASSUME BothInit PROVE InStep
  OBVIOUS
<1>1. Typed /\ Settled /\ Slowed BY TypedInit, SettledInit, SlowedInit DEF BothInit
<1>2. evictions = 0 /\ log = <<>> BY DEF BothInit, Fast!Init, Fast!Table!TableInit
<1>3. FP!IsSeq(log) /\ Len(log) = 0
  <2>1. log \in Seq({}) BY <1>2, EmptySeq
  <2> QED BY <1>2, <2>1, EmptySeq, LenProperties DEF FP!IsSeq
<1>4. Matching
  <2>1. Parsed = {} BY DEF BothInit, Init, Parsed
  <2> QED BY <1>3, <2>1, FS_EmptySet DEF Matching
<1> QED BY <1>1, <1>2, <1>3, <1>4, AlikeInit DEF InStep

LEMMA InStepStep == InStep /\ [BothNext]_bothVars => InStep'
<1> SUFFICES ASSUME InStep, [BothNext]_bothVars PROVE InStep'
  OBVIOUS
<1> USE DEF InStep
<1>1. ASSUME [Next]_vars PROVE Typed' /\ Settled' /\ Slowed'
  BY <1>1, TypedStep, SettledStep, SlowedStep
<1>2. ASSUME NEW p \in Packets, BothTake(p) PROVE InStep'
  <2>1. Update(p) /\ [Next]_vars BY <1>2, BothStep
  <2>2. PICK o : /\ Logged(o) /\ o.packet = p
                 /\ o.verdict = IF Seen(p).blocked THEN "drop" ELSE "forward"
                 /\ o.delayed = (~Seen(p).blocked /\ Seen(p).throttled)
    BY <1>2, BothStep
  <2>3. PICK flow, r : Kept(p, FP!Arrived(p), FP!Inspected(p), flow, r) /\ Filed(p, flow, r)
    BY <1>2, BothStep
  <2>4. evictions' \in Nat /\ (evictions' = 0 => evictions = 0) BY <2>3 DEF Filed
  <2>5. log' = Append(log, r) /\ r.packet = p BY <2>3 DEF Filed
  <2>6. FP!IsSeq(log')
    <3>1. Longer(log', log, r) BY <2>5, LogAppends
    <3> QED BY <3>1 DEF Longer
  <2>7. ASSUME evictions' = 0 PROVE Alike' /\ Matching'
    <3> DEFINE s == Seen(p)
    <3>1. o.packet = p /\ o.verdict = (IF s.blocked THEN "drop" ELSE "forward")
          /\ o.delayed = (~s.blocked /\ s.throttled)
      BY <2>2
    <3>2. evictions = 0 /\ Alike /\ Matching BY <2>4, <2>7
    <3> HIDE DEF s
    <3>3. /\ Alike'
          /\ Quiet(p.tuple) => /\ r.verdict = IF s.blocked THEN "drop" ELSE "forward"
                               /\ r.delayed = (~s.blocked /\ s.throttled)
      BY <2>1, <2>3, <2>7, <3>2, AlikeStep DEF s
    <3>4. Paired(o, r, o.packet.tuple) BY <2>5, <3>1, <3>3 DEF Paired
    <3>5. o.packet # Junk BY <3>1, SimpleEngineAssumption
    <3> QED BY <2>2, <2>5, <3>2, <3>3, <3>4, <3>5, MatchingStep
  <2> QED BY <1>1, <2>1, <2>4, <2>6, <2>7
<1>3. ASSUME UNCHANGED <<flow_table, evictions, log, flows>>, Parsed' = Parsed, [Next]_vars,
             \A j \in Parsed : output'[j] = output[j] /\ Of(j)' = Of(j)
      PROVE  InStep'
  <2>1. Alike => Alike' BY <1>3 DEF Alike
  <2>2. \A j : Rank(j)' = Rank(j) BY <1>3 DEF Rank
  <2>3. Matching => Matching' BY <1>3, <2>2 DEF Matching
  <2>4. FP!IsSeq(log') BY <1>3
  <2> QED BY <1>1, <1>3, <2>1, <2>3, <2>4
<1>4. CASE BothUnparsed
  <2>1. ForwardUnparsed /\ UNCHANGED <<flow_table, evictions, log, flows>>
    BY <1>4 DEF BothUnparsed, fastVars, ForwardUnparsed
  <2> DEFINE o == [packet |-> Junk, verdict |-> "forward", delayed |-> FALSE]
  <2>2. Logged(o) BY <2>1 DEF ForwardUnparsed, Written, Logged, Packed
  <2>3. o.packet = Junk OBVIOUS
  <2> HIDE DEF o
  <2>4. Grown(o) /\ Parsed' = Parsed /\ \A i \in DOMAIN output : Of(i)' = Of(i)
    BY <2>2, <2>3, LogGrows
  <2>5. \A j \in Parsed : output'[j] = output[j] /\ Of(j)' = Of(j) BY <2>4 DEF Grown, Parsed
  <2>6. [Next]_vars BY <2>1 DEF Next
  <2> QED BY <1>3, <2>1, <2>4, <2>5, <2>6
<1>5. CASE UNCHANGED bothVars
  <2>1. UNCHANGED vars /\ UNCHANGED <<flow_table, evictions, log, flows, output>>
    BY <1>5 DEF bothVars, fastVars, vars
  <2>2. Parsed' = Parsed /\ \A j : output'[j] = output[j] /\ Of(j)' = Of(j) BY <2>1 DEF Parsed, Of
  <2> QED BY <1>3, <2>1, <2>2
<1> QED BY <1>2, <1>4, <1>5 DEF BothNext

(* The two engines decide alike: for every capture, every set of rules and  *)
(* every capacity of the table, until the fast path evicts a flow.          *)
THEOREM SameDecisions == BothSpec => []EnginesAgree
<1>1. InStep => EnginesAgree
  <2> SUFFICES ASSUME InStep, evictions = 0 PROVE
        /\ Cardinality(Parsed) = Len(log)
        /\ \A j \in Parsed :
             /\ output[j].packet = log[Rank(j)].packet
             /\ Quiet(Of(j)) => output[j].verdict = log[Rank(j)].verdict
                                /\ output[j].delayed = log[Rank(j)].delayed
    BY DEF EnginesAgree, Rank, Quiet
  <2> QED BY DEF InStep, Matching, Paired
<1> QED BY <1>1, InStepInit, InStepStep, PTL DEF BothSpec
==============================================================================
