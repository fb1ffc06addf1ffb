--------------------------- MODULE FastPathProofs ---------------------------
(***************************************************************************)
(* Theorems about FastPath for every set of flows, packets and rules and   *)
(* every capacity of the flow table: what becomes of a packet follows from *)
(* the packets before it.                                                  *)
(***************************************************************************)
EXTENDS FastPath, DataFacts, FiniteSetTheorems

(* The fields of a flow are there; of those that matter, the types.         *)
Fields == {"sni", "app_type", "blocked", "throttled", "classified", "packet_count", "byte_count",
           "squares", "syn", "fin", "rst", "entropy", "anomaly"}
IsFlow(f) == /\ DOMAIN f = Fields /\ f = [x \in Fields |-> f[x]]
             /\ f.blocked \in BOOLEAN /\ f.throttled \in BOOLEAN /\ f.classified \in BOOLEAN
             /\ f.packet_count \in Nat
IPBlock(t) == isBlocked(rules_, SrcIP[t], UNKNOWN, "")

(* What is known of flow t, told being whether it has shown a hostname, and *)
(* host the first one; and of a flow that is in the table.                  *)
Learnt(f, t, told, host) ==
  IF IPBlock(t) THEN f.blocked
  ELSE /\ f.classified <=> told
       /\ ~told => f.app_type = Hint[t] /\ ~f.blocked
       /\ told => /\ f.sni = host /\ f.app_type = AppOfName[host]
                  /\ f.blocked <=> isBlocked(rules_, SrcIP[t], AppOfName[host], host)

Known(f, t, told, host) ==
  /\ IsFlow(f) /\ f.packet_count > 0
  /\ Learnt(f, t, told, host)
  /\ ~f.blocked => (f.throttled <=> isThrottled(rules_, f.app_type))

LEMMA NewFlowIs == IsFlow(NewFlow) /\ NewFlow.packet_count = 0 /\ ~NewFlow.blocked /\ ~NewFlow.throttled
                   /\ ~NewFlow.classified
BY DEF IsFlow, NewFlow, Fields

(* The flow a packet finds, opened and counted.                             *)
LEMMA Opens ==
  ASSUME NEW p, NEW t, t = p.tuple, NEW f, NEW told \in BOOLEAN, NEW host,
         (f = NewFlow /\ ~told) \/ Known(f, t, told, host),
         NEW g, g = Measured(Opened(f, p), p)
  PROVE  /\ IsFlow(g) /\ g.packet_count > 0
         /\ Learnt(g, t, told, host)
         /\ ~g.blocked => (g.throttled => isThrottled(rules_, g.app_type))
<1> DEFINE o == Opened(f, p)
<1>1. IsFlow(f) BY NewFlowIs DEF Known
<1>2. /\ IsFlow(o) /\ o.packet_count = f.packet_count
      /\ f.packet_count # 0 => o = f
      /\ f.packet_count = 0 => /\ o.app_type = Hint[t] /\ (o.blocked <=> IPBlock(t))
                              /\ o.classified = f.classified /\ o.throttled = f.throttled
  <2>1. IPBlock(t) \in BOOLEAN BY DEF IPBlock, isBlocked
  <2>2. CASE f.packet_count # 0 BY <1>1, <2>2 DEF Opened
  <2>3. CASE f.packet_count = 0
    <3>1. o = [f EXCEPT !.app_type = Hint[p.tuple], !.blocked = IPBlock(t)]
      BY <2>3 DEF Opened, IPBlocked, IPBlock
    <3> HIDE DEF o
    <3> QED BY <1>1, <2>1, <2>3, <3>1 DEF IsFlow, Fields
  <2> QED BY <2>2, <2>3
<1> HIDE DEF o
<1>3. /\ g.packet_count = o.packet_count + 1 /\ g.classified = o.classified
      /\ g.throttled = o.throttled /\ g.sni = o.sni /\ g.app_type = o.app_type /\ g.blocked = o.blocked
      /\ DOMAIN g = Fields /\ g = [x \in Fields |-> g[x]]
  <2>1. PICK c, b, q, s, n, r, e :
          g = [o EXCEPT !.packet_count = c, !.byte_count = b, !.squares = q,
                        !.syn = s, !.fin = n, !.rst = r, !.entropy = e] /\ c = o.packet_count + 1
    BY DEF Measured, o
  <2> QED BY <1>2, <2>1 DEF IsFlow, Fields
<1>4. IsFlow(g) /\ g.packet_count > 0 BY <1>2, <1>3 DEF IsFlow
<1>5. CASE f = NewFlow /\ ~told
  <2>1. /\ g.app_type = Hint[t] /\ (g.blocked <=> IPBlock(t)) /\ ~g.classified /\ ~g.throttled
    BY <1>2, <1>3, <1>5, NewFlowIs
  <2> QED BY <1>4, <1>5, <2>1 DEF Learnt
<1>6. CASE Known(f, t, told, host)
  <2>1. o = f BY <1>2, <1>6 DEF Known, IsFlow
  <2>2. Learnt(f, t, told, host) BY <1>6 DEF Known
  <2>3. Learnt(g, t, told, host) BY <1>3, <2>1, <2>2 DEF Learnt
  <2>4. ~g.blocked => (g.throttled => isThrottled(rules_, g.app_type)) BY <1>3, <1>6, <2>1 DEF Known
  <2> QED BY <1>4, <2>3, <2>4
<1> QED BY <1>5, <1>6

(* A packet of flow t is to be dropped.                                     *)
Bad(t, told, host) == IPBlock(t) \/ (told /\ isBlocked(rules_, SrcIP[t], AppOfName[host], host))

LEMMA Inspects ==
  ASSUME NEW p, NEW t, t = p.tuple, NEW told \in BOOLEAN, NEW host,
         NEW g, IsFlow(g), g.packet_count > 0, ~g.blocked, Learnt(g, t, told, host),
         g.throttled => isThrottled(rules_, g.app_type),
         NEW told2, told2 = (told \/ p.host \in Names), NEW host2, host2 = (IF told THEN host ELSE p.host),
         NEW h, h = classifyFlow(g, p)
  PROVE  /\ IsFlow(h) /\ h.packet_count > 0 /\ ~h.blocked /\ ~IPBlock(t)
         /\ News(g, p) <=> ~told /\ p.host \in Names
         /\ h.classified <=> told2
         /\ ~told2 => h.app_type = Hint[t]
         /\ told2 => h.sni = host2 /\ h.app_type = AppOfName[host2]
         /\ h.throttled => isThrottled(rules_, h.app_type)
         /\ ToBlock(h, p) <=> Bad(t, told2, host2)
<1>1. /\ ~IPBlock(t) /\ (g.classified <=> told) /\ (~told => g.app_type = Hint[t])
      /\ told => g.sni = host /\ g.app_type = AppOfName[host]
  BY DEF Learnt
<1>2. News(g, p) <=> ~told /\ p.host \in Names
  BY <1>1 DEF News
<1>3. /\ IsFlow(h) /\ h.packet_count > 0 /\ ~h.blocked
      /\ h.classified <=> told2
      /\ ~told2 => h.app_type = Hint[t]
      /\ told2 => h.sni = host2 /\ h.app_type = AppOfName[host2]
      /\ h.throttled => isThrottled(rules_, h.app_type)
  <2>1. CASE News(g, p)
    <3>1. isThrottled(rules_, AppOfName[p.host]) \in BOOLEAN BY DEF isThrottled
    <3>2. PICK a, b : /\ h = [g EXCEPT !.sni = p.host, !.app_type = a, !.classified = TRUE, !.throttled = b]
                      /\ a = AppOfName[p.host] /\ b = isThrottled(rules_, AppOfName[p.host])
      BY <2>1 DEF classifyFlow
    <3>3. /\ DOMAIN h = Fields /\ h = [x \in Fields |-> h[x]] /\ h.packet_count = g.packet_count
          /\ h.blocked = g.blocked /\ h.classified = TRUE /\ h.sni = p.host /\ h.app_type = a /\ h.throttled = b
      BY <3>2 DEF IsFlow, Fields
    <3>4. IsFlow(h) BY <3>1, <3>2, <3>3 DEF IsFlow
    <3>5. told2 /\ host2 = p.host BY <1>2, <2>1
    <3>6. h.packet_count > 0 /\ ~h.blocked /\ h.classified BY <3>3
    <3>7. h.throttled => isThrottled(rules_, h.app_type) BY <3>2, <3>3
    <3> QED BY <3>2, <3>3, <3>4, <3>5, <3>6, <3>7
  <2>2. CASE ~News(g, p)
    <3>1. h = g BY <2>2 DEF classifyFlow
    <3>2. told2 = told BY <1>2, <2>2
    <3> QED BY <1>1, <3>1, <3>2
  <2> QED BY <2>1, <2>2
<1>4. IPBlocked(p) <=> IPBlock(t) BY DEF IPBlocked, IPBlock
<1>5. ToBlock(h, p) <=> Bad(t, told2, host2)
  <2>1. CASE told2 BY <1>1, <1>3, <2>1 DEF ToBlock, Bad
  <2>2. CASE ~told2 BY <1>1, <1>3, <1>4, <2>2 DEF ToBlock, Bad
  <2> QED BY <2>1, <2>2
<1> QED BY <1>1, <1>2, <1>3, <1>5

(* Dropped at once, dropped after inspection or forwarded: what the packet  *)
(* leaves behind.                                                           *)
Fated(p, t, told, told2, host2, g, h) ==
  /\ g.blocked => Known(g, t, told2, host2) /\ Bad(t, told2, host2)
  /\ ~g.blocked /\ ToBlock(h, p) =>
       Known([h EXCEPT !.blocked = TRUE], t, told2, host2) /\ Bad(t, told2, host2)
  /\ ~g.blocked /\ ~ToBlock(h, p) =>
       /\ Known(Throttled(Scored(h)), t, told2, host2) /\ ~Bad(t, told2, host2)
       /\ Throttled(Scored(h)).throttled
            <=> isThrottled(rules_, IF told2 THEN AppOfName[host2] ELSE Hint[t])
  /\ ~g.blocked /\ News(g, p) <=> ~IPBlock(t) /\ ~told /\ p.host \in Names

LEMMA Fate ==
  ASSUME NEW p, NEW t, t = p.tuple, NEW f, NEW told \in BOOLEAN, NEW host,
         (f = NewFlow /\ ~told) \/ Known(f, t, told, host),
         NEW told2, told2 = (told \/ p.host \in Names), NEW host2, host2 = (IF told THEN host ELSE p.host),
         NEW g, g = Measured(Opened(f, p), p), NEW h, h = classifyFlow(g, p)
  PROVE  Fated(p, t, told, told2, host2, g, h)
<1> USE DEF Fated
<1>1. /\ IsFlow(g) /\ g.packet_count > 0
      /\ Learnt(g, t, told, host)
      /\ ~g.blocked => (g.throttled => isThrottled(rules_, g.app_type))
  BY Opens
<1>2. CASE g.blocked
  <2>1. ~IPBlock(t) => told /\ g.classified BY <1>1, <1>2 DEF Learnt
  <2>2. Learnt(g, t, told2, host2)
    <3>1. CASE IPBlock(t) BY <1>2, <3>1 DEF Learnt
    <3>2. CASE ~IPBlock(t)
      <4>1. told2 = told /\ host2 = host BY <2>1, <3>2
      <4> QED BY <1>1, <4>1
    <3> QED BY <3>1, <3>2
  <2>3. Bad(t, told2, host2) BY <1>2, <2>1, <2>2 DEF Bad, Learnt
  <2> QED BY <1>1, <1>2, <2>1, <2>2, <2>3 DEF Known
<1>3. CASE ~g.blocked
  <2>1. /\ IsFlow(h) /\ h.packet_count > 0 /\ ~h.blocked /\ ~IPBlock(t)
        /\ News(g, p) <=> ~told /\ p.host \in Names
        /\ h.classified <=> told2
        /\ ~told2 => h.app_type = Hint[t]
        /\ told2 => h.sni = host2 /\ h.app_type = AppOfName[host2]
        /\ h.throttled => isThrottled(rules_, h.app_type)
        /\ ToBlock(h, p) <=> Bad(t, told2, host2)
    BY <1>1, <1>3, Inspects
  <2>2. ASSUME ToBlock(h, p), NEW k, k = [h EXCEPT !.blocked = TRUE] PROVE Known(k, t, told2, host2)
    <3>1. /\ IsFlow(k) /\ k.packet_count = h.packet_count /\ k.blocked = TRUE /\ k.classified = h.classified
          /\ k.sni = h.sni /\ k.app_type = h.app_type
      BY <2>1, <2>2 DEF IsFlow, Fields
    <3>2. told2 /\ isBlocked(rules_, SrcIP[t], AppOfName[host2], host2) BY <2>1, <2>2 DEF Bad
    <3>3. Learnt(k, t, told2, host2) BY <2>1, <3>1, <3>2 DEF Learnt
    <3> QED BY <2>1, <3>1, <3>3 DEF Known
  <2>3. ASSUME ~ToBlock(h, p), NEW k, k = Throttled(Scored(h))
        PROVE  /\ Known(k, t, told2, host2)
               /\ k.throttled <=> isThrottled(rules_, IF told2 THEN AppOfName[host2] ELSE Hint[t])
    <3>1. PICK s : Scored(h) = s /\ (s = h \/ \E x : s = [h EXCEPT !.anomaly = x])
      BY DEF Scored
    <3>2. /\ IsFlow(s) /\ s.packet_count = h.packet_count /\ s.blocked = h.blocked /\ s.classified = h.classified
          /\ s.sni = h.sni /\ s.app_type = h.app_type /\ s.throttled = h.throttled
      BY <2>1, <3>1 DEF IsFlow, Fields
    <3>3. PICK b \in BOOLEAN : b = (s.throttled \/ isThrottled(rules_, s.app_type))
      OBVIOUS
    <3>4. k = [s EXCEPT !.throttled = b] BY <2>3, <3>1, <3>3 DEF Throttled
    <3>5. /\ IsFlow(k) /\ k.packet_count = s.packet_count /\ k.blocked = s.blocked /\ k.classified = s.classified
          /\ k.sni = s.sni /\ k.app_type = s.app_type /\ k.throttled = b
      BY <3>2, <3>4 DEF IsFlow, Fields
    <3>6. b <=> isThrottled(rules_, h.app_type) BY <2>1, <3>2, <3>3
    <3>7. ~(told2 /\ isBlocked(rules_, SrcIP[t], AppOfName[host2], host2)) BY <2>1, <2>3 DEF Bad
    <3>8. Learnt(k, t, told2, host2) BY <2>1, <3>2, <3>5, <3>7 DEF Learnt
    <3>9. k.throttled <=> isThrottled(rules_, k.app_type) BY <3>2, <3>5, <3>6
    <3>10. k.app_type = IF told2 THEN AppOfName[host2] ELSE Hint[t] BY <2>1, <3>2, <3>5
    <3> QED BY <2>1, <3>2, <3>5, <3>8, <3>9, <3>10 DEF Known
  <2>4. ToBlock(h, p) <=> Bad(t, told2, host2) BY <2>1
  <2>5. ~g.blocked /\ News(g, p) <=> ~IPBlock(t) /\ ~told /\ p.host \in Names BY <1>3, <2>1
  <2> QED BY <1>3, <2>2, <2>3, <2>4, <2>5
<1> QED BY <1>2, <1>3

-----------------------------------------------------------------------------
(* The history, and what of it the newest packet changes.                   *)
Logged == [packet : Packets, verdict : {"drop", "forward"}, delayed : BOOLEAN, flagged : BOOLEAN]

IsLog == log \in Seq(Logged)

LEMMA MaxIs ==
  ASSUME NEW n \in Nat, NEW S \in SUBSET (0..n)
  PROVE  /\ S # {} => Max(S) \in S /\ \A y \in S : y <= Max(S)
         /\ \A x \in S : (\A y \in S : y <= x) => Max(S) = x
<1>1. ASSUME S # {} PROVE Max(S) \in S /\ \A y \in S : y <= Max(S)
  <2>1. PICK x \in S : \A y \in S : y <= x BY <1>1, GreatestElement
  <2>2. \A y \in S : x >= y BY <2>1
  <2>3. Max(S) \in S /\ \A y \in S : Max(S) >= y BY <2>2 DEF Max
  <2> QED BY <2>3
<1>2. ASSUME NEW x \in S, \A y \in S : y <= x PROVE Max(S) = x
  <2>1. Max(S) \in S /\ x <= Max(S) /\ Max(S) <= x BY <1>1, <1>2
  <2>2. \A k, l \in S : k <= l /\ l <= k => k = l OBVIOUS
  <2> QED BY <2>1, <2>2
<1> QED BY <1>1, <1>2

LEMMA MinIs ==
  ASSUME NEW S \in SUBSET Nat
  PROVE  /\ S # {} => Min(S) \in S /\ \A y \in S : Min(S) <= y
         /\ \A x \in S : (\A y \in S : x <= y) => Min(S) = x
<1>1. ASSUME S # {} PROVE Min(S) \in S /\ \A y \in S : Min(S) <= y
  <2>1. PICK x \in S : \A y \in S : x <= y BY <1>1, LeastElement
  <2> QED BY <2>1 DEF Min
<1>2. ASSUME NEW x \in S, \A y \in S : x <= y PROVE Min(S) = x
  <2>1. Min(S) \in S /\ x <= Min(S) /\ Min(S) <= x BY <1>1, <1>2
  <2>2. x \in Nat /\ Min(S) \in Nat BY <2>1
  <2> QED BY <2>1, <2>2
<1> QED BY <1>1, <1>2

HistoryIs ==
  \A i \in Nat \ {0} :
    /\ Earlier(i) \subseteq 1..(i - 1)
    /\ Earlier(i) # {} => Max(Earlier(i)) \in Earlier(i) /\ \A j \in Earlier(i) : j <= Max(Earlier(i))
    /\ Start(i) \in Earlier(i) \cup {i} /\ Forgot(Start(i))
    /\ \A j \in Earlier(i) \cup {i} : Forgot(j) => j <= Start(i)
    /\ i \in Memory(i) /\ Memory(i) \subseteq Earlier(i) \cup {i}
    /\ Tells(i) \subseteq Memory(i)
    /\ Tells(i) # {} => Min(Tells(i)) \in Tells(i) /\ \A j \in Tells(i) : Min(Tells(i)) <= j

LEMMA HistoryFacts == HistoryIs
<1> SUFFICES ASSUME NEW i \in Nat \ {0}
             PROVE  /\ Earlier(i) \subseteq 1..(i - 1)
                    /\ Earlier(i) # {} => Max(Earlier(i)) \in Earlier(i) /\ \A j \in Earlier(i) : j <= Max(Earlier(i))
                    /\ Start(i) \in Earlier(i) \cup {i} /\ Forgot(Start(i))
                    /\ \A j \in Earlier(i) \cup {i} : Forgot(j) => j <= Start(i)
                    /\ i \in Memory(i) /\ Memory(i) \subseteq Earlier(i) \cup {i}
                    /\ Tells(i) \subseteq Memory(i)
                    /\ Tells(i) # {} => Min(Tells(i)) \in Tells(i) /\ \A j \in Tells(i) : Min(Tells(i)) <= j
  BY DEF HistoryIs
<1>1. Earlier(i) \subseteq 1..(i - 1) BY DEF Earlier
<1>2. Earlier(i) \in SUBSET (0..i) BY <1>1
<1>3. Earlier(i) # {} => Max(Earlier(i)) \in Earlier(i) /\ \A j \in Earlier(i) : j <= Max(Earlier(i))
  BY <1>2, MaxIs
<1> DEFINE A == Earlier(i) \cup {i}
           T == {j \in A : Forgot(j)}
<1>4. T \in SUBSET (0..i) /\ A \in SUBSET Nat /\ A # {} BY <1>1
<1>5. T # {}
  <2>1. PICK j \in A : \A k \in A : j <= k BY <1>4, LeastElement
  <2>2. Of(j) = Of(i) /\ j \in 1..i BY <1>1 DEF Earlier
  <2>3. Earlier(j) \subseteq A /\ \A k \in Earlier(j) : k < j BY <2>2 DEF Earlier
  <2>4. Earlier(j) = {} BY <1>4, <2>1, <2>3
  <2>5. Forgot(j) BY <2>4 DEF Forgot
  <2> QED BY <2>5
<1>6. Start(i) \in T /\ \A j \in T : j <= Start(i)
  <2> HIDE DEF T
  <2>1. Max(T) \in T /\ \A j \in T : j <= Max(T) BY <1>4, <1>5, MaxIs
  <2> QED BY <2>1 DEF Start, T
<1>7. i \in Memory(i) /\ Memory(i) \subseteq A
  <2>1. Start(i) \in 1..i BY <1>1, <1>6
  <2> QED BY <2>1 DEF Memory, Earlier
<1>8. Tells(i) \subseteq Memory(i) BY DEF Tells
<1>9. Tells(i) # {} => Min(Tells(i)) \in Tells(i) /\ \A j \in Tells(i) : Min(Tells(i)) <= j
  <2>1. Tells(i) \in SUBSET Nat BY <1>4, <1>7, <1>8
  <2> QED BY <2>1, MinIs
<1> QED BY <1>1, <1>3, <1>6, <1>7, <1>8, <1>9

LEMMA LogGrows ==
  ASSUME IsLog, NEW r \in Logged, log' = Append(log, r)
  PROVE  /\ IsLog' /\ Len(log) \in Nat /\ Len(log') = Len(log) + 1
         /\ DOMAIN log = 1..Len(log) /\ DOMAIN log' = 1..(Len(log) + 1)
         /\ \A i \in 1..Len(log) : log'[i] = log[i] /\ Of(i)' = Of(i)
         /\ log'[Len(log) + 1] = r
         /\ \A i : i = Len(log) + 1 => Of(i)' = r.packet.tuple
<1>1. /\ log' \in Seq(Logged) /\ Len(log) \in Nat /\ Len(log') = Len(log) + 1
      /\ \A i \in 1..Len(log) : log'[i] = log[i]
      /\ log'[Len(log) + 1] = r
      /\ DOMAIN log = 1..Len(log) /\ DOMAIN log' = 1..(Len(log) + 1)
  BY AppendProperties, LenProperties DEF IsLog
<1> QED BY <1>1 DEF IsLog, Of

(* What was true of a packet stays true.                                    *)
LEMMA HistoryStays ==
  ASSUME IsLog, NEW r \in Logged, log' = Append(log, r), NEW i \in 1..Len(log)
  PROVE  /\ Earlier(i)' = Earlier(i) /\ (Forgot(i)' <=> Forgot(i)) /\ Memory(i)' = Memory(i)
         /\ Tells(i)' = Tells(i) /\ (Tells(i) # {} => HostOf(i)' = HostOf(i)) /\ AppAt(i)' = AppAt(i)
<1>1. Len(log) \in Nat /\ \A j \in 1..Len(log) : log'[j] = log[j] /\ Of(j)' = Of(j)
  BY LogGrows
<1>2. HistoryIs /\ HistoryIs'
  BY HistoryFacts, PTL
<1>3. ASSUME NEW j \in 1..Len(log) PROVE Earlier(j)' = Earlier(j) /\ (Forgot(j)' <=> Forgot(j))
  <2>1. j \in Nat \ {0} /\ 1..(j - 1) \subseteq 1..Len(log) BY <1>1
  <2>2. Earlier(j)' = Earlier(j) BY <1>1, <2>1 DEF Earlier
  <2>3. Earlier(j) # {} => Max(Earlier(j)) \in 1..(j - 1) BY <1>2, <2>1 DEF HistoryIs
  <2>4. ASSUME Earlier(j) # {}, NEW a, a = Max(Earlier(j))
        PROVE  {Of(k) : k \in (a + 1)..(j - 1)}' = {Of(k) : k \in (a + 1)..(j - 1)}
    <3>1. (a + 1)..(j - 1) \subseteq 1..Len(log) BY <2>1, <2>3, <2>4
    <3> QED BY <1>1, <3>1
  <2>5. Forgot(j) <=> Earlier(j) = {} \/ \E a : a = Max(Earlier(j)) /\
                         Cardinality({Of(k) : k \in (a + 1)..(j - 1)}) >= Table!Bound(max_flows)
    BY DEF Forgot
  <2>6. Forgot(j)' <=> Earlier(j)' = {} \/ \E a : a = Max(Earlier(j)') /\
                         Cardinality({Of(k) : k \in (a + 1)..(j - 1)}') >= Table!Bound(max_flows)
    BY DEF Forgot
  <2> QED BY <2>2, <2>4, <2>5, <2>6
<1>4. i \in Nat \ {0} /\ Earlier(i) \cup {i} \subseteq 1..Len(log) BY <1>1 DEF Earlier
<1>5. {j \in Earlier(i) \cup {i} : Forgot(j)}' = {j \in Earlier(i) \cup {i} : Forgot(j)}
  BY <1>3, <1>4
<1>6. Start(i)' = Start(i) BY <1>5 DEF Start
<1>7. Start(i) \in 1..Len(log) BY <1>2, <1>4 DEF HistoryIs
<1>8. Memory(i)' = Memory(i)
  <2> SUFFICES ASSUME NEW s, s = Start(i) PROVE Memory(i)' = Memory(i)
    OBVIOUS
  <2>1. Memory(i) = {j \in s..i : Of(j) = Of(i)} BY DEF Memory
  <2>2. Memory(i)' = {j \in s..i : Of(j)' = Of(i)'} BY <1>6 DEF Memory
  <2>3. s..i \subseteq 1..Len(log) BY <1>1, <1>7
  <2> QED BY <1>1, <2>1, <2>2, <2>3
<1>9. Memory(i) \subseteq 1..Len(log) BY <1>2, <1>4 DEF HistoryIs
<1>10. Tells(i)' = Tells(i) BY <1>1, <1>8, <1>9 DEF Tells
<1>11. Tells(i) # {} => HostOf(i)' = HostOf(i)
  <2> SUFFICES ASSUME Tells(i) # {}, NEW k, k = Min(Tells(i)) PROVE HostOf(i)' = HostOf(i)
    OBVIOUS
  <2>1. k \in 1..Len(log) BY <1>2, <1>4, <1>9 DEF HistoryIs
  <2>2. HostOf(i) = log[k].packet.host BY DEF HostOf
  <2>3. HostOf(i)' = log'[k].packet.host BY <1>10 DEF HostOf
  <2> QED BY <1>1, <2>1, <2>2, <2>3
<1>12. AppAt(i)' = AppAt(i)
  <2>1. AppAt(i) = IF Tells(i) = {} THEN Hint[Of(i)] ELSE AppOfName[HostOf(i)] BY DEF AppAt
  <2>2. AppAt(i)' = IF Tells(i)' = {} THEN Hint[Of(i)'] ELSE AppOfName[HostOf(i)'] BY DEF AppAt
  <2> QED BY <1>1, <1>10, <1>11, <2>1, <2>2
<1>13. Earlier(i)' = Earlier(i) /\ (Forgot(i)' <=> Forgot(i)) BY <1>3
<1> QED BY <1>8, <1>10, <1>11, <1>12, <1>13

Met(t) == \E i \in 1..Len(log) : Of(i) = t
LastIs ==
  \A t : Met(t) => /\ LastOf(t) \in 1..Len(log) /\ Of(LastOf(t)) = t
                   /\ \A i \in 1..Len(log) : Of(i) = t => i <= LastOf(t)

LEMMA LastFacts == IsLog => LastIs
<1> SUFFICES ASSUME IsLog, NEW t, Met(t)
             PROVE  /\ LastOf(t) \in 1..Len(log) /\ Of(LastOf(t)) = t
                    /\ \A i \in 1..Len(log) : Of(i) = t => i <= LastOf(t)
  BY DEF LastIs
<1> DEFINE T == {i \in DOMAIN log : Of(i) = t}
<1>1. DOMAIN log = 1..Len(log) /\ Len(log) \in Nat BY LenProperties DEF IsLog
<1>2. T \in SUBSET (0..Len(log)) /\ T # {} BY <1>1 DEF Met
<1>3. LastOf(t) = Max(T) BY DEF LastOf
<1>4. Max(T) \in T /\ \A y \in T : y <= Max(T)
  <2> HIDE DEF T
  <2> QED BY <1>1, <1>2, MaxIs
<1> QED BY <1>1, <1>3, <1>4

LEMMA LastGrows ==
  ASSUME IsLog, NEW r \in Logged, log' = Append(log, r), NEW t
  PROVE  /\ Met(t)' <=> Met(t) \/ t = r.packet.tuple
         /\ t = r.packet.tuple => LastOf(t)' = Len(log) + 1
         /\ Met(t) /\ t # r.packet.tuple => LastOf(t)' = LastOf(t)
<1> DEFINE n == Len(log)
<1>1. /\ IsLog' /\ n \in Nat /\ Len(log') = n + 1
      /\ \A i \in 1..n : Of(i)' = Of(i)
      /\ \A i : i = n + 1 => Of(i)' = r.packet.tuple
  BY LogGrows
<1>2. LastIs /\ LastIs'
  <2>1. LastIs BY LastFacts
  <2>2. IsLog' => LastIs' BY LastFacts, PTL
  <2> QED BY <1>1, <2>1, <2>2
<1>3. Met(t)' <=> \E i \in 1..(n + 1) : Of(i)' = t BY <1>1 DEF Met
<1>4. Met(t) <=> \E i \in 1..n : Of(i) = t BY DEF Met
<1>5. Met(t)' => /\ LastOf(t)' \in 1..(n + 1)
                 /\ \A k : k = LastOf(t)' => Of(k)' = t
                 /\ \A i \in 1..(n + 1) : Of(i)' = t => i <= LastOf(t)'
  BY <1>1, <1>2 DEF LastIs
<1>6. Met(t) => LastOf(t) \in 1..n /\ Of(LastOf(t)) = t /\ \A i \in 1..n : Of(i) = t => i <= LastOf(t)
  BY <1>2 DEF LastIs
<1> HIDE DEF n
<1>7. n + 1 \in 1..(n + 1) /\ \A i \in 1..(n + 1) : i \in 1..n \/ i = n + 1 BY <1>1
<1>8. Met(t)' <=> Met(t) \/ t = r.packet.tuple BY <1>1, <1>3, <1>4, <1>7
<1>9. ASSUME t = r.packet.tuple PROVE LastOf(t)' = n + 1
  <2>1. n + 1 <= LastOf(t)' /\ LastOf(t)' \in 1..(n + 1) BY <1>1, <1>5, <1>7, <1>8, <1>9
  <2> QED BY <1>1, <2>1
<1>10. ASSUME Met(t), t # r.packet.tuple PROVE LastOf(t)' = LastOf(t)
  <2> SUFFICES ASSUME NEW k, k = LastOf(t)', NEW l, l = LastOf(t) PROVE k = l
    OBVIOUS
  <2>1. k \in 1..n /\ Of(k) = t BY <1>1, <1>5, <1>7, <1>8, <1>10
  <2>2. l \in 1..n /\ Of(l) = t BY <1>6, <1>10
  <2>3. k <= l BY <1>6, <1>10, <2>1
  <2>4. l <= k BY <1>1, <1>5, <1>8, <1>10, <2>2
  <2> QED BY <2>1, <2>2, <2>3, <2>4
<1> QED BY <1>8, <1>9, <1>10 DEF n

-----------------------------------------------------------------------------
(* The table: what Store makes of it.                                       *)
IsSeq(s) == Len(s) \in Nat /\ DOMAIN s = 1..Len(s) /\ \E S : s \in Seq(S)

(* All but the entry at gap move up, and the flow in use comes last.        *)
Moved(old, new, t, flow, gap) ==
  /\ Len(new) = (IF gap = 0 THEN Len(old) + 1 ELSE Len(old))
  /\ \A i \in 1..(Len(new) - 1) : new[i] = old[IF gap = 0 \/ i < gap THEN i ELSE i + 1]
  /\ new[Len(new)] = [tuple |-> t, flow |-> flow]

LEMMA Capacity == Table!Bound(max_flows) \in Nat \ {0}
<1>1. max_flows \in Nat BY CapacityAssumption
<1> QED BY <1>1 DEF Table!Bound

LEMMA StoreShape ==
  ASSUME NEW old, IsSeq(old), NEW t, NEW flow, NEW new, new = Table!Store(old, max_flows, t, flow)
  PROVE  /\ IsSeq(new)
         /\ \E gap \in 0..Len(old) :
              /\ Moved(old, new, t, flow, gap)
              /\ Table!Holds(old, t) => gap # 0 /\ old[gap].tuple = t
              /\ ~Table!Holds(old, t) => gap = IF Len(old) >= Table!Bound(max_flows) THEN 1 ELSE 0
<1> DEFINE e == [tuple |-> t, flow |-> flow]
<1>1. PICK S : old \in Seq(S) BY DEF IsSeq
<1> DEFINE E == S \cup {e}
<1>2. old \in Seq(E) /\ e \in E /\ Len(old) \in Nat /\ DOMAIN old = 1..Len(old)
  <2>1. \A i \in 1..Len(old) : old[i] \in S BY <1>1, ElementOfSeq
  <2>2. Len(old) \in Nat /\ DOMAIN old = 1..Len(old) BY DEF IsSeq
  <2>3. old = [i \in 1..Len(old) |-> old[i]] BY <1>1, <2>2
  <2>4. old \in [1..Len(old) -> E] BY <2>1, <2>3
  <2> QED BY <2>2, <2>4, SeqDef
<1> HIDE DEF e, E
<1>3. ASSUME NEW x \in Seq(E), new = Append(x, e)
      PROVE  /\ IsSeq(new) /\ Len(x) \in Nat /\ Len(new) = Len(x) + 1
             /\ \A i \in 1..Len(x) : new[i] = x[i]
             /\ new[Len(new)] = e
  <2>1. /\ new \in Seq(E) /\ Len(x) \in Nat /\ Len(new) = Len(x) + 1
        /\ \A i \in 1..Len(x) : new[i] = x[i]
        /\ new[Len(x) + 1] = e
    BY <1>2, <1>3, AppendProperties, LenProperties
  <2>2. DOMAIN new = 1..Len(new) /\ Len(new) \in Nat BY <2>1, LenProperties
  <2>3. IsSeq(new) BY <2>1, <2>2 DEF IsSeq
  <2> QED BY <2>1, <2>3
<1>4. ASSUME NEW x, NEW g \in 1..Len(old), x = RemoveAt(old, g), new = Append(x, e)
      PROVE  IsSeq(new) /\ Moved(old, new, t, flow, g)
  <2>1. /\ x \in Seq(E) /\ Len(x) = Len(old) - 1
        /\ \A i \in 1..Len(old) - 1 : x[i] = IF i < g THEN old[i] ELSE old[i + 1]
    BY <1>2, <1>4, RemoveAtProperties
  <2>2. Len(new) = Len(old)
    <3>1. Len(new) = Len(x) + 1 BY <1>3, <1>4, <2>1
    <3> QED BY <1>2, <2>1, <3>1
  <2>3. g # 0 BY <1>2
  <2>4. \A i \in 1..(Len(new) - 1) : new[i] = old[IF g = 0 \/ i < g THEN i ELSE i + 1]
    BY <1>3, <1>4, <2>1, <2>2, <2>3
  <2> QED BY <1>3, <1>4, <2>1, <2>2, <2>3, <2>4 DEF Moved, e
<1>5. CASE Table!Holds(old, t)
  <2> DEFINE g == Table!Place(old, t)
  <2>1. g \in 1..Len(old) /\ old[g].tuple = t BY <1>2, <1>5 DEF Table!Place, Table!Holds
  <2>2. new = Append(RemoveAt(old, g), e)
    BY <1>5 DEF Table!Store, Table!Used, Table!Without, Table!RemoveAt, RemoveAt, e
  <2> HIDE DEF g
  <2>3. IsSeq(new) /\ Moved(old, new, t, flow, g) BY <1>4, <2>1, <2>2
  <2>4. g \in 0..Len(old) /\ g # 0 BY <1>2, <2>1
  <2> QED BY <1>5, <2>1, <2>3, <2>4
<1>6. CASE ~Table!Holds(old, t) /\ Len(old) >= Table!Bound(max_flows)
  <2>1. Table!Bound(max_flows) \in Nat \ {0} BY Capacity
  <2>2. 1 \in 1..Len(old) /\ 1 \in 0..Len(old) BY <1>2, <1>6, <2>1
  <2> DEFINE x == Tail(old)
  <2>3. /\ x \in Seq(E) /\ Len(x) = Len(old) - 1 /\ DOMAIN x = 1..(Len(old) - 1)
        /\ \A i \in 1..(Len(old) - 1) : x[i] = old[i + 1]
    <3>1. old # <<>> BY <1>2, <2>2, EmptySeq
    <3>2. /\ x \in Seq(E) /\ Len(x) = Len(old) - 1
          /\ \A i \in 1..Len(x) : x[i] = old[i + 1]
      BY <1>2, <3>1, HeadTailProperties
    <3>3. DOMAIN x = 1..Len(x) BY <3>2, LenProperties
    <3> QED BY <3>2, <3>3
  <2> HIDE DEF x
  <2>4. ~Table!Holds(x, t)
    <3>1. \A i \in 1..Len(old) : old[i].tuple # t BY <1>2, <1>6 DEF Table!Holds
    <3>2. \A i \in 1..(Len(old) - 1) : x[i] = old[i + 1] /\ i + 1 \in 1..Len(old) BY <1>2, <2>3
    <3> QED BY <2>3, <3>1, <3>2 DEF Table!Holds
  <2>5. new = Append(x, e)
    BY <1>6, <2>4 DEF Table!Store, Table!Used, Table!Without, x, e
  <2>6. IsSeq(new) /\ Moved(old, new, t, flow, 1)
    <3>1. Len(new) = Len(old)
      <4>1. Len(new) = Len(x) + 1 BY <1>3, <2>3, <2>5
      <4> QED BY <1>2, <2>3, <4>1
    <3>2. \A i \in 1..(Len(new) - 1) : new[i] = old[IF 1 = 0 \/ i < 1 THEN i ELSE i + 1]
      BY <1>3, <2>3, <2>5, <3>1
    <3> QED BY <1>3, <2>3, <2>5, <3>1, <3>2 DEF Moved, e
  <2> QED BY <1>6, <2>2, <2>6
<1>7. CASE ~Table!Holds(old, t) /\ ~(Len(old) >= Table!Bound(max_flows))
  <2>1. new = Append(old, e)
    BY <1>7 DEF Table!Store, Table!Used, Table!Without, e
  <2>2. IsSeq(new) /\ Moved(old, new, t, flow, 0)
    <3>1. Len(new) = Len(old) + 1 BY <1>2, <1>3, <2>1
    <3>2. \A i \in 1..(Len(new) - 1) : new[i] = old[IF 0 = 0 \/ i < 0 THEN i ELSE i + 1]
      BY <1>2, <1>3, <2>1, <3>1
    <3> QED BY <1>2, <1>3, <2>1, <3>1, <3>2 DEF Moved, e
  <2>3. 0 \in 0..Len(old) BY <1>2
  <2> QED BY <1>7, <2>2, <2>3
<1> QED BY <1>5, <1>6, <1>7

-----------------------------------------------------------------------------
(* The table holds the flows met most recently, the last one at the end.    *)
At(k, u) == k \in 1..Len(flow_table) /\ flow_table[k].tuple = u
Held(u)  == \E k : At(k, u)

Ordered ==
  /\ IsSeq(flow_table) /\ Len(flow_table) <= Table!Bound(max_flows)
  /\ \A k, u : At(k, u) => Met(u)
  /\ \A k, l, u, w : At(k, u) /\ At(l, w) /\ k < l => LastOf(u) < LastOf(w)
  /\ \A u : Met(u) /\ ~Held(u) =>
       /\ Len(flow_table) = Table!Bound(max_flows)
       /\ \A k, w : At(k, w) => LastOf(u) < LastOf(w)

Recorded(p, flow, r) ==
  /\ r \in Logged /\ r.packet = p /\ log' = Append(log, r)
  /\ flow_table' = Table!Store(flow_table, max_flows, p.tuple, flow)

(* Where an entry was before it moved up. *)
From(gap, i) == IF gap = 0 \/ i < gap THEN i ELSE i + 1

ClosesGap(gap, n, m) ==
  /\ \A i \in 1..(m - 1) : From(gap, i) \in 1..n /\ From(gap, i) # gap
  /\ \A i, j \in 1..(m - 1) : i < j => From(gap, i) < From(gap, j)
  /\ \A k \in 1..n : k # gap => \E i \in 1..(m - 1) : From(gap, i) = k

LEMMA FromIs ==
  ASSUME NEW n \in Nat, NEW gap \in 0..n, NEW m, m = IF gap = 0 THEN n + 1 ELSE n
  PROVE  m \in Nat \ {0} /\ ClosesGap(gap, n, m)
<1> SUFFICES /\ m \in Nat \ {0}
             /\ \A i \in 1..(m - 1) : From(gap, i) \in 1..n /\ From(gap, i) # gap
             /\ \A i, j \in 1..(m - 1) : i < j => From(gap, i) < From(gap, j)
             /\ \A k \in 1..n : k # gap => \E i \in 1..(m - 1) : From(gap, i) = k
  BY DEF ClosesGap
<1>1. CASE gap = 0
  <2>1. m = n + 1 /\ m - 1 = n BY <1>1
  <2>2. \A i : From(gap, i) = i BY <1>1 DEF From
  <2> QED BY <1>1, <2>1, <2>2
<1>2. CASE gap # 0
  <2>1. m = n /\ n # 0 BY <1>2
  <2>2. ASSUME NEW k \in 1..n, k # gap PROVE \E i \in 1..(m - 1) : From(gap, i) = k
    <3>1. CASE k < gap
      <4>1. k \in 1..(m - 1) /\ From(gap, k) = k BY <2>1, <3>1 DEF From
      <4> QED BY <4>1
    <3>2. CASE k > gap
      <4>1. k - 1 \in 1..(m - 1) /\ ~(k - 1 < gap) /\ (k - 1) + 1 = k BY <1>2, <2>1, <3>2
      <4>2. From(gap, k - 1) = k BY <1>2, <4>1 DEF From
      <4> QED BY <4>1, <4>2
    <3> QED BY <2>2, <3>1, <3>2
  <2> QED BY <1>2, <2>1, <2>2 DEF From
<1> QED BY <1>1, <1>2

(* Where the entries are after a packet of flow t.                          *)
Shifted(gap, t, flow) ==
  LET n == Len(flow_table)
      m == Len(flow_table') IN
  /\ m = (IF gap = 0 THEN n + 1 ELSE n)
  /\ (\A k : k = Len(flow_table) => At(k, t))' /\ flow_table'[m].flow = flow
  /\ \A k \in 1..(m - 1) : flow_table'[k] = flow_table[From(gap, k)]
  /\ Held(t) => At(gap, t)
  /\ ~Held(t) => gap = IF n >= Table!Bound(max_flows) THEN 1 ELSE 0

LEMMA Stores ==
  ASSUME IsSeq(flow_table), NEW p, NEW t, t = p.tuple, NEW flow, NEW r, Recorded(p, flow, r)
  PROVE  /\ IsSeq(flow_table)' /\ Len(flow_table) \in Nat
         /\ \E gap \in 0..Len(flow_table) : Shifted(gap, t, flow)
<1>1. Len(flow_table) \in Nat /\ DOMAIN flow_table = 1..Len(flow_table) BY DEF IsSeq
<1>2. flow_table' = Table!Store(flow_table, max_flows, t, flow) BY DEF Recorded
<1>3. Table!Holds(flow_table, t) <=> Held(t) BY <1>1 DEF Table!Holds, Held, At
<1>4. /\ IsSeq(flow_table')
      /\ \E gap \in 0..Len(flow_table) :
           /\ Moved(flow_table, flow_table', t, flow, gap)
           /\ Table!Holds(flow_table, t) => gap # 0 /\ flow_table[gap].tuple = t
           /\ ~Table!Holds(flow_table, t) => gap = IF Len(flow_table) >= Table!Bound(max_flows) THEN 1 ELSE 0
  BY <1>2, StoreShape
<1>5. PICK gap \in 0..Len(flow_table) :
           /\ Moved(flow_table, flow_table', t, flow, gap)
           /\ Held(t) => gap # 0 /\ flow_table[gap].tuple = t
           /\ ~Held(t) => gap = IF Len(flow_table) >= Table!Bound(max_flows) THEN 1 ELSE 0
  BY <1>3, <1>4
<1>6. Len(flow_table') \in 1..Len(flow_table') BY <1>1, <1>5 DEF Moved
<1>7. (\A k : k = Len(flow_table) => At(k, t))' /\ flow_table'[Len(flow_table')].flow = flow
  BY <1>5, <1>6 DEF Moved, At
<1>8. \A k \in 1..(Len(flow_table') - 1) : flow_table'[k] = flow_table[From(gap, k)]
  BY <1>5 DEF Moved, From
<1>9. Held(t) => At(gap, t) BY <1>1, <1>5 DEF At
<1>10. Len(flow_table') = IF gap = 0 THEN Len(flow_table) + 1 ELSE Len(flow_table) BY <1>5 DEF Moved
<1>11. Shifted(gap, t, flow) BY <1>5, <1>7, <1>8, <1>9, <1>10 DEF Shifted
<1> QED BY <1>1, <1>4, <1>11

LEMMA OrderedStep ==
  ASSUME IsLog, Ordered, NEW p, NEW t, t = p.tuple, NEW flow, NEW r, Recorded(p, flow, r),
         NEW gap \in 0..Len(flow_table), Shifted(gap, t, flow), IsSeq(flow_table)'
  PROVE  /\ Ordered'
         /\ \A k, u : k # Len(flow_table') =>
            (At(k, u)' <=> k \in 1..(Len(flow_table') - 1) /\ At(From(gap, k), u) /\ u # t)
<1> DEFINE B == Table!Bound(max_flows)
<1> SUFFICES ASSUME NEW n, n = Len(flow_table), NEW m, m = Len(flow_table'), NEW L, L = Len(log)
             PROVE  /\ Ordered'
                    /\ \A k, u : k # m => (At(k, u)' <=> k \in 1..(m - 1) /\ At(From(gap, k), u) /\ u # t)
  OBVIOUS
<1>1. /\ n \in Nat /\ n <= B /\ B \in Nat \ {0}
      /\ m = (IF gap = 0 THEN n + 1 ELSE n) /\ m \in Nat \ {0}
      /\ Held(t) => At(gap, t)
      /\ ~Held(t) => gap = IF n >= B THEN 1 ELSE 0
      /\ \A k : k = m => At(k, t)'
      /\ r \in Logged /\ log' = Append(log, r) /\ r.packet.tuple = t
  BY Capacity, FromIs DEF Ordered, IsSeq, Shifted, Recorded
<1>2. /\ \A i \in 1..(m - 1) : From(gap, i) \in 1..n /\ From(gap, i) # gap
      /\ \A i, j \in 1..(m - 1) : i < j => From(gap, i) < From(gap, j)
      /\ \A k \in 1..n : k # gap => \E i \in 1..(m - 1) : From(gap, i) = k
  <2>1. ClosesGap(gap, n, m)
    <3>1. gap \in 0..n BY <1>1
    <3> HIDE DEF B
    <3> QED BY <1>1, <3>1, FromIs
  <2> QED BY <2>1 DEF ClosesGap
<1>3. /\ \A k, u : At(k, u) => Met(u)
      /\ \A k, l, u, w : At(k, u) /\ At(l, w) /\ k < l => LastOf(u) < LastOf(w)
      /\ \A u : Met(u) /\ ~Held(u) => n = B /\ \A k, w : At(k, w) => LastOf(u) < LastOf(w)
  BY DEF Ordered
<1>4. /\ L \in Nat
      /\ \A u : Met(u) => LastOf(u) \in 1..L
      /\ \A u : Met(u)' <=> Met(u) \/ u = t
      /\ \A u : u = t => LastOf(u)' = L + 1
      /\ \A u : Met(u) /\ u # t => LastOf(u)' = LastOf(u)
  <2>1. LastIs /\ L \in Nat BY LastFacts, LogGrows, <1>1
  <2>2. ASSUME NEW u
        PROVE  /\ Met(u)' <=> Met(u) \/ u = t
               /\ u = t => LastOf(u)' = L + 1
               /\ Met(u) /\ u # t => LastOf(u)' = LastOf(u)
    BY <1>1, LastGrows
  <2> QED BY <2>1, <2>2 DEF LastIs
<1>5. \A k, l, u : At(k, u) /\ At(l, u) => k = l
  <2>1. ASSUME NEW k, NEW l, NEW u, At(k, u), At(l, u), k < l PROVE FALSE
    <3>1. LastOf(u) < LastOf(u) /\ LastOf(u) \in 1..L BY <1>3, <1>4, <2>1
    <3> QED BY <1>4, <3>1
  <2>2. \A k, u : At(k, u) => k \in 1..n BY DEF At
  <2>3. \A k, l \in 1..n : k = l \/ k < l \/ l < k BY <1>1
  <2> QED BY <2>1, <2>2, <2>3
<1>6. \A k, u : k # m => (At(k, u)' <=> k \in 1..(m - 1) /\ At(From(gap, k), u))
  <2> SUFFICES ASSUME NEW k, NEW u, k # m
               PROVE  At(k, u)' <=> k \in 1..(m - 1) /\ At(From(gap, k), u)
    OBVIOUS
  <2>1. At(k, u)' <=> k \in 1..m /\ flow_table'[k].tuple = u BY DEF At
  <2>2. k \in 1..m <=> k \in 1..(m - 1) BY <1>1
  <2>3. k \in 1..(m - 1) => flow_table'[k] = flow_table[From(gap, k)] BY DEF Shifted
  <2> QED BY <1>2, <2>1, <2>2, <2>3 DEF At
<1>7. \A k \in 1..(m - 1) : ~At(From(gap, k), t)
  BY <1>1, <1>2, <1>5 DEF Held
<1>8. \A k, u : k # m => (At(k, u)' <=> k \in 1..(m - 1) /\ At(From(gap, k), u) /\ u # t)
  BY <1>6, <1>7
<1>9. \A u : At(m, u)' <=> u = t
  BY <1>1 DEF At
<1>10. Ordered'
  <2>1. m <= B
    <3>1. CASE Held(t) BY <1>1, <3>1 DEF At
    <3>2. CASE ~Held(t) BY <1>1, <3>2
    <3> QED BY <3>1, <3>2
  <2>2. \A k, u : At(k, u)' => Met(u)' BY <1>3, <1>4, <1>8, <1>9
  <2>3. ASSUME NEW k, NEW l, NEW u, NEW w, At(k, u)', At(l, w)', k < l PROVE LastOf(u)' < LastOf(w)'
    <3>1. k \in 1..m /\ l \in 1..m BY <2>3 DEF At
    <3>2. k # m BY <1>1, <2>3, <3>1
    <3>3. u # t /\ At(From(gap, k), u) /\ LastOf(u)' = LastOf(u) /\ k \in 1..(m - 1)
      BY <1>3, <1>4, <1>8, <2>3, <3>2
    <3>4. CASE l = m
      <4>1. w = t BY <1>9, <2>3, <3>4
      <4>2. LastOf(w)' = L + 1 /\ LastOf(u) \in 1..L BY <1>3, <1>4, <3>3, <4>1
      <4> QED BY <1>4, <3>3, <4>2
    <3>5. CASE l # m
      <4>1. w # t /\ At(From(gap, l), w) /\ LastOf(w)' = LastOf(w) /\ l \in 1..(m - 1)
        BY <1>3, <1>4, <1>8, <2>3, <3>5
      <4>2. From(gap, k) < From(gap, l) BY <1>2, <2>3, <3>3, <4>1
      <4> QED BY <1>3, <3>3, <4>1, <4>2
    <3> QED BY <3>4, <3>5
  <2>4. ASSUME NEW u, Met(u)', ~Held(u)'
        PROVE  m = B /\ \A k, w : At(k, w)' => LastOf(u)' < LastOf(w)'
    <3>1. u # t /\ Met(u) /\ LastOf(u)' = LastOf(u) /\ LastOf(u) \in 1..L
      <4>1. u # t BY <1>9, <2>4 DEF Held
      <4> QED BY <1>4, <2>4, <4>1
    <3>2. \A k \in 1..(m - 1) : ~At(From(gap, k), u)
      <4>1. \A k \in 1..(m - 1) : k # m BY <1>1
      <4> QED BY <1>8, <2>4, <3>1, <4>1 DEF Held
    <3>3. m = B /\ \A k \in 1..(m - 1) : \A w : At(From(gap, k), w) => LastOf(u) < LastOf(w)
      <4>1. CASE ~Held(u)
        <5>1. n = B /\ \A k, w : At(k, w) => LastOf(u) < LastOf(w) BY <1>3, <3>1, <4>1
        <5>2. gap # 0
          <6>1. CASE Held(t) BY <1>1, <6>1 DEF At
          <6>2. CASE ~Held(t) BY <1>1, <5>1, <6>2
          <6> QED BY <6>1, <6>2
        <5> QED BY <1>1, <5>1, <5>2
      <4>2. CASE Held(u)
        <5>1. PICK q : At(q, u) BY <4>2 DEF Held
        <5>2. q \in 1..n BY <5>1 DEF At
        <5>3. q = gap BY <1>2, <3>2, <5>1, <5>2
        <5>4. ~At(gap, t) BY <3>1, <5>1, <5>3 DEF At
        <5>5. ~Held(t) BY <1>1, <5>4
        <5>6. gap = 1 /\ n >= B BY <1>1, <5>2, <5>3, <5>5
        <5>7. \A k \in 1..(m - 1) : 1 < From(gap, k) BY <1>1, <1>2, <5>6
        <5> QED BY <1>1, <1>3, <5>1, <5>3, <5>6, <5>7
      <4> QED BY <4>1, <4>2
    <3>4. ASSUME NEW k, NEW w, At(k, w)' PROVE LastOf(u)' < LastOf(w)'
      <4>1. CASE k = m
        <5>1. LastOf(w)' = L + 1 BY <1>4, <1>9, <3>4, <4>1
        <5> QED BY <1>4, <3>1, <5>1
      <4>2. CASE k # m
        <5>1. w # t /\ At(From(gap, k), w) /\ LastOf(w)' = LastOf(w) /\ k \in 1..(m - 1)
          BY <1>3, <1>4, <1>8, <3>4, <4>2
        <5> QED BY <3>1, <3>3, <5>1
      <4> QED BY <4>1, <4>2
    <3> QED BY <3>3, <3>4
  <2>5. m = B <=> Len(flow_table') = Table!Bound(max_flows) OBVIOUS
  <2> QED BY <2>1, <2>2, <2>3, <2>4, <2>5 DEF Ordered
<1> QED BY <1>8, <1>10

-----------------------------------------------------------------------------
(* A flow is in the table iff fewer other flows than fit came after it.     *)
LEMMA ImageSize ==
  ASSUME NEW S, IsFiniteSet(S), NEW g, g = [x \in S |-> g[x]], NEW T, T = {g[x] : x \in S}
  PROVE  /\ IsFiniteSet(T) /\ Cardinality(T) <= Cardinality(S)
         /\ (\A x, y \in S : g[x] = g[y] => x = y) => Cardinality(T) = Cardinality(S)
<1>1. g \in Surjection(S, T) BY DEF Surjection
<1>2. (\A x, y \in S : g[x] = g[y] => x = y) => g \in Injection(S, T)
  BY DEF Injection, IsInjective
<1> QED BY <1>1, <1>2, FS_Surjection

Since(a) == {Of(k) : k \in (a + 1)..Len(log)}

LEMMA Residents ==
  ASSUME IsLog, Ordered, NEW t, Met(t)
  PROVE  Held(t) <=> ~(Cardinality(Since(LastOf(t))) >= Table!Bound(max_flows))
<1> SUFFICES ASSUME NEW n, n = Len(flow_table), NEW L, L = Len(log), NEW a, a = LastOf(t),
                    NEW B, B = Table!Bound(max_flows)
             PROVE  Held(t) <=> ~(Cardinality(Since(a)) >= B)
  OBVIOUS
<1>1. /\ n \in Nat /\ n <= B /\ B \in Nat \ {0} /\ L \in Nat
  BY Capacity, LenProperties DEF Ordered, IsSeq, IsLog
<1>2. /\ \A k, u : At(k, u) => Met(u) /\ k \in 1..n
      /\ \A k, l, u, w : At(k, u) /\ At(l, w) /\ k < l => LastOf(u) < LastOf(w)
      /\ \A u : Met(u) /\ ~Held(u) => n = B /\ \A k, w : At(k, w) => LastOf(u) < LastOf(w)
  BY DEF Ordered, At
<1>3. /\ \A u : Met(u) => LastOf(u) \in 1..L /\ Of(LastOf(u)) = u
      /\ \A i \in 1..L : Met(Of(i)) /\ i <= LastOf(Of(i))
  BY LastFacts DEF LastIs, Met
<1>4. a \in 1..L BY <1>3
<1> DEFINE K == (a + 1)..L
           g == [k \in K |-> Of(k)]
<1>5. IsFiniteSet(Since(a))
  <2>1. IsFiniteSet(K) BY <1>1, <1>4, FS_Interval
  <2>2. Since(a) = {g[k] : k \in K} BY DEF Since
  <2>3. g = [k \in K |-> g[k]] OBVIOUS
  <2> HIDE DEF g, K
  <2> QED BY <2>1, <2>2, <2>3, ImageSize
<1>6. \A u \in Since(a) : Met(u) /\ a < LastOf(u)
  <2> SUFFICES ASSUME NEW k \in (a + 1)..L, NEW u, u = Of(k) PROVE Met(u) /\ a < LastOf(u)
    BY DEF Since
  <2>1. k \in 1..L /\ a < k BY <1>1, <1>4
  <2>2. Met(u) /\ k <= LastOf(u) /\ LastOf(u) \in 1..L BY <1>3, <2>1
  <2> QED BY <1>1, <1>4, <2>1, <2>2
<1>7. \A u : Met(u) /\ a < LastOf(u) => u \in Since(a)
  <2> SUFFICES ASSUME NEW u, Met(u), a < LastOf(u), NEW k, k = LastOf(u) PROVE u \in Since(a)
    OBVIOUS
  <2>1. k \in (a + 1)..L /\ Of(k) = u BY <1>1, <1>3, <1>4
  <2> QED BY <2>1 DEF Since
<1> HIDE DEF g, K
<1>8. CASE Held(t)
  <2>1. PICK q : At(q, t) BY <1>8 DEF Held
  <2> DEFINE J == (q + 1)..n
             h == [l \in J |-> flow_table[l].tuple]
             H == {h[l] : l \in J}
  <2>2. q \in 1..n BY <1>2, <2>1
  <2>3. IsFiniteSet(J) /\ Cardinality(J) < B
    <3>1. /\ IsFiniteSet((q + 1)..n)
          /\ Cardinality((q + 1)..n) = IF q + 1 > n THEN 0 ELSE n - (q + 1) + 1
      <4>1. q + 1 \in Int /\ n \in Int BY <1>1, <2>2
      <4> HIDE DEF J
      <4> QED BY <4>1, FS_Interval
    <3> QED BY <1>1, <2>2, <3>1
  <2>4. Since(a) \subseteq H
    <3> SUFFICES ASSUME NEW u \in Since(a) PROVE u \in H
      OBVIOUS
    <3>1. Met(u) /\ a < LastOf(u) BY <1>6
    <3>2. LastOf(u) \in 1..L /\ ~(LastOf(u) < a) BY <1>1, <1>3, <1>4, <3>1
    <3>3. PICK l : At(l, u) BY <1>2, <2>1, <3>1, <3>2 DEF Held
    <3>4. l # q
      <4>1. u # t BY <1>3, <1>4, <3>1
      <4> QED BY <2>1, <3>3, <4>1 DEF At
    <3>5. ~(l < q) BY <1>2, <2>1, <3>2, <3>3
    <3>6. l \in J BY <1>1, <1>2, <2>2, <3>3, <3>4, <3>5
    <3>7. h[l] = u BY <3>3, <3>6 DEF At
    <3> QED BY <3>6, <3>7
  <2>5. IsFiniteSet(H) /\ Cardinality(H) <= Cardinality(J)
    <3>1. h = [l \in J |-> h[l]] OBVIOUS
    <3> HIDE DEF J, h
    <3> QED BY <2>3, <3>1, ImageSize
  <2> HIDE DEF H, J, h
  <2>6. Cardinality(Since(a)) <= Cardinality(H) BY <2>4, <2>5, FS_Subset
  <2>7. Cardinality(Since(a)) \in Nat /\ Cardinality(H) \in Nat /\ Cardinality(J) \in Nat
    BY <1>5, <2>3, <2>5, FS_CardinalityType
  <2>8. Cardinality(Since(a)) < B BY <1>1, <2>3, <2>5, <2>6, <2>7
  <2> QED BY <1>1, <1>8, <2>7, <2>8
<1>9. CASE ~Held(t)
  <2> DEFINE J == 1..n
             h == [l \in J |-> flow_table[l].tuple]
             H == {h[l] : l \in J}
  <2>1. n = B /\ \A k, w : At(k, w) => a < LastOf(w) BY <1>2, <1>9
  <2>2. \A l \in J : At(l, h[l]) BY DEF At
  <2>3. H \subseteq Since(a)
    <3>1. ASSUME NEW l \in J PROVE h[l] \in Since(a)
      <4>1. PICK w : w = h[l] /\ At(l, w) BY <2>2
      <4> QED BY <1>2, <1>7, <2>1, <4>1
    <3> QED BY <3>1
  <2>4. IsFiniteSet(J) /\ Cardinality(J) = B
    <3>1. IsFiniteSet(1..n) /\ Cardinality(1..n) = IF 1 > n THEN 0 ELSE n - 1 + 1
      <4>1. 1 \in Int /\ n \in Int BY <1>1
      <4> HIDE DEF J
      <4> QED BY <4>1, FS_Interval
    <3> QED BY <1>1, <2>1, <3>1
  <2>5. \A k, l \in J : h[k] = h[l] => k = l
    <3> SUFFICES ASSUME NEW k \in J, NEW l \in J, NEW u, u = h[k], u = h[l], k < l PROVE FALSE
      BY <1>1
    <3>1. LastOf(u) < LastOf(u) /\ LastOf(u) \in 1..L BY <1>2, <1>3, <2>2
    <3> QED BY <1>1, <3>1
  <2>6. Cardinality(H) = Cardinality(J)
    <3>1. h = [l \in J |-> h[l]] OBVIOUS
    <3> HIDE DEF J, h
    <3> QED BY <2>4, <2>5, <3>1, ImageSize
  <2> HIDE DEF H, J, h
  <2>7. Cardinality(H) <= Cardinality(Since(a)) BY <1>5, <2>3, FS_Subset
  <2> QED BY <1>9, <2>4, <2>6, <2>7
<1> QED BY <1>8, <1>9

(* The newest packet is remembered with those of its flow that the table    *)
(* still knows about.                                                       *)
LEMMA NewForgot ==
  ASSUME IsLog, Ordered, NEW r \in Logged, NEW t, t = r.packet.tuple, log' = Append(log, r),
         NEW m, m = Len(log) + 1
  PROVE  /\ Earlier(m)' = {j \in 1..Len(log) : Of(j) = t}
         /\ Held(t) => Met(t)
         /\ Forgot(m)' <=> ~Held(t)
<1> DEFINE L == Len(log)
           B == Table!Bound(max_flows)
<1>1. /\ L \in Nat /\ m - 1 = L /\ DOMAIN log = 1..L
      /\ \A i \in 1..L : Of(i)' = Of(i)
      /\ Of(m)' = t
  BY LogGrows
<1> DEFINE E == {j \in 1..L : Of(j) = t}
<1>2. Earlier(m)' = E BY <1>1 DEF Earlier
<1>3. E = {} <=> ~Met(t) BY DEF Met
<1>4. Held(t) => Met(t) BY DEF Held, Ordered
<1>5. ASSUME Met(t), NEW a, a = LastOf(t) PROVE Forgot(m)' <=> Cardinality(Since(a)) >= B
  <2>1. a = Max(E) BY <1>1, <1>5 DEF LastOf
  <2>2. a \in 1..L BY <1>5, LastFacts DEF LastIs
  <2>3. Forgot(m)' <=> Earlier(m)' = {} \/ \E b : b = Max(Earlier(m)') /\
                         Cardinality({Of(k) : k \in (b + 1)..(m - 1)}') >= B
    BY DEF Forgot
  <2>4. {Of(k) : k \in (a + 1)..(m - 1)}' = Since(a)
    <3>1. (a + 1)..(m - 1) = (a + 1)..L /\ (a + 1)..L \subseteq 1..L BY <1>1, <2>2
    <3> QED BY <1>1, <3>1 DEF Since
  <2> HIDE DEF E, B
  <2> QED BY <1>2, <1>3, <1>5, <2>1, <2>3, <2>4
<1>6. Met(t) => (Held(t) <=> ~(Cardinality(Since(LastOf(t))) >= B)) BY Residents
<1>7. ~Met(t) => Forgot(m)' BY <1>2, <1>3 DEF Forgot
<1> QED BY <1>2, <1>4, <1>5, <1>6, <1>7

LEMMA NewMemory ==
  ASSUME IsLog, Ordered, NEW r \in Logged, NEW t, t = r.packet.tuple, log' = Append(log, r),
         NEW m, m = Len(log) + 1, NEW a, a = LastOf(t)
  PROVE  /\ Held(t) => a \in 1..Len(log)
         /\ Memory(m)' = (IF Held(t) THEN Memory(a) ELSE {}) \cup {m}
         /\ Tells(m)' = (IF Held(t) THEN Tells(a) ELSE {}) \cup (IF r.packet.host \in Names THEN {m} ELSE {})
<1> DEFINE L == Len(log)
<1>1. /\ IsLog' /\ L \in Nat /\ m - 1 = L /\ DOMAIN log = 1..L /\ m \in Nat \ {0}
      /\ \A i \in 1..L : log'[i] = log[i] /\ Of(i)' = Of(i)
      /\ log'[m] = r /\ Of(m)' = t
  BY LogGrows
<1>2. /\ Earlier(m)' = {j \in 1..L : Of(j) = t}
      /\ Held(t) => Met(t)
      /\ Forgot(m)' <=> ~Held(t)
  BY NewForgot
<1>3. Met(t) => a \in 1..L /\ Of(a) = t /\ \A i \in 1..L : Of(i) = t => i <= a
  BY LastFacts DEF LastIs
<1>4. HistoryIs /\ HistoryIs' BY HistoryFacts, PTL
<1> DEFINE T == {j \in Earlier(m) \cup {m} : Forgot(j)}
<1>5. Start(m)' = Max(T') BY DEF Start
<1>6. CASE ~Held(t)
  <2>1. m \in T' BY <1>2, <1>6
  <2>2. T' \in SUBSET (0..m) /\ \A j \in T' : j <= m BY <1>1, <1>2
  <2>3. Max(T') = m
    <3> HIDE DEF T
    <3> QED BY <1>1, <2>1, <2>2, MaxIs
  <2>4. Memory(m)' = {m}
    <3>1. Start(m)' = m BY <1>5, <2>3
    <3>2. Memory(m)' = {j \in m..m : Of(j)' = Of(m)'} BY <3>1 DEF Memory
    <3> QED BY <1>1, <3>2
  <2> QED BY <1>1, <1>6, <2>4 DEF Tells
<1>7. CASE Held(t)
  <2>1. a \in 1..L /\ Of(a) = t /\ \A i \in 1..L : Of(i) = t => i <= a BY <1>2, <1>3, <1>7
  <2>2. Earlier(m)' = Earlier(a) \cup {a}
    <3>1. Earlier(a) = {j \in 1..(a - 1) : Of(j) = t} BY <2>1 DEF Earlier
    <3> QED BY <1>1, <1>2, <2>1, <3>1
  <2>3. \A j \in Earlier(a) \cup {a} : j \in 1..L /\ (Forgot(j)' <=> Forgot(j))
    <3>1. \A j \in Earlier(a) \cup {a} : j \in 1..L BY <1>2, <2>2
    <3>2. \A j \in 1..L : Forgot(j)' <=> Forgot(j) BY HistoryStays
    <3> QED BY <3>1, <3>2
  <2>4. T' = {j \in Earlier(a) \cup {a} : Forgot(j)}
    <3>1. T' = {j \in Earlier(m)' \cup {m} : Forgot(j)'} OBVIOUS
    <3> HIDE DEF T
    <3> QED BY <1>2, <1>7, <2>2, <2>3, <3>1
  <2>5. Start(m)' = Start(a) BY <1>5, <2>4 DEF Start
  <2>6. Start(a) \in 1..a
    <3>1. a \in Nat \ {0} BY <1>1, <2>1
    <3>2. Start(a) \in Earlier(a) \cup {a} /\ Earlier(a) \subseteq 1..(a - 1) BY <1>4, <3>1 DEF HistoryIs
    <3> QED BY <3>1, <3>2
  <2>7. Memory(m)' = Memory(a) \cup {m}
    <3> SUFFICES ASSUME NEW s, s = Start(a) PROVE Memory(m)' = Memory(a) \cup {m}
      OBVIOUS
    <3>1. Memory(a) = {j \in s..a : Of(j) = t} BY <2>1 DEF Memory
    <3>2. Memory(m)' = {j \in s..m : Of(j)' = t} BY <1>1, <2>5 DEF Memory
    <3>3. \A j \in s..m : j = m \/ j \in 1..L BY <1>1, <2>1, <2>6
    <3>4. \A j \in 1..L : Of(j)' = t => j <= a BY <1>1, <2>1
    <3>5. \A j \in s..a : j \in s..m /\ j \in 1..L BY <1>1, <2>1, <2>6
    <3>6. m \in s..m BY <1>1, <2>1, <2>6
    <3> QED BY <1>1, <2>1, <2>6, <3>1, <3>2, <3>3, <3>4, <3>5, <3>6
  <2>8. Memory(a) \subseteq 1..L
    <3>1. a \in Nat \ {0} BY <1>1, <2>1
    <3>2. Memory(a) \subseteq Earlier(a) \cup {a} BY <1>4, <3>1 DEF HistoryIs
    <3> QED BY <2>3, <3>2
  <2>9. Tells(m)' = Tells(a) \cup (IF r.packet.host \in Names THEN {m} ELSE {})
    <3>1. Tells(m)' = {j \in Memory(m)' : log'[j].packet.host \in Names} BY DEF Tells
    <3>2. Tells(a) = {j \in Memory(a) : log[j].packet.host \in Names} BY DEF Tells
    <3> QED BY <1>1, <2>7, <2>8, <3>1, <3>2
  <2> QED BY <1>7, <2>1, <2>7, <2>9
<1> QED BY <1>6, <1>7

Told(t) == Held(t) /\ \E a : a = LastOf(t) /\ Tells(a) # {}

LEMMA NewHost ==
  ASSUME IsLog, Ordered, NEW r \in Logged, NEW t, t = r.packet.tuple, log' = Append(log, r),
         NEW m, m = Len(log) + 1, NEW a, a = LastOf(t)
  PROVE  /\ Tells(m)' # {} <=> Told(t) \/ r.packet.host \in Names
         /\ Tells(m)' # {} => /\ HostOf(m)' = IF Told(t) THEN HostOf(a) ELSE r.packet.host
                              /\ Min(Tells(m)') = IF Told(t) THEN Min(Tells(a)) ELSE m
<1> DEFINE L == Len(log)
<1>1. /\ L \in Nat /\ m = L + 1 /\ \A i \in 1..L : log'[i] = log[i]
      /\ log'[m] = r
  BY LogGrows
<1>2. /\ Held(t) => a \in 1..L
      /\ Tells(m)' = (IF Held(t) THEN Tells(a) ELSE {}) \cup (IF r.packet.host \in Names THEN {m} ELSE {})
  BY NewMemory
<1>3. HistoryIs BY HistoryFacts
<1>4. HostOf(m)' = log'[Min(Tells(m)')].packet.host BY DEF HostOf
<1>5. CASE Told(t)
  <2> SUFFICES ASSUME NEW k, k = Min(Tells(a)), NEW T, T = Tells(m)'
               PROVE T # {} /\ HostOf(m)' = HostOf(a) /\ Min(T) = k
    BY <1>5
  <2>1. Held(t) /\ Tells(a) # {} /\ a \in 1..L /\ a \in Nat \ {0} BY <1>2, <1>5 DEF Told
  <2>2. k \in Tells(a) /\ (\A j \in Tells(a) : k <= j) /\ Tells(a) \subseteq 1..L
    <3>1. /\ Tells(a) \subseteq Earlier(a) \cup {a} /\ Earlier(a) \subseteq 1..(a - 1)
          /\ k \in Tells(a) /\ \A j \in Tells(a) : k <= j
      BY <1>3, <2>1 DEF HistoryIs
    <3> QED BY <1>1, <2>1, <3>1
  <2>3. k \in T /\ (\A j \in T : k <= j) /\ T \in SUBSET Nat
    BY <1>1, <1>2, <2>1, <2>2
  <2>4. Min(T) = k BY <2>3, MinIs
  <2>5. log'[k] = log[k] BY <1>1, <2>2
  <2> QED BY <1>4, <2>3, <2>4, <2>5 DEF HostOf
<1>6. CASE ~Told(t)
  <2>1. Tells(m)' = IF r.packet.host \in Names THEN {m} ELSE {} BY <1>2, <1>6 DEF Told
  <2>2. Min({m}) = m
    <3>1. {m} \in SUBSET Nat /\ \A y \in {m} : m <= y BY <1>1
    <3> QED BY <3>1, MinIs
  <2> QED BY <1>1, <1>4, <1>6, <2>1, <2>2
<1> QED BY <1>5, <1>6

-----------------------------------------------------------------------------
(* What the table knows of a flow is what the history tells of it.          *)
FlowsKnown ==
  \A k, u, a : At(k, u) /\ a = LastOf(u) => Known(flow_table[k].flow, u, Told(u), HostOf(a))

LEMMA FoundFlow ==
  ASSUME Ordered, FlowsKnown, NEW t, NEW a, a = LastOf(t), NEW f, f = Table!Lookup(flow_table, t)
  PROVE  (f = NewFlow /\ ~Told(t)) \/ Known(f, t, Told(t), HostOf(a))
<1>1. DOMAIN flow_table = 1..Len(flow_table) BY DEF Ordered, IsSeq
<1>2. Table!Holds(flow_table, t) <=> Held(t) BY <1>1 DEF Table!Holds, Held, At
<1>3. CASE ~Held(t)
  <2>1. f = NewFlow BY <1>2, <1>3 DEF Table!Lookup
  <2> QED BY <1>3, <2>1 DEF Told
<1>4. CASE Held(t)
  <2> DEFINE k == Table!Place(flow_table, t)
  <2>1. f = flow_table[k].flow BY <1>2, <1>4 DEF Table!Lookup, Table!FlowOf
  <2>2. k \in DOMAIN flow_table /\ flow_table[k].tuple = t
    BY <1>2, <1>4 DEF Table!Place, Table!Holds
  <2>3. At(k, t) BY <1>1, <2>2 DEF At
  <2> HIDE DEF k
  <2> QED BY <2>1, <2>3 DEF FlowsKnown
<1> QED BY <1>3, <1>4

LEMMA KnownStep ==
  ASSUME IsLog, Ordered, FlowsKnown, NEW p, NEW t, t = p.tuple, NEW flow, NEW r, Recorded(p, flow, r),
         NEW a, a = LastOf(t),
         NEW told, told = (Told(t) \/ p.host \in Names), NEW host, host = (IF Told(t) THEN HostOf(a) ELSE p.host),
         Known(flow, t, told, host)
  PROVE  Ordered' /\ FlowsKnown'
<1> DEFINE L == Len(log)
<1>1. IsSeq(flow_table) BY DEF Ordered
<1>2. PICK gap \in 0..Len(flow_table) : Shifted(gap, t, flow)
  BY <1>1, Stores
<1>3. /\ Ordered'
      /\ \A k, u : k # Len(flow_table') =>
            (At(k, u)' <=> k \in 1..(Len(flow_table') - 1) /\ At(From(gap, k), u) /\ u # t)
  <2>1. IsSeq(flow_table)' BY <1>1, Stores
  <2> QED BY <1>2, <2>1, OrderedStep
<1>4. /\ r \in Logged /\ log' = Append(log, r) /\ r.packet = p /\ r.packet.tuple = t
      /\ L \in Nat
  BY LogGrows DEF Recorded
<1> SUFFICES ASSUME NEW m, m = Len(flow_table') PROVE FlowsKnown'
  BY <1>3
<1>5. ASSUME NEW u, NEW b, At(m, u)', b = LastOf(u)'
      PROVE  Known(flow_table'[m].flow, u, Told(u)', HostOf(b)')
  <2>1. u = t /\ flow_table'[m].flow = flow BY <1>2, <1>5 DEF Shifted, At
  <2>2. b = L + 1 BY <1>4, <1>5, <2>1, LastGrows
  <2>3. /\ Tells(b)' # {} <=> Told(t) \/ r.packet.host \in Names
        /\ Tells(b)' # {} => HostOf(b)' = IF Told(t) THEN HostOf(a) ELSE r.packet.host
    BY <1>4, <2>2, NewHost
  <2>4. Told(u)' <=> told
    <3>1. Held(u)' BY <1>5 DEF Held
    <3>2. Told(u)' <=> Held(u)' /\ Tells(b)' # {} BY <1>5 DEF Told
    <3> QED BY <1>4, <2>3, <3>1, <3>2
  <2>5. told => HostOf(b)' = host BY <1>4, <2>3
  <2> QED BY <2>1, <2>4, <2>5 DEF Known, Learnt
<1>6. ASSUME NEW k, NEW u, NEW b, At(k, u)', k # m, b = LastOf(u)'
      PROVE  Known(flow_table'[k].flow, u, Told(u)', HostOf(b)')
  <2>1. k \in 1..(m - 1) /\ At(From(gap, k), u) /\ u # t BY <1>3, <1>6
  <2>2. flow_table'[k] = flow_table[From(gap, k)] BY <1>2, <2>1 DEF Shifted
  <2>3. Met(u) /\ Held(u) /\ Held(u)' BY <1>6, <2>1 DEF Ordered, Held
  <2>4. b = LastOf(u) /\ b \in 1..L
    <3>1. LastOf(u) \in 1..L BY <2>3, LastFacts DEF LastIs
    <3> QED BY <1>4, <1>6, <2>1, <2>3, <3>1, LastGrows
  <2>5. Tells(b)' = Tells(b) /\ (Tells(b) # {} => HostOf(b)' = HostOf(b)) BY <1>4, <2>4, HistoryStays
  <2>6. Told(u)' <=> Tells(b)' # {} BY <1>6, <2>3 DEF Told
  <2>7. Told(u) <=> Tells(b) # {} BY <2>3, <2>4 DEF Told
  <2>8. Known(flow_table[From(gap, k)].flow, u, Told(u), HostOf(b)) BY <2>1, <2>4 DEF FlowsKnown
  <2> QED BY <2>2, <2>5, <2>6, <2>7, <2>8 DEF Known, Learnt
<1>7. FlowsKnown' BY <1>5, <1>6 DEF FlowsKnown
<1> QED BY <1>7

-----------------------------------------------------------------------------
(* Whichever way a packet goes, its verdict and its delay are those that    *)
(* its history asks for, and every counter counts what happened.            *)
CountersAreNumbers ==
  forwarded \in Nat /\ dropped \in Nat /\ classified \in Nat /\ anomalies \in Nat /\ evictions \in Nat

Fresh(t, host) == ~IPBlock(t) /\ ~Told(t) /\ host \in Names
CountsOf(t, r) ==
  /\ forwarded'  = forwarded + One(r.verdict = "forward")
  /\ dropped'    = dropped + One(r.verdict = "drop")
  /\ anomalies'  = anomalies + One(r.flagged)
  /\ classified' = classified + One(Fresh(t, r.packet.host))
  /\ evictions'  = evictions + One(~Held(t) /\ Len(flow_table) >= Table!Bound(max_flows))

(* The flow that handling a packet leaves in the table, and its record.     *)
Handled(p, f, flow, r) ==
  LET g == Measured(Opened(f, p), p)
      h == classifyFlow(g, p)
  IN \/ g.blocked /\ flow = g /\ r.verdict = "drop" /\ ~r.flagged
     \/ ~g.blocked /\ ToBlock(h, p) /\ flow = [h EXCEPT !.blocked = TRUE] /\ r.verdict = "drop" /\ ~r.flagged
     \/ /\ ~g.blocked /\ ~ToBlock(h, p) /\ flow = Throttled(Scored(h)) /\ r.verdict = "forward"
        /\ r.flagged <=> Due(flow) /\ flow.anomaly.score >= FLAG_THRESHOLD

Outcome(p, t, told, host, flow, r) ==
  /\ Recorded(p, flow, r) /\ Known(flow, t, told, host)
  /\ Handled(p, Table!Lookup(flow_table, t), flow, r)
  /\ r.verdict = "drop" <=> Bad(t, told, host)
  /\ r.verdict = "forward" => (r.delayed <=> isThrottled(rules_, IF told THEN AppOfName[host] ELSE Hint[t]))
  /\ CountsOf(t, r)

LEMMA Outcomes ==
  ASSUME CountersAreNumbers, Ordered, FlowsKnown, NEW p \in Packets,
         FastDrop(p) \/ BlockAndDrop(p) \/ Forward(p),
         NEW t, t = p.tuple, NEW a, a = LastOf(t),
         NEW told, told = (Told(t) \/ p.host \in Names), NEW host, host = (IF Told(t) THEN HostOf(a) ELSE p.host)
  PROVE  \E flow, r : Outcome(p, t, told, host, flow, r)
<1> DEFINE f == Table!Lookup(flow_table, t)
           g == Measured(Opened(f, p), p)
           h == classifyFlow(g, p)
<1>1. /\ g.blocked => Known(g, t, told, host) /\ Bad(t, told, host)
      /\ ~g.blocked /\ ToBlock(h, p) =>
           Known([h EXCEPT !.blocked = TRUE], t, told, host) /\ Bad(t, told, host)
      /\ ~g.blocked /\ ~ToBlock(h, p) =>
           /\ Known(Throttled(Scored(h)), t, told, host) /\ ~Bad(t, told, host)
           /\ Throttled(Scored(h)).throttled
                <=> isThrottled(rules_, IF told THEN AppOfName[host] ELSE Hint[t])
      /\ ~g.blocked /\ News(g, p) <=> ~IPBlock(t) /\ ~Told(t) /\ p.host \in Names
  <2>1. (f = NewFlow /\ ~Told(t)) \/ Known(f, t, Told(t), HostOf(a)) BY FoundFlow
  <2>2. Told(t) \in BOOLEAN BY DEF Told
  <2> HIDE DEF f
  <2>3. PICK b \in BOOLEAN : b = Told(t) BY <2>2
  <2>4. PICK s : s = HostOf(a) OBVIOUS
  <2>5. (f = NewFlow /\ ~b) \/ Known(f, t, b, s) BY <2>1, <2>3, <2>4
  <2>6. told = (b \/ p.host \in Names) /\ host = (IF b THEN s ELSE p.host) BY <2>3, <2>4
  <2> SUFFICES Fated(p, t, b, told, host, g, h)
    BY <2>3 DEF Fated
  <2> SUFFICES ASSUME NEW gg, gg = g, NEW hh, hh = h PROVE Fated(p, t, b, told, host, gg, hh)
    OBVIOUS
  <2>7. gg = Measured(Opened(f, p), p) /\ hh = classifyFlow(gg, p) OBVIOUS
  <2> HIDE DEF g, h
  <2> QED BY <2>5, <2>6, <2>7, Fate
<1>2. Arrived(p) = g /\ Inspected(p) = h BY DEF Arrived, Inspected
<1>3. Table!Holds(flow_table, t) <=> Held(t)
  BY DEF Table!Holds, Held, At, Ordered, IsSeq
<1>8. ASSUME NEW flow, NEW r,
             \/ g.blocked /\ flow = g /\ r.verdict = "drop" /\ ~r.flagged
             \/ /\ ~g.blocked /\ ToBlock(h, p) /\ flow = [h EXCEPT !.blocked = TRUE]
                /\ r.verdict = "drop" /\ ~r.flagged
             \/ /\ ~g.blocked /\ ~ToBlock(h, p) /\ flow = Throttled(Scored(h)) /\ r.verdict = "forward"
                /\ r.flagged <=> Due(flow) /\ flow.anomaly.score >= FLAG_THRESHOLD
      PROVE  Handled(p, Table!Lookup(flow_table, t), flow, r)
  BY <1>8, Zenon DEF Handled
<1> HIDE DEF f, g, h
<1>4. ASSUME NEW flow, NEW verdict \in {"drop", "forward"}, NEW delayed \in BOOLEAN, NEW flagged \in BOOLEAN,
             Record(p, flow, verdict, delayed, flagged), NEW r,
             r = [packet |-> p, verdict |-> verdict, delayed |-> delayed, flagged |-> flagged]
      PROVE  /\ Recorded(p, flow, r)
             /\ evictions' = evictions + One(~Held(t) /\ Len(flow_table) >= Table!Bound(max_flows))
  <2>1. r \in Logged /\ r.packet = p BY <1>4 DEF Logged
  <2>2. /\ flow_table' = Table!Store(flow_table, max_flows, p.tuple, flow) /\ log' = Append(log, r)
        /\ evictions' = evictions + One(~Table!Holds(flow_table, t) /\ Len(flow_table) >= Table!Bound(max_flows))
    BY <1>4 DEF Record
  <2> QED BY <1>3, <2>1, <2>2 DEF Recorded, One
<1>5. CASE FastDrop(p)
  <2> DEFINE r == [packet |-> p, verdict |-> "drop", delayed |-> FALSE, flagged |-> FALSE]
  <2>1. g.blocked /\ Record(p, g, "drop", FALSE, FALSE) /\ Drop /\ UNCHANGED classified
    BY <1>2, <1>5 DEF FastDrop
  <2>2. /\ Recorded(p, g, r)
        /\ evictions' = evictions + One(~Held(t) /\ Len(flow_table) >= Table!Bound(max_flows))
    BY <1>4, <2>1
  <2>3. CountsOf(t, r)
    <3>1. ~Fresh(t, p.host) BY <1>1, <2>1 DEF Fresh
    <3> QED BY <2>1, <2>2, <3>1 DEF CountsOf, Drop, One, CountersAreNumbers
  <2>4. Handled(p, Table!Lookup(flow_table, t), g, r) BY <1>8, <2>1
  <2>5. Outcome(p, t, told, host, g, r) BY <1>1, <2>1, <2>2, <2>3, <2>4 DEF Outcome
  <2> QED BY <2>5
<1>6. CASE BlockAndDrop(p)
  <2> DEFINE r == [packet |-> p, verdict |-> "drop", delayed |-> FALSE, flagged |-> FALSE]
             k == [h EXCEPT !.blocked = TRUE]
  <2>1. /\ ~g.blocked /\ ToBlock(h, p) /\ Record(p, k, "drop", FALSE, FALSE) /\ Drop
        /\ classified' = classified + One(News(g, p))
    BY <1>2, <1>6 DEF BlockAndDrop
  <2>2. /\ Recorded(p, k, r)
        /\ evictions' = evictions + One(~Held(t) /\ Len(flow_table) >= Table!Bound(max_flows))
    BY <1>4, <2>1
  <2>3. CountsOf(t, r)
    <3>1. Fresh(t, p.host) <=> News(g, p) BY <1>1, <2>1 DEF Fresh
    <3> QED BY <2>1, <2>2, <3>1 DEF CountsOf, Drop, One, CountersAreNumbers
  <2>4. Handled(p, Table!Lookup(flow_table, t), k, r) BY <1>8, <2>1
  <2>5. Outcome(p, t, told, host, k, r) BY <1>1, <2>1, <2>2, <2>3, <2>4 DEF Outcome
  <2> QED BY <2>5
<1>7. CASE Forward(p)
  <2> DEFINE k == Throttled(Scored(h))
  <2>1. PICK flagged :
           /\ flagged = (Due(k) /\ k.anomaly.score >= FLAG_THRESHOLD)
           /\ Record(p, k, "forward", k.throttled, flagged)
           /\ anomalies' = anomalies + One(flagged)
    BY <1>2, <1>7 DEF Forward
  <2>2. /\ ~g.blocked /\ ~ToBlock(h, p)
        /\ forwarded' = forwarded + 1 /\ classified' = classified + One(News(g, p)) /\ UNCHANGED dropped
    BY <1>2, <1>7 DEF Forward
  <2>3. flagged \in BOOLEAN /\ k.throttled \in BOOLEAN BY <1>1, <2>1, <2>2 DEF Known, IsFlow
  <2> DEFINE r == [packet |-> p, verdict |-> "forward", delayed |-> k.throttled, flagged |-> flagged]
  <2> HIDE DEF k
  <2>4. /\ Recorded(p, k, r)
        /\ evictions' = evictions + One(~Held(t) /\ Len(flow_table) >= Table!Bound(max_flows))
    BY <1>4, <2>1, <2>3
  <2>5. CountsOf(t, r)
    <3>1. Fresh(t, p.host) <=> News(g, p) BY <1>1, <2>2 DEF Fresh
    <3> QED BY <2>1, <2>2, <2>4, <3>1 DEF CountsOf, One, CountersAreNumbers
  <2>6. Handled(p, Table!Lookup(flow_table, t), k, r) BY <1>8, <2>1, <2>2 DEF k
  <2>7. Outcome(p, t, told, host, k, r) BY <1>1, <2>2, <2>4, <2>5, <2>6 DEF Outcome, k
  <2> QED BY <2>7
<1> QED BY <1>5, <1>6, <1>7

-----------------------------------------------------------------------------
Base == IsLog /\ CountersAreNumbers /\ Ordered /\ FlowsKnown

(* What the newest packet adds to the history.                              *)
NewEntry(m, t, r) ==
  /\ r \in Logged /\ log' = Append(log, r) /\ r.packet.tuple = t
  /\ r.verdict = "drop" <=>
       \/ IPBlock(t)
       \/ Tells(m)' # {} /\ isBlocked(rules_, SrcIP[t], AppOfName[HostOf(m)'], HostOf(m)')
  /\ r.verdict = "forward" => (r.delayed <=> isThrottled(rules_, AppAt(m)'))
  /\ CountsOf(t, r)
  /\ Len(flow_table)' = Len(flow_table) + One(~Held(t) /\ ~(Len(flow_table) >= Table!Bound(max_flows)))

LEMMA BaseStart == Init => Base
<1> SUFFICES ASSUME Init PROVE Base
  OBVIOUS
<1>1. flow_table = <<>> /\ log = <<>> BY DEF Init, Table!TableInit
<1>2. CountersAreNumbers BY DEF Init, Table!TableInit, CountersAreNumbers
<1>3. IsLog BY <1>1 DEF IsLog
<1>4. IsSeq(flow_table) /\ Len(flow_table) = 0
  <2>1. flow_table \in Seq({}) /\ Len(flow_table) = 0 BY <1>1
  <2>2. DOMAIN flow_table = 1..Len(flow_table) BY <2>1, LenProperties
  <2> QED BY <2>1, <2>2 DEF IsSeq
<1>5. \A k, u : ~At(k, u) BY <1>4 DEF At
<1>6. \A u : ~Met(u) BY <1>1 DEF Met
<1>7. Ordered
  <2>1. Len(flow_table) <= Table!Bound(max_flows) BY <1>4, Capacity
  <2> QED BY <1>4, <1>5, <1>6, <2>1 DEF Ordered
<1>8. FlowsKnown BY <1>5 DEF FlowsKnown
<1> QED BY <1>2, <1>3, <1>7, <1>8 DEF Base

LEMMA BaseStep ==
  ASSUME Base, NEW p \in Packets, FastDrop(p) \/ BlockAndDrop(p) \/ Forward(p),
         NEW t, t = p.tuple, NEW m, m = Len(log) + 1
  PROVE  Base' /\ \E r : NewEntry(m, t, r)
<1> SUFFICES ASSUME NEW a, a = LastOf(t),
                    NEW told, told = (Told(t) \/ p.host \in Names),
                    NEW host, host = (IF Told(t) THEN HostOf(a) ELSE p.host)
             PROVE  Base' /\ \E r : NewEntry(m, t, r)
  OBVIOUS
<1>1. IsLog /\ CountersAreNumbers /\ Ordered /\ FlowsKnown BY DEF Base
<1>2. PICK flow, r : Outcome(p, t, told, host, flow, r)
  BY <1>1, Outcomes
<1>3. /\ Recorded(p, flow, r) /\ Known(flow, t, told, host)
      /\ r \in Logged /\ log' = Append(log, r) /\ r.packet = p
      /\ r.verdict = "drop" <=> Bad(t, told, host)
      /\ r.verdict = "forward" => (r.delayed <=> isThrottled(rules_, IF told THEN AppOfName[host] ELSE Hint[t]))
      /\ CountsOf(t, r)
  BY <1>2 DEF Outcome, Recorded
<1>4. Base'
  <2>1. IsLog' BY <1>1, <1>3, LogGrows
  <2>2. CountersAreNumbers'
    <3> USE <1>1, <1>3 DEF CountersAreNumbers, CountsOf, One
    <3>1. forwarded' \in Nat /\ dropped' \in Nat OBVIOUS
    <3>2. anomalies' \in Nat /\ classified' \in Nat OBVIOUS
    <3>3. evictions' \in Nat OBVIOUS
    <3> QED BY <3>1, <3>2, <3>3
  <2>3. Ordered' /\ FlowsKnown' BY <1>1, <1>3, KnownStep
  <2> QED BY <2>1, <2>2, <2>3 DEF Base
<1>5. Of(m)' = t BY <1>1, <1>3, LogGrows
<1>6. /\ Tells(m)' # {} <=> told
      /\ told => HostOf(m)' = host
  BY <1>1, <1>3, NewHost
<1>7. r.verdict = "drop" <=>
       \/ IPBlock(t)
       \/ Tells(m)' # {} /\ isBlocked(rules_, SrcIP[t], AppOfName[HostOf(m)'], HostOf(m)')
  BY <1>3, <1>6 DEF Bad
<1>8. AppAt(m)' = IF told THEN AppOfName[host] ELSE Hint[t]
  <2>1. AppAt(m)' = IF Tells(m)' = {} THEN Hint[Of(m)'] ELSE AppOfName[HostOf(m)'] BY DEF AppAt
  <2> QED BY <1>5, <1>6, <2>1
<1>9. Len(flow_table)' = Len(flow_table) + One(~Held(t) /\ ~(Len(flow_table) >= Table!Bound(max_flows)))
  <2>1. IsSeq(flow_table) BY <1>1 DEF Ordered
  <2>2. PICK gap \in 0..Len(flow_table) : Shifted(gap, t, flow) BY <1>3, <2>1, Stores
  <2>3. Len(flow_table) \in Nat BY <2>1 DEF IsSeq
  <2>4. /\ Len(flow_table') = (IF gap = 0 THEN Len(flow_table) + 1 ELSE Len(flow_table))
        /\ Held(t) => gap # 0
        /\ ~Held(t) => gap = IF Len(flow_table) >= Table!Bound(max_flows) THEN 1 ELSE 0
    BY <2>2, <2>3 DEF Shifted, At
  <2>5. CASE Held(t) BY <2>3, <2>4, <2>5 DEF One
  <2>6. CASE ~Held(t) BY <2>3, <2>4, <2>6 DEF One
  <2> QED BY <2>5, <2>6
<1>10. NewEntry(m, t, r) BY <1>3, <1>7, <1>8, <1>9 DEF NewEntry
<1> QED BY <1>4, <1>10

LEMMA HistoryIdle ==
  ASSUME log' = log, NEW i
  PROVE  /\ Of(i)' = Of(i) /\ (Forgot(i)' <=> Forgot(i)) /\ Tells(i)' = Tells(i) /\ HostOf(i)' = HostOf(i)
         /\ AppAt(i)' = AppAt(i) /\ (Met(i)' <=> Met(i)) /\ LastOf(i)' = LastOf(i)
<1>1. \A j : Of(j)' = Of(j) BY DEF Of
<1>2. \A j : Earlier(j)' = Earlier(j) BY <1>1 DEF Earlier
<1>3. ASSUME NEW j PROVE Forgot(j)' <=> Forgot(j)
  <2> SUFFICES ASSUME NEW a, a = Max(Earlier(j)) PROVE Forgot(j)' <=> Forgot(j)
    OBVIOUS
  <2>1. {Of(k) : k \in (a + 1)..(j - 1)}' = {Of(k) : k \in (a + 1)..(j - 1)} BY <1>1
  <2>2. Forgot(j) <=> Earlier(j) = {} \/ Cardinality({Of(k) : k \in (a + 1)..(j - 1)}) >= Table!Bound(max_flows)
    BY DEF Forgot
  <2>3. Forgot(j)' <=> Earlier(j)' = {} \/ Cardinality({Of(k) : k \in (a + 1)..(j - 1)}') >= Table!Bound(max_flows)
    BY <1>2 DEF Forgot
  <2> QED BY <1>2, <2>1, <2>2, <2>3
<1>4. \A j : Start(j)' = Start(j) BY <1>2, <1>3 DEF Start
<1>5. \A j : Memory(j)' = Memory(j) BY <1>1, <1>4 DEF Memory
<1>6. \A j : Tells(j)' = Tells(j) BY <1>5 DEF Tells
<1>7. \A j : HostOf(j)' = HostOf(j) BY <1>6 DEF HostOf
<1>8. AppAt(i)' = AppAt(i) BY <1>1, <1>6, <1>7 DEF AppAt
<1>9. (Met(i)' <=> Met(i)) /\ LastOf(i)' = LastOf(i) BY <1>1 DEF Met, LastOf
<1> QED BY <1>1, <1>3, <1>6, <1>7, <1>8, <1>9

LEMMA BaseIdle == Base /\ Idle => Base'
<1> SUFFICES ASSUME Base, Idle PROVE Base'
  OBVIOUS
<1>1. IsLog' /\ CountersAreNumbers' BY DEF Base, Idle, vars, IsLog, CountersAreNumbers
<1>2. Ordered' BY DEF Base, Idle, vars, Ordered, At, Held, Met, LastOf, Of
<1>3. FlowsKnown'
  <2>1. log' = log /\ flow_table' = flow_table BY DEF Idle, vars
  <2>2. ASSUME NEW k, NEW u, NEW a, At(k, u)', a = LastOf(u)'
        PROVE  Known(flow_table'[k].flow, u, Told(u)', HostOf(a)')
    <3>1. At(k, u) /\ (Held(u)' <=> Held(u)) BY <2>1, <2>2 DEF At, Held
    <3>2. LastOf(u) = a /\ Tells(a)' = Tells(a) /\ HostOf(a)' = HostOf(a) BY <2>1, <2>2, HistoryIdle
    <3>3. Told(u)' <=> Told(u) BY <2>2, <3>1, <3>2 DEF Told
    <3>4. Known(flow_table[k].flow, u, Told(u), HostOf(a)) BY <3>1, <3>2 DEF Base, FlowsKnown
    <3> QED BY <2>1, <3>2, <3>3, <3>4 DEF Known, Learnt
  <2> QED BY <2>2 DEF FlowsKnown
<1> QED BY <1>1, <1>2, <1>3 DEF Base

(* FastPath.VerdictFollowsHistory: whatever the table forgot and whatever   *)
(* the flows' fields say, a packet is dropped iff the packets its flow is   *)
(* remembered by ask for it.                                                *)
THEOREM VerdictsFollow == Spec => []VerdictFollowsHistory
<1>1. Init => Base /\ VerdictFollowsHistory
  <2>1. Init => DOMAIN log = {} BY DEF Init
  <2> QED BY <2>1, BaseStart DEF VerdictFollowsHistory
<1>2. Base /\ VerdictFollowsHistory /\ [Next]_vars => (Base /\ VerdictFollowsHistory)'
  <2> SUFFICES ASSUME Base, VerdictFollowsHistory, [Next]_vars PROVE Base' /\ VerdictFollowsHistory'
    OBVIOUS
  <2>1. ASSUME NEW p \in Packets, FastDrop(p) \/ BlockAndDrop(p) \/ Forward(p)
        PROVE  Base' /\ VerdictFollowsHistory'
    <3> SUFFICES ASSUME NEW t, t = p.tuple, NEW m, m = Len(log) + 1 PROVE Base' /\ VerdictFollowsHistory'
      OBVIOUS
    <3>1. Base' BY <2>1, BaseStep
    <3>2. PICK r : NewEntry(m, t, r) BY <2>1, BaseStep
    <3>3. /\ DOMAIN log = 1..Len(log) /\ DOMAIN log' = 1..m
          /\ \A i \in 1..Len(log) : log'[i] = log[i] /\ Of(i)' = Of(i)
          /\ log'[m] = r /\ Of(m)' = t /\ Len(log) \in Nat
      BY <3>2, LogGrows DEF Base, NewEntry
    <3>4. ASSUME NEW i \in 1..Len(log)
          PROVE  log'[i].verdict = "drop" <=>
                   \/ isBlocked(rules_, SrcIP[Of(i)'], UNKNOWN, "")
                   \/ Tells(i)' # {} /\ isBlocked(rules_, SrcIP[Of(i)'], AppOfName[HostOf(i)'], HostOf(i)')
      <4>1. Tells(i)' = Tells(i) /\ (Tells(i) # {} => HostOf(i)' = HostOf(i))
        BY <3>2, HistoryStays DEF Base, NewEntry
      <4> QED BY <3>3, <4>1 DEF VerdictFollowsHistory
    <3>5. ASSUME NEW i, i = m
          PROVE  log'[i].verdict = "drop" <=>
                   \/ isBlocked(rules_, SrcIP[Of(i)'], UNKNOWN, "")
                   \/ Tells(i)' # {} /\ isBlocked(rules_, SrcIP[Of(i)'], AppOfName[HostOf(i)'], HostOf(i)')
      BY <3>2, <3>3, <3>5 DEF NewEntry, IPBlock
    <3>6. \A i \in DOMAIN log' : i \in 1..Len(log) \/ i = m BY <3>3
    <3> QED BY <3>1, <3>4, <3>5, <3>6 DEF VerdictFollowsHistory
  <2>2. ASSUME Idle PROVE Base' /\ VerdictFollowsHistory'
    <3>1. Base' /\ log' = log BY <2>2, BaseIdle DEF Idle, vars
    <3> QED BY <3>1, HistoryIdle DEF VerdictFollowsHistory
  <2>3. UNCHANGED vars => Idle BY DEF Idle
  <2> QED BY <2>1, <2>2, <2>3 DEF Next
<1>3. Base /\ VerdictFollowsHistory => VerdictFollowsHistory OBVIOUS
<1> QED BY <1>1, <1>2, <1>3, PTL DEF Spec

(* FastPath.DelayFollowsTheApp: a forwarded packet is delayed iff the       *)
(* application its flow is known for is throttled, by the port hint at      *)
(* first and by the first hostname then.                                    *)
THEOREM DelaysFollow == Spec => []DelayFollowsTheApp
<1>1. Init => Base /\ DelayFollowsTheApp
  <2>1. Init => DOMAIN log = {} BY DEF Init
  <2> QED BY <2>1, BaseStart DEF DelayFollowsTheApp
<1>2. Base /\ DelayFollowsTheApp /\ [Next]_vars => (Base /\ DelayFollowsTheApp)'
  <2> SUFFICES ASSUME Base, DelayFollowsTheApp, [Next]_vars PROVE Base' /\ DelayFollowsTheApp'
    OBVIOUS
  <2>1. ASSUME NEW p \in Packets, FastDrop(p) \/ BlockAndDrop(p) \/ Forward(p)
        PROVE  Base' /\ DelayFollowsTheApp'
    <3> SUFFICES ASSUME NEW t, t = p.tuple, NEW m, m = Len(log) + 1 PROVE Base' /\ DelayFollowsTheApp'
      OBVIOUS
    <3>1. Base' BY <2>1, BaseStep
    <3>2. PICK r : NewEntry(m, t, r) BY <2>1, BaseStep
    <3>3. /\ DOMAIN log = 1..Len(log) /\ DOMAIN log' = 1..m
          /\ \A i \in 1..Len(log) : log'[i] = log[i]
          /\ log'[m] = r /\ Len(log) \in Nat
      BY <3>2, LogGrows DEF Base, NewEntry
    <3>4. ASSUME NEW i \in 1..Len(log)
          PROVE  log'[i].verdict = "forward" => (log'[i].delayed <=> isThrottled(rules_, AppAt(i)'))
      <4>1. AppAt(i)' = AppAt(i) BY <3>2, HistoryStays DEF Base, NewEntry
      <4> QED BY <3>3, <4>1 DEF DelayFollowsTheApp
    <3>5. ASSUME NEW i, i = m
          PROVE  log'[i].verdict = "forward" => (log'[i].delayed <=> isThrottled(rules_, AppAt(i)'))
      BY <3>2, <3>3, <3>5 DEF NewEntry
    <3>6. \A i \in DOMAIN log' : i \in 1..Len(log) \/ i = m BY <3>3
    <3> QED BY <3>1, <3>4, <3>5, <3>6 DEF DelayFollowsTheApp
  <2>2. ASSUME Idle PROVE Base' /\ DelayFollowsTheApp'
    <3>1. Base' /\ log' = log BY <2>2, BaseIdle DEF Idle, vars
    <3> QED BY <3>1, HistoryIdle DEF DelayFollowsTheApp
  <2>3. UNCHANGED vars => Idle BY DEF Idle
  <2> QED BY <2>1, <2>2, <2>3 DEF Next
<1>3. Base /\ DelayFollowsTheApp => DelayFollowsTheApp OBVIOUS
<1> QED BY <1>1, <1>2, <1>3, PTL DEF Spec

-----------------------------------------------------------------------------
(* The counters.                                                            *)
Flagged   == {i \in DOMAIN log : log[i].flagged}
Forgotten == {i \in DOMAIN log : Forgot(i)}
Showing   == {i \in DOMAIN log : Tells(i) # {} /\ ~IPBlock(Of(i))}
Firsts    == {Min(Tells(i)) : i \in Showing}

Tallies ==
  /\ forwarded + dropped = Len(log)
  /\ anomalies = Cardinality(Flagged)
  /\ evictions + Len(flow_table) = Cardinality(Forgotten)
  /\ classified = Cardinality(Firsts)

LEMMA TalliesAre == CountersAddUp <=> Tallies
BY DEF CountersAddUp, Tallies, Flagged, Forgotten, Showing, Firsts, IPBlock

LEMMA OneMore ==
  ASSUME NEW n \in Nat, NEW S \in SUBSET (1..n), NEW b \in BOOLEAN, NEW T,
         T = IF b THEN S \cup {n + 1} ELSE S
  PROVE  Cardinality(T) = Cardinality(S) + One(b)
<1>1. IsFiniteSet(S)
  <2>1. IsFiniteSet(1..n) BY FS_Interval
  <2> QED BY <2>1, FS_Subset
<1>2. Cardinality(S) \in Nat BY <1>1, FS_CardinalityType
<1>3. n + 1 \notin S
  <2>1. n + 1 \notin 1..n OBVIOUS
  <2> QED BY <2>1
<1>4. Cardinality(S \cup {n + 1}) = Cardinality(S) + 1 BY <1>1, <1>3, FS_AddElement
<1> QED BY <1>2, <1>4 DEF One

LEMMA FirstsAre == IsLog => Firsts \subseteq 1..Len(log)
<1> SUFFICES ASSUME IsLog, NEW i \in Showing PROVE Min(Tells(i)) \in 1..Len(log)
  BY DEF Firsts
<1>1. Len(log) \in Nat /\ i \in 1..Len(log) /\ Tells(i) # {}
  BY LenProperties DEF IsLog, Showing
<1>2. /\ Min(Tells(i)) \in Tells(i) /\ Tells(i) \subseteq Earlier(i) \cup {i}
      /\ Earlier(i) \subseteq 1..(i - 1)
  BY <1>1, HistoryFacts DEF HistoryIs
<1> QED BY <1>1, <1>2

LEMMA FirstsGrow ==
  ASSUME Base, NEW m, m = Len(log) + 1, NEW t, NEW r, NewEntry(m, t, r)
  PROVE  Firsts' = IF Fresh(t, r.packet.host) THEN Firsts \cup {m} ELSE Firsts
<1> SUFFICES ASSUME NEW a, a = LastOf(t), NEW L, L = Len(log)
             PROVE  Firsts' = IF Fresh(t, r.packet.host) THEN Firsts \cup {m} ELSE Firsts
  OBVIOUS
<1>1. /\ IsLog /\ Ordered /\ r \in Logged /\ log' = Append(log, r) /\ t = r.packet.tuple BY DEF Base, NewEntry
<1>2. /\ DOMAIN log = 1..L /\ DOMAIN log' = 1..m /\ L \in Nat /\ m = L + 1
      /\ \A i \in 1..L : Of(i)' = Of(i)
      /\ Of(m)' = t
  BY <1>1, LogGrows
<1>3. \A i \in 1..L : Tells(i)' = Tells(i) BY <1>1, HistoryStays
<1>4. /\ Tells(m)' # {} <=> Told(t) \/ r.packet.host \in Names
      /\ Tells(m)' # {} => Min(Tells(m)') = IF Told(t) THEN Min(Tells(a)) ELSE m
  BY <1>1, NewHost
<1>5. Showing' = Showing \cup (IF Tells(m)' # {} /\ ~IPBlock(t) THEN {m} ELSE {})
  <2>1. Showing' = {i \in 1..m : Tells(i)' # {} /\ ~IPBlock(Of(i)')} BY <1>2 DEF Showing
  <2>2. Showing = {i \in 1..L : Tells(i) # {} /\ ~IPBlock(Of(i))} BY <1>2 DEF Showing
  <2>3. \A i : i \in 1..m <=> i \in 1..L \/ i = m BY <1>2
  <2> QED BY <1>2, <1>3, <2>1, <2>2, <2>3
<1>6. \A i \in Showing : Min(Tells(i)') = Min(Tells(i)) BY <1>2, <1>3 DEF Showing
<1>7. Firsts' = Firsts \cup (IF Tells(m)' # {} /\ ~IPBlock(t) THEN {Min(Tells(m)')} ELSE {})
  <2>1. Firsts' = {Min(Tells(i)') : i \in Showing'} BY DEF Firsts
  <2>2. Firsts = {Min(Tells(i)) : i \in Showing} BY DEF Firsts
  <2> QED BY <1>5, <1>6, <2>1, <2>2
<1>8. CASE Told(t)
  <2>1. ~Fresh(t, r.packet.host) BY <1>8 DEF Fresh
  <2>2. Met(t) /\ Tells(a) # {} BY <1>1, <1>8 DEF Told, Held, Ordered
  <2>3. a \in 1..L /\ Of(a) = t BY <1>1, <2>2, LastFacts DEF LastIs
  <2>4. ~IPBlock(t) => Min(Tells(a)) \in Firsts BY <1>2, <2>2, <2>3 DEF Firsts, Showing
  <2> QED BY <1>4, <1>7, <1>8, <2>1, <2>4
<1>9. CASE ~Told(t) BY <1>4, <1>7, <1>9 DEF Fresh
<1> QED BY <1>8, <1>9

LEMMA TalliesStep ==
  ASSUME Base, Base', Tallies, NEW m, m = Len(log) + 1, NEW t, NEW r, NewEntry(m, t, r)
  PROVE  Tallies'
<1> SUFFICES ASSUME NEW L, L = Len(log) PROVE Tallies'
  OBVIOUS
<1>1. /\ IsLog /\ Ordered /\ CountersAreNumbers
      /\ r \in Logged /\ log' = Append(log, r) /\ t = r.packet.tuple
      /\ CountsOf(t, r)
      /\ Len(flow_table)' = Len(flow_table) + One(~Held(t) /\ ~(Len(flow_table) >= Table!Bound(max_flows)))
  BY DEF Base, NewEntry
<1>2. /\ DOMAIN log = 1..L /\ DOMAIN log' = 1..m /\ L \in Nat /\ m = L + 1 /\ Len(log') = L + 1
      /\ \A i \in 1..L : log'[i] = log[i]
      /\ log'[m] = r
  BY <1>1, LogGrows
<1>3. \A i : i \in 1..m <=> i \in 1..L \/ i = m BY <1>2
<1>4. (forwarded + dropped = Len(log))'
  <2>1. r.verdict \in {"drop", "forward"} BY <1>1 DEF Logged
  <2> QED BY <1>1, <1>2, <2>1 DEF CountsOf, One, CountersAreNumbers, Tallies
<1>5. (anomalies = Cardinality(Flagged))'
  <2>1. Flagged' = IF r.flagged THEN Flagged \cup {m} ELSE Flagged BY <1>2, <1>3 DEF Flagged
  <2>2. Flagged \in SUBSET (1..L) BY <1>2 DEF Flagged
  <2>3. r.flagged \in BOOLEAN BY <1>1 DEF Logged
  <2>4. Cardinality(Flagged') = Cardinality(Flagged) + One(r.flagged) BY <1>2, <2>1, <2>2, <2>3, OneMore
  <2> QED BY <1>1, <2>4 DEF CountsOf, Tallies
<1>6. (evictions + Len(flow_table) = Cardinality(Forgotten))'
  <2>1. Forgot(m)' <=> ~Held(t) BY <1>1, NewForgot
  <2>2. \A i \in 1..L : Forgot(i)' <=> Forgot(i) BY <1>1, HistoryStays
  <2>3. Forgotten' = IF ~Held(t) THEN Forgotten \cup {m} ELSE Forgotten
    <3>1. Forgotten' = {i \in 1..m : Forgot(i)'} BY <1>2 DEF Forgotten
    <3>2. Forgotten = {i \in 1..L : Forgot(i)} BY <1>2 DEF Forgotten
    <3> QED BY <1>3, <2>1, <2>2, <3>1, <3>2
  <2>4. Forgotten \in SUBSET (1..L) BY <1>2 DEF Forgotten
  <2>5. Cardinality(Forgotten') = Cardinality(Forgotten) + One(~Held(t)) BY <1>2, <2>3, <2>4, OneMore
  <2>6. Len(flow_table) \in Nat /\ evictions \in Nat BY <1>1 DEF Ordered, IsSeq, CountersAreNumbers
  <2>7. evictions' + Len(flow_table)' = evictions + Len(flow_table) + One(~Held(t))
    <3> SUFFICES ASSUME NEW held \in BOOLEAN, held <=> Held(t),
                        NEW full \in BOOLEAN, full <=> Len(flow_table) >= Table!Bound(max_flows)
                 PROVE  evictions' + Len(flow_table)' = evictions + Len(flow_table) + One(~Held(t))
      OBVIOUS
    <3>1. /\ evictions' = evictions + (IF ~held /\ full THEN 1 ELSE 0)
          /\ Len(flow_table)' = Len(flow_table) + (IF ~held /\ ~full THEN 1 ELSE 0)
      BY <1>1 DEF CountsOf, One
    <3>2. evictions' + Len(flow_table)' = evictions + Len(flow_table) + (IF ~held THEN 1 ELSE 0)
      <4> SUFFICES ASSUME NEW x \in Nat, x = evictions, NEW y \in Nat, y = Len(flow_table)
                   PROVE evictions' + Len(flow_table)' = x + y + (IF ~held THEN 1 ELSE 0)
        BY <2>6
      <4>1. CASE held BY <3>1, <4>1
      <4>2. CASE ~held /\ full BY <3>1, <4>2
      <4>3. CASE ~held /\ ~full BY <3>1, <4>3
      <4> QED BY <4>1, <4>2, <4>3
    <3> QED BY <3>2 DEF One
  <2> QED BY <2>5, <2>7 DEF Tallies
<1>7. (classified = Cardinality(Firsts))'
  <2>1. PICK b \in BOOLEAN : b <=> Fresh(t, r.packet.host) OBVIOUS
  <2>2. Firsts' = IF b THEN Firsts \cup {m} ELSE Firsts BY <2>1, FirstsGrow
  <2>3. Firsts \in SUBSET (1..L) BY <1>1, FirstsAre
  <2>4. Cardinality(Firsts') = Cardinality(Firsts) + One(b) BY <1>2, <2>2, <2>3, OneMore
  <2> QED BY <1>1, <2>1, <2>4 DEF CountsOf, Tallies, One
<1> QED BY <1>4, <1>5, <1>6, <1>7 DEF Tallies

(* FastPath.CountersAddUp: every packet is forwarded or dropped, anomalies  *)
(* are the packets flagged, an entry is in the table or evicted for every   *)
(* time a flow had to be opened, and a flow is counted as classified by     *)
(* each packet that shows a remembered flow's first hostname.               *)
THEOREM CountersAreRight == Spec => []CountersAddUp
<1>1. Init => Base /\ Tallies
  <2> SUFFICES ASSUME Init PROVE Tallies
    BY BaseStart
  <2>1. /\ log = <<>> /\ flow_table = <<>> /\ evictions = 0 /\ forwarded = 0 /\ dropped = 0
        /\ classified = 0 /\ anomalies = 0
    BY DEF Init, Table!TableInit
  <2>2. Flagged = {} /\ Forgotten = {} /\ Showing = {} BY <2>1 DEF Flagged, Forgotten, Showing
  <2>3. Firsts = {} BY <2>2 DEF Firsts
  <2>4. Cardinality({}) = 0 BY FS_EmptySet
  <2>5. Len(log) = 0 /\ Len(flow_table) = 0 BY <2>1
  <2> QED BY <2>1, <2>2, <2>3, <2>4, <2>5 DEF Tallies
<1>2. Base /\ Tallies /\ [Next]_vars => (Base /\ Tallies)'
  <2> SUFFICES ASSUME Base, Tallies, [Next]_vars PROVE Base' /\ Tallies'
    OBVIOUS
  <2>1. ASSUME NEW p \in Packets, FastDrop(p) \/ BlockAndDrop(p) \/ Forward(p)
        PROVE  Base' /\ Tallies'
    <3> SUFFICES ASSUME NEW t, t = p.tuple, NEW m, m = Len(log) + 1 PROVE Base' /\ Tallies'
      OBVIOUS
    <3>1. Base' BY <2>1, BaseStep
    <3>2. PICK r : NewEntry(m, t, r) BY <2>1, BaseStep
    <3> QED BY <3>1, <3>2, TalliesStep
  <2>2. ASSUME Idle PROVE Base' /\ Tallies'
    <3>1. Base' BY <2>2, BaseIdle
    <3>2. log' = log BY <2>2 DEF Idle, vars
    <3>3. \A i : Of(i)' = Of(i) /\ Tells(i)' = Tells(i) /\ (Forgot(i)' <=> Forgot(i)) BY <3>2, HistoryIdle
    <3>4. Flagged' = Flagged /\ Forgotten' = Forgotten /\ Showing' = Showing
      BY <3>2, <3>3 DEF Flagged, Forgotten, Showing
    <3>5. Firsts' = Firsts BY <3>3, <3>4 DEF Firsts
    <3> QED BY <2>2, <3>1, <3>4, <3>5 DEF Tallies, Idle, vars
  <2>3. UNCHANGED vars => Idle BY DEF Idle
  <2> QED BY <2>1, <2>2, <2>3 DEF Next
<1>3. Base /\ Tallies => CountersAddUp BY TalliesAre
<1> QED BY <1>1, <1>2, <1>3, PTL DEF Spec

-----------------------------------------------------------------------------
(* Whole numbers: a quotient reaches k when the dividend reaches k times   *)
(* the divisor.                                                            *)
LEMMA Monotone ==
  ASSUME NEW d \in Nat, NEW a \in Int, NEW b \in Int, a <= b
  PROVE  d * a <= d * b
<1>1. b - a \in Nat /\ d * (b - a) >= 0 OBVIOUS
<1>2. d * (b - a) = d * b - d * a OBVIOUS
<1> QED BY <1>1, <1>2

LEMMA QuotientReaches ==
  ASSUME NEW n \in Int, NEW d \in Nat \ {0}, NEW k \in Int
  PROVE  n \div d \in Int /\ (n \div d >= k <=> n >= d * k)
<1> DEFINE q == n \div d
           r == n % d
<1>1. q \in Int /\ r \in 0..(d - 1) /\ n = d * q + r OBVIOUS
<1> HIDE DEF q, r
<1> DEFINE x == d * q
           y == d * k
<1>2. x \in Int /\ y \in Int BY <1>1
<1>3. q >= k => x >= y BY <1>1, Monotone
<1>4. ~(q >= k) => x + d <= y
  <2> SUFFICES ASSUME ~(q >= k) PROVE x + d <= y
    OBVIOUS
  <2>1. q + 1 <= k /\ q + 1 \in Int BY <1>1
  <2>2. d * (q + 1) <= d * k BY <2>1, Monotone
  <2>3. d * (q + 1) = d * q + d BY <1>1
  <2> QED BY <2>2, <2>3
<1> HIDE DEF x, y
<1>5. n = x + r /\ r \in Int /\ 0 <= r /\ r <= d - 1 BY <1>1 DEF x
<1>6. q >= k <=> n >= y BY <1>1, <1>2, <1>3, <1>4, <1>5
<1> QED BY <1>1, <1>6 DEF q, y

(* The first of the greatest numbers. *)
LEMMA BestExists ==
  ASSUME NEW n \in Nat \ {0}, NEW s \in [1..n -> Int]
  PROVE  \E i \in 1..n : \A j \in 1..n : s[j] < s[i] \/ (s[j] = s[i] /\ i <= j)
<1> DEFINE S == {m \in Nat : m + 1 <= n => \E i \in 1..(m + 1) : \A j \in 1..(m + 1) :
                               s[j] < s[i] \/ (s[j] = s[i] /\ i <= j)}
<1>1. 0 \in S OBVIOUS
<1>2. ASSUME NEW m \in Nat, m \in S PROVE m + 1 \in S
  <2> SUFFICES ASSUME (m + 1) + 1 <= n
               PROVE  \E i \in 1..((m + 1) + 1) : \A j \in 1..((m + 1) + 1) :
                        s[j] < s[i] \/ (s[j] = s[i] /\ i <= j)
    OBVIOUS
  <2>1. PICK i \in 1..(m + 1) : \A j \in 1..(m + 1) : s[j] < s[i] \/ (s[j] = s[i] /\ i <= j)
    BY <1>2
  <2> DEFINE l == (m + 1) + 1
  <2>2. l \in 1..n /\ i \in 1..n /\ i < l /\ i \in Nat /\ \A j \in 1..l : j # l => j \in 1..(m + 1)
    OBVIOUS
  <2>3. s[l] \in Int /\ s[i] \in Int /\ \A j \in 1..l : s[j] \in Int
    BY <2>2
  <2> HIDE DEF l
  <2>4. CASE s[l] <= s[i]
    <3>1. \A j \in 1..l : s[j] < s[i] \/ (s[j] = s[i] /\ i <= j)
      <4> TAKE j \in 1..l
      <4>1. CASE j = l BY <2>2, <2>3, <2>4, <4>1
      <4>2. CASE j # l BY <2>1, <2>2, <4>2
      <4> QED BY <4>1, <4>2
    <3>2. i \in 1..l BY <2>2
    <3> QED BY <3>1, <3>2 DEF l
  <2>5. CASE ~(s[l] <= s[i])
    <3>1. \A j \in 1..l : s[j] < s[l] \/ (s[j] = s[l] /\ l <= j)
      <4> TAKE j \in 1..l
      <4>1. CASE j = l BY <2>2, <4>1
      <4>2. CASE j # l
        <5>1. s[j] <= s[i] BY <2>1, <2>2, <2>3, <4>2
        <5> QED BY <2>3, <2>5, <5>1
      <4> QED BY <4>1, <4>2
    <3>2. l \in 1..l BY <2>2
    <3> QED BY <3>1, <3>2 DEF l
  <2> QED BY <2>4, <2>5
<1> HIDE DEF S
<1>4. n - 1 \in Nat /\ (n - 1) + 1 = n /\ n <= n OBVIOUS
<1>3. n - 1 \in S
  <2>1. Nat \subseteq S BY <1>1, <1>2, Induction
  <2> QED BY <1>4, <2>1
<1> QED BY <1>3, <1>4 DEF S

(* What a flow is made of. *)
LEMMA FlowMeasures ==
  ASSUME NEW f, WellFormed(f)
  PROVE  /\ f.packet_count \in Nat /\ f.byte_count \in Nat /\ f.squares \in Nat /\ f.entropy \in Nat
         /\ f.syn \in 0..f.packet_count /\ f.fin \in 0..f.packet_count /\ f.rst \in 0..f.packet_count
BY DEF WellFormed

LEMMA Detectors ==
  ASSUME NEW f, WellFormed(f), f.packet_count >= 2
  PROVE  LET n == f.packet_count IN
         /\ portScan(f) \in 0..1000 /\ ddos(f) \in 0..1000 /\ exfiltration(f) \in 0..1000
         /\ highEntropy(f) \in 0..1000 /\ FlagRatio(f) \in 0..1000 /\ ChristmasTree(f) \in 0..1000
         /\ portScan(f) >= 700 <=>
              n \in 2..SCAN_MAX_PKTS /\ f.syn > 0 /\ f.fin = 0 /\ f.byte_count < 128 * n
         /\ ddos(f) >= 700 <=> n >= DDOS_MIN_PACKETS /\ 2 * ScaledVariance(f) <= 15 * n * (n - 1)
         /\ exfiltration(f) >= 700 <=> f.byte_count >= EXFIL_MIN_BYTES /\ 10 * f.byte_count >= 28672 * n
         /\ highEntropy(f) >= 700 <=> f.app_type \notin TlsApps /\ f.entropy >= 7700
         /\ FlagRatio(f) >= 700 <=> n >= 3 /\ (5 * f.syn > 4 * n \/ 5 * f.rst > 4 * n)
         /\ ChristmasTree(f) >= 700 <=> n >= 3 /\ f.syn > 0 /\ f.fin > 0 /\ f.rst > 0
<1> DEFINE n == f.packet_count
           b == f.byte_count
           e == f.entropy
           syn == f.syn
           fin == f.fin
           rst == f.rst
           V == ScaledVariance(f)
           P == Pairs(f)
<1>1. /\ n \in Nat /\ n >= 2 /\ b \in Nat /\ e \in Nat
      /\ syn \in 0..n /\ fin \in 0..n /\ rst \in 0..n
  BY FlowMeasures
<1>2. V \in Int /\ (n >= DDOS_MIN_PACKETS => V >= 0)
  <2>3. f.packet_count \in Nat /\ f.squares \in Nat /\ f.byte_count \in Nat BY FlowMeasures
  <2>1. V \in Int BY <2>3 DEF ScaledVariance
  <2> HIDE DEF V, n
  <2>2. n >= DDOS_MIN_PACKETS => V >= 0 BY DEF WellFormed, V, n
  <2> QED BY <2>1, <2>2
<1>3. P = n * (n - 1) BY DEF Pairs
<1> HIDE DEF n, b, e, syn, fin, rst, V, P
<1>4. P \in Nat \ {0} /\ 15 * n * (n - 1) = 15 * P
  <2>1. n - 1 \in Nat /\ n - 1 >= 1 BY <1>1
  <2>2. n * (n - 1) >= n * 1 BY <1>1, <2>1, Monotone
  <2>3. n * (n - 1) \in Int BY <1>1, <2>1
  <2>4. 15 * n * (n - 1) = 15 * (n * (n - 1)) BY <1>1, <2>1
  <2>5. n * 1 = n BY <1>1
  <2> QED BY <1>1, <1>3, <2>2, <2>3, <2>4, <2>5
<1>5. SCAN_MAX_PKTS \in Nat /\ DDOS_MIN_PACKETS \in Nat /\ EXFIL_MIN_BYTES \in Nat
  BY FlowAnalyzerAssumption
<1>6. /\ portScan(f) \in 0..1000
      /\ portScan(f) >= 700 <=> n \in 2..SCAN_MAX_PKTS /\ syn > 0 /\ fin = 0 /\ b < 128 * n
  <2>1. portScan(f) = IF n <= SCAN_MAX_PKTS /\ syn > 0 /\ fin = 0
                      THEN IF b < 128 * n THEN 850 ELSE 500 ELSE 0
    BY DEF portScan, n, syn, fin, b
  <2> QED BY <1>1, <1>5, <2>1
<1>7. /\ ddos(f) \in 0..1000
      /\ ddos(f) >= 700 <=> n >= DDOS_MIN_PACKETS /\ 2 * V <= 15 * P
  <2> DEFINE x == 40 * V + P - 1
             q == x \div P
  <2>1. ddos(f) = IF n >= DDOS_MIN_PACKETS /\ V < 10 * P THEN 1000 - q ELSE 0 BY DEF ddos, V, P, n
  <2>2. x \in Int BY <1>2, <1>4
  <2>3. q \in Int /\ (q >= 301 <=> x >= P * 301) /\ (q >= 401 <=> x >= P * 401) /\ (q >= 0 <=> x >= P * 0)
    <3> HIDE DEF x
    <3> QED BY <1>4, <2>2, QuotientReaches
  <2> HIDE DEF q
  <2>4. n >= DDOS_MIN_PACKETS => q >= 0 BY <1>2, <1>4, <2>3
  <2>5. V < 10 * P => q <= 400 BY <1>2, <1>4, <2>3
  <2>6. q >= 301 <=> ~(2 * V <= 15 * P) BY <1>2, <1>4, <2>3
  <2>7. 2 * V <= 15 * P => V < 10 * P BY <1>2, <1>4
  <2>8. q \in Int BY <2>3
  <2> QED BY <2>1, <2>4, <2>5, <2>6, <2>7, <2>8
<1>8. /\ exfiltration(f) \in 0..1000
      /\ exfiltration(f) >= 700 <=> b >= EXFIL_MIN_BYTES /\ 10 * b >= 28672 * n
  <2> DEFINE z == 2048 * n
             x == 500 * (b - z)
             q == x \div z
  <2>1. exfiltration(f) = IF b >= EXFIL_MIN_BYTES /\ b > z THEN AtMost1000(500 + q) ELSE 0
    BY DEF exfiltration, b, n
  <2>2. x \in Int /\ z \in Nat \ {0} BY <1>1
  <2>3. q \in Int /\ (q >= 200 <=> x >= z * 200) /\ (q >= 0 <=> x >= z * 0)
    <3> HIDE DEF x, z
    <3> QED BY <2>2, QuotientReaches
  <2> HIDE DEF q
  <2>4. b > z => q >= 0 BY <1>1, <2>3
  <2>5. q >= 200 <=> 10 * b >= 28672 * n BY <1>1, <2>3
  <2>6. 10 * b >= 28672 * n => b > z BY <1>1
  <2>7. q \in Int BY <2>3
  <2> HIDE DEF z, x
  <2>8. b > z => /\ AtMost1000(500 + q) \in 0..1000
                 /\ AtMost1000(500 + q) >= 700 <=> 10 * b >= 28672 * n
    BY <2>4, <2>5, <2>7 DEF AtMost1000
  <2> QED BY <2>1, <2>6, <2>8
<1>9. /\ highEntropy(f) \in 0..1000
      /\ highEntropy(f) >= 700 <=> f.app_type \notin TlsApps /\ e >= 7700
  <2> DEFINE tls == f.app_type \in TlsApps
  <2>1. highEntropy(f) = IF ~tls /\ e > 7500 THEN AtMost1000(500 + e - 7500) ELSE 0
    BY DEF highEntropy, e
  <2> HIDE DEF tls
  <2>2. e > 7500 => /\ AtMost1000(500 + e - 7500) \in 0..1000
                    /\ AtMost1000(500 + e - 7500) >= 700 <=> e >= 7700
    BY <1>1 DEF AtMost1000
  <2>3. e >= 7700 => e > 7500 BY <1>1
  <2>4. CASE ~tls /\ e > 7500
    <3>1. highEntropy(f) = AtMost1000(500 + e - 7500) BY <2>1, <2>4
    <3> QED BY <2>2, <2>4, <3>1 DEF tls
  <2>5. CASE ~(~tls /\ e > 7500)
    <3>1. highEntropy(f) = 0 /\ ~(~tls /\ e >= 7700) BY <2>1, <2>3, <2>5
    <3>2. 0 \in 0..1000 /\ ~(0 >= 700) OBVIOUS
    <3> QED BY <3>1, <3>2 DEF tls
  <2> QED BY <2>4, <2>5
<1>10. /\ FlagRatio(f) \in 0..1000
       /\ FlagRatio(f) >= 700 <=> n >= 3 /\ (5 * syn > 4 * n \/ 5 * rst > 4 * n)
  <2> DEFINE most == IF syn > rst THEN syn ELSE rst
             x == 1000 * most
             q == x \div n
  <2>1. FlagRatio(f) = IF n >= 3 /\ 10 * most > 8 * n THEN q ELSE 0 BY DEF FlagRatio, n, syn, rst
  <2>2. most \in 0..n /\ (10 * most > 8 * n <=> 5 * syn > 4 * n \/ 5 * rst > 4 * n) BY <1>1
  <2> HIDE DEF most
  <2>3. x \in Int /\ n \in Nat \ {0} BY <1>1, <2>2
  <2>4. q \in Int /\ (q >= 700 <=> x >= n * 700) /\ (q >= 1001 <=> x >= n * 1001) /\ (q >= 0 <=> x >= n * 0)
    <3> HIDE DEF x
    <3> QED BY <2>3, QuotientReaches
  <2> HIDE DEF q
  <2>5. q \in Int /\ q <= 1000 /\ q >= 0 BY <2>2, <2>3, <2>4
  <2>6. 10 * most > 8 * n => q >= 700 BY <2>2, <2>3, <2>4
  <2>7. CASE n >= 3 /\ 10 * most > 8 * n
    <3>1. FlagRatio(f) = q BY <2>1, <2>7
    <3> QED BY <2>2, <2>5, <2>6, <2>7, <3>1
  <2>8. CASE ~(n >= 3 /\ 10 * most > 8 * n)
    <3>1. FlagRatio(f) = 0 BY <2>1, <2>8
    <3> QED BY <2>2, <2>8, <3>1
  <2> QED BY <2>7, <2>8
<1>11. /\ ChristmasTree(f) \in 0..1000
       /\ ChristmasTree(f) >= 700 <=> n >= 3 /\ syn > 0 /\ fin > 0 /\ rst > 0
  <2>1. ChristmasTree(f) = IF n >= 3 /\ syn > 0 /\ fin > 0 /\ rst > 0 THEN 900 ELSE 0
    BY DEF ChristmasTree, n, syn, fin, rst
  <2> QED BY <2>1
<1>12. 2 * V <= 15 * P <=> 2 * V <= 15 * n * (n - 1) BY <1>4
<1> QED BY <1>6, <1>7, <1>8, <1>9, <1>10, <1>11, <1>12 DEF n, b, e, syn, fin, rst, V

(* Whatever the sizes, flags and entropy of a flow, and whatever the three *)
(* thresholds that are configured: score() flags the suspicious ones only, *)
(* and all of them.                                                        *)
THEOREM Judgement ==
  ASSUME NEW f, WellFormed(f)
  PROVE  JudgedRight(f)
<1> DEFINE v == Verdicts(f)
           IsBest(i) == \A j \in DOMAIN v : v[j].score < v[i].score \/ (v[j].score = v[i].score /\ i <= j)
           best == CHOOSE i \in DOMAIN v : IsBest(i)
<1>1. score(f) = IF f.packet_count < 2 \/ v[best].score = 0 THEN [type |-> "NONE", score |-> 0] ELSE v[best]
  BY DEF score
<1> HIDE DEF IsBest, best
<1>2. CASE f.packet_count < 2
  <2>1. score(f) = [type |-> "NONE", score |-> 0] BY <1>1, <1>2
  <2>2. ~Suspicious(f)
    <3> DEFINE n == f.packet_count
    <3>1. n \in Nat BY FlowMeasures
    <3>2. n < 2 BY <1>2
    <3>3. Suspicious(f) => n \in 2..SCAN_MAX_PKTS \/ n >= DDOS_MIN_PACKETS \/ n >= 2 \/ n >= 3
      BY DEF Suspicious
    <3> HIDE DEF n
    <3>4. DDOS_MIN_PACKETS \in Nat /\ DDOS_MIN_PACKETS # 0 /\ DDOS_MIN_PACKETS # 1 /\ SCAN_MAX_PKTS \in Nat
      BY FlowAnalyzerAssumption
    <3> QED BY <3>1, <3>2, <3>3, <3>4
  <2> QED BY <2>1, <2>2 DEF JudgedRight, FLAG_THRESHOLD
<1>3. CASE ~(f.packet_count < 2)
  <2>1. f.packet_count >= 2 BY <1>3 DEF WellFormed
  <2> DEFINE s == [i \in 1..6 |-> v[i].score]
  <2>2. /\ DOMAIN v = 1..6
        /\ v[1].score = portScan(f) /\ v[2].score = ddos(f) /\ v[3].score = exfiltration(f)
        /\ v[4].score = highEntropy(f) /\ v[5].score = FlagRatio(f) /\ v[6].score = ChristmasTree(f)
        /\ \A i \in 1..6 : v[i].type # "NONE"
    BY DEF Verdicts
  <2>3. /\ \A i \in 1..6 : s[i] = v[i].score
        /\ s[1] = portScan(f) /\ s[2] = ddos(f) /\ s[3] = exfiltration(f)
        /\ s[4] = highEntropy(f) /\ s[5] = FlagRatio(f) /\ s[6] = ChristmasTree(f)
    BY <2>2
  <2> HIDE DEF v
  <2>12. s = [i \in 1..6 |-> s[i]] OBVIOUS
  <2> HIDE DEF s
  <2> DEFINE R == 0..1000
  <2>4. \A i \in 1..6 : s[i] \in R
    <3>1. s[1] \in 0..1000 /\ s[2] \in 0..1000 /\ s[3] \in 0..1000
          /\ s[4] \in 0..1000 /\ s[5] \in 0..1000 /\ s[6] \in 0..1000
      BY <2>1, <2>3, Detectors
    <3>2. \A i \in 1..6 : i = 1 \/ i = 2 \/ i = 3 \/ i = 4 \/ i = 5 \/ i = 6 OBVIOUS
    <3> TAKE i \in 1..6
    <3> QED BY <3>1, <3>2
  <2>13. \A i \in 1..6 : s[i] \in Int
    <3>1. \A x \in R : x \in Int OBVIOUS
    <3> HIDE DEF R
    <3> QED BY <2>4, <3>1
  <2>5. s \in [1..6 -> Int]
    <3>1. \A i \in 1..6 : s[i] \in Int BY <2>13
    <3> QED BY <2>12, <3>1
  <2>6. best \in 1..6 /\ IsBest(best)
    <3>1. PICK i \in 1..6 : \A j \in 1..6 : s[j] < s[i] \/ (s[j] = s[i] /\ i <= j) BY <2>5, BestExists
    <3>2. i \in DOMAIN v /\ IsBest(i) BY <2>2, <2>3, <3>1 DEF IsBest
    <3> QED BY <2>2, <3>2 DEF best
  <2>7. best \in 1..6 /\ \A j \in 1..6 : s[j] <= s[best]
    <3>1. \A j \in 1..6 : s[j] < s[best] \/ s[j] = s[best] BY <2>2, <2>3, <2>6 DEF IsBest
    <3>2. best \in 1..6 /\ \A j \in 1..6 : s[j] \in Int BY <2>6, <2>13
    <3> QED BY <3>1, <3>2
  <2>8. /\ s[best] = v[best].score /\ v[best].type # "NONE" /\ s[best] \in 0..1000
    <3>1. best \in 1..6 BY <2>7
    <3>2. s[best] = v[best].score /\ v[best].type # "NONE" BY <2>2, <2>3, <3>1
    <3>3. s[best] \in R
      <4> HIDE DEF R
      <4> QED BY <2>4, <3>1
    <3> QED BY <3>2, <3>3
  <2>9. score(f).score = s[best] /\ (score(f).type = "NONE" <=> s[best] = 0)
    <3>1. CASE s[best] = 0 BY <1>1, <2>8, <3>1
    <3>2. CASE s[best] # 0
      <4>1. score(f) = v[best] BY <1>1, <1>3, <2>8, <3>2
      <4> QED BY <2>8, <3>2, <4>1
    <3> QED BY <3>1, <3>2
  <2>10. s[best] >= 700 <=> s[1] >= 700 \/ s[2] >= 700 \/ s[3] >= 700 \/ s[4] >= 700 \/ s[5] >= 700 \/ s[6] >= 700
    <3>1. (\E j \in 1..6 : s[j] >= 700) => s[best] >= 700
      <4>1. best \in 1..6 /\ \A j \in 1..6 : s[j] \in Int BY <2>7, <2>13
      <4> QED BY <2>7, <4>1
    <3>2. s[best] >= 700 => \E j \in 1..6 : s[j] >= 700 BY <2>7
    <3>3. (\E j \in 1..6 : s[j] >= 700) <=>
            s[1] >= 700 \/ s[2] >= 700 \/ s[3] >= 700 \/ s[4] >= 700 \/ s[5] >= 700 \/ s[6] >= 700
      OBVIOUS
    <3> QED BY <3>1, <3>2, <3>3
  <2>11. s[best] >= 700 <=> Suspicious(f)
    <3> DEFINE n == f.packet_count
    <3>1. n \in Nat /\ DDOS_MIN_PACKETS \in Nat BY FlowMeasures, FlowAnalyzerAssumption
    <3>2. /\ portScan(f) >= 700 <=>
               n \in 2..SCAN_MAX_PKTS /\ f.syn > 0 /\ f.fin = 0 /\ f.byte_count < 128 * n
          /\ ddos(f) >= 700 <=> n >= DDOS_MIN_PACKETS /\ 2 * ScaledVariance(f) <= 15 * n * (n - 1)
          /\ exfiltration(f) >= 700 <=> f.byte_count >= EXFIL_MIN_BYTES /\ 10 * f.byte_count >= 28672 * n
          /\ highEntropy(f) >= 700 <=> f.app_type \notin TlsApps /\ f.entropy >= 7700
          /\ FlagRatio(f) >= 700 <=> n >= 3 /\ (5 * f.syn > 4 * n \/ 5 * f.rst > 4 * n)
          /\ ChristmasTree(f) >= 700 <=> n >= 3 /\ f.syn > 0 /\ f.fin > 0 /\ f.rst > 0
      BY <2>1, Detectors
    <3> HIDE DEF n
    <3>3. /\ s[1] >= 700 <=>
               n \in 2..SCAN_MAX_PKTS /\ f.syn > 0 /\ f.fin = 0 /\ f.byte_count < 128 * n
          /\ s[2] >= 700 <=> n >= DDOS_MIN_PACKETS /\ 2 * ScaledVariance(f) <= 15 * n * (n - 1)
          /\ s[3] >= 700 <=> n >= 2 /\ f.byte_count >= EXFIL_MIN_BYTES /\ 10 * f.byte_count >= 28672 * n
          /\ s[4] >= 700 <=> n >= 2 /\ f.app_type \notin TlsApps /\ f.entropy >= 7700
          /\ s[5] >= 700 \/ s[6] >= 700 <=>
               n >= 3 /\ (5 * f.syn > 4 * n \/ 5 * f.rst > 4 * n \/ (f.syn > 0 /\ f.fin > 0 /\ f.rst > 0))
      <4>1. n >= 2 BY <2>1 DEF n
      <4> QED BY <2>3, <3>2, <4>1
    <3>4. Suspicious(f) <=>
            \/ n \in 2..SCAN_MAX_PKTS /\ f.syn > 0 /\ f.fin = 0 /\ f.byte_count < 128 * n
            \/ n >= DDOS_MIN_PACKETS /\ 2 * ScaledVariance(f) <= 15 * n * (n - 1)
            \/ n >= 2 /\ f.byte_count >= EXFIL_MIN_BYTES /\ 10 * f.byte_count >= 28672 * n
            \/ n >= 2 /\ f.app_type \notin TlsApps /\ f.entropy >= 7700
            \/ n >= 3 /\ (5 * f.syn > 4 * n \/ 5 * f.rst > 4 * n \/ (f.syn > 0 /\ f.fin > 0 /\ f.rst > 0))
      BY DEF Suspicious, n
    <3> QED BY <2>10, <3>3, <3>4
  <2> QED BY <2>8, <2>9, <2>11 DEF JudgedRight, FLAG_THRESHOLD
<1> QED BY <1>2, <1>3

-----------------------------------------------------------------------------
(* Sums over finite sets: SumOver does not depend on the order in which the *)
(* library's fold takes the elements.                                       *)
First(s) == CHOOSE x \in s : TRUE

(* t holds the sums of v over the subsets of S. *)
IsSum(t, S, v) ==
  t = [s \in SUBSET S |-> IF s = {} THEN 0 ELSE v[First(s)] + t[s \ {First(s)}]]

LEMMA OneLess ==
  ASSUME NEW S, IsFiniteSet(S), NEW x \in S
  PROVE  /\ IsFiniteSet(S \ {x}) /\ S \ {x} \in SUBSET S
         /\ Cardinality(S) \in Nat \ {0} /\ Cardinality(S \ {x}) = Cardinality(S) - 1
<1>1. IsFiniteSet(S \ {x}) /\ Cardinality(S \ {x}) = Cardinality(S) - 1 BY FS_RemoveElement
<1>2. Cardinality(S) \in Nat /\ S # {} BY FS_CardinalityType
<1>3. Cardinality(S) # 0 BY <1>2, FS_EmptySet
<1> QED BY <1>1, <1>2, <1>3

LEMMA FirstIn == ASSUME NEW s, s # {} PROVE First(s) \in s
BY DEF First

LEMMA SumsExist ==
  ASSUME NEW S, IsFiniteSet(S), NEW v
  PROVE  \E t : IsSum(t, S, v)
<1> DEFINE Small(n) == {s \in SUBSET S : Cardinality(s) <= n}
           Right(t, n) == t = [s \in Small(n) |-> IF s = {} THEN 0 ELSE v[First(s)] + t[s \ {First(s)}]]
           N == {n \in Nat : \E t : Right(t, n)}
<1>1. \A s \in SUBSET S : IsFiniteSet(s) /\ Cardinality(s) \in Nat /\ (Cardinality(s) = 0 <=> s = {})
  BY FS_Subset, FS_CardinalityType, FS_EmptySet
<1>2. \A s \in SUBSET S : s # {} => /\ s \ {First(s)} \in SUBSET S
                                    /\ Cardinality(s \ {First(s)}) = Cardinality(s) - 1
  BY <1>1, FirstIn, OneLess
<1>3. 0 \in N
  <2> DEFINE t == [s \in Small(0) |-> 0]
  <2>1. \A s \in Small(0) : s = {} BY <1>1
  <2>2. Right(t, 0) BY <2>1
  <2> QED BY <2>2
<1>4. ASSUME NEW n \in Nat, n \in N PROVE n + 1 \in N
  <2>1. PICK t : Right(t, n) BY <1>4
  <2> DEFINE u == [s \in Small(n + 1) |-> IF s = {} THEN 0 ELSE v[First(s)] + t[s \ {First(s)}]]
  <2>2. ASSUME NEW s \in Small(n + 1), s # {} PROVE u[s \ {First(s)}] = t[s \ {First(s)}]
    <3> DEFINE r == s \ {First(s)}
    <3>1. r \in Small(n) /\ r \in Small(n + 1) BY <1>1, <1>2, <2>2
    <3> HIDE DEF r
    <3>2. t[r] = IF r = {} THEN 0 ELSE v[First(r)] + t[r \ {First(r)}] BY <2>1, <3>1
    <3>3. u[r] = IF r = {} THEN 0 ELSE v[First(r)] + t[r \ {First(r)}] BY <3>1
    <3>4. u[r] = t[r] BY <3>2, <3>3
    <3> QED BY <3>4 DEF r
  <2>3. u = [s \in Small(n + 1) |-> IF s = {} THEN 0 ELSE v[First(s)] + u[s \ {First(s)}]]
    <3> DEFINE w == [s \in Small(n + 1) |-> IF s = {} THEN 0 ELSE v[First(s)] + u[s \ {First(s)}]]
    <3>1. \A s \in Small(n + 1) : u[s] = w[s] BY <2>2
    <3> QED BY <3>1
  <2> HIDE DEF u
  <2>4. Right(u, n + 1) BY <2>3
  <2> HIDE DEF Right
  <2> QED BY <2>4
<1> HIDE DEF N
<1> DEFINE c == Cardinality(S)
<1>5. c \in N BY <1>1, <1>3, <1>4, Induction
<1>6. PICK t : Right(t, c) BY <1>5 DEF N
<1>7. Small(c) = SUBSET S
  <2>1. \A s \in SUBSET S : Cardinality(s) <= c BY FS_Subset
  <2> QED BY <2>1
<1> QED BY <1>6, <1>7 DEF IsSum

LEMMA SumIsOne ==
  ASSUME NEW S, IsFiniteSet(S), NEW v
  PROVE  \E t : IsSum(t, S, v) /\ SumOver(S, v) = t[S]
<1> DEFINE F(t) == [s \in SUBSET S |-> IF s = {} THEN 0 ELSE v[First(s)] + t[s \ {First(s)}]]
           u == CHOOSE t : t = F(t)
<1>1. u = F(u)
  <2>1. PICK t : IsSum(t, S, v) BY SumsExist
  <2>2. t = F(t) BY <2>1 DEF IsSum
  <2> HIDE DEF F
  <2> QED BY <2>2
<1>2. SumOver(S, v) = u[S] BY DEF SumOver, MapThenSumSet, MapThenFoldSet, First
<1> HIDE DEF u
<1>3. IsSum(u, S, v) BY <1>1 DEF IsSum
<1> QED BY <1>2, <1>3

Steps(t, S, v) == t[{}] = 0 /\ \A s \in SUBSET S : s # {} => t[s] = v[First(s)] + t[s \ {First(s)}]

LEMMA SumSteps ==
  ASSUME NEW S, NEW v, NEW t, IsSum(t, S, v)
  PROVE  Steps(t, S, v)
<1>1. \A s \in SUBSET S : t[s] = IF s = {} THEN 0 ELSE v[First(s)] + t[s \ {First(s)}] BY DEF IsSum
<1>2. {} \in SUBSET S OBVIOUS
<1>3. t[{}] = 0 BY <1>1, <1>2
<1> QED BY <1>1, <1>3 DEF Steps

(* Only the values over the set matter. *)
LEMMA SumsAgree ==
  ASSUME NEW S, IsFiniteSet(S), NEW v, NEW t, IsSum(t, S, v),
         NEW R, IsFiniteSet(R), NEW w, NEW u, IsSum(u, R, w),
         R \subseteq S, \A x \in R : v[x] = w[x]
  PROVE  \A s \in SUBSET R : t[s] = u[s]
<1> DEFINE N == {n \in Nat : \A s \in SUBSET R : Cardinality(s) = n => t[s] = u[s]}
<1>1. \A s \in SUBSET R : IsFiniteSet(s) /\ Cardinality(s) \in Nat /\ (Cardinality(s) = 0 <=> s = {})
  BY FS_Subset, FS_CardinalityType, FS_EmptySet
<1> Steps(t, S, v) /\ Steps(u, R, w) BY SumSteps
<1>2. 0 \in N
  <2>1. t[{}] = 0 /\ u[{}] = 0 BY DEF Steps
  <2> QED BY <1>1, <2>1
<1>3. ASSUME NEW n \in Nat, n \in N PROVE n + 1 \in N
  <2> SUFFICES ASSUME NEW s \in SUBSET R, Cardinality(s) = n + 1 PROVE t[s] = u[s]
    OBVIOUS
  <2> DEFINE x == First(s)
             r == s \ {x}
  <2>1. s # {} BY <1>1
  <2>2. x \in s BY <2>1, FirstIn
  <2>3. r \in SUBSET R /\ Cardinality(r) = n BY <1>1, <2>2, OneLess
  <2>4. t[r] = u[r] /\ v[x] = w[x] BY <1>3, <2>2, <2>3
  <2>5. s \in SUBSET S OBVIOUS
  <2>6. t[s] = v[x] + t[r] BY <2>1, <2>5 DEF Steps
  <2>7. u[s] = w[x] + u[r] BY <2>1 DEF Steps
  <2> QED BY <2>4, <2>6, <2>7
<1> HIDE DEF N
<1>4. Nat \subseteq N BY <1>2, <1>3, Induction
<1> QED BY <1>1, <1>4 DEF N

LEMMA SumOfNone == ASSUME NEW v PROVE SumOver({}, v) = 0
<1>1. IsFiniteSet({}) BY FS_EmptySet
<1>2. PICK t : IsSum(t, {}, v) /\ SumOver({}, v) = t[{}] BY <1>1, SumIsOne
<1> QED BY <1>1, <1>2, SumSteps DEF Steps

LEMMA SumOfPart ==
  ASSUME NEW S, IsFiniteSet(S), NEW v, NEW t, IsSum(t, S, v), NEW R \in SUBSET S,
         NEW w, \A x \in R : v[x] = w[x]
  PROVE  SumOver(R, w) = t[R]
<1>1. IsFiniteSet(R) BY FS_Subset
<1>2. PICK u : IsSum(u, R, w) /\ SumOver(R, w) = u[R] BY <1>1, SumIsOne
<1>3. t[R] = u[R] BY <1>1, <1>2, SumsAgree
<1> QED BY <1>2, <1>3

LEMMA SumSame ==
  ASSUME NEW S, IsFiniteSet(S), NEW v, NEW w, \A x \in S : v[x] = w[x]
  PROVE  SumOver(S, v) = SumOver(S, w)
<1>1. PICK t : IsSum(t, S, v) /\ SumOver(S, v) = t[S] BY SumIsOne
<1>2. S \in SUBSET S OBVIOUS
<1>3. SumOver(S, w) = t[S] BY <1>1, <1>2, SumOfPart
<1> QED BY <1>1, <1>3

(* Whichever element is taken out. *)
LEMMA SumTakes ==
  ASSUME NEW S, IsFiniteSet(S), NEW v, \A x \in S : v[x] \in Nat
  PROVE  /\ SumOver(S, v) \in Nat
         /\ \A x \in S : SumOver(S, v) = v[x] + SumOver(S \ {x}, v)
<1>1. PICK t : IsSum(t, S, v) /\ SumOver(S, v) = t[S] BY SumIsOne
<1>2. \A R \in SUBSET S : SumOver(R, v) = t[R] BY <1>1, SumOfPart
<1> DEFINE Good(s) == t[s] \in Nat /\ \A x \in s : t[s] = v[x] + t[s \ {x}]
           N == {n \in Nat : \A s \in SUBSET S : Cardinality(s) <= n => Good(s)}
<1>3. \A s \in SUBSET S : IsFiniteSet(s) /\ Cardinality(s) \in Nat /\ (Cardinality(s) = 0 <=> s = {})
  BY FS_Subset, FS_CardinalityType, FS_EmptySet
<1>4. t[{}] = 0 /\ \A s \in SUBSET S : s # {} => t[s] = v[First(s)] + t[s \ {First(s)}]
  <2>1. Steps(t, S, v) BY <1>1, SumSteps
  <2> QED BY <2>1 DEF Steps
<1>5. 0 \in N
  <2>1. \A s \in SUBSET S : Cardinality(s) <= 0 => s = {} BY <1>3
  <2>2. Good({}) BY <1>4
  <2> QED BY <2>1, <2>2
<1>6. ASSUME NEW n \in Nat, n \in N PROVE n + 1 \in N
  <2> SUFFICES ASSUME NEW s \in SUBSET S, Cardinality(s) = n + 1 PROVE Good(s)
    <3>1. \A s \in SUBSET S : Cardinality(s) <= n + 1 => Cardinality(s) <= n \/ Cardinality(s) = n + 1
      BY <1>3
    <3> HIDE DEF Good
    <3> QED BY <1>6, <3>1
  <2> DEFINE c == First(s)
  <2>1. s # {} BY <1>3
  <2>2. c \in s BY <2>1, FirstIn
  <2>3. t[s] = v[c] + t[s \ {c}] BY <1>4, <2>1
  <2> HIDE DEF c
  <2>4. \A x \in s : s \ {x} \in SUBSET S /\ Cardinality(s \ {x}) = n /\ v[x] \in Nat
    BY <1>3, OneLess
  <2>5. \A x \in s : t[s \ {x}] \in Nat /\ \A y \in s \ {x} : t[s \ {x}] = v[y] + t[(s \ {x}) \ {y}]
    BY <1>6, <2>4
  <2>6. t[s] \in Nat
    <3>1. v[c] \in Nat /\ t[s \ {c}] \in Nat BY <2>2, <2>4, <2>5
    <3> QED BY <2>3, <3>1
  <2>7. ASSUME NEW x \in s, x # c PROVE t[s] = v[x] + t[s \ {x}]
    <3>1. t[s \ {c}] = v[x] + t[(s \ {c}) \ {x}] BY <2>2, <2>5, <2>7
    <3>2. t[s \ {x}] = v[c] + t[(s \ {x}) \ {c}] BY <2>2, <2>5, <2>7
    <3> DEFINE q == (s \ {c}) \ {x}
    <3>3. (s \ {x}) \ {c} = q OBVIOUS
    <3>4. t[q] \in Nat
      <4>1. q \in SUBSET S OBVIOUS
      <4>2. Cardinality(s \ {c}) = n /\ x \in s \ {c} /\ IsFiniteSet(s \ {c}) BY <1>3, <2>2, <2>4, <2>7
      <4>3. Cardinality(q) <= n BY <4>2, OneLess
      <4> QED BY <1>6, <4>1, <4>3
    <3> HIDE DEF q
    <3> QED BY <2>2, <2>3, <2>4, <3>1, <3>2, <3>3, <3>4
  <2> QED BY <2>3, <2>6, <2>7
<1> HIDE DEF N
<1>7. Nat \subseteq N BY <1>5, <1>6, Induction
<1>8. S \in SUBSET S /\ Cardinality(S) \in Nat /\ Cardinality(S) <= Cardinality(S) BY <1>3
<1>9. t[S] \in Nat /\ \A x \in S : t[S] = v[x] + t[S \ {x}] BY <1>7, <1>8 DEF N
<1> QED BY <1>2, <1>8, <1>9

Extends(T, v, S, w, x) ==
  x \notin S /\ T = S \cup {x} /\ (\A y \in T : v[y] \in Nat) /\ (\A y \in S : w[y] = v[y])

LEMMA SumAdds ==
  ASSUME NEW S, IsFiniteSet(S), NEW x, NEW T, NEW v, NEW w, Extends(T, v, S, w, x)
  PROVE  SumOver(S, w) \in Nat /\ SumOver(T, v) = SumOver(S, w) + v[x]
<1> USE DEF Extends
<1>1. IsFiniteSet(T) /\ x \in T /\ T \ {x} = S BY FS_AddElement
<1>2. SumOver(T, v) = v[x] + SumOver(S, v) BY <1>1, SumTakes
<1>3. SumOver(S, w) = SumOver(S, v) BY SumSame
<1>4. SumOver(S, v) \in Nat /\ v[x] \in Nat BY <1>1, SumTakes
<1> QED BY <1>2, <1>3, <1>4

-----------------------------------------------------------------------------
(* What a flow's counters carry of the packets pk[j], j in S.               *)
Loaded(S, pk) == {j \in S : HasPayload(pk[j])}
Carried(f, S, pk) ==
  /\ f.packet_count = Cardinality(S)
  /\ f.byte_count = SumOver(S, [j \in S |-> pk[j].size])
  /\ f.squares = SumOver(S, [j \in S |-> pk[j].size * pk[j].size])
  /\ f.syn = Cardinality({j \in S : "SYN" \in pk[j].flags})
  /\ f.fin = Cardinality({j \in S : "FIN" \in pk[j].flags})
  /\ f.rst = Cardinality({j \in S : "RST" \in pk[j].flags})
  /\ f.entropy = IF Loaded(S, pk) = {} THEN 0 ELSE pk[Max(Loaded(S, pk))].entropy

(* Only the packets in S matter. *)
LEMMA CarriedStays ==
  ASSUME NEW n \in Nat, NEW S \in SUBSET (1..n), NEW f, NEW pk, NEW qk, \A j \in S : qk[j] = pk[j],
         Carried(f, S, pk)
  PROVE  Carried(f, S, qk)
<1>1. [j \in S |-> qk[j].size] = [j \in S |-> pk[j].size] OBVIOUS
<1>2. [j \in S |-> qk[j].size * qk[j].size] = [j \in S |-> pk[j].size * pk[j].size] OBVIOUS
<1>3. \A x : {j \in S : x \in qk[j].flags} = {j \in S : x \in pk[j].flags} OBVIOUS
<1>4. Loaded(S, qk) = Loaded(S, pk) BY DEF Loaded
<1>5. Loaded(S, pk) # {} => qk[Max(Loaded(S, pk))] = pk[Max(Loaded(S, pk))]
  <2> DEFINE W == Loaded(S, pk)
  <2>1. W \subseteq S BY DEF Loaded
  <2> HIDE DEF W
  <2>2. W \in SUBSET (0..n)
    <3>1. 1..n \subseteq 0..n OBVIOUS
    <3> QED BY <2>1, <3>1
  <2>3. W # {} => Max(W) \in W BY <2>2, MaxIs
  <2> QED BY <2>1, <2>3 DEF W
<1>6. f.byte_count = SumOver(S, [j \in S |-> qk[j].size]) BY <1>1 DEF Carried
<1>7. f.squares = SumOver(S, [j \in S |-> qk[j].size * qk[j].size]) BY <1>2 DEF Carried
<1>8. f.entropy = IF Loaded(S, qk) = {} THEN 0 ELSE qk[Max(Loaded(S, qk))].entropy
  BY <1>4, <1>5 DEF Carried
<1>9. /\ f.syn = Cardinality({j \in S : "SYN" \in qk[j].flags})
      /\ f.fin = Cardinality({j \in S : "FIN" \in qk[j].flags})
      /\ f.rst = Cardinality({j \in S : "RST" \in qk[j].flags})
      /\ f.packet_count = Cardinality(S)
  BY <1>3 DEF Carried
<1> QED BY <1>6, <1>7, <1>8, <1>9 DEF Carried

LEMMA PacketShape ==
  ASSUME NEW p \in Packets
  PROVE  p.size \in Nat /\ p.size * p.size \in Nat
<1>1. p.size \in Nat \ {0} BY MeasureAssumption
<1> QED BY <1>1

(* One more packet. *)
LEMMA CarriedGrows ==
  ASSUME NEW n \in Nat, NEW S \in SUBSET (1..n), NEW m, m = n + 1, NEW T, T = S \cup {m},
         NEW pk, NEW qk, \A j \in S : qk[j] = pk[j] /\ qk[j] \in Packets, NEW p \in Packets, qk[m] = p,
         NEW f, IsFlow(f), Carried(f, S, pk),
         NEW g, IsFlow(g),
         g.packet_count = f.packet_count + 1, g.byte_count = f.byte_count + p.size,
         g.squares = f.squares + p.size * p.size, g.syn = f.syn + (IF "SYN" \in p.flags THEN 1 ELSE 0),
         g.fin = f.fin + (IF "FIN" \in p.flags THEN 1 ELSE 0), g.rst = f.rst + (IF "RST" \in p.flags THEN 1 ELSE 0),
         g.entropy = IF p.host # NoPayload THEN p.entropy ELSE f.entropy
  PROVE  Carried(g, T, qk)
<1>1. /\ IsFiniteSet(S) /\ m \notin S /\ Cardinality(S) \in Nat
      /\ \A j \in S : j <= m /\ j \in 1..n
      /\ T \in SUBSET (0..m)
  <2>1. IsFiniteSet(1..n) /\ m \notin 1..n BY FS_Interval
  <2>2. IsFiniteSet(S) BY <2>1, FS_Subset
  <2>3. Cardinality(S) \in Nat BY <2>2, FS_CardinalityType
  <2>4. 1..n \subseteq 0..m /\ m \in 0..m /\ \A j \in 1..n : j <= m OBVIOUS
  <2>5. T \in SUBSET (0..m) BY <2>4
  <2> QED BY <2>1, <2>2, <2>3, <2>4, <2>5
<1>2. Carried(f, S, qk) BY CarriedStays
<1>3. Cardinality(T) = Cardinality(S) + 1 BY <1>1, FS_AddElement
<1>4. SumOver(T, [j \in T |-> qk[j].size]) = SumOver(S, [j \in S |-> qk[j].size]) + p.size
  <2> DEFINE v == [j \in T |-> qk[j].size]
             w == [j \in S |-> qk[j].size]
  <2>1. (\A y \in T : v[y] \in Nat) /\ (\A y \in S : w[y] = v[y]) /\ v[m] = p.size BY PacketShape
  <2> HIDE DEF v, w
  <2>2. Extends(T, v, S, w, m) BY <1>1, <2>1 DEF Extends
  <2>3. SumOver(T, v) = SumOver(S, w) + v[m] BY <1>1, <2>2, SumAdds
  <2> QED BY <2>1, <2>3 DEF v, w
<1>5. SumOver(T, [j \in T |-> qk[j].size * qk[j].size])
        = SumOver(S, [j \in S |-> qk[j].size * qk[j].size]) + p.size * p.size
  <2> DEFINE v == [j \in T |-> qk[j].size * qk[j].size]
             w == [j \in S |-> qk[j].size * qk[j].size]
  <2>1. (\A y \in T : v[y] \in Nat) /\ (\A y \in S : w[y] = v[y]) /\ v[m] = p.size * p.size BY PacketShape
  <2> HIDE DEF v, w
  <2>2. Extends(T, v, S, w, m) BY <1>1, <2>1 DEF Extends
  <2>3. SumOver(T, v) = SumOver(S, w) + v[m] BY <1>1, <2>2, SumAdds
  <2> QED BY <2>1, <2>3 DEF v, w
<1>6. ASSUME NEW x PROVE Cardinality({j \in T : x \in qk[j].flags})
                           = Cardinality({j \in S : x \in qk[j].flags}) + (IF x \in p.flags THEN 1 ELSE 0)
  <2> DEFINE A == {j \in S : x \in qk[j].flags}
             B == {j \in T : x \in qk[j].flags}
  <2>1. PICK b \in BOOLEAN : b <=> x \in p.flags OBVIOUS
  <2>2. A \in SUBSET (1..n) /\ B = IF b THEN A \cup {n + 1} ELSE A BY <1>1, <2>1
  <2> HIDE DEF A, B
  <2>3. Cardinality(B) = Cardinality(A) + One(b) BY <2>2, OneMore
  <2> QED BY <2>1, <2>3 DEF A, B, One
<1>7. g.entropy = IF Loaded(T, qk) = {} THEN 0 ELSE qk[Max(Loaded(T, qk))].entropy
  <2>1. CASE HasPayload(p)
    <3> DEFINE W == Loaded(T, qk)
    <3>1. m \in W BY <2>1 DEF Loaded, HasPayload
    <3>2. W \subseteq T BY DEF Loaded
    <3>3. \A y \in T : y <= m BY <1>1
    <3> HIDE DEF W
    <3>4. W \in SUBSET (0..m) /\ \A y \in W : y <= m BY <1>1, <3>2, <3>3
    <3>5. Max(W) = m
      <4>1. m \in Nat OBVIOUS
      <4> QED BY <3>1, <3>4, <4>1, MaxIs
    <3> QED BY <2>1, <3>1, <3>5 DEF W, HasPayload
  <2>2. CASE ~HasPayload(p)
    <3>1. Loaded(T, qk) = Loaded(S, qk) BY <2>2 DEF Loaded, HasPayload
    <3> QED BY <1>2, <2>2, <3>1 DEF Carried, HasPayload
  <2> QED BY <2>1, <2>2
<1>8. g.packet_count = Cardinality(T) BY <1>2, <1>3 DEF Carried
<1>9. g.byte_count = SumOver(T, [j \in T |-> qk[j].size]) BY <1>2, <1>4 DEF Carried
<1>10. g.squares = SumOver(T, [j \in T |-> qk[j].size * qk[j].size]) BY <1>2, <1>5 DEF Carried
<1>11. g.syn = Cardinality({j \in T : "SYN" \in qk[j].flags})
  <2>1. Cardinality({j \in T : "SYN" \in qk[j].flags})
          = Cardinality({j \in S : "SYN" \in qk[j].flags}) + (IF "SYN" \in p.flags THEN 1 ELSE 0) BY <1>6
  <2>2. f.syn = Cardinality({j \in S : "SYN" \in qk[j].flags}) BY <1>2 DEF Carried
  <2> QED BY <2>1, <2>2
<1>12. g.fin = Cardinality({j \in T : "FIN" \in qk[j].flags})
  <2>1. Cardinality({j \in T : "FIN" \in qk[j].flags})
          = Cardinality({j \in S : "FIN" \in qk[j].flags}) + (IF "FIN" \in p.flags THEN 1 ELSE 0) BY <1>6
  <2>2. f.fin = Cardinality({j \in S : "FIN" \in qk[j].flags}) BY <1>2 DEF Carried
  <2> QED BY <2>1, <2>2
<1>13. g.rst = Cardinality({j \in T : "RST" \in qk[j].flags})
  <2>1. Cardinality({j \in T : "RST" \in qk[j].flags})
          = Cardinality({j \in S : "RST" \in qk[j].flags}) + (IF "RST" \in p.flags THEN 1 ELSE 0) BY <1>6
  <2>2. f.rst = Cardinality({j \in S : "RST" \in qk[j].flags}) BY <1>2 DEF Carried
  <2> QED BY <2>1, <2>2
<1> QED BY <1>7, <1>8, <1>9, <1>10, <1>11, <1>12, <1>13 DEF Carried

(* The score depends on what is carried and on the application alone.       *)
LEMMA ScoreSame ==
  ASSUME NEW f, NEW g, f.app_type = g.app_type,
         f.packet_count = g.packet_count, f.byte_count = g.byte_count, f.squares = g.squares,
         f.syn = g.syn, f.fin = g.fin, f.rst = g.rst, f.entropy = g.entropy
  PROVE  score(f) = score(g)
<1>1. portScan(f) = portScan(g) BY DEF portScan
<1>2. ddos(f) = ddos(g) BY DEF ddos, ScaledVariance, Pairs
<1>3. exfiltration(f) = exfiltration(g) BY DEF exfiltration
<1>4. highEntropy(f) = highEntropy(g) BY DEF highEntropy
<1>5. FlagRatio(f) = FlagRatio(g) BY DEF FlagRatio
<1>6. ChristmasTree(f) = ChristmasTree(g) BY DEF ChristmasTree
<1>7. Verdicts(f) = Verdicts(g) BY <1>1, <1>2, <1>3, <1>4, <1>5, <1>6, Zenon DEF Verdicts
<1> DEFINE Best(v, n) ==
             LET best == CHOOSE i \in DOMAIN v : \A j \in DOMAIN v :
                           v[j].score < v[i].score \/ (v[j].score = v[i].score /\ i <= j)
             IN IF n < 2 \/ v[best].score = 0 THEN [type |-> "NONE", score |-> 0] ELSE v[best]
<1>8. score(f) = Best(Verdicts(f), f.packet_count) /\ score(g) = Best(Verdicts(g), g.packet_count)
  BY Zenon DEF score
<1> HIDE DEF Best
<1> QED BY <1>7, <1>8

LEMMA CarriedScore ==
  ASSUME NEW f, NEW g, NEW S, NEW pk, Carried(f, S, pk), Carried(g, S, pk), f.app_type = g.app_type
  PROVE  score(f) = score(g)
<1>1. /\ f.packet_count = g.packet_count /\ f.byte_count = g.byte_count /\ f.squares = g.squares
      /\ f.syn = g.syn /\ f.fin = g.fin /\ f.rst = g.rst /\ f.entropy = g.entropy
  BY DEF Carried
<1> QED BY <1>1, ScoreSame

-----------------------------------------------------------------------------
(* What becomes of the fields of a flow, step by step.                      *)
LEMMA OpenedIs ==
  ASSUME NEW p, NEW t, t = p.tuple, NEW f, IsFlow(f), NEW o, o = Opened(f, p)
  PROVE  /\ IsFlow(o)
         /\ o.packet_count = f.packet_count /\ o.byte_count = f.byte_count /\ o.squares = f.squares
         /\ o.syn = f.syn /\ o.fin = f.fin /\ o.rst = f.rst /\ o.entropy = f.entropy
         /\ o.anomaly = f.anomaly /\ o.sni = f.sni /\ o.classified = f.classified
         /\ o.blocked = (IF f.packet_count = 0 THEN IPBlock(t) ELSE f.blocked)
         /\ o.app_type = IF f.packet_count = 0 THEN Hint[t] ELSE f.app_type
<1>1. CASE f.packet_count # 0 BY <1>1 DEF Opened
<1>2. CASE f.packet_count = 0
  <2>1. IPBlock(t) \in BOOLEAN BY DEF IPBlock, isBlocked
  <2>2. o = [f EXCEPT !.app_type = Hint[p.tuple], !.blocked = IPBlock(t)]
    BY <1>2 DEF Opened, IPBlocked, IPBlock
  <2> QED BY <1>2, <2>1, <2>2 DEF IsFlow, Fields
<1> QED BY <1>1, <1>2

LEMMA MeasuredIs ==
  ASSUME NEW p \in Packets, NEW o, IsFlow(o), NEW g, g = Measured(o, p)
  PROVE  /\ IsFlow(g)
         /\ g.packet_count = o.packet_count + 1 /\ g.byte_count = o.byte_count + p.size
         /\ g.squares = o.squares + p.size * p.size
         /\ g.syn = o.syn + (IF "SYN" \in p.flags THEN 1 ELSE 0)
         /\ g.fin = o.fin + (IF "FIN" \in p.flags THEN 1 ELSE 0)
         /\ g.rst = o.rst + (IF "RST" \in p.flags THEN 1 ELSE 0)
         /\ g.entropy = (IF p.host # NoPayload THEN p.entropy ELSE o.entropy)
         /\ g.anomaly = o.anomaly /\ g.sni = o.sni /\ g.classified = o.classified
         /\ g.blocked = o.blocked /\ g.app_type = o.app_type
<1> DEFINE c == o.packet_count + 1
           b == o.byte_count + p.size
           q == o.squares + p.size * p.size
           s == o.syn + (IF "SYN" \in p.flags THEN 1 ELSE 0)
           n == o.fin + (IF "FIN" \in p.flags THEN 1 ELSE 0)
           r == o.rst + (IF "RST" \in p.flags THEN 1 ELSE 0)
           e == IF p.host # NoPayload THEN p.entropy ELSE o.entropy
<1>1. g = [o EXCEPT !.packet_count = c, !.byte_count = b, !.squares = q,
                    !.syn = s, !.fin = n, !.rst = r, !.entropy = e]
  BY DEF Measured, One, HasPayload
<1> HIDE DEF c, b, q, s, n, r, e
<1>2. /\ DOMAIN g = Fields /\ g = [x \in Fields |-> g[x]]
      /\ g.packet_count = c /\ g.byte_count = b /\ g.squares = q
      /\ g.syn = s /\ g.fin = n /\ g.rst = r /\ g.entropy = e
      /\ g.anomaly = o.anomaly /\ g.sni = o.sni /\ g.classified = o.classified
      /\ g.blocked = o.blocked /\ g.app_type = o.app_type /\ g.throttled = o.throttled
  BY <1>1 DEF IsFlow, Fields
<1>3. IsFlow(g)
  <2>1. c \in Nat BY DEF c, IsFlow
  <2> QED BY <1>2, <2>1 DEF IsFlow
<1> QED BY <1>2, <1>3 DEF c, b, q, s, n, r, e

(* The fields that the rest of the handling leaves alone. *)
Measures(f, g) ==
  /\ f.packet_count = g.packet_count /\ f.byte_count = g.byte_count /\ f.squares = g.squares
  /\ f.syn = g.syn /\ f.fin = g.fin /\ f.rst = g.rst /\ f.entropy = g.entropy

LEMMA ClassifiedIs ==
  ASSUME NEW p, NEW g, IsFlow(g), NEW h, h = classifyFlow(g, p)
  PROVE  /\ IsFlow(h) /\ Measures(h, g) /\ h.blocked = g.blocked /\ h.anomaly = g.anomaly
         /\ ~News(g, p) => h.sni = g.sni /\ h.app_type = g.app_type
<1>1. CASE ~News(g, p)
  <2>1. h = g BY <1>1 DEF classifyFlow
  <2> QED BY <2>1 DEF Measures
<1>2. CASE News(g, p)
  <2> DEFINE a == AppOfName[p.host]
             b == isThrottled(rules_, a)
  <2>1. b \in BOOLEAN BY DEF isThrottled
  <2>2. h = [g EXCEPT !.sni = p.host, !.app_type = a, !.classified = TRUE, !.throttled = b]
    BY <1>2 DEF classifyFlow
  <2> HIDE DEF a, b
  <2> QED BY <1>2, <2>1, <2>2 DEF IsFlow, Fields, Measures
<1> QED BY <1>1, <1>2

LEMMA ForwardedIs ==
  ASSUME NEW h, IsFlow(h), NEW k, k = Throttled(Scored(h))
  PROVE  /\ IsFlow(k) /\ Measures(k, h) /\ k.blocked = h.blocked /\ k.sni = h.sni /\ k.app_type = h.app_type
         /\ k.anomaly = IF Due(k) THEN score(k) ELSE h.anomaly
<1>1. PICK s : /\ s = Scored(h) /\ IsFlow(s) /\ Measures(s, h) /\ s.blocked = h.blocked /\ s.sni = h.sni
               /\ s.app_type = h.app_type /\ s.anomaly = IF Due(h) THEN score(h) ELSE h.anomaly
  <2>1. CASE ~Due(h) BY <2>1 DEF Scored, Measures
  <2>2. CASE Due(h)
    <3>1. PICK a : a = score(h) OBVIOUS
    <3> DEFINE s == [h EXCEPT !.anomaly = a]
    <3>2. s = Scored(h) BY <2>2, <3>1 DEF Scored
    <3>3. /\ IsFlow(s) /\ Measures(s, h) /\ s.blocked = h.blocked /\ s.sni = h.sni
          /\ s.app_type = h.app_type /\ s.anomaly = a
      BY DEF IsFlow, Fields, Measures
    <3> QED BY <2>2, <3>1, <3>2, <3>3
  <2> QED BY <2>1, <2>2
<1>2. PICK b \in BOOLEAN : b <=> s.throttled \/ isThrottled(rules_, s.app_type) OBVIOUS
<1>3. k = [s EXCEPT !.throttled = b]
  <2>1. (s.throttled \/ isThrottled(rules_, s.app_type)) = b BY <1>2
  <2> QED BY <1>1, <2>1 DEF Throttled
<1>4. /\ IsFlow(k) /\ Measures(k, s) /\ k.blocked = s.blocked /\ k.sni = s.sni /\ k.app_type = s.app_type
      /\ k.anomaly = s.anomaly
  BY <1>1, <1>3 DEF IsFlow, Fields, Measures
<1>5. Measures(k, h) BY <1>1, <1>4 DEF Measures
<1>6. Due(k) <=> Due(h) BY <1>5 DEF Due, Measures
<1>7. score(k) = score(h) BY <1>1, <1>4, <1>5, ScoreSame DEF Measures
<1> QED BY <1>1, <1>4, <1>5, <1>6, <1>7

LEMMA HandledIs ==
  ASSUME NEW p \in Packets, NEW t, t = p.tuple, NEW f, IsFlow(f), NEW flow, NEW r, Handled(p, f, flow, r)
  PROVE  /\ IsFlow(flow)
         /\ flow.packet_count = f.packet_count + 1 /\ flow.byte_count = f.byte_count + p.size
         /\ flow.squares = f.squares + p.size * p.size
         /\ flow.syn = f.syn + (IF "SYN" \in p.flags THEN 1 ELSE 0)
         /\ flow.fin = f.fin + (IF "FIN" \in p.flags THEN 1 ELSE 0)
         /\ flow.rst = f.rst + (IF "RST" \in p.flags THEN 1 ELSE 0)
         /\ flow.entropy = (IF p.host # NoPayload THEN p.entropy ELSE f.entropy)
         /\ r.verdict = "drop" => flow.blocked /\ flow.anomaly = f.anomaly
         /\ r.verdict # "drop" =>
              /\ r.verdict = "forward" /\ ~flow.blocked /\ (f.packet_count # 0 => ~f.blocked)
              /\ flow.anomaly = IF Due(flow) THEN score(flow) ELSE f.anomaly
              /\ r.flagged <=> Due(flow) /\ flow.anomaly.score >= FLAG_THRESHOLD
         /\ (IF f.packet_count = 0 THEN IPBlock(t) ELSE f.blocked) \/ f.classified \/ p.host \notin Names =>
              /\ flow.sni = f.sni
              /\ flow.app_type = IF f.packet_count = 0 THEN Hint[t] ELSE f.app_type
<1> DEFINE o == Opened(f, p)
           g == Measured(o, p)
           h == classifyFlow(g, p)
<1>1. /\ IsFlow(o)
      /\ o.packet_count = f.packet_count /\ o.byte_count = f.byte_count /\ o.squares = f.squares
      /\ o.syn = f.syn /\ o.fin = f.fin /\ o.rst = f.rst /\ o.entropy = f.entropy
      /\ o.anomaly = f.anomaly /\ o.sni = f.sni /\ o.classified = f.classified
      /\ o.blocked = (IF f.packet_count = 0 THEN IPBlock(t) ELSE f.blocked)
      /\ o.app_type = IF f.packet_count = 0 THEN Hint[t] ELSE f.app_type
  BY OpenedIs
<1> HIDE DEF o
<1>2. /\ IsFlow(g)
      /\ g.packet_count = o.packet_count + 1 /\ g.byte_count = o.byte_count + p.size
      /\ g.squares = o.squares + p.size * p.size
      /\ g.syn = o.syn + (IF "SYN" \in p.flags THEN 1 ELSE 0)
      /\ g.fin = o.fin + (IF "FIN" \in p.flags THEN 1 ELSE 0)
      /\ g.rst = o.rst + (IF "RST" \in p.flags THEN 1 ELSE 0)
      /\ g.entropy = (IF p.host # NoPayload THEN p.entropy ELSE o.entropy)
      /\ g.anomaly = o.anomaly /\ g.sni = o.sni /\ g.classified = o.classified
      /\ g.blocked = o.blocked /\ g.app_type = o.app_type
  BY <1>1, MeasuredIs
<1> HIDE DEF g
<1>3. /\ IsFlow(h) /\ Measures(h, g) /\ h.blocked = g.blocked /\ h.anomaly = g.anomaly
      /\ ~News(g, p) => h.sni = g.sni /\ h.app_type = g.app_type
  BY <1>2, ClassifiedIs
<1> HIDE DEF h
<1>4. \/ g.blocked /\ flow = g /\ r.verdict = "drop"
      \/ ~g.blocked /\ ToBlock(h, p) /\ flow = [h EXCEPT !.blocked = TRUE] /\ r.verdict = "drop"
      \/ /\ ~g.blocked /\ ~ToBlock(h, p) /\ flow = Throttled(Scored(h)) /\ r.verdict = "forward"
         /\ r.flagged <=> Due(flow) /\ flow.anomaly.score >= FLAG_THRESHOLD
  BY DEF Handled, g, h, o
<1>5. /\ IsFlow(flow) /\ Measures(flow, g)
      /\ r.verdict = "drop" => flow.blocked /\ flow.anomaly = g.anomaly
      /\ r.verdict # "drop" =>
           /\ r.verdict = "forward" /\ ~flow.blocked /\ ~g.blocked
           /\ flow.anomaly = IF Due(flow) THEN score(flow) ELSE g.anomaly
           /\ r.flagged <=> Due(flow) /\ flow.anomaly.score >= FLAG_THRESHOLD
      /\ g.blocked \/ ~News(g, p) => flow.sni = g.sni /\ flow.app_type = g.app_type
  <2>1. CASE g.blocked /\ flow = g /\ r.verdict = "drop" BY <1>2, <2>1 DEF Measures
  <2>2. CASE ~g.blocked /\ flow = [h EXCEPT !.blocked = TRUE] /\ r.verdict = "drop"
    <3>1. /\ IsFlow(flow) /\ Measures(flow, h) /\ flow.blocked /\ flow.anomaly = h.anomaly
          /\ flow.sni = h.sni /\ flow.app_type = h.app_type
      BY <1>3, <2>2 DEF IsFlow, Fields, Measures
    <3>2. Measures(flow, g) BY <1>3, <3>1 DEF Measures
    <3> QED BY <1>3, <2>2, <3>1, <3>2
  <2>3. CASE /\ ~g.blocked /\ flow = Throttled(Scored(h)) /\ r.verdict = "forward"
             /\ r.flagged <=> Due(flow) /\ flow.anomaly.score >= FLAG_THRESHOLD
    <3>1. /\ IsFlow(flow) /\ Measures(flow, h) /\ flow.blocked = h.blocked /\ flow.sni = h.sni
          /\ flow.app_type = h.app_type
          /\ flow.anomaly = IF Due(flow) THEN score(flow) ELSE h.anomaly
      BY <1>3, <2>3, ForwardedIs
    <3>2. Measures(flow, g) BY <1>3, <3>1 DEF Measures
    <3>3. r.verdict # "drop" BY <2>3
    <3> QED BY <1>3, <2>3, <3>1, <3>2, <3>3
  <2> QED BY <1>4, <2>1, <2>2, <2>3
<1>6. f.classified \/ p.host \notin Names => ~News(g, p) BY <1>1, <1>2 DEF News
<1>7. (IF f.packet_count = 0 THEN IPBlock(t) ELSE f.blocked) \/ f.classified \/ p.host \notin Names =>
        /\ flow.sni = f.sni
        /\ flow.app_type = IF f.packet_count = 0 THEN Hint[t] ELSE f.app_type
  BY <1>1, <1>2, <1>5, <1>6
<1>8. /\ flow.packet_count = f.packet_count + 1 /\ flow.byte_count = f.byte_count + p.size
      /\ flow.squares = f.squares + p.size * p.size
      /\ flow.syn = f.syn + (IF "SYN" \in p.flags THEN 1 ELSE 0)
      /\ flow.fin = f.fin + (IF "FIN" \in p.flags THEN 1 ELSE 0)
      /\ flow.rst = f.rst + (IF "RST" \in p.flags THEN 1 ELSE 0)
      /\ flow.entropy = (IF p.host # NoPayload THEN p.entropy ELSE f.entropy)
  BY <1>1, <1>2, <1>5 DEF Measures
<1>9. f.packet_count # 0 => g.blocked = f.blocked BY <1>1, <1>2
<1> QED BY <1>1, <1>2, <1>5, <1>7, <1>8, <1>9

-----------------------------------------------------------------------------
(* Which packets of a flow score it: arithmetic of the positions.           *)
Follows(M, m, T) == m \in Nat \ {0} /\ M \subseteq 1..(m - 1) /\ T = M \cup {m}

Ranked(M, m, T) ==
  /\ \A j \in M : {k \in T : k <= j} = {k \in M : k <= j} /\ j # m
  /\ {k \in T : k <= m} = T
  /\ Cardinality(M) \in Nat /\ Cardinality(T) = Cardinality(M) + 1
  /\ \A q \in Nat : q <= Cardinality(M) => FirstOf(T, q) = FirstOf(M, q)
  /\ FirstOf(T, Cardinality(T)) = T /\ Max(T) = m

LEMMA RanksGrow ==
  ASSUME NEW M, NEW m, NEW T, Follows(M, m, T)
  PROVE  Ranked(M, m, T)
<1> USE DEF Follows
<1>0. PICK n \in Nat : n = m - 1 OBVIOUS
<1>1. IsFiniteSet(M) /\ m \notin M
  <2>1. IsFiniteSet(1..n) /\ m \notin 1..n BY <1>0, FS_Interval
  <2> QED BY <1>0, <2>1, FS_Subset
<1>2. \A j \in M : j \in Nat /\ j <= m OBVIOUS
<1>3. \A j \in M : {k \in T : k <= j} = {k \in M : k <= j} /\ j # m
  BY <1>1, <1>2
<1>4. \A k \in T : k <= m BY <1>2
<1>5. {k \in T : k <= m} = T BY <1>4
<1>6. Cardinality(M) \in Nat /\ IsFiniteSet(T) /\ Cardinality(T) = Cardinality(M) + 1
  BY <1>1, FS_CardinalityType, FS_AddElement
<1>7. ASSUME NEW q \in Nat, q <= Cardinality(M) PROVE FirstOf(T, q) = FirstOf(M, q)
  <2>1. ~(Cardinality({k \in T : k <= m}) <= q)
    <3>1. ~(Cardinality(T) <= q) BY <1>6, <1>7
    <3> QED BY <1>5, <3>1, Zenon
  <2>2. \A j : j \in FirstOf(T, q) <=> j \in T /\ Cardinality({k \in T : k <= j}) <= q BY DEF FirstOf
  <2>3. \A j : j \in FirstOf(M, q) <=> j \in M /\ Cardinality({k \in M : k <= j}) <= q BY DEF FirstOf
  <2>4. \A j : j \in FirstOf(T, q) <=> j \in FirstOf(M, q)
    <3> TAKE j
    <3>1. CASE j \in M
      <4>1. Cardinality({k \in T : k <= j}) = Cardinality({k \in M : k <= j}) BY <1>3, <3>1
      <4> QED BY <2>2, <2>3, <3>1, <4>1
    <3>2. CASE j \notin M
      <4>1. j \in T => j = m BY <3>2
      <4> QED BY <2>1, <2>2, <2>3, <3>2, <4>1
    <3> QED BY <3>1, <3>2
  <2> QED BY <2>4
<1>8. FirstOf(T, Cardinality(T)) = T
  <2>1. \A j \in T : Cardinality({k \in T : k <= j}) <= Cardinality(T) BY <1>6, FS_Subset
  <2> QED BY <2>1 DEF FirstOf
<1>9. Max(T) = m
  <2>1. T \in SUBSET (0..m) /\ m \in T /\ m \in Nat BY <1>2
  <2> QED BY <1>4, <2>1, MaxIs
<1> QED BY <1>3, <1>5, <1>6, <1>7, <1>8, <1>9 DEF Ranked

LEMMA Fifths ==
  ASSUME NEW c \in Nat
  PROVE  /\ 5 * (c \div 5) \in Nat /\ 5 * (c \div 5) <= c
         /\ (c + 1) % 5 = 0 => 5 * ((c + 1) \div 5) = c + 1 /\ c + 1 >= 5
         /\ (c + 1) % 5 # 0 => 5 * ((c + 1) \div 5) = 5 * (c \div 5)
OBVIOUS

(* The first packets of a flow are some, and the last of them is one. *)
LEMMA FirstSome ==
  ASSUME NEW n \in Nat, NEW M \in SUBSET (1..n), M # {}, NEW q \in Nat \ {0}, NEW S, S = FirstOf(M, q)
  PROVE  S \in SUBSET (1..n) /\ S \subseteq M /\ Max(S) \in S
<1>1. S \subseteq M BY DEF FirstOf
<1>2. S # {}
  <2>1. M \in SUBSET Nat OBVIOUS
  <2>2. PICK x \in M : \A y \in M : x <= y BY <2>1, LeastElement
  <2>3. {k \in M : k <= x} = {x}
    <3>1. \A k \in M : k <= x => k = x BY <2>1, <2>2
    <3>2. x <= x BY <2>1
    <3> QED BY <3>1, <3>2
  <2>4. Cardinality({x}) = 1 BY FS_Singleton
  <2>5. Cardinality({k \in M : k <= x}) <= q BY <2>3, <2>4
  <2> QED BY <2>5 DEF FirstOf
<1>3. S \in SUBSET (0..n)
  <2>1. 1..n \subseteq 0..n OBVIOUS
  <2> QED BY <1>1, <2>1
<1>4. Max(S) \in S BY <1>2, <1>3, MaxIs
<1> QED BY <1>1, <1>4

-----------------------------------------------------------------------------
(* What a flow in the table carries of the packets M that it is remembered  *)
(* by.                                                                      *)
PacketsOf(lg) == [j \in DOMAIN lg |-> lg[j].packet]
Sent == PacketsOf(log)

FeaturesIn(S, app, lg) ==
  LET flags(x) == Cardinality({j \in S : x \in lg[j].packet.flags})
      loaded == {j \in S : HasPayload(lg[j].packet)}
  IN [app_type |-> app, packet_count |-> Cardinality(S),
      byte_count |-> SumOver(S, [j \in S |-> lg[j].packet.size]),
      squares |-> SumOver(S, [j \in S |-> lg[j].packet.size * lg[j].packet.size]),
      syn |-> flags("SYN"), fin |-> flags("FIN"), rst |-> flags("RST"),
      entropy |-> IF loaded = {} THEN 0 ELSE lg[Max(loaded)].packet.entropy]

LEMMA FeaturesAre ==
  ASSUME NEW S, NEW app
  PROVE  Features(S, app) = FeaturesIn(S, app, log) /\ Features(S, app)' = FeaturesIn(S, app, log')
BY Zenon DEF Features, FeaturesIn

Within(S, lg) == \E n \in Nat : DOMAIN lg = 1..n /\ S \subseteq 1..n

LEMMA FeaturesCarry ==
  ASSUME NEW lg, NEW S, Within(S, lg), NEW app
  PROVE  /\ Carried(FeaturesIn(S, app, lg), S, PacketsOf(lg))
         /\ FeaturesIn(S, app, lg).app_type = app
<1> SUFFICES ASSUME NEW n \in Nat, DOMAIN lg = 1..n, S \in SUBSET (1..n), NEW f, f = FeaturesIn(S, app, lg)
             PROVE  Carried(f, S, PacketsOf(lg)) /\ f.app_type = app
  BY DEF Within
<1> DEFINE pk == PacketsOf(lg)
<1>1. \A j \in S : pk[j] = lg[j].packet BY DEF PacketsOf
<1> HIDE DEF pk
<1>2. [j \in S |-> pk[j].size] = [j \in S |-> lg[j].packet.size] BY <1>1
<1>3. [j \in S |-> pk[j].size * pk[j].size] = [j \in S |-> lg[j].packet.size * lg[j].packet.size] BY <1>1
<1>4. \A x : {j \in S : x \in pk[j].flags} = {j \in S : x \in lg[j].packet.flags} BY <1>1
<1>5. Loaded(S, pk) = {j \in S : HasPayload(lg[j].packet)} BY <1>1 DEF Loaded
<1>6. Loaded(S, pk) # {} => pk[Max(Loaded(S, pk))] = lg[Max(Loaded(S, pk))].packet
  <2> DEFINE W == Loaded(S, pk)
  <2>1. W \subseteq S BY DEF Loaded
  <2> HIDE DEF W
  <2>2. W \in SUBSET (0..n)
    <3>1. 1..n \subseteq 0..n OBVIOUS
    <3> QED BY <2>1, <3>1
  <2>3. W # {} => Max(W) \in W BY <2>2, MaxIs
  <2> QED BY <1>1, <2>1, <2>3 DEF W
<1>7. /\ f.packet_count = Cardinality(S) /\ f.app_type = app
      /\ f.byte_count = SumOver(S, [j \in S |-> lg[j].packet.size])
      /\ f.squares = SumOver(S, [j \in S |-> lg[j].packet.size * lg[j].packet.size])
      /\ f.syn = Cardinality({j \in S : "SYN" \in lg[j].packet.flags})
      /\ f.fin = Cardinality({j \in S : "FIN" \in lg[j].packet.flags})
      /\ f.rst = Cardinality({j \in S : "RST" \in lg[j].packet.flags})
      /\ f.entropy = LET loaded == {j \in S : HasPayload(lg[j].packet)}
                     IN IF loaded = {} THEN 0 ELSE lg[Max(loaded)].packet.entropy
  BY Zenon DEF FeaturesIn
<1>8. f.entropy = IF Loaded(S, pk) = {} THEN 0 ELSE pk[Max(Loaded(S, pk))].entropy
  BY <1>5, <1>6, <1>7
<1>9. Carried(f, S, pk) BY <1>2, <1>3, <1>4, <1>7, <1>8 DEF Carried
<1> QED BY <1>7, <1>9 DEF pk

(* The score of the packets S, the last one telling the application; that   *)
(* of the last multiple of five of M; and the packets of M that are scored. *)
ScoreOf(S) == score(Features(S, AppAt(Max(S))))
Fifth(M) == 5 * (Cardinality(M) \div 5)
LastScore(M) == IF Fifth(M) = 0 THEN NewFlow.anomaly ELSE ScoreOf(FirstOf(M, Fifth(M)))
Scorings(M) == {j \in M : log[j].verdict = "forward" /\ Cardinality({k \in M : k <= j}) % 5 = 0}
Naming(M) == {j \in M : log[j].packet.host \in Names}
LastFlagged(M) == Scorings(M) # {} /\ log[Max(Scorings(M))].flagged

Accounts(f, t, M) ==
  /\ Carried(f, M, Sent)
  /\ IPBlock(t) \/ Naming(M) = {} => f.sni = NewFlow.sni /\ (f.packet_count # 0 => f.app_type = Hint[t])
  /\ f.packet_count = 0 \/ ~f.blocked => f.anomaly = LastScore(M)
  /\ f.anomaly.score >= FLAG_THRESHOLD <=> LastFlagged(M)

LEMMA ScoreStays ==
  ASSUME IsLog, NEW r \in Logged, log' = Append(log, r), NEW S \in SUBSET (1..Len(log)), Max(S) \in S
  PROVE  ScoreOf(S)' = ScoreOf(S)
<1>1. /\ Len(log) \in Nat /\ DOMAIN log = 1..Len(log) /\ DOMAIN log' = 1..(Len(log) + 1)
      /\ \A i \in 1..Len(log) : log'[i] = log[i]
  BY LogGrows
<1>2. PICK a : a = AppAt(Max(S)) OBVIOUS
<1>3. AppAt(Max(S))' = a BY <1>2, HistoryStays
<1>4. PICK f : f = FeaturesIn(S, a, log) OBVIOUS
<1>5. PICK g : g = FeaturesIn(S, a, log') OBVIOUS
<1>6. ScoreOf(S) = score(f) /\ ScoreOf(S)' = score(g)
  <2>1. Features(S, a) = f /\ Features(S, a)' = g BY <1>4, <1>5, FeaturesAre
  <2>2. ScoreOf(S) = score(Features(S, a)) BY <1>2 DEF ScoreOf
  <2>3. ScoreOf(S)' = score(Features(S, a)') BY <1>3 DEF ScoreOf
  <2> QED BY <2>1, <2>2, <2>3
<1>7. Carried(f, S, PacketsOf(log)) /\ f.app_type = a
  <2>1. Within(S, log) BY <1>1 DEF Within
  <2> QED BY <1>4, <2>1, FeaturesCarry
<1>8. Carried(g, S, PacketsOf(log')) /\ g.app_type = a
  <2>1. Len(log) + 1 \in Nat /\ S \subseteq 1..(Len(log) + 1) BY <1>1
  <2>2. Within(S, log') BY <1>1, <2>1 DEF Within
  <2> QED BY <1>5, <2>2, FeaturesCarry
<1>9. Carried(f, S, PacketsOf(log'))
  <2>1. \A j \in S : PacketsOf(log')[j] = PacketsOf(log)[j] BY <1>1 DEF PacketsOf
  <2> QED BY <1>1, <1>7, <2>1, CarriedStays
<1> QED BY <1>6, <1>7, <1>8, <1>9, CarriedScore

LEMMA ScoringsStay ==
  ASSUME IsLog, NEW r \in Logged, log' = Append(log, r), NEW M \in SUBSET (1..Len(log))
  PROVE  /\ Scorings(M)' = Scorings(M) /\ Naming(M)' = Naming(M) /\ (LastFlagged(M)' <=> LastFlagged(M))
         /\ LastScore(M)' = LastScore(M)
<1>1. Len(log) \in Nat /\ \A i \in 1..Len(log) : log'[i] = log[i] BY LogGrows
<1>2. Scorings(M)' = Scorings(M) BY <1>1 DEF Scorings
<1>3. Naming(M)' = Naming(M) BY <1>1 DEF Naming
<1>4. ASSUME Scorings(M) # {} PROVE Max(Scorings(M)) \in 1..Len(log)
  <2> DEFINE W == Scorings(M)
  <2>1. W \subseteq M BY DEF Scorings
  <2> HIDE DEF W
  <2>2. W \in SUBSET (0..Len(log))
    <3>1. 1..Len(log) \subseteq 0..Len(log) BY <1>1
    <3> QED BY <2>1, <3>1
  <2>3. W # {} => Max(W) \in W BY <1>1, <2>2, MaxIs
  <2> QED BY <1>4, <2>1, <2>3 DEF W
<1>5. LastFlagged(M)' <=> LastFlagged(M)
  <2>1. CASE Scorings(M) = {} BY <1>2, <2>1 DEF LastFlagged
  <2>2. CASE Scorings(M) # {}
    <3>1. log'[Max(Scorings(M))] = log[Max(Scorings(M))] BY <1>1, <1>4, <2>2
    <3> QED BY <1>2, <3>1 DEF LastFlagged
  <2> QED BY <2>1, <2>2
<1>6. LastScore(M)' = LastScore(M)
  <2>1. CASE Fifth(M) = 0 BY <2>1 DEF LastScore, Fifth
  <2>2. CASE Fifth(M) # 0
    <3> SUFFICES ASSUME NEW q, q = Fifth(M), NEW S, S = FirstOf(M, q) PROVE LastScore(M)' = LastScore(M)
      OBVIOUS
    <3>1. Cardinality(M) \in Nat
      <4>1. IsFiniteSet(1..Len(log)) BY <1>1, FS_Interval
      <4> QED BY <4>1, FS_Subset, FS_CardinalityType
    <3>2. q \in Nat \ {0} /\ q <= Cardinality(M) BY <2>2, <3>1, Fifths DEF Fifth
    <3>3. M # {}
      <4>1. Cardinality(M) # 0 BY <3>1, <3>2
      <4>2. Cardinality({}) = 0 BY FS_EmptySet
      <4> QED BY <4>1, <4>2
    <3>4. S \in SUBSET (1..Len(log)) /\ Max(S) \in S BY <1>1, <3>2, <3>3, FirstSome
    <3>5. ScoreOf(S)' = ScoreOf(S) BY <3>4, ScoreStays
    <3>6. LastScore(M) = ScoreOf(S) BY <2>2 DEF LastScore
    <3>7. LastScore(M)' = ScoreOf(S)' BY <2>2 DEF LastScore, Fifth
    <3> QED BY <3>5, <3>6, <3>7
  <2> QED BY <2>1, <2>2
<1> QED BY <1>2, <1>3, <1>5, <1>6

LEMMA AccountsStay ==
  ASSUME IsLog, NEW r \in Logged, log' = Append(log, r), NEW M \in SUBSET (1..Len(log)), NEW f, NEW t,
         Accounts(f, t, M)
  PROVE  Accounts(f, t, M)'
<1>1. /\ Len(log) \in Nat /\ DOMAIN log = 1..Len(log) /\ DOMAIN log' = 1..(Len(log) + 1)
      /\ \A i \in 1..Len(log) : log'[i] = log[i]
  BY LogGrows
<1>2. \A j \in M : Sent'[j] = Sent[j] BY <1>1 DEF Sent, PacketsOf
<1>3. Carried(f, M, Sent)
  BY DEF Accounts
<1>4. Carried(f, M, Sent') BY <1>1, <1>2, <1>3, CarriedStays
<1>5. /\ Naming(M)' = Naming(M) /\ (LastFlagged(M)' <=> LastFlagged(M)) /\ LastScore(M)' = LastScore(M)
  BY ScoringsStay
<1> QED BY <1>4, <1>5, Zenon DEF Accounts

LEMMA AccountsNone == ASSUME NEW t PROVE Accounts(NewFlow, t, {})
<1>1. /\ NewFlow.packet_count = 0 /\ NewFlow.byte_count = 0 /\ NewFlow.squares = 0
      /\ NewFlow.syn = 0 /\ NewFlow.fin = 0 /\ NewFlow.rst = 0 /\ NewFlow.entropy = 0 /\ NewFlow.anomaly.score = 0
  BY Zenon DEF NewFlow
<1>2. Cardinality({}) = 0 BY FS_EmptySet
<1>3. Carried(NewFlow, {}, Sent)
  <2>1. \A v : SumOver({}, v) = 0 BY SumOfNone
  <2>2. \A x : {j \in {} : x \in Sent[j].flags} = {} OBVIOUS
  <2>3. Loaded({}, Sent) = {} BY DEF Loaded
  <2> QED BY <1>1, <1>2, <2>1, <2>2, <2>3 DEF Carried
<1>4. Fifth({}) = 0 BY <1>2 DEF Fifth
<1>5. LastScore({}) = NewFlow.anomaly BY <1>4 DEF LastScore
<1>6. ~LastFlagged({}) BY DEF LastFlagged, Scorings
<1>7. ~(NewFlow.anomaly.score >= FLAG_THRESHOLD) BY <1>1 DEF FLAG_THRESHOLD
<1> QED BY <1>1, <1>3, <1>5, <1>6, <1>7 DEF Accounts

(* What handling a packet adds to the account of its flow. *)
Adds(p, t, told, host, f, flow, r) ==
  /\ Handled(p, f, flow, r) /\ IsFlow(f) /\ Known(flow, t, told, host) /\ r.packet = p

(* What one more packet in the history changes. *)
NewlyLogged(r, m, M, T) ==
  /\ Len(log) \in Nat /\ m \in Nat
  /\ \A j \in M : Sent'[j] = Sent[j] /\ Sent'[j] \in Packets
  /\ Sent'[m] = r.packet /\ r.packet \in Packets /\ log'[m] = r
  /\ Naming(T)' = Naming(M) \cup (IF r.packet.host \in Names THEN {m} ELSE {})
  /\ Scorings(T)' = Scorings(M) \cup
       (IF r.verdict = "forward" /\ (Cardinality(M) + 1) % 5 = 0 THEN {m} ELSE {})

LEMMA NewAccount ==
  ASSUME IsLog, NEW r \in Logged, log' = Append(log, r), NEW m, m = Len(log) + 1,
         NEW M \in SUBSET (1..Len(log)), NEW T, T = M \cup {m}
  PROVE  NewlyLogged(r, m, M, T)
<1>1. /\ Len(log) \in Nat /\ DOMAIN log = 1..Len(log) /\ DOMAIN log' = 1..(Len(log) + 1)
      /\ \A i \in 1..Len(log) : log'[i] = log[i]
      /\ log'[m] = r
  BY LogGrows
<1>2. \A i \in 1..Len(log) : log[i] \in Logged BY <1>1, ElementOfSeq DEF IsLog
<1>3. \A x \in Logged : x.packet \in Packets BY DEF Logged
<1>4. \A j \in M : Sent'[j] = Sent[j] /\ Sent'[j] \in Packets
  BY <1>1, <1>2, <1>3 DEF Sent, PacketsOf
<1>5. Sent'[m] = r.packet BY <1>1 DEF Sent, PacketsOf
<1>6. Naming(T)' = Naming(M) \cup (IF r.packet.host \in Names THEN {m} ELSE {})
  BY <1>1 DEF Naming
<1>7. Scorings(T)' = Scorings(M) \cup
              (IF r.verdict = "forward" /\ (Cardinality(M) + 1) % 5 = 0 THEN {m} ELSE {})
  <2>1. /\ \A j \in M : {k \in T : k <= j} = {k \in M : k <= j} /\ j # m
        /\ {k \in T : k <= m} = T /\ Cardinality(T) = Cardinality(M) + 1
    <3>1. Follows(M, m, T) BY <1>1 DEF Follows
    <3> QED BY <3>1, RanksGrow DEF Ranked
  <2>2. \A j : j \in Scorings(T)' <=> j \in T /\ log'[j].verdict = "forward" /\ Cardinality({k \in T : k <= j}) % 5 = 0
    BY DEF Scorings
  <2>3. \A j : j \in Scorings(M) <=> j \in M /\ log[j].verdict = "forward" /\ Cardinality({k \in M : k <= j}) % 5 = 0
    BY DEF Scorings
  <2>4. ASSUME NEW j \in M PROVE j \in Scorings(T)' <=> j \in Scorings(M)
    <3>1. log'[j] = log[j] /\ {k \in T : k <= j} = {k \in M : k <= j} BY <1>1, <2>1
    <3> QED BY <2>2, <2>3, <3>1
  <2>5. m \in Scorings(T)' <=> r.verdict = "forward" /\ (Cardinality(M) + 1) % 5 = 0
    <3>1. Cardinality({k \in T : k <= m}) = Cardinality(M) + 1 BY <2>1
    <3> QED BY <1>1, <2>2, <3>1
  <2>6. /\ \A j : j \in Scorings(T)' => j \in M \/ j = m
        /\ \A j \in Scorings(M) : j \in M
    BY <2>2, <2>3
  <2> QED BY <2>4, <2>5, <2>6
<1>8. Len(log) \in Nat /\ m \in Nat /\ r.packet \in Packets /\ log'[m] = r BY <1>1, <1>3
<1> QED BY <1>4, <1>5, <1>6, <1>7, <1>8, Zenon DEF NewlyLogged

LEMMA CarriedMore ==
  ASSUME IsLog, NEW r \in Logged, log' = Append(log, r), NEW m, m = Len(log) + 1,
         NEW M \in SUBSET (1..Len(log)), NEW T, T = M \cup {m},
         NEW p, NEW t, t = p.tuple, NEW told, NEW host, NEW f, NEW flow, Adds(p, t, told, host, f, flow, r),
         Carried(f, M, Sent)
  PROVE  Carried(flow, T, Sent')
<1>1. /\ Len(log) \in Nat /\ m \in Nat
      /\ \A j \in M : Sent'[j] = Sent[j] /\ Sent'[j] \in Packets
      /\ Sent'[m] = p /\ p \in Packets
  <2>1. r.packet = p BY DEF Adds
  <2>2. /\ Len(log) \in Nat /\ m \in Nat
        /\ \A j \in M : Sent'[j] = Sent[j] /\ Sent'[j] \in Packets
        /\ Sent'[m] = r.packet /\ r.packet \in Packets
    <3>1. NewlyLogged(r, m, M, T) BY NewAccount
    <3> QED BY <3>1 DEF NewlyLogged
  <2> QED BY <2>1, <2>2
<1>2. /\ IsFlow(f) /\ IsFlow(flow)
      /\ flow.packet_count = f.packet_count + 1 /\ flow.byte_count = f.byte_count + p.size
      /\ flow.squares = f.squares + p.size * p.size
      /\ flow.syn = f.syn + (IF "SYN" \in p.flags THEN 1 ELSE 0)
      /\ flow.fin = f.fin + (IF "FIN" \in p.flags THEN 1 ELSE 0)
      /\ flow.rst = f.rst + (IF "RST" \in p.flags THEN 1 ELSE 0)
      /\ flow.entropy = (IF p.host # NoPayload THEN p.entropy ELSE f.entropy)
  <2>1. IsFlow(f) /\ Handled(p, f, flow, r) BY DEF Adds
  <2> QED BY <1>1, <2>1, HandledIs
<1> QED BY <1>1, <1>2, CarriedGrows

(* When a packet is due to be scored. *)
LEMMA DueIs ==
  ASSUME NEW c \in Nat, NEW flow, flow.packet_count = c + 1
  PROVE  Due(flow) <=> (c + 1) % 5 = 0
<1>1. (c + 1) % 5 = 0 => c + 1 >= 5 BY Fifths
<1> QED BY <1>1 DEF Due

LEMMA LastScoreGrows ==
  ASSUME IsLog, NEW r \in Logged, log' = Append(log, r), NEW m, m = Len(log) + 1,
         NEW M \in SUBSET (1..Len(log)), NEW T, T = M \cup {m},
         NEW f, f.packet_count = Cardinality(M), NEW flow, flow.packet_count = f.packet_count + 1,
         Carried(flow, T, Sent'), f.anomaly = LastScore(M), flow.app_type = AppAt(m)',
         flow.anomaly = IF Due(flow) THEN score(flow) ELSE f.anomaly
  PROVE  flow.anomaly = LastScore(T)'
<1>1. Len(log) \in Nat /\ DOMAIN log' = 1..m
  BY LogGrows
<1>2. Follows(M, m, T)
  BY <1>1 DEF Follows
<1>3. PICK c \in Nat : c = Cardinality(M)
  BY <1>2, RanksGrow DEF Ranked
<1>4. /\ Cardinality(T) = c + 1 /\ FirstOf(T, c + 1) = T /\ Max(T) = m
      /\ \A q \in Nat : q <= c => FirstOf(T, q) = FirstOf(M, q)
  <2>1. /\ Cardinality(T) = Cardinality(M) + 1 /\ FirstOf(T, Cardinality(T)) = T /\ Max(T) = m
        /\ \A q \in Nat : q <= Cardinality(M) => FirstOf(T, q) = FirstOf(M, q)
    <3>1. Ranked(M, m, T) BY <1>2, RanksGrow
    <3> QED BY <3>1 DEF Ranked
  <2> QED BY <1>3, <2>1
<1>5. Due(flow) <=> (c + 1) % 5 = 0 BY <1>3, DueIs
<1>6. LastScore(T)' = IF Fifth(T) = 0 THEN NewFlow.anomaly ELSE ScoreOf(FirstOf(T, Fifth(T)))'
  BY DEF LastScore, Fifth, NewFlow
<1>7. CASE Due(flow)
  <2>1. Fifth(T) = c + 1 /\ Fifth(T) # 0 BY <1>4, <1>5, <1>7, Fifths DEF Fifth
  <2>2. LastScore(T)' = ScoreOf(T)' BY <1>4, <1>6, <2>1
  <2>3. PICK a : a = AppAt(m)' OBVIOUS
  <2>4. PICK g : g = FeaturesIn(T, a, log') OBVIOUS
  <2>5. ScoreOf(T)' = score(g)
    <3>1. Features(T, a)' = g BY <2>4, FeaturesAre
    <3>2. ScoreOf(T)' = score(Features(T, a)') BY <1>4, <2>3 DEF ScoreOf
    <3> QED BY <3>1, <3>2
  <2>6. Carried(g, T, PacketsOf(log')) /\ g.app_type = a
    <3>1. m \in Nat /\ T \subseteq 1..m
      <4>1. m \in 1..m /\ \A j \in 1..(m - 1) : j \in 1..m BY <1>2 DEF Follows
      <4> QED BY <1>2, <4>1 DEF Follows
    <3>2. Within(T, log') BY <1>1, <3>1 DEF Within
    <3> QED BY <2>4, <3>2, FeaturesCarry
  <2>7. Carried(flow, T, PacketsOf(log')) BY DEF Sent
  <2>8. score(flow) = score(g) BY <2>3, <2>6, <2>7, CarriedScore
  <2> QED BY <1>7, <2>2, <2>5, <2>8
<1>8. CASE ~Due(flow)
  <2>1. Fifth(T) = Fifth(M) /\ Fifth(M) \in Nat /\ Fifth(M) <= c BY <1>3, <1>4, <1>5, <1>8, Fifths DEF Fifth
  <2>2. Fifth(M) # 0 => FirstOf(T, Fifth(T)) = FirstOf(M, Fifth(M)) BY <1>4, <2>1
  <2>3. LastScore(M)' = LastScore(M) BY ScoringsStay
  <2>4. LastScore(M)' = IF Fifth(M) = 0 THEN NewFlow.anomaly ELSE ScoreOf(FirstOf(M, Fifth(M)))'
    BY DEF LastScore, Fifth, NewFlow
  <2> QED BY <1>6, <1>8, <2>1, <2>2, <2>3, <2>4
<1> QED BY <1>7, <1>8

LEMMA AccountsGrow ==
  ASSUME IsLog, NEW r \in Logged, log' = Append(log, r), NEW m, m = Len(log) + 1,
         NEW M \in SUBSET (1..Len(log)), NEW T, T = M \cup {m},
         NEW p, NEW t, t = p.tuple, NEW told, NEW host, NEW f, NEW flow, Adds(p, t, told, host, f, flow, r),
         Accounts(f, t, M),
         IPBlock(t) => f.packet_count = 0 \/ f.blocked,
         ~flow.blocked => flow.app_type = AppAt(m)'
  PROVE  Accounts(flow, t, T)'
<1>1. /\ Len(log) \in Nat /\ m \in Nat /\ p \in Packets /\ log'[m] = r /\ r.packet = p
      /\ Naming(T)' = Naming(M) \cup (IF p.host \in Names THEN {m} ELSE {})
      /\ Scorings(T)' = Scorings(M) \cup
           (IF r.verdict = "forward" /\ (Cardinality(M) + 1) % 5 = 0 THEN {m} ELSE {})
  <2>1. /\ Len(log) \in Nat /\ m \in Nat /\ r.packet \in Packets /\ log'[m] = r
        /\ Naming(T)' = Naming(M) \cup (IF r.packet.host \in Names THEN {m} ELSE {})
        /\ Scorings(T)' = Scorings(M) \cup
             (IF r.verdict = "forward" /\ (Cardinality(M) + 1) % 5 = 0 THEN {m} ELSE {})
    <3>1. NewlyLogged(r, m, M, T) BY NewAccount
    <3> QED BY <3>1 DEF NewlyLogged
  <2>2. r.packet = p BY DEF Adds
  <2> QED BY <2>1, <2>2, Zenon
<1>2. /\ IsFlow(flow) /\ flow.packet_count = f.packet_count + 1
      /\ r.verdict = "drop" => flow.blocked /\ flow.anomaly = f.anomaly
      /\ r.verdict # "drop" =>
           /\ r.verdict = "forward" /\ ~flow.blocked /\ (f.packet_count # 0 => ~f.blocked)
           /\ flow.anomaly = IF Due(flow) THEN score(flow) ELSE f.anomaly
           /\ r.flagged <=> Due(flow) /\ flow.anomaly.score >= FLAG_THRESHOLD
      /\ (IF f.packet_count = 0 THEN IPBlock(t) ELSE f.blocked) \/ f.classified \/ p.host \notin Names =>
           /\ flow.sni = f.sni
           /\ flow.app_type = IF f.packet_count = 0 THEN Hint[t] ELSE f.app_type
  <2>1. IsFlow(f) /\ Handled(p, f, flow, r) BY DEF Adds
  <2> QED BY <1>1, <2>1, HandledIs
<1>3. Carried(f, M, Sent) /\ f.packet_count = Cardinality(M) /\ Cardinality(M) \in Nat
  <2>1. Carried(f, M, Sent) BY DEF Accounts
  <2>2. IsFiniteSet(1..Len(log)) BY <1>1, FS_Interval
  <2> QED BY <2>1, <2>2, FS_Subset, FS_CardinalityType DEF Carried
<1>4. Carried(flow, T, Sent') BY <1>3, CarriedMore
<1>5. IPBlock(t) \/ Naming(T)' = {} =>
        flow.sni = NewFlow.sni /\ (flow.packet_count # 0 => flow.app_type = Hint[t])
  <2> SUFFICES ASSUME IPBlock(t) \/ Naming(T)' = {}
               PROVE  flow.sni = NewFlow.sni /\ flow.app_type = Hint[t]
    OBVIOUS
  <2>1. IPBlock(t) \/ Naming(M) = {} BY <1>1
  <2>2. f.sni = NewFlow.sni /\ (f.packet_count # 0 => f.app_type = Hint[t]) BY <2>1 DEF Accounts
  <2>3. (IF f.packet_count = 0 THEN IPBlock(t) ELSE f.blocked) \/ p.host \notin Names
    <3>1. CASE IPBlock(t) BY <3>1
    <3>2. CASE ~IPBlock(t)
      <4>1. p.host \in Names => m \in Naming(T)' BY <1>1
      <4> QED BY <3>2, <4>1
    <3> QED BY <3>1, <3>2
  <2> QED BY <1>2, <2>2, <2>3
<1>6. flow.packet_count = 0 \/ ~flow.blocked => flow.anomaly = LastScore(T)'
  <2> SUFFICES ASSUME ~flow.blocked PROVE flow.anomaly = LastScore(T)'
    BY <1>2, <1>3
  <2>1. r.verdict # "drop" BY <1>2
  <2>2. flow.anomaly = IF Due(flow) THEN score(flow) ELSE f.anomaly BY <1>2, <2>1
  <2>3. f.anomaly = LastScore(M) BY <1>2, <2>1 DEF Accounts
  <2> QED BY <1>2, <1>3, <1>4, <2>2, <2>3, LastScoreGrows
<1>7. flow.anomaly.score >= FLAG_THRESHOLD <=> LastFlagged(T)'
  <2>1. f.anomaly.score >= FLAG_THRESHOLD <=> LastFlagged(M) BY DEF Accounts
  <2>2. LastFlagged(M)' <=> LastFlagged(M) BY ScoringsStay
  <2>3. Scorings(M)' = Scorings(M) BY ScoringsStay
  <2>4. PICK c \in Nat : c = Cardinality(M) BY <1>3
  <2>5. Due(flow) <=> (c + 1) % 5 = 0 BY <1>2, <1>3, <2>4, DueIs
  <2>6. CASE r.verdict # "drop" /\ Due(flow)
    <3>1. r.flagged <=> flow.anomaly.score >= FLAG_THRESHOLD BY <1>2, <2>6
    <3>2. Scorings(T)' = Scorings(M) \cup {m} BY <1>1, <1>2, <2>4, <2>5, <2>6
    <3>3. Max(Scorings(M) \cup {m}) = m
      <4> DEFINE W == Scorings(M) \cup {m}
      <4>1. \A y \in W : y \in 0..m BY <1>1 DEF Scorings
      <4>2. m \in W OBVIOUS
      <4> HIDE DEF W
      <4>3. W \in SUBSET (0..m) /\ \A y \in W : y <= m BY <1>1, <4>1
      <4>4. Max(W) = m BY <1>1, <4>2, <4>3, MaxIs
      <4> QED BY <4>4 DEF W
    <3>4. LastFlagged(T)' <=> log'[m].flagged
      <4>1. LastFlagged(T)' <=> Scorings(T)' # {} /\ log'[Max(Scorings(T)')].flagged BY DEF LastFlagged
      <4> QED BY <3>2, <3>3, <4>1
    <3> QED BY <1>1, <3>1, <3>4
  <2>7. CASE ~(r.verdict # "drop" /\ Due(flow))
    <3>1. flow.anomaly = f.anomaly BY <1>2, <2>7
    <3>2. Scorings(T)' = Scorings(M)
      <4>1. r.verdict = "forward" /\ (c + 1) % 5 = 0 => r.verdict # "drop" /\ Due(flow) BY <2>5
      <4> QED BY <1>1, <2>4, <2>7, <4>1
    <3>3. LastFlagged(T)' <=> LastFlagged(M)'
      <4>1. LastFlagged(T)' <=> Scorings(T)' # {} /\ log'[Max(Scorings(T)')].flagged BY DEF LastFlagged
      <4>2. LastFlagged(M)' <=> Scorings(M)' # {} /\ log'[Max(Scorings(M)')].flagged BY DEF LastFlagged
      <4> QED BY <2>3, <3>2, <4>1, <4>2
    <3> QED BY <2>1, <2>2, <3>1, <3>3
  <2> QED BY <2>6, <2>7
<1> QED BY <1>4, <1>5, <1>6, <1>7, Zenon DEF Accounts

(* The table carries what it remembers. *)
Accounted == \A k, u, a : At(k, u) /\ a = LastOf(u) => Accounts(flow_table[k].flow, u, Memory(a))

Remembered(t) == IF Held(t) THEN Memory(LastOf(t)) ELSE {}

LEMMA FoundAccount ==
  ASSUME Base, Accounted, NEW t, NEW f, f = Table!Lookup(flow_table, t), NEW M, M = Remembered(t)
  PROVE  /\ M \in SUBSET (1..Len(log)) /\ IsFlow(f) /\ Accounts(f, t, M)
         /\ IPBlock(t) => f.packet_count = 0 \/ f.blocked
<1>1. /\ IsLog /\ Ordered /\ FlowsKnown /\ DOMAIN flow_table = 1..Len(flow_table) /\ DOMAIN log = 1..Len(log)
      /\ Len(log) \in Nat
  BY LenProperties DEF Base, Ordered, IsSeq, IsLog
<1>2. Table!Holds(flow_table, t) <=> Held(t) BY <1>1 DEF Table!Holds, Held, At
<1>3. CASE ~Held(t)
  <2>1. f = NewFlow BY <1>2, <1>3 DEF Table!Lookup
  <2>2. M = {} BY <1>3 DEF Remembered
  <2> QED BY <2>1, <2>2, AccountsNone, NewFlowIs
<1>4. CASE Held(t)
  <2> DEFINE k == Table!Place(flow_table, t)
  <2>1. f = flow_table[k].flow BY <1>2, <1>4 DEF Table!Lookup, Table!FlowOf
  <2>2. k \in DOMAIN flow_table /\ flow_table[k].tuple = t
    BY <1>2, <1>4 DEF Table!Place, Table!Holds
  <2>3. At(k, t) BY <1>1, <2>2 DEF At
  <2> HIDE DEF k
  <2>4. PICK a : a = LastOf(t) OBVIOUS
  <2>5. Accounts(f, t, M) BY <1>4, <2>1, <2>3, <2>4 DEF Accounted, Remembered
  <2>6. Known(f, t, Told(t), HostOf(a)) BY <1>1, <2>1, <2>3, <2>4 DEF FlowsKnown
  <2>7. a \in 1..Len(log)
    <3>1. Met(t) BY <1>1, <2>3 DEF Ordered
    <3> QED BY <1>1, <2>4, <3>1, LastFacts DEF LastIs
  <2>8. M \in SUBSET (1..Len(log))
    <3>1. a \in Nat \ {0} BY <1>1, <2>7
    <3>2. Memory(a) \subseteq Earlier(a) \cup {a} /\ Earlier(a) \subseteq 1..(a - 1)
      BY <3>1, HistoryFacts DEF HistoryIs
    <3>3. 1..(a - 1) \subseteq 1..Len(log) BY <1>1, <2>7
    <3> QED BY <1>4, <2>4, <2>7, <3>2, <3>3 DEF Remembered
  <2> QED BY <2>5, <2>6, <2>8 DEF Known, Learnt
<1> QED BY <1>3, <1>4

(* What is known when a packet has been handled: M are the packets its flow  *)
(* was remembered by, T those by which it is remembered now.                *)
Takes(p, t, told, host, f, flow, r, M, T, app) ==
  /\ Recorded(p, flow, r) /\ Adds(p, t, told, host, f, flow, r) /\ r \in Logged /\ log' = Append(log, r)
  /\ M \in SUBSET (1..Len(log)) /\ T = M \cup {Len(log) + 1} /\ Accounts(f, t, M)
  /\ IPBlock(t) => f.packet_count = 0 \/ f.blocked
  /\ ~flow.blocked => flow.app_type = app

LEMMA PacketTaken ==
  ASSUME Base, Accounted, NEW p \in Packets, FastDrop(p) \/ BlockAndDrop(p) \/ Forward(p),
         NEW t, t = p.tuple, NEW m, m = Len(log) + 1, NEW T, T = Memory(m)', NEW app, app = AppAt(m)'
  PROVE  \E told, host, f, flow, r, M : Takes(p, t, told, host, f, flow, r, M, T, app)
<1> SUFFICES ASSUME NEW a, a = LastOf(t),
                    NEW told, told = (Told(t) \/ p.host \in Names),
                    NEW host, host = (IF Told(t) THEN HostOf(a) ELSE p.host)
             PROVE  \E f, flow, r, M : Takes(p, t, told, host, f, flow, r, M, T, app)
  OBVIOUS
<1>1. IsLog /\ CountersAreNumbers /\ Ordered /\ FlowsKnown BY DEF Base
<1>2. PICK flow, r : Outcome(p, t, told, host, flow, r)
  BY <1>1, Outcomes
<1>3. PICK f : f = Table!Lookup(flow_table, t) OBVIOUS
<1>4. PICK M : M = Remembered(t) OBVIOUS
<1>5. /\ Recorded(p, flow, r) /\ Known(flow, t, told, host) /\ Handled(p, f, flow, r)
      /\ r \in Logged /\ log' = Append(log, r) /\ r.packet = p
  BY <1>2, <1>3 DEF Outcome, Recorded
<1>6. /\ M \in SUBSET (1..Len(log)) /\ IsFlow(f) /\ Accounts(f, t, M)
      /\ IPBlock(t) => f.packet_count = 0 \/ f.blocked
  BY <1>3, <1>4, FoundAccount
<1>7. ~flow.blocked => flow.app_type = app
  <2>1. Of(m)' = t BY <1>1, <1>5, LogGrows
  <2>2. /\ Tells(m)' # {} <=> told
        /\ told => HostOf(m)' = host
    BY <1>1, <1>5, NewHost
  <2>3. app = IF told THEN AppOfName[host] ELSE Hint[t]
    <3>1. AppAt(m)' = IF Tells(m)' = {} THEN Hint[Of(m)'] ELSE AppOfName[HostOf(m)'] BY DEF AppAt
    <3> QED BY <2>1, <2>2, <3>1
  <2> QED BY <1>5, <2>3 DEF Known, Learnt
<1>8. T = M \cup {m} BY <1>1, <1>4, <1>5, NewMemory DEF Remembered
<1>9. Adds(p, t, told, host, f, flow, r) BY <1>5, <1>6 DEF Adds
<1>10. Takes(p, t, told, host, f, flow, r, M, T, app) BY <1>5, <1>6, <1>7, <1>8, <1>9 DEF Takes
<1> QED BY <1>10

LEMMA AccountedStep ==
  ASSUME Base, Accounted, NEW p \in Packets, FastDrop(p) \/ BlockAndDrop(p) \/ Forward(p)
  PROVE  Accounted'
<1> SUFFICES ASSUME NEW t, t = p.tuple, NEW m, m = Len(log) + 1
             PROVE  Accounted'
  OBVIOUS
<1>1. IsLog /\ CountersAreNumbers /\ Ordered /\ FlowsKnown BY DEF Base
<1>8. PICK T : T = Memory(m)' OBVIOUS
<1>2. PICK app : app = AppAt(m)' OBVIOUS
<1>3. PICK told, host, f, flow, r, M : Takes(p, t, told, host, f, flow, r, M, T, app)
  BY <1>2, <1>8, PacketTaken
<1>5. /\ Recorded(p, flow, r) /\ r \in Logged /\ log' = Append(log, r) /\ r.packet = p
  BY <1>3 DEF Takes, Adds
<1>6. /\ M \in SUBSET (1..Len(log)) /\ Accounts(f, t, M)
      /\ IPBlock(t) => f.packet_count = 0 \/ f.blocked
  BY <1>3 DEF Takes
<1>7. ~flow.blocked => flow.app_type = AppAt(m)' BY <1>2, <1>3 DEF Takes
<1>9. T = M \cup {m} BY <1>3 DEF Takes
<1>10. Adds(p, t, told, host, f, flow, r) BY <1>3 DEF Takes
<1>11. Accounts(flow, t, T)' BY <1>1, <1>5, <1>6, <1>7, <1>9, <1>10, AccountsGrow
<1>12. IsSeq(flow_table) BY <1>1 DEF Ordered
<1>13. PICK gap \in 0..Len(flow_table) : Shifted(gap, t, flow)
  BY <1>5, <1>12, Stores
<1>14. \A k, u : k # Len(flow_table') =>
         (At(k, u)' <=> k \in 1..(Len(flow_table') - 1) /\ At(From(gap, k), u) /\ u # t)
  <2>1. IsSeq(flow_table)' BY <1>5, <1>12, Stores
  <2> QED BY <1>1, <1>5, <1>13, <2>1, OrderedStep
<1> SUFFICES ASSUME NEW k, NEW u, NEW b, At(k, u)', b = LastOf(u)', NEW g, g = flow_table'[k].flow,
                    NEW N, N = Memory(b)'
             PROVE  Accounts(g, u, N)'
  BY DEF Accounted
<1>15. CASE k = Len(flow_table')
  <2>1. u = t /\ flow_table'[k].flow = flow BY <1>13, <1>15 DEF Shifted, At
  <2>2. b = m BY <1>1, <1>5, <2>1, LastGrows
  <2> QED BY <1>8, <1>11, <2>1, <2>2
<1>16. CASE k # Len(flow_table')
  <2>1. k \in 1..(Len(flow_table') - 1) /\ At(From(gap, k), u) /\ u # t BY <1>14, <1>16
  <2>2. flow_table'[k] = flow_table[From(gap, k)] BY <1>13, <2>1 DEF Shifted
  <2>3. Met(u) BY <1>1, <2>1 DEF Ordered
  <2>4. b = LastOf(u) /\ b \in 1..Len(log)
    <3>1. LastOf(u) \in 1..Len(log) BY <1>1, <2>3, LastFacts DEF LastIs
    <3> QED BY <1>1, <1>5, <2>1, <2>3, <3>1, LastGrows
  <2>5. Memory(b) = N BY <1>1, <1>5, <2>4, HistoryStays
  <2>7. Accounts(flow_table[From(gap, k)].flow, u, N) BY <2>1, <2>4, <2>5 DEF Accounted
  <2>8. g = flow_table[From(gap, k)].flow BY <2>2
  <2>9. N \in SUBSET (1..Len(log))
    <3>1. Len(log) \in Nat BY <1>1, <1>5, LogGrows
    <3>2. b \in Nat \ {0} BY <2>4, <3>1
    <3>3. N \subseteq Earlier(b) \cup {b} /\ Earlier(b) \subseteq 1..(b - 1)
      BY <2>5, <3>2, HistoryFacts DEF HistoryIs
    <3>4. 1..(b - 1) \subseteq 1..Len(log) BY <2>4, <3>1
    <3> QED BY <2>4, <3>3, <3>4
  <2>10. Accounts(g, u, N)' BY <1>1, <1>5, <2>7, <2>8, <2>9, AccountsStay
  <2> QED BY <2>10
<1> QED BY <1>15, <1>16

LEMMA AccountedIdle == Base /\ Accounted /\ Idle => Accounted'
<1> SUFFICES ASSUME Base, Accounted, Idle,
                    NEW k, NEW u, NEW b, At(k, u)', b = LastOf(u)', NEW f, f = flow_table'[k].flow,
                    NEW M, M = Memory(b)'
             PROVE  Accounts(f, u, M)'
  BY DEF Accounted
<1>1. log' = log /\ flow_table' = flow_table BY DEF Idle, vars
<1>2. At(k, u) /\ f = flow_table[k].flow BY <1>1 DEF At
<1>3. LastOf(u) = b BY <1>1, HistoryIdle
<1>4. Memory(b) = M
  <2>1. Memory(b)' = Memory(b)
    BY <1>1 DEF Memory, Start, Forgot, Earlier, Of
  <2> QED BY <2>1
<1>5. Accounts(f, u, M) BY <1>2, <1>3, <1>4 DEF Accounted
<1>6. \A i : AppAt(i)' = AppAt(i) BY <1>1, HistoryIdle
<1>7. Sent' = Sent BY <1>1 DEF Sent
<1>8. Naming(M)' = Naming(M) /\ Scorings(M)' = Scorings(M) BY <1>1 DEF Naming, Scorings
<1>9. LastFlagged(M)' <=> LastFlagged(M) BY <1>1, <1>8 DEF LastFlagged
<1>10. LastScore(M)' = LastScore(M)
  <2> SUFFICES ASSUME NEW S PROVE ScoreOf(S)' = ScoreOf(S)
    BY DEF LastScore, Fifth
  <2>1. PICK a : a = AppAt(Max(S)) OBVIOUS
  <2>2. AppAt(Max(S))' = a BY <1>6, <2>1
  <2>3. Features(S, a)' = Features(S, a) BY <1>1, FeaturesAre
  <2> QED BY <2>1, <2>2, <2>3 DEF ScoreOf
<1> QED BY <1>5, <1>7, <1>8, <1>9, <1>10, Zenon DEF Accounts

LEMMA Always == Spec => [](Base /\ Accounted /\ VerdictFollowsHistory)
<1>1. Init => Base /\ Accounted
  <2> SUFFICES ASSUME Init PROVE Base /\ Accounted
    OBVIOUS
  <2>1. flow_table = <<>> BY DEF Init, Table!TableInit
  <2>2. \A k, u : ~At(k, u) BY <2>1 DEF At
  <2> QED BY <2>2, BaseStart DEF Accounted
<1>2. Base /\ Accounted /\ [Next]_vars => (Base /\ Accounted)'
  <2> SUFFICES ASSUME Base, Accounted, [Next]_vars PROVE Base' /\ Accounted'
    OBVIOUS
  <2>1. ASSUME NEW p \in Packets, FastDrop(p) \/ BlockAndDrop(p) \/ Forward(p)
        PROVE  Base' /\ Accounted'
    <3>1. Base' BY <2>1, BaseStep
    <3> QED BY <2>1, <3>1, AccountedStep
  <2>2. ASSUME Idle PROVE Base' /\ Accounted' BY <2>2, BaseIdle, AccountedIdle
  <2>3. UNCHANGED vars => Idle BY DEF Idle
  <2> QED BY <2>1, <2>2, <2>3 DEF Next
<1>3. Spec => []VerdictFollowsHistory BY VerdictsFollow
<1> QED BY <1>1, <1>2, <1>3, PTL DEF Spec

(* A flow in the table whose last packet was forwarded is not blocked.      *)
LEMMA OpenFlow ==
  ASSUME Base, VerdictFollowsHistory, NEW k, NEW u, At(k, u), NEW a, a = LastOf(u)
  PROVE  /\ a \in DOMAIN log /\ a \in Nat \ {0} /\ Of(a) = u
         /\ Known(flow_table[k].flow, u, Told(u), HostOf(a))
         /\ Told(u) <=> Tells(a) # {}
         /\ log[a].verdict = "drop" <=> flow_table[k].flow.blocked
<1>1. /\ IsLog /\ Ordered /\ FlowsKnown /\ DOMAIN log = 1..Len(log) /\ Len(log) \in Nat
  BY LenProperties DEF Base, IsLog
<1>2. Met(u) /\ Held(u) BY <1>1 DEF Ordered, Held
<1>3. a \in DOMAIN log /\ a \in Nat \ {0} /\ Of(a) = u BY <1>1, <1>2, LastFacts DEF LastIs
<1>4. PICK h : h = HostOf(a) OBVIOUS
<1>5. Known(flow_table[k].flow, u, Told(u), h) BY <1>1, <1>4 DEF FlowsKnown
<1>6. Told(u) <=> Tells(a) # {} BY <1>2 DEF Told
<1>7. log[a].verdict = "drop" <=> IPBlock(u) \/ (Tells(a) # {} /\ isBlocked(rules_, SrcIP[u], AppOfName[h], h))
  <2>1. log[a].verdict = "drop" <=>
          \/ isBlocked(rules_, SrcIP[Of(a)], UNKNOWN, "")
          \/ Tells(a) # {} /\ isBlocked(rules_, SrcIP[Of(a)], AppOfName[HostOf(a)], HostOf(a))
    BY <1>3, Zenon DEF VerdictFollowsHistory
  <2> QED BY <1>3, <1>4, <2>1, Zenon DEF IPBlock
<1>8. log[a].verdict = "drop" <=> flow_table[k].flow.blocked
  <2>1. Learnt(flow_table[k].flow, u, Told(u), h) BY <1>5 DEF Known
  <2>2. CASE IPBlock(u) BY <1>7, <2>1, <2>2 DEF Learnt
  <2>3. CASE ~IPBlock(u) BY <1>6, <1>7, <2>1, <2>3 DEF Learnt
  <2> QED BY <2>2, <2>3
<1> QED BY <1>3, <1>4, <1>5, <1>6, <1>8

LEMMA EntriesAre ==
  ASSUME Base
  PROVE  /\ \A e \in Kept : \E k : At(k, e.tuple) /\ flow_table[k] = e
         /\ \A k, u : At(k, u) => flow_table[k] \in Kept
<1>1. DOMAIN flow_table = 1..Len(flow_table) BY DEF Base, Ordered, IsSeq
<1> QED BY <1>1 DEF Kept, At

(* FastPath.ScoreIsOfLastMultipleOfFive: the anomaly reported for a flow     *)
(* whose packets are forwarded is the score of what it had carried, since   *)
(* the table last forgot it, at its last multiple of five packets.          *)
THEOREM ScoresAreOfFifths == Spec => []ScoreIsOfLastMultipleOfFive
<1>1. Base /\ Accounted /\ VerdictFollowsHistory => ScoreIsOfLastMultipleOfFive
  <2> SUFFICES ASSUME Base, Accounted, VerdictFollowsHistory, NEW e \in Kept,
                      NEW i, i = LastOf(e.tuple), log[i].verdict = "forward",
                      NEW n, n = 5 * (Cardinality(Memory(i)) \div 5)
               PROVE  e.flow.anomaly = IF n = 0 THEN NewFlow.anomaly
                          ELSE LET S == FirstOf(Memory(i), n) IN score(Features(S, AppAt(Max(S))))
    BY Zenon DEF ScoreIsOfLastMultipleOfFive, Kept
  <2>1. PICK k : At(k, e.tuple) /\ flow_table[k] = e BY EntriesAre
  <2>2. ~e.flow.blocked BY <2>1, OpenFlow
  <2>3. PICK M : M = Memory(i) OBVIOUS
  <2>4. Accounts(e.flow, e.tuple, M) BY <2>1, <2>3 DEF Accounted
  <2>5. e.flow.anomaly = LastScore(M) BY <2>2, <2>4 DEF Accounts
  <2> QED BY <2>3, <2>5, Zenon DEF LastScore, Fifth, ScoreOf
<1> QED BY <1>1, Always, PTL

-----------------------------------------------------------------------------
(* What is flagged.                                                         *)

(* The square of a sum is at most the number of terms times the squares.    *)
LEMMA OneMoreSquare ==
  ASSUME NEW n \in Nat, NEW b \in Nat, NEW s \in Nat, NEW x \in Nat, n * s >= b * b
  PROVE  (n + 1) * (x * x + s) >= (x + b) * (x + b)
<1>1. CASE n = 0
  <2>1. b = 0
    <3>1. b * b <= 0 BY <1>1
    <3>2. b # 0 => b * b >= b BY SMT
    <3> QED BY <3>1, <3>2
  <2> QED BY <1>1, <2>1
<1>2. CASE n # 0
  <2>1. PICK y \in Nat : y = n * x OBVIOUS
  <2>2. b * b + y * y >= 2 * (b * y)
    <3>1. PICK d \in Int : d = b - y OBVIOUS
    <3>2. d * d >= 0 OBVIOUS
    <3>3. d * d = b * b + y * y - 2 * (b * y) BY <3>1
    <3>4. b * b \in Nat /\ y * y \in Nat /\ b * y \in Nat /\ d * d \in Int OBVIOUS
    <3> QED BY <3>2, <3>3, <3>4
  <2>3. y * y = n * (n * (x * x)) /\ b * y = n * (b * x) BY <2>1
  <2>4. n * (s + n * (x * x)) >= n * (2 * (b * x))
    <3>1. n * (s + n * (x * x)) = n * s + n * (n * (x * x)) OBVIOUS
    <3>2. n * (2 * (b * x)) = 2 * (n * (b * x)) OBVIOUS
    <3>3. n * s \in Nat /\ b * b \in Nat /\ y * y \in Nat /\ b * y \in Nat OBVIOUS
    <3> QED BY <2>2, <2>3, <3>1, <3>2, <3>3
  <2>5. s + n * (x * x) >= 2 * (b * x)
    <3>1. \A u, v \in Nat : n * u >= n * v => u >= v BY <1>2
    <3>2. s + n * (x * x) \in Nat /\ 2 * (b * x) \in Nat OBVIOUS
    <3> QED BY <2>4, <3>1, <3>2
  <2>6. (n + 1) * (x * x + s) = n * s + x * x + (s + n * (x * x)) OBVIOUS
  <2>7. (x + b) * (x + b) = b * b + x * x + 2 * (b * x) OBVIOUS
  <2>8. n * s \in Nat /\ b * b \in Nat /\ x * x \in Nat /\ n * (x * x) \in Nat /\ b * x \in Nat OBVIOUS
  <2> QED BY <2>5, <2>6, <2>7, <2>8
<1> QED BY <1>1, <1>2

LEMMA SquareOfSum ==
  ASSUME NEW S, IsFiniteSet(S), NEW v, NEW w, \A x \in S : v[x] \in Nat /\ w[x] = v[x] * v[x]
  PROVE  /\ SumOver(S, v) \in Nat /\ SumOver(S, w) \in Nat
         /\ Cardinality(S) * SumOver(S, w) >= SumOver(S, v) * SumOver(S, v)
<1> DEFINE P(R) == /\ SumOver(R, v) \in Nat /\ SumOver(R, w) \in Nat
                   /\ Cardinality(R) * SumOver(R, w) >= SumOver(R, v) * SumOver(R, v)
           N == {n \in Nat : \A R \in SUBSET S : Cardinality(R) = n => P(R)}
<1>1. \A R \in SUBSET S : IsFiniteSet(R) /\ Cardinality(R) \in Nat /\ (Cardinality(R) = 0 <=> R = {})
  BY FS_Subset, FS_CardinalityType, FS_EmptySet
<1>2. 0 \in N
  <2>1. P({})
    <3>1. SumOver({}, v) = 0 /\ SumOver({}, w) = 0 BY SumOfNone
    <3>2. Cardinality({}) = 0 BY FS_EmptySet
    <3> QED BY <3>1, <3>2
  <2> HIDE DEF P
  <2> QED BY <1>1, <2>1
<1>3. ASSUME NEW n \in Nat, n \in N PROVE n + 1 \in N
  <2> SUFFICES ASSUME NEW R \in SUBSET S, Cardinality(R) = n + 1 PROVE P(R)
    OBVIOUS
  <2>1. PICK x \in R : TRUE BY <1>1
  <2>2. PICK Q : Q = R \ {x} OBVIOUS
  <2>3. Q \in SUBSET S /\ Cardinality(Q) = n
    <3>1. IsFiniteSet(R) BY <1>1
    <3>2. Cardinality(Q) = Cardinality(R) - 1 BY <2>1, <2>2, <3>1, OneLess
    <3> QED BY <2>2, <3>2
  <2>4. P(Q) BY <1>3, <2>3
  <2>5. \A y \in R : v[y] \in Nat /\ w[y] \in Nat OBVIOUS
  <2>6. IsFiniteSet(R) BY <1>1
  <2>7. SumOver(R, v) = v[x] + SumOver(Q, v) /\ SumOver(R, w) = w[x] + SumOver(Q, w)
    BY <2>2, <2>5, <2>6, SumTakes
  <2>8. v[x] \in Nat /\ w[x] = v[x] * v[x] OBVIOUS
  <2>9. PICK c, b, s : c = v[x] /\ b = SumOver(Q, v) /\ s = SumOver(Q, w) OBVIOUS
  <2>10. c \in Nat /\ b \in Nat /\ s \in Nat /\ n * s >= b * b BY <2>3, <2>4, <2>8, <2>9
  <2>11. (n + 1) * (c * c + s) >= (c + b) * (c + b) BY <2>10, OneMoreSquare
  <2>12. SumOver(R, v) = c + b /\ SumOver(R, w) = c * c + s BY <2>7, <2>8, <2>9
  <2>13. c + b \in Nat /\ c * c + s \in Nat BY <2>10
  <2> QED BY <2>11, <2>12, <2>13
<1>4. N = Nat BY <1>2, <1>3, Induction
<1>5. S \in SUBSET S /\ Cardinality(S) \in N BY <1>1, <1>4
<1> QED BY <1>5

(* What packets can make of a flow is well-formed.                          *)
LEMMA CarriedIsWellFormed ==
  ASSUME NEW n \in Nat, NEW S \in SUBSET (1..n), NEW pk, \A j \in S : pk[j] \in Packets,
         NEW f, Carried(f, S, pk)
  PROVE  WellFormed(f)
<1>1. IsFiniteSet(S) /\ Cardinality(S) \in Nat
  <2>1. IsFiniteSet(1..n) BY FS_Interval
  <2> QED BY <2>1, FS_Subset, FS_CardinalityType
<1>2. ASSUME NEW x PROVE Cardinality({j \in S : x \in pk[j].flags}) \in 0..Cardinality(S)
  <2> DEFINE A == {j \in S : x \in pk[j].flags}
  <2>1. A \subseteq S OBVIOUS
  <2> HIDE DEF A
  <2>2. IsFiniteSet(A) /\ Cardinality(A) <= Cardinality(S) BY <1>1, <2>1, FS_Subset
  <2>3. Cardinality(A) \in Nat BY <2>2, FS_CardinalityType
  <2> QED BY <1>1, <2>2, <2>3 DEF A
<1>3. /\ f.byte_count \in Nat /\ f.squares \in Nat
      /\ Cardinality(S) * f.squares >= f.byte_count * f.byte_count
  <2> DEFINE v == [j \in S |-> pk[j].size]
             w == [j \in S |-> pk[j].size * pk[j].size]
  <2>1. \A x \in S : v[x] \in Nat /\ w[x] = v[x] * v[x] BY PacketShape
  <2>2. f.byte_count = SumOver(S, v) /\ f.squares = SumOver(S, w) BY DEF Carried
  <2> HIDE DEF v, w
  <2>3. /\ SumOver(S, v) \in Nat /\ SumOver(S, w) \in Nat
        /\ Cardinality(S) * SumOver(S, w) >= SumOver(S, v) * SumOver(S, v)
    BY <1>1, <2>1, SquareOfSum
  <2> QED BY <2>2, <2>3
<1>4. f.entropy \in Nat
  <2> SUFFICES ASSUME NEW W, W = Loaded(S, pk) PROVE f.entropy \in Nat
    OBVIOUS
  <2>1. f.entropy = IF W = {} THEN 0 ELSE pk[Max(W)].entropy BY DEF Carried
  <2>2. W \subseteq S BY DEF Loaded
  <2>3. W \in SUBSET (0..n)
    <3>1. 1..n \subseteq 0..n OBVIOUS
    <3> QED BY <2>2, <3>1
  <2>4. W # {} => Max(W) \in W BY <2>3, MaxIs
  <2>5. \A p \in Packets : p.entropy \in Nat BY MeasureAssumption
  <2>6. W # {} => pk[Max(W)] \in Packets BY <2>2, <2>4
  <2> QED BY <2>1, <2>5, <2>6
<1>5. /\ f.packet_count = Cardinality(S)
      /\ f.syn \in 0..f.packet_count /\ f.fin \in 0..f.packet_count /\ f.rst \in 0..f.packet_count
  <2>1. /\ f.packet_count = Cardinality(S)
        /\ f.syn = Cardinality({j \in S : "SYN" \in pk[j].flags})
        /\ f.fin = Cardinality({j \in S : "FIN" \in pk[j].flags})
        /\ f.rst = Cardinality({j \in S : "RST" \in pk[j].flags})
    BY DEF Carried
  <2> QED BY <1>2, <2>1
<1>6. ScaledVariance(f) >= 0
  <2>1. ScaledVariance(f) = f.packet_count * f.squares - f.byte_count * f.byte_count BY DEF ScaledVariance
  <2>2. f.packet_count * f.squares \in Nat /\ f.byte_count * f.byte_count \in Nat BY <1>1, <1>3, <1>5
  <2> QED BY <1>3, <1>5, <2>1, <2>2
<1> QED BY <1>1, <1>3, <1>4, <1>5, <1>6 DEF WellFormed

LEMMA SuspiciousSame ==
  ASSUME NEW f, NEW g, NEW S, NEW pk, Carried(f, S, pk), Carried(g, S, pk), f.app_type = g.app_type
  PROVE  Suspicious(f) <=> Suspicious(g)
<1>1. /\ f.packet_count = g.packet_count /\ f.byte_count = g.byte_count /\ f.squares = g.squares
      /\ f.syn = g.syn /\ f.fin = g.fin /\ f.rst = g.rst /\ f.entropy = g.entropy
  BY DEF Carried
<1>2. ScaledVariance(f) = ScaledVariance(g) BY <1>1 DEF ScaledVariance
<1> QED BY <1>1, <1>2 DEF Suspicious

(* A packet is flagged iff it is forwarded, the fifth, tenth and so on its  *)
(* flow is remembered by, and those packets together are suspicious: one of *)
(* the documented conditions holds of their numbers, sizes, flags, entropy  *)
(* and of the application as known by then.                                 *)
Alarming(i) ==
  /\ log[i].verdict = "forward" /\ Cardinality(Memory(i)) % 5 = 0
  /\ Suspicious(Features(Memory(i), AppAt(i)))
FlagsAreOfSuspicious == \A i \in DOMAIN log : log[i].flagged <=> Alarming(i)

LEMMA AlarmStays ==
  ASSUME IsLog, NEW r \in Logged, log' = Append(log, r), NEW i \in 1..Len(log)
  PROVE  Alarming(i)' <=> Alarming(i)
<1>1. /\ Len(log) \in Nat /\ DOMAIN log = 1..Len(log) /\ DOMAIN log' = 1..(Len(log) + 1)
      /\ \A j \in 1..Len(log) : log'[j] = log[j]
  BY LogGrows
<1>2. PICK a, M : a = AppAt(i) /\ M = Memory(i) OBVIOUS
<1>3. AppAt(i)' = a /\ Memory(i)' = M BY <1>2, HistoryStays
<1>4. M \subseteq 1..Len(log)
  <2>1. i \in Nat \ {0} BY <1>1
  <2>2. M \subseteq Earlier(i) \cup {i} /\ Earlier(i) \subseteq 1..(i - 1)
    BY <1>2, <2>1, HistoryFacts DEF HistoryIs
  <2>3. 1..(i - 1) \subseteq 1..Len(log) BY <1>1
  <2> QED BY <2>2, <2>3
<1>5. PICK f, g : f = FeaturesIn(M, a, log) /\ g = FeaturesIn(M, a, log') OBVIOUS
<1>6. Carried(f, M, PacketsOf(log)) /\ f.app_type = a
  <2>1. Within(M, log) BY <1>1, <1>4 DEF Within
  <2> QED BY <1>5, <2>1, FeaturesCarry
<1>7. Carried(g, M, PacketsOf(log')) /\ g.app_type = a
  <2>1. Len(log) + 1 \in Nat /\ M \subseteq 1..(Len(log) + 1) BY <1>1, <1>4
  <2>2. Within(M, log') BY <1>1, <2>1 DEF Within
  <2> QED BY <1>5, <2>2, FeaturesCarry
<1>8. Carried(f, M, PacketsOf(log'))
  <2>1. \A j \in M : PacketsOf(log')[j] = PacketsOf(log)[j] BY <1>1, <1>4 DEF PacketsOf
  <2> QED BY <1>1, <1>4, <1>6, <2>1, CarriedStays
<1>9. Suspicious(f) <=> Suspicious(g) BY <1>6, <1>7, <1>8, SuspiciousSame
<1>10. Features(M, a) = f /\ Features(M, a)' = g BY <1>5, FeaturesAre
<1>11. Alarming(i) <=> log[i].verdict = "forward" /\ Cardinality(M) % 5 = 0 /\ Suspicious(f)
  BY <1>2, <1>10 DEF Alarming
<1>12. Alarming(i)' <=> log'[i].verdict = "forward" /\ Cardinality(M) % 5 = 0 /\ Suspicious(g)
  <2>1. Features(Memory(i), AppAt(i))' = g BY <1>3, <1>10
  <2> QED BY <1>3, <2>1 DEF Alarming
<1> QED BY <1>1, <1>9, <1>11, <1>12

LEMMA AlarmStep ==
  ASSUME Base, Accounted, FlagsAreOfSuspicious,
         NEW p \in Packets, FastDrop(p) \/ BlockAndDrop(p) \/ Forward(p)
  PROVE  FlagsAreOfSuspicious'
<1> SUFFICES ASSUME NEW t, t = p.tuple, NEW m, m = Len(log) + 1, NEW T, T = Memory(m)', NEW a, a = AppAt(m)'
             PROVE  FlagsAreOfSuspicious'
  OBVIOUS
<1>1. PICK told, host, f, flow, r, M : Takes(p, t, told, host, f, flow, r, M, T, a) BY PacketTaken
<1>2. /\ IsLog /\ r \in Logged /\ log' = Append(log, r) /\ r.packet = p
      /\ M \in SUBSET (1..Len(log)) /\ T = M \cup {m}
      /\ IsFlow(f) /\ Handled(p, f, flow, r) /\ Adds(p, t, told, host, f, flow, r)
      /\ Carried(f, M, Sent) /\ (~flow.blocked => flow.app_type = a)
  BY <1>1 DEF Takes, Adds, Accounts, Base
<1>3. /\ Len(log) \in Nat /\ m \in Nat \ {0} /\ DOMAIN log = 1..Len(log) /\ DOMAIN log' = 1..m
      /\ \A i \in 1..Len(log) : log'[i] = log[i]
      /\ log'[m] = r
  BY <1>2, LogGrows
<1>4. /\ flow.packet_count = f.packet_count + 1
      /\ r.verdict # "drop" =>
           /\ r.verdict = "forward" /\ ~flow.blocked
           /\ flow.anomaly = IF Due(flow) THEN score(flow) ELSE f.anomaly
           /\ r.flagged <=> Due(flow) /\ flow.anomaly.score >= FLAG_THRESHOLD
  BY <1>2, HandledIs
<1>5. r.verdict = "drop" => ~r.flagged
  BY <1>2 DEF Handled
<1>6. Carried(flow, T, Sent') BY <1>2, CarriedMore
<1>7. Cardinality(M) \in Nat /\ Cardinality(T) = Cardinality(M) + 1 /\ f.packet_count = Cardinality(M)
  <2>1. Len(log) \in Nat /\ M \in SUBSET (1..Len(log)) /\ m \notin 1..Len(log) BY <1>2, <1>3
  <2>2. IsFiniteSet(1..Len(log)) BY <2>1, FS_Interval
  <2>3. IsFiniteSet(M) /\ m \notin M BY <2>1, <2>2, FS_Subset
  <2> QED BY <1>2, <2>3, FS_AddElement, FS_CardinalityType DEF Carried
<1>8. Due(flow) <=> Cardinality(T) % 5 = 0 BY <1>4, <1>7, DueIs
<1>9. WellFormed(flow)
  <2>1. T \in SUBSET (1..m)
    <3>1. 1..Len(log) \subseteq 1..m /\ m \in 1..m BY <1>3
    <3> QED BY <1>2, <3>1
  <2>2. \A j \in T : Sent'[j] \in Packets
    <3>1. \A j \in 1..m : Sent'[j] = log'[j].packet BY <1>3 DEF Sent, PacketsOf
    <3>2. \A j \in 1..Len(log) : log[j] \in Logged BY <1>2, <1>3, ElementOfSeq DEF IsLog
    <3>3. \A x \in Logged : x.packet \in Packets BY DEF Logged
    <3>4. \A j \in 1..m : j \in 1..Len(log) \/ j = m BY <1>3
    <3>5. \A j \in 1..m : log'[j] \in Logged BY <1>2, <1>3, <3>2, <3>4
    <3> QED BY <2>1, <3>1, <3>3, <3>5
  <2> QED BY <1>3, <1>6, <2>1, <2>2, CarriedIsWellFormed
<1>10. score(flow).score >= FLAG_THRESHOLD <=> Suspicious(flow) BY <1>9, Judgement DEF JudgedRight
<1>11. PICK g : g = FeaturesIn(T, a, log') OBVIOUS
<1>12. Carried(g, T, Sent') /\ g.app_type = a
  <2>1. T \subseteq 1..m
    <3>1. 1..Len(log) \subseteq 1..m /\ m \in 1..m BY <1>3
    <3> QED BY <1>2, <3>1
  <2>2. Within(T, log') BY <1>3, <2>1 DEF Within
  <2>3. Carried(g, T, PacketsOf(log')) /\ g.app_type = a BY <1>11, <2>2, FeaturesCarry
  <2> QED BY <2>3 DEF Sent
<1>13. Alarming(m)' <=> r.verdict = "forward" /\ Cardinality(T) % 5 = 0 /\ Suspicious(g)
  <2>1. Features(T, a)' = g BY <1>11, FeaturesAre
  <2>2. Features(Memory(m), AppAt(m))' = g BY <2>1
  <2> QED BY <1>3, <2>2 DEF Alarming
<1>14. r.flagged <=> Alarming(m)'
  <2>1. CASE r.verdict = "drop" BY <1>5, <1>13, <2>1
  <2>2. CASE r.verdict # "drop"
    <3>1. Suspicious(flow) <=> Suspicious(g)
      <4>1. flow.app_type = g.app_type BY <1>2, <1>4, <1>12, <2>2
      <4> QED BY <1>6, <1>12, <4>1, SuspiciousSame
    <3> QED BY <1>4, <1>8, <1>10, <1>13, <2>2, <3>1
  <2> QED BY <2>1, <2>2
<1>15. \A i \in 1..Len(log) : log'[i].flagged <=> Alarming(i)'
  <2> TAKE i \in 1..Len(log)
  <2>1. Alarming(i)' <=> Alarming(i) BY <1>2, AlarmStays
  <2>2. log[i].flagged <=> Alarming(i) BY <1>3 DEF FlagsAreOfSuspicious
  <2> QED BY <1>3, <2>1, <2>2
<1>16. \A i \in DOMAIN log' : log'[i].flagged <=> Alarming(i)'
  <2>1. \A i \in 1..m : i \in 1..Len(log) \/ i = m BY <1>3
  <2> QED BY <1>3, <1>14, <1>15, <2>1
<1> QED BY <1>16 DEF FlagsAreOfSuspicious

LEMMA AlarmIdle == FlagsAreOfSuspicious /\ log' = log => FlagsAreOfSuspicious'
<1> SUFFICES ASSUME FlagsAreOfSuspicious, log' = log, NEW i \in DOMAIN log
             PROVE  Alarming(i)' <=> Alarming(i)
  BY DEF FlagsAreOfSuspicious
<1>1. Memory(i)' = Memory(i) /\ AppAt(i)' = AppAt(i)
  <2>1. Memory(i)' = Memory(i) BY DEF Memory, Start, Forgot, Earlier, Of
  <2> QED BY <2>1, HistoryIdle
<1>2. PICK a, M : a = AppAt(i) /\ M = Memory(i) OBVIOUS
<1>3. Features(M, a)' = Features(M, a) BY FeaturesAre
<1>4. Features(Memory(i), AppAt(i))' = Features(M, a) BY <1>1, <1>2, <1>3
<1> QED BY <1>1, <1>2, <1>4 DEF Alarming

(* fast_path.cpp:142 with score(): the packets flagged are, for any packets, *)
(* rules, thresholds and capacity, those whose flow is suspicious as the    *)
(* fifth, tenth and so on of its packets arrives, and all of those.         *)
THEOREM AnomaliesAreSuspicious == Spec => []FlagsAreOfSuspicious
<1>1. Init => FlagsAreOfSuspicious BY DEF Init, FlagsAreOfSuspicious
<1>2. Base /\ Accounted /\ FlagsAreOfSuspicious /\ [Next]_vars => FlagsAreOfSuspicious'
  <2> SUFFICES ASSUME Base, Accounted, FlagsAreOfSuspicious, [Next]_vars PROVE FlagsAreOfSuspicious'
    OBVIOUS
  <2>1. ASSUME NEW p \in Packets, FastDrop(p) \/ BlockAndDrop(p) \/ Forward(p) PROVE FlagsAreOfSuspicious'
    BY <2>1, AlarmStep
  <2>2. ASSUME UNCHANGED vars PROVE FlagsAreOfSuspicious'
    BY <2>2, AlarmIdle DEF vars
  <2> QED BY <2>1, <2>2 DEF Next, Idle
<1> QED BY <1>1, <1>2, Always, PTL DEF Spec

-----------------------------------------------------------------------------
(* The report at the end.                                                   *)
LEMMA SumOfSizes ==
  ASSUME NEW E, IsFiniteSet(E), NEW mem, \A e \in E : IsFiniteSet(mem[e]),
         \A d, e \in E : d # e => mem[d] \cap mem[e] = {},
         NEW c, \A e \in E : c[e] = Cardinality(mem[e])
  PROVE  SumOver(E, c) = Cardinality(UNION {mem[e] : e \in E})
<1> DEFINE U(R) == UNION {mem[e] : e \in R}
           P(R) == SumOver(R, c) = Cardinality(U(R)) /\ IsFiniteSet(U(R))
           N == {n \in Nat : \A R \in SUBSET E : Cardinality(R) = n => P(R)}
<1>1. \A R \in SUBSET E : IsFiniteSet(R) /\ Cardinality(R) \in Nat /\ (Cardinality(R) = 0 <=> R = {})
  BY FS_Subset, FS_CardinalityType, FS_EmptySet
<1>2. 0 \in N
  <2>1. U({}) = {} OBVIOUS
  <2>2. P({}) BY <2>1, SumOfNone, FS_EmptySet
  <2> QED BY <1>1, <2>2
<1>3. ASSUME NEW n \in Nat, n \in N PROVE n + 1 \in N
  <2> SUFFICES ASSUME NEW R \in SUBSET E, Cardinality(R) = n + 1 PROVE P(R)
    OBVIOUS
  <2>1. PICK x \in R : TRUE BY <1>1
  <2> DEFINE Q == R \ {x}
  <2>2. Q \in SUBSET E /\ Cardinality(Q) = n
    <3>1. IsFiniteSet(R) BY <1>1
    <3>2. Cardinality(Q) = Cardinality(R) - 1 BY <2>1, <3>1, OneLess
    <3> QED BY <3>2
  <2>3. P(Q) BY <1>3, <2>2
  <2>4. SumOver(R, c) = c[x] + SumOver(Q, c)
    <3>1. \A e \in R : c[e] \in Nat BY FS_CardinalityType
    <3> QED BY <1>1, <2>1, <3>1, SumTakes
  <2>5. U(R) = U(Q) \cup mem[x] BY <2>1
  <2>6. U(Q) \cap mem[x] = {} BY <2>1
  <2>7. IsFiniteSet(U(Q)) /\ IsFiniteSet(mem[x]) BY <2>1, <2>3
  <2> HIDE DEF U, N
  <2>8. Cardinality(U(Q) \cup mem[x]) = Cardinality(U(Q)) + Cardinality(mem[x]) /\ IsFiniteSet(U(Q) \cup mem[x])
    <3>1. /\ IsFiniteSet(U(Q) \cup mem[x])
          /\ Cardinality(U(Q) \cup mem[x]) = Cardinality(U(Q)) + Cardinality(mem[x]) - Cardinality(U(Q) \cap mem[x])
      BY <2>7, FS_Union
    <3>2. Cardinality(U(Q) \cap mem[x]) = 0 BY <2>6, FS_EmptySet
    <3>3. Cardinality(U(Q)) \in Nat /\ Cardinality(mem[x]) \in Nat BY <2>7, FS_CardinalityType
    <3> QED BY <3>1, <3>2, <3>3
  <2>9. Cardinality(U(Q)) \in Nat /\ Cardinality(mem[x]) \in Nat /\ c[x] = Cardinality(mem[x])
    BY <2>1, <2>7, FS_CardinalityType
  <2> QED BY <2>3, <2>4, <2>5, <2>8, <2>9
<1> HIDE DEF N
<1>4. Cardinality(E) \in N BY <1>1, <1>2, <1>3, Induction
<1>5. P(E) BY <1>4 DEF N
<1> QED BY <1>5

(* What the report is to say of the flow whose last packet is i.            *)
NamesOf(i) == IF IPBlock(Of(i)) THEN {} ELSE Naming(Memory(i))
NameOf(i)  == log[Min(NamesOf(i))].packet.host
AppOf(i)   == IF NamesOf(i) = {} THEN Hint[Of(i)] ELSE AppOfName[NameOf(i)]
Residing   == {LastOf(e.tuple) : e \in Kept}

ReportIs ==
  /\ app_totals = [a \in {AppOf(i) : i \in Residing} |->
                    Cardinality(UNION {Memory(i) : i \in {i \in Residing : AppOf(i) = a}})]
  /\ detected_snis = {NameOf(i) : i \in {i \in Residing : NamesOf(i) # {}}}
  /\ \A i \in Residing : NamesOf(i) # {} => (MarkedBlocked(NameOf(i)) <=> log[i].verdict = "drop")
  /\ total_anomalies = Cardinality({i \in Residing : LastFlagged(Memory(i))})

(* How an entry of the table bears it out.                                  *)
Borne(e, i) ==
  /\ i = LastOf(e.tuple) /\ i \in Nat \ {0} /\ i \in DOMAIN log
  /\ e.flow.app_type = AppOf(i)
  /\ e.flow.packet_count = Cardinality(Memory(i)) /\ IsFiniteSet(Memory(i))
  /\ NamesOf(i) = {} => e.flow.sni = NewFlow.sni
  /\ NamesOf(i) # {} => e.flow.sni = NameOf(i) /\ NameOf(i) \in Names /\ NameOf(i) # NewFlow.sni
  /\ e.flow.anomaly.score >= FLAG_THRESHOLD <=> LastFlagged(Memory(i))
  /\ \A j \in Memory(i) : Of(j) = e.tuple

LEMMA MemoryIs ==
  ASSUME IsLog, NEW a \in DOMAIN log
  PROVE  /\ a \in Nat \ {0} /\ Memory(a) \subseteq DOMAIN log /\ IsFiniteSet(Memory(a))
         /\ \A j \in Memory(a) : Of(j) = Of(a)
         /\ Tells(a) = Naming(Memory(a))
<1>1. DOMAIN log = 1..Len(log) /\ Len(log) \in Nat BY LenProperties DEF IsLog
<1>2. a \in Nat \ {0} BY <1>1
<1>3. Memory(a) \subseteq Earlier(a) \cup {a} /\ Earlier(a) \subseteq 1..(a - 1)
  BY <1>2, HistoryFacts DEF HistoryIs
<1>4. Memory(a) \subseteq DOMAIN log
  <2>1. 1..(a - 1) \subseteq 1..Len(log) BY <1>1
  <2> QED BY <1>1, <1>3, <2>1
<1>5. IsFiniteSet(Memory(a))
  <2>1. IsFiniteSet(DOMAIN log) BY <1>1, FS_Interval
  <2> QED BY <1>4, <2>1, FS_Subset
<1>6. \A j \in Memory(a) : Of(j) = Of(a) BY DEF Memory
<1>7. Tells(a) = Naming(Memory(a)) BY DEF Tells, Naming
<1> QED BY <1>2, <1>4, <1>5, <1>6, <1>7

LEMMA EntriesBear ==
  ASSUME Base, Accounted, VerdictFollowsHistory, NEW e \in Kept, NEW i, i = LastOf(e.tuple)
  PROVE  /\ Borne(e, i)
         /\ ~IPBlock(Of(i)) \/ NamesOf(i) = {}
         /\ NamesOf(i) # {} =>
            (log[i].verdict = "drop" <=> isBlocked(rules_, SrcIP[Of(i)], AppOfName[NameOf(i)], NameOf(i)))
<1>1. PICK k : At(k, e.tuple) /\ flow_table[k] = e BY EntriesAre
<1>2. PICK u : u = e.tuple OBVIOUS
<1>3. PICK f : f = e.flow OBVIOUS
<1>4. PICK M : M = Memory(i) OBVIOUS
<1>5. PICK h : h = HostOf(i) OBVIOUS
<1>6. /\ i \in DOMAIN log /\ i \in Nat \ {0} /\ Of(i) = u
      /\ Known(f, u, Told(u), h)
      /\ Told(u) <=> Tells(i) # {}
  BY <1>1, <1>2, <1>3, <1>5, OpenFlow
<1>7. /\ IsFiniteSet(M) /\ (\A j \in M : Of(j) = u) /\ Tells(i) = Naming(M) /\ M \subseteq DOMAIN log
  BY <1>4, <1>6, MemoryIs DEF Base
<1>8. Accounts(f, u, M) BY <1>1, <1>2, <1>3, <1>4 DEF Accounted
<1>9. f.packet_count = Cardinality(M) BY <1>8 DEF Accounts, Carried
<1>10. f.anomaly.score >= FLAG_THRESHOLD <=> LastFlagged(M) BY <1>8 DEF Accounts
<1>11. NamesOf(i) = IF IPBlock(u) THEN {} ELSE Tells(i) BY <1>4, <1>6, <1>7 DEF NamesOf
<1>12. NamesOf(i) # {} => NameOf(i) = h BY <1>5, <1>11 DEF NameOf, HostOf
<1>13. NamesOf(i) = {} => f.sni = NewFlow.sni /\ f.app_type = Hint[u]
  <2>1. NamesOf(i) = {} => IPBlock(u) \/ Naming(M) = {} BY <1>7, <1>11
  <2>2. f.packet_count # 0 BY <1>6 DEF Known
  <2> QED BY <1>8, <2>1, <2>2 DEF Accounts
<1>14. NamesOf(i) # {} => f.sni = h /\ f.app_type = AppOfName[h] BY <1>6, <1>11 DEF Known, Learnt
<1>15. NamesOf(i) # {} => h \in Names /\ h # NewFlow.sni
  <2> SUFFICES ASSUME NamesOf(i) # {} PROVE h \in Names /\ h # NewFlow.sni
    OBVIOUS
  <2>1. Min(Tells(i)) \in Tells(i)
    <3>1. Tells(i) # {} BY <1>11
    <3> QED BY <1>6, <3>1, HistoryFacts DEF HistoryIs
  <2>2. PICK j : j = Min(Tells(i)) OBVIOUS
  <2>3. j \in M /\ h = log[j].packet.host /\ h \in Names BY <1>5, <1>7, <2>1, <2>2 DEF HostOf, Naming
  <2>4. log[j].packet \in Packets
    <3>1. log[j] \in Logged BY <1>7, <2>3, ElementOfSeq DEF Base, IsLog
    <3> QED BY <3>1 DEF Logged
  <2>5. h \in (Names \ {NewFlow.sni}) \cup {NoHost, NoPayload} /\ NoHost \notin Names /\ NoPayload \notin Names
    <3>1. NewFlow.sni = "" BY Zenon DEF NewFlow
    <3> QED BY <2>3, <2>4, <3>1, FastPathAssumption, Zenon
  <2> QED BY <2>3, <2>5
<1>16. f.app_type = AppOf(i) BY <1>6, <1>12, <1>13, <1>14 DEF AppOf
<1>17. Borne(e, i)
  BY <1>2, <1>3, <1>4, <1>6, <1>7, <1>9, <1>10, <1>12, <1>13, <1>14, <1>15, <1>16 DEF Borne
<1>18. NamesOf(i) # {} => (log[i].verdict = "drop" <=> isBlocked(rules_, SrcIP[Of(i)], AppOfName[NameOf(i)], NameOf(i)))
  <2>1. log[i].verdict = "drop" <=>
          \/ isBlocked(rules_, SrcIP[Of(i)], UNKNOWN, "")
          \/ Tells(i) # {} /\ isBlocked(rules_, SrcIP[Of(i)], AppOfName[HostOf(i)], HostOf(i))
    BY <1>6, Zenon DEF VerdictFollowsHistory
  <2>2. log[i].verdict = "drop" <=> IPBlock(u) \/ (Tells(i) # {} /\ isBlocked(rules_, SrcIP[u], AppOfName[h], h))
    BY <1>5, <1>6, <2>1, Zenon DEF IPBlock
  <2> QED BY <1>6, <1>11, <1>12, <2>2
<1> QED BY <1>6, <1>11, <1>17, <1>18

LEMMA LastApart ==
  ASSUME Base, NEW d \in Kept, NEW e \in Kept, LastOf(d.tuple) = LastOf(e.tuple)
  PROVE  d = e
<1>1. PICK k : At(k, d.tuple) /\ flow_table[k] = d BY EntriesAre
<1>2. PICK l : At(l, e.tuple) /\ flow_table[l] = e BY EntriesAre
<1>3. /\ Met(d.tuple) /\ Met(e.tuple) /\ LastIs
      /\ \A i, j, u, w : At(i, u) /\ At(j, w) /\ i < j => LastOf(u) < LastOf(w)
  BY <1>1, <1>2, LastFacts DEF Base, Ordered
<1>4. LastOf(d.tuple) \in Nat
  <2>1. Len(log) \in Nat BY LenProperties DEF Base, IsLog
  <2> QED BY <1>3, <2>1 DEF LastIs
<1>5. ~(LastOf(d.tuple) < LastOf(e.tuple)) /\ ~(LastOf(e.tuple) < LastOf(d.tuple)) BY <1>4
<1>6. ~(k < l) /\ ~(l < k) BY <1>1, <1>2, <1>3, <1>5
<1>7. k \in Nat /\ l \in Nat
  <2>1. Len(flow_table) \in Nat BY DEF Base, Ordered, IsSeq
  <2> QED BY <1>1, <1>2, <2>1 DEF At
<1> QED BY <1>1, <1>2, <1>6, <1>7

LEMMA AppTotalsAre ==
  ASSUME Base, \A e \in Kept : Borne(e, LastOf(e.tuple))
  PROVE  app_totals = [a \in {AppOf(i) : i \in Residing} |->
                         Cardinality(UNION {Memory(i) : i \in {i \in Residing : AppOf(i) = a}})]
<1>1. Residing = {LastOf(e.tuple) : e \in Kept} BY DEF Residing
<1>2. \A e \in Kept : /\ e.flow.app_type = AppOf(LastOf(e.tuple)) /\ IsFiniteSet(Memory(LastOf(e.tuple)))
                      /\ e.flow.packet_count = Cardinality(Memory(LastOf(e.tuple)))
                      /\ \A j \in Memory(LastOf(e.tuple)) : Of(j) = e.tuple
  BY DEF Borne
<1>3. IsFiniteSet(Kept)
  <2>1. Len(flow_table) \in Nat /\ DOMAIN flow_table = 1..Len(flow_table) BY DEF Base, Ordered, IsSeq
  <2>2. IsFiniteSet(DOMAIN flow_table) BY <2>1, FS_Interval
  <2> DEFINE g == [k \in DOMAIN flow_table |-> flow_table[k]]
  <2>3. Kept = {g[k] : k \in DOMAIN flow_table} BY DEF Kept
  <2>4. g = [k \in DOMAIN flow_table |-> g[k]] OBVIOUS
  <2> HIDE DEF g
  <2> QED BY <2>2, <2>3, <2>4, ImageSize
<1>4. {f.app_type : f \in Flows} = {AppOf(i) : i \in Residing}
  <2>1. Flows = {e.flow : e \in Kept} BY DEF Flows, Kept
  <2>2. {f.app_type : f \in Flows} = {e.flow.app_type : e \in Kept} BY <2>1
  <2> QED BY <1>1, <1>2, <2>2
<1>5. ASSUME NEW a, NEW E, E = {e \in Kept : e.flow.app_type = a}
      PROVE  SumOver(E, [e \in E |-> e.flow.packet_count])
               = Cardinality(UNION {Memory(i) : i \in {i \in Residing : AppOf(i) = a}})
  <2> DEFINE mem == [e \in E |-> Memory(LastOf(e.tuple))]
             c == [e \in E |-> e.flow.packet_count]
  <2>1. IsFiniteSet(E) BY <1>3, <1>5, FS_Subset
  <2>2. \A e \in E : IsFiniteSet(mem[e]) /\ c[e] = Cardinality(mem[e]) BY <1>2, <1>5
  <2>3. \A d, e \in E : d # e => mem[d] \cap mem[e] = {}
    <3> SUFFICES ASSUME NEW d \in E, NEW e \in E, NEW j, j \in mem[d], j \in mem[e] PROVE d = e
      OBVIOUS
    <3>1. Of(j) = d.tuple /\ Of(j) = e.tuple BY <1>2, <1>5
    <3>2. d \in Kept /\ e \in Kept /\ LastOf(d.tuple) = LastOf(e.tuple) BY <1>5, <3>1
    <3> QED BY <3>2, LastApart
  <2>4. {mem[e] : e \in E} = {Memory(i) : i \in {i \in Residing : AppOf(i) = a}}
    <3>1. \A e \in E : LastOf(e.tuple) \in {i \in Residing : AppOf(i) = a} /\ mem[e] = Memory(LastOf(e.tuple))
      BY <1>1, <1>2, <1>5
    <3>2. \A i \in {i \in Residing : AppOf(i) = a} : \E e \in E : i = LastOf(e.tuple)
      BY <1>1, <1>2, <1>5
    <3> HIDE DEF mem
    <3> QED BY <3>1, <3>2
  <2> HIDE DEF mem, c
  <2>5. SumOver(E, c) = Cardinality(UNION {mem[e] : e \in E}) BY <2>1, <2>2, <2>3, SumOfSizes
  <2> QED BY <2>4, <2>5 DEF c
<1>6. app_totals = [a \in {f.app_type : f \in Flows} |->
                      SumOver({e \in Kept : e.flow.app_type = a},
                              [e \in {e \in Kept : e.flow.app_type = a} |-> e.flow.packet_count])]
  BY Zenon DEF app_totals
<1> QED BY <1>4, <1>5, <1>6

LEMMA NamesAre ==
  ASSUME \A e \in Kept : Borne(e, LastOf(e.tuple))
  PROVE  detected_snis = {NameOf(i) : i \in {i \in Residing : NamesOf(i) # {}}}
<1>1. NewFlow.sni = "" BY Zenon DEF NewFlow
<1>2. detected_snis = {f.sni : f \in Flows} \ {NewFlow.sni} BY <1>1, Zenon DEF detected_snis
<1>3. {f.sni : f \in Flows} = {e.flow.sni : e \in Kept}
  <2>1. Flows = {e.flow : e \in Kept} BY DEF Flows, Kept
  <2> QED BY <2>1
<1>4. Residing = {LastOf(e.tuple) : e \in Kept} BY DEF Residing
<1>5. \A e \in Kept : /\ NamesOf(LastOf(e.tuple)) = {} => e.flow.sni = NewFlow.sni
                      /\ NamesOf(LastOf(e.tuple)) # {} => /\ e.flow.sni = NameOf(LastOf(e.tuple))
                                                          /\ NameOf(LastOf(e.tuple)) # NewFlow.sni
  BY DEF Borne
<1>6. PICK none : none = NewFlow.sni OBVIOUS
<1>7. \A x : x \in {e.flow.sni : e \in Kept} /\ x # none => x \in {NameOf(i) : i \in {i \in Residing : NamesOf(i) # {}}}
  BY <1>4, <1>5, <1>6
<1>8. \A x \in {NameOf(i) : i \in {i \in Residing : NamesOf(i) # {}}} : x \in {e.flow.sni : e \in Kept} /\ x # none
  BY <1>4, <1>5, <1>6
<1> QED BY <1>2, <1>3, <1>6, <1>7, <1>8

LEMMA TotalIs ==
  ASSUME Base, \A e \in Kept : Borne(e, LastOf(e.tuple))
  PROVE  total_anomalies = Cardinality({i \in Residing : LastFlagged(Memory(i))})
<1> DEFINE S == {e \in Kept : e.flow.anomaly.score >= FLAG_THRESHOLD}
           T == {i \in Residing : LastFlagged(Memory(i))}
           g == [e \in S |-> LastOf(e.tuple)]
<1>1. IsFiniteSet(S)
  <2>1. Len(flow_table) \in Nat /\ DOMAIN flow_table = 1..Len(flow_table) BY DEF Base, Ordered, IsSeq
  <2>2. IsFiniteSet(DOMAIN flow_table) BY <2>1, FS_Interval
  <2> DEFINE h == [k \in DOMAIN flow_table |-> flow_table[k]]
  <2>3. Kept = {h[k] : k \in DOMAIN flow_table} BY DEF Kept
  <2>4. h = [k \in DOMAIN flow_table |-> h[k]] OBVIOUS
  <2> HIDE DEF h
  <2>5. IsFiniteSet(Kept) BY <2>2, <2>3, <2>4, ImageSize
  <2> QED BY <2>5, FS_Subset
<1>2. \A e \in Kept : e.flow.anomaly.score >= FLAG_THRESHOLD <=> LastFlagged(Memory(LastOf(e.tuple)))
  BY DEF Borne
<1>3. T = {g[e] : e \in S} BY <1>2 DEF Residing
<1>4. g = [e \in S |-> g[e]] OBVIOUS
<1>5. \A d, e \in S : g[d] = g[e] => d = e BY LastApart
<1>6. total_anomalies = Cardinality(S) BY DEF total_anomalies
<1> HIDE DEF S, T, g
<1>7. Cardinality(T) = Cardinality(S) BY <1>1, <1>3, <1>4, <1>5, ImageSize
<1> QED BY <1>6, <1>7 DEF T

LEMMA ReportHolds ==
  ASSUME Base, Accounted, VerdictFollowsHistory, "0.0.0.0" \notin rules_.ips
  PROVE  ReportIs
<1>1. \A e \in Kept : Borne(e, LastOf(e.tuple)) BY EntriesBear
<1>2. ASSUME NEW i \in Residing, NamesOf(i) # {}
      PROVE  MarkedBlocked(NameOf(i)) <=> log[i].verdict = "drop"
  <2>1. PICK e \in Kept : i = LastOf(e.tuple) BY DEF Residing
  <2>2. ~IPBlock(Of(i)) BY <1>2, <2>1, EntriesBear
  <2>3. log[i].verdict = "drop" <=> isBlocked(rules_, SrcIP[Of(i)], AppOfName[NameOf(i)], NameOf(i))
    BY <1>2, <2>1, EntriesBear
  <2>4. SrcIP[Of(i)] \notin rules_.ips BY <2>2, Zenon DEF IPBlock, isBlocked
  <2>5. ASSUME NEW x, NEW app, NEW sni, x \notin rules_.ips
        PROVE  isBlocked(rules_, x, app, sni) <=> isBlocked(rules_, "0.0.0.0", app, sni)
    BY <2>5, Zenon DEF isBlocked
  <2>6. isBlocked(rules_, SrcIP[Of(i)], AppOfName[NameOf(i)], NameOf(i))
          <=> isBlocked(rules_, "0.0.0.0", AppOfName[NameOf(i)], NameOf(i))
    BY <2>4, <2>5
  <2> QED BY <2>3, <2>6 DEF MarkedBlocked
<1> QED BY <1>1, <1>2, AppTotalsAre, NamesAre, TotalIs DEF ReportIs

(* The report in the words of the property, part by part.                   *)
LEMMA ReportReads == ReportIs => ReportTellsTheHistory
<1> SUFFICES ASSUME ReportIs PROVE ReportTellsTheHistory
  OBVIOUS
<1> DEFINE last   == {LastOf(e.tuple) : e \in Kept}
           memory == [i \in last |-> Memory(i)]
           names  == [i \in last |-> IF isBlocked(rules_, SrcIP[Of(i)], UNKNOWN, "") THEN {}
                                     ELSE {j \in memory[i] : log[j].packet.host \in Names}]
           name   == [i \in {i \in last : names[i] # {}} |-> log[Min(names[i])].packet.host]
           apps   == [i \in last |-> IF names[i] = {} THEN Hint[Of(i)] ELSE AppOfName[name[i]]]
           scored == [i \in last |-> {j \in memory[i] : /\ log[j].verdict = "forward"
                                                        /\ Cardinality({k \in memory[i] : k <= j}) % 5 = 0}]
<1>1. last = Residing BY DEF Residing
<1>2. \A i \in last : memory[i] = Memory(i) OBVIOUS
<1>3. \A i \in last : names[i] = NamesOf(i)
  <2>1. names = [i \in last |-> IF IPBlock(Of(i)) THEN {} ELSE {j \in memory[i] : log[j].packet.host \in Names}]
    BY Zenon DEF IPBlock
  <2> SUFFICES ASSUME NEW i \in last PROVE names[i] = NamesOf(i)
    OBVIOUS
  <2> HIDE DEF names, memory, last
  <2>2. names[i] = IF IPBlock(Of(i)) THEN {} ELSE {j \in memory[i] : log[j].packet.host \in Names} BY <2>1
  <2> QED BY <1>2, <2>2 DEF NamesOf, Naming
<1> HIDE DEF names, memory, last
<1>4. DOMAIN name = {i \in Residing : NamesOf(i) # {}} /\ \A i \in DOMAIN name : name[i] = NameOf(i)
  <2>1. DOMAIN name = {i \in last : names[i] # {}} OBVIOUS
  <2>2. \A i \in DOMAIN name : name[i] = log[Min(names[i])].packet.host OBVIOUS
  <2> HIDE DEF name
  <2> QED BY <1>1, <1>3, <2>1, <2>2 DEF NameOf
<1> HIDE DEF name
<1>5. \A i \in last : apps[i] = AppOf(i)
  <2>1. \A i \in last : apps[i] = IF names[i] = {} THEN Hint[Of(i)] ELSE AppOfName[name[i]] OBVIOUS
  <2> HIDE DEF apps
  <2> QED BY <1>1, <1>3, <1>4, <2>1 DEF AppOf
<1>6. \A i \in last : scored[i] = Scorings(Memory(i))
  <2>1. \A i \in last : scored[i] = {j \in memory[i] : /\ log[j].verdict = "forward"
                                                        /\ Cardinality({k \in memory[i] : k <= j}) % 5 = 0} OBVIOUS
  <2> HIDE DEF scored
  <2> QED BY <1>2, <2>1 DEF Scorings
<1> HIDE DEF apps, scored
<1>7. app_totals = [a \in {apps[i] : i \in last} |-> Cardinality(UNION {memory[i] : i \in {i \in last : apps[i] = a}})]
  <2>1. {apps[i] : i \in last} = {AppOf(i) : i \in Residing} BY <1>1, <1>5
  <2>2. ASSUME NEW a
        PROVE  {memory[i] : i \in {i \in last : apps[i] = a}} = {Memory(i) : i \in {i \in Residing : AppOf(i) = a}}
    <3>1. {i \in last : apps[i] = a} = {i \in Residing : AppOf(i) = a} BY <1>1, <1>5
    <3> QED BY <1>1, <1>2, <3>1
  <2>3. app_totals = [a \in {AppOf(i) : i \in Residing} |->
                       Cardinality(UNION {Memory(i) : i \in {i \in Residing : AppOf(i) = a}})]
    BY DEF ReportIs
  <2> QED BY <2>1, <2>2, <2>3
<1>8. detected_snis = {name[i] : i \in DOMAIN name}
  <2>1. detected_snis = {NameOf(i) : i \in {i \in Residing : NamesOf(i) # {}}} BY DEF ReportIs
  <2> QED BY <1>4, <2>1
<1>9. \A i \in DOMAIN name : MarkedBlocked(name[i]) <=> log[i].verdict = "drop"
  BY <1>4 DEF ReportIs
<1>10. total_anomalies = Cardinality({i \in last : scored[i] # {} /\ log[Max(scored[i])].flagged})
  <2>1. \A i \in last : LastFlagged(Memory(i)) <=> scored[i] # {} /\ log[Max(scored[i])].flagged
    BY <1>6 DEF LastFlagged
  <2>2. {i \in last : scored[i] # {} /\ log[Max(scored[i])].flagged} = {i \in Residing : LastFlagged(Memory(i))}
    BY <1>1, <2>1
  <2> QED BY <2>2 DEF ReportIs
<1> QED BY <1>7, <1>8, <1>9, <1>10, Zenon DEF ReportTellsTheHistory, last, memory, names, name, apps, scored

(* FastPath.ReportTellsTheHistory: the report of the flows that are still    *)
(* in the table is what the packets they are remembered by say.  The        *)
(* hypothesis is needed: the report asks the rules about the address        *)
(* 0.0.0.0, so that a rule against that address would mark every name.      *)
THEOREM ReportIsTold ==
  ASSUME "0.0.0.0" \notin rules_.ips
  PROVE  Spec => []ReportTellsTheHistory
<1>1. Base /\ Accounted /\ VerdictFollowsHistory => ReportTellsTheHistory BY ReportHolds, ReportReads
<1> QED BY <1>1, Always, PTL

-----------------------------------------------------------------------------
(* A table that holds no flow twice is a map, and stays one; until a flow   *)
(* is evicted, Store changes the flow it stores and no other.               *)
Single(tbl) == \A i, j \in 1..Len(tbl) : tbl[i].tuple = tbl[j].tuple => i = j

LEMMA LookupIs ==
  ASSUME NEW tbl, IsSeq(tbl), Single(tbl), NEW u
  PROVE  /\ \A k \in 1..Len(tbl) : tbl[k].tuple = u => Table!Lookup(tbl, u) = tbl[k].flow
         /\ (\A k \in 1..Len(tbl) : tbl[k].tuple # u) => Table!Lookup(tbl, u) = NewFlow
<1>1. DOMAIN tbl = 1..Len(tbl) BY DEF IsSeq
<1>2. ASSUME NEW k \in 1..Len(tbl), tbl[k].tuple = u PROVE Table!Lookup(tbl, u) = tbl[k].flow
  <2>1. Table!Holds(tbl, u) BY <1>1, <1>2 DEF Table!Holds
  <2>2. Table!Place(tbl, u) \in 1..Len(tbl) /\ tbl[Table!Place(tbl, u)].tuple = u
    BY <1>1, <1>2 DEF Table!Place
  <2>3. Table!Place(tbl, u) = k BY <1>2, <2>2 DEF Single
  <2> QED BY <2>1, <2>3 DEF Table!Lookup, Table!FlowOf
<1>3. (\A k \in 1..Len(tbl) : tbl[k].tuple # u) => Table!Lookup(tbl, u) = NewFlow
  BY <1>1 DEF Table!Lookup, Table!Holds
<1> QED BY <1>2, <1>3

LEMMA StoreIsUpdate ==
  ASSUME NEW old, IsSeq(old), Single(old), NEW t, NEW flow, NEW new, new = Table!Store(old, max_flows, t, flow),
         Table!Holds(old, t) \/ ~(Len(old) >= Table!Bound(max_flows))
  PROVE  /\ IsSeq(new) /\ Single(new)
         /\ \A u : Table!Lookup(new, u) = IF u = t THEN flow ELSE Table!Lookup(old, u)
<1> DEFINE n == Len(old)
           m == Len(new)
<1>1. n \in Nat /\ DOMAIN old = 1..n BY DEF IsSeq
<1>2. IsSeq(new) BY StoreShape
<1>3. PICK gap \in 0..n : /\ Moved(old, new, t, flow, gap)
                          /\ Table!Holds(old, t) => gap # 0 /\ old[gap].tuple = t
                          /\ ~Table!Holds(old, t) => gap = IF Len(old) >= Table!Bound(max_flows) THEN 1 ELSE 0
  BY StoreShape
<1>4. \A k \in 1..n : old[k].tuple = t => k = gap
  <2>1. CASE Table!Holds(old, t)
    <3>1. gap \in 1..n /\ old[gap].tuple = t BY <1>1, <1>3, <2>1
    <3> QED BY <3>1 DEF Single
  <2>2. CASE ~Table!Holds(old, t) BY <1>1, <2>2 DEF Table!Holds
  <2> QED BY <2>1, <2>2
<1>5. gap # 0 => old[gap].tuple = t BY <1>3
<1>6. m = (IF gap = 0 THEN n + 1 ELSE n) /\ new[m] = [tuple |-> t, flow |-> flow]
      /\ \A i \in 1..(m - 1) : new[i] = old[From(gap, i)]
  BY <1>3 DEF Moved, From
<1>7. m \in Nat \ {0} /\ ClosesGap(gap, n, m) BY <1>1, <1>6, FromIs
<1> HIDE DEF m, n
<1>8. \A i \in 1..(m - 1) : From(gap, i) \in 1..n /\ From(gap, i) # gap BY <1>7 DEF ClosesGap
<1>9. \A i \in 1..(m - 1) : new[i].tuple # t BY <1>4, <1>6, <1>8
<1>10. new[m].tuple = t /\ new[m].flow = flow /\ m \in 1..m /\ \A i \in 1..m : i # m => i \in 1..(m - 1)
  BY <1>6, <1>7
<1>11. Single(new)
  <2> SUFFICES ASSUME NEW i \in 1..m, NEW j \in 1..m, new[i].tuple = new[j].tuple PROVE i = j
    BY DEF Single, m
  <2>1. CASE i = m \/ j = m BY <1>9, <1>10, <2>1
  <2>2. CASE i # m /\ j # m
    <3>1. i \in 1..(m - 1) /\ j \in 1..(m - 1) BY <1>10, <2>2
    <3>2. From(gap, i) = From(gap, j)
      <4>1. /\ new[i] = old[From(gap, i)] /\ new[j] = old[From(gap, j)]
            /\ From(gap, i) \in 1..n /\ From(gap, j) \in 1..n
        BY <1>6, <1>8, <3>1
      <4>2. old[From(gap, i)].tuple = old[From(gap, j)].tuple BY <2>2, <4>1
      <4> QED BY <4>1, <4>2 DEF Single, n
    <3>3. (i < j => From(gap, i) < From(gap, j)) /\ (j < i => From(gap, j) < From(gap, i))
      BY <1>7, <3>1 DEF ClosesGap
    <3>4. From(gap, i) \in Nat /\ From(gap, j) \in Nat BY <1>1, <1>8, <3>1
    <3> QED BY <1>7, <3>1, <3>2, <3>3, <3>4
  <2> QED BY <2>1, <2>2
<1>12. Table!Lookup(new, t) = flow BY <1>2, <1>10, <1>11, LookupIs DEF m
<1>13. ASSUME NEW u, u # t PROVE Table!Lookup(new, u) = Table!Lookup(old, u)
  <2>1. CASE \E k \in 1..n : old[k].tuple = u
    <3>1. PICK k \in 1..n : old[k].tuple = u BY <2>1
    <3>2. k # gap BY <1>1, <1>5, <1>13, <3>1
    <3>3. PICK i \in 1..(m - 1) : From(gap, i) = k BY <1>7, <3>1, <3>2 DEF ClosesGap
    <3>4. new[i] = old[k] /\ i \in 1..m BY <1>6, <1>7, <3>3
    <3>5. Table!Lookup(new, u) = new[i].flow BY <1>2, <1>11, <3>1, <3>4, LookupIs DEF m
    <3>6. Table!Lookup(old, u) = old[k].flow BY <3>1, LookupIs DEF n
    <3> QED BY <3>4, <3>5, <3>6
  <2>2. CASE \A k \in 1..n : old[k].tuple # u
    <3>1. \A i \in 1..m : new[i].tuple # u BY <1>6, <1>8, <1>10, <1>13, <2>2
    <3>2. Table!Lookup(new, u) = NewFlow BY <1>2, <1>11, <3>1, LookupIs DEF m
    <3>3. Table!Lookup(old, u) = NewFlow BY <2>2, LookupIs DEF n
    <3> QED BY <3>2, <3>3
  <2> QED BY <2>1, <2>2
<1> QED BY <1>2, <1>11, <1>12, <1>13

(* The fate of packets and the updates of the table as two statements, for  *)
(* the proof that the engines agree.                                        *)
Fates ==
  \A p, f, host, told2, host2 : \A told \in BOOLEAN :
    LET t == p.tuple
        g == Measured(Opened(f, p), p)
    IN /\ (f = NewFlow /\ ~told) \/ Known(f, t, told, host)
       /\ told2 = (told \/ p.host \in Names) /\ host2 = IF told THEN host ELSE p.host
       => Fated(p, t, told, told2, host2, g, classifyFlow(g, p))

LEMMA FatesHold == Fates
<1> SUFFICES ASSUME NEW p, NEW f, NEW host, NEW told2, NEW host2, NEW told \in BOOLEAN,
                    NEW t, t = p.tuple, NEW g, g = Measured(Opened(f, p), p), NEW h, h = classifyFlow(g, p),
                    (f = NewFlow /\ ~told) \/ Known(f, t, told, host),
                    told2 = (told \/ p.host \in Names), host2 = IF told THEN host ELSE p.host
             PROVE  Fated(p, t, told, told2, host2, g, h)
  BY DEF Fates
<1> QED BY Fate

Updates ==
  \A old, t, flow :
    /\ IsSeq(old) /\ Single(old)
    /\ Table!Holds(old, t) \/ ~(Len(old) >= Table!Bound(max_flows))
    => LET new == Table!Store(old, max_flows, t, flow) IN
       /\ IsSeq(new) /\ Single(new)
       /\ \A u : Table!Lookup(new, u) = IF u = t THEN flow ELSE Table!Lookup(old, u)

LEMMA UpdatesHold == Updates
<1> SUFFICES ASSUME NEW old, NEW t, NEW flow, IsSeq(old), Single(old),
                    Table!Holds(old, t) \/ ~(Len(old) >= Table!Bound(max_flows)),
                    NEW new, new = Table!Store(old, max_flows, t, flow)
             PROVE  /\ IsSeq(new) /\ Single(new)
                    /\ \A u : Table!Lookup(new, u) = IF u = t THEN flow ELSE Table!Lookup(old, u)
  BY DEF Updates
<1> QED BY StoreIsUpdate
==============================================================================
