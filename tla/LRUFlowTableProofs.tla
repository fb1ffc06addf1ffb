------------------------- MODULE LRUFlowTableProofs -------------------------
(***************************************************************************)
(* Theorems about LRUFlowTable for any tuples, nodes, limits and number of *)
(* calls.                                                                  *)
(***************************************************************************)
EXTENDS LRUFlowTable, DataFacts, FunctionTheorems, FiniteSetTheorems

Room == IF max_flows = 0 THEN 1 ELSE max_flows

(* TypeOK, and the types of the histories. *)
Typed ==
  /\ TypeOK
  /\ flows_map \in [DOMAIN flows_map -> Nodes]
  /\ calls \in Seq(Tuples) /\ refTuple \in Tuples
  /\ expected \in [Tuples -> Nat]

(* No node is linked twice, and the map and the tuples in the nodes are     *)
(* inverse to each other.                                                   *)
Linked ==
  /\ \A i, j \in 1..Len(lru_list) : lru_list[i] = lru_list[j] => i = j
  /\ \A i \in 1..Len(lru_list) : /\ tupleAt[lru_list[i]] \in DOMAIN flows_map
                                 /\ flows_map[tupleAt[lru_list[i]]] = lru_list[i]
  /\ \A t \in DOMAIN flows_map : \E i \in 1..Len(lru_list) :
        lru_list[i] = flows_map[t] /\ tupleAt[lru_list[i]] = t
  /\ Len(lru_list) <= Room

(* Every node holds what was written for its tuple, and the reference that  *)
(* is still to be used is the node at the end of the list.                  *)
Held ==
  /\ \A t \in DOMAIN flows_map : flowAt[flows_map[t]] = expected[t]
  /\ ref # NoNode => /\ refTuple \in DOMAIN flows_map /\ flows_map[refTuple] = ref
                     /\ lru_list # <<>> /\ lru_list[Len(lru_list)] = ref

(* Behind a flow in the list are the tuples called since its last call, and *)
(* a flow was dropped only for as many others as there is room for.         *)
Behind(i) == {tupleAt[lru_list[j]] : j \in i + 1..Len(lru_list)}
Ordered ==
  /\ \A i \in 1..Len(lru_list) : \E c \in 1..Len(calls) :
        calls[c] = tupleAt[lru_list[i]] /\ UsedSince(c) = Behind(i)
  /\ \A c \in 1..Len(calls) : calls[c] \notin DOMAIN flows_map =>
        Len(lru_list) = Room /\ DOMAIN flows_map \subseteq UsedSince(c)

-----------------------------------------------------------------------------
(* The list and the map have the same size. *)
LEMMA SizeIsLength ==
  ASSUME Typed, Linked
  PROVE  /\ IsFiniteSet(DOMAIN flows_map)
         /\ Size = Len(lru_list) /\ Len(lru_list) \in Nat
<1> DEFINE n == Len(lru_list)
           f == [i \in 1..n |-> tupleAt[lru_list[i]]]
<1>1. n \in Nat
  BY LenProperties DEF Typed, TypeOK
<1>2. f \in [1..n -> DOMAIN flows_map]
  BY DEF Linked
<1>3. \A i, j \in 1..n : f[i] = f[j] => i = j
  BY DEF Linked
<1>4. \A t \in DOMAIN flows_map : \E i \in 1..n : f[i] = t
  BY DEF Linked
<1> HIDE DEF f, n
<1>5. f \in Bijection(1..n, DOMAIN flows_map)
  BY <1>2, <1>3, <1>4, Fun_IsBij
<1>6. ExistsBijection(1..n, DOMAIN flows_map)
  BY <1>5, Fun_ExistsBij
<1>7. IsFiniteSet(DOMAIN flows_map) /\ Cardinality(DOMAIN flows_map) = n
  BY <1>1, <1>6, FS_NatBijection, FS_CountingElements
<1> QED BY <1>1, <1>7 DEF Size, n

(* The table is full iff it holds as many flows as there is room for, but   *)
(* for a table of no flow, which is full when it is empty.                  *)
LEMMA FullMeans ==
  ASSUME Typed, Linked
  PROVE  /\ Room \in Nat \ {0} /\ max_flows \in Nat
         /\ Full <=> Len(lru_list) >= max_flows
         /\ Full /\ lru_list # <<>> <=> Len(lru_list) = Room
         /\ lru_list = <<>> <=> Len(lru_list) = 0
<1>1. max_flows \in Nat
  BY LRUFlowTableAssumption DEF Typed, TypeOK
<1>2. lru_list = <<>> <=> Len(lru_list) = 0
  BY EmptySeq DEF Typed, TypeOK
<1>3. Size = Len(lru_list) /\ Len(lru_list) \in Nat
  BY SizeIsLength
<1>4. Len(lru_list) <= Room
  BY DEF Linked
<1> QED BY <1>1, <1>2, <1>3, <1>4 DEF Full, Room

(* Splice moves n from its place at to the end and keeps the order of the   *)
(* others.                                                                  *)
LEMMA SpliceProperties ==
  ASSUME Typed, Linked, NEW at \in 1..Len(lru_list)
  PROVE  LET s == Splice(lru_list[at]) IN
         /\ s \in Seq(Nodes) /\ Len(s) = Len(lru_list)
         /\ \A i \in 1..Len(lru_list) :
              s[i] = IF i = Len(lru_list) THEN lru_list[at]
                     ELSE IF i < at THEN lru_list[i] ELSE lru_list[i + 1]
<1> DEFINE n  == lru_list[at]
           at2 == CHOOSE i \in DOMAIN lru_list : lru_list[i] = n
           r  == RemoveAt(lru_list, at)
<1>1. /\ lru_list \in Seq(Nodes) /\ Len(lru_list) \in Nat /\ n \in Nodes
      /\ DOMAIN lru_list = 1..Len(lru_list)
  BY LenProperties, ElementOfSeq DEF Typed, TypeOK
<1>2. at2 = at
  <2>1. \A i \in DOMAIN lru_list : lru_list[i] = n => i = at
    BY <1>1 DEF Linked
  <2> QED BY <1>1, <2>1
<1>3. Splice(n) = Append(r, n)
  BY <1>2 DEF Splice
<1>4. /\ r \in Seq(Nodes) /\ Len(r) = Len(lru_list) - 1
      /\ \A i \in 1..Len(lru_list) - 1 : r[i] = IF i < at THEN lru_list[i] ELSE lru_list[i + 1]
  BY <1>1, RemoveAtProperties
<1> HIDE DEF r, n
<1>5. /\ Append(r, n) \in Seq(Nodes) /\ Len(Append(r, n)) = Len(r) + 1
      /\ \A i \in 1..Len(r) : Append(r, n)[i] = r[i]
      /\ Append(r, n)[Len(r) + 1] = n
  <2>1. r \in Seq(Nodes) /\ n \in Nodes BY <1>1, <1>4 DEF n
  <2> QED BY <2>1, AppendProperties
<1>6. ASSUME NEW i \in 1..Len(lru_list)
      PROVE  Append(r, n)[i] = IF i = Len(lru_list) THEN n
                               ELSE IF i < at THEN lru_list[i] ELSE lru_list[i + 1]
  <2> DEFINE a == Append(r, n)
             c == Len(lru_list)
  <2>1. /\ c \in Nat /\ \A j \in 1..c - 1 : a[j] = r[j]
        /\ a[c] = n
    BY <1>1, <1>4, <1>5
  <2>2. CASE i = c
    BY <2>1, <2>2
  <2>3. CASE i # c
    <3>1. i \in 1..c - 1 BY <2>1, <2>3
    <3>2. a[i] = r[i] BY <2>1, <3>1
    <3> QED BY <1>4, <2>3, <3>1, <3>2
  <2> QED BY <2>2, <2>3
<1>7. Len(Append(r, n)) = Len(lru_list)
  BY <1>1, <1>4, <1>5
<1> QED BY <1>3, <1>5, <1>6, <1>7 DEF n

(* The tuples that stay when the first d entries go. *)
Staying(d) == DOMAIN flows_map \ {tupleAt[lru_list[i]] : i \in 1..d}

(* Create appends a node n that is not linked, behind all entries or, if    *)
(* there is no room, behind all but the first: d of them go.                *)
Created(t, n, d) ==
  /\ d = 1 <=> Len(lru_list) = Room
  /\ lru_list' \in Seq(Nodes) /\ Len(lru_list') = Len(lru_list) - d + 1
  /\ lru_list'[Len(lru_list')] = n
  /\ \A i \in 1..Len(lru_list) - d : lru_list'[i] = lru_list[i + d] /\ lru_list[i + d] # n
  /\ flows_map' = [u \in Staying(d) \cup {t} |-> IF u = t THEN n ELSE flows_map[u]]
  /\ tupleAt' = [tupleAt EXCEPT ![n] = t]
  /\ flowAt' = [flowAt EXCEPT ![n] = 0]
  /\ evictions_total' = evictions_total + d
  /\ ref' = n

LEMMA CreateShape ==
  ASSUME Typed, Linked, NEW t \in Tuples, Create(t)
  PROVE  \E n \in Nodes, d \in {0, 1} : Created(t, n, d)
<1> DEFINE K == IF Full THEN evictLRU
                ELSE [list |-> lru_list, map |-> flows_map, count |-> 0]
<1>0. /\ lru_list \in Seq(Nodes) /\ Len(lru_list) \in Nat /\ DOMAIN lru_list = 1..Len(lru_list)
      /\ flows_map \in [DOMAIN flows_map -> Nodes]
  BY LenProperties DEF Typed, TypeOK
<1>1. PICK n \in Nodes \ {K.list[i] : i \in DOMAIN K.list} :
        /\ lru_list' = Append(K.list, n)
        /\ flows_map' = [u \in DOMAIN K.map \cup {t} |-> IF u = t THEN n ELSE K.map[u]]
        /\ evictions_total' = evictions_total + K.count
        /\ tupleAt' = [tupleAt EXCEPT ![n] = t]
        /\ flowAt' = [flowAt EXCEPT ![n] = 0]
        /\ ref' = n
  BY DEF Create, Called, EmptyFlow
<1>2. \E d \in {0, 1} :
        /\ d = 1 <=> Len(lru_list) = Room
        /\ K.count = d
        /\ K.list \in Seq(Nodes) /\ Len(K.list) = Len(lru_list) - d
        /\ \A i \in 1..Len(lru_list) - d : K.list[i] = lru_list[i + d]
        /\ K.map = [u \in Staying(d) |-> flows_map[u]]
  <2>1. CASE Full /\ lru_list # <<>>
    <3>1. Len(lru_list) = Room BY <2>1, FullMeans
    <3>2. /\ Tail(lru_list) \in Seq(Nodes) /\ Len(Tail(lru_list)) = Len(lru_list) - 1
          /\ \A i \in 1..Len(lru_list) - 1 : Tail(lru_list)[i] = lru_list[i + 1]
      BY <1>0, <2>1, HeadTailProperties
    <3>3. Staying(1) = DOMAIN flows_map \ {tupleAt[Head(lru_list)]}
      BY <1>0, <2>1 DEF Staying
    <3>4. K = [list |-> Tail(lru_list), map |-> [u \in Staying(1) |-> flows_map[u]], count |-> 1]
      BY <2>1, <3>3 DEF evictLRU
    <3> HIDE DEF K
    <3> QED BY <3>1, <3>2, <3>4
  <2>2. CASE ~(Full /\ lru_list # <<>>)
    <3>1. Len(lru_list) # Room BY <2>2, FullMeans
    <3>2. Staying(0) = DOMAIN flows_map
      BY DEF Staying
    <3>3. K = [list |-> lru_list, map |-> flows_map, count |-> 0]
      BY <2>2 DEF evictLRU
    <3>4. flows_map = [u \in Staying(0) |-> flows_map[u]]
      BY <1>0, <3>2
    <3> HIDE DEF K
    <3> QED BY <1>0, <3>1, <3>3, <3>4
  <2> QED BY <2>1, <2>2
<1> HIDE DEF K
<1>3. PICK d \in {0, 1} :
        /\ d = 1 <=> Len(lru_list) = Room
        /\ K.count = d
        /\ K.list \in Seq(Nodes) /\ Len(K.list) = Len(lru_list) - d
        /\ \A i \in 1..Len(lru_list) - d : K.list[i] = lru_list[i + d]
        /\ K.map = [u \in Staying(d) |-> flows_map[u]]
  BY <1>2
<1>4. /\ lru_list' \in Seq(Nodes) /\ Len(lru_list') = Len(K.list) + 1
      /\ \A i \in 1..Len(K.list) : lru_list'[i] = K.list[i]
      /\ lru_list'[Len(K.list) + 1] = n
  BY <1>1, <1>3, AppendProperties
<1>5. \A i \in 1..Len(K.list) : K.list[i] # n
  BY <1>1, <1>3, LenProperties
<1>6. flows_map' = [u \in Staying(d) \cup {t} |-> IF u = t THEN n ELSE flows_map[u]]
  BY <1>1, <1>3
<1>7. n \in Nodes /\ evictions_total' = evictions_total + d
  BY <1>1, <1>3
<1>8. /\ Len(lru_list') = Len(lru_list) - d + 1 /\ lru_list'[Len(lru_list')] = n
      /\ \A i \in 1..Len(lru_list) - d : /\ lru_list'[i] = lru_list[i + d]
                                         /\ lru_list[i + d] # n
  <2>1. Len(K.list) = Len(lru_list) - d
    BY <1>3
  <2>2. Len(lru_list) - d + 1 = Len(K.list) + 1
    BY <2>1
  <2>3. \A i \in 1..Len(K.list) : lru_list'[i] = lru_list[i + d] /\ lru_list[i + d] # n
    BY <2>1, <1>3, <1>4, <1>5
  <2> QED BY <2>1, <2>2, <2>3, <1>4
<1>9. Created(t, n, d)
  BY <1>1, <1>3, <1>4, <1>6, <1>7, <1>8 DEF Created
<1> QED BY <1>7, <1>9

(* The node of t goes from its place to the end of the list. *)
MovedToEnd(t, at) ==
  /\ lru_list[at] = flows_map[t] /\ tupleAt[lru_list[at]] = t
  /\ lru_list' \in Seq(Nodes) /\ Len(lru_list') = Len(lru_list)
  /\ \A i \in 1..Len(lru_list) :
       lru_list'[i] = IF i = Len(lru_list) THEN lru_list[at]
                      ELSE IF i < at THEN lru_list[i] ELSE lru_list[i + 1]

LEMMA FoundShape ==
  ASSUME Typed, Linked, NEW t \in Tuples, Found(t)
  PROVE  \E at \in 1..Len(lru_list) : MovedToEnd(t, at)
<1>1. PICK at \in 1..Len(lru_list) : lru_list[at] = flows_map[t] /\ tupleAt[lru_list[at]] = t
  BY DEF Linked, Found
<1>2. lru_list' = Splice(lru_list[at])
  BY <1>1 DEF Found
<1>3. MovedToEnd(t, at)
  BY <1>1, <1>2, SpliceProperties DEF MovedToEnd
<1> QED BY <1>3

-----------------------------------------------------------------------------
LEMMA InitInv == Init => Typed /\ Linked /\ Held /\ Ordered
<1> SUFFICES ASSUME Init PROVE Typed /\ Linked /\ Held /\ Ordered
  OBVIOUS
<1>1. /\ lru_list = <<>> /\ lru_list \in Seq(Nodes) /\ Len(lru_list) = 0
      /\ calls = <<>> /\ calls \in Seq(Tuples) /\ Len(calls) = 0
  BY EmptySeq DEF Init
<1>2. DOMAIN flows_map = {} /\ flows_map \in [{} -> Nodes]
  BY DEF Init
<1>3. AnyTuple \in Tuples
  BY LRUFlowTableAssumption DEF AnyTuple
<1>4. max_flows \in Nat /\ Room \in Nat /\ ref = NoNode
  BY LRUFlowTableAssumption DEF Init, Room
<1>5. Typed
  BY <1>1, <1>2, <1>3, LRUFlowTableAssumption DEF Typed, TypeOK, Init
<1>6. Linked
  BY <1>1, <1>2, <1>4 DEF Linked
<1>7. Held
  BY <1>2, <1>4 DEF Held
<1>8. Ordered
  BY <1>1 DEF Ordered
<1> QED BY <1>5, <1>6, <1>7, <1>8

LEMMA TypedStep == Typed /\ Linked /\ Held /\ [Next]_vars => Typed'
<1> SUFFICES ASSUME Typed, Linked, Held, [Next]_vars PROVE Typed'
  OBVIOUS
<1>0. /\ calls \in Seq(Tuples) /\ Len(calls) \in Nat /\ MaxCalls \in Nat
      /\ \A t \in Tuples : Append(calls, t) \in Seq(Tuples) /\ Len(Append(calls, t)) = Len(calls) + 1
  BY LRUFlowTableAssumption, LenProperties, AppendProperties DEF Typed
<1>1. ASSUME NEW t \in Tuples, Found(t) PROVE Typed'
  <2>1. lru_list' \in Seq(Nodes) BY <1>1, FoundShape DEF MovedToEnd
  <2>2. ref' \in Nodes BY <1>1 DEF Found, Called, Typed, TypeOK
  <2>3. calls' \in Seq(Tuples) /\ Len(calls') <= MaxCalls
    BY <1>0, <1>1 DEF Found, Called
  <2> QED BY <1>1, <2>1, <2>2, <2>3 DEF Found, Called, Typed, TypeOK
<1>2. ASSUME NEW t \in Tuples, Create(t) PROVE Typed'
  <2>0. PICK n \in Nodes, d \in {0, 1} : Created(t, n, d)
    BY <1>2, CreateShape
  <2>1. /\ lru_list' \in Seq(Nodes)
        /\ flows_map' = [u \in Staying(d) \cup {t} |-> IF u = t THEN n ELSE flows_map[u]]
        /\ tupleAt' = [tupleAt EXCEPT ![n] = t]
        /\ flowAt' = [flowAt EXCEPT ![n] = 0]
        /\ evictions_total' = evictions_total + d
        /\ ref' = n
    BY <2>0 DEF Created
  <2>2. calls' \in Seq(Tuples) /\ Len(calls') <= MaxCalls
    BY <1>0, <1>2 DEF Create, Called
  <2>3. /\ flows_map' \in [DOMAIN flows_map' -> Nodes] /\ DOMAIN flows_map' \subseteq Tuples
        /\ \A u \in DOMAIN flows_map' : flows_map'[u] \in Nodes
    BY <2>1 DEF Typed, TypeOK, Staying
  <2>4. evictions_total' \in Nat
    BY <2>1 DEF Typed, TypeOK
  <2> QED BY <1>2, <2>1, <2>2, <2>3, <2>4 DEF Create, Called, Typed, TypeOK
<1>3. CASE UseRef
  <2>1. ref \in Nodes BY <1>3 DEF UseRef, Typed, TypeOK
  <2> QED BY <1>3, <2>1 DEF UseRef, Typed, TypeOK
<1>4. CASE clear
  <2>1. /\ <<>> \in Seq(Nodes) /\ <<>> \in Seq(Tuples) /\ Len(<<>>) = 0
        /\ flows_map' = <<>> /\ DOMAIN flows_map' = {} /\ flows_map' \in [{} -> Nodes]
    BY <1>4, EmptySeq DEF clear
  <2> QED BY <1>0, <1>4, <2>1 DEF clear, Typed, TypeOK
<1>5. CASE UNCHANGED vars
  BY <1>5 DEF vars, Typed, TypeOK
<1> QED BY <1>1, <1>2, <1>3, <1>4, <1>5 DEF Next, Idle

LEMMA LinkedStep == Typed /\ Linked /\ [Next]_vars => Linked'
<1> SUFFICES ASSUME Typed, Linked, [Next]_vars PROVE Linked'
  OBVIOUS
<1> DEFINE L == Len(lru_list)
<1>0. /\ L \in Nat /\ L <= Room /\ Room \in Nat \ {0} /\ (lru_list = <<>> <=> L = 0)
      /\ \A i \in 1..L : lru_list[i] \in Nodes
  BY FullMeans, SizeIsLength, ElementOfSeq DEF Linked, Typed, TypeOK
<1>a. \A i \in 1..L : /\ tupleAt[lru_list[i]] \in DOMAIN flows_map
                      /\ flows_map[tupleAt[lru_list[i]]] = lru_list[i]
  BY DEF Linked
<1>1. ASSUME NEW t \in Tuples, Found(t) PROVE Linked'
  <2>1. PICK at \in 1..L : MovedToEnd(t, at)
    BY <1>1, FoundShape
  <2>2. UNCHANGED <<max_flows, flows_map, tupleAt>> /\ Room' = Room
    BY <1>1 DEF Found, Room
  <2> DEFINE from(i) == IF i = L THEN at ELSE IF i < at THEN i ELSE i + 1
             to(i)   == IF i = at THEN L ELSE IF i < at THEN i ELSE i - 1
  <2>3. /\ \A i \in 1..L : from(i) \in 1..L /\ to(i) \in 1..L /\ from(to(i)) = i
        /\ \A i, j \in 1..L : from(i) = from(j) => i = j
    BY <1>0
  <2>4. Len(lru_list') = L /\ \A i \in 1..L : lru_list'[i] = lru_list[from(i)]
    BY <2>1, <1>0 DEF MovedToEnd
  <2> HIDE DEF from, to, L
  <2>5. \A i, j \in 1..L : lru_list'[i] = lru_list'[j] => i = j
    BY <2>3, <2>4 DEF Linked, L
  <2>6. \A i \in 1..L : /\ tupleAt[lru_list'[i]] \in DOMAIN flows_map
                        /\ flows_map[tupleAt[lru_list'[i]]] = lru_list'[i]
    <3> SUFFICES ASSUME NEW i \in 1..L
                 PROVE  /\ tupleAt[lru_list'[i]] \in DOMAIN flows_map
                        /\ flows_map[tupleAt[lru_list'[i]]] = lru_list'[i]
      OBVIOUS
    <3>1. from(i) \in 1..L /\ lru_list'[i] = lru_list[from(i)]
      BY <2>3, <2>4
    <3> QED BY <3>1, <1>a
  <2>7. ASSUME NEW u \in DOMAIN flows_map
        PROVE  \E i \in 1..L : lru_list'[i] = flows_map[u] /\ tupleAt[lru_list'[i]] = u
    <3>1. PICK i \in 1..L : lru_list[i] = flows_map[u] /\ tupleAt[lru_list[i]] = u
      BY DEF Linked, L
    <3>2. to(i) \in 1..L /\ lru_list'[to(i)] = lru_list[i]
      BY <2>3, <2>4
    <3> QED BY <3>1, <3>2
  <2> QED BY <1>0, <2>2, <2>4, <2>5, <2>6, <2>7 DEF Linked
<1>2. ASSUME NEW t \in Tuples, Create(t) PROVE Linked'
  <2>1. PICK n \in Nodes, d \in {0, 1} : Created(t, n, d)
    BY <1>2, CreateShape
  <2>2. t \notin DOMAIN flows_map /\ Room' = Room
    BY <1>2 DEF Create, Room
  <2>3. /\ L - d \in Nat /\ L - d + 1 \in 1..Room
        /\ Len(lru_list') = L - d + 1
    <3>1. d = 1 <=> L = Room BY <2>1 DEF Created
    <3> QED BY <1>0, <2>1, <3>1 DEF Created
  <2> DEFINE M == L - d
  <2>4. /\ lru_list'[M + 1] = n
        /\ \A i \in 1..M : i + d \in 1..L /\ lru_list'[i] = lru_list[i + d] /\ lru_list[i + d] # n
        /\ flows_map' = [u \in Staying(d) \cup {t} |-> IF u = t THEN n ELSE flows_map[u]]
        /\ tupleAt' = [tupleAt EXCEPT ![n] = t]
    BY <1>0, <2>1, <2>3 DEF Created
  <2>5. M \in Nat /\ Len(lru_list') = M + 1 /\ M + 1 <= Room
    BY <2>3
  <2>6. \A i \in 1..M + 1 : i # M + 1 => i \in 1..M
    BY <2>5
  <2>7. \A i \in 1..M : /\ lru_list'[i] \in Nodes /\ tupleAt'[lru_list'[i]] = tupleAt[lru_list[i + d]]
                        /\ tupleAt[lru_list[i + d]] \in DOMAIN flows_map
                        /\ flows_map[tupleAt[lru_list[i + d]]] = lru_list[i + d]
    <3> SUFFICES ASSUME NEW i \in 1..M
                 PROVE  /\ lru_list'[i] \in Nodes
                        /\ tupleAt'[lru_list'[i]] = tupleAt[lru_list[i + d]]
                        /\ tupleAt[lru_list[i + d]] \in DOMAIN flows_map
                        /\ flows_map[tupleAt[lru_list[i + d]]] = lru_list[i + d]
      OBVIOUS
    <3>1. i + d \in 1..L /\ lru_list'[i] = lru_list[i + d] /\ lru_list[i + d] # n
      BY <2>4
    <3>2. lru_list[i + d] \in Nodes BY <1>0, <3>1
    <3>3. tupleAt'[lru_list[i + d]] = tupleAt[lru_list[i + d]]
      BY <3>1, <3>2, <2>4 DEF Typed, TypeOK
    <3> QED BY <3>1, <3>2, <3>3, <1>a
  <2>8. \A i \in 1..M : tupleAt[lru_list[i + d]] \in Staying(d)
    <3>1. ASSUME NEW i \in 1..M, NEW j \in 1..d PROVE lru_list[i + d] # lru_list[j]
      <4>1. i + d \in 1..L /\ j \in 1..L /\ i + d # j BY <1>0, <2>3, <2>4, <2>5
      <4> QED BY <4>1 DEF Linked
    <3>2. ASSUME NEW i \in 1..M, NEW j \in 1..d PROVE tupleAt[lru_list[i + d]] # tupleAt[lru_list[j]]
      <4>1. j \in 1..L BY <1>0, <2>3
      <4>2. flows_map[tupleAt[lru_list[j]]] = lru_list[j] BY <4>1 DEF Linked
      <4>3. flows_map[tupleAt[lru_list[i + d]]] = lru_list[i + d] BY <2>7
      <4> QED BY <3>1, <4>2, <4>3
    <3> QED BY <2>7, <3>2 DEF Staying
  <2>9. tupleAt'[n] = t
    BY <2>4 DEF Typed, TypeOK
  <2>10. DOMAIN flows_map' = Staying(d) \cup {t} /\ t \notin Staying(d) /\ flows_map'[t] = n
    BY <2>4, <2>2 DEF Staying
  <2>11. \A u \in Staying(d) : flows_map'[u] = flows_map[u]
    BY <2>4, <2>10
  <2>12. ASSUME NEW u \in Staying(d) PROVE \E i \in 1..M : lru_list[i + d] = flows_map[u] /\ tupleAt[lru_list[i + d]] = u
    <3>1. PICK k \in 1..L : lru_list[k] = flows_map[u] /\ tupleAt[lru_list[k]] = u
      BY DEF Staying, Linked
    <3>2. k \notin 1..d BY <3>1 DEF Staying
    <3>3. k - d \in 1..M /\ (k - d) + d = k BY <1>0, <3>2
    <3> QED BY <3>1, <3>3
  <2> HIDE DEF M, L
  <2>13. \A i, j \in 1..M + 1 : lru_list'[i] = lru_list'[j] => i = j
    <3>1. ASSUME NEW i \in 1..M, NEW j \in 1..M, lru_list'[i] = lru_list'[j] PROVE i = j
      <4>1. i + d = j + d BY <2>4, <3>1 DEF Linked, L
      <4> QED BY <4>1, <2>5
    <3> QED BY <3>1, <2>4, <2>6
  <2>14. \A i \in 1..M + 1 : /\ tupleAt'[lru_list'[i]] \in DOMAIN flows_map'
                             /\ flows_map'[tupleAt'[lru_list'[i]]] = lru_list'[i]
    <3>1. ASSUME NEW i \in 1..M PROVE /\ tupleAt'[lru_list'[i]] \in DOMAIN flows_map'
                                     /\ flows_map'[tupleAt'[lru_list'[i]]] = lru_list'[i]
      BY <2>4, <2>7, <2>8, <2>10, <2>11
    <3> QED BY <3>1, <2>4, <2>6, <2>9, <2>10
  <2>15. ASSUME NEW u \in DOMAIN flows_map'
         PROVE  \E i \in 1..M + 1 : lru_list'[i] = flows_map'[u] /\ tupleAt'[lru_list'[i]] = u
    <3>1. CASE u = t
      <4>1. M + 1 \in 1..M + 1 BY <2>5
      <4> QED BY <3>1, <4>1, <2>4, <2>9, <2>10
    <3>2. CASE u # t
      <4>1. PICK i \in 1..M : lru_list[i + d] = flows_map[u] /\ tupleAt[lru_list[i + d]] = u
        BY <3>2, <2>10, <2>12
      <4>2. i \in 1..M + 1 BY <2>5
      <4> QED BY <3>2, <4>1, <4>2, <2>4, <2>7, <2>10, <2>11
    <3> QED BY <3>1, <3>2
  <2> QED BY <2>2, <2>5, <2>13, <2>14, <2>15 DEF Linked
<1>3. CASE UseRef
  BY <1>3 DEF UseRef, Linked, Room
<1>4. CASE clear
  <2>1. lru_list' = <<>> /\ Len(lru_list') = 0 /\ DOMAIN flows_map' = {} /\ Room' = Room
    BY <1>4, EmptySeq DEF clear, Room
  <2> QED BY <1>0, <2>1 DEF Linked
<1>5. CASE UNCHANGED vars
  BY <1>5 DEF vars, Linked, Room
<1> QED BY <1>1, <1>2, <1>3, <1>4, <1>5 DEF Next, Idle

LEMMA HeldStep == Typed /\ Linked /\ Held /\ [Next]_vars => Held'
<1> SUFFICES ASSUME Typed, Linked, Held, [Next]_vars PROVE Held'
  OBVIOUS
<1>0. /\ \A u \in DOMAIN flows_map : flows_map[u] \in Nodes /\ tupleAt[flows_map[u]] = u
      /\ NoNode \notin Nodes /\ flowAt \in [Nodes -> Nat] /\ expected \in [Tuples -> Nat]
      /\ DOMAIN flows_map \subseteq Tuples
      /\ Len(lru_list) \in Nat
  BY LRUFlowTableAssumption, LenProperties DEF Typed, TypeOK, Linked
<1>1. ASSUME NEW t \in Tuples, Found(t) PROVE Held'
  <2>1. PICK at \in 1..Len(lru_list) : MovedToEnd(t, at)
    BY <1>1, FoundShape
  <2>2. /\ Len(lru_list') = Len(lru_list) /\ Len(lru_list) \in 1..Len(lru_list)
        /\ lru_list'[Len(lru_list')] = flows_map[t] /\ lru_list' # <<>>
    BY <1>0, <2>1, EmptySeq DEF MovedToEnd
  <2> QED BY <1>1, <2>2 DEF Found, Called, Held
<1>2. ASSUME NEW t \in Tuples, Create(t) PROVE Held'
  <2>1. PICK n \in Nodes, d \in {0, 1} : Created(t, n, d)
    BY <1>2, CreateShape
  <2>2. /\ t \notin DOMAIN flows_map /\ refTuple' = t /\ ref' = n
        /\ expected' = [expected EXCEPT ![t] = 0]
        /\ flowAt' = [flowAt EXCEPT ![n] = 0]
        /\ flows_map' = [u \in Staying(d) \cup {t} |-> IF u = t THEN n ELSE flows_map[u]]
    BY <1>2, <2>1 DEF Create, Called, Created
  <2>3. flows_map'[t] = n /\ t \in DOMAIN flows_map'
    BY <2>2
  <2>4. ASSUME NEW u \in Staying(d) PROVE flows_map[u] # n
    <3>1. PICK k \in 1..Len(lru_list) : lru_list[k] = flows_map[u] /\ tupleAt[lru_list[k]] = u
      BY DEF Staying, Linked
    <3>2. k \notin 1..d BY <3>1 DEF Staying
    <3>3. k - d \in 1..Len(lru_list) - d /\ (k - d) + d = k BY <1>0, <3>2
    <3>4. lru_list[(k - d) + d] # n BY <2>1, <3>3 DEF Created
    <3> QED BY <3>1, <3>3, <3>4
  <2>5. ASSUME NEW u \in DOMAIN flows_map' PROVE flowAt'[flows_map'[u]] = expected'[u]
    <3>1. CASE u = t
      BY <3>1, <1>0, <2>2, <2>3
    <3>2. CASE u # t
      <4>1. u \in Staying(d) /\ u \in DOMAIN flows_map /\ flows_map'[u] = flows_map[u]
        BY <3>2, <2>2 DEF Staying
      <4>2. flowAt[flows_map[u]] = expected[u] BY <4>1 DEF Held
      <4> QED BY <3>2, <4>1, <4>2, <1>0, <2>2, <2>4
    <3> QED BY <3>1, <3>2
  <2>6. lru_list' # <<>> /\ lru_list'[Len(lru_list')] = n
    <3>1. Len(lru_list') \in Nat \ {0}
      BY <1>0, <2>1, FullMeans DEF Created
    <3> QED BY <2>1, <3>1, EmptySeq DEF Created
  <2> QED BY <2>2, <2>3, <2>5, <2>6 DEF Held
<1>3. CASE UseRef
  <2>1. /\ ref' = NoNode /\ UNCHANGED <<flows_map, tupleAt>>
        /\ ref = flows_map[refTuple] /\ refTuple \in DOMAIN flows_map
        /\ flowAt' = [flowAt EXCEPT ![ref] = @ + 1]
        /\ expected' = [expected EXCEPT ![refTuple] = @ + 1]
    BY <1>3 DEF UseRef, Held
  <2>2. \A u \in DOMAIN flows_map : flows_map[u] = ref <=> u = refTuple
    BY <1>0, <2>1
  <2>3. \A u \in DOMAIN flows_map : flowAt'[flows_map[u]] = expected'[u]
    BY <1>0, <2>1, <2>2 DEF Held
  <2> QED BY <2>1, <2>3 DEF Held
<1>4. CASE clear
  <2>1. ref' = NoNode /\ DOMAIN flows_map' = {}
    BY <1>4 DEF clear
  <2> QED BY <2>1 DEF Held
<1>5. CASE UNCHANGED vars
  BY <1>5 DEF vars, Held
<1> QED BY <1>1, <1>2, <1>3, <1>4, <1>5 DEF Next, Idle

-----------------------------------------------------------------------------
LEMMA Invariant == Spec => [](Typed /\ Linked /\ Held)
BY InitInv, TypedStep, LinkedStep, HeldStep, PTL DEF Spec

(* The state of the table is well formed. *)
THEOREM TypeCorrect == Spec => []TypeOK
BY Invariant, PTL DEF Typed

(* The pointers in the map lead to the linked nodes of their tuples and to  *)
(* no other, and there are never more flows than fit.                       *)
THEOREM MapAndListAgree == Spec => []MapMatchesList
<1>1. Typed /\ Linked => MapMatchesList
  <2> SUFFICES ASSUME Typed, Linked PROVE MapMatchesList
    OBVIOUS
  <2>1. DOMAIN lru_list = 1..Len(lru_list)
    BY LenProperties DEF Typed, TypeOK
  <2>2. Allocated = {flows_map[t] : t \in DOMAIN flows_map}
    <3>1. ASSUME NEW n \in Allocated PROVE n \in {flows_map[t] : t \in DOMAIN flows_map}
      BY <2>1 DEF Allocated, Linked
    <3>2. ASSUME NEW t \in DOMAIN flows_map PROVE flows_map[t] \in Allocated
      BY <2>1 DEF Allocated, Linked
    <3> QED BY <3>1, <3>2
  <2>3. \A t \in DOMAIN flows_map : tupleAt[flows_map[t]] = t
    BY DEF Linked
  <2> QED BY <2>2, <2>3, SizeIsLength DEF MapMatchesList, Linked, Room
<1> QED BY <1>1, Invariant, PTL

(* The reference last handed out is to the flow it was asked for, and every *)
(* flow holds what was written to it since it was created: a node that is   *)
(* reused takes nothing over and no write goes astray.                      *)
THEOREM ReferencesAreGood == Spec => []NoAliasing
<1>1. Typed /\ Linked /\ Held => NoAliasing
  <2> SUFFICES ASSUME Typed, Linked, Held PROVE NoAliasing
    OBVIOUS
  <2>1. DOMAIN lru_list = 1..Len(lru_list) /\ Len(lru_list) \in Nat
    BY LenProperties DEF Typed, TypeOK
  <2> DEFINE PlaceOf(t) == CHOOSE i \in DOMAIN lru_list :
                             /\ tupleAt[lru_list[i]] = t
                             /\ \A j \in DOMAIN lru_list : tupleAt[lru_list[j]] = t => j <= i
  <2>2. {tupleAt[n] : n \in Allocated} = DOMAIN flows_map
    <3>1. ASSUME NEW n \in Allocated PROVE tupleAt[n] \in DOMAIN flows_map
      BY <2>1 DEF Allocated, Linked
    <3>2. ASSUME NEW t \in DOMAIN flows_map PROVE \E n \in Allocated : tupleAt[n] = t
      BY <2>1, SMTT(20) DEF Allocated, Linked
    <3> QED BY <3>1, <3>2
  <2>3. ASSUME NEW t \in DOMAIN flows_map PROVE flowAt[lru_list[PlaceOf(t)]] = expected[t]
    <3>1. PICK k \in DOMAIN lru_list : lru_list[k] = flows_map[t] /\ tupleAt[lru_list[k]] = t
      BY <2>1 DEF Linked
    <3>2. \A i \in DOMAIN lru_list : tupleAt[lru_list[i]] = t <=> i = k
      BY <2>1, <3>1 DEF Linked
    <3>3. \A j \in DOMAIN lru_list : tupleAt[lru_list[j]] = t => j <= k
      BY <2>1, <3>2
    <3>4. PlaceOf(t) = k
      BY <3>1, <3>2, <3>3
    <3> QED BY <3>1, <3>4, ZenonT(20) DEF Held
  <2>4. exportFlows = [t \in DOMAIN flows_map |-> flowAt[lru_list[PlaceOf(t)]]]
    BY <2>2 DEF exportFlows
  <2> QED BY <2>3, <2>4 DEF NoAliasing, Held
<1> QED BY <1>1, Invariant, PTL

-----------------------------------------------------------------------------
(* A call is one more in the history. *)
LEMMA OneMoreCall ==
  ASSUME Typed, NEW t \in Tuples, calls' = Append(calls, t)
  PROVE  /\ Len(calls) \in Nat /\ Len(calls') = Len(calls) + 1 /\ DOMAIN calls = 1..Len(calls)
         /\ calls'[Len(calls) + 1] = t
         /\ \A c \in 1..Len(calls) : calls'[c] = calls[c]
         /\ \A c \in 1..Len(calls) : UsedSince(c)' = UsedSince(c) \cup {t}
         /\ \A c : c = Len(calls) + 1 => UsedSince(c)' = {}
<1>1. /\ calls \in Seq(Tuples) /\ calls' \in Seq(Tuples)
      /\ Len(calls) \in Nat /\ Len(calls') = Len(calls) + 1
      /\ \A c \in 1..Len(calls) : calls'[c] = calls[c]
      /\ calls'[Len(calls) + 1] = t
  BY AppendProperties, LenProperties DEF Typed
<1>2. DOMAIN calls = 1..Len(calls) /\ DOMAIN calls' = 1..Len(calls) + 1
  BY <1>1, LenProperties
<1>3. ASSUME NEW c \in 1..Len(calls) PROVE UsedSince(c)' = UsedSince(c) \cup {t}
  <2>1. ASSUME NEW j \in DOMAIN calls', j > c PROVE calls'[j] \in UsedSince(c) \cup {t}
    <3>1. CASE j = Len(calls) + 1 BY <1>1, <3>1
    <3>2. CASE j # Len(calls) + 1
      <4>1. j \in DOMAIN calls /\ calls'[j] = calls[j] BY <1>1, <1>2, <3>2
      <4> QED BY <2>1, <4>1 DEF UsedSince
    <3> QED BY <3>1, <3>2
  <2>2. ASSUME NEW j \in DOMAIN calls, j > c PROVE calls[j] \in UsedSince(c)'
    <3>1. j \in DOMAIN calls' /\ calls'[j] = calls[j] BY <1>1, <1>2
    <3> QED BY <2>2, <3>1 DEF UsedSince
  <2>3. t \in UsedSince(c)'
    <3>1. Len(calls) + 1 \in DOMAIN calls' /\ Len(calls) + 1 > c BY <1>1, <1>2
    <3> QED BY <3>1, <1>1 DEF UsedSince
  <2> QED BY <2>1, <2>2, <2>3 DEF UsedSince
<1>4. ASSUME NEW c, c = Len(calls) + 1 PROVE UsedSince(c)' = {}
  BY <1>1, <1>2, <1>4 DEF UsedSince
<1> QED BY <1>1, <1>2, <1>3, <1>4

LEMMA OrderedStep == Typed /\ Linked /\ Ordered /\ [Next]_vars => Ordered'
<1> SUFFICES ASSUME Typed, Linked, Ordered, [Next]_vars PROVE Ordered'
  OBVIOUS
<1> DEFINE L == Len(lru_list)
           C == Len(calls)
           tuple(i) == tupleAt[lru_list[i]]
<1>0. /\ L \in Nat /\ (lru_list = <<>> <=> L = 0)
      /\ \A i \in 1..L : lru_list[i] \in Nodes
      /\ \A i \in 1..L : tuple(i) \in DOMAIN flows_map
      /\ \A i, j \in 1..L : tuple(i) = tuple(j) => i = j
      /\ \A u \in DOMAIN flows_map : \E i \in 1..L : tuple(i) = u
      /\ tupleAt \in [Nodes -> Tuples]
  <2>1. L \in Nat /\ (lru_list = <<>> <=> L = 0)
    BY FullMeans, SizeIsLength
  <2>2. lru_list \in Seq(Nodes) /\ \A i \in 1..L : lru_list[i] \in Nodes
    BY ElementOfSeq DEF Typed, TypeOK
  <2>3. \A i, j \in 1..L : tuple(i) = tuple(j) => i = j
    BY DEF Linked
  <2> QED BY <2>1, <2>2, <2>3 DEF Linked, Typed, TypeOK
<1>a. \A i \in 1..L : \E c \in 1..C : calls[c] = tuple(i) /\ UsedSince(c) = Behind(i)
  BY DEF Ordered
<1>b. \A c \in 1..C : calls[c] \notin DOMAIN flows_map => L = Room /\ DOMAIN flows_map \subseteq UsedSince(c)
  BY DEF Ordered
<1>1. ASSUME NEW t \in Tuples, Found(t) PROVE Ordered'
  <2>1. PICK at \in 1..L : MovedToEnd(t, at)
    BY <1>1, FoundShape
  <2>2. /\ UNCHANGED <<max_flows, flows_map, tupleAt>> /\ Room' = Room
        /\ calls' = Append(calls, t) /\ t \in DOMAIN flows_map
    BY <1>1 DEF Found, Called, Room
  <2> DEFINE from(i) == IF i = L THEN at ELSE IF i < at THEN i ELSE i + 1
             to(i)   == IF i = at THEN L ELSE IF i < at THEN i ELSE i - 1
  <2>3. /\ \A i \in 1..L : from(i) \in 1..L /\ to(i) \in 1..L /\ from(to(i)) = i
        /\ from(L) = at /\ L \in 1..L
        /\ \A i, j \in 1..L : i < j /\ j # L => from(i) < from(j)
        /\ \A i, m \in 1..L : i # L /\ from(i) < m => to(m) > i
    <3>1. L \in Nat /\ at \in 1..L BY <1>0
    <3> HIDE DEF L
    <3>2. \A i \in 1..L : from(i) \in 1..L /\ to(i) \in 1..L /\ from(to(i)) = i
      BY <3>1
    <3>3. \A i, j \in 1..L : i < j /\ j # L => from(i) < from(j)
      BY <3>1
    <3>4. \A i, m \in 1..L : i # L /\ from(i) < m => to(m) > i
      BY <3>1
    <3> QED BY <3>1, <3>2, <3>3, <3>4
  <2>4. Len(lru_list') = L /\ \A i \in 1..L : tupleAt'[lru_list'[i]] = tuple(from(i))
    BY <2>1, <2>2, <1>0 DEF MovedToEnd
  <2>5. tuple(at) = t
    BY <2>1 DEF MovedToEnd
  <2>c. /\ C \in Nat /\ Len(calls') = C + 1
        /\ calls'[C + 1] = t /\ \A c : c = C + 1 => UsedSince(c)' = {}
        /\ \A c \in 1..C : calls'[c] = calls[c] /\ UsedSince(c)' = UsedSince(c) \cup {t}
        /\ DOMAIN calls = 1..C
    BY <2>2, OneMoreCall
  <2> HIDE DEF from, to, L, C, tuple
  <2>6. ASSUME NEW i \in 1..L, i # L PROVE Behind(i)' = Behind(from(i)) \cup {t}
    <3>1. Behind(i)' = {tuple(from(j)) : j \in i + 1..L}
      BY <1>0, <2>4 DEF Behind
    <3>2. Behind(from(i)) = {tuple(m) : m \in from(i) + 1..L}
      BY DEF Behind, L, tuple
    <3>3. ASSUME NEW j \in i + 1..L PROVE tuple(from(j)) \in Behind(from(i)) \cup {t}
      <4>1. CASE j = L BY <4>1, <2>3, <2>5
      <4>2. CASE j # L
        <5>0. j \in 1..L /\ i < j BY <1>0
        <5>1. from(j) \in 1..L /\ from(i) < from(j) /\ from(i) \in 1..L BY <4>2, <5>0, <2>3
        <5>2. from(j) \in from(i) + 1..L BY <5>1, <1>0
        <5> QED BY <5>2, <3>2
      <4> QED BY <4>1, <4>2
    <3>4. ASSUME NEW m \in from(i) + 1..L PROVE tuple(m) \in Behind(i)'
      <4>0. from(i) \in 1..L BY <2>3
      <4>1. m \in 1..L /\ from(i) < m BY <4>0, <1>0
      <4>2. to(m) \in 1..L /\ to(m) > i /\ from(to(m)) = m BY <4>1, <2>3, <2>6
      <4>3. to(m) \in i + 1..L BY <4>2, <1>0
      <4> QED BY <4>2, <4>3, <3>1
    <3>5. t \in Behind(i)'
      <4>1. L \in i + 1..L BY <1>0, <2>6
      <4> QED BY <4>1, <3>1, <2>3, <2>5
    <3> QED BY <3>1, <3>2, <3>3, <3>4, <3>5
  <2>7. ASSUME NEW i \in 1..L
        PROVE  \E c \in 1..C + 1 : calls'[c] = tuple(from(i)) /\ UsedSince(c)' = Behind(i)'
    <3>1. CASE i = L
      <4>1. Behind(i)' = {} BY <3>1, <1>0, <2>4 DEF Behind
      <4>2. PICK c \in 1..C + 1 : c = C + 1 BY <2>c
      <4> QED BY <3>1, <4>1, <4>2, <2>3, <2>5, <2>c
    <3>2. CASE i # L
      <4>1. from(i) \in 1..L BY <2>3
      <4>2. PICK c \in 1..C : calls[c] = tuple(from(i)) /\ UsedSince(c) = Behind(from(i))
        BY <4>1, <1>a
      <4>3. calls'[c] = calls[c] /\ UsedSince(c)' = UsedSince(c) \cup {t} /\ c \in 1..C + 1
        BY <2>c
      <4> QED BY <3>2, <4>2, <4>3, <2>6
    <3> QED BY <3>1, <3>2
  <2>8. ASSUME NEW c \in 1..C + 1, calls'[c] \notin DOMAIN flows_map
        PROVE  L = Room /\ DOMAIN flows_map \subseteq UsedSince(c)'
    <3>1. c \in 1..C BY <2>2, <2>8, <2>c
    <3> QED BY <3>1, <2>8, <1>b, <2>c
  <2> QED BY <2>2, <2>4, <2>7, <2>8, <2>c DEF Ordered
<1>2. ASSUME NEW t \in Tuples, Create(t) PROVE Ordered'
  <2>1. PICK n \in Nodes, d \in {0, 1} : Created(t, n, d)
    BY <1>2, CreateShape
  <2>2. /\ t \notin DOMAIN flows_map /\ Room' = Room /\ calls' = Append(calls, t)
    BY <1>2 DEF Create, Called, Room
  <2> DEFINE M == L - d
  <2>3. M \in Nat /\ Len(lru_list') = M + 1 /\ Room \in Nat \ {0} /\ (d = 1 <=> L = Room)
    <3>1. (d = 1 <=> L = Room) /\ Room \in Nat \ {0} BY <2>1, FullMeans DEF Created
    <3> QED BY <1>0, <2>1, <3>1 DEF Created
  <2>4. ASSUME NEW i \in 1..M PROVE i + d \in 1..L /\ tupleAt'[lru_list'[i]] = tuple(i + d)
    <3>1. i + d \in 1..L /\ lru_list'[i] = lru_list[i + d] /\ lru_list[i + d] # n
      BY <1>0, <2>1 DEF Created
    <3> QED BY <1>0, <2>1, <3>1 DEF Created
  <2>5. tupleAt'[lru_list'[M + 1]] = t
    BY <2>1, <2>3, <1>0 DEF Created
  <2>6. DOMAIN flows_map' = Staying(d) \cup {t}
    BY <2>1 DEF Created
  <2>a. L \in Nat /\ L = M + d BY <1>0
  <2>c. /\ C \in Nat /\ Len(calls') = C + 1
        /\ calls'[C + 1] = t /\ \A c : c = C + 1 => UsedSince(c)' = {}
        /\ \A c \in 1..C : calls'[c] = calls[c] /\ UsedSince(c)' = UsedSince(c) \cup {t}
        /\ DOMAIN calls = 1..C
    BY <2>2, OneMoreCall
  <2> HIDE DEF M, L, C, tuple
  <2>7. ASSUME NEW i \in 1..M PROVE Behind(i)' = Behind(i + d) \cup {t}
    <3>1. Behind(i)' = {tupleAt'[lru_list'[j]] : j \in i + 1..M + 1}
      BY <2>3 DEF Behind
    <3>2. Behind(i + d) = {tuple(m) : m \in i + d + 1..L}
      BY DEF Behind, L, tuple
    <3>3. ASSUME NEW j \in i + 1..M + 1 PROVE tupleAt'[lru_list'[j]] \in Behind(i + d) \cup {t}
      <4>1. CASE j = M + 1 BY <4>1, <2>5
      <4>2. CASE j # M + 1
        <5>1. j \in 1..M /\ j + d \in i + d + 1..L BY <4>2, <2>3, <2>a
        <5> QED BY <5>1, <2>4, <3>2
      <4> QED BY <4>1, <4>2
    <3>4. ASSUME NEW m \in i + d + 1..L PROVE tuple(m) \in Behind(i)'
      <4>1. m - d \in 1..M /\ m - d \in i + 1..M + 1 /\ (m - d) + d = m BY <2>3, <2>a
      <4>2. tuple(m) = tupleAt'[lru_list'[m - d]] BY <4>1, <2>4
      <4> QED BY <4>1, <4>2, <3>1
    <3>5. t \in Behind(i)'
      <4>1. M + 1 \in i + 1..M + 1 BY <2>3
      <4> QED BY <4>1, <3>1, <2>5
    <3> QED BY <3>1, <3>2, <3>3, <3>4, <3>5
  <2>8. ASSUME NEW i \in 1..M + 1
        PROVE  \E c \in 1..C + 1 : calls'[c] = tupleAt'[lru_list'[i]] /\ UsedSince(c)' = Behind(i)'
    <3>1. CASE i = M + 1
      <4>1. Behind(i)' = {} BY <3>1, <2>3 DEF Behind
      <4>2. PICK c \in 1..C + 1 : c = C + 1 BY <2>c
      <4> QED BY <3>1, <4>1, <4>2, <2>5, <2>c
    <3>2. CASE i # M + 1
      <4>1. i \in 1..M BY <3>2, <2>3
      <4>2. PICK c \in 1..C : calls[c] = tuple(i + d) /\ UsedSince(c) = Behind(i + d)
        BY <4>1, <2>4, <1>a
      <4>3. calls'[c] = calls[c] /\ UsedSince(c)' = UsedSince(c) \cup {t} /\ c \in 1..C + 1
        BY <2>c
      <4> QED BY <4>1, <4>2, <4>3, <2>4, <2>7
    <3> QED BY <3>1, <3>2
  <2>9. ASSUME NEW c \in 1..C + 1, calls'[c] \notin DOMAIN flows_map'
        PROVE  M + 1 = Room /\ DOMAIN flows_map' \subseteq UsedSince(c)'
    <3>1. /\ c \in 1..C /\ calls[c] \notin Staying(d)
          /\ UsedSince(c)' = UsedSince(c) \cup {t}
      BY <2>6, <2>9, <2>c
    <3>2. L = Room /\ Staying(d) \subseteq UsedSince(c)
      <4>1. CASE calls[c] \notin DOMAIN flows_map
        BY <3>1, <4>1, <1>b DEF Staying
      <4>2. CASE calls[c] \in DOMAIN flows_map
        <5>1. d = 1 /\ calls[c] = tuple(1)
          BY <3>1, <4>2 DEF Staying, tuple
        <5>2. L = Room /\ 1 \in 1..L BY <5>1, <2>3
        <5>3. PICK b \in 1..C : calls[b] = tuple(1) /\ UsedSince(b) = Behind(1)
          BY <5>2, <1>a
        <5>4. Behind(1) = {tuple(m) : m \in 2..L}
          BY DEF Behind, L, tuple
        <5>5. calls[c] \notin UsedSince(b)
          BY <5>1, <5>2, <5>3, <5>4, <1>0
        <5>6. C \in Nat /\ DOMAIN calls = 1..C
          BY <2>c
        <5>7. c <= b
          BY <5>5, <5>6, <3>1 DEF UsedSince
        <5>8. UsedSince(b) \subseteq UsedSince(c)
          BY <5>6, <5>7 DEF UsedSince
        <5>9. ASSUME NEW u \in Staying(1) PROVE u \in Behind(1)
          <6>1. PICK k \in 1..L : tuple(k) = u BY <1>0 DEF Staying
          <6>2. k # 1 BY <6>1 DEF Staying, tuple
          <6>3. k \in 2..L BY <6>2, <2>a
          <6> QED BY <6>1, <6>3, <5>4
        <5> QED BY <5>1, <5>2, <5>3, <5>8, <5>9
      <4> QED BY <4>1, <4>2
    <3>3. M + 1 = Room BY <3>2, <2>3, <2>a
    <3> QED BY <3>1, <3>2, <3>3, <2>6
  <2> QED BY <2>2, <2>3, <2>8, <2>9, <2>c DEF Ordered
<1>3. ASSUME UNCHANGED <<max_flows, flows_map, lru_list, tupleAt, calls>> PROVE Ordered'
  <2>1. \A c : UsedSince(c)' = UsedSince(c) BY <1>3 DEF UsedSince
  <2>2. \A i : Behind(i)' = Behind(i) BY <1>3 DEF Behind
  <2>3. Room' = Room BY <1>3 DEF Room
  <2> QED BY <1>3, <2>1, <2>2, <2>3 DEF Ordered
<1>4. CASE clear
  <2>1. Len(lru_list') = 0 /\ Len(calls') = 0
    BY <1>4, EmptySeq DEF clear
  <2> QED BY <2>1 DEF Ordered
<1> QED BY <1>1, <1>2, <1>3, <1>4 DEF Next, UseRef, Idle, vars

(* The table forgets by age and not otherwise: a tuple is resident exactly  *)
(* while fewer other tuples than there is room for were asked for since.    *)
THEOREM ForgetsTheOldest == Spec => []KeepsMostRecent
<1>1. Typed /\ Linked /\ Ordered => KeepsMostRecent
  <2> SUFFICES ASSUME Typed, Linked, Ordered PROVE KeepsMostRecent
    OBVIOUS
  <2>1. /\ IsFiniteSet(DOMAIN flows_map) /\ Cardinality(DOMAIN flows_map) = Len(lru_list)
        /\ Len(lru_list) \in Nat /\ Len(lru_list) <= Room /\ Room \in Nat
    BY SizeIsLength, FullMeans DEF Size, Linked
  <2>2. DOMAIN calls = 1..Len(calls) /\ Len(calls) \in Nat
    BY LenProperties DEF Typed
  <2>3. ASSUME NEW t \in DOMAIN flows_map
        PROVE  \E c \in DOMAIN calls : calls[c] = t /\ Cardinality(UsedSince(c) \ {t}) < Room
    <3>1. PICK i \in 1..Len(lru_list) : tupleAt[lru_list[i]] = t
      BY DEF Linked
    <3>2. PICK c \in 1..Len(calls) : calls[c] = t /\ UsedSince(c) = Behind(i)
      BY <3>1 DEF Ordered
    <3>3. Behind(i) \subseteq DOMAIN flows_map
      BY <2>1 DEF Behind, Linked
    <3> DEFINE Others == DOMAIN flows_map \ {t}
    <3>4. UsedSince(c) \ {t} \in SUBSET Others
      BY <3>2, <3>3
    <3>5. IsFiniteSet(Others) /\ Cardinality(Others) = Len(lru_list) - 1
      BY <2>1, FS_RemoveElement
    <3> HIDE DEF Others
    <3>6. /\ IsFiniteSet(UsedSince(c) \ {t})
          /\ Cardinality(UsedSince(c) \ {t}) <= Cardinality(Others)
      BY <3>4, <3>5, FS_Subset
    <3>7. Cardinality(UsedSince(c) \ {t}) \in Nat
      BY <3>6, FS_CardinalityType
    <3>8. Cardinality(UsedSince(c) \ {t}) < Room
      BY <2>1, <3>5, <3>6, <3>7
    <3> QED BY <2>2, <3>2, <3>8
  <2>4. ASSUME NEW c \in DOMAIN calls, calls[c] \notin DOMAIN flows_map
        PROVE  ~(Cardinality(UsedSince(c) \ {calls[c]}) < Room)
    <3> DEFINE U == UsedSince(c) \ {calls[c]}
               Later == c + 1..Len(calls)
    <3>1. Len(lru_list) = Room /\ DOMAIN flows_map \in SUBSET U
      BY <2>2, <2>4 DEF Ordered
    <3>2. IsFiniteSet(UsedSince(c))
      <4>1. UsedSince(c) = {calls[j] : j \in Later}
        BY <2>2 DEF UsedSince
      <4> DEFINE f == [j \in Later |-> calls[j]]
      <4>2. f \in Surjection(Later, UsedSince(c))
        <5>1. f \in [Later -> UsedSince(c)] /\ \A u \in UsedSince(c) : \E j \in Later : f[j] = u
          BY <4>1
        <5> HIDE DEF f, Later
        <5> QED BY <5>1, Fun_IsSurj
      <4>3. IsFiniteSet(Later) BY <2>2, FS_Interval
      <4> HIDE DEF f, Later
      <4> QED BY <4>2, <4>3, FS_Surjection
    <3>3. IsFiniteSet(U)
      BY <3>2, FS_RemoveElement
    <3> HIDE DEF U
    <3>4. Cardinality(DOMAIN flows_map) <= Cardinality(U) /\ Cardinality(U) \in Nat
      BY <3>1, <3>3, FS_Subset, FS_CardinalityType
    <3>5. ~(Cardinality(U) < Room)
      BY <2>1, <3>1, <3>4
    <3> QED BY <3>5 DEF U
  <2> QED BY <2>3, <2>4 DEF KeepsMostRecent, Room
<1> QED BY <1>1, InitInv, Invariant, OrderedStep, PTL DEF Spec

-----------------------------------------------------------------------------
(***************************************************************************)
(* LRUFlowTable implements FlowTable.                                      *)
(***************************************************************************)

(* What the list shows of itself: the sequence that FlowTable calls table. *)
Shown == [i \in DOMAIN lru_list |->
            [tuple |-> tupleAt[lru_list[i]], flow |-> flowAt[lru_list[i]]]]
Entry == [tuple : Tuples, flow : Nat]

ShownEntries ==
  /\ Shown \in Seq(Entry) /\ Len(Shown) = Len(lru_list) /\ Len(lru_list) \in Nat
  /\ DOMAIN Shown = 1..Len(lru_list)
  /\ \A i \in 1..Len(lru_list) :
       /\ Shown[i] = [tuple |-> tupleAt[lru_list[i]], flow |-> flowAt[lru_list[i]]]
       /\ Shown[i].tuple = tupleAt[lru_list[i]] /\ Shown[i].flow = flowAt[lru_list[i]]
  /\ Shown = <<>> <=> Len(lru_list) = 0

LEMMA ShownProperties == Typed => ShownEntries
<1> SUFFICES ASSUME Typed PROVE ShownEntries
  OBVIOUS
<1>1. /\ Len(lru_list) \in Nat /\ DOMAIN lru_list = 1..Len(lru_list)
      /\ \A i \in 1..Len(lru_list) : lru_list[i] \in Nodes
  BY LenProperties, ElementOfSeq DEF Typed, TypeOK
<1>2. Shown \in [1..Len(lru_list) -> Entry]
  BY <1>1 DEF Shown, Entry, Typed, TypeOK
<1>3. Shown \in Seq(Entry)
  BY <1>1, <1>2, SeqDef
<1>4. Len(Shown) = Len(lru_list)
  BY <1>1, <1>2, <1>3, LenProperties
<1>5. Shown = <<>> <=> Len(lru_list) = 0
  BY <1>1, <1>3, <1>4, EmptySeq
<1> QED BY <1>1, <1>2, <1>3, <1>4, <1>5 DEF Shown, ShownEntries

(* FlowTable finds the flow of a tuple where its node is linked. *)
LEMMA Resident ==
  ASSUME Typed, Linked
  PROVE  /\ \A t : Table!Holds(Shown, t) <=> t \in DOMAIN flows_map
         /\ \A t, at : at \in 1..Len(lru_list) /\ tupleAt[lru_list[at]] = t
                       => Table!Place(Shown, t) = at
<1>1. ASSUME NEW t PROVE Table!Holds(Shown, t) <=> t \in DOMAIN flows_map
  <2>1. /\ DOMAIN Shown = 1..Len(lru_list)
        /\ \A i \in 1..Len(lru_list) : Shown[i].tuple = tupleAt[lru_list[i]]
    BY ShownProperties DEF ShownEntries
  <2>2. Table!Holds(Shown, t) <=> \E i \in 1..Len(lru_list) : tupleAt[lru_list[i]] = t
    BY <2>1 DEF Table!Holds
  <2> QED BY <2>2 DEF Linked
<1>2. ASSUME NEW t, NEW at \in 1..Len(lru_list), tupleAt[lru_list[at]] = t
      PROVE  Table!Place(Shown, t) = at
  <2>1. \A i \in 1..Len(lru_list) : tupleAt[lru_list[i]] = t => i = at
    BY <1>2 DEF Linked
  <2>2. at \in DOMAIN Shown /\ \A i \in DOMAIN Shown : Shown[i].tuple = t <=> i = at
    BY <1>2, <2>1, ShownProperties DEF ShownEntries
  <2> QED BY <2>2 DEF Table!Place
<1> QED BY <1>1, <1>2

LEMMA FoundRefines ==
  ASSUME Typed, Typed', Linked, NEW t \in Tuples, Found(t)
  PROVE  Table!Get(t)
<1> DEFINE L == Len(lru_list)
<1>1. PICK at \in 1..L : MovedToEnd(t, at)
  BY FoundShape
<1>2. /\ UNCHANGED <<max_flows, flows_map, tupleAt, flowAt, evictions_total>>
      /\ t \in DOMAIN flows_map /\ tupleAt[lru_list[at]] = t /\ lru_list[at] \in Nodes
  BY <1>1, ElementOfSeq DEF Found, MovedToEnd, Typed, TypeOK
<1>3. Table!Holds(Shown, t) /\ Table!Place(Shown, t) = at
  BY <1>2, Resident
<1> DEFINE e == [tuple |-> t, flow |-> flowAt[lru_list[at]]]
           r == RemoveAt(Shown, at)
<1>4. /\ Shown \in Seq(Entry) /\ Len(Shown) = L /\ L \in Nat
      /\ Shown[at] = e /\ Shown[at].flow = flowAt[lru_list[at]] /\ e \in Entry
  BY <1>2, ShownProperties DEF ShownEntries, Entry, Typed, TypeOK
<1>5. Table!Used(Shown, t, Table!FlowOf(Shown, t)) = Append(r, e)
  BY <1>3, <1>4 DEF Table!Used, Table!Without, Table!FlowOf, Table!RemoveAt, RemoveAt
<1>6. /\ r \in Seq(Entry) /\ Len(r) = L - 1
      /\ \A i \in 1..L - 1 : r[i] = IF i < at THEN Shown[i] ELSE Shown[i + 1]
  BY <1>4, RemoveAtProperties
<1> HIDE DEF r, e
<1>7. /\ Append(r, e) \in Seq(Entry) /\ Len(Append(r, e)) = Len(r) + 1
      /\ \A i \in 1..Len(r) : Append(r, e)[i] = r[i]
      /\ Append(r, e)[Len(r) + 1] = e
  <2>1. r \in Seq(Entry) /\ e \in Entry BY <1>4, <1>6
  <2> QED BY <2>1, AppendProperties
<1>a. ShownEntries'
  BY ShownProperties, PTL
<1>8. Shown' \in Seq(Entry) /\ Len(Shown') = L
  BY <1>a, <1>1 DEF MovedToEnd, Entry, ShownEntries
<1>9. ASSUME NEW i \in 1..L PROVE Shown'[i] = Append(r, e)[i]
  <2>1. Shown'[i] = [tuple |-> tupleAt[lru_list'[i]], flow |-> flowAt[lru_list'[i]]]
    BY <1>a, <1>1, <1>2 DEF MovedToEnd, ShownEntries
  <2>2. CASE i = L
    <3>1. Append(r, e)[i] = e BY <2>2, <1>4, <1>6, <1>7
    <3>2. lru_list'[i] = lru_list[at] BY <2>2, <1>1 DEF MovedToEnd
    <3> QED BY <2>1, <3>1, <3>2, <1>2 DEF e
  <2>3. CASE i # L
    <3>1. i \in 1..L - 1 /\ i + 1 \in 1..L BY <2>3, <1>4
    <3>2. Append(r, e)[i] = IF i < at THEN Shown[i] ELSE Shown[i + 1] BY <3>1, <1>6, <1>7
    <3>3. lru_list'[i] = IF i < at THEN lru_list[i] ELSE lru_list[i + 1] BY <2>3, <1>1 DEF MovedToEnd
    <3> QED BY <2>1, <3>1, <3>2, <3>3, ShownProperties DEF ShownEntries
  <2> QED BY <2>2, <2>3
<1>10. Shown' = Append(r, e)
  <2>1. Len(Append(r, e)) = L BY <1>4, <1>6, <1>7
  <2> QED BY <2>1, <1>7, <1>8, <1>9, SeqEqual
<1> QED BY <1>2, <1>3, <1>5, <1>10 DEF Table!Get, Shown

LEMMA CreateRefines ==
  ASSUME Typed, Typed', Linked, NEW t \in Tuples, Create(t)
  PROVE  Table!GetOrCreate(t)
<1> DEFINE L == Len(lru_list)
           e == [tuple |-> t, flow |-> 0]
<1>1. PICK n \in Nodes, d \in {0, 1} : Created(t, n, d)
  BY CreateShape
<1>2. ShownEntries /\ ShownEntries'
  BY ShownProperties, PTL
<1>3. /\ t \notin DOMAIN flows_map /\ max_flows' = max_flows
      /\ L \in Nat /\ L <= Room /\ Room \in Nat \ {0} /\ Table!Bound(max_flows) = Room
      /\ d = 1 <=> L >= Room
      /\ evictions_total' = evictions_total + d
  <2>1. t \notin DOMAIN flows_map /\ max_flows' = max_flows BY DEF Create
  <2>2. L \in Nat /\ L <= Room /\ Room \in Nat \ {0} BY SizeIsLength, FullMeans DEF Linked
  <2>3. Table!Bound(max_flows) = Room BY DEF Room, Table!Bound
  <2>4. (d = 1 <=> L = Room) /\ evictions_total' = evictions_total + d BY <1>1 DEF Created
  <2> QED BY <2>1, <2>2, <2>3, <2>4
<1>4. ~Table!Holds(Shown, t)
  BY <1>3, Resident
<1> DEFINE X == IF d = 1 THEN Tail(Shown) ELSE Shown
<1>5. /\ X \in Seq(Entry) /\ Len(X) = L - d /\ DOMAIN X = 1..L - d
      /\ \A i \in 1..L - d : X[i] = Shown[i + d] /\ i + d \in 1..L
  <2>1. CASE d = 1
    <3>1. Shown # <<>> /\ L - 1 \in Nat BY <2>1, <1>2, <1>3 DEF ShownEntries
    <3>2. /\ Tail(Shown) \in Seq(Entry) /\ Len(Tail(Shown)) = L - 1
          /\ \A i \in 1..L - 1 : Tail(Shown)[i] = Shown[i + 1]
      BY <3>1, <1>2, HeadTailProperties DEF ShownEntries
    <3>3. DOMAIN Tail(Shown) = 1..L - 1 BY <3>2, LenProperties
    <3> QED BY <2>1, <3>1, <3>2, <3>3, <1>3
  <2>2. CASE d = 0
    BY <2>2, <1>2, <1>3 DEF ShownEntries
  <2> QED BY <2>1, <2>2
<1> HIDE DEF X
<1>6. ~Table!Holds(X, t)
  <2>1. \A i \in 1..L : Shown[i].tuple # t
    BY <1>2, <1>4 DEF Table!Holds, ShownEntries
  <2> QED BY <2>1, <1>5 DEF Table!Holds
<1>7. Table!Store(Shown, max_flows, t, Table!Lookup(Shown, t)) = Append(X, e)
  <2>1. Len(Shown) = L BY <1>2 DEF ShownEntries
  <2>2. Table!Lookup(Shown, t) = 0 BY <1>4 DEF Table!Lookup
  <2>3. Table!Used(X, t, 0) = Append(X, e) BY <1>6 DEF Table!Used, Table!Without
  <2> QED BY <1>3, <1>4, <2>1, <2>2, <2>3 DEF Table!Store, X
<1>8. e \in Entry
  BY DEF Entry
<1> HIDE DEF e
<1>9. /\ Append(X, e) \in Seq(Entry) /\ Len(Append(X, e)) = L - d + 1
      /\ \A i \in 1..L - d : Append(X, e)[i] = Shown[i + d]
      /\ Append(X, e)[L - d + 1] = e
  <2>1. /\ Append(X, e) \in Seq(Entry) /\ Len(Append(X, e)) = Len(X) + 1
        /\ \A i \in 1..Len(X) : Append(X, e)[i] = X[i]
        /\ Append(X, e)[Len(X) + 1] = e
    BY <1>5, <1>8, AppendProperties
  <2> QED BY <2>1, <1>5
<1>10. Shown' \in Seq(Entry) /\ Len(Shown') = L - d + 1
  BY <1>1, <1>2 DEF Created, ShownEntries, Entry
<1>11. L - d \in Nat
  BY <1>3
<1>12. ASSUME NEW i \in 1..L - d + 1 PROVE Shown'[i] = Append(X, e)[i]
  <2>1. Shown'[i] = [tuple |-> tupleAt'[lru_list'[i]], flow |-> flowAt'[lru_list'[i]]]
    BY <1>1, <1>2 DEF Created, ShownEntries
  <2>2. CASE i = L - d + 1
    <3>1. lru_list'[i] = n BY <2>2, <1>1 DEF Created
    <3>2. tupleAt'[n] = t /\ flowAt'[n] = 0 BY <1>1 DEF Created, Typed, TypeOK
    <3> QED BY <2>1, <2>2, <3>1, <3>2, <1>9 DEF e
  <2>3. CASE i # L - d + 1
    <3>1. i \in 1..L - d BY <2>3, <1>11
    <3>2. i + d \in 1..L /\ lru_list'[i] = lru_list[i + d] /\ lru_list[i + d] # n
      BY <3>1, <1>1, <1>5 DEF Created
    <3>3. lru_list[i + d] \in Nodes
      BY <3>2, ElementOfSeq DEF Typed, TypeOK
    <3>4. /\ tupleAt'[lru_list[i + d]] = tupleAt[lru_list[i + d]]
          /\ flowAt'[lru_list[i + d]] = flowAt[lru_list[i + d]]
      BY <3>2, <3>3, <1>1 DEF Created, Typed, TypeOK
    <3>5. Shown[i + d] = [tuple |-> tupleAt[lru_list[i + d]], flow |-> flowAt[lru_list[i + d]]]
      BY <3>2, <1>2 DEF ShownEntries
    <3> QED BY <2>1, <3>1, <3>2, <3>4, <3>5, <1>9
  <2> QED BY <2>2, <2>3
<1>13. Shown' = Append(X, e)
  BY <1>9, <1>10, <1>12, SeqEqual
<1>14. Len(Shown) = L
  BY <1>2 DEF ShownEntries
<1> QED BY <1>3, <1>4, <1>7, <1>13, <1>14 DEF Table!GetOrCreate, Shown

LEMMA UseRefRefines ==
  ASSUME Typed, Typed', Linked, Held, UseRef
  PROVE  Table!Change
<1> DEFINE L == Len(lru_list)
<1>1. ShownEntries /\ ShownEntries'
  BY ShownProperties, PTL
<1>2. /\ UNCHANGED <<max_flows, lru_list, tupleAt, evictions_total>>
      /\ L \in Nat /\ L # 0 /\ lru_list[L] = ref /\ ref \in Nodes
      /\ flowAt' = [flowAt EXCEPT ![ref] = @ + 1]
  BY <1>1 DEF UseRef, Held, Typed, TypeOK, ShownEntries
<1>3. \A i \in 1..L : lru_list[i] \in Nodes /\ (i # L => lru_list[i] # ref)
  <2>1. L \in 1..L BY <1>2
  <2>2. \A i \in 1..L : lru_list[i] \in Nodes BY ElementOfSeq DEF Typed, TypeOK
  <2>3. \A i \in 1..L : lru_list[i] = lru_list[L] => i = L BY <2>1 DEF Linked
  <2> QED BY <2>2, <2>3, <1>2
<1>4. Shown # <<>> /\ DOMAIN Shown' = DOMAIN Shown /\ DOMAIN Shown = 1..L
  BY <1>1, <1>2 DEF ShownEntries
<1>5. ASSUME NEW i \in 1..L, i # L PROVE Shown'[i] = Shown[i]
  BY <1>1, <1>2, <1>3, <1>5 DEF ShownEntries, Typed, TypeOK
<1>6. Shown'[L] = [Shown[L] EXCEPT !.flow = Shown'[L].flow]
  <2>1. L \in 1..L BY <1>2
  <2>2. /\ Shown[L] = [tuple |-> tupleAt[ref], flow |-> flowAt[ref]]
        /\ Shown'[L] = [tuple |-> tupleAt[ref], flow |-> flowAt'[ref]]
    BY <2>1, <1>1, <1>2 DEF ShownEntries
  <2> QED BY <2>2
<1>7. /\ Shown = [i \in 1..L |-> Shown[i]] /\ Shown' = [i \in 1..L |-> Shown'[i]]
      /\ Len(Shown) = L
  BY <1>1, <1>2, <1>4 DEF ShownEntries, Shown
<1>8. Shown' = [Shown EXCEPT ![Len(Shown)].flow = Shown'[Len(Shown)].flow]
  BY <1>5, <1>6, <1>7
<1> QED BY <1>2, <1>4, <1>8 DEF Table!Change, Shown

(* Found or created, changed through the reference or dropped: what the     *)
(* pointers, the list and the nodes do together is what one bounded         *)
(* sequence of entries does, which FastPath uses in their place.            *)
THEOREM Refinement == Spec => ImplementsFlowTable
<1>1. Init => Table!TableInit
  BY DEF Init, Table!TableInit
<1>2. Typed /\ Linked /\ Held /\ Typed' /\ [Next]_vars
      => [(\E t \in Tuples : Table!GetOrCreate(t) \/ Table!Get(t))
            \/ Table!Change \/ Table!Clear]_(Table!tableVars)
  <2> SUFFICES ASSUME Typed, Linked, Held, Typed', [Next]_vars
               PROVE  [(\E t \in Tuples : Table!GetOrCreate(t) \/ Table!Get(t))
                          \/ Table!Change \/ Table!Clear]_(Table!tableVars)
    OBVIOUS
  <2>1. ASSUME NEW t \in Tuples, Found(t) PROVE Table!Get(t)
    BY <2>1, FoundRefines
  <2>2. ASSUME NEW t \in Tuples, Create(t) PROVE Table!GetOrCreate(t)
    BY <2>2, CreateRefines
  <2>3. CASE UseRef
    BY <2>3, UseRefRefines
  <2>4. CASE clear
    BY <2>4 DEF clear, Table!Clear
  <2>5. CASE UNCHANGED vars
    BY <2>5 DEF vars, Table!tableVars
  <2> QED BY <2>1, <2>2, <2>3, <2>4, <2>5 DEF Next, Idle
<1> QED BY <1>1, <1>2, Invariant, PTL DEF Spec, ImplementsFlowTable, Table!TableSpec
=============================================================================
