----------------------------- MODULE DataFacts -----------------------------
(***************************************************************************)
(* Facts about sequences and natural numbers that the theorems of several  *)
(* components need and the library of theorems does not state, or not in a *)
(* form the provers can use.                                               *)
(***************************************************************************)
EXTENDS SequencesExt, SequenceTheorems, WellFoundedInduction, TLAPS

(* Induction, with a set of numbers in place of a predicate. *)
LEMMA LeastElement ==
  ASSUME NEW T \in SUBSET Nat, T # {}
  PROVE  \E n \in T : \A m \in T : n <= m
<1> DEFINE R == {ss \in Nat \X Nat : ss[1] < ss[2]}
<1>1. IsWellFoundedOn(R, Nat)
  BY NatLessThanWellFounded DEF OpToRel
<1>2. \A n, m \in Nat : n < m => <<n, m>> \in R
  BY SMT
<1> HIDE DEF R
<1>3. T \subseteq Nat
  OBVIOUS
<1>4. PICK n \in T : \A m \in T : <<m, n>> \notin R
  BY <1>1, <1>3, WFMin
<1>5. ASSUME NEW m \in T PROVE n <= m
  <2>1. n \in Nat /\ m \in Nat /\ <<m, n>> \notin R BY <1>3, <1>4
  <2>2. ~(m < n) BY <1>2, <2>1
  <2> QED BY <2>1, <2>2
<1> QED BY <1>5

LEMMA Induction ==
  ASSUME NEW S, 0 \in S, \A n \in Nat : n \in S => n + 1 \in S
  PROVE  Nat \subseteq S
<1> SUFFICES ASSUME Nat \ S # {} PROVE FALSE
  OBVIOUS
<1>1. PICK n \in Nat \ S : \A m \in Nat \ S : n <= m
  BY LeastElement
<1>2. n - 1 \in Nat /\ n - 1 \in S /\ (n - 1) + 1 = n
  BY <1>1
<1> QED BY <1>1, <1>2

LEMMA GreatestElement ==
  ASSUME NEW n \in Nat, NEW T \in SUBSET (0..n), T # {}
  PROVE  \E k \in T : \A m \in T : m <= k
<1> DEFINE R == {n - k : k \in T}
<1>1. R \in SUBSET Nat /\ R # {}
  <2>1. \A k \in T : k \in Nat /\ n - k \in Nat OBVIOUS
  <2>2. PICK k \in T : TRUE OBVIOUS
  <2>3. n - k \in R BY <2>2
  <2> QED BY <2>1, <2>3
<1>2. PICK l \in R : \A m \in R : l <= m
  BY <1>1, LeastElement
<1>3. PICK k \in T : l = n - k
  BY <1>2
<1>4. ASSUME NEW m \in T PROVE m <= k
  <2>1. n - m \in R /\ k \in Nat /\ m \in Nat OBVIOUS
  <2>2. n - k <= n - m BY <1>2, <1>3, <2>1
  <2> QED BY <2>1, <2>2
<1> QED BY <1>4

-----------------------------------------------------------------------------

(* RemoveAt closes the gap. *)
LEMMA RemoveAtProperties ==
  ASSUME NEW S, NEW s \in Seq(S), NEW k \in 1..Len(s)
  PROVE  /\ RemoveAt(s, k) \in Seq(S)
         /\ Len(RemoveAt(s, k)) = Len(s) - 1
         /\ \A i \in 1..Len(s) - 1 : RemoveAt(s, k)[i] = IF i < k THEN s[i] ELSE s[i + 1]
<1>1. /\ Len(s) \in Nat /\ k \in Nat
      /\ \A i \in 1..Len(s) : s[i] \in S
  BY LenProperties, ElementOfSeq
<1> DEFINE l == SubSeq(s, 1, k - 1)
           r == SubSeq(s, k + 1, Len(s))
<1>2. /\ l \in Seq(S) /\ Len(l) = k - 1
      /\ \A i \in 1..k - 1 : l[i] = s[i]
  <2>1. \A i \in 1..k - 1 : s[i] \in S BY <1>1
  <2>2. 1 \in Int /\ k - 1 \in Int BY <1>1
  <2> HIDE DEF l
  <2>3. /\ l \in Seq(S) /\ Len(l) = IF 1 <= k - 1 THEN (k - 1) - 1 + 1 ELSE 0
        /\ \A i \in 1..(k - 1) - 1 + 1 : l[i] = s[1 + i - 1]
    BY <2>1, <2>2, SubSeqProperties DEF l
  <2>4. (k - 1) - 1 + 1 = k - 1 /\ (~(1 <= k - 1) => k - 1 = 0)
    BY <1>1
  <2>5. Len(l) = k - 1
    BY <2>3, <2>4
  <2>6. ASSUME NEW i \in 1..k - 1 PROVE l[i] = s[i]
    <3>1. i \in 1..(k - 1) - 1 + 1 /\ 1 + i - 1 = i BY <1>1
    <3>2. l[i] = s[1 + i - 1] BY <2>3, <3>1
    <3> QED BY <3>1, <3>2
  <2> QED BY <2>3, <2>5, <2>6
<1>3. /\ r \in Seq(S) /\ Len(r) = Len(s) - k
      /\ \A i \in 1..Len(s) - k : r[i] = s[k + i]
  <2>1. \A i \in k + 1..Len(s) : s[i] \in S BY <1>1
  <2>2. k + 1 \in Int /\ Len(s) \in Int BY <1>1
  <2> HIDE DEF r
  <2>3. /\ r \in Seq(S) /\ Len(r) = IF k + 1 <= Len(s) THEN Len(s) - (k + 1) + 1 ELSE 0
        /\ \A i \in 1..Len(s) - (k + 1) + 1 : r[i] = s[(k + 1) + i - 1]
    BY <2>1, <2>2, SubSeqProperties DEF r
  <2> QED BY <2>3, <1>1
<1>4. RemoveAt(s, k) = l \o r
  BY DEF RemoveAt
<1> HIDE DEF l, r
<1>5. /\ l \o r \in Seq(S) /\ Len(l \o r) = Len(l) + Len(r)
      /\ \A i \in 1..Len(l) + Len(r) : (l \o r)[i] = IF i <= Len(l) THEN l[i] ELSE r[i - Len(l)]
  BY <1>2, <1>3, ConcatProperties
<1> QED BY <1>1, <1>2, <1>3, <1>4, <1>5

LEMMA RangeOfAppend ==
  ASSUME NEW S, NEW s \in Seq(S), NEW x \in S
  PROVE  Range(Append(s, x)) = Range(s) \cup {x}
<1> DEFINE o == <<x>>
<1>1. Append(s, x) = s \o o
  BY AppendIsConcat
<1>2. o \in Seq(S) /\ Range(o) = {x}
  BY DEF Range
<1> HIDE DEF o
<1>3. Range(s \o o) = Range(s) \cup Range(o)
  BY <1>2, RangeConcatenation
<1> QED BY <1>1, <1>2, <1>3, Zenon

LEMMA RangeOfCons ==
  ASSUME NEW S, NEW s \in Seq(S), NEW x \in S
  PROVE  Range(<<x>> \o s) = {x} \cup Range(s)
<1> DEFINE o == <<x>>
<1>1. o \in Seq(S) /\ Range(o) = {x}
  BY DEF Range
<1> HIDE DEF o
<1>2. Range(o \o s) = Range(o) \cup Range(s)
  BY <1>1, RangeConcatenation
<1> QED BY <1>1, <1>2 DEF o

LEMMA AppendLast ==
  ASSUME NEW S, NEW g \in Seq(S), NEW c \in Seq(S), NEW x \in S
  PROVE  g \o Append(c, x) = Append(g \o c, x)
<1>1. g \o c \in Seq(S)
  BY ConcatProperties
<1>2. /\ Append(c, x) = c \o <<x>> /\ <<x>> \in Seq(S)
      /\ Append(g \o c, x) = (g \o c) \o <<x>>
  BY <1>1, AppendIsConcat
<1> QED BY <1>2, ConcatAssociative

LEMMA FirstMoves ==
  ASSUME NEW S, NEW g \in Seq(S), NEW c \in Seq(S), NEW x \in S
  PROVE  Append(g, x) \o c = g \o (<<x>> \o c)
BY AppendIsConcat, ConcatAssociative

LEMMA HeadFirst ==
  ASSUME NEW S, NEW q \in Seq(S), q # <<>>
  PROVE  <<Head(q)>> \o Tail(q) = q /\ Head(q) \in S /\ Tail(q) \in Seq(S)
<1>1. /\ Head(q) \in S /\ Tail(q) \in Seq(S) /\ Len(Tail(q)) = Len(q) - 1
      /\ \A i \in 1..Len(Tail(q)) : Tail(q)[i] = q[i + 1]
  BY HeadTailProperties
<1>2. Len(q) \in Nat /\ DOMAIN q = 1..Len(q) /\ Len(q) # 0 /\ Head(q) = q[1]
  BY LenProperties, EmptySeq
<1> DEFINE u == <<Head(q)>> \o Tail(q)
<1>3. /\ u \in Seq(S) /\ Len(u) = 1 + Len(Tail(q))
      /\ \A i \in 1..1 + Len(Tail(q)) : u[i] = IF i <= 1 THEN <<Head(q)>>[i] ELSE Tail(q)[i - 1]
  <2>1. <<Head(q)>> \in Seq(S) /\ Len(<<Head(q)>>) = 1 BY <1>1
  <2> QED BY <1>1, <2>1, ConcatProperties
<1> HIDE DEF u
<1>4. Len(u) = Len(q) /\ \A i \in 1..Len(q) : u[i] = q[i]
  BY <1>1, <1>2, <1>3
<1>5. u = q BY <1>3, <1>4, SeqEqual
<1> QED BY <1>1, <1>5 DEF u

-----------------------------------------------------------------------------

(* One sequence behind another. *)
Joins(u, s, t) ==
  /\ Len(u) = Len(s) + Len(t)
  /\ \A i \in 1..Len(s) : u[i] = s[i]
  /\ \A i \in 1..Len(t) : u[Len(s) + i] = t[i]

LEMMA Joined ==
  ASSUME NEW S, NEW s \in Seq(S), NEW t \in Seq(S)
  PROVE  s \o t \in Seq(S) /\ Joins(s \o t, s, t)
<1> DEFINE u == s \o t
<1>1. Len(s) \in Nat /\ Len(t) \in Nat
  BY LenProperties
<1>2. /\ u \in Seq(S) /\ Len(u) = Len(s) + Len(t)
      /\ \A i \in 1..Len(s) + Len(t) : u[i] = IF i <= Len(s) THEN s[i] ELSE t[i - Len(s)]
  BY ConcatProperties
<1> HIDE DEF u
<1>3. ASSUME NEW i \in 1..Len(s) PROVE u[i] = s[i]
  BY <1>1, <1>2
<1>4. ASSUME NEW i \in 1..Len(t) PROVE u[Len(s) + i] = t[i]
  <2>1. Len(s) + i \in 1..Len(s) + Len(t) /\ ~(Len(s) + i <= Len(s)) /\ (Len(s) + i) - Len(s) = i
    BY <1>1
  <2> QED BY <1>2, <2>1
<1>5. Joins(u, s, t) BY <1>2, <1>3, <1>4 DEF Joins
<1> QED BY <1>2, <1>5 DEF u

(* A function that is defined by recursion: t[x] is base[x], or comes from *)
(* t[next[x]] by step[x], where next[x] has a lower rank than x.           *)
IsRecursion(V, D, C, rank, next, step, base) ==
  /\ C \subseteq D /\ rank \in [D -> Nat] /\ next \in [C -> D]
  /\ step \in [C -> [V -> V]] /\ base \in [D -> V]
  /\ \A x \in C : rank[next[x]] < rank[x]
  /\ \E l \in Nat : \A x \in D : rank[x] < l

Recursively(t, D, C, next, step, base) ==
  t = [x \in D |-> IF x \in C THEN step[x][t[next[x]]] ELSE base[x]]

LEMMA RecursionExists ==
  ASSUME NEW V, NEW D, NEW C, NEW rank, NEW next, NEW step, NEW base,
         IsRecursion(V, D, C, rank, next, step, base)
  PROVE  \E t \in [D -> V] : Recursively(t, D, C, next, step, base)
<1> DEFINE E(t, x) == IF x \in C THEN step[x][t[next[x]]] ELSE base[x]
           T == {n \in Nat : \E t \in [D -> V] : \A x \in D : rank[x] < n => t[x] = E(t, x)}
<1>1. /\ C \subseteq D /\ rank \in [D -> Nat] /\ next \in [C -> D]
      /\ step \in [C -> [V -> V]] /\ base \in [D -> V]
      /\ \A x \in C : rank[next[x]] < rank[x]
  BY DEF IsRecursion
<1>2. ASSUME NEW t \in [D -> V], NEW x \in D PROVE E(t, x) \in V
  BY <1>1
<1>3. 0 \in T
  <2>1. \A x \in D : rank[x] \in Nat BY <1>1
  <2>2. \A x \in D : ~(rank[x] < 0) BY <2>1
  <2>3. base \in [D -> V] BY <1>1
  <2> QED BY <2>2, <2>3
<1>4. ASSUME NEW n \in Nat, n \in T PROVE n + 1 \in T
  <2>1. PICK t \in [D -> V] : \A x \in D : rank[x] < n => t[x] = E(t, x)
    BY <1>4
  <2> DEFINE u == [x \in D |-> E(t, x)]
  <2>2. u \in [D -> V] BY <1>2
  <2>3. ASSUME NEW x \in D, rank[x] < n + 1 PROVE u[x] = E(u, x)
    <3>1. CASE x \in C
      <4>1. next[x] \in D /\ rank[next[x]] \in Nat /\ rank[x] \in Nat /\ rank[next[x]] < rank[x] BY <1>1, <3>1
      <4>2. rank[next[x]] < n BY <2>3, <4>1
      <4>3. u[next[x]] = t[next[x]] BY <2>1, <4>1, <4>2
      <4> QED BY <3>1, <4>3
    <3>2. CASE x \notin C BY <3>2
    <3> QED BY <3>1, <3>2
  <2> HIDE DEF u, E
  <2> QED BY <2>2, <2>3
<1> HIDE DEF T
<1>5. Nat \subseteq T BY <1>3, <1>4, Induction
<1>6. PICK l \in Nat : \A x \in D : rank[x] < l BY DEF IsRecursion
<1>7. PICK t \in [D -> V] : \A x \in D : rank[x] < l => t[x] = E(t, x)
  BY <1>5, <1>6 DEF T
<1>8. t = [x \in D |-> E(t, x)] BY <1>6, <1>7
<1> QED BY <1>8 DEF Recursively
=============================================================================
