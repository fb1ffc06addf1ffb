-------------------------- MODULE RuleManagerProofs --------------------------
(***************************************************************************)
(* The rules that decide are the rules the user gave, for every command    *)
(* line and every rules file, cut short wherever it may be.                *)
(***************************************************************************)
EXTENDS RuleManager, DataFacts

-----------------------------------------------------------------------------
(* Where the keys of a rules file are.                                     *)

Tokens == STRING \cup Marks

(* An entry as it is printed behind n tokens. *)
Header(p, n, key) ==
  /\ p[n + 1] \in {"{", ","} /\ p[n + 2] = Quote /\ p[n + 3] = key /\ p[n + 4] = Quote /\ p[n + 5] = ":"

ItemAt(p, n, e) ==
  /\ Header(p, n, e.key)
  /\ \A x \in 1..Len(Value(e)) : p[n + 5 + x] = Value(e)[x]

(* The list at a: a bracket, four tokens for every word, and a bracket. *)
IsList(l, ws) ==
  LET n == Len(ws) IN
  /\ l \in Seq(Tokens) /\ Len(l) = IF n = 0 THEN 2 ELSE 4 * n + 1
  /\ l[1] = "[" /\ l[Len(l)] = "]"
  /\ \A k \in 1..n : /\ l[4 * k - 2] = Quote /\ l[4 * k - 1] = ws[k] /\ l[4 * k] = Quote
                     /\ k < n => l[4 * k + 1] = ","

LEMMA FourthOf ==
  ASSUME NEW n \in Nat, NEW k \in 1..n
  PROVE  /\ 4 * k - 3 \in 1..(4 * n) /\ 4 * k - 2 \in 1..(4 * n) /\ 4 * k - 1 \in 1..(4 * n) /\ 4 * k \in 1..(4 * n)
         /\ (4 * k - 3 + 3) \div 4 = k /\ (4 * k - 2 + 3) \div 4 = k
         /\ (4 * k - 1 + 3) \div 4 = k /\ (4 * k + 3) \div 4 = k
         /\ (4 * k - 3 + 3) % 4 = 0 /\ (4 * k - 2 + 3) % 4 = 1
         /\ (4 * k - 1 + 3) % 4 = 2 /\ (4 * k + 3) % 4 = 3
<1>1. k \in Nat /\ k >= 1 /\ k <= n OBVIOUS
<1> QED BY <1>1

LEMMA IsFourthOf ==
  ASSUME NEW n \in Nat, NEW x \in 1..(4 * n)
  PROVE  \E k \in 1..n : x = 4 * k - 3 \/ x = 4 * k - 2 \/ x = 4 * k - 1 \/ x = 4 * k
<1> DEFINE k == (x + 3) \div 4
<1>1. k \in 1..n /\ (x = 4 * k - 3 \/ x = 4 * k - 2 \/ x = 4 * k - 1 \/ x = 4 * k)
  OBVIOUS
<1> QED BY <1>1

LEMMA ListIs ==
  ASSUME NEW ws \in Seq(Plain)
  PROVE  IsList(List(ws), ws)
<1> DEFINE N == Len(ws)
           sep(k) == IF k < N THEN "," ELSE "]"
           four(k) == <<Quote, ws[k], Quote, sep(k)>>
           body == [x \in 1..(4 * N) |-> four((x + 3) \div 4)[1 + ((x + 3) % 4)]]
<1>1. N \in Nat /\ \A k \in 1..N : ws[k] \in Plain
  BY LenProperties, ElementOfSeq
<1>2. \A k : four(k) = <<Quote, ws[k], Quote, sep(k)>>
  OBVIOUS
<1>3. ASSUME N = 0 PROVE IsList(List(ws), ws)
  <2> DEFINE b == <<"[">>
             c == <<"]">>
  <2>1. List(ws) = b \o c BY <1>3 DEF List
  <2>2. /\ b \in Seq(Tokens) /\ Len(b) = 1 /\ b[1] = "["
        /\ c \in Seq(Tokens) /\ Len(c) = 1 /\ c[1] = "]"
    BY DEF Tokens, Marks
  <2> HIDE DEF b, c
  <2>3. b \o c \in Seq(Tokens) /\ Joins(b \o c, b, c) BY <2>2, Joined
  <2> DEFINE l == b \o c
  <2> HIDE DEF l
  <2>4. l \in Seq(Tokens) /\ Len(l) = 2 /\ l[1] = "[" /\ l[2] = "]" BY <2>2, <2>3 DEF Joins, l
  <2> QED BY <1>3, <2>1, <2>4 DEF IsList, l
<1>4. ASSUME N # 0 PROVE IsList(List(ws), ws)
  <2>0. List(ws) = <<"[">> \o body BY <1>4 DEF List
  <2> HIDE DEF four
  <2>a. \A k : four(k)[1] = Quote /\ four(k)[2] = ws[k] /\ four(k)[3] = Quote /\ four(k)[4] = sep(k)
    BY <1>2
  <2> SUFFICES ASSUME NEW n \in Nat, n = N PROVE IsList(List(ws), ws)
    BY <1>1
  <2>1. ASSUME NEW k \in 1..n
        PROVE  /\ body[4 * k - 3] = Quote /\ body[4 * k - 2] = ws[k] /\ body[4 * k - 1] = Quote
               /\ body[4 * k] = sep(k)
    <3> HIDE DEF N, sep
    <3>2. /\ body[4 * k - 3] = four(k)[1] /\ body[4 * k - 2] = four(k)[2]
          /\ body[4 * k - 1] = four(k)[3] /\ body[4 * k] = four(k)[4]
      <4>1. ASSUME NEW x \in 1..(4 * n) PROVE body[x] = four((x + 3) \div 4)[1 + ((x + 3) % 4)]
        BY DEF N
      <4>2. 1 + 0 = 1 /\ 1 + 1 = 2 /\ 1 + 2 = 3 /\ 1 + 3 = 4 OBVIOUS
      <4> HIDE DEF body, four
      <4>3. body[4 * k - 3] = four(k)[1] BY ONLY <4>1, <4>2, n \in Nat, k \in 1..n, FourthOf
      <4>4. body[4 * k - 2] = four(k)[2] BY ONLY <4>1, <4>2, n \in Nat, k \in 1..n, FourthOf
      <4>5. body[4 * k - 1] = four(k)[3] BY ONLY <4>1, <4>2, n \in Nat, k \in 1..n, FourthOf
      <4>6. body[4 * k] = four(k)[4] BY ONLY <4>1, <4>2, n \in Nat, k \in 1..n, FourthOf
      <4> QED BY <4>3, <4>4, <4>5, <4>6
    <3> QED BY <2>a, <3>2
  <2>b. body = [x \in 1..(4 * n) |-> body[x]] OBVIOUS
  <2>c. /\ \A k \in 1..n : ws[k] \in Tokens /\ sep(k) \in Tokens
        /\ Quote \in Tokens /\ "[" \in Tokens
    BY <1>1 DEF Plain, Tokens, Marks
  <2>d. sep(n) = "]" /\ \A k \in 1..n : k < n => sep(k) = "," OBVIOUS
  <2> HIDE DEF N, body, sep
  <2>2. body \in Seq(Tokens) /\ Len(body) = 4 * n
    <3>1. ASSUME NEW x \in 1..(4 * n) PROVE body[x] \in Tokens
      <4>1. PICK k \in 1..n : x = 4 * k - 3 \/ x = 4 * k - 2 \/ x = 4 * k - 1 \/ x = 4 * k
        BY IsFourthOf
      <4> QED BY <2>1, <2>c, <4>1
    <3>3. 4 * n \in Nat OBVIOUS
    <3> QED BY <2>b, <3>1, <3>3
  <2> DEFINE l == List(ws)
             b == <<"[">>
  <2>4. b \in Seq(Tokens) /\ Len(b) = 1 /\ b[1] = "[" BY <2>c
  <2>3. l = b \o body BY <2>0
  <2> HIDE DEF l, b
  <2>5. l \in Seq(Tokens) /\ Joins(l, b, body) BY <2>2, <2>3, <2>4, Joined
  <2>6. l[1] = "[" /\ Len(l) = 1 + 4 * n BY <2>2, <2>4, <2>5 DEF Joins
  <2>m. \A x \in 1..(4 * n) : l[1 + x] = body[x] BY <2>2, <2>4, <2>5 DEF Joins
  <2>7. ASSUME NEW k \in 1..n
        PROVE  /\ l[4 * k - 2] = Quote /\ l[4 * k - 1] = ws[k] /\ l[4 * k] = Quote
               /\ l[4 * k + 1] = sep(k)
    <3>1. /\ 4 * k - 3 \in 1..(4 * n) /\ 4 * k - 2 \in 1..(4 * n) /\ 4 * k - 1 \in 1..(4 * n) /\ 4 * k \in 1..(4 * n)
          /\ 1 + (4 * k - 3) = 4 * k - 2 /\ 1 + (4 * k - 2) = 4 * k - 1
          /\ 1 + (4 * k - 1) = 4 * k /\ 1 + 4 * k = 4 * k + 1
      OBVIOUS
    <3>2. /\ l[4 * k - 2] = body[4 * k - 3] /\ l[4 * k - 1] = body[4 * k - 2]
          /\ l[4 * k] = body[4 * k - 1] /\ l[4 * k + 1] = body[4 * k]
      BY <2>m, <3>1
    <3> QED BY <2>1, <3>2
  <2>8. n # 0 /\ n = Len(ws) BY <1>4 DEF N
  <2>9. l[4 * n + 1] = "]"
    <3>1. n \in 1..n BY <2>8
    <3> QED BY <2>7, <2>d, <3>1
  <2>10. Len(l) = 4 * n + 1 BY <2>6
  <2>11. IsList(l, ws) BY <2>5, <2>6, <2>7, <2>8, <2>9, <2>10, <2>d DEF IsList
  <2> QED BY <2>11 DEF l
<1> QED BY <1>3, <1>4

-----------------------------------------------------------------------------
Item(entries, i) == <<IF i = 1 THEN "{" ELSE ",", Quote, entries[i].key, Quote, ":">> \o Value(entries[i])

LEMMA EntryIs ==
  ASSUME NEW entries, FollowsFormat(entries)
  PROVE  /\ Len(entries) \in Nat /\ DOMAIN entries = 1..Len(entries)
         /\ \A i \in 1..Len(entries) : entries[i].key \in STRING \ Marks /\ Value(entries[i]) \in Seq(Tokens)
<1>1. entries \in Seq({entries[i] : i \in DOMAIN entries}) BY DEF FollowsFormat
<1>2. Len(entries) \in Nat /\ DOMAIN entries = 1..Len(entries) BY <1>1, LenProperties
<1>3. ASSUME NEW i \in 1..Len(entries)
      PROVE  entries[i].key \in STRING \ Marks /\ Value(entries[i]) \in Seq(Tokens)
  <2> DEFINE e == entries[i]
  <2>1. /\ e.key \in STRING \ Marks
        /\ IF "words" \in DOMAIN e THEN e.words \in Seq(Plain) ELSE e.key \notin Lists /\ e.number \in Plain
    BY <1>2 DEF FollowsFormat
  <2> HIDE DEF e
  <2>2. CASE "words" \in DOMAIN e
    <3>1. Value(e) = List(e.words) /\ e.words \in Seq(Plain) BY <2>1, <2>2 DEF Value
    <3>2. List(e.words) \in Seq(Tokens) BY <3>1, ListIs DEF IsList
    <3> QED BY <2>1, <3>1, <3>2 DEF e
  <2>3. CASE "words" \notin DOMAIN e
    <3>1. Value(e) = <<e.number>> /\ e.number \in Tokens BY <2>1, <2>3 DEF Value, Plain, Tokens
    <3>2. <<e.number>> \in Seq(Tokens) BY <3>1
    <3> QED BY <2>1, <3>1, <3>2 DEF e
  <2> QED BY <2>2, <2>3
<1> QED BY <1>2, <1>3

(* The five tokens before a value. *)
LEMMA FiveOf ==
  ASSUME NEW S, NEW a \in S, NEW b \in S, NEW c \in S, NEW d \in S, NEW e \in S
  PROVE  <<a, b, c, d, e>> \in Seq(S)
OBVIOUS

LEMMA FiveTokens ==
  ASSUME NEW c \in {"{", ","}, NEW key \in STRING
  PROVE  LET h == <<c, Quote, key, Quote, ":">> IN
         /\ h \in Seq(Tokens) /\ Len(h) = 5
         /\ h[1] \in {"{", ","} /\ h[2] = Quote /\ h[3] = key /\ h[4] = Quote /\ h[5] = ":"
<1>1. c \in Tokens /\ Quote \in Tokens /\ key \in Tokens /\ ":" \in Tokens BY DEF Tokens, Marks
<1> DEFINE colon == ":"
<1> HIDE DEF colon
<1>2. colon \in Tokens BY <1>1 DEF colon
<1>3. <<c, Quote, key, Quote, colon>> \in Seq(Tokens) BY <1>1, <1>2, FiveOf
<1> QED BY <1>3 DEF colon

LEMMA ItemIs ==
  ASSUME NEW entries, FollowsFormat(entries), NEW i \in 1..Len(entries)
  PROVE  /\ Item(entries, i) \in Seq(Tokens) /\ Len(Item(entries, i)) = 5 + Len(Value(entries[i]))
         /\ ItemAt(Item(entries, i), 0, entries[i])
<1> DEFINE c == IF i = 1 THEN "{" ELSE ","
           k == entries[i].key
           v == Value(entries[i])
           h == <<c, Quote, k, Quote, ":">>
<1>1. c \in {"{", ","} /\ k \in STRING /\ v \in Seq(Tokens) BY EntryIs
<1>2. Item(entries, i) = h \o v BY DEF Item
<1> HIDE DEF c, k, v
<1>3. /\ h \in Seq(Tokens) /\ Len(h) = 5
      /\ h[1] \in {"{", ","} /\ h[2] = Quote /\ h[3] = k /\ h[4] = Quote /\ h[5] = ":"
  BY <1>1, FiveTokens
<1> HIDE DEF h
<1>4. h \o v \in Seq(Tokens) /\ Joins(h \o v, h, v) BY <1>1, <1>3, Joined
<1> DEFINE p == h \o v
<1> HIDE DEF p
<1>5. p \in Seq(Tokens) /\ Joins(p, h, v) BY <1>4 DEF p
<1>6. Len(p) = 5 + Len(v) BY <1>3, <1>5 DEF Joins
<1>7. /\ p[0 + 1] = h[1] /\ p[0 + 2] = h[2] /\ p[0 + 3] = h[3] /\ p[0 + 4] = h[4] /\ p[0 + 5] = h[5]
      /\ \A x \in 1..Len(v) : p[0 + 5 + x] = v[x]
  <2>1. \A x \in 1..5 : p[x] = h[x] BY <1>3, <1>5 DEF Joins
  <2>2. \A x \in 1..Len(v) : p[5 + x] = v[x] BY <1>3, <1>5 DEF Joins
  <2> QED BY <2>1, <2>2
<1>8. ItemAt(p, 0, entries[i]) BY <1>3, <1>7 DEF ItemAt, Header, k, v
<1> QED BY <1>2, <1>5, <1>6, <1>8 DEF p, v

LEMMA PrintedStep ==
  ASSUME NEW entries, FollowsFormat(entries)
  PROVE  /\ PrintedTo(entries, 0) = <<>>
         /\ \A i \in 1..Len(entries) : PrintedTo(entries, i) = PrintedTo(entries, i - 1) \o Item(entries, i)
<1> DEFINE n == Len(entries)
           F(t) == [i \in 0..n |-> IF i = 0 THEN <<>> ELSE t[i - 1] \o Item(entries, i)]
           u == CHOOSE t : t = F(t)
<1>1. \A m : PrintedTo(entries, m) = u[m] BY DEF PrintedTo, Item
<1>2. \E t : t = F(t)
  <2> DEFINE V == Seq(Tokens)
             D == 0..n
             C == 1..n
             rank == [x \in D |-> x]
             next == [x \in C |-> x - 1]
             step == [x \in C |-> [v \in V |-> v \o Item(entries, x)]]
             base == [x \in D |-> <<>>]
  <2>1. n \in Nat BY EntryIs
  <2>2. rank \in [D -> Nat] /\ next \in [C -> D] /\ base \in [D -> V] /\ C \subseteq D
    BY <2>1
  <2>3. step \in [C -> [V -> V]]
    <3>1. ASSUME NEW x \in C, NEW v \in V PROVE v \o Item(entries, x) \in V
      BY ItemIs, ConcatProperties
    <3> QED BY <3>1
  <2>4. \A x \in C : rank[next[x]] < rank[x] BY <2>1
  <2>5. \E l \in Nat : \A x \in D : rank[x] < l
    <3>1. n + 1 \in Nat /\ \A x \in D : rank[x] < n + 1 BY <2>1
    <3> QED BY <3>1
  <2>6. IsRecursion(V, D, C, rank, next, step, base)
    <3> HIDE DEF V, D, C, rank, next, step, base
    <3> QED BY <2>2, <2>3, <2>4, <2>5 DEF IsRecursion
  <2>7. PICK t \in [D -> V] : Recursively(t, D, C, next, step, base)
    <3> HIDE DEF V, D, C, rank, next, step, base
    <3> QED BY <2>6, RecursionExists
  <2>8. t = [x \in D |-> IF x \in C THEN step[x][t[next[x]]] ELSE base[x]] BY <2>7 DEF Recursively
  <2>9. ASSUME NEW x \in D
        PROVE  (IF x \in C THEN step[x][t[next[x]]] ELSE base[x])
                 = IF x = 0 THEN <<>> ELSE t[x - 1] \o Item(entries, x)
    <3>1. CASE x = 0 BY <3>1
    <3>2. CASE x # 0
      <4>1. x \in C /\ next[x] = x - 1 /\ x - 1 \in D BY <2>1, <3>2
      <4>2. t[x - 1] \in V BY <2>7, <4>1
      <4>3. step[x][t[next[x]]] = t[x - 1] \o Item(entries, x) BY <4>1, <4>2
      <4> QED BY <3>2, <4>1, <4>3
    <3> QED BY <3>1, <3>2
  <2>10. t = [x \in D |-> IF x = 0 THEN <<>> ELSE t[x - 1] \o Item(entries, x)] BY <2>8, <2>9
  <2> QED BY <2>10
<1>3. u = F(u) BY <1>2
<1>4. n \in Nat BY EntryIs
<1> HIDE DEF u
<1>5. u[0] = <<>> BY <1>3, <1>4
<1>6. ASSUME NEW i \in 1..n PROVE u[i] = u[i - 1] \o Item(entries, i)
  <2>1. i \in 0..n /\ i # 0 BY <1>4
  <2> QED BY <1>3, <2>1
<1> QED BY <1>1, <1>5, <1>6

-----------------------------------------------------------------------------
(* Where the entries end. *)
Size(e) == 5 + Len(Value(e))

IsOffsets(o, entries) ==
  LET n == Len(entries) IN
  /\ n \in Nat /\ o \in [0..n -> Nat] /\ o[0] = 0
  /\ \A i \in 1..n : Size(entries[i]) \in Nat /\ o[i] = o[i - 1] + Size(entries[i])

LEMMA OffsetsGrow ==
  ASSUME NEW entries, NEW o, IsOffsets(o, entries),
         NEW i \in 0..Len(entries), NEW j \in 0..Len(entries), i <= j
  PROVE  o[i] <= o[j]
<1> DEFINE n == Len(entries)
           S == {d \in Nat : i + d <= n => o[i] <= o[i + d]}
<1>1. n \in Nat /\ o \in [0..n -> Nat] BY DEF IsOffsets
<1>2. \A k \in 1..n : o[k - 1] <= o[k]
  <2> SUFFICES ASSUME NEW k \in 1..n PROVE o[k - 1] <= o[k] OBVIOUS
  <2>1. o[k] = o[k - 1] + Size(entries[k]) /\ Size(entries[k]) \in Nat BY DEF IsOffsets
  <2>2. o[k - 1] \in Nat BY <1>1
  <2> QED BY <2>1, <2>2
<1> HIDE DEF n
<1>3. i \in Nat /\ j \in Nat /\ j <= n BY <1>1 DEF n
<1>4. 0 \in S
  <2>1. i \in 0..n /\ o[i] \in Nat /\ i + 0 = i BY <1>1, <1>3
  <2> QED BY <2>1
<1>5. ASSUME NEW d \in Nat, d \in S PROVE d + 1 \in S
  <2> SUFFICES ASSUME i + (d + 1) <= n PROVE o[i] <= o[i + (d + 1)] OBVIOUS
  <2>1. i + (d + 1) \in 1..n /\ (i + (d + 1)) - 1 = i + d /\ i \in 0..n /\ i + d \in 0..n /\ i + (d + 1) \in 0..n
    BY <1>1, <1>3
  <2>2. o[i + d] <= o[i + (d + 1)] /\ o[i] <= o[i + d] BY <1>2, <1>5, <2>1
  <2>3. o[i] \in Nat /\ o[i + d] \in Nat /\ o[i + (d + 1)] \in Nat BY <1>1, <2>1
  <2> QED BY <2>2, <2>3
<1> HIDE DEF S
<1>6. Nat \subseteq S BY <1>4, <1>5, Induction
<1>7. j - i \in Nat /\ i + (j - i) = j BY <1>3
<1> QED BY <1>3, <1>6, <1>7 DEF S

LEMMA EntryOf ==
  ASSUME NEW entries, NEW o, IsOffsets(o, entries), NEW y \in 1..o[Len(entries)]
  PROVE  \E i \in 1..Len(entries) : /\ o[i - 1] \in Nat /\ o[i] \in Nat
                                    /\ o[i - 1] < y /\ y <= o[i]
<1> DEFINE n == Len(entries)
           T == {i \in 0..n : o[i] < y}
<1>1. n \in Nat /\ o \in [0..n -> Nat] /\ o[0] = 0 BY DEF IsOffsets
<1>2. y \in Nat /\ y >= 1 /\ y <= o[n] /\ o[n] \in Nat BY <1>1
<1> HIDE DEF n
<1>3. 0 \in T /\ T \in SUBSET (0..n) BY <1>1, <1>2
<1>4. PICK k \in T : \A m \in T : m <= k BY <1>1, <1>3, GreatestElement
<1>5. k \in 0..n /\ o[k] < y /\ o[k] \in Nat /\ k # n BY <1>1, <1>2
<1>6. k + 1 \in 1..n /\ k + 1 \in 0..n /\ (k + 1) - 1 = k BY <1>1, <1>5
<1>7. k + 1 \notin T BY <1>4, <1>5
<1>8. o[k + 1] \in Nat /\ ~(o[k + 1] < y) BY <1>1, <1>6, <1>7
<1>9. y <= o[k + 1] BY <1>2, <1>8
<1> QED BY <1>5, <1>6, <1>8, <1>9 DEF n

Copied(p, a, q, b, e) ==
  /\ a \in Nat /\ b \in Nat /\ Len(Value(e)) \in Nat /\ ItemAt(p, a, e)
  /\ \A x \in 1..Size(e) : q[b + x] = p[a + x]

LEMMA ItemMoves ==
  ASSUME NEW p, NEW a, NEW q, NEW b, NEW e, Copied(p, a, q, b, e)
  PROVE  ItemAt(q, b, e)
<1>0. a \in Nat /\ b \in Nat /\ Len(Value(e)) \in Nat /\ ItemAt(p, a, e) BY DEF Copied
<1> SUFFICES ASSUME NEW l \in Nat, l = Len(Value(e)), \A x \in 1..(5 + l) : q[b + x] = p[a + x]
             PROVE  ItemAt(q, b, e)
  BY <1>0 DEF Size, Copied
<1>1. 1 \in 1..(5 + l) /\ 2 \in 1..(5 + l) /\ 3 \in 1..(5 + l) /\ 4 \in 1..(5 + l) /\ 5 \in 1..(5 + l)
  OBVIOUS
<1>2. Header(p, a, e.key) BY <1>0 DEF ItemAt
<1>3. /\ q[b + 1] = p[a + 1] /\ q[b + 2] = p[a + 2] /\ q[b + 3] = p[a + 3]
      /\ q[b + 4] = p[a + 4] /\ q[b + 5] = p[a + 5]
  BY <1>1
<1>4. Header(q, b, e.key) BY <1>2, <1>3 DEF Header
<1>5. ASSUME NEW x \in 1..l PROVE q[b + 5 + x] = Value(e)[x]
  <2>1. p[a + 5 + x] = Value(e)[x] BY <1>0 DEF ItemAt
  <2>2. 5 + x \in 1..(5 + l) /\ b + (5 + x) = b + 5 + x /\ a + (5 + x) = a + 5 + x BY <1>0
  <2>3. q[b + (5 + x)] = p[a + (5 + x)] BY <2>2
  <2> QED BY <2>1, <2>2, <2>3
<1> QED BY <1>4, <1>5 DEF ItemAt

(* A file as it is printed. *)
Ends(entries) == [i \in 0..Len(entries) |-> Len(PrintedTo(entries, i))]

LaidOut(p, entries, o) ==
  /\ IsOffsets(o, entries) /\ p \in Seq(Tokens) /\ o[Len(entries)] <= Len(p)
  /\ \A i \in 1..Len(entries) : ItemAt(p, o[i - 1], entries[i])
  /\ \A x \in o[Len(entries)] + 1..Len(p) : p[x] \in Marks \ {Quote}

LEMMA EntryHasSize ==
  ASSUME NEW entries, FollowsFormat(entries), NEW i \in 1..Len(entries)
  PROVE  Len(Value(entries[i])) \in Nat /\ Size(entries[i]) \in Nat
<1>1. Len(Value(entries[i])) \in Nat BY EntryIs, LenProperties
<1> QED BY <1>1 DEF Size

LEMMA PrintedHasEnds ==
  ASSUME NEW entries, FollowsFormat(entries), NEW n, n = Len(entries), NEW o, o = Ends(entries)
  PROVE  /\ \A i \in 0..n : PrintedTo(entries, i) \in Seq(Tokens) /\ o[i] = Len(PrintedTo(entries, i))
         /\ \A i \in 1..n : Joins(PrintedTo(entries, i), PrintedTo(entries, i - 1), Item(entries, i))
         /\ IsOffsets(o, entries)
<1> DEFINE P(i) == PrintedTo(entries, i)
           S == {m \in Nat : m <= n => P(m) \in Seq(Tokens)}
<1>1. n \in Nat
  BY EntryIs
<1>2. /\ P(0) = <<>>
      /\ \A i \in 1..n : P(i) = P(i - 1) \o Item(entries, i)
  BY PrintedStep
<1>3. \A i \in 1..n : Item(entries, i) \in Seq(Tokens) /\ Len(Item(entries, i)) = Size(entries[i])
  BY ItemIs DEF Size
<1>0. o = [i \in 0..n |-> Len(P(i))] BY DEF Ends
<1> HIDE DEF P
<1>4. P(0) \in Seq(Tokens) /\ Len(P(0)) = 0 BY <1>2, EmptySeq
<1>5. ASSUME NEW m \in Nat, m \in S PROVE m + 1 \in S
  <2> SUFFICES ASSUME m + 1 <= n PROVE P(m + 1) \in Seq(Tokens) OBVIOUS
  <2>1. m + 1 \in 1..n /\ (m + 1) - 1 = m /\ m <= n BY <1>1
  <2>2. P(m + 1) = P(m) \o Item(entries, m + 1) BY <1>2, <2>1
  <2>3. P(m) \in Seq(Tokens) BY <1>5, <2>1
  <2>4. Item(entries, m + 1) \in Seq(Tokens) BY <1>3, <2>1
  <2> HIDE DEF S
  <2>5. P(m) \o Item(entries, m + 1) \in Seq(Tokens) BY ONLY <2>3, <2>4, ConcatProperties
  <2> QED BY <2>2, <2>5
<1>6. 0 \in S BY <1>4
<1> HIDE DEF S
<1>7. Nat \subseteq S BY <1>5, <1>6, Induction
<1>8. \A m \in 0..n : P(m) \in Seq(Tokens) BY <1>1, <1>7 DEF S
<1>9. ASSUME NEW i \in 1..n PROVE Joins(P(i), P(i - 1), Item(entries, i))
  <2>1. i - 1 \in 0..n BY <1>1
  <2> QED BY <1>2, <1>3, <1>8, <2>1, Joined
<1>10. IsOffsets(o, entries)
  <2>1. ASSUME NEW i \in 0..n PROVE Len(P(i)) \in Nat BY <1>8, LenProperties
  <2>2. o \in [0..n -> Nat] BY <1>0, <2>1
  <2>3. o[0] = 0
    <3>1. 0 \in 0..n BY <1>1
    <3> QED BY <1>0, <1>4, <3>1
  <2>4. ASSUME NEW i \in 1..n PROVE Size(entries[i]) \in Nat /\ o[i] = o[i - 1] + Size(entries[i])
    <3>1. i \in 0..n /\ i - 1 \in 0..n BY <1>1
    <3>2. Len(P(i)) = Len(P(i - 1)) + Len(Item(entries, i)) BY <1>9 DEF Joins
    <3>3. o[i] = Len(P(i)) /\ o[i - 1] = Len(P(i - 1)) BY <1>0, <3>1
    <3>4. Size(entries[i]) \in Nat BY EntryHasSize
    <3> QED BY <1>3, <3>2, <3>3, <3>4
  <2> QED BY <1>1, <2>2, <2>3, <2>4 DEF IsOffsets
<1>11. \A i \in 0..n : o[i] = Len(P(i)) BY <1>0
<1> QED BY <1>8, <1>9, <1>10, <1>11 DEF P

LEMMA PrintedEntries ==
  ASSUME NEW entries, FollowsFormat(entries), NEW n, n = Len(entries), NEW o, o = Ends(entries)
  PROVE  \A m \in 0..n : \A i \in 1..m : ItemAt(PrintedTo(entries, m), o[i - 1], entries[i])
<1> DEFINE P(i) == PrintedTo(entries, i)
<1>1. n \in Nat /\ \A i \in 1..n : Len(Value(entries[i])) \in Nat
  BY EntryIs, EntryHasSize
<1>2. \A i \in 1..n : Len(Item(entries, i)) = Size(entries[i]) /\ ItemAt(Item(entries, i), 0, entries[i])
  BY ItemIs DEF Size
<1>3. /\ \A i \in 0..n : P(i) \in Seq(Tokens) /\ o[i] = Len(P(i))
      /\ \A i \in 1..n : Joins(P(i), P(i - 1), Item(entries, i))
      /\ IsOffsets(o, entries)
  BY PrintedHasEnds
<1> HIDE DEF P
<1>4. /\ o \in [0..n -> Nat]
      /\ \A i \in 1..n : Size(entries[i]) \in Nat /\ o[i] = o[i - 1] + Size(entries[i])
  BY <1>3 DEF IsOffsets
<1> DEFINE A(m) == \A i \in 1..m : ItemAt(P(m), o[i - 1], entries[i])
           T == {m \in Nat : m <= n => A(m)}
<1>11. 0 \in T OBVIOUS
<1>12. ASSUME NEW m \in Nat, m \in T PROVE m + 1 \in T
  <2> SUFFICES ASSUME m + 1 <= n, NEW i \in 1..(m + 1) PROVE ItemAt(P(m + 1), o[i - 1], entries[i]) OBVIOUS
  <2>1. /\ m + 1 \in 1..n /\ (m + 1) - 1 = m /\ m <= n /\ i \in 1..n /\ i - 1 \in 0..n /\ m \in 0..n /\ i \in 0..n
        /\ Len(Value(entries[i])) \in Nat
    BY <1>1
  <2>2. Joins(P(m + 1), P(m), Item(entries, m + 1)) BY <1>3, <2>1
  <2>3. /\ o[m] = Len(P(m)) /\ o[m] \in Nat /\ o[i - 1] \in Nat /\ Size(entries[i]) \in Nat
        /\ o[i] = o[i - 1] + Size(entries[i])
    BY <1>3, <1>4, <2>1
  <2>4. CASE i <= m
    <3>1. o[i] <= o[m] BY <1>3, <2>1, <2>4, OffsetsGrow
    <3>2. ItemAt(P(m), o[i - 1], entries[i])
      <4>1. i \in 1..m BY <2>1, <2>4
      <4> QED BY <1>12, <2>1, <4>1
    <3>3. ASSUME NEW x \in 1..Size(entries[i]) PROVE P(m + 1)[o[i - 1] + x] = P(m)[o[i - 1] + x]
      <4>1. o[i - 1] + x \in 1..Len(P(m)) BY <2>3, <3>1
      <4> QED BY <2>2, <4>1 DEF Joins
    <3>4. Copied(P(m), o[i - 1], P(m + 1), o[i - 1], entries[i]) BY <2>1, <2>3, <3>2, <3>3 DEF Copied
    <3> QED BY <3>4, ItemMoves
  <2>5. CASE i = m + 1
    <3>1. ItemAt(Item(entries, i), 0, entries[i]) /\ Len(Item(entries, i)) = Size(entries[i]) BY <1>2, <2>1
    <3>2. o[i - 1] = Len(P(m)) BY <2>1, <2>3, <2>5
    <3>3. ASSUME NEW x \in 1..Size(entries[i]) PROVE P(m + 1)[o[i - 1] + x] = Item(entries, i)[0 + x]
      <4>1. x \in 1..Len(Item(entries, m + 1)) /\ 0 + x = x BY <2>3, <2>5, <3>1
      <4> QED BY <2>2, <2>5, <3>2, <4>1 DEF Joins
    <3>4. Copied(Item(entries, i), 0, P(m + 1), o[i - 1], entries[i]) BY <2>1, <2>3, <3>1, <3>3 DEF Copied
    <3> QED BY <3>4, ItemMoves
  <2> QED BY <2>1, <2>4, <2>5
<1> HIDE DEF T
<1>13. Nat \subseteq T BY <1>11, <1>12, Induction
<1>14. \A m \in 0..n : A(m) BY <1>1, <1>13 DEF T
<1> QED BY <1>14 DEF P

(* The brackets around the entries. *)
Closing(entries) == IF entries = <<>> THEN <<"{", "}">> ELSE <<"}">>

LEMMA ClosingIs ==
  ASSUME NEW entries
  PROVE  Closing(entries) \in Seq(Tokens) /\ \A x \in 1..Len(Closing(entries)) : Closing(entries)[x] \in Marks \ {Quote}
<1> DEFINE a == "{"
           b == "}"
<1>1. a \in Tokens /\ b \in Tokens /\ a \in Marks \ {Quote} /\ b \in Marks \ {Quote}
  BY DEF Tokens, Marks, Quote
<1>2. Closing(entries) = <<a, b>> \/ Closing(entries) = <<b>> BY DEF Closing
<1> HIDE DEF a, b
<1>3. CASE Closing(entries) = <<a, b>>
  <2>1. <<a, b>> \in Seq(Tokens) BY <1>1
  <2>2. \A x \in 1..Len(<<a, b>>) : <<a, b>>[x] \in Marks \ {Quote} BY <1>1
  <2> QED BY <1>3, <2>1, <2>2
<1>4. CASE Closing(entries) = <<b>>
  <2>1. <<b>> \in Seq(Tokens) BY <1>1
  <2>2. \A x \in 1..Len(<<b>>) : <<b>>[x] \in Marks \ {Quote} BY <1>1
  <2> QED BY <1>4, <2>1, <2>2
<1> QED BY <1>2, <1>3, <1>4

LEMMA PrintedIs ==
  ASSUME NEW entries, FollowsFormat(entries)
  PROVE  LaidOut(Printed(entries), entries, Ends(entries))
<1> SUFFICES ASSUME NEW n, n = Len(entries), NEW o, o = Ends(entries)
             PROVE  LaidOut(Printed(entries), entries, o)
  OBVIOUS
<1> DEFINE a == PrintedTo(entries, n)
           b == Closing(entries)
           p == a \o b
<1>1. n \in Nat /\ \A i \in 1..n : Len(Value(entries[i])) \in Nat
  BY EntryIs, EntryHasSize
<1>2. Printed(entries) = p BY DEF Printed, Closing
<1>3. IsOffsets(o, entries) /\ a \in Seq(Tokens) /\ o[n] = Len(a)
  BY <1>1, PrintedHasEnds
<1>4. \A i \in 1..n : ItemAt(a, o[i - 1], entries[i])
  <2>1. n \in 0..n BY <1>1
  <2> HIDE DEF a
  <2>2. \A i \in 1..n : ItemAt(PrintedTo(entries, n), o[i - 1], entries[i]) BY <2>1, PrintedEntries
  <2> QED BY <2>2 DEF a
<1>5. b \in Seq(Tokens) /\ \A x \in 1..Len(b) : b[x] \in Marks \ {Quote}
  BY ClosingIs
<1> HIDE DEF a, b
<1>6. p \in Seq(Tokens) /\ Joins(p, a, b) BY <1>3, <1>5, Joined
<1> HIDE DEF p
<1>7. Len(a) \in Nat /\ Len(b) \in Nat /\ Len(p) = Len(a) + Len(b) BY <1>3, <1>5, <1>6, LenProperties DEF Joins
<1>8. ASSUME NEW i \in 1..n PROVE ItemAt(p, o[i - 1], entries[i])
  <2>1. i \in 0..n /\ i - 1 \in 0..n /\ n \in 0..n /\ i <= n BY <1>1
  <2>2. /\ o[i - 1] \in Nat /\ Size(entries[i]) \in Nat /\ o[i] = o[i - 1] + Size(entries[i])
    BY <1>3, <2>1 DEF IsOffsets
  <2>3. o[i] <= Len(a)
    BY <1>3, <2>1, OffsetsGrow
  <2>4. ASSUME NEW x \in 1..Size(entries[i]) PROVE p[o[i - 1] + x] = a[o[i - 1] + x]
    <3>1. o[i - 1] + x \in 1..Len(a) BY <1>7, <2>2, <2>3
    <3> QED BY <1>6, <3>1 DEF Joins
  <2>5. ItemAt(a, o[i - 1], entries[i]) /\ Len(Value(entries[i])) \in Nat BY <1>1, <1>4
  <2>6. Copied(a, o[i - 1], p, o[i - 1], entries[i]) BY <2>2, <2>4, <2>5 DEF Copied
  <2> QED BY <2>6, ItemMoves
<1>9. ASSUME NEW x \in o[n] + 1..Len(p) PROVE p[x] \in Marks \ {Quote}
  <2>1. x - Len(a) \in 1..Len(b) /\ Len(a) + (x - Len(a)) = x BY <1>3, <1>7
  <2>2. p[Len(a) + (x - Len(a))] = b[x - Len(a)] BY <1>6, <2>1 DEF Joins
  <2> QED BY <1>5, <2>1, <2>2
<1>10. o[n] <= Len(p) BY <1>3, <1>7
<1>11. LaidOut(p, entries, o) BY <1>3, <1>6, <1>8, <1>9, <1>10 DEF LaidOut
<1> QED BY <1>2, <1>11

-----------------------------------------------------------------------------
(* What the scan finds. *)
LEMMA FirstOf ==
  ASSUME NEW X \in SUBSET Nat
  PROVE  /\ X = {} => First(X) = 0
         /\ \A i \in X : (\A j \in X : i <= j) => First(X) = i
<1>1. X = {} => First(X) = 0 BY DEF First, npos
<1>2. ASSUME NEW i \in X, \A j \in X : i <= j PROVE First(X) = i
  <2> DEFINE f == CHOOSE i_1 \in X : \A j \in X : i_1 <= j
  <2>1. First(X) = f BY DEF First
  <2>2. f \in X /\ \A j \in X : f <= j BY <1>2
  <2> HIDE DEF f
  <2>3. f <= i /\ i <= f /\ f \in Nat /\ i \in Nat BY <1>2, <2>2
  <2> QED BY <2>1, <2>3
<1> QED BY <1>1, <1>2

LEMMA OneToken ==
  ASSUME NEW S, NEW text \in Seq(S), NEW i \in 1..Len(text), NEW c
  PROVE  SubSeq(text, i, i + 1 - 1) = <<c>> <=> text[i] = c
<1> DEFINE s == SubSeq(text, i, i)
<1>1. Len(text) \in Nat /\ i + 1 - 1 = i /\ \A j \in 1..Len(text) : text[j] \in S BY LenProperties, ElementOfSeq
<1>2. i \in Int /\ \A j \in i..i : text[j] \in S BY <1>1
<1>3. s \in Seq(S) /\ Len(s) = (IF i <= i THEN i - i + 1 ELSE 0) /\ \A j \in 1..(i - i + 1) : s[j] = text[i + j - 1]
  BY <1>2, SubSeqProperties
<1> HIDE DEF s
<1>4. Len(s) = 1 /\ s[1] = text[i]
  <2>1. i <= i /\ i - i + 1 = 1 /\ i + 1 - 1 = i /\ 1 \in 1..1 BY <1>1
  <2> QED BY <1>3, <2>1
<1>5. s = <<text[i]>>
  <2>1. <<text[i]>> \in Seq(S) /\ Len(<<text[i]>>) = 1 /\ <<text[i]>>[1] = text[i] BY <1>1
  <2>2. \A j \in 1..Len(s) : s[j] = <<text[i]>>[j] BY <1>4, <2>1
  <2> QED BY <1>3, <1>4, <2>1, <2>2, SeqEqual
<1>6. <<text[i]>> = <<c>> <=> text[i] = c OBVIOUS
<1> QED BY <1>1, <1>5, <1>6 DEF s

LEMMA FindToken ==
  ASSUME NEW S, NEW text \in Seq(S), NEW c, NEW pos \in Nat, pos >= 1
  PROVE  /\ (\A i \in pos..Len(text) : text[i] # c) => find(text, <<c>>, pos) = 0
         /\ \A i \in pos..Len(text) :
              text[i] = c /\ (\A j \in pos..(i - 1) : text[j] # c) => find(text, <<c>>, pos) = i
<1> DEFINE X == {i \in pos..Len(text) : text[i] = c}
<1>1. Len(text) \in Nat /\ Len(<<c>>) = 1 /\ Len(text) - 1 + 1 = Len(text) BY LenProperties
<1>2. find(text, <<c>>, pos) = First({i \in pos..Len(text) : SubSeq(text, i, i + 1 - 1) = <<c>>})
  BY <1>1 DEF find
<1>3. \A i \in pos..Len(text) : SubSeq(text, i, i + 1 - 1) = <<c>> <=> text[i] = c
  <2>1. \A i \in pos..Len(text) : i \in 1..Len(text) BY <1>1
  <2> QED BY <2>1, OneToken
<1>4. find(text, <<c>>, pos) = First(X) BY <1>2, <1>3
<1>5. X \in SUBSET Nat BY <1>1
<1>6. ASSUME \A i \in pos..Len(text) : text[i] # c PROVE find(text, <<c>>, pos) = 0
  <2>1. X = {} BY <1>6
  <2> HIDE DEF X
  <2> QED BY <1>4, <1>5, <2>1, FirstOf
<1>7. ASSUME NEW i \in pos..Len(text), text[i] = c, \A j \in pos..(i - 1) : text[j] # c
      PROVE  find(text, <<c>>, pos) = i
  <2>1. i \in X BY <1>7
  <2>2. ASSUME NEW j \in X PROVE i <= j
    <3>1. j \in pos..Len(text) /\ text[j] = c OBVIOUS
    <3>2. ~(j \in pos..(i - 1)) BY <1>7, <3>1
    <3> QED BY <1>1, <3>1, <3>2
  <2> HIDE DEF X
  <2> QED BY <1>4, <1>5, <2>1, <2>2, FirstOf
<1> QED BY <1>6, <1>7

LEMMA ThreeTokens ==
  ASSUME NEW S, NEW text \in Seq(S), NEW i \in 1..(Len(text) - 2), NEW key
  PROVE  SubSeq(text, i, i + 3 - 1) = Quoted(key) <=> text[i] = Quote /\ text[i + 1] = key /\ text[i + 2] = Quote
<1> DEFINE s == SubSeq(text, i, i + 2)
           t == <<text[i], text[i + 1], text[i + 2]>>
<1>1. /\ Len(text) \in Nat /\ i + 3 - 1 = i + 2 /\ \A j \in 1..Len(text) : text[j] \in S
  BY LenProperties, ElementOfSeq
<1>2. i \in Int /\ i + 2 \in Int /\ \A j \in i..(i + 2) : text[j] \in S BY <1>1
<1>3. /\ s \in Seq(S) /\ Len(s) = (IF i <= i + 2 THEN (i + 2) - i + 1 ELSE 0)
      /\ \A j \in 1..((i + 2) - i + 1) : s[j] = text[i + j - 1]
  BY <1>2, SubSeqProperties
<1> HIDE DEF s
<1>4. Len(s) = 3 /\ s[1] = text[i] /\ s[2] = text[i + 1] /\ s[3] = text[i + 2]
  <2>1. i <= i + 2 /\ (i + 2) - i + 1 = 3 /\ i + 1 - 1 = i /\ i + 2 - 1 = i + 1 /\ i + 3 - 1 = i + 2 BY <1>1
  <2> QED BY <1>3, <2>1
<1>5. s = t
  <2>1. t \in Seq(S) /\ Len(t) = 3 /\ t[1] = text[i] /\ t[2] = text[i + 1] /\ t[3] = text[i + 2] BY <1>1
  <2> HIDE DEF t
  <2>2. \A j \in 1..Len(s) : s[j] = t[j]
    <3>1. \A j \in 1..3 : j = 1 \/ j = 2 \/ j = 3 OBVIOUS
    <3> QED BY <1>4, <2>1, <3>1
  <2> QED BY <1>3, <1>4, <2>1, <2>2, SeqEqual
<1>6. t = Quoted(key) <=> text[i] = Quote /\ text[i + 1] = key /\ text[i + 2] = Quote BY DEF Quoted
<1> HIDE DEF t
<1> QED BY <1>1, <1>5, <1>6 DEF s

KeyAt(text, key, i) == i \in 1..(Len(text) - 2) /\ text[i] = Quote /\ text[i + 1] = key /\ text[i + 2] = Quote

LEMMA FindKey ==
  ASSUME NEW S, NEW text \in Seq(S), NEW key
  PROVE  /\ (\A i : ~KeyAt(text, key, i)) => find(text, Quoted(key), 1) = 0
         /\ \A i : KeyAt(text, key, i) /\ (\A j : KeyAt(text, key, j) => i = j) => find(text, Quoted(key), 1) = i
<1> DEFINE X == {i \in 1..(Len(text) - 2) : KeyAt(text, key, i)}
<1>1. Len(text) \in Nat /\ Len(Quoted(key)) = 3 /\ Len(text) - 3 + 1 = Len(text) - 2 BY LenProperties DEF Quoted
<1>2. find(text, Quoted(key), 1) = First({i \in 1..(Len(text) - 2) : SubSeq(text, i, i + 3 - 1) = Quoted(key)})
  BY <1>1 DEF find
<1>3. \A i \in 1..(Len(text) - 2) : SubSeq(text, i, i + 3 - 1) = Quoted(key) <=> KeyAt(text, key, i)
  BY ThreeTokens DEF KeyAt
<1>4. find(text, Quoted(key), 1) = First(X) BY <1>2, <1>3
<1>5. X \in SUBSET Nat BY <1>1
<1>6. \A i : i \in X <=> KeyAt(text, key, i) BY DEF KeyAt
<1> HIDE DEF X
<1>7. ASSUME \A i : ~KeyAt(text, key, i) PROVE find(text, Quoted(key), 1) = 0
  <2>1. X = {} BY <1>6, <1>7
  <2> QED BY <1>4, <1>5, <2>1, FirstOf
<1>8. ASSUME NEW i, KeyAt(text, key, i), \A j : KeyAt(text, key, j) => i = j
      PROVE  find(text, Quoted(key), 1) = i
  <2>1. i \in X /\ i \in Nat BY <1>5, <1>6, <1>8
  <2>2. \A j \in X : i <= j BY <1>6, <1>8, <2>1
  <2> QED BY <1>4, <1>5, <2>1, <2>2, FirstOf
<1> QED BY <1>7, <1>8

-----------------------------------------------------------------------------
(* No word is taken for a key or for a mark. *)
LEMMA Apart ==
  /\ Lists \cap Marks = {} /\ Plain \cap Marks = {} /\ Plain \cap Lists = {}
  /\ Quote \in Marks /\ ":" \in Marks /\ "," \in Marks /\ "{" \in Marks /\ "[" \in Marks /\ "]" \in Marks
<1>1. Lists \cap Marks = {} BY DEF Lists, Marks, Quote
<1>2. /\ Quote \in Marks /\ ":" \in Marks /\ "," \in Marks /\ "{" \in Marks /\ "[" \in Marks /\ "]" \in Marks
  BY DEF Marks
<1>3. Plain \cap Marks = {} /\ Plain \cap Lists = {} BY DEF Plain
<1> QED BY <1>1, <1>2, <1>3

LEMMA DifferentMarks ==
  /\ Quote # "[" /\ Quote # "]" /\ Quote # "," /\ "," # "]" /\ ":" # "[" /\ "[" # "]"
BY DEF Quote

LEMMA TokenOfList ==
  ASSUME NEW l, NEW ws \in Seq(Plain), IsList(l, ws), NEW x \in 1..Len(l)
  PROVE  /\ l[x] \in Marks \cup Plain
         /\ x < Len(l) => l[x] # "]"
<1>0. Len(ws) \in Nat /\ \A k \in 1..Len(ws) : ws[k] \in Plain BY LenProperties, ElementOfSeq
<1> SUFFICES ASSUME NEW n \in Nat, n = Len(ws), NEW m \in Nat, m = Len(l), x \in 1..m
             PROVE  l[x] \in Marks \cup Plain /\ (x < m => l[x] # "]")
  BY <1>0, LenProperties DEF IsList
<1>1. /\ l[1] = "[" /\ l[m] = "]"
      /\ \A k \in 1..n : /\ l[4 * k - 2] = Quote /\ l[4 * k - 1] = ws[k] /\ l[4 * k] = Quote
                         /\ k < n => l[4 * k + 1] = ","
  BY DEF IsList
<1>m. (n = 0 /\ m = 2) \/ (n # 0 /\ m = 4 * n + 1)
  BY DEF IsList
<1>2. \A w \in Plain : w \in Marks \cup Plain /\ w # "]" BY Apart
<1>3. x = 1 \/ x = m \/ \E k \in 1..n : x = 4 * k - 2 \/ x = 4 * k - 1 \/ x = 4 * k \/ (k < n /\ x = 4 * k + 1)
  <2>1. CASE n = 0 /\ m = 2 BY <2>1
  <2>2. CASE n # 0 /\ m = 4 * n + 1 /\ x # 1 /\ x # m
    <3>1. x \in 1..(4 * n + 1) /\ x - 1 \in 1..(4 * n) BY <2>2
    <3>2. PICK k \in 1..n : x - 1 = 4 * k - 3 \/ x - 1 = 4 * k - 2 \/ x - 1 = 4 * k - 1 \/ x - 1 = 4 * k
      BY <3>1, IsFourthOf
    <3>3. x = 4 * k - 2 \/ x = 4 * k - 1 \/ x = 4 * k \/ (k < n /\ x = 4 * k + 1) BY <2>2, <3>2
    <3> QED BY <3>3
  <2> QED BY <1>m, <2>1, <2>2
<1>4. CASE x = 1 BY <1>1, <1>4, Apart, DifferentMarks
<1>5. CASE x = m
  <2>1. ~(x < m) BY <1>5
  <2>2. l[x] = "]" BY <1>1, <1>5
  <2>3. l[x] \in Marks \cup Plain BY <2>2, Apart
  <2> QED BY <2>1, <2>3
<1>6. CASE \E k \in 1..n : x = 4 * k - 2 \/ x = 4 * k - 1 \/ x = 4 * k \/ (k < n /\ x = 4 * k + 1)
  <2>1. PICK k \in 1..n : x = 4 * k - 2 \/ x = 4 * k - 1 \/ x = 4 * k \/ (k < n /\ x = 4 * k + 1) BY <1>6
  <2>2. l[x] = Quote \/ l[x] = ws[k] \/ l[x] = "," BY <1>1, <2>1
  <2>3. ws[k] \in Plain BY <1>0
  <2> QED BY <1>2, <2>2, <2>3, Apart, DifferentMarks
<1> QED BY <1>3, <1>4, <1>5, <1>6

LEMMA EntryForm ==
  ASSUME NEW entries, FollowsFormat(entries), NEW i \in 1..Len(entries)
  PROVE  LET e == entries[i] IN
         IF "words" \in DOMAIN e THEN e.words \in Seq(Plain) /\ Value(e) = List(e.words)
         ELSE e.key \notin Lists /\ e.number \in Plain /\ Value(e) = <<e.number>>
BY EntryIs DEF FollowsFormat, Value

LEMMA NoKeyInValue ==
  ASSUME NEW entries, FollowsFormat(entries), NEW i \in 1..Len(entries),
         NEW x \in 1..Len(Value(entries[i]))
  PROVE  Value(entries[i])[x] \notin Lists
<1> DEFINE e == entries[i]
<1>1. CASE "words" \in DOMAIN e
  <2>1. e.words \in Seq(Plain) /\ Value(e) = List(e.words) BY <1>1, EntryForm
  <2>2. IsList(Value(e), e.words) BY <2>1, ListIs
  <2> HIDE DEF e
  <2>3. x \in 1..Len(Value(e)) BY DEF e
  <2>4. Value(e)[x] \in Marks \cup Plain BY <2>1, <2>2, <2>3, TokenOfList
  <2> QED BY <2>4, Apart DEF e
<1>2. CASE "words" \notin DOMAIN e
  <2>1. e.number \in Plain /\ Value(e) = <<e.number>> BY <1>2, EntryForm
  <2> HIDE DEF e
  <2>2. x = 1 BY <2>1 DEF e
  <2>3. Value(e)[x] \in Plain BY <2>1, <2>2
  <2> QED BY <2>3, Apart DEF e
<1> QED BY <1>1, <1>2

LEMMA InItem ==
  ASSUME NEW a \in Nat, NEW l \in Nat, NEW y \in Nat, a < y, y <= a + 5 + l,
         y # a + 1 /\ y # a + 2 /\ y # a + 4 /\ y # a + 5
  PROVE  y = a + 3 \/ (y - (a + 5) \in 1..l /\ a + 5 + (y - (a + 5)) = y)
OBVIOUS

LEMMA ItemLength ==
  ASSUME NEW a \in Nat, NEW l \in Nat
  PROVE  a + (5 + l) = a + 5 + l
OBVIOUS

LEMMA KeyPlace ==
  ASSUME NEW entries, FollowsFormat(entries), NEW p, NEW o, LaidOut(p, entries, o),
         NEW key \in Lists, NEW y \in 1..Len(p), p[y] = key
  PROVE  \E i \in 1..Len(entries) : y = o[i - 1] + 3 /\ entries[i].key = key
<1> DEFINE n == Len(entries)
<1>1. /\ IsOffsets(o, entries) /\ Len(p) \in Nat
      /\ \A i \in 1..n : ItemAt(p, o[i - 1], entries[i])
      /\ \A x \in o[n] + 1..Len(p) : p[x] \in Marks
      /\ n \in Nat /\ o[n] \in Nat
  BY LenProperties DEF LaidOut, IsOffsets
<1>2. key \notin Marks BY Apart
<1>3. y \in 1..o[n]
  <2>1. ~(y \in o[n] + 1..Len(p)) BY <1>1, <1>2
  <2> QED BY <1>1, <2>1
<1>4. PICK i \in 1..n : o[i - 1] \in Nat /\ o[i] \in Nat /\ o[i - 1] < y /\ y <= o[i]
  BY <1>1, <1>3, EntryOf
<1> SUFFICES ASSUME NEW a \in Nat, a = o[i - 1], NEW l \in Nat, l = Len(Value(entries[i]))
             PROVE  y = a + 3 /\ entries[i].key = key
  BY <1>4, EntryHasSize
<1>5. y \in Nat /\ a < y /\ y <= a + 5 + l
  <2>1. o[i] = a + Size(entries[i]) BY <1>1 DEF IsOffsets
  <2>2. Size(entries[i]) = 5 + l BY DEF Size
  <2>3. o[i] = a + 5 + l
    <3>1. a + (5 + l) = a + 5 + l BY ItemLength
    <3> QED BY <2>1, <2>2, <3>1, Zenon
  <2>4. y \in Nat BY <1>1
  <2> QED BY <1>4, <2>3, <2>4, Zenon
<1>6. Header(p, a, entries[i].key) /\ \A x \in 1..l : p[a + 5 + x] = Value(entries[i])[x] BY <1>1 DEF ItemAt
<1>7. /\ p[a + 1] \in {"{", ","} /\ p[a + 2] = Quote /\ p[a + 3] = entries[i].key /\ p[a + 4] = Quote /\ p[a + 5] = ":"
  BY <1>6 DEF Header
<1>8. p[a + 1] \in Marks /\ p[a + 2] \in Marks /\ p[a + 4] \in Marks /\ p[a + 5] \in Marks
  BY <1>7, Apart
<1>9. y # a + 1 /\ y # a + 2 /\ y # a + 4 /\ y # a + 5 BY <1>2, <1>8
<1>10. CASE y - (a + 5) \in 1..l /\ a + 5 + (y - (a + 5)) = y
  <2>2. p[y] = Value(entries[i])[y - (a + 5)] BY <1>6, <1>10
  <2> QED BY <1>10, <2>2, NoKeyInValue
<1>11. CASE y = a + 3 BY <1>7, <1>11
<1>12. y = a + 3 \/ (y - (a + 5) \in 1..l /\ a + 5 + (y - (a + 5)) = y)
  BY ONLY a \in Nat, l \in Nat, <1>5, <1>9, InItem
<1> QED BY <1>10, <1>11, <1>12

-----------------------------------------------------------------------------
(* What the scan reads from a list that is closed, at b in the text.       *)
ListAt(text, b, l, ws) ==
  /\ text \in Seq(Tokens) /\ b \in Nat /\ ws \in Seq(Plain) /\ IsList(l, ws)
  /\ b + Len(l) <= Len(text) /\ \A x \in 1..Len(l) : text[b + x] = l[x]

(* The loop between start and end. *)

WordLoop(text, start, end, t) ==
  t = [i \in start..(end + 1) |->
         LET q1 == find(text, <<Quote>>, i)
             q2 == find(text, <<Quote>>, q1 + 1)
         IN IF q1 \in i..(end - 1) /\ q2 \in i..end THEN <<text[q1 + 1]>> \o t[q2 + 1] ELSE <<>>]

LEMMA LoopExists ==
  ASSUME NEW text \in Seq(Tokens), NEW start \in Nat, NEW end \in Nat, end <= Len(text), start >= 1
  PROVE  \E t : WordLoop(text, start, end, t)
<1> DEFINE q1(i) == find(text, <<Quote>>, i)
           q2(i) == find(text, <<Quote>>, q1(i) + 1)
           V == Seq(Tokens)
           D == start..(end + 1)
           C == {i \in D : q1(i) \in i..(end - 1) /\ q2(i) \in i..end}
           rank == [x \in D |-> end + 1 - x]
           next == [x \in C |-> q2(x) + 1]
           step == [x \in C |-> [v \in V |-> <<text[q1(x) + 1]>> \o v]]
           base == [x \in D |-> <<>>]
<1> HIDE DEF q1, q2
<1>1. rank \in [D -> Nat] /\ next \in [C -> D] /\ base \in [D -> V] /\ C \subseteq D
  OBVIOUS
<1>2. step \in [C -> [V -> V]]
  <2>1. ASSUME NEW x \in C, NEW v \in V PROVE <<text[q1(x) + 1]>> \o v \in V
    <3>1. q1(x) + 1 \in 1..Len(text) BY LenProperties
    <3>2. text[q1(x) + 1] \in Tokens BY <3>1, ElementOfSeq
    <3>3. <<text[q1(x) + 1]>> \in Seq(Tokens) BY <3>2
    <3> QED BY <3>3, ConcatProperties
  <2> QED BY <2>1
<1>3. \A x \in C : rank[next[x]] < rank[x]
  <2> TAKE x \in C
  <2>1. q2(x) \in x..end BY DEF C
  <2>2. next[x] = q2(x) + 1 /\ next[x] \in D /\ x \in D BY <1>1
  <2>3. rank[next[x]] = end + 1 - next[x] /\ rank[x] = end + 1 - x BY <2>2
  <2>4. x \in Nat BY <2>2
  <2> QED BY ONLY <2>1, <2>2, <2>3, <2>4, end \in Nat
<1>4. \E m \in Nat : \A x \in D : rank[x] < m
  <2>1. end + 2 \in Nat /\ \A x \in D : rank[x] < end + 2 OBVIOUS
  <2> QED BY <2>1
<1>5. PICK t \in [D -> V] : Recursively(t, D, C, next, step, base)
  <2> HIDE DEF V, D, C, rank, next, step, base
  <2>1. IsRecursion(V, D, C, rank, next, step, base) BY <1>1, <1>2, <1>3, <1>4 DEF IsRecursion
  <2> QED BY <2>1, RecursionExists
<1>6. t = [x \in D |-> IF x \in C THEN step[x][t[next[x]]] ELSE base[x]] BY <1>5 DEF Recursively
<1>7. ASSUME NEW x \in D
      PROVE  (IF x \in C THEN step[x][t[next[x]]] ELSE base[x])
               = IF q1(x) \in x..(end - 1) /\ q2(x) \in x..end THEN <<text[q1(x) + 1]>> \o t[q2(x) + 1] ELSE <<>>
  <2>1. CASE x \in C
    <3>1. next[x] = q2(x) + 1 /\ next[x] \in D BY <1>1, <2>1
    <3>2. t[next[x]] \in V BY <3>1, <1>5
    <3>3. step[x][t[next[x]]] = <<text[q1(x) + 1]>> \o t[q2(x) + 1] BY <2>1, <3>1, <3>2
    <3> QED BY <2>1, <3>3
  <2>2. CASE x \notin C BY <2>2
  <2> QED BY <2>1, <2>2
<1>8. t = [x \in D |-> IF q1(x) \in x..(end - 1) /\ q2(x) \in x..end
                       THEN <<text[q1(x) + 1]>> \o t[q2(x) + 1] ELSE <<>>]
  BY <1>6, <1>7
<1>9. WordLoop(text, start, end, t) BY <1>8 DEF WordLoop, q1, q2
<1> QED BY <1>9

LEMMA WordsByLoop ==
  ASSUME NEW text \in Seq(Tokens), NEW start \in Nat, NEW end \in Nat, end <= Len(text), start >= 1
  PROVE  \E t : WordLoop(text, start, end, t) /\ WordsIn(text, start, end) = t[start]
<1> DEFINE u == CHOOSE t : WordLoop(text, start, end, t)
<1>1. WordsIn(text, start, end) = u[start] BY DEF WordsIn, WordLoop
<1>2. WordLoop(text, start, end, u) BY LoopExists
<1> QED BY <1>1, <1>2

(* Where the loop stands when it has read k words. *)
Stand(b, k) == IF k = 0 THEN b + 2 ELSE b + 4 * k + 1

LEMMA StandMoves ==
  ASSUME NEW b \in Nat, NEW n \in Nat, NEW k \in 1..n
  PROVE  /\ 4 * k - 2 \in 1..(4 * n + 1) /\ 4 * k - 1 \in 1..(4 * n + 1) /\ 4 * k \in 1..(4 * n + 1)
         /\ Stand(b, k - 1) \in {b + 4 * k - 2, b + 4 * k - 3} /\ Stand(b, k) = b + 4 * k + 1
         /\ Stand(b, k - 1) = b + 4 * k - 3 => k > 1
         /\ b + (4 * k - 2) = b + 4 * k - 2 /\ b + (4 * k - 1) = b + 4 * k - 1 /\ b + (4 * k) = b + 4 * k
         /\ b + 4 * k - 2 \in Nat /\ b + 4 * k - 2 >= 1 /\ b + 4 * k - 3 >= 1
         /\ b + 4 * k <= b + 4 * n
<1>1. k \in Nat /\ k >= 1 /\ k <= n OBVIOUS
<1>2. CASE k = 1
  <2>1. Stand(b, k - 1) = b + 2 /\ Stand(b, k) = b + 4 * k + 1 BY <1>1, <1>2 DEF Stand
  <2> QED BY <1>1, <1>2, <2>1
<1>3. CASE k # 1
  <2>1. Stand(b, k - 1) = b + 4 * (k - 1) + 1 /\ Stand(b, k) = b + 4 * k + 1 BY <1>1, <1>3 DEF Stand
  <2> QED BY <1>1, <1>3, <2>1
<1> QED BY <1>2, <1>3

LEMMA OneWord ==
  ASSUME NEW text, NEW b, NEW l, NEW ws, ListAt(text, b, l, ws), NEW k \in 1..Len(ws)
  PROVE  /\ find(text, <<Quote>>, Stand(b, k - 1)) = b + 4 * k - 2
         /\ find(text, <<Quote>>, b + 4 * k - 2 + 1) = b + 4 * k
         /\ text[b + 4 * k - 2 + 1] = ws[k]
<1>1. /\ text \in Seq(Tokens) /\ b \in Nat /\ ws \in Seq(Plain) /\ IsList(l, ws)
      /\ b + Len(l) <= Len(text) /\ \A x \in 1..Len(l) : text[b + x] = l[x]
  BY DEF ListAt
<1>2. Len(ws) \in Nat /\ Len(text) \in Nat /\ ws[k] \in Plain BY <1>1, LenProperties, ElementOfSeq
<1> SUFFICES ASSUME NEW n \in Nat, n = Len(ws), NEW m \in Nat, m = Len(text)
             PROVE  /\ find(text, <<Quote>>, Stand(b, k - 1)) = b + 4 * k - 2
                    /\ find(text, <<Quote>>, b + 4 * k - 2 + 1) = b + 4 * k
                    /\ text[b + 4 * k - 2 + 1] = ws[k]
  BY <1>2
<1>3. Len(l) = 4 * n + 1 /\ k \in 1..n /\ k \in Nat
  <2>1. k \in 1..n /\ k \in Nat /\ n # 0 OBVIOUS
  <2>2. Len(l) = IF n = 0 THEN 2 ELSE 4 * n + 1 BY <1>1 DEF IsList
  <2> QED BY <2>1, <2>2
<1>4. /\ 4 * k - 2 \in 1..(4 * n + 1) /\ 4 * k - 1 \in 1..(4 * n + 1) /\ 4 * k \in 1..(4 * n + 1)
      /\ Stand(b, k - 1) \in {b + 4 * k - 2, b + 4 * k - 3}
      /\ Stand(b, k - 1) = b + 4 * k - 3 => k > 1
      /\ b + (4 * k - 2) = b + 4 * k - 2 /\ b + (4 * k - 1) = b + 4 * k - 1 /\ b + (4 * k) = b + 4 * k
      /\ b + 4 * k - 2 \in Nat /\ b + 4 * k - 2 >= 1 /\ b + 4 * k - 3 >= 1
      /\ b + 4 * k <= b + 4 * n
  BY <1>1, <1>3, StandMoves
<1>5. l[4 * k - 2] = Quote /\ l[4 * k - 1] = ws[k] /\ l[4 * k] = Quote BY <1>1, <1>3 DEF IsList
<1>6. /\ text[b + 4 * k - 2] = Quote /\ text[b + 4 * k - 1] = ws[k] /\ text[b + 4 * k] = Quote
  BY <1>1, <1>3, <1>4, <1>5
<1>7. k > 1 => text[b + 4 * k - 3] # Quote
  <2> SUFFICES ASSUME k > 1 PROVE text[b + 4 * k - 3] # Quote OBVIOUS
  <2>1. k - 1 \in 1..n /\ k - 1 < n /\ 4 * (k - 1) + 1 = 4 * k - 3 /\ 4 * k - 3 \in 1..(4 * n + 1)
        /\ b + (4 * k - 3) = b + 4 * k - 3
    BY <1>3
  <2>2. l[4 * (k - 1) + 1] = "," BY <1>1, <2>1 DEF IsList
  <2>3. text[b + 4 * k - 3] = "," BY <1>1, <1>3, <2>1, <2>2
  <2> QED BY <2>3, DifferentMarks
<1>8. ws[k] # Quote BY <1>2, Apart
<1>9. b + (4 * n + 1) <= m BY <1>1, <1>3
<1>10. find(text, <<Quote>>, Stand(b, k - 1)) = b + 4 * k - 2
  <2> DEFINE pos == Stand(b, k - 1)
             i == b + 4 * k - 2
  <2>1. pos \in Nat /\ pos >= 1 /\ i \in pos..m BY <1>1, <1>3, <1>4, <1>9
  <2>2. \A j \in pos..(i - 1) : text[j] # Quote
    <3> SUFFICES ASSUME NEW j \in pos..(i - 1) PROVE text[j] # Quote OBVIOUS
    <3>1. pos = b + 4 * k - 3 /\ j = b + 4 * k - 3 BY <1>1, <1>3, <1>4
    <3> QED BY <1>4, <1>7, <3>1
  <2> HIDE DEF pos, i
  <2>3. text[i] = Quote BY <1>6 DEF i
  <2>4. find(text, <<Quote>>, pos) = i BY <1>1, <2>1, <2>2, <2>3, FindToken
  <2> QED BY <2>4 DEF pos, i
<1>11. find(text, <<Quote>>, b + 4 * k - 2 + 1) = b + 4 * k
  <2> DEFINE pos == b + 4 * k - 2 + 1
             i == b + 4 * k
  <2>1. pos \in Nat /\ pos >= 1 /\ i \in pos..m BY <1>1, <1>3, <1>4, <1>9
  <2>2. \A j \in pos..(i - 1) : text[j] # Quote
    <3> SUFFICES ASSUME NEW j \in pos..(i - 1) PROVE text[j] # Quote OBVIOUS
    <3>1. b \in Nat /\ k \in Nat /\ j \in (b + 4 * k - 1)..(b + 4 * k - 1)
      <4>1. b + 4 * k - 2 + 1 = b + 4 * k - 1 BY <1>1, <1>3
      <4> QED BY <1>1, <1>3, <4>1
    <3>2. j = b + 4 * k - 1 BY <3>1
    <3> QED BY <1>6, <1>8, <3>2
  <2> HIDE DEF pos, i
  <2>3. text[i] = Quote BY <1>6 DEF i
  <2>4. find(text, <<Quote>>, pos) = i BY <1>1, <2>1, <2>2, <2>3, FindToken
  <2> QED BY <2>4 DEF pos, i
<1>12. b + 4 * k - 2 + 1 = b + 4 * k - 1 BY <1>1, <1>3
<1> QED BY <1>6, <1>10, <1>11, <1>12

LEMMA ListRead ==
  ASSUME NEW text, NEW b, NEW l, NEW ws, ListAt(text, b, l, ws)
  PROVE  WordsIn(text, b + 2, b + Len(l)) = ws
<1>1. /\ text \in Seq(Tokens) /\ b \in Nat /\ ws \in Seq(Plain) /\ IsList(l, ws)
      /\ b + Len(l) <= Len(text)
  BY DEF ListAt
<1>2. Len(ws) \in Nat /\ Len(text) \in Nat BY <1>1, LenProperties
<1> SUFFICES ASSUME NEW n \in Nat, n = Len(ws), NEW e \in Nat, e = b + Len(l), e <= Len(text),
                    (n = 0 /\ e = b + 2) \/ (n # 0 /\ e = b + 4 * n + 1)
             PROVE  WordsIn(text, b + 2, e) = ws
  <2> SUFFICES ASSUME NEW n \in Nat, n = Len(ws)
               PROVE  b + Len(l) \in Nat /\ ((n = 0 /\ b + Len(l) = b + 2) \/ (n # 0 /\ b + Len(l) = b + 4 * n + 1))
    BY <1>1, <1>2
  <2>1. Len(l) = IF n = 0 THEN 2 ELSE 4 * n + 1 BY <1>1 DEF IsList
  <2> QED BY <1>1, <2>1
<1>3. PICK t : WordLoop(text, b + 2, e, t) /\ WordsIn(text, b + 2, e) = t[b + 2]
  <2>1. b + 2 \in Nat /\ b + 2 >= 1 BY <1>1
  <2> QED BY <1>1, <2>1, WordsByLoop
<1> DEFINE q1(i) == find(text, <<Quote>>, i)
           q2(i) == find(text, <<Quote>>, q1(i) + 1)
<1>4. ASSUME NEW i \in (b + 2)..(e + 1)
      PROVE  t[i] = IF q1(i) \in i..(e - 1) /\ q2(i) \in i..e THEN <<text[q1(i) + 1]>> \o t[q2(i) + 1] ELSE <<>>
  BY <1>3 DEF WordLoop
<1>5. t[Stand(b, n)] = <<>>
  <2>1. Stand(b, n) = e /\ e \in (b + 2)..(e + 1) BY <1>1 DEF Stand
  <2>2. ~(q1(e) \in e..(e - 1)) OBVIOUS
  <2> HIDE DEF q1, q2
  <2> QED BY <1>4, <2>1, <2>2
<1>6. ASSUME NEW k \in 1..n PROVE t[Stand(b, k - 1)] = <<ws[k]>> \o t[Stand(b, k)]
  <2> DEFINE i == Stand(b, k - 1)
  <2>1. /\ find(text, <<Quote>>, Stand(b, k - 1)) = b + 4 * k - 2
        /\ find(text, <<Quote>>, b + 4 * k - 2 + 1) = b + 4 * k
        /\ text[b + 4 * k - 2 + 1] = ws[k]
    <3>1. k \in 1..Len(ws) /\ ListAt(text, b, l, ws) OBVIOUS
    <3> HIDE DEF q1, q2, i
    <3> QED BY ONLY <3>1, OneWord
  <2>2. q1(i) = b + 4 * k - 2 /\ q2(i) = b + 4 * k BY <2>1
  <2>3. /\ Stand(b, k - 1) \in {b + 4 * k - 2, b + 4 * k - 3} /\ Stand(b, k) = b + 4 * k + 1
        /\ Stand(b, k - 1) = b + 4 * k - 3 => k > 1
    BY <1>1, StandMoves
  <2> HIDE DEF q1, q2, i
  <2>4. i = b + 4 * k - 2 \/ (i = b + 4 * k - 3 /\ k > 1) BY <2>3 DEF i
  <2>5. k \in Nat /\ k >= 1 /\ k <= n /\ e = b + 4 * n + 1 OBVIOUS
  <2>6. /\ i \in (b + 2)..(e + 1) /\ b + 4 * k - 2 \in i..(e - 1) /\ b + 4 * k \in i..e
    BY <1>1, <2>4, <2>5
  <2>7. t[i] = <<text[q1(i) + 1]>> \o t[q2(i) + 1] BY <1>4, <2>2, <2>6
  <2>8. t[i] = <<text[b + 4 * k - 2 + 1]>> \o t[b + 4 * k + 1] BY <2>2, <2>7
  <2> QED BY <2>1, <2>3, <2>8 DEF i
<1> DEFINE Rest(d, u) == u \in Seq(Plain) /\ Len(u) = d /\ \A j \in 1..d : u[j] = ws[n - d + j]
           S == {d \in Nat : d <= n => Rest(d, t[Stand(b, n - d)])}
<1>7. 0 \in S
  <2>1. n - 0 = n /\ t[Stand(b, n - 0)] = <<>> BY <1>5
  <2>2. <<>> \in Seq(Plain) /\ Len(<<>>) = 0 BY EmptySeq
  <2>3. \A j \in 1..0 : FALSE OBVIOUS
  <2> QED BY <2>1, <2>2, <2>3
<1>8. ASSUME NEW d \in Nat, d \in S PROVE d + 1 \in S
  <2> HIDE DEF Rest
  <2> SUFFICES ASSUME d + 1 <= n PROVE Rest(d + 1, t[Stand(b, n - (d + 1))])
    OBVIOUS
  <2> DEFINE k == n - d
             u == t[Stand(b, k)]
             w == <<ws[k]>>
             v == t[Stand(b, k - 1)]
  <2>1. k \in 1..n /\ n - (d + 1) = k - 1 /\ d <= n OBVIOUS
  <2>2. u \in Seq(Plain) /\ Len(u) = d /\ \A j \in 1..d : u[j] = ws[n - d + j] BY <1>8, <2>1 DEF Rest
  <2>3. v = w \o u BY <1>6, <2>1
  <2>4. w \in Seq(Plain) /\ Len(w) = 1 /\ w[1] = ws[k]
    <3>1. ws[k] \in Plain BY <1>1, <2>1, ElementOfSeq
    <3> QED BY <3>1
  <2> HIDE DEF k, u, w, v
  <2>5. v \in Seq(Plain) /\ Joins(v, w, u) BY <2>2, <2>3, <2>4, Joined
  <2>6. Len(v) = d + 1 BY <2>2, <2>4, <2>5 DEF Joins
  <2>7. ASSUME NEW j \in 1..(d + 1) PROVE v[j] = ws[k - 1 + j]
    <3>1. CASE j = 1
      <4>1. v[1] = w[1] /\ k - 1 + 1 = k BY <2>1, <2>4, <2>5 DEF Joins
      <4> QED BY <2>4, <3>1, <4>1
    <3>2. CASE j # 1
      <4>1. j - 1 \in 1..d /\ 1 + (j - 1) = j /\ n - d + (j - 1) = k - 1 + j BY <3>2 DEF k
      <4>2. v[1 + (j - 1)] = u[j - 1] BY <2>2, <2>4, <2>5, <4>1 DEF Joins
      <4> QED BY <2>2, <4>1, <4>2
    <3> QED BY <3>1, <3>2
  <2>8. n - (d + 1) = k - 1 BY DEF k
  <2>9. Rest(d + 1, v) BY <2>5, <2>6, <2>7, <2>8 DEF Rest
  <2> QED BY <2>8, <2>9 DEF v
<1> HIDE DEF S
<1>9. n \in S BY <1>7, <1>8, Induction
<1>10. /\ t[b + 2] \in Seq(Plain) /\ Len(t[b + 2]) = n
       /\ \A j \in 1..n : t[b + 2][j] = ws[j]
  <2>1. n - n = 0 /\ Stand(b, n - n) = b + 2 /\ \A j \in 1..n : n - n + j = j BY DEF Stand
  <2> QED BY <1>9, <2>1 DEF S
<1>11. t[b + 2] = ws BY <1>1, <1>10, SeqEqual
<1> QED BY <1>3, <1>11

-----------------------------------------------------------------------------
(* A file as it is printed and cut.                                        *)
CutAt(text, p, entries, o) ==
  /\ FollowsFormat(entries) /\ LaidOut(p, entries, o)
  /\ text \in Seq(Tokens) /\ Len(text) <= Len(p) /\ \A x \in 1..Len(text) : text[x] = p[x]

LEMMA TextIs ==
  ASSUME NEW entries, FollowsFormat(entries), NEW n \in 0..Len(Printed(entries))
  PROVE  /\ CutAt(SubSeq(Printed(entries), 1, n), Printed(entries), entries, Ends(entries))
         /\ Len(SubSeq(Printed(entries), 1, n)) = n
<1> DEFINE p == Printed(entries)
           t == SubSeq(p, 1, n)
<1>1. LaidOut(p, entries, Ends(entries)) BY PrintedIs
<1> HIDE DEF p
<1>2. p \in Seq(Tokens) /\ Len(p) \in Nat BY <1>1, LenProperties DEF LaidOut
<1>3. n \in 0..Len(p) BY DEF p
<1>4. 1 \in Int /\ n \in Int /\ \A x \in 1..n : p[x] \in Tokens
  <2>1. ASSUME NEW x \in 1..n PROVE p[x] \in Tokens
    <3>1. x \in 1..Len(p) BY <1>2, <1>3
    <3> QED BY <1>2, <3>1, ElementOfSeq
  <2> QED BY <1>2, <1>3, <2>1
<1> HIDE DEF t
<1>5. /\ t \in Seq(Tokens) /\ Len(t) = (IF 1 <= n THEN n - 1 + 1 ELSE 0)
      /\ \A x \in 1..(n - 1 + 1) : t[x] = p[1 + x - 1]
  BY <1>4, SubSeqProperties DEF t
<1>6. Len(t) = n BY <1>2, <1>3, <1>5
<1>7. ASSUME NEW x \in 1..n PROVE t[x] = p[x]
  <2>1. x \in 1..(n - 1 + 1) /\ 1 + x - 1 = x BY <1>2, <1>3
  <2>2. t[x] = p[1 + x - 1] BY <1>5, <2>1
  <2> QED BY <2>1, <2>2
<1>8. CutAt(t, p, entries, Ends(entries)) BY <1>1, <1>2, <1>3, <1>5, <1>6, <1>7 DEF CutAt
<1> QED BY <1>6, <1>8 DEF t, p

(* A key is found where its entry is, if its quotes were not cut off. *)
LEMMA KeyFound ==
  ASSUME NEW text, NEW p, NEW entries, NEW o, CutAt(text, p, entries, o), NEW key \in Lists
  PROVE  /\ (\A i \in 1..Len(entries) : entries[i].key = key => ~(o[i - 1] + 4 <= Len(text))) =>
              find(text, Quoted(key), 1) = 0
         /\ \A i \in 1..Len(entries) : entries[i].key = key /\ o[i - 1] + 4 <= Len(text) =>
              find(text, Quoted(key), 1) = o[i - 1] + 2
<1> DEFINE n == Len(entries)
<1>1. /\ FollowsFormat(entries) /\ LaidOut(p, entries, o)
      /\ text \in Seq(Tokens) /\ Len(text) <= Len(p) /\ \A x \in 1..Len(text) : text[x] = p[x]
      /\ Len(text) \in Nat /\ Len(p) \in Nat
  BY LenProperties DEF CutAt, LaidOut
<1>2. n \in Nat /\ \A i \in 1..n : o[i - 1] \in Nat /\ ItemAt(p, o[i - 1], entries[i])
  <2>1. n \in Nat /\ o \in [0..n -> Nat] BY <1>1 DEF LaidOut, IsOffsets
  <2>2. \A i \in 1..n : i - 1 \in 0..n BY <2>1
  <2> QED BY <1>1, <2>1, <2>2 DEF LaidOut
<1>3. \A i, j \in 1..n : entries[i].key = entries[j].key => i = j
  <2>1. DOMAIN entries = 1..n BY <1>1, EntryIs
  <2> QED BY <1>1, <2>1 DEF FollowsFormat
<1>4. ASSUME NEW y, KeyAt(text, key, y)
      PROVE  \E i \in 1..n : entries[i].key = key /\ y = o[i - 1] + 2 /\ o[i - 1] + 4 <= Len(text)
  <2>1. y \in 1..(Len(text) - 2) /\ text[y + 1] = key BY <1>4 DEF KeyAt
  <2>2. y + 1 \in 1..Len(text) /\ y + 1 \in 1..Len(p) BY <1>1, <2>1
  <2>3. p[y + 1] = key BY <1>1, <2>1, <2>2
  <2>4. PICK i \in 1..n : y + 1 = o[i - 1] + 3 /\ entries[i].key = key BY <1>1, <2>2, <2>3, KeyPlace
  <2>5. y = o[i - 1] + 2 /\ o[i - 1] + 4 <= Len(text)
    <3> SUFFICES ASSUME NEW a \in Nat, a = o[i - 1], NEW t \in Nat, t = Len(text)
                 PROVE  y = a + 2 /\ a + 4 <= t
      BY <1>1, <1>2
    <3>1. y + 1 = a + 3 /\ y \in 1..(t - 2) BY <2>1, <2>4
    <3> QED BY ONLY <3>1, a \in Nat, t \in Nat
  <2> QED BY <2>4, <2>5
<1>5. ASSUME NEW i \in 1..n, entries[i].key = key, o[i - 1] + 4 <= Len(text)
      PROVE  KeyAt(text, key, o[i - 1] + 2)
  <2> SUFFICES ASSUME NEW a \in Nat, a = o[i - 1] PROVE KeyAt(text, key, a + 2) BY <1>2
  <2>1. p[a + 2] = Quote /\ p[a + 3] = key /\ p[a + 4] = Quote BY <1>2, <1>5 DEF ItemAt, Header
  <2>2. /\ a + 2 \in 1..(Len(text) - 2) /\ a + 2 + 1 = a + 3 /\ a + 2 + 2 = a + 4
        /\ a + 2 \in 1..Len(text) /\ a + 3 \in 1..Len(text) /\ a + 4 \in 1..Len(text)
    <3> SUFFICES ASSUME NEW t \in Nat, t = Len(text), a + 4 <= t
                 PROVE  /\ a + 2 \in 1..(t - 2) /\ a + 2 + 1 = a + 3 /\ a + 2 + 2 = a + 4
                        /\ a + 2 \in 1..t /\ a + 3 \in 1..t /\ a + 4 \in 1..t
      BY <1>1, <1>5
    <3> QED BY ONLY a \in Nat, t \in Nat, a + 4 <= t
  <2>3. text[a + 2] = p[a + 2] /\ text[a + 3] = p[a + 3] /\ text[a + 4] = p[a + 4] BY <1>1, <2>2
  <2> QED BY <2>1, <2>2, <2>3 DEF KeyAt
<1>6. ASSUME \A i \in 1..n : entries[i].key = key => ~(o[i - 1] + 4 <= Len(text))
      PROVE  find(text, Quoted(key), 1) = 0
  <2>1. \A y : ~KeyAt(text, key, y) BY <1>4, <1>6
  <2> QED BY <1>1, <2>1, FindKey
<1>7. ASSUME NEW i \in 1..n, entries[i].key = key, o[i - 1] + 4 <= Len(text)
      PROVE  find(text, Quoted(key), 1) = o[i - 1] + 2
  <2>1. KeyAt(text, key, o[i - 1] + 2) BY <1>5, <1>7
  <2>2. \A y : KeyAt(text, key, y) => o[i - 1] + 2 = y BY <1>3, <1>4, <1>7
  <2> QED BY <1>1, <2>1, <2>2, FindKey
<1> QED BY <1>6, <1>7

(* Behind b, the text is the value v, as far as it goes. *)
ReadsAt(text, b, v) ==
  /\ text \in Seq(Tokens) /\ b \in Nat /\ b >= 1 /\ Len(v) \in Nat /\ Len(v) >= 2
  /\ b <= Len(text) => text[b] = ":"
  /\ \A x \in 1..Len(v) : b + x <= Len(text) => text[b + x] = v[x]
  /\ v[1] = "[" /\ v[Len(v)] = "]" /\ \A x \in 1..Len(v) : x < Len(v) => v[x] # "]"

LEMMA BracketsFound ==
  ASSUME NEW text, NEW b, NEW v, ReadsAt(text, b, v)
  PROVE  /\ find(text, <<"[">>, b) = IF b + 1 <= Len(text) THEN b + 1 ELSE 0
         /\ find(text, <<"]">>, b + 1) = IF b + Len(v) <= Len(text) THEN b + Len(v) ELSE 0
<1>1. /\ text \in Seq(Tokens) /\ b \in Nat /\ b >= 1 /\ Len(v) \in Nat /\ Len(v) >= 2
      /\ b <= Len(text) => text[b] = ":"
      /\ \A x \in 1..Len(v) : b + x <= Len(text) => text[b + x] = v[x]
      /\ v[1] = "[" /\ v[Len(v)] = "]" /\ \A x \in 1..Len(v) : x < Len(v) => v[x] # "]"
      /\ Len(text) \in Nat
  BY LenProperties DEF ReadsAt
<1> SUFFICES ASSUME NEW m \in Nat, m = Len(v), NEW t \in Nat, t = Len(text)
             PROVE  /\ find(text, <<"[">>, b) = IF b + 1 <= t THEN b + 1 ELSE 0
                    /\ find(text, <<"]">>, b + 1) = IF b + m <= t THEN b + m ELSE 0
  BY <1>1
<1> DEFINE c == b + 1
           z == b + m
<1>2. c \in Nat /\ c >= 1 /\ z \in Nat /\ c = b + 1 /\ z = b + m /\ m >= 2 BY <1>1
<1> HIDE DEF c, z
<1>3. ASSUME NEW y \in c..t, y < z PROVE text[y] # "]"
  <2> DEFINE x == y - b
  <2>1. x \in 1..m /\ x < m /\ b + x = y /\ b + x <= t BY <1>1, <1>2, <1>3
  <2> HIDE DEF x
  <2>2. text[b + x] = v[x] /\ v[x] # "]" BY <1>1, <2>1
  <2> QED BY <2>1, <2>2
<1>4. ASSUME b <= t PROVE text[b] # "["
  <2>1. text[b] = ":" BY <1>1, <1>4
  <2> QED BY <2>1, DifferentMarks
<1>5. find(text, <<"[">>, b) = IF b + 1 <= t THEN b + 1 ELSE 0
  <2>1. CASE c <= t
    <3>1. c \in b..Len(text) BY <1>1, <1>2, <2>1
    <3>2. text[c] = "["
      <4>1. 1 \in 1..m /\ b + 1 <= t BY <1>2, <2>1
      <4> QED BY <1>1, <1>2, <4>1
    <3>3. ASSUME NEW j \in b..(c - 1) PROVE text[j] # "["
      <4>1. j = b /\ b <= t BY <1>1, <1>2, <2>1
      <4> QED BY <1>4, <4>1
    <3>4. find(text, <<"[">>, b) = c BY <1>1, <3>1, <3>2, <3>3, FindToken
    <3> QED BY <1>2, <2>1, <3>4
  <2>2. CASE ~(c <= t)
    <3>1. ASSUME NEW j \in b..Len(text) PROVE text[j] # "["
      <4>1. j = b /\ b <= t BY <1>1, <1>2, <2>2
      <4> QED BY <1>4, <4>1
    <3>2. find(text, <<"[">>, b) = 0 BY <1>1, <3>1, FindToken
    <3> QED BY <1>2, <2>2, <3>2
  <2> QED BY <2>1, <2>2
<1>6. find(text, <<"]">>, c) = IF z <= t THEN z ELSE 0
  <2>1. CASE z <= t
    <3>1. z \in c..Len(text) BY <1>1, <1>2, <2>1
    <3>2. text[z] = "]"
      <4>1. m \in 1..m /\ b + m <= t BY <1>2, <2>1
      <4> QED BY <1>1, <1>2, <4>1
    <3>3. ASSUME NEW j \in c..(z - 1) PROVE text[j] # "]"
      <4>1. j \in c..t /\ j < z BY <1>2, <2>1
      <4> QED BY <1>3, <4>1
    <3>4. text \in Seq(Tokens) /\ c \in Nat /\ c >= 1 BY <1>1, <1>2
    <3>5. find(text, <<"]">>, c) = z BY <3>1, <3>2, <3>3, <3>4, FindToken
    <3> QED BY <2>1, <3>5
  <2>2. CASE ~(z <= t)
    <3>1. ASSUME NEW j \in c..Len(text) PROVE text[j] # "]"
      <4>1. j \in c..t /\ j < z BY <1>2, <2>2
      <4> QED BY <1>3, <4>1
    <3>2. find(text, <<"]">>, c) = 0 BY <1>1, <1>2, <3>1, FindToken
    <3> QED BY <2>2, <3>2
  <2> QED BY <2>1, <2>2
<1> QED BY <1>2, <1>5, <1>6

(* A list is read whole if its end was not cut off, and not at all if it was. *)
LEMMA ListFound ==
  ASSUME NEW text, NEW p, NEW entries, NEW o, CutAt(text, p, entries, o),
         NEW i \in 1..Len(entries), entries[i].key \in Lists, o[i - 1] + 4 <= Len(text)
  PROVE  extractStringArray(text, entries[i].key) = IF o[i] <= Len(text) THEN entries[i].words ELSE <<>>
<1> DEFINE e == entries[i]
           ws == e.words
           v == Value(e)
<1>1. /\ FollowsFormat(entries) /\ LaidOut(p, entries, o)
      /\ text \in Seq(Tokens) /\ Len(text) <= Len(p) /\ \A x \in 1..Len(text) : text[x] = p[x]
      /\ Len(text) \in Nat /\ Len(p) \in Nat
  BY LenProperties DEF CutAt, LaidOut
<1>2. ws \in Seq(Plain) /\ v = List(ws) BY <1>1, EntryForm
<1>3. IsList(v, ws) BY <1>2, ListIs
<1>4. Len(v) \in Nat /\ Len(v) >= 2
  <2>1. Len(ws) \in Nat BY <1>2, LenProperties
  <2> HIDE DEF ws, v
  <2>2. Len(v) = IF Len(ws) = 0 THEN 2 ELSE 4 * Len(ws) + 1 BY <1>3 DEF IsList
  <2> QED BY <2>1, <2>2
<1>5. /\ o[i - 1] \in Nat /\ o[i] = o[i - 1] + (5 + Len(v)) /\ ItemAt(p, o[i - 1], e)
      /\ find(text, Quoted(e.key), 1) = o[i - 1] + 2
  <2>1. Len(entries) \in Nat /\ o \in [0..Len(entries) -> Nat] BY <1>1 DEF LaidOut, IsOffsets
  <2>2. i - 1 \in 0..Len(entries) BY <2>1
  <2>3. o[i] = o[i - 1] + Size(e) BY <1>1 DEF LaidOut, IsOffsets
  <2>4. find(text, Quoted(e.key), 1) = o[i - 1] + 2 BY KeyFound
  <2> QED BY <1>1, <2>1, <2>2, <2>3, <2>4 DEF Size, LaidOut
<1> SUFFICES ASSUME NEW b \in Nat, b = o[i - 1] + 5, b >= 5, o[i] = b + Len(v)
             PROVE  extractStringArray(text, e.key) = IF b + Len(v) <= Len(text) THEN ws ELSE <<>>
  <2> HIDE DEF v, ws, e
  <2>1. \A a, m \in Nat : a + 5 \in Nat /\ a + 5 >= 5 /\ a + (5 + m) = a + 5 + m OBVIOUS
  <2>2. o[i - 1] + 5 \in Nat /\ o[i - 1] + 5 >= 5 /\ o[i - 1] + (5 + Len(v)) = o[i - 1] + 5 + Len(v)
    BY <1>4, <1>5, <2>1
  <2> QED BY <1>5, <2>2 DEF e, ws
<1>6. p[b] = ":" /\ \A x \in 1..Len(v) : p[b + x] = v[x] BY <1>5 DEF ItemAt, Header
<1>7. find(text, Quoted(e.key), 1) # npos /\ find(text, Quoted(e.key), 1) + 3 = b
  <2> SUFFICES ASSUME NEW a \in Nat, b = a + 5, find(text, Quoted(e.key), 1) = a + 2
               PROVE  find(text, Quoted(e.key), 1) # 0 /\ find(text, Quoted(e.key), 1) + 3 = b
    BY <1>5 DEF npos
  <2>1. a + 2 # 0 /\ a + 2 + 3 = a + 5 OBVIOUS
  <2> QED BY <2>1
<1>8. v[1] = "[" /\ v[Len(v)] = "]" /\ \A x \in 1..Len(v) : x < Len(v) => v[x] # "]"
  BY <1>2, <1>3, TokenOfList DEF IsList
<1> DEFINE key == e.key
           start == Behind(text, key, "[")
           end == IF start = npos THEN npos ELSE find(text, <<"]">>, start)
<1>9. start = find(text, <<"[">>, b) BY <1>7 DEF Behind
<1>10. extractStringArray(text, key) = IF end = npos THEN <<>> ELSE WordsIn(text, start + 1, end)
  BY DEF extractStringArray
<1> HIDE DEF key, start, v, ws
<1>11. ReadsAt(text, b, v)
  <2>1. b <= Len(text) => text[b] = ":"
    <3>1. b <= Len(text) => b \in 1..Len(text) BY <1>1
    <3> QED BY <1>1, <1>6, <3>1
  <2>2. ASSUME NEW x \in 1..Len(v), b + x <= Len(text) PROVE text[b + x] = v[x]
    <3>1. b + x \in 1..Len(text)
      <4> SUFFICES ASSUME NEW t \in Nat, t = Len(text), NEW m \in Nat, m = Len(v), b + x <= t, x \in 1..m
                   PROVE  b + x \in 1..t
        BY <1>1, <1>4, <2>2
      <4> QED BY ONLY b \in Nat, t \in Nat, m \in Nat, x \in 1..m, b + x <= t
    <3> QED BY <1>1, <1>6, <3>1
  <2>3. b >= 1 OBVIOUS
  <2> QED BY <1>1, <1>4, <1>8, <2>1, <2>2, <2>3 DEF ReadsAt
<1>12. /\ start = IF b + 1 <= Len(text) THEN b + 1 ELSE 0
       /\ find(text, <<"]">>, b + 1) = IF b + Len(v) <= Len(text) THEN b + Len(v) ELSE 0
  BY <1>9, <1>11, BracketsFound
<1>13. b + 1 # 0 /\ b + Len(v) # 0 /\ b + 1 + 1 = b + 2 /\ (b + Len(v) <= Len(text) => b + 1 <= Len(text))
  BY <1>1, <1>4
<1>14. CASE b + Len(v) <= Len(text)
  <2>1. start = b + 1 /\ end = b + Len(v) BY <1>12, <1>13, <1>14 DEF npos
  <2>2. \A x \in 1..Len(v) : text[b + x] = v[x]
    <3>1. ASSUME NEW x \in 1..Len(v) PROVE b + x <= Len(text) BY <1>1, <1>4, <1>14
    <3> QED BY <1>11, <3>1 DEF ReadsAt
  <2>3. ListAt(text, b, v, ws) BY <1>1, <1>2, <1>3, <1>14, <2>2 DEF ListAt
  <2>4. WordsIn(text, b + 2, b + Len(v)) = ws BY <2>3, ListRead
  <2> HIDE DEF end
  <2>5. extractStringArray(text, key) = WordsIn(text, start + 1, end) BY <1>10, <1>13, <2>1 DEF npos
  <2>6. WordsIn(text, start + 1, end) = ws BY <1>13, <2>1, <2>4
  <2> QED BY <1>14, <2>5, <2>6 DEF key
<1>15. CASE ~(b + Len(v) <= Len(text))
  <2>1. end = npos BY <1>12, <1>13, <1>15 DEF npos
  <2> HIDE DEF end
  <2> QED BY <1>10, <1>15, <2>1 DEF key
<1> QED BY <1>14, <1>15

-----------------------------------------------------------------------------
(* A rules file, wherever it is cut, gives the lists that are whole.       *)
WordsOf(s) == {s[i] : i \in DOMAIN s}

LEMMA NothingFound ==
  ASSUME NEW text, NEW key, find(text, Quoted(key), 1) = 0
  PROVE  extractStringArray(text, key) = <<>>
<1>1. Behind(text, key, "[") = npos BY DEF Behind, npos
<1> QED BY <1>1 DEF extractStringArray

(* loadFromJSON() takes from a file that follows the format and was cut     *)
(* short anywhere the lists that are whole, word for word, and of a list   *)
(* that was cut, or whose key was, nothing.                                *)
THEOREM ScanOfList ==
  ASSUME NEW f, FollowsFormat(f.entries), f.length \in 0..Len(Printed(f.entries)), NEW key \in Lists
  PROVE  /\ extractStringArray(Text(f), key) \in Seq(Plain)
         /\ WordsOf(extractStringArray(Text(f), key)) = Listed(f, key)
<1> DEFINE entries == f.entries
           n == Len(entries)
           o == Ends(entries)
           text == Text(f)
           whole(i) == o[i] <= f.length
<1>1. CutAt(text, Printed(entries), entries, o) /\ Len(text) = f.length /\ f.length \in Nat
  BY TextIs DEF Text
<1>2. /\ n \in Nat /\ DOMAIN entries = 1..n
      /\ \A i, j \in 1..n : entries[i].key = entries[j].key => i = j
  <2>1. n \in Nat /\ DOMAIN entries = 1..n BY EntryIs
  <2> QED BY <2>1 DEF FollowsFormat
<1>3. \A i \in 1..n : Len(PrintedTo(entries, i)) = o[i] BY <1>2 DEF Ends
<1>4. Listed(f, key) = UNION {WordsOf(e.words) : e \in {e \in {entries[i] : i \in {i \in 1..n : whole(i)}} : e.key = key}}
  <2>1. Whole(f) = {entries[i] : i \in {i \in 1..n : whole(i)}} BY <1>2, <1>3 DEF Whole
  <2> HIDE DEF whole, n, entries
  <2> QED BY <2>1 DEF Listed, WordsOf
<1>5. \A i \in 1..n : o[i - 1] \in Nat /\ o[i] \in Nat /\ (o[i] <= f.length => o[i - 1] + 4 <= f.length)
  <2> SUFFICES ASSUME NEW i \in 1..n
               PROVE  o[i - 1] \in Nat /\ o[i] \in Nat /\ (o[i] <= f.length => o[i - 1] + 4 <= f.length)
    OBVIOUS
  <2>1. IsOffsets(o, entries) BY <1>1 DEF CutAt, LaidOut
  <2> HIDE DEF o, text
  <2>2. o \in [0..n -> Nat] /\ i - 1 \in 0..n /\ i \in 0..n BY <1>2, <2>1 DEF IsOffsets
  <2>3. o[i] = o[i - 1] + Size(entries[i]) BY <2>1 DEF IsOffsets
  <2>4. Len(Value(entries[i])) \in Nat /\ Size(entries[i]) = 5 + Len(Value(entries[i])) BY EntryHasSize DEF Size
  <2>5. o[i - 1] \in Nat /\ o[i] \in Nat BY <2>2
  <2>6. \A a, l, m \in Nat : a + (5 + m) <= l => a + 4 <= l OBVIOUS
  <2> QED BY <1>1, <2>3, <2>4, <2>5, <2>6
<1>6. \A i \in 1..n : entries[i].key = key => entries[i].words \in Seq(Plain) BY EntryForm
<1> HIDE DEF o, text, n, entries
<1>7. /\ (\A i \in 1..n : entries[i].key = key => ~(o[i - 1] + 4 <= f.length)) => find(text, Quoted(key), 1) = 0
      /\ \A i \in 1..n : entries[i].key = key /\ o[i - 1] + 4 <= f.length =>
           extractStringArray(text, key) = IF o[i] <= f.length THEN entries[i].words ELSE <<>>
  <2>1. (\A i \in 1..n : entries[i].key = key => ~(o[i - 1] + 4 <= f.length)) => find(text, Quoted(key), 1) = 0
    BY <1>1, KeyFound DEF n
  <2>2. ASSUME NEW i \in 1..n, entries[i].key = key, o[i - 1] + 4 <= f.length
        PROVE  extractStringArray(text, key) = IF o[i] <= f.length THEN entries[i].words ELSE <<>>
    BY <1>1, <2>2, ListFound DEF n
  <2> QED BY <2>1, <2>2
<1>8. CASE \E i \in 1..n : entries[i].key = key /\ whole(i)
  <2>1. PICK i \in 1..n : entries[i].key = key /\ whole(i) BY <1>8
  <2>2. extractStringArray(text, key) = entries[i].words BY <1>5, <1>7, <2>1
  <2> HIDE DEF whole
  <2>3. {e \in {entries[j] : j \in {j \in 1..n : whole(j)}} : e.key = key} = {entries[i]} BY <1>2, <2>1
  <2>4. Listed(f, key) = WordsOf(entries[i].words) BY <1>4, <2>3
  <2> QED BY <1>6, <2>1, <2>2, <2>4 DEF text
<1>9. CASE ~ \E i \in 1..n : entries[i].key = key /\ whole(i)
  <2>1. extractStringArray(text, key) = <<>>
    <3>1. CASE \E i \in 1..n : entries[i].key = key /\ o[i - 1] + 4 <= f.length BY <1>7, <1>9, <3>1
    <3>2. CASE ~ \E i \in 1..n : entries[i].key = key /\ o[i - 1] + 4 <= f.length
      <4>1. find(text, Quoted(key), 1) = 0 BY <1>7, <3>2
      <4> QED BY <4>1, NothingFound
    <3> QED BY <3>1, <3>2
  <2> HIDE DEF whole
  <2>2. {e \in {entries[j] : j \in {j \in 1..n : whole(j)}} : e.key = key} = {} BY <1>9
  <2>3. Listed(f, key) = {} BY <1>4, <2>2
  <2>4. WordsOf(<<>>) = {} /\ <<>> \in Seq(Plain) BY EmptySeq DEF WordsOf
  <2> QED BY <2>1, <2>3, <2>4 DEF text
<1> QED BY <1>8, <1>9

-----------------------------------------------------------------------------
(* The rules are the rules given. *)
GivenRules == [ips : SUBSET IPStrings, apps : SUBSET AppNames, domains : SUBSET Names, throttled : SUBSET AppNames]

RulesAreThoseGiven ==
  /\ given \in GivenRules
  /\ blocked_ips = ParsedIPs(given.ips) /\ blocked_apps = KnownApps(given.apps)
  /\ throttled_apps = KnownApps(given.throttled)
  /\ blocked_domains \in Seq(Names) /\ WordsOf(blocked_domains) = {Lower[d] : d \in given.domains}

LEMMA ParsedIsOfUnion == \A X, Y : /\ ParsedIPs(X \cup Y) = ParsedIPs(X) \cup ParsedIPs(Y)
                                   /\ KnownApps(X \cup Y) = KnownApps(X) \cup KnownApps(Y)
BY DEF ParsedIPs, KnownApps

LEMMA WordsOfRange ==
  ASSUME NEW S, NEW s \in Seq(S)
  PROVE  WordsOf(s) = Range(s) /\ DOMAIN s = 1..Len(s)
BY LenProperties DEF WordsOf, Range

LEMMA DomainsAdded ==
  ASSUME NEW ds \in Seq(Names), NEW more \in Seq(Names)
  PROVE  /\ ds \o Lowered(more) \in Seq(Names)
         /\ WordsOf(ds \o Lowered(more)) = WordsOf(ds) \cup {Lower[d] : d \in WordsOf(more)}
<1> DEFINE l == Lowered(more)
           n == Len(more)
<1>1. n \in Nat /\ DOMAIN more = 1..n /\ \A i \in 1..n : more[i] \in Names /\ Lower[more[i]] \in Names
  BY LenProperties, ElementOfSeq, RulesAssumption
<1>2. l = [i \in 1..n |-> Lower[more[i]]] BY <1>1 DEF Lowered
<1> HIDE DEF l
<1>3. l \in Seq(Names) /\ DOMAIN l = 1..n
  <2>1. \A i \in 1..n : Lower[more[i]] \in Names BY <1>1
  <2> HIDE DEF n
  <2> QED BY <1>1, <1>2, <2>1
<1>4. WordsOf(l) = {Lower[d] : d \in WordsOf(more)} BY <1>1, <1>2, <1>3 DEF WordsOf
<1>5. ds \o l \in Seq(Names) /\ Range(ds \o l) = Range(ds) \cup Range(l) BY <1>3, RangeConcatenation, ConcatProperties
<1>6. WordsOf(ds \o l) = WordsOf(ds) \cup WordsOf(l) BY <1>3, <1>5, WordsOfRange
<1> QED BY <1>4, <1>5, <1>6 DEF l

LEMMA ScanOfFile ==
  ASSUME NEW f \in Files
  PROVE  /\ Scanned[f].ips = Listed(f, "blocked_ips") /\ Scanned[f].apps = Listed(f, "blocked_apps")
         /\ Scanned[f].throttled = Listed(f, "throttled_apps")
         /\ Scanned[f].domains \in Seq(Names) /\ WordsOf(Scanned[f].domains) = Listed(f, "blocked_domains")
         /\ given \in GivenRules => FileGiven(f) \in GivenRules
<1> DEFINE array(key) == extractStringArray(Text(f), key)
           set(key) == {array(key)[i] : i \in DOMAIN array(key)}
<1>1. /\ FollowsFormat(f.entries) /\ f.length \in 0..Len(Printed(f.entries))
      /\ Listed(f, "blocked_ips") \subseteq IPStrings
      /\ Listed(f, "blocked_apps") \subseteq AppNames /\ Listed(f, "throttled_apps") \subseteq AppNames
      /\ Listed(f, "blocked_domains") \subseteq Names
  BY RuleManagerAssumption
<1>2. Scanned[f] = [ips |-> set("blocked_ips"), apps |-> set("blocked_apps"), throttled |-> set("throttled_apps"),
                    domains |-> array("blocked_domains"), delay |-> extractInt(Text(f), "throttle_delay_ms")]
  BY DEF Scanned
<1> HIDE DEF array
<1>3. \A key \in Lists : array(key) \in Seq(Plain) /\ set(key) = Listed(f, key)
  BY <1>1, ScanOfList DEF array, WordsOf
<1>4. "blocked_ips" \in Lists /\ "blocked_apps" \in Lists /\ "blocked_domains" \in Lists /\ "throttled_apps" \in Lists
  BY DEF Lists
<1>5. array("blocked_domains") \in Seq(Names)
  <2> DEFINE a == array("blocked_domains")
  <2>1. a \in Seq(Plain) /\ {a[i] : i \in DOMAIN a} \subseteq Names BY <1>1, <1>3, <1>4
  <2> HIDE DEF a
  <2>2. Len(a) \in Nat /\ DOMAIN a = 1..Len(a) /\ a = [i \in 1..Len(a) |-> a[i]] BY <2>1, LenProperties, SeqDef
  <2>3. \A i \in 1..Len(a) : a[i] \in Names BY <2>1, <2>2
  <2>4. a \in Seq(Names) BY <2>2, <2>3
  <2> QED BY <2>4 DEF a
<1>6. given \in GivenRules => FileGiven(f) \in GivenRules BY <1>1 DEF FileGiven, GivenRules
<1> QED BY <1>2, <1>3, <1>4, <1>5, <1>6 DEF WordsOf

(* What the rule manager keeps is what the commands and files gave, lists  *)
(* of addresses and names being parsed and domains put in lower case.      *)
THEOREM RulesFollow == Spec => []RulesAreThoseGiven
<1>1. Init => RulesAreThoseGiven
  <2> SUFFICES ASSUME Init PROVE RulesAreThoseGiven OBVIOUS
  <2>1. given = NoRules /\ blocked_domains = <<>> BY DEF Init
  <2>2. NoRules \in GivenRules /\ NoRules.ips = {} /\ NoRules.apps = {} /\ NoRules.domains = {} /\ NoRules.throttled = {}
    BY DEF NoRules, GivenRules
  <2>3. ParsedIPs({}) = {} /\ KnownApps({}) = {} BY DEF ParsedIPs, KnownApps
  <2>4. <<>> \in Seq(Names) /\ WordsOf(<<>>) = {} BY EmptySeq DEF WordsOf
  <2>5. {Lower[d] : d \in {}} = {} OBVIOUS
  <2> QED BY <2>1, <2>2, <2>3, <2>4, <2>5 DEF Init, RulesAreThoseGiven
<1>2. RulesAreThoseGiven /\ [Next]_vars => RulesAreThoseGiven'
  <2> SUFFICES ASSUME RulesAreThoseGiven, [Next]_vars PROVE RulesAreThoseGiven' OBVIOUS
  <2>0. /\ given \in GivenRules
        /\ blocked_ips = ParsedIPs(given.ips) /\ blocked_apps = KnownApps(given.apps)
        /\ throttled_apps = KnownApps(given.throttled)
        /\ blocked_domains \in Seq(Names) /\ WordsOf(blocked_domains) = {Lower[d] : d \in given.domains}
    BY DEF RulesAreThoseGiven
  <2>1. ASSUME NEW s \in IPStrings, addBlockedIP(s) PROVE RulesAreThoseGiven'
    <3>1. /\ given' = [given EXCEPT !.ips = given.ips \cup {s}] /\ blocked_ips' = blocked_ips \cup ParsedIPs({s})
          /\ UNCHANGED <<blocked_apps, blocked_domains, throttled_apps>>
      BY <2>1 DEF addBlockedIP
    <3>2. /\ given' \in GivenRules /\ given'.ips = given.ips \cup {s} /\ given'.apps = given.apps
          /\ given'.domains = given.domains /\ given'.throttled = given.throttled
      BY <2>0, <3>1 DEF GivenRules
    <3>3. ParsedIPs(given.ips \cup {s}) = ParsedIPs(given.ips) \cup ParsedIPs({s}) BY ParsedIsOfUnion
    <3> QED BY <2>0, <3>1, <3>2, <3>3 DEF RulesAreThoseGiven
  <2>2. ASSUME NEW m \in AppNames, addBlockedApp(m) PROVE RulesAreThoseGiven'
    <3>1. /\ given' = [given EXCEPT !.apps = given.apps \cup {m}] /\ blocked_apps' = blocked_apps \cup KnownApps({m})
          /\ UNCHANGED <<blocked_ips, blocked_domains, throttled_apps>>
      BY <2>2 DEF addBlockedApp
    <3>2. /\ given' \in GivenRules /\ given'.apps = given.apps \cup {m} /\ given'.ips = given.ips
          /\ given'.domains = given.domains /\ given'.throttled = given.throttled
      BY <2>0, <3>1 DEF GivenRules
    <3>3. KnownApps(given.apps \cup {m}) = KnownApps(given.apps) \cup KnownApps({m}) BY ParsedIsOfUnion
    <3> QED BY <2>0, <3>1, <3>2, <3>3 DEF RulesAreThoseGiven
  <2>3. ASSUME NEW m \in AppNames, addThrottledApp(m) PROVE RulesAreThoseGiven'
    <3>1. /\ given' = [given EXCEPT !.throttled = given.throttled \cup {m}]
          /\ throttled_apps' = throttled_apps \cup KnownApps({m})
          /\ UNCHANGED <<blocked_ips, blocked_domains, blocked_apps>>
      BY <2>3 DEF addThrottledApp
    <3>2. /\ given' \in GivenRules /\ given'.throttled = given.throttled \cup {m} /\ given'.ips = given.ips
          /\ given'.domains = given.domains /\ given'.apps = given.apps
      BY <2>0, <3>1 DEF GivenRules
    <3>3. KnownApps(given.throttled \cup {m}) = KnownApps(given.throttled) \cup KnownApps({m}) BY ParsedIsOfUnion
    <3> QED BY <2>0, <3>1, <3>2, <3>3 DEF RulesAreThoseGiven
  <2>4. ASSUME NEW d \in DomainStrings, addBlockedDomain(d) PROVE RulesAreThoseGiven'
    <3>0. d \in Names BY RuleManagerAssumption
    <3>1. /\ given' = [given EXCEPT !.domains = given.domains \cup {d}]
          /\ blocked_domains' = blocked_domains \o Lowered(<<d>>)
          /\ UNCHANGED <<blocked_ips, throttled_apps, blocked_apps>>
      BY <2>4 DEF addBlockedDomain
    <3>2. /\ given' \in GivenRules /\ given'.domains = given.domains \cup {d} /\ given'.ips = given.ips
          /\ given'.throttled = given.throttled /\ given'.apps = given.apps
      BY <2>0, <3>0, <3>1 DEF GivenRules
    <3>3. <<d>> \in Seq(Names) /\ WordsOf(<<d>>) = {d} BY <3>0 DEF WordsOf
    <3>4. blocked_domains' \in Seq(Names) /\ WordsOf(blocked_domains') = WordsOf(blocked_domains) \cup {Lower[e] : e \in {d}}
      BY <2>0, <3>1, <3>3, DomainsAdded
    <3>5. WordsOf(blocked_domains') = {Lower[e] : e \in given'.domains} BY <2>0, <3>2, <3>4
    <3> QED BY <2>0, <3>1, <3>2, <3>4, <3>5 DEF RulesAreThoseGiven
  <2>5. ASSUME NEW ms \in Delays, setThrottleDelay(ms) PROVE RulesAreThoseGiven'
    BY <2>0, <2>5 DEF setThrottleDelay, RulesAreThoseGiven
  <2>6. ASSUME NEW f \in Files, loadFromJSON(f) PROVE RulesAreThoseGiven'
    <3> DEFINE content == Scanned[f]
    <3>1. /\ blocked_ips' = blocked_ips \cup ParsedIPs(content.ips) /\ blocked_apps' = blocked_apps \cup KnownApps(content.apps)
          /\ blocked_domains' = blocked_domains \o Lowered(content.domains)
          /\ throttled_apps' = throttled_apps \cup KnownApps(content.throttled) /\ given' = FileGiven(f)
      BY <2>6 DEF loadFromJSON
    <3>2. /\ content.ips = Listed(f, "blocked_ips") /\ content.apps = Listed(f, "blocked_apps")
          /\ content.throttled = Listed(f, "throttled_apps")
          /\ content.domains \in Seq(Names) /\ WordsOf(content.domains) = Listed(f, "blocked_domains")
          /\ FileGiven(f) \in GivenRules
      BY <2>0, ScanOfFile
    <3> HIDE DEF content
    <3>3. /\ given'.ips = given.ips \cup content.ips /\ given'.apps = given.apps \cup content.apps
          /\ given'.domains = given.domains \cup WordsOf(content.domains)
          /\ given'.throttled = given.throttled \cup content.throttled
      BY <3>1, <3>2 DEF FileGiven
    <3>4. /\ blocked_ips' = ParsedIPs(given'.ips) /\ blocked_apps' = KnownApps(given'.apps)
          /\ throttled_apps' = KnownApps(given'.throttled)
      <4>1. ParsedIPs(given.ips \cup content.ips) = ParsedIPs(given.ips) \cup ParsedIPs(content.ips)
        BY ParsedIsOfUnion
      <4>2. KnownApps(given.apps \cup content.apps) = KnownApps(given.apps) \cup KnownApps(content.apps)
        BY ParsedIsOfUnion
      <4>3. KnownApps(given.throttled \cup content.throttled)
              = KnownApps(given.throttled) \cup KnownApps(content.throttled)
        BY ParsedIsOfUnion
      <4> QED BY <2>0, <3>1, <3>3, <4>1, <4>2, <4>3
    <3>5. /\ blocked_domains' \in Seq(Names)
          /\ WordsOf(blocked_domains') = WordsOf(blocked_domains) \cup {Lower[e] : e \in WordsOf(content.domains)}
      BY <2>0, <3>1, <3>2, DomainsAdded
    <3>6. WordsOf(blocked_domains') = {Lower[e] : e \in given'.domains} BY <2>0, <3>3, <3>5
    <3> QED BY <3>1, <3>2, <3>4, <3>5, <3>6 DEF RulesAreThoseGiven
  <2>7. CASE UNCHANGED vars BY <2>0, <2>7 DEF RulesAreThoseGiven, vars
  <2> QED BY <2>1, <2>2, <2>3, <2>4, <2>5, <2>6, <2>7 DEF Next, Loaded
<1> QED BY <1>1, <1>2, PTL DEF Spec

-----------------------------------------------------------------------------
(* What a domain rule covers. *)
LEMMA ParentsMatch ==
  ASSUME NEW C, NEW s \in Seq(C), NEW d \in Seq(C)
  PROVE  domainMatches(s, d) <=> d \in Parents(s)
<1>1. Len(s) \in Nat /\ Len(d) \in Nat BY LenProperties
<1>2. ASSUME NEW i \in 1..Len(s) PROVE Len(SubSeq(s, i + 1, Len(s))) = Len(s) - i
  <2>1. \A j \in (i + 1)..Len(s) : s[j] \in C
    <3>1. \A j \in (i + 1)..Len(s) : j \in 1..Len(s) BY <1>1
    <3> QED BY <3>1, ElementOfSeq
  <2>2. i + 1 \in Int /\ Len(s) \in Int BY <1>1
  <2>3. Len(SubSeq(s, i + 1, Len(s))) = IF i + 1 <= Len(s) THEN Len(s) - (i + 1) + 1 ELSE 0
    BY <2>1, <2>2, SubSeqProperties
  <2> QED BY <1>1, <2>3
<1>3. ASSUME domainMatches(s, d) PROVE d \in Parents(s)
  <2> DEFINE pos == Len(s) - Len(d)
  <2>1. CASE s = d BY <2>1 DEF Parents
  <2>2. CASE Len(s) > Len(d) /\ SubSeq(s, pos, pos) = "." /\ SubSeq(s, pos + 1, Len(s)) = d
    <3>1. pos \in 1..Len(s) BY <1>1, <2>2
    <3> HIDE DEF pos
    <3> QED BY <2>2, <3>1 DEF Parents
  <2> QED BY <1>3, <2>1, <2>2 DEF domainMatches
<1>4. ASSUME d \in Parents(s) PROVE domainMatches(s, d)
  <2>1. CASE d = s BY <2>1 DEF domainMatches
  <2>2. CASE \E i \in 1..Len(s) : SubSeq(s, i, i) = "." /\ d = SubSeq(s, i + 1, Len(s))
    <3>1. PICK i \in 1..Len(s) : SubSeq(s, i, i) = "." /\ d = SubSeq(s, i + 1, Len(s)) BY <2>2
    <3>2. Len(d) = Len(s) - i BY <1>2, <3>1
    <3>3. Len(s) - Len(d) = i /\ Len(s) > Len(d) BY <1>1, <3>2
    <3> QED BY <3>1, <3>3 DEF domainMatches
  <2> QED BY <1>4, <2>1, <2>2 DEF Parents
<1> QED BY <1>3, <1>4

(* A packet is blocked iff one of the rules the user gave, on the command  *)
(* line or in a file, covers its address, its app or its name; an app is   *)
(* throttled iff he named it.  Names are sequences of characters.          *)
THEOREM DecisionIsOfTheRulesGiven ==
  ASSUME NEW Char, Names \subseteq Seq(Char)
  PROVE  Spec => []DecisionFollowsTheRulesGiven
<1>1. RulesAreThoseGiven => DecisionFollowsTheRulesGiven
  <2> SUFFICES ASSUME RulesAreThoseGiven PROVE DecisionFollowsTheRulesGiven OBVIOUS
  <2>0. /\ given \in GivenRules
        /\ blocked_ips = ParsedIPs(given.ips) /\ blocked_apps = KnownApps(given.apps)
        /\ throttled_apps = KnownApps(given.throttled)
        /\ blocked_domains \in Seq(Names) /\ WordsOf(blocked_domains) = {Lower[d] : d \in given.domains}
    BY DEF RulesAreThoseGiven
  <2>r. /\ rules.ips = blocked_ips /\ rules.apps = blocked_apps /\ rules.domains = blocked_domains
        /\ rules.throttled = throttled_apps
    BY DEF rules
  <2>1. ASSUME NEW app \in AppTypes
        PROVE  isThrottled(rules, app) <=> app # UNKNOWN /\ \E n \in given.throttled : AppOf[n] = app
    BY <2>0, <2>r DEF isThrottled, KnownApps
  <2>2. ASSUME NEW app \in AppTypes, NEW ip \in IPs, NEW sni \in Hostnames
        PROVE  isBlocked(rules, ip, app, sni) <=>
                 \/ \E s \in given.ips : ParseIP[s] = ip
                 \/ app # UNKNOWN /\ \E n \in given.apps : AppOf[n] = app
                 \/ sni # "" /\ \E d \in given.domains : Lower[d] \in Parents(Lower[sni])
    <3>1. ip \in rules.ips <=> \E s \in given.ips : ParseIP[s] = ip
      <4>1. ip # NoIP BY RuleManagerAssumption
      <4> QED BY <2>0, <2>r, <4>1 DEF ParsedIPs
    <3>2. app # UNKNOWN /\ app \in rules.apps <=> app # UNKNOWN /\ \E n \in given.apps : AppOf[n] = app
      BY <2>0, <2>r DEF KnownApps
    <3>3. (\E i \in DOMAIN rules.domains : domainMatches(Lower[sni], rules.domains[i]))
            <=> \E d \in given.domains : Lower[d] \in Parents(Lower[sni])
      <4>1. Lower[sni] \in Names BY RulesAssumption, RuleManagerAssumption
      <4>2. given.domains \subseteq Names BY <2>0 DEF GivenRules
      <4>3. \A d \in WordsOf(blocked_domains) : d \in Names
        BY <2>0, <4>2, RulesAssumption
      <4>4. \A d \in WordsOf(blocked_domains) : domainMatches(Lower[sni], d) <=> d \in Parents(Lower[sni])
        BY <4>1, <4>3, ParentsMatch
      <4>5. (\E i \in DOMAIN rules.domains : domainMatches(Lower[sni], rules.domains[i]))
              <=> \E d \in WordsOf(blocked_domains) : domainMatches(Lower[sni], d)
        BY <2>r DEF WordsOf
      <4> QED BY <2>0, <4>4, <4>5
    <3> DEFINE A == ip \in rules.ips
               B == app # UNKNOWN /\ app \in rules.apps
               N == sni # ""
               D == \E i \in DOMAIN rules.domains : domainMatches(Lower[sni], rules.domains[i])
    <3>4. isBlocked(rules, ip, app, sni) <=> A \/ B \/ (N /\ D) BY DEF isBlocked
    <3> HIDE DEF A, B, D, N
    <3>5. /\ A <=> \E s \in given.ips : ParseIP[s] = ip
          /\ B <=> app # UNKNOWN /\ \E n \in given.apps : AppOf[n] = app
          /\ D <=> \E d \in given.domains : Lower[d] \in Parents(Lower[sni])
      BY <3>1, <3>2, <3>3 DEF A, B, D
    <3>6. isBlocked(rules, ip, app, sni) <=>
            \/ \E s \in given.ips : ParseIP[s] = ip
            \/ app # UNKNOWN /\ \E n \in given.apps : AppOf[n] = app
            \/ N /\ \E d \in given.domains : Lower[d] \in Parents(Lower[sni])
      BY <3>4, <3>5, Zenon
    <3> QED BY <3>6, Zenon DEF N
  <2> QED BY <2>1, <2>2, Zenon DEF DecisionFollowsTheRulesGiven
<1> QED BY <1>1, RulesFollow, PTL

-----------------------------------------------------------------------------
(* A host that is recognised as an app's: a part of the app's row is in its *)
(* name, and no part of a row that is tested earlier; or it holds a part of *)
(* no row, and the app is HTTPS.                                            *)
RecognisedAs(host, app) ==
  LET name == Lower[host] IN
  \/ Hits(name) = {} /\ app = "HTTPS"
  \/ \E row \in Hits(name) : Signatures[row].app = app /\ \A i \in Hits(name) : row <= i

LEMMA RowsAreNumbered == DOMAIN Signatures = 1..12
BY DEF Signatures

LEMMA SameRow ==
  ASSUME NEW a \in 1..12, NEW b \in 1..12, a <= b, b <= a
  PROVE  a = b
OBVIOUS

LEMMA AppOfHost ==
  ASSUME NEW host \in Names \ {""}, NEW app, RecognisedAs(host, app)
  PROVE  AppOfName[host] = app
<1> DEFINE name == Lower[host]
           hits == Hits(name)
           f == CHOOSE i \in hits : \A j \in hits : i <= j
<1>1. CASE hits = {} /\ app = "HTTPS"
  <2>1. sniToAppType(host) = app BY <1>1, Zenon DEF sniToAppType
  <2> QED BY <2>1 DEF AppOfName
<1>2. CASE \E row \in hits : Signatures[row].app = app /\ \A i \in hits : row <= i
  <2>1. PICK row \in hits : Signatures[row].app = app /\ \A i \in hits : row <= i
    BY <1>2
  <2>2. \A i \in hits : i \in 1..12 BY RowsAreNumbered DEF Hits
  <2>3. sniToAppType(host) = Signatures[FirstHit(hits)].app
    <3>1. hits # {} BY <2>1
    <3> QED BY <3>1, Zenon DEF sniToAppType
  <2>4. FirstHit(hits) = f BY DEF FirstHit
  <2> HIDE DEF hits
  <2>5. f \in hits /\ \A j \in hits : f <= j BY <2>1
  <2> HIDE DEF f
  <2>6. f \in 1..12 /\ row \in 1..12 /\ f <= row /\ row <= f BY <2>1, <2>2, <2>5
  <2>7. f = row BY <2>6, SameRow
  <2>8. sniToAppType(host) = app BY <2>1, <2>3, <2>4, <2>7
  <2> QED BY <2>8 DEF AppOfName
<1> QED BY <1>1, <1>2, Zenon DEF RecognisedAs

(* With only application rules given, a site is blocked iff the user named *)
(* the app its name is recognised as: its own, but for the sites that are  *)
(* known to be taken for another's.  Those are shown to be, too.           *)
THEOREM AppRuleIsOfItsSites ==
  ASSUME \A site \in Sites : RecognisedAs(site.host, AppTreatedAs(site))
  PROVE  Spec => []AppRuleBlocksItsSites
<1>1. RulesAreThoseGiven => AppRuleBlocksItsSites
  <2> SUFFICES ASSUME RulesAreThoseGiven, given.ips = {}, given.domains = {}, NEW s \in Sites, NEW ip \in IPs
               PROVE  isBlocked(rules, ip, AppOfName[s.host], s.host)
                        <=> \E n \in given.apps : AppOf[n] = AppTreatedAs(s)
    BY DEF AppRuleBlocksItsSites
  <2>1. PICK app : app = AppTreatedAs(s) OBVIOUS
  <2>2. /\ blocked_ips = ParsedIPs({}) /\ blocked_apps = KnownApps(given.apps)
        /\ WordsOf(blocked_domains) = {}
    <3>1. {Lower[d] : d \in {}} = {} OBVIOUS
    <3> QED BY <3>1 DEF RulesAreThoseGiven
  <2>3. rules.ips = {} /\ rules.apps = blocked_apps /\ DOMAIN rules.domains = {}
    BY <2>2 DEF rules, ParsedIPs, WordsOf
  <2>4. s.host \in Names \ {""} /\ app # UNKNOWN
    BY <2>1, RuleManagerAssumption DEF AppTreatedAs
  <2>5. AppOfName[s.host] = app BY <2>1, <2>4, AppOfHost
  <2> DEFINE N == s.host # ""
  <2>6. isBlocked(rules, ip, app, s.host)
          <=> \/ ip \in rules.ips
              \/ app # UNKNOWN /\ app \in rules.apps
              \/ N /\ \E i \in DOMAIN rules.domains : domainMatches(Lower[s.host], rules.domains[i])
    BY Zenon DEF isBlocked
  <2> HIDE DEF N
  <2>7. isBlocked(rules, ip, app, s.host) <=> app \in blocked_apps
    BY <2>3, <2>4, <2>6
  <2>8. app \in blocked_apps <=> \E n \in given.apps : AppOf[n] = app
    BY <2>2, <2>4 DEF KnownApps
  <2> QED BY <2>1, <2>5, <2>7, <2>8
<1> QED BY <1>1, RulesFollow, PTL
==============================================================================
