-------------------- MODULE Elf32DependencyLoaderProofs --------------------
(***************************************************************************)
(* The dependency loader keeps a link map sound and its calls are atomic,  *)
(* for every set of images, provider and limits.                           *)
(***************************************************************************)
EXTENDS Elf32DependencyProcessProofs, ArithmeticLemmas, FiniteSetTheorems

(***************************************************************************)
(* Sequences in increasing order, and record_global's insertion.           *)
(***************************************************************************)
\* Neighbours in order are enough.
LEMMA IncreasingPairs ==
    ASSUME NEW g \in Seq(Nat), Increasing(g), NEW j \in DOMAIN g, NEW k \in DOMAIN g, j < k
    PROVE  g[j] < g[k]
  <1> DEFINE n == Len(g)
             S == {d \in Nat : \A i \in 1 .. n : i + d + 1 \in 1 .. n => g[i] < g[i + d + 1]}
  <1>1. n \in Nat /\ DOMAIN g = 1 .. n /\ \A i \in 1 .. n : g[i] \in Nat
    BY SeqFacts, Zenon
  <1>2. \A i \in 1 .. n : i # 1 => g[i - 1] < g[i]
    BY <1>1, Zenon DEF Increasing
  <1> HIDE DEF n
  <1>3. 0 \in S
    <2> SUFFICES ASSUME NEW i \in 1 .. n, i + 0 + 1 \in 1 .. n
                 PROVE  g[i] < g[i + 0 + 1]
      OBVIOUS
    <2>1. i + 1 \in 1 .. n /\ i + 1 # 1 /\ (i + 1) - 1 = i /\ i + 0 + 1 = i + 1
      BY <1>1, SMTT(40)
    <2>2. g[(i + 1) - 1] < g[i + 1]
      BY <1>2, <2>1, Zenon
    <2> QED
      BY <2>1, <2>2, Zenon
  <1>4. ASSUME NEW d \in Nat, d \in S
        PROVE  d + 1 \in S
    <2> SUFFICES ASSUME NEW i \in 1 .. n, i + (d + 1) + 1 \in 1 .. n
                 PROVE  g[i] < g[i + (d + 1) + 1]
      OBVIOUS
    <2> DEFINE l == i + (d + 1) + 1
               h == i + d + 1
    <2>1. l \in 1 .. n /\ l # 1 /\ l - 1 = h /\ h \in 1 .. n
      BY <1>1, SMTT(40)
    <2>2. g[i] < g[h]
      BY <1>4, <2>1, Zenon
    <2> HIDE DEF l, h
    <2>3. g[h] < g[l]
      <3>1. g[l - 1] < g[l]
        BY <1>2, <2>1, Zenon
      <3> QED
        BY <2>1, <3>1, SMTT(40)
    <2>4. g[i] \in Nat /\ g[h] \in Nat /\ g[l] \in Nat
      BY <1>1, <2>1, SMTT(40)
    <2>5. g[i] < g[l]
      BY <2>2, <2>3, <2>4, SMTT(40)
    <2> QED
      BY <2>5, Zenon DEF l
  <1>5. Nat \subseteq S
    <2> HIDE DEF S
    <2> QED
      BY <1>3, <1>4, InductionOnSets, Zenon
  <1> DEFINE d == k - j - 1
  <1>6. d \in Nat /\ j \in 1 .. n /\ k \in 1 .. n /\ j + d + 1 = k
    BY <1>1, SMTT(40)
  <1>7. d \in S
    BY <1>5, <1>6, Zenon
  <1> HIDE DEF d
  <1> QED
    BY <1>6, <1>7, Zenon

\* The positions below a value are the first ones, as many as lower_bound skips.
LEMMA LowerBound ==
    ASSUME NEW g \in Seq(Nat), Increasing(g), NEW x \in Nat
    PROVE  LET below == Cardinality({k \in DOMAIN g : g[k] < x}) IN
           /\ below \in 0 .. Len(g)
           /\ \A k \in DOMAIN g : g[k] < x <=> k <= below
  <1> DEFINE n == Len(g)
             S == {k \in DOMAIN g : g[k] < x}
             C == {k \in 1 .. n + 1 : k \notin S}
  <1>1. n \in Nat /\ DOMAIN g = 1 .. n /\ \A i \in 1 .. n : g[i] \in Nat
    BY SeqFacts, Zenon
  <1> HIDE DEF n
  <1>2. n + 1 \in C /\ C \in SUBSET Nat
    BY <1>1, SMTT(40)
  <1>3. PICK m \in C : \A k \in C : m <= k
    <2> HIDE DEF C
    <2> QED
      BY <1>2, LeastNatural, Zenon
  <1>4. m \in 1 .. n + 1 /\ m \notin S
    OBVIOUS
  <1>5. ASSUME NEW k \in 1 .. n
        PROVE  k \in S <=> k <= m - 1
    <2>1. CASE k < m
      <3>1. k \notin C
        <4> HIDE DEF C
        <4> QED
          BY <1>1, <1>3, <1>4, <2>1, SMTT(40)
      <3> QED
        BY <1>1, <1>4, <2>1, <3>1, SMTT(40)
    <2>2. CASE k = m
      BY <1>1, <1>4, <2>2, SMTT(40)
    <2>3. CASE m < k
      <3>1. m \in DOMAIN g /\ k \in DOMAIN g
        BY <1>1, <1>4, <2>3, SMTT(40)
      <3>2. g[m] < g[k]
        BY <2>3, <3>1, IncreasingPairs, SMTT(40)
      <3>3. ~(g[m] < x)
        BY <1>4, <3>1, Zenon
      <3>4. ~(g[k] < x)
        BY <1>1, <3>1, <3>2, <3>3, SMTT(40)
      <3> QED
        BY <1>1, <1>4, <2>3, <3>4, SMTT(40)
    <2> QED
      BY <1>1, <1>4, <2>1, <2>2, <2>3, SMTT(40)
  <1>6. S = 1 .. m - 1
    BY <1>1, <1>4, <1>5, SMTT(40)
  <1>7. Cardinality(S) = m - 1
    <2>1. Cardinality(1 .. m - 1) = IF 1 > m - 1 THEN 0 ELSE (m - 1) - 1 + 1
      BY <1>4, FS_Interval, SMTT(40)
    <2>2. Cardinality(S) = Cardinality(1 .. m - 1)
      BY <1>6, Zenon
    <2> HIDE DEF S, C
    <2>3. m \in Nat /\ m >= 1
      BY <1>1, <1>4, SMTT(40)
    <2> QED
      BY <2>1, <2>2, <2>3, SMTT(40)
  <1>8. Cardinality(S) \in 0 .. n
    BY <1>1, <1>4, <1>7, SMTT(40)
  <1>9. \A k \in DOMAIN g : g[k] < x <=> k <= Cardinality(S)
    BY <1>1, <1>5, <1>7, Zenon
  <1> QED
    BY <1>8, <1>9, Zenon DEF n

\* record_global keeps the order and adds the object, unless it is there.
LEMMA RecordGlobalEffect == RecordsInOrder
  <1> SUFFICES ASSUME global_scope \in Seq(Nat), Increasing(global_scope), NEW object \in Nat
      PROVE  /\ record_global(object) \in Seq(Nat)
             /\ Increasing(record_global(object))
             /\ InScope(record_global(object), object)
             /\ \A i : InScope(global_scope, i) => InScope(record_global(object), i)
             /\ \A k \in DOMAIN record_global(object) :
                   \/ record_global(object)[k] = object
                   \/ InScope(global_scope, record_global(object)[k])
    BY Zenon DEF RecordsInOrder
  <1>1. CASE \E k \in DOMAIN global_scope : global_scope[k] = object
    <2>1. record_global(object) = global_scope
      BY <1>1, Zenon DEF record_global
    <2> QED
      BY <1>1, <2>1, SMTT(40) DEF InScope
  <1>2. CASE \A k \in DOMAIN global_scope : global_scope[k] # object
    <2> DEFINE g == global_scope
               n == Len(g)
               b == Cardinality({k \in DOMAIN g : g[k] < object})
               s1 == SubSeq(g, 1, b)
               s2 == <<object>>
               s3 == SubSeq(g, b + 1, n)
               h == s1 \o s2 \o s3
    <2>1. record_global(object) = h
      BY <1>2, Zenon DEF record_global
    <2>2. /\ b \in 0 .. n /\ \A k \in DOMAIN g : g[k] < object <=> k <= b
      BY LowerBound, Zenon
    <2>3. n \in Nat /\ DOMAIN g = 1 .. n /\ \A i \in 1 .. n : g[i] \in Nat
      BY SeqFacts, Zenon
    <2> HIDE DEF b, n, g
    <2>4. s1 \in Seq(Nat) /\ Len(s1) = b /\ \A i \in 1 .. b : s1[i] = g[i]
      <3>1. b \in Int /\ \A i \in 1 .. b : g[i] \in Nat
        BY <2>2, <2>3, SMTT(40)
      <3>2. /\ s1 \in Seq(Nat) /\ Len(s1) = IF 1 <= b THEN b - 1 + 1 ELSE 0
            /\ \A i \in 1 .. b - 1 + 1 : s1[i] = g[1 + i - 1]
        BY <3>1, SeqPart, SMTT(40)
      <3> HIDE DEF s1
      <3> QED
        BY <2>2, <2>3, <3>2, SMTT(40)
    <2>5. s2 \in Seq(Nat) /\ Len(s2) = 1 /\ s2[1] = object
      OBVIOUS
    <2>6. s3 \in Seq(Nat) /\ Len(s3) = n - b /\ \A i \in 1 .. n - b : s3[i] = g[b + i]
      <3>1. b + 1 \in Int /\ n \in Int /\ \A i \in b + 1 .. n : g[i] \in Nat
        BY <2>2, <2>3, SMTT(40)
      <3>2. /\ s3 \in Seq(Nat) /\ Len(s3) = IF b + 1 <= n THEN n - (b + 1) + 1 ELSE 0
            /\ \A i \in 1 .. n - (b + 1) + 1 : s3[i] = g[(b + 1) + i - 1]
        BY <3>1, SeqPart, SMTT(40)
      <3> HIDE DEF s3
      <3> QED
        BY <2>2, <2>3, <3>2, SMTT(40)
    <2> HIDE DEF s1, s2, s3
    <2>7. /\ s1 \o s2 \in Seq(Nat) /\ Len(s1 \o s2) = b + 1
          /\ \A i \in 1 .. b + 1 : (s1 \o s2)[i] = IF i <= b THEN g[i] ELSE object
      <3>1. /\ s1 \o s2 \in Seq(Nat) /\ Len(s1 \o s2) = Len(s1) + Len(s2)
            /\ \A i \in 1 .. Len(s1) + Len(s2) : (s1 \o s2)[i] =
                     IF i <= Len(s1) THEN s1[i] ELSE s2[i - Len(s1)]
        BY <2>4, <2>5, SeqJoined, ZenonT(40)
      <3> QED
        BY <2>2, <2>3, <2>4, <2>5, <3>1, SMTT(40)
    <2>8. /\ h \in Seq(Nat) /\ Len(h) = n + 1
          /\ \A i \in 1 .. n + 1 :
                h[i] = IF i <= b THEN g[i] ELSE IF i = b + 1 THEN object ELSE g[i - 1]
      <3> DEFINE t == s1 \o s2
      <3>1. /\ t \o s3 \in Seq(Nat) /\ Len(t \o s3) = Len(t) + Len(s3)
            /\ \A i \in 1 .. Len(t) + Len(s3) : (t \o s3)[i] =
                     IF i <= Len(t) THEN t[i] ELSE s3[i - Len(t)]
        BY <2>6, <2>7, SeqJoined, ZenonT(40)
      <3>2. h = t \o s3
        OBVIOUS
      <3> HIDE DEF t, h
      <3>3. t \in Seq(Nat) /\ Len(t) = b + 1
            /\ \A i \in 1 .. b + 1 : t[i] = IF i <= b THEN g[i] ELSE object
        BY <2>7, SMTT(40) DEF t
      <3>4. /\ h \in Seq(Nat) /\ Len(h) = n + 1
            /\ \A i \in 1 .. n + 1 : h[i] = IF i <= b + 1 THEN t[i] ELSE s3[i - (b + 1)]
        <4>1. Len(t) + Len(s3) = n + 1
          BY <2>2, <2>3, <2>6, <3>3, SMTT(40)
        <4> QED
          BY <3>1, <3>2, <3>3, <4>1, ZenonT(40)
      <3>5. ASSUME NEW i \in 1 .. n + 1
            PROVE  h[i] = IF i <= b THEN g[i] ELSE IF i = b + 1 THEN object ELSE g[i - 1]
        <4>1. CASE i <= b + 1
          <5>1. i \in 1 .. b + 1 /\ h[i] = t[i]
            BY <2>2, <2>3, <3>4, <4>1, SMTT(40)
          <5>2. t[i] = IF i <= b THEN g[i] ELSE object
            BY <3>3, <5>1, SMTT(40)
          <5> QED
            BY <2>2, <5>1, <5>2, SMTT(40)
        <4>2. CASE i > b + 1
          <5> DEFINE j == i - (b + 1)
          <5>1. h[i] = s3[j] /\ j \in 1 .. n - b /\ b + j = i - 1 /\ ~(i <= b) /\ i # b + 1
            BY <2>2, <2>3, <3>4, <4>2, SMTT(40)
          <5> HIDE DEF j
          <5>2. s3[j] = g[b + j]
            BY <2>6, <5>1, Zenon
          <5> QED
            BY <5>1, <5>2, SMTT(40)
        <4> QED
          BY <2>2, <2>3, <4>1, <4>2, SMTT(40)
      <3> QED
        BY <3>4, <3>5, ZenonT(40)
    <2>9. DOMAIN h = 1 .. n + 1
      BY <2>8, SeqFacts, SMTT(40)
    <2> HIDE DEF h
    <2>10. Increasing(g) /\ \A k \in 1 .. n : g[k] # object
      BY <1>2, <2>3, Zenon DEF g
    <2>11. Increasing(h)
      <3> SUFFICES ASSUME NEW k \in 1 .. n + 1, k # 1
                   PROVE  h[k - 1] < h[k]
        BY <2>9, Zenon DEF Increasing
      <3> DEFINE at(i) == IF i <= b THEN g[i] ELSE IF i = b + 1 THEN object ELSE g[i - 1]
      <3>1. k - 1 \in 1 .. n + 1 /\ k \in Nat /\ b \in Nat
        BY <2>2, <2>3, SMTT(40)
      <3>2. h[k] = at(k) /\ h[k - 1] = at(k - 1)
        BY <2>8, <3>1, Zenon
      <3>3. \A i \in 1 .. n : i # 1 => g[i - 1] < g[i]
        BY <2>3, <2>10, Zenon DEF Increasing
      <3>4. \A i \in 1 .. n : g[i] < object <=> i <= b
        BY <2>2, <2>3, Zenon
      <3> HIDE DEF h
      <3>5. CASE k <= b
        <4>1. at(k) = g[k] /\ at(k - 1) = g[k - 1] /\ k \in 1 .. n
          BY <2>2, <2>3, <3>1, <3>5, SMTT(40)
        <4> QED
          BY <3>2, <3>3, <4>1, ZenonT(40)
      <3>6. CASE k = b + 1
        <4>1. at(k) = object /\ at(k - 1) = g[k - 1] /\ k - 1 \in 1 .. n /\ k - 1 <= b
          BY <2>2, <2>3, <3>1, <3>6, SMTT(40)
        <4> QED
          BY <3>2, <3>4, <4>1, Zenon
      <3>7. CASE k = b + 2
        <4> DEFINE i == k - 1
        <4>1. at(k) = g[i] /\ at(i) = object /\ i \in 1 .. n /\ ~(i <= b)
          BY <2>2, <2>3, <3>1, <3>7, SMTT(40)
        <4> HIDE DEF i
        <4>2. ~(g[i] < object) /\ g[i] # object /\ g[i] \in Nat
          BY <2>3, <2>10, <3>4, <4>1, SMTT(40)
        <4>3. object < g[i]
          BY <4>2, SMTT(40)
        <4> QED
          BY <3>2, <4>1, <4>3, ZenonT(40) DEF i
      <3>8. CASE k > b + 2
        <4>1. at(k) = g[k - 1] /\ at(k - 1) = g[(k - 1) - 1] /\ k - 1 \in 1 .. n /\ k - 1 # 1
          BY <2>2, <2>3, <3>1, <3>8, SMTT(40)
        <4>2. g[(k - 1) - 1] < g[k - 1]
          BY <3>3, <4>1, Zenon
        <4> QED
          BY <3>2, <4>1, <4>2, SMTT(40)
      <3> QED
        BY <3>1, <3>5, <3>6, <3>7, <3>8, SMTT(40)
    <2>12. InScope(h, object)
      <3>1. b + 1 \in 1 .. n + 1 /\ h[b + 1] = object
        BY <2>2, <2>3, <2>8, SMTT(40)
      <3> QED
        BY <2>9, <3>1, SMTT(40) DEF InScope
    <2>13. ASSUME NEW i, InScope(g, i)
           PROVE  InScope(h, i)
      <3>1. PICK k \in 1 .. n : g[k] = i
        BY <2>3, <2>13, Zenon DEF InScope
      <3>2. CASE k <= b
        <4>1. k \in 1 .. n + 1 /\ h[k] = i
          BY <2>2, <2>3, <2>8, <3>1, <3>2, SMTT(40)
        <4> QED
          BY <2>9, <4>1, ZenonT(40) DEF InScope
      <3>3. CASE k > b
        <4>1. k + 1 \in 1 .. n + 1 /\ h[k + 1] = g[(k + 1) - 1] /\ (k + 1) - 1 = k
          BY <2>2, <2>3, <2>8, <3>3, SMTT(40)
        <4>2. h[k + 1] = i
          BY <3>1, <4>1, Zenon
        <4> QED
          BY <2>9, <4>1, <4>2, ZenonT(40) DEF InScope
      <3> QED
        BY <2>2, <2>3, <3>2, <3>3, SMTT(40)
    <2>14. ASSUME NEW k \in 1 .. n + 1
           PROVE  h[k] = object \/ InScope(g, h[k])
      <3>1. CASE k <= b
        <4>1. h[k] = g[k] /\ k \in 1 .. n
          BY <2>2, <2>3, <2>8, <3>1, SMTT(40)
        <4> QED
          BY <2>3, <4>1, Zenon DEF InScope
      <3>2. CASE k = b + 1
        BY <2>2, <2>8, <3>2, SMTT(40)
      <3>3. CASE k > b + 1
        <4>1. h[k] = g[k - 1] /\ k - 1 \in 1 .. n
          BY <2>2, <2>3, <2>8, <3>3, SMTT(40)
        <4> QED
          BY <2>3, <4>1, Zenon DEF InScope
      <3> QED
        BY <2>2, <2>3, <3>1, <3>2, <3>3, SMTT(40)
    <2> QED
      BY <2>1, <2>8, <2>9, <2>11, <2>12, <2>13, <2>14, ZenonT(40) DEF g
  <1> QED
    BY <1>1, <1>2, SMTT(40)

(***************************************************************************)
(* The bytes of a resolution and the pages of a load.                      *)
(***************************************************************************)
LEMMA BytesNatural == BytesAreNatural
  <1> SUFFICES ASSUME NEW n \in Nat, NEW answers \in [1 .. n -> Answers]
               PROVE  Bytes(answers) \in Nat
    BY Zenon DEF BytesAreNatural
  <1> DEFINE b(k) == Images[answers[k][2]].bytes
             Sums(f, m) == f = [k \in 0 .. m |-> IF k = 0 THEN 0 ELSE f[k - 1] + b(k)]
             S == {m \in Nat : m <= n => \E f : Sums(f, m)}
             sum == CHOOSE f : Sums(f, n)
             T == {m \in Nat : m <= n => sum[m] \in Nat}
  <1>1. \A k \in 1 .. n : b(k) \in Nat
    BY AnswersAssumption, ImagesAssumption, Zenon
  <1>2. answers \in Seq(Answers) /\ Len(answers) = n
    OBVIOUS
  <1>3. Bytes(answers) = (CHOOSE f : f = [k \in 0 .. Len(answers) |->
                             IF k = 0 THEN 0 ELSE f[k - 1] + Images[answers[k][2]].bytes])
                             [Len(answers)]
    BY DEF Bytes
  <1>4. Bytes(answers) = sum[n]
    BY <1>2, <1>3, Zenon
  <1> HIDE DEF b
  <1>5. 0 \in S
    <2> DEFINE f == [k \in 0 .. 0 |-> 0]
    <2>1. Sums(f, 0)
      OBVIOUS
    <2> QED
      BY <2>1, Zenon
  <1>6. ASSUME NEW m \in Nat, m \in S
        PROVE  m + 1 \in S
    <2> SUFFICES ASSUME m + 1 <= n
                 PROVE  \E f : Sums(f, m + 1)
      OBVIOUS
    <2>1. PICK f : Sums(f, m)
      BY <1>6, SMTT(40)
    <2> DEFINE g == [k \in 0 .. m + 1 |-> IF k <= m THEN f[k] ELSE f[m] + b(m + 1)]
    <2>2. ASSUME NEW k \in 0 .. m + 1
          PROVE  g[k] = IF k = 0 THEN 0 ELSE g[k - 1] + b(k)
      <3>1. CASE k = 0
        BY <2>1, <3>1, SMTT(40)
      <3>2. CASE k # 0 /\ k <= m
        <4>1. f[k] = f[k - 1] + b(k)
          BY <2>1, <3>2, SMTT(40)
        <4>2. g[k] = f[k] /\ g[k - 1] = f[k - 1]
          BY <3>2, SMTT(40)
        <4> QED
          BY <3>2, <4>1, <4>2, Zenon
      <3>3. CASE k = m + 1
        BY <3>3, SMTT(40)
      <3> QED
        BY <3>1, <3>2, <3>3, SMTT(40)
    <2>3. Sums(g, m + 1)
      <3>1. g = [k \in 0 .. m + 1 |-> g[k]]
        OBVIOUS
      <3> HIDE DEF g
      <3> QED
        BY <2>2, <3>1, ZenonT(40)
    <2> QED
      BY <2>3, Zenon
  <1>7. Nat \subseteq S
    <2> HIDE DEF S
    <2> QED
      BY <1>5, <1>6, InductionOnSets, Zenon
  <1>8. Sums(sum, n)
    <2>1. \E f : Sums(f, n)
      <3>1. n \in S
        BY <1>7, Zenon
      <3> QED
        BY <3>1, SMTT(40)
    <2> HIDE DEF Sums
    <2> QED
      BY <2>1, Zenon
  <1> HIDE DEF sum
  <1>9. 0 \in T
    BY <1>8, SMTT(40)
  <1>10. ASSUME NEW m \in Nat, m \in T
         PROVE  m + 1 \in T
    <2> SUFFICES ASSUME m + 1 <= n
                 PROVE  sum[m + 1] \in Nat
      OBVIOUS
    <2>1. sum[m + 1] = sum[(m + 1) - 1] + b(m + 1) /\ (m + 1) - 1 = m
      BY <1>8, SMTT(40)
    <2> QED
      BY <1>1, <1>10, <2>1, SMTT(40)
  <1>11. Nat \subseteq T
    <2> HIDE DEF T
    <2> QED
      BY <1>9, <1>10, InductionOnSets, Zenon
  <1> QED
    BY <1>4, <1>11, SMTT(40)

\* load_elf32 maps pages that were free, and some.
LEMMA LoadPagesFree == LoadsFreePages
  <1> SUFFICES ASSUME NEW image \in DOMAIN Images, Images[image].type # "Invalid",
                      Images[image].type = "Dynamic" => Runs(Images[image].size) # {},
                      Images[image].type = "Executable" => LoadPages(image) \cap mapped = {}
               PROVE  /\ LoadPages(image) \in SUBSET Int /\ LoadPages(image) # {}
                      /\ LoadPages(image) \cap mapped = {}
    BY Zenon DEF LoadsFreePages
  <1> DEFINE m == Images[image]
             R == Runs(m.size)
             low == CHOOSE p \in R : \A q \in R : p <= q
             start == IF m.type = "Executable" THEN m.at ELSE low
  <1>1. m.size \in Nat \ {0} /\ m.at \in Nat /\ m.type \in {"Dynamic", "Executable"}
    BY ImagesAssumption, Zenon
  <1>2. LoadPages(image) = start .. start + m.size - 1
    BY Zenon DEF LoadPages
  <1>3. CASE m.type = "Executable"
    <2>1. start = m.at /\ LoadPages(image) \cap mapped = {}
      BY <1>3, Zenon
    <2> HIDE DEF start, m
    <2> QED
      BY <1>1, <1>2, <2>1, SMTT(40)
  <1>4. CASE m.type = "Dynamic"
    <2>1. R # {} /\ R \in SUBSET Nat
      BY <1>4, NumPagesAssumption, SMTT(40) DEF Runs, Page
    <2>2. \E p \in R : \A q \in R : p <= q
      <3> HIDE DEF R
      <3> QED
        BY <2>1, LeastNatural, Zenon
    <2>3. low \in R
      <3> HIDE DEF R
      <3> QED
        BY <2>2, Zenon
    <2>4. start = low
      BY <1>4, Zenon
    <2> HIDE DEF low
    <2>5. low \in Nat /\ \A q \in low .. low + m.size - 1 : q \notin mapped
      BY <2>3, NumPagesAssumption, SMTT(40) DEF Runs, Page
    <2> HIDE DEF start, m
    <2>6. LoadPages(image) = low .. low + m.size - 1 /\ low \in low .. low + m.size - 1
      BY <1>1, <1>2, <2>4, <2>5, SMTT(40)
    <2>7. low .. low + m.size - 1 \in SUBSET Int /\ low .. low + m.size - 1 # {}
      BY <2>5, <2>6, SMTT(40)
    <2> QED
      BY <2>5, <2>6, <2>7, SMTT(40)
  <1> QED
    BY <1>1, <1>3, <1>4, ZenonT(40)

(***************************************************************************)
(* DepInv holds, and what follows.                                         *)
(***************************************************************************)
LEMMA CallPreserves ==
    ASSUME DepInv, Call
    PROVE  DepInv'
  <1>1. PICK answer \in Answers, options \in Options :
           \/ \E policy \in {"Local", "Global"} :
                 append_elf32_link_map_root(answer[1], answer[2], policy, options)
           \/ load_elf32_dependency_graph(answer[1], answer[2], options)
    BY Zenon DEF Call
  <1>2. answer[2] \in DOMAIN Images /\ Images[answer[2]].bytes \in Nat
    BY AnswersAssumption, ImagesAssumption, Zenon
  <1>3. /\ options.max_total \in Nat /\ options.max_objects \in Nat
    BY OptionsAssumption, Zenon DEF LoadLimits
  <1>4. root_error(answer[1], answer[2], options) = "None" =>
           Images[answer[2]].bytes <= options.max_total /\ options.max_objects # 0
    <2>1. root_error(answer[1], answer[2], options) = "None" =>
             ~(Images[answer[2]].bytes > options.max_total) /\ options.max_objects # 0
      BY Zenon DEF root_error
    <2> QED
      BY <1>2, <1>3, <2>1, SMTT(40)
  <1>5. CASE load_elf32_dependency_graph(answer[1], answer[2], options)
    <2>1. objects = <<>> /\ Called("graph", "Local", options)
      BY <1>5, Zenon DEF load_elf32_dependency_graph
    <2>2. CASE Refused(root_error(answer[1], answer[2], options))
      BY <2>1, <2>2, RefusedPreserves, ZenonT(40) DEF Policies
    <2>3. CASE /\ root_error(answer[1], answer[2], options) = "None"
               /\ StartGraph(answer[1], answer[2])
      <3>1. IndexOf(answer[1]) = {} /\ Len(objects) = 0
        BY <2>1, SMTT(40) DEF IndexOf
      <3> QED
        BY <1>3, <1>4, <2>1, <2>3, <3>1, StartGraphPreserves, SMTT(40) DEF Policies
    <2> QED
      BY <1>5, <2>2, <2>3, Zenon DEF load_elf32_dependency_graph
  <1>6. ASSUME NEW policy \in Policies,
               append_elf32_link_map_root(answer[1], answer[2], policy, options)
        PROVE  DepInv'
    <2>1. Called("append", policy, options)
      BY <1>6, Zenon DEF append_elf32_link_map_root
    <2>2. ASSUME NEW e, Refused(e)
          PROVE  DepInv'
      BY <2>1, <2>2, RefusedPreserves, Zenon
    <2>3. ASSUME NEW index \in IndexOf(answer[1]), ReuseRoot(index, policy)
          PROVE  DepInv'
      <3>1. index \in DOMAIN objects
        BY Zenon DEF IndexOf
      <3> QED
        BY <2>1, <2>3, <3>1, ReuseRootPreserves, RecordGlobalEffect, ZenonT(40)
    <2>4. CASE /\ append_error(answer[1], answer[2], options) = "None"
               /\ IndexOf(answer[1]) = {} /\ Len(objects) < options.max_objects
               /\ StartGraph(answer[1], answer[2])
      <3>1. root_error(answer[1], answer[2], options) = "None"
        BY <2>4, Zenon DEF append_error
      <3> QED
        BY <1>4, <2>1, <2>4, <3>1, StartGraphPreserves, ZenonT(40)
    <2> QED
      BY <1>6, <2>2, <2>3, <2>4, ZenonT(40) DEF append_elf32_link_map_root
  <1> QED
    BY <1>1, <1>5, <1>6, Zenon DEF Policies

LEMMA StepDepInv ==
    ASSUME DepInv, Step
    PROVE  DepInv'
  BY RecordGlobalEffect, BytesNatural, LoadPagesFree, LoadObjectPreserves,
     InspectObjectPreserves, ResolvePreserves, NextDependencyPreserves,
     FinishObjectPreserves, CompletePreserves, RecordGlobalPreserves, RollbackLoadPreserves,
     RollbackDonePreserves, ZenonT(40)
     DEF Step

LEMMA NextDepInv == DepInv /\ [Next]_vars => DepInv'
  BY CallPreserves, StepDepInv, StutterDepInv, Zenon DEF Next

LEMMA DepInvHolds == Spec => []DepInv
  <1>1. Init => DepInv
    BY InitDepInv, SMTT(40)
  <1>2. DepInv /\ [Next]_vars => DepInv'
    BY NextDepInv, SMTT(40)
  <1> QED
    BY <1>1, <1>2, PTL DEF Spec

\* The members of the global scope, and their order.
LEMMA ScopeIsExact ==
    ASSUME NEW o, NEW r, NEW g, NEW m, Sound(o, r, g, m)
    PROVE  /\ {g[k] : k \in DOMAIN g}
                 = {i \in DOMAIN o : o[i].global}
                      \cup {r[k].object : k \in {j \in DOMAIN r : r[j].policy = "Global"}}
           /\ \A j, k \in DOMAIN g : j < k => g[j] < g[k]
  <1> DEFINE members == {g[k] : k \in DOMAIN g}
             needed == {i \in DOMAIN o : o[i].global}
                          \cup {r[k].object : k \in {j \in DOMAIN r : r[j].policy = "Global"}}
  <1>1. /\ o \in Seq(LinkObjects) /\ g \in Seq(Nat) /\ RootsOK(o, r)
        /\ ScopeOK(o, r, g, Len(o))
    BY Zenon DEF Sound
  <1>2. Len(o) \in Nat /\ DOMAIN o = 1 .. Len(o)
    BY <1>1, SeqFacts, Zenon
  <1>3. \A i \in DOMAIN o : i <= Len(o)
    BY <1>2
  <1>4. \A i \in DOMAIN o : InScope(g, i) <=> Required(o, r, i)
    BY <1>1, <1>3, Zenon DEF ScopeOK
  <1>5. ASSUME NEW i \in members
        PROVE  i \in needed
    <2>1. i \in DOMAIN o /\ InScope(g, i)
      BY <1>1, Zenon DEF ScopeOK, InScope
    <2>2. Required(o, r, i)
      BY <1>4, <2>1, Zenon
    <2> QED
      BY <2>1, <2>2, Zenon DEF Required
  <1>6. ASSUME NEW i \in needed
        PROVE  i \in members
    <2>1. i \in DOMAIN o /\ Required(o, r, i)
      BY <1>1, Zenon DEF Required, RootsOK
    <2>2. InScope(g, i)
      BY <1>4, <2>1, Zenon
    <2> QED
      BY <2>2, Zenon DEF InScope
  <1>7. \A j, k \in DOMAIN g : j < k => g[j] < g[k]
    <2>1. Increasing(g)
      BY <1>1, Zenon DEF ScopeOK, Increasing
    <2> QED
      BY <1>1, <2>1, IncreasingPairs, Zenon
  <1>8. members = needed
    BY <1>5, <1>6, Zenon
  <1> QED
    BY <1>7, <1>8, Zenon

\* Between calls the link map passes the preflight of append_elf32_link_map_root
\* whatever the earlier calls were and however they ended: unique identities,
\* edges and roots in range, and exactly the global objects in index order.
THEOREM LinkMapAlwaysValid == Spec => []LinkMapStaysValid
  <1>1. DepInv => LinkMapStaysValid
    <2> SUFFICES ASSUME DepInv, ~Busy
                 PROVE  ValidLinkMap
      BY Zenon DEF LinkMapStaysValid
    <2>1. Sound(objects, roots, global_scope, mapped)
      BY Zenon DEF DepInv, Busy
    <2>2. {global_scope[k] : k \in DOMAIN global_scope} = RequiredGlobal
      BY <2>1, ScopeIsExact, SMTT(40) DEF RequiredGlobal
    <2>3. /\ UniqueIdentities(objects) /\ EdgesInRange(objects) /\ RootsOK(objects, roots)
          /\ ScopeOK(objects, roots, global_scope, Len(objects))
      BY <2>1, ZenonT(40) DEF Sound
    <2> QED
      BY <2>2, <2>3, Zenon DEF ValidLinkMap, UniqueIdentities, EdgesInRange, RootsOK, ScopeOK
  <1> QED
    BY <1>1, DepInvHolds, PTL

\* No two objects ever own the same page, and an object's pages are mapped at
\* every moment but in the rollback of the call that brought it.
THEOREM OneOwnerPerPage == Spec => []PagesHaveOneOwner
  <1>1. DepInv => PagesHaveOneOwner
    <2> SUFFICES ASSUME DepInv
                 PROVE  PagesHaveOneOwner
      OBVIOUS
    <2>1. CASE pc = "idle"
      <3>1. Sound(objects, roots, global_scope, mapped)
        BY <2>1, Zenon DEF DepInv
      <3> QED
        BY <3>1, Zenon DEF Sound, DisjointPages, PagesHaveOneOwner
    <2>2. CASE pc # "idle"
      <3>1. Typed /\ CallOK /\ MappingOK
        BY <2>2, SMTT(40) DEF DepInv
      <3>2. \A i, j \in DOMAIN objects : i # j => objects[i].pages \cap objects[j].pages = {}
        BY <3>1, Zenon DEF CallOK, DisjointPages
      <3>3. CASE pc # "rollback"
        BY <3>1, <3>2, <3>3, PagesMapped, ZenonT(40) DEF PagesHaveOneOwner
      <3>4. CASE pc = "rollback"
        <4> SUFFICES ASSUME NEW i \in DOMAIN objects, ~(i > initial)
                     PROVE  objects[i].pages \subseteq mapped
          BY <3>2, <3>4, Zenon DEF PagesHaveOneOwner
        <4>1. i \in 1 .. initial
          BY <3>1, ObjectFacts, SMTT(40)
        <4>2. before.objects \in Seq(LinkObjects)
          BY <3>1, Zenon DEF CallOK, Sound
        <4>3. i \in DOMAIN before.objects
          BY <3>1, <4>1, <4>2, SeqFacts, ZenonT(40) DEF CallOK
        <4>4. before.objects[i].pages \subseteq before.mapped
          BY <3>1, <4>3, ZenonT(40) DEF CallOK, Sound
        <4> QED
          BY <3>1, <4>1, <4>4, ZenonT(40) DEF CallOK, MappingOK
      <3> QED
        BY <3>3, <3>4, Zenon
    <2> QED
      BY <2>1, <2>2, Zenon
  <1> QED
    BY <1>1, DepInvHolds, PTL

\* A call that reports an error, wherever in the graph it failed, has left the
\* link map as it was, and of its pages only those whose unmap failed.
THEOREM FailedCallRestores == Spec => []FailureRestores
  <1>1. DepInv => FailureRestores
    BY Zenon DEF DepInv, FailureRestores, Busy
  <1> QED
    BY <1>1, DepInvHolds, PTL

\* Between calls every object has its pages, an edge for each DT_NEEDED entry
\* and a reason to be there: process_object leaves nothing half done.
THEOREM GraphsAreComplete == Spec => []GraphIsComplete
  <1>1. DepInv => GraphIsComplete
    <2> SUFFICES ASSUME DepInv, ~Busy, NEW i \in DOMAIN objects
                 PROVE  /\ objects[i].pages # {}
                        /\ Len(objects[i].dependencies) = Images[objects[i].image].needed
                        /\ \/ \E k \in DOMAIN roots : roots[k].object = i
                           \/ \E j \in 1 .. i - 1 : \E k \in DOMAIN objects[j].dependencies :
                                 objects[j].dependencies[k] = i
      BY Zenon DEF GraphIsComplete
    <2>1. Sound(objects, roots, global_scope, mapped)
      BY ZenonT(40) DEF DepInv, Busy
    <2> QED
      BY <2>1, Zenon DEF Sound, Finished, HasReason
  <1> QED
    BY <1>1, DepInvHolds, PTL

\* The limits of a call hold at every step of it, so that the unsigned budgets
\* max_occurrences - occurrences and max_total - total never wrap, and the
\* recursion of process_object is bounded by max_depth.
THEOREM LimitsAlwaysHold == Spec => []LimitsHold
  <1>1. DepInv => LimitsHold
    BY Zenon DEF DepInv, CallOK, LimitsHold, Busy
  <1> QED
    BY <1>1, DepInvHolds, PTL

(***************************************************************************)
(* Calls are atomic for the users of the link map.                         *)
(***************************************************************************)
\* What users see is the state at the call while it lasts.
LEMMA SeenFacts ==
    /\ pc = "idle" =>
          /\ Seen(before.objects, objects) = objects /\ Seen(before.roots, roots) = roots
          /\ Seen(before.global_scope, global_scope) = global_scope
          /\ Seen(before.mapped, mapped) = mapped
    /\ pc # "idle" =>
          /\ Seen(before.objects, objects) = before.objects
          /\ Seen(before.roots, roots) = before.roots
          /\ Seen(before.global_scope, global_scope) = before.global_scope
          /\ Seen(before.mapped, mapped) = before.mapped
  BY Zenon DEF Seen, Busy

LEMMA SeenNext ==
    /\ pc' = "idle" =>
          /\ Seen(before.objects, objects)' = objects' /\ Seen(before.roots, roots)' = roots'
          /\ Seen(before.global_scope, global_scope)' = global_scope'
          /\ Seen(before.mapped, mapped)' = mapped'
    /\ pc' # "idle" =>
          /\ Seen(before.objects, objects)' = before'.objects
          /\ Seen(before.roots, roots)' = before'.roots
          /\ Seen(before.global_scope, global_scope)' = before'.global_scope
          /\ Seen(before.mapped, mapped)' = before'.mapped
  BY Zenon DEF Seen, Busy

\* Inside a call nothing is to be seen of it.
LEMMA BusyStutters ==
    ASSUME pc # "idle", pc' # "idle", UNCHANGED before
    PROVE  UNCHANGED Users!linkMapVars
  BY SeenFacts, SeenNext, Zenon DEF Users!linkMapVars

\* A step that leaves the link map as it was at the call.
LEMMA ElsewhereSeen ==
    ASSUME pc # "idle", pc' = "idle", objects' = before.objects, roots' = before.roots,
           global_scope' = before.global_scope, before.mapped \subseteq mapped'
    PROVE  Users!Next
  <1>1. Users!Elsewhere
    BY SeenFacts, SeenNext, Zenon DEF Users!Elsewhere
  <1> QED
    BY <1>1, Zenon DEF Users!Next

\* The step that ends a successful append shows its users the whole graph.
LEMMA AppendSeen ==
    ASSUME DepInv, RecordGlobal, pc' = "idle"
    PROVE  Users!Next
  <1>1. /\ pc = "record" /\ recorded + 1 \notin DOMAIN objects
        /\ UNCHANGED <<objects, roots, global_scope, mapped, call, before>>
    BY Zenon DEF RecordGlobal
  <1>2. Typed /\ CallOK /\ MappingOK /\ RecordOK
    BY <1>1, Zenon DEF DepInv
  <1> DEFINE b == before.objects
  <1>3. /\ DOMAIN objects = 1 .. Len(objects) /\ Len(objects) \in Nat /\ initial \in Nat
        /\ initial < Len(objects) /\ initial = Len(b) /\ b \in Seq(LinkObjects)
        /\ \A i \in 1 .. initial : objects[i] = b[i]
        /\ recorded \in initial .. Len(objects)
    BY <1>2, ObjectFacts, ZenonT(40) DEF CallOK, RecordOK, Sound
  <1>4. DOMAIN b = 1 .. initial
    BY <1>3, SeqFacts, Zenon
  <1>5. recorded = Len(objects)
    <2> DEFINE n == Len(objects)
    <2>1. n \in Nat /\ recorded \in initial .. n /\ recorded + 1 \notin 1 .. n
      BY <1>1, <1>3, Zenon
    <2> HIDE DEF n
    <2>2. recorded = n
      BY <1>3, <2>1, SMTT(40)
    <2> QED
      BY <2>2, SMTT(40) DEF n
  <1>6. Sound(objects, roots, global_scope, mapped)
    BY <1>1, <1>2, <1>5, RecordedIsSound, ZenonT(40)
  <1>7. /\ {global_scope[k] : k \in DOMAIN global_scope}
              = {i \in DOMAIN objects : objects[i].global}
                   \cup {roots[k].object : k \in {j \in DOMAIN roots : roots[j].policy = "Global"}}
        /\ \A j, k \in DOMAIN global_scope : j < k => global_scope[j] < global_scope[k]
    BY <1>6, ScopeIsExact, Zenon
  <1>8. roots = Append(before.roots, [object |-> Len(b) + 1, policy |-> call.policy])
    BY <1>2, <1>3, Zenon DEF RecordOK
  <1>9. New = Len(b) + 1 .. Len(objects) /\ New \subseteq DOMAIN objects
    BY <1>2, <1>3, ObjectFacts, ZenonT(40) DEF New
  <1>10. mapped = before.mapped \cup UNION {objects[i].pages : i \in Len(b) + 1 .. Len(objects)}
    <2>1. \A i \in New : \E k \in DOMAIN loads : loads[k] = i
      BY <1>1, <1>2, ZenonT(40) DEF RecordOK, MappingOK, Finished
    <2>2. \A k \in DOMAIN loads : loads[k] \in New
      BY <1>2, ZenonT(40) DEF MappingOK
    <2>3. mapped = before.mapped \cup UNION {objects[loads[k]].pages : k \in DOMAIN loads}
      BY <1>1, <1>2, ZenonT(40) DEF MappingOK
    <2>4. {objects[loads[k]].pages : k \in DOMAIN loads} = {objects[i].pages : i \in New}
      BY <2>1, <2>2, ZenonT(40)
    <2> QED
      BY <1>9, <2>3, <2>4, ZenonT(40)
  <1>11. /\ \A i \in Len(b) + 1 .. Len(objects) : objects[i].pages \cap before.mapped = {}
         /\ \A i, j \in Len(b) + 1 .. Len(objects) :
               i # j => objects[i].pages \cap objects[j].pages = {}
    BY <1>2, <1>9, ZenonT(40) DEF CallOK, DisjointPages
  <1>12. Len(objects) > Len(b) /\ \A i \in DOMAIN b : objects[i] = b[i]
    BY <1>3, <1>4, ZenonT(40)
  <1>13. call.policy \in Users!Policies
    BY <1>2, ZenonT(40) DEF Typed, CallRecords, Policies, Users!Policies
  <1> DEFINE O == Seen(before.objects, objects)
             R == Seen(before.roots, roots)
             G == Seen(before.global_scope, global_scope)
             M == Seen(before.mapped, mapped)
  <1>14. /\ O = b /\ R = before.roots /\ M = before.mapped
         /\ O' = objects /\ R' = roots /\ G' = global_scope /\ M' = mapped
    <2>1. /\ O = b /\ R = before.roots /\ M = before.mapped
      BY <1>1, SeenFacts, ZenonT(40)
    <2>2. /\ O' = objects' /\ R' = roots' /\ G' = global_scope' /\ M' = mapped'
      BY SeenNext, ZenonT(40)
    <2> QED
      BY <1>1, <2>1, <2>2, ZenonT(40)
  <1>15. Users!GlobalScopeExact'
    BY <1>7, <1>14, SMTT(40) DEF Users!GlobalScopeExact, Users!RequiredGlobal
  <1>16. Users!Append_(call.policy)
    <2>1. Len(O') > Len(O) /\ \A i \in DOMAIN O : O'[i] = O[i]
      BY <1>12, <1>14, ZenonT(40)
    <2>2. R' = Append(R, [object |-> Len(O) + 1, policy |-> call.policy])
      BY <1>8, <1>14, Zenon
    <2>3. \A i \in Len(O) + 1 .. Len(O') : O'[i].pages \cap M = {}
      BY <1>11, <1>14, ZenonT(40)
    <2>4. \A i, j \in Len(O) + 1 .. Len(O') : i # j => O'[i].pages \cap O'[j].pages = {}
      BY <1>11, <1>14, ZenonT(40)
    <2>5. M' = M \cup UNION {O'[i].pages : i \in Len(O) + 1 .. Len(O')}
      BY <1>10, <1>14, ZenonT(40)
    <2> QED
      BY <1>15, <2>1, <2>2, <2>3, <2>4, <2>5, ZenonT(40) DEF Users!Append_
  <1> QED
    BY <1>13, <1>16, Zenon DEF Users!Next

LEMMA ReuseSeen ==
    ASSUME DepInv, NEW policy \in Policies, NEW options \in Options,
           Called("append", policy, options),
           NEW index \in DOMAIN objects, ReuseRoot(index, policy)
    PROVE  Users!Next
  <1>1. pc = "idle" /\ pc' = "idle" /\ roots' = record_root(index, policy) /\ UNCHANGED <<objects, mapped>>
    BY Zenon DEF Called, ReuseRoot, Return
  <1>2. Sound(objects, roots', global_scope', mapped)
    BY ReuseRootSound, RecordGlobalEffect, SMTT(40)
  <1>3. /\ {global_scope'[k] : k \in DOMAIN global_scope'}
              = {i \in DOMAIN objects : objects[i].global}
                   \cup {roots'[k].object : k \in {j \in DOMAIN roots' : roots'[j].policy = "Global"}}
        /\ \A j, k \in DOMAIN global_scope' : j < k => global_scope'[j] < global_scope'[k]
    BY <1>2, ScopeIsExact, ZenonT(40)
  <1> DEFINE O == Seen(before.objects, objects)
             R == Seen(before.roots, roots)
             G == Seen(before.global_scope, global_scope)
             M == Seen(before.mapped, mapped)
  <1>4. /\ O = objects /\ R = roots /\ M = mapped
        /\ O' = objects /\ R' = roots' /\ G' = global_scope' /\ M' = mapped
    <2>1. O = objects /\ R = roots /\ M = mapped
      BY <1>1, SeenFacts, ZenonT(40)
    <2>2. O' = objects' /\ R' = roots' /\ G' = global_scope' /\ M' = mapped'
      BY <1>1, SeenNext, ZenonT(40)
    <2> QED
      BY <1>1, <2>1, <2>2, ZenonT(40)
  <1>5. Users!GlobalScopeExact'
    BY <1>3, <1>4, ZenonT(40) DEF Users!GlobalScopeExact, Users!RequiredGlobal
  <1>6. Users!Reuse(index, policy)
    <2>1. CASE \E k \in DOMAIN roots : roots[k].object = index
      <3>1. roots' = [k \in DOMAIN roots |->
                         IF roots[k].object = index /\ policy = "Global"
                         THEN [roots[k] EXCEPT !.policy = "Global"] ELSE roots[k]]
        BY <1>1, <2>1, ZenonT(40) DEF record_root
      <3>2. index \in Users!RootObjects
        BY <1>4, <2>1, ZenonT(40) DEF Users!RootObjects
      <3> QED
        BY <1>4, <1>5, <3>1, <3>2, SMTT(40) DEF Users!Reuse
    <2>2. CASE \A k \in DOMAIN roots : roots[k].object # index
      <3>1. roots' = Append(roots, [object |-> index, policy |-> policy])
        BY <1>1, <2>2, Zenon DEF record_root
      <3>2. index \notin Users!RootObjects
        BY <1>4, <2>2, ZenonT(40) DEF Users!RootObjects
      <3> QED
        BY <1>4, <1>5, <3>1, <3>2, ZenonT(40) DEF Users!Reuse
    <2> QED
      BY <2>1, <2>2, Zenon
  <1>7. index \in DOMAIN O /\ policy \in Users!Policies
    BY <1>4, Zenon DEF Policies, Users!Policies
  <1> QED
    BY <1>6, <1>7, Zenon DEF Users!Next

LEMMA CallSeen ==
    ASSUME DepInv, Call
    PROVE  [Users!Next]_Users!linkMapVars
  <1>1. PICK answer \in Answers, options \in Options :
           \/ \E policy \in {"Local", "Global"} :
                 append_elf32_link_map_root(answer[1], answer[2], policy, options)
           \/ load_elf32_dependency_graph(answer[1], answer[2], options)
    BY Zenon DEF Call
  <1>2. ASSUME NEW mode \in {"append", "graph"}, NEW policy \in Policies,
               Called(mode, policy, options), NEW e, Refused(e)
        PROVE  UNCHANGED Users!linkMapVars
    <2>1. pc = "idle" /\ pc' = "idle" /\ UNCHANGED <<objects, roots, global_scope, mapped>>
      BY <1>2, Zenon DEF Called, Refused, Return, linkMap
    <2> QED
      BY <2>1, SeenFacts, SeenNext, ZenonT(40) DEF Users!linkMapVars
  <1>3. ASSUME NEW mode \in {"append", "graph"}, NEW policy \in Policies,
               Called(mode, policy, options), StartGraph(answer[1], answer[2])
        PROVE  UNCHANGED Users!linkMapVars
    <2>1. /\ pc = "idle" /\ before'.objects = objects /\ before'.roots = roots
          /\ before'.global_scope = global_scope /\ before'.mapped = mapped
      BY <1>3, CalledFacts, ZenonT(40)
    <2>2. pc' # "idle"
      BY <1>3, Zenon DEF StartGraph
    <2> QED
      BY <2>1, <2>2, SeenFacts, SeenNext, ZenonT(40) DEF Users!linkMapVars
  <1>4. ASSUME NEW policy \in Policies, NEW index \in IndexOf(answer[1]),
               Called("append", policy, options), ReuseRoot(index, policy)
        PROVE  Users!Next
    <2>1. index \in DOMAIN objects
      BY Zenon DEF IndexOf
    <2> QED
      BY <1>4, <2>1, ReuseSeen, ZenonT(40)
  <1>5. CASE load_elf32_dependency_graph(answer[1], answer[2], options)
    <2>1. Called("graph", "Local", options) /\ "Local" \in Policies
      BY <1>5, Zenon DEF load_elf32_dependency_graph, Policies
    <2>2. \/ \E e : Refused(e)
          \/ StartGraph(answer[1], answer[2])
      BY <1>5, Zenon DEF load_elf32_dependency_graph
    <2> QED
      BY <1>2, <1>3, <2>1, <2>2, ZenonT(40)
  <1>6. ASSUME NEW policy \in Policies,
               append_elf32_link_map_root(answer[1], answer[2], policy, options)
        PROVE  [Users!Next]_Users!linkMapVars
    <2>1. Called("append", policy, options)
      BY <1>6, Zenon DEF append_elf32_link_map_root
    <2>2. \/ \E e : Refused(e)
          \/ StartGraph(answer[1], answer[2])
          \/ \E index \in IndexOf(answer[1]) : ReuseRoot(index, policy)
      BY <1>6, Zenon DEF append_elf32_link_map_root
    <2> QED
      BY <1>2, <1>3, <1>4, <2>1, <2>2, ZenonT(40)
  <1> QED
    BY <1>1, <1>5, <1>6, ZenonT(40) DEF Policies

LEMMA StepSeen ==
    ASSUME DepInv, Step
    PROVE  [Users!Next]_Users!linkMapVars
  <1>1. ASSUME pc # "idle", pc' # "idle", UNCHANGED before
        PROVE  [Users!Next]_Users!linkMapVars
    BY <1>1, BusyStutters, ZenonT(40)
  <1>2. CASE \/ LoadObject \/ InspectObject \/ ResolveDependencies
             \/ NextDependency \/ FinishObject
    <2>1. pc = "process" /\ UNCHANGED before
      BY <1>2, ZenonT(40)
      DEF LoadObject, InspectObject, ResolveDependencies, NextDependency, FinishObject,
                  Processing
    <2>2. pc' = "rollback" \/ pc' = pc
      BY <1>2, ZenonT(40)
      DEF LoadObject, InspectObject, ResolveDependencies, NextDependency, FinishObject,
                  Fail, KnownDependency, NewDependency
    <2> QED
      BY <1>1, <2>1, <2>2, ZenonT(40)
  <1>3. CASE Complete
    <2>1. pc = "process" /\ UNCHANGED <<global_scope, mapped, before>>
      BY <1>3, Zenon DEF Complete
    <2>2. CASE pc' = "record"
      BY <1>1, <2>1, <2>2, ZenonT(40)
    <2>3. CASE call.mode = "graph" /\ objects' = <<>> /\ Return(Success) /\ UNCHANGED roots
      <3>1. CallOK /\ MappingOK
        BY <2>1, ZenonT(40) DEF DepInv
      <3>2. before.objects = <<>>
        <4>1. before.objects \in Seq(LinkObjects) /\ Len(before.objects) = 0
          BY <2>3, <3>1, ZenonT(40) DEF CallOK, Sound
        <4> QED
          BY <4>1, SeqFacts, SMTT(40)
      <3>3. /\ roots' = before.roots /\ global_scope' = before.global_scope
            /\ before.mapped \subseteq mapped' /\ pc' = "idle"
        BY <2>1, <2>3, <3>1, ZenonT(40) DEF CallOK, MappingOK, Return
      <3> QED
        BY <2>1, <2>3, <3>2, <3>3, ElsewhereSeen, ZenonT(40)
    <2> QED
      BY <1>3, <2>2, <2>3, ZenonT(40) DEF Complete
  <1>4. CASE RecordGlobal
    <2>1. pc = "record" /\ UNCHANGED before
      BY <1>4, ZenonT(40) DEF RecordGlobal
    <2>2. CASE pc' = "idle"
      BY <1>4, <2>2, AppendSeen, ZenonT(40)
    <2>3. CASE pc' # "idle"
      BY <1>1, <2>1, <2>3, ZenonT(40)
    <2> QED
      BY <2>2, <2>3, ZenonT(40)
  <1>5. CASE RollbackLoad
    <2>1. pc = "rollback" /\ UNCHANGED <<pc, before>>
      BY <1>5, ZenonT(40) DEF RollbackLoad
    <2> QED
      BY <1>1, <2>1, ZenonT(40)
  <1>6. CASE RollbackDone
    <2>1. /\ pc = "rollback" /\ pc' = "idle" /\ objects' = SubSeq(objects, 1, initial)
          /\ UNCHANGED <<roots, global_scope, mapped, before>>
      BY <1>6, ZenonT(40) DEF RollbackDone, Return
    <2>2. Typed /\ CallOK /\ MappingOK
      BY <2>1, ZenonT(40) DEF DepInv
    <2>3. objects' = before.objects
      BY <2>1, <2>2, DropNewObjects, ZenonT(40)
    <2>4. /\ roots' = before.roots /\ global_scope' = before.global_scope
          /\ before.mapped \subseteq mapped'
      BY <2>1, <2>2, ZenonT(40) DEF CallOK, MappingOK
    <2> QED
      BY <2>1, <2>3, <2>4, ElsewhereSeen, ZenonT(40)
  <1> QED
    BY <1>2, <1>3, <1>4, <1>5, <1>6, SMTT(40) DEF Step

\* Every call of the loader, however many steps, dependencies, failures and
\* rollbacks it goes through, is one step of LinkMap for the users of the link
\* map: it appends a whole graph on pages nobody had, reuses a root, or leaves
\* the link map alone.
THEOREM CallsRefineLinkMap == Spec => CallsAreAtomic
  <1>1. Init => Users!EmptyLinkMap
    <2> SUFFICES ASSUME Init
                 PROVE  Users!EmptyLinkMap
      BY SMTT(40)
    <2>1. pc = "idle" /\ objects = <<>> /\ roots = <<>> /\ global_scope = <<>>
      BY Zenon DEF Init
    <2> QED
      BY <2>1, SeenFacts, ZenonT(40) DEF Users!EmptyLinkMap
  <1>2. DepInv /\ [Next]_vars => [Users!Next]_Users!linkMapVars
    <2> SUFFICES ASSUME DepInv, [Next]_vars
                 PROVE  [Users!Next]_Users!linkMapVars
      BY Zenon
    <2>1. CASE UNCHANGED vars
      <3>1. UNCHANGED <<objects, roots, global_scope, mapped, before, pc>>
        BY <2>1, ZenonT(40) DEF vars, linkMap, callVars
      <3> QED
        BY <3>1, SeenFacts, SeenNext, ZenonT(40) DEF Users!linkMapVars
    <2>2. CASE Call
      BY <2>2, CallSeen, Zenon
    <2>3. CASE Step
      BY <2>3, StepSeen, Zenon
    <2> QED
      BY <2>1, <2>2, <2>3, ZenonT(40) DEF Next
  <1> QED
    BY <1>1, <1>2, DepInvHolds, PTL DEF Spec, CallsAreAtomic, Users!Spec

=============================================================================
