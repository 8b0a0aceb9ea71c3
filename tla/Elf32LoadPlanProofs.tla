------------------------ MODULE Elf32LoadPlanProofs ------------------------
(***************************************************************************)
(* plan_elf32_load only accepts plans that meet their contract, for every  *)
(* number of program headers and every address space.                      *)
(*                                                                         *)
(* PlanInv says what each program header adds to a plan; the checks that   *)
(* follow the table then settle what no single header can: that segments   *)
(* share no page, and that PT_DYNAMIC and PT_GNU_RELRO lie in segments.    *)
(***************************************************************************)
EXTENDS Elf32LoadPlan, ArithmeticLemmas, FiniteSetTheorems

\* What the loop body has checked of a PT_LOAD header.
SegmentPlanned(s) ==
    /\ SegmentWellFormed(plan, s)
    /\ s.offset + s.file_size <= ImageSize
    /\ s.alignment > 1 =>
          /\ is_power_of_two(s.alignment)
          /\ s.alignment <= plan.required_load_bias_alignment
          /\ s.virtual_address % s.alignment = s.offset % s.alignment

\* ... and of a PT_GNU_RELRO header.
RelroPlanned(r) ==
    /\ r.mapping_start <= r.virtual_address /\ r.virtual_address < r.mapping_end
    /\ r.mapping_start % PageSize = 0 /\ r.mapping_end % PageSize = 0
    /\ r.mapping_end <= AddressSpaceSize

BoundsOK ==
    /\ plan.minimum_page <= AddressSpaceSize /\ plan.minimum_page % PageSize = 0
    /\ plan.maximum_page_end <= AddressSpaceSize
    /\ plan.minimum_page # AddressSpaceSize =>
          \E i \in DOMAIN plan.segments : plan.segments[i].memory_size # 0

CountsOK ==
    /\ read \in 0 .. MaxHeaders
    /\ Len(plan.segments) + Len(plan.relro_segments) + Len(plan.dynamic_segment) <= read
    /\ Len(plan.dynamic_segment) <= 1

PlanInv ==
    /\ pc \in {"header", "table", "done"}
    /\ plan \in LoadPlans
    /\ CountsOK
    /\ BoundsOK
    /\ \A i \in DOMAIN plan.segments : SegmentPlanned(plan.segments[i])
    /\ \A i \in DOMAIN plan.relro_segments : RelroPlanned(plan.relro_segments[i])
    /\ \A i \in DOMAIN plan.dynamic_segment : plan.dynamic_segment[i].memory_size # 0
    /\ is_power_of_two(plan.required_load_bias_alignment)
    /\ AcceptedPlanIsWellFormed

(***************************************************************************)
(* Powers of two.                                                          *)
(***************************************************************************)
LEMMA OneIsPowerOfTwo == is_power_of_two(1)
  BY DEF is_power_of_two

\* Half of a power of two but one is a power of two.
LEMMA Half ==
    ASSUME NEW b \in Nat, is_power_of_two(b), b # 1
    PROVE  \E h \in Nat : b = 2 * h /\ h # 0 /\ h < b /\ is_power_of_two(h)
  <1>1. b \in Nat \ {0} /\ b \in Int
    BY DEF is_power_of_two
  <1>2. b % b = 0
    <2>1. (1 * b) % b = 0
      BY <1>1, Multiple
    <2> QED
      BY <1>1, <2>1
  <1>3. b % 2 = 0
    <2>1. b \in 1 .. b
      BY <1>1
    <2> QED
      BY <1>2, <2>1, Zenon DEF is_power_of_two
  <1> DEFINE h == b \div 2
  <1>4. h \in Nat /\ b = h * 2 + (b % 2)
    <2>1. 2 \in Nat \ {0}
      OBVIOUS
    <2> QED
      BY <1>1, <2>1, Division, Zenon
  <1> HIDE DEF h
  <1>5. b = 2 * h /\ h # 0 /\ h < b
    BY <1>1, <1>3, <1>4
  <1>6. ASSUME NEW d \in 1 .. h, h % d = 0
        PROVE  d = 1 \/ d % 2 = 0
    <2>1. d \in Nat \ {0} /\ h \in Int /\ d \in 1 .. b
      BY <1>4, <1>5
    <2>2. (h + h) % d = 0
      BY <2>1, <1>6, SumOfMultiples, Zenon
    <2>3. b % d = 0
      BY <1>4, <1>5, <2>2
    <2> QED
      BY <2>1, <2>3, Zenon DEF is_power_of_two
  <1> QED
    BY <1>4, <1>5, <1>6, Zenon DEF is_power_of_two

\* The smaller of two powers of two divides the larger.
LEMMA PowersDivide ==
    ASSUME NEW x \in Nat, NEW y \in Nat, is_power_of_two(x), is_power_of_two(y), x <= y
    PROVE  y % x = 0
  <1> DEFINE Divide(n) ==
                 \A a \in Nat, b \in Nat :
                     is_power_of_two(a) /\ is_power_of_two(b) /\ a <= b /\ b <= n => b % a = 0
             S == {n \in Nat : Divide(n)}
  <1>1. 0 \in S
    BY DEF is_power_of_two
  <1>2. ASSUME NEW n \in Nat, n \in S
        PROVE  n + 1 \in S
    <2> SUFFICES ASSUME NEW a \in Nat, NEW b \in Nat, is_power_of_two(a), is_power_of_two(b),
                        a <= b, b <= n + 1
                 PROVE  b % a = 0
      OBVIOUS
    <2>1. Divide(n) /\ a # 0 /\ b # 0
      BY <1>2, Zenon DEF is_power_of_two
    <2> HIDE DEF S
    <2>2. CASE a = 1
      <3>1. (b * 1) % 1 = 0
        BY Multiple
      <3> QED
        BY <2>2, <3>1
    <2>3. CASE a # 1
      <3>1. b # 1
        BY <2>1, <2>3
      <3>2. PICK g \in Nat : a = 2 * g /\ g # 0 /\ g < a /\ is_power_of_two(g)
        BY <2>3, Half, Zenon
      <3>3. PICK h \in Nat : b = 2 * h /\ h # 0 /\ h < b /\ is_power_of_two(h)
        BY <3>1, Half, Zenon
      <3>4. h % g = 0
        BY <2>1, <3>2, <3>3
      <3> DEFINE q == h \div g
      <3>5. q \in Int /\ h = q * g + (h % g)
        <4>1. g \in Nat \ {0} /\ h \in Int
          BY <3>2
        <4> QED
          BY <4>1, Division, Zenon
      <3> HIDE DEF q
      <3>6. b = q * a
        BY <3>2, <3>3, <3>4, <3>5
      <3> QED
        BY <2>1, <3>5, <3>6, Multiple, Zenon
    <2> QED
      BY <2>2, <2>3, Zenon
  <1>3. Nat \subseteq S
    <2> HIDE DEF S
    <2> QED
      BY <1>1, <1>2, InductionOnSets, Zenon
  <1>4. Divide(y)
    BY <1>3, Zenon
  <1> QED
    BY <1>4

(***************************************************************************)
(* Alignment and pages.                                                    *)
(***************************************************************************)
LEMMA MappingStartAligned ==
    ASSUME NEW v \in Nat
    PROVE  /\ MappingStart(v) \in Nat /\ MappingStart(v) <= v
           /\ MappingStart(v) % PageSize = 0
  <1> DEFINE q == v \div PageSize
             r == v % PageSize
  <1>1. PageSize \in Nat \ {0} /\ v \in Int
    BY PageSizeAssumption
  <1>2. q \in Nat /\ v = q * PageSize + r /\ r \in 0 .. PageSize - 1
    BY <1>1, Division, Zenon
  <1>3. MappingStart(v) = v - r
    BY Zenon DEF MappingStart, align_down
  <1> HIDE DEF q, r
  <1>4. MappingStart(v) = q * PageSize /\ q \in Int
    BY <1>1, <1>2, <1>3
  <1> QED
    BY <1>1, <1>2, <1>4, Multiple

LEMMA MappingEndAligned ==
    ASSUME NEW v \in Nat, NEW m \in Nat
    PROVE  /\ MappingEnd(v, m) \in Nat /\ v + m <= MappingEnd(v, m)
           /\ MappingEnd(v, m) % PageSize = 0
  <1> DEFINE x == v + m
             q == x \div PageSize
             r == x % PageSize
  <1>1. PageSize \in Nat \ {0} /\ x \in Int /\ x \in Nat
    BY PageSizeAssumption
  <1>2. q \in Nat /\ x = q * PageSize + r /\ r \in 0 .. PageSize - 1
    <2> HIDE DEF x
    <2> QED
      BY <1>1, Division, Zenon
  <1>3. MappingEnd(v, m) = IF r = 0 THEN x ELSE x + (PageSize - r)
    BY Zenon DEF MappingEnd, align_up
  <1> HIDE DEF x, q, r
  <1>4. CASE r = 0
    <2>1. MappingEnd(v, m) = x /\ x % PageSize = 0
      BY <1>3, <1>4, Zenon DEF r
    <2> QED
      BY <1>1, <2>1 DEF x
  <1>5. CASE r # 0
    <2>1. MappingEnd(v, m) = (q + 1) * PageSize /\ q + 1 \in Int
      BY <1>1, <1>2, <1>3, <1>5
    <2>2. x <= (q + 1) * PageSize /\ (q + 1) * PageSize \in Nat
      BY <1>1, <1>2
    <2>3. ((q + 1) * PageSize) % PageSize = 0
      BY <1>1, <2>1, Multiple, Zenon
    <2> QED
      BY <2>1, <2>2, <2>3, Zenon DEF x
  <1> QED
    BY <1>4, <1>5, Zenon

\* Page ranges that are aligned and apart share no page.
LEMMA ApartSharesNoPage ==
    ASSUME NEW s1 \in Nat, NEW e1 \in Nat, NEW s2 \in Nat, NEW e2 \in Nat,
           e1 <= s2, s2 % PageSize = 0
    PROVE  RangePages(s1, e1) \cap RangePages(s2, e2) = {}
  <1> SUFFICES ASSUME NEW p \in RangePages(s1, e1), p \in RangePages(s2, e2)
               PROVE  FALSE
    BY Zenon
  <1>1. PageSize \in Nat \ {0} /\ NumPages \in Nat \ {0} /\ s2 \in Int
    BY PageSizeAssumption, NumPagesAssumption
  <1>2. p \in Page /\ p * PageSize < s1 + (e1 - s1) /\ p >= s2 \div PageSize
    BY Zenon DEF RangePages, PagesOf, page_index
  <1> DEFINE q == s2 \div PageSize
  <1>3. q \in Nat /\ s2 = q * PageSize + (s2 % PageSize)
    BY <1>1, Division, Zenon
  <1>4. p \in Nat /\ p >= q
    BY <1>1, <1>2 DEF Page
  <1> HIDE DEF q
  <1>5. s2 = q * PageSize
    BY <1>1, <1>3
  <1>6. (p - q) * PageSize >= 0
    BY <1>1, <1>3, <1>4
  <1> QED
    BY <1>1, <1>2, <1>3, <1>4, <1>5, <1>6, SMTT(40)

(***************************************************************************)
(* The checks after the table.                                             *)
(***************************************************************************)
LEMMA FirstMember ==
    ASSUME NEW S \in SUBSET Nat, S # {}
    PROVE  First(S) \in S
  <1>1. \E i \in S : \A j \in S : i <= j
    BY LeastNatural, Zenon
  <1> QED
    BY <1>1, Zenon DEF First

\* Comparing neighbours in the sorted order finds every overlap: no segment
\* reaches past the start of a later one.
LEMMA NeighboursSuffice ==
    ASSUME plan.segments \in Seq(PlanSegments), NEW order \in Orders, ~NeighboursOverlap(order),
           NEW k \in DOMAIN order, NEW l \in DOMAIN order, k < l
    PROVE  plan.segments[order[k]].mapping_end <= plan.segments[order[l]].mapping_start
  <1> DEFINE N == Cardinality(Occupied)
             start(j) == plan.segments[order[j]].mapping_start
             end(j) == plan.segments[order[j]].mapping_end
  <1>1. N \in Nat
    <2>1. Len(plan.segments) \in Nat /\ DOMAIN plan.segments = 1 .. Len(plan.segments)
      OBVIOUS
    <2>2. IsFiniteSet(1 .. Len(plan.segments)) /\ Occupied \subseteq 1 .. Len(plan.segments)
      BY <2>1, FS_Interval DEF Occupied
    <2> QED
      BY <2>2, FS_Subset, FS_CardinalityType, Zenon
  <1>2. DOMAIN order = 1 .. N /\ order \in [1 .. N -> Occupied]
    BY Zenon DEF Orders
  <1>3. \A j \in 1 .. N : start(j) \in Nat /\ end(j) \in Nat
    <2> SUFFICES ASSUME NEW j \in 1 .. N
                 PROVE  start(j) \in Nat /\ end(j) \in Nat
      BY Zenon
    <2>1. order[j] \in DOMAIN plan.segments
      BY <1>2, Zenon DEF Occupied
    <2>2. plan.segments[order[j]] \in PlanSegments
      BY <2>1
    <2> QED
      BY <2>2, Zenon DEF PlanSegments
  <1>4. \A j \in 1 .. N : j # 1 => start(j - 1) <= start(j) /\ end(j - 1) <= start(j)
    <2> SUFFICES ASSUME NEW j \in 1 .. N, j # 1
                 PROVE  start(j - 1) <= start(j) /\ end(j - 1) <= start(j)
      BY Zenon
    <2>1. j - 1 \in 1 .. N
      BY <1>1
    <2>2. start(j - 1) <= start(j)
      BY <1>2, Zenon DEF Orders
    <2>3. ~(start(j) < end(j - 1))
      BY <1>2, Zenon DEF NeighboursOverlap
    <2>4. start(j) \in Nat /\ end(j - 1) \in Nat
      BY <1>3, <2>1, Zenon
    <2> HIDE DEF start, end
    <2> QED
      BY <2>2, <2>3, <2>4
  <1> HIDE DEF N, start, end
  <1> DEFINE S == {d \in Nat : \A j \in 1 .. N : j + d + 1 \in 1 .. N => end(j) <= start(j + d + 1)}
  <1>5. 0 \in S
    <2> SUFFICES ASSUME NEW j \in 1 .. N, j + 0 + 1 \in 1 .. N
                 PROVE  end(j) <= start(j + 0 + 1)
      BY Zenon
    <2>1. j + 1 \in 1 .. N /\ j + 1 # 1 /\ (j + 1) - 1 = j /\ j + 0 + 1 = j + 1
      BY <1>1
    <2>2. end((j + 1) - 1) <= start(j + 1)
      BY <1>4, <2>1, Zenon
    <2> QED
      BY <2>1, <2>2, Zenon
  <1>6. ASSUME NEW d \in Nat, d \in S
        PROVE  d + 1 \in S
    <2> SUFFICES ASSUME NEW j \in 1 .. N, j + (d + 1) + 1 \in 1 .. N
                 PROVE  end(j) <= start(j + (d + 1) + 1)
      OBVIOUS
    <2> DEFINE i == j + (d + 1) + 1
               h == j + d + 1
    <2>1. i \in 1 .. N /\ i # 1 /\ i - 1 = h /\ h \in 1 .. N
      BY <1>1
    <2>2. end(j) <= start(h)
      BY <1>6, <2>1, Zenon
    <2> HIDE DEF i, h
    <2>3. start(h) <= start(i)
      <3>1. start(i - 1) <= start(i)
        BY <1>4, <2>1, Zenon
      <3> QED
        BY <2>1, <3>1, Zenon
    <2>4. end(j) \in Nat /\ start(h) \in Nat /\ start(i) \in Nat
      BY <1>3, <2>1, Zenon
    <2>5. end(j) <= start(i)
      BY <2>2, <2>3, <2>4
    <2> QED
      BY <2>5, Zenon DEF i
  <1>7. Nat \subseteq S
    <2> HIDE DEF S
    <2> QED
      BY <1>5, <1>6, InductionOnSets, Zenon
  <1> DEFINE d == l - k - 1
  <1>8. d \in Nat /\ k \in 1 .. N /\ l \in 1 .. N /\ k + d + 1 = l
    BY <1>1, <1>2
  <1>9. d \in S
    BY <1>7, <1>8, SMTT(40)
  <1> HIDE DEF d
  <1>10. end(k) <= start(l)
    BY <1>8, <1>9, Zenon
  <1> QED
    BY <1>10, Zenon DEF start, end

LEMMA AcceptedSegmentsDisjoint ==
    ASSUME PlanInv, NEW order \in Orders, ~NeighboursOverlap(order)
    PROVE  SegmentsDisjoint(plan)
  <1>1. plan.segments \in Seq(PlanSegments)
    BY Zenon DEF PlanInv, LoadPlans
  <1>2. Cardinality(Occupied) \in Nat
    <2>1. Len(plan.segments) \in Nat /\ DOMAIN plan.segments = 1 .. Len(plan.segments)
      BY <1>1
    <2>2. IsFiniteSet(1 .. Len(plan.segments)) /\ Occupied \subseteq 1 .. Len(plan.segments)
      BY <2>1, FS_Interval DEF Occupied
    <2> QED
      BY <2>2, FS_Subset, FS_CardinalityType, Zenon
  <1>3. ASSUME NEW k \in DOMAIN order, NEW l \in DOMAIN order, k < l
        PROVE  SegmentPages(plan.segments[order[k]]) \cap SegmentPages(plan.segments[order[l]]) = {}
    <2> DEFINE s == plan.segments[order[k]]
               t == plan.segments[order[l]]
    <2>1. order[k] \in Occupied /\ order[l] \in Occupied
      BY Zenon DEF Orders
    <2>2. s \in PlanSegments /\ t \in PlanSegments /\ s.memory_size # 0 /\ t.memory_size # 0
      BY <1>1, <2>1 DEF Occupied
    <2>3. s.mapping_end <= t.mapping_start
      BY <1>1, <1>3, NeighboursSuffice, Zenon
    <2>4. t.mapping_start % PageSize = 0
      BY <2>1, <2>2, Zenon DEF PlanInv, SegmentPlanned, SegmentWellFormed, Occupied
    <2> HIDE DEF s, t
    <2>5. /\ s.mapping_start \in Nat /\ s.mapping_end \in Nat
          /\ t.mapping_start \in Nat /\ t.mapping_end \in Nat
      BY <2>2, Zenon DEF PlanSegments
    <2>6. RangePages(s.mapping_start, s.mapping_end) \cap RangePages(t.mapping_start, t.mapping_end)
             = {}
      BY <2>3, <2>4, <2>5, ApartSharesNoPage, Zenon
    <2> QED
      BY <2>2, <2>6, Zenon DEF SegmentPages, s, t
  <1> SUFFICES ASSUME NEW i \in DOMAIN plan.segments, NEW j \in DOMAIN plan.segments, i # j
               PROVE  SegmentPages(plan.segments[i]) \cap SegmentPages(plan.segments[j]) = {}
    BY Zenon DEF SegmentsDisjoint
  <1>4. CASE i \in Occupied /\ j \in Occupied
    <2>1. PICK k \in DOMAIN order : order[k] = i
      BY <1>4, Zenon DEF Orders
    <2>2. PICK l \in DOMAIN order : order[l] = j
      BY <1>4, Zenon DEF Orders
    <2>3. DOMAIN order = 1 .. Cardinality(Occupied)
      BY Zenon DEF Orders
    <2>4. k \in Nat /\ l \in Nat /\ k # l
      BY <1>2, <2>1, <2>2, <2>3
    <2>5. CASE k < l
      BY <1>3, <2>1, <2>2, <2>5, Zenon
    <2>6. CASE l < k
      <3>1. SegmentPages(plan.segments[j]) \cap SegmentPages(plan.segments[i]) = {}
        BY <1>3, <2>1, <2>2, <2>6, Zenon
      <3> QED
        BY <3>1, Zenon
    <2> QED
      BY <2>4, <2>5, <2>6
  <1>5. CASE i \notin Occupied \/ j \notin Occupied
    BY <1>5, Zenon DEF Occupied, SegmentPages
  <1> QED
    BY <1>4, <1>5, Zenon

LEMMA AcceptedDynamicBacked ==
    ASSUME PlanInv,
           plan.dynamic_segment = NoDynamic \/ contained_error(plan.dynamic_segment[1]) = "None"
    PROVE  DynamicBacked(plan)
  <1> SUFFICES ASSUME NEW k \in DOMAIN plan.dynamic_segment
               PROVE  \E i \in DOMAIN plan.segments :
                         LET s == plan.segments[i]
                             d == plan.dynamic_segment[k] IN
                         /\ Read \in s.permissions
                         /\ s.memory_size # 0 /\ d.memory_size # 0
                         /\ s.virtual_address <= d.virtual_address
                         /\ d.virtual_address + d.memory_size
                               <= s.virtual_address + s.memory_size
                         /\ d.file_size # 0 =>
                               d.virtual_address - d.offset = s.virtual_address - s.offset
    BY ZenonT(40) DEF DynamicBacked
  <1> DEFINE d == plan.dynamic_segment[k]
  <1>1. /\ plan.dynamic_segment \in Seq(PlanDynamicSegments) /\ Len(plan.dynamic_segment) <= 1
        /\ plan.segments \in Seq(PlanSegments)
    BY Zenon DEF PlanInv, LoadPlans, CountsOK
  <1>2. k = 1 /\ d \in PlanDynamicSegments /\ plan.dynamic_segment # NoDynamic
    BY <1>1 DEF NoDynamic
  <1>3. d.memory_size # 0 /\ contained_error(d) = "None"
    BY <1>2, Zenon DEF PlanInv
  <1> HIDE DEF d
  <1> DEFINE S == ReadableAmong(Containing(d))
             i == First(S)
  <1>4. S # {} /\ ~FileMappingMismatch(d, plan.segments[i])
    BY <1>3, Zenon DEF contained_error
  <1>5. S \in SUBSET Nat
    BY <1>1 DEF ReadableAmong, Containing, Occupied
  <1>6. i \in S
    <2> HIDE DEF S
    <2> QED
      BY <1>4, <1>5, FirstMember, Zenon
  <1> HIDE DEF i
  <1>7. i \in DOMAIN plan.segments /\ plan.segments[i].memory_size # 0
    BY <1>6, Zenon DEF ReadableAmong, Containing, Occupied
  <1> DEFINE s == plan.segments[i]
  <1>8. /\ Read \in s.permissions /\ d.virtual_address >= s.virtual_address
        /\ d.virtual_address + d.memory_size <= s.virtual_address + s.memory_size
    BY <1>6, Zenon DEF ReadableAmong, Containing
  <1>9. s \in PlanSegments /\ ~FileMappingMismatch(d, s)
    BY <1>1, <1>4, <1>7
  <1>10. Read \in s.permissions /\ s.memory_size # 0
    BY <1>7, <1>8, Zenon
  <1> HIDE DEF s
  <1>11. /\ d.virtual_address \in Nat /\ d.offset \in Nat /\ d.file_size \in Nat
         /\ s.virtual_address \in Nat /\ s.offset \in Nat /\ s.file_size \in Nat
    BY <1>2, <1>9, Zenon DEF PlanDynamicSegments, PlanSegments
  <1>12. d.file_size # 0 => s.offset + (d.virtual_address - s.virtual_address) = d.offset
    BY <1>9, Zenon DEF FileMappingMismatch
  <1>13. d.file_size # 0 => d.virtual_address - d.offset = s.virtual_address - s.offset
    BY <1>11, <1>12
  <1>14. s.virtual_address <= d.virtual_address
    BY <1>8, <1>11, Zenon DEF s
  <1> QED
    BY <1>3, <1>7, <1>8, <1>10, <1>13, <1>14, SMTT(40) DEF d, s

\* An aligned range that is not empty has a last page.
LEMMA LastPageIsThere ==
    ASSUME NEW start \in Nat, NEW end \in Nat,
           start < end, end <= AddressSpaceSize, end % PageSize = 0
    PROVE  (end \div PageSize) - 1 \in RangePages(start, end)
  <1> DEFINE q == end \div PageSize
             b == start \div PageSize
  <1>1. PageSize \in Nat \ {0} /\ NumPages \in Nat \ {0} /\ end \in Int /\ start \in Int
    BY PageSizeAssumption, NumPagesAssumption
  <1>2. /\ q \in Nat /\ end = q * PageSize + (end % PageSize)
        /\ b \in Nat /\ start = b * PageSize + (start % PageSize)
        /\ start % PageSize \in 0 .. PageSize - 1
    BY <1>1, Division, Zenon
  <1> HIDE DEF q, b
  <1>3. end = q * PageSize
    BY <1>1, <1>2
  <1>4. b < q
    <2>1. b * PageSize < q * PageSize
      BY <1>1, <1>2, <1>3
    <2>2. CASE b >= q
      <3>1. (b - q) * PageSize >= 0
        BY <1>1, <1>2, <2>2
      <3> QED
        BY <1>1, <1>2, <2>1, <3>1
    <2> QED
      BY <1>2, <2>2
  <1>5. q <= NumPages
    <2>1. CASE q > NumPages
      <3>1. (q - NumPages) * PageSize > 0
        BY <1>1, <1>2, <2>1
      <3> QED
        BY <1>1, <1>2, <1>3, <3>1, SMTT(40) DEF AddressSpaceSize
    <2> QED
      BY <1>1, <1>2, <2>1
  <1>6. q - 1 \in Page /\ q - 1 >= b
    BY <1>1, <1>2, <1>4, <1>5 DEF Page
  <1>7. (q - 1) * PageSize < start + (end - start)
    BY <1>1, <1>2, <1>3
  <1> QED
    BY <1>6, <1>7, Zenon DEF RangePages, PagesOf, page_index, b, q

\* Where the last page of one aligned range lies in another, the first ends no
\* later.
LEMMA LastPageBounds ==
    ASSUME NEW end \in Nat, NEW t \in Nat, NEW e \in Nat, end % PageSize = 0, e % PageSize = 0,
           (end \div PageSize) - 1 \in RangePages(t, e)
    PROVE  end <= e
  <1> DEFINE q == end \div PageSize
             f == e \div PageSize
  <1>1. PageSize \in Nat \ {0} /\ end \in Int /\ e \in Int
    BY PageSizeAssumption
  <1>2. /\ q \in Nat /\ end = q * PageSize + (end % PageSize)
        /\ f \in Nat /\ e = f * PageSize + (e % PageSize)
    BY <1>1, Division, Zenon
  <1>3. (q - 1) * PageSize < t + (e - t)
    BY Zenon DEF RangePages, PagesOf
  <1> HIDE DEF q, f
  <1>4. end = q * PageSize /\ e = f * PageSize
    BY <1>1, <1>2
  <1>5. (q - 1) * PageSize < f * PageSize
    BY <1>1, <1>2, <1>3, <1>4
  <1>6. CASE q > f
    <2>1. (q - 1 - f) * PageSize >= 0
      BY <1>1, <1>2, <1>6
    <2> QED
      BY <1>1, <1>2, <1>5, <2>1
  <1>7. CASE q <= f
    <2>1. (f - q) * PageSize >= 0
      BY <1>1, <1>2, <1>7
    <2> QED
      BY <1>1, <1>2, <1>4, <2>1, SMTT(40)
  <1> QED
    BY <1>2, <1>6, <1>7

LEMMA NoBadRelros ==
    ASSUME PlanInv,
           BadRelros # {} => relro_page_error(First(BadRelroPages(
                                 plan.relro_segments[First(BadRelros)]))) = "None"
    PROVE  BadRelros = {}
  <1> SUFFICES ASSUME BadRelros # {}
               PROVE  FALSE
    BY Zenon
  <1>1. BadRelros \in SUBSET Nat
    BY SMTT(40) DEF PlanInv, LoadPlans, BadRelros
  <1> DEFINE bad == BadRelroPages(plan.relro_segments[First(BadRelros)])
  <1>2. First(BadRelros) \in BadRelros
    BY <1>1, FirstMember, Zenon
  <1>3. bad # {}
    BY <1>2, Zenon DEF BadRelros
  <1>4. bad \in SUBSET Nat
    BY NumPagesAssumption DEF BadRelroPages, RangePages, PagesOf, Page
  <1>5. First(bad) \in bad
    <2> HIDE DEF bad
    <2> QED
      BY <1>3, <1>4, FirstMember, Zenon
  <1> QED
    BY <1>5, Zenon DEF BadRelroPages

LEMMA AcceptedRelroBacked ==
    ASSUME PlanInv, BadRelros = {}
    PROVE  RelroBacked(plan)
  <1> SUFFICES ASSUME NEW k \in DOMAIN plan.relro_segments
               PROVE  LET r == plan.relro_segments[k] IN
                      /\ r.mapping_start <= r.virtual_address /\ r.virtual_address < r.mapping_end
                      /\ r.mapping_end <= plan.maximum_page_end
                      /\ \A p \in RangePages(r.mapping_start, r.mapping_end) :
                            \E i \in DOMAIN plan.segments :
                                /\ p \in SegmentPages(plan.segments[i])
                                /\ Read \in plan.segments[i].permissions
    BY Zenon DEF RelroBacked
  <1> DEFINE r == plan.relro_segments[k]
  <1>1. r \in PlanRelroSegments /\ RelroPlanned(r) /\ plan.segments \in Seq(PlanSegments)
    BY DEF PlanInv, LoadPlans
  <1>2. BadRelroPages(r) = {}
    BY Zenon DEF BadRelros
  <1> HIDE DEF r
  <1>3. ASSUME NEW p \in RangePages(r.mapping_start, r.mapping_end)
        PROVE  \E i \in Occupied : /\ p \in SegmentPages(plan.segments[i])
                                   /\ Read \in plan.segments[i].permissions
    <2>1. relro_page_error(p) = "None"
      BY <1>2, Zenon DEF BadRelroPages
    <2>2. /\ PageHolders(p) # {}
          /\ Read \in plan.segments[First(PageHolders(p))].permissions
      BY <2>1, Zenon DEF relro_page_error
    <2>3. PageHolders(p) \in SUBSET Nat
      BY <1>1 DEF PageHolders, Occupied
    <2>4. First(PageHolders(p)) \in PageHolders(p)
      BY <2>2, <2>3, FirstMember, Zenon
    <2> QED
      BY <2>2, <2>4, Zenon DEF PageHolders
  <1>4. /\ r.mapping_start \in Nat /\ r.virtual_address \in Nat /\ r.mapping_end \in Nat
        /\ r.mapping_start <= r.virtual_address /\ r.virtual_address < r.mapping_end
        /\ r.mapping_end % PageSize = 0 /\ r.mapping_end <= AddressSpaceSize
    BY <1>1, Zenon DEF PlanRelroSegments, RelroPlanned
  <1>5. r.mapping_end <= plan.maximum_page_end
    <2> DEFINE q == (r.mapping_end \div PageSize) - 1
    <2>1. CASE q \in RangePages(r.mapping_start, r.mapping_end)
      <3>1. PICK i \in Occupied : q \in SegmentPages(plan.segments[i])
        BY <1>3, <2>1, Zenon
      <3> DEFINE s == plan.segments[i]
      <3>2. /\ s \in PlanSegments /\ s.memory_size # 0 /\ SegmentWellFormed(plan, s)
        BY <1>1 DEF Occupied, PlanInv, SegmentPlanned
      <3>3. q \in RangePages(s.mapping_start, s.mapping_end)
        BY <3>1, <3>2, Zenon DEF SegmentPages
      <3> HIDE DEF s
      <3>4. /\ s.mapping_start \in Nat /\ s.mapping_end \in Nat /\ s.mapping_end % PageSize = 0
            /\ s.mapping_end <= plan.maximum_page_end /\ plan.maximum_page_end \in Nat
        BY <3>2, Zenon DEF PlanSegments, SegmentWellFormed, PlanInv, LoadPlans
      <3>5. r.mapping_end <= s.mapping_end
        BY <1>4, <3>3, <3>4, LastPageBounds, Zenon
      <3> QED
        BY <1>4, <3>4, <3>5, SMTT(40)
    <2>2. CASE q \notin RangePages(r.mapping_start, r.mapping_end)
      <3>1. r.mapping_start < r.mapping_end
        BY <1>4
      <3> QED
        BY <1>4, <2>2, <3>1, LastPageIsThere, Zenon
    <2> QED
      BY <2>1, <2>2, Zenon
  <1> QED
    BY <1>3, <1>4, <1>5, Zenon DEF r, Occupied

\* What the table and the checks after it establish together.
LEMMA FinishAccepts ==
    ASSUME PlanInv, NEW order \in Orders, finish_error(order) = "None"
    PROVE  WellFormed(plan) /\ FileBytesInImage
  <1>1. /\ ~(plan.segments = <<>> \/ plan.minimum_page = AddressSpaceSize)
        /\ plan.dynamic_segment = NoDynamic \/ contained_error(plan.dynamic_segment[1]) = "None"
        /\ ~NeighboursOverlap(order)
        /\ BadRelros # {} => relro_page_error(First(BadRelroPages(
                                 plan.relro_segments[First(BadRelros)]))) = "None"
    BY Zenon DEF finish_error
  <1>2. SegmentsDisjoint(plan) /\ DynamicBacked(plan) /\ RelroBacked(plan)
    BY <1>1, AcceptedSegmentsDisjoint, AcceptedDynamicBacked, NoBadRelros, AcceptedRelroBacked,
       Zenon
  <1>3. plan \in LoadPlans /\ \A i \in DOMAIN plan.segments : SegmentWellFormed(plan, plan.segments[i])
    BY Zenon DEF PlanInv, SegmentPlanned
  <1>4. PICK i \in DOMAIN plan.segments : plan.segments[i].memory_size # 0
    BY <1>1, Zenon DEF PlanInv, BoundsOK
  <1>5. plan.minimum_page < plan.maximum_page_end
    <2> DEFINE s == plan.segments[i]
    <2>1. s \in PlanSegments /\ SegmentWellFormed(plan, s) /\ s.memory_size # 0
      BY <1>3, <1>4 DEF LoadPlans
    <2> HIDE DEF s
    <2>2. /\ s.mapping_start \in Nat /\ s.mapping_end \in Nat /\ s.virtual_address \in Nat
          /\ s.memory_size \in Nat /\ plan.minimum_page \in Nat /\ plan.maximum_page_end \in Nat
      BY <1>3, <2>1, Zenon DEF LoadPlans, PlanSegments
    <2>3. /\ s.mapping_start <= s.virtual_address
          /\ s.virtual_address + s.memory_size <= s.mapping_end
          /\ plan.minimum_page <= s.mapping_start /\ s.mapping_end <= plan.maximum_page_end
      BY <2>1, Zenon DEF SegmentWellFormed
    <2> QED
      BY <2>1, <2>2, <2>3
  <1>6. plan.minimum_page % PageSize = 0 /\ plan.maximum_page_end <= AddressSpaceSize
    BY Zenon DEF PlanInv, BoundsOK
  <1> DEFINE a == plan.required_load_bias_alignment
  <1>7. a \in Nat /\ is_power_of_two(a) /\ PageSize \in Nat /\ is_power_of_two(PageSize)
    BY <1>3, PageSizeAssumption, PageSizeIsPowerOfTwo, Zenon DEF PlanInv, LoadPlans
  <1>8. BiasAlignmentFitsPages(plan)
    <2> HIDE DEF a
    <2>1. a # 0
      BY <1>7, Zenon DEF is_power_of_two
    <2>2. PageSize % a = 0 \/ a % PageSize = 0
      <3>1. a <= PageSize \/ PageSize <= a
        BY <1>7, SMTT(40)
      <3> QED
        BY <1>7, <3>1, PowersDivide, Zenon
    <2> QED
      BY <2>1, <2>2, Zenon DEF BiasAlignmentFitsPages, a
  <1>9. BiasKeepsCongruence(plan)
    <2> SUFFICES ASSUME NEW k \in DOMAIN plan.segments, plan.segments[k].alignment > 1
                 PROVE  /\ a % plan.segments[k].alignment = 0
                        /\ plan.segments[k].virtual_address % plan.segments[k].alignment
                              = plan.segments[k].offset % plan.segments[k].alignment
      BY Zenon DEF BiasKeepsCongruence
    <2> DEFINE s == plan.segments[k]
    <2>1. s \in PlanSegments /\ SegmentPlanned(s) /\ s.alignment > 1
      BY <1>3 DEF LoadPlans, PlanInv
    <2> HIDE DEF s
    <2>2. /\ s.alignment \in Nat /\ is_power_of_two(s.alignment) /\ s.alignment <= a
          /\ s.virtual_address % s.alignment = s.offset % s.alignment
      BY <2>1, Zenon DEF PlanSegments, SegmentPlanned
    <2> HIDE DEF a
    <2>3. a % s.alignment = 0
      BY <1>7, <2>2, PowersDivide, Zenon
    <2> QED
      BY <2>2, <2>3, Zenon DEF s
  <1>10. FileBytesInImage
    BY Zenon DEF FileBytesInImage, PlanInv, SegmentPlanned
  <1> QED
    BY <1>2, <1>3, <1>4, <1>5, <1>6, <1>8, <1>9, <1>10, Zenon DEF WellFormed

(***************************************************************************)
(* The steps.                                                              *)
(***************************************************************************)
LEMMA EmptyPlanOK ==
    ASSUME NEW type \in {"Dynamic", "Executable"}, plan' = EmptyPlan(type),
           pc' \in {"header", "table"}, read' \in 0 .. MaxHeaders
    PROVE  PlanInv'
  <1>1. PageSize \in Nat \ {0} /\ NumPages \in Nat \ {0} /\ AddressSpaceSize \in Nat
    BY PageSizeAssumption, NumPagesAssumption DEF AddressSpaceSize
  <1>2. AddressSpaceSize % PageSize = 0
    BY <1>1, Multiple DEF AddressSpaceSize
  <1>3. plan' \in LoadPlans
    BY <1>1 DEF EmptyPlan, LoadPlans, NoDynamic
  <1>4. /\ plan'.segments = <<>> /\ plan'.dynamic_segment = <<>> /\ plan'.relro_segments = <<>>
        /\ plan'.minimum_page = AddressSpaceSize /\ plan'.maximum_page_end = 0
        /\ plan'.required_load_bias_alignment = 1
    BY Zenon DEF EmptyPlan, NoDynamic
  <1>5. BoundsOK'
    BY <1>1, <1>2, <1>4 DEF BoundsOK
  <1>6. CountsOK'
    <2>1. MaxHeaders \in Nat
      BY HeadersAssumption, Zenon
    <2>2. Len(plan'.segments) = 0 /\ Len(plan'.relro_segments) = 0 /\ Len(plan'.dynamic_segment) = 0
      BY <1>4, Zenon
    <2> QED
      BY <2>1, <2>2 DEF CountsOK
  <1>7. AcceptedPlanIsWellFormed'
    BY Zenon DEF AcceptedPlanIsWellFormed
  <1>8. is_power_of_two(plan'.required_load_bias_alignment)
    BY <1>4, OneIsPowerOfTwo, Zenon
  <1> QED
    BY <1>3, <1>4, <1>5, <1>6, <1>7, <1>8, SMTT(40) DEF PlanInv, is_power_of_two

\* A step that keeps the plan keeps what was established of it.
LEMMA SamePlanPreserves ==
    ASSUME PlanInv, UNCHANGED plan, pc' \in {"header", "table", "done"},
           read' = read \/ (read < MaxHeaders /\ read' = read + 1), AcceptedPlanIsWellFormed'
    PROVE  PlanInv'
  <1>1. CountsOK'
    BY HeadersAssumption, SMTT(40) DEF PlanInv, CountsOK, LoadPlans
  <1>2. BoundsOK' /\ plan' \in LoadPlans /\ is_power_of_two(plan'.required_load_bias_alignment)
    BY Zenon DEF PlanInv, BoundsOK
  <1>3. /\ \A i \in DOMAIN plan'.segments : SegmentPlanned(plan.segments[i])'
        /\ \A i \in DOMAIN plan'.relro_segments : RelroPlanned(plan'.relro_segments[i])
        /\ \A i \in DOMAIN plan'.dynamic_segment : plan'.dynamic_segment[i].memory_size # 0
    BY Zenon DEF PlanInv, SegmentPlanned
  <1> QED
    BY <1>1, <1>2, <1>3, Zenon DEF PlanInv, is_power_of_two, RelroPlanned

\* An error return keeps the plan, which nobody will see.
LEMMA ErrorPreserves ==
    ASSUME PlanInv, NEW e, e # "None", Return(e), UNCHANGED plan,
           read' = read \/ (read < MaxHeaders /\ read' = read + 1)
    PROVE  PlanInv'
  <1>1. AcceptedPlanIsWellFormed' /\ pc' = "done"
    BY Zenon DEF Return, AcceptedPlanIsWellFormed
  <1> QED
    BY <1>1, SamePlanPreserves

\* Being well formed is a matter of the plan alone.
LEMMA SamePlanWellFormed ==
    ASSUME WellFormed(plan), UNCHANGED plan
    PROVE  WellFormed(plan)'
  <1>1. (plan \in LoadPlans)'
    BY Zenon DEF WellFormed, LoadPlans, PlanSegments, PlanDynamicSegments, PlanRelroSegments
  <1>2. \A i \in DOMAIN plan'.segments : SegmentWellFormed(plan, plan.segments[i])'
    BY Zenon DEF WellFormed, SegmentWellFormed, decodable_flags
  <1>3. SegmentsDisjoint(plan)'
    BY SMTT(40) DEF WellFormed, SegmentsDisjoint, SegmentPages, RangePages, PagesOf, page_index
  <1>4. DynamicBacked(plan)'
    BY SMTT(40) DEF WellFormed, DynamicBacked
  <1>5. RelroBacked(plan)'
    BY SMTT(40) DEF WellFormed, RelroBacked, SegmentPages, RangePages, PagesOf, page_index
  <1>6. BiasAlignmentFitsPages(plan)' /\ BiasKeepsCongruence(plan)'
    BY Zenon DEF WellFormed, BiasAlignmentFitsPages, BiasKeepsCongruence
  <1>7. /\ plan'.minimum_page < plan'.maximum_page_end /\ plan'.minimum_page % PageSize = 0
        /\ plan'.maximum_page_end <= AddressSpaceSize
        /\ \E i \in DOMAIN plan'.segments : plan'.segments[i].memory_size # 0
    BY Zenon DEF WellFormed
  <1> QED
    BY <1>1, <1>2, <1>3, <1>4, <1>5, <1>6, <1>7, Zenon DEF WellFormed, AddressSpaceSize

\* One header more has been read, and the plan has at most one entry more.
LEMMA CountsGrow ==
    ASSUME PlanInv, plan' \in LoadPlans, read < MaxHeaders, read' = read + 1,
           Len(plan'.segments) + Len(plan'.relro_segments) + Len(plan'.dynamic_segment)
              <= Len(plan.segments) + Len(plan.relro_segments) + Len(plan.dynamic_segment) + 1,
           Len(plan'.dynamic_segment) <= 1
    PROVE  CountsOK'
  <1> DEFINE a == Len(plan.segments) + Len(plan.relro_segments) + Len(plan.dynamic_segment)
             b == Len(plan'.segments) + Len(plan'.relro_segments) + Len(plan'.dynamic_segment)
  <1>1. a \in Nat
    BY DEF PlanInv, LoadPlans
  <1>2. b \in Nat
    BY DEF LoadPlans
  <1>3. MaxHeaders \in Nat
    BY HeadersAssumption, Zenon
  <1>4. read \in 0 .. MaxHeaders /\ a <= read
    BY Zenon DEF PlanInv, CountsOK
  <1>5. b <= a + 1
    BY Zenon
  <1> HIDE DEF a, b
  <1>6. read' \in 0 .. MaxHeaders /\ b <= read'
    BY <1>1, <1>2, <1>3, <1>4, <1>5
  <1> QED
    BY <1>6, Zenon DEF CountsOK, b

LEMMA PlanFields ==
    ASSUME NEW p \in LoadPlans
    PROVE  /\ p.segments \in Seq(PlanSegments) /\ p.dynamic_segment \in Seq(PlanDynamicSegments)
           /\ p.relro_segments \in Seq(PlanRelroSegments) /\ p.minimum_page \in Nat
           /\ p.maximum_page_end \in Nat /\ p.required_load_bias_alignment \in Nat
  BY Zenon DEF LoadPlans

\* A header of another kind leaves what the PT_LOAD headers established.
LEMMA SegmentsKept ==
    ASSUME PlanInv, plan'.segments = plan.segments, plan'.minimum_page = plan.minimum_page,
           plan'.maximum_page_end = plan.maximum_page_end,
           plan'.required_load_bias_alignment = plan.required_load_bias_alignment
    PROVE  \A i \in DOMAIN plan'.segments : SegmentPlanned(plan.segments[i])'
  <1> SUFFICES ASSUME NEW i \in DOMAIN plan.segments
               PROVE  SegmentPlanned(plan.segments[i])'
    BY Zenon
  <1> DEFINE s == plan.segments[i]
  <1>1. SegmentWellFormed(plan, s) /\ s.offset + s.file_size <= ImageSize /\ (s.alignment > 1 =>
              /\ is_power_of_two(s.alignment)
              /\ s.alignment <= plan.required_load_bias_alignment
              /\ s.virtual_address % s.alignment = s.offset % s.alignment)
    BY Zenon DEF PlanInv, SegmentPlanned
  <1>2. s' = s
    BY Zenon
  <1>3. SegmentWellFormed(plan, s)'
    BY <1>1, <1>2, Zenon DEF SegmentWellFormed
  <1> QED
    BY <1>1, <1>2, <1>3, Zenon DEF SegmentPlanned

LEMMA ReadDynamicPreserves ==
    ASSUME PlanInv, NEW d \in DynamicHeaders, pc = "table", read < MaxHeaders, read' = read + 1,
           dynamic_error(d) = "None", plan' = DynamicPlan(d), UNCHANGED <<pc, error>>
    PROVE  PlanInv'
  <1>1. plan.dynamic_segment = <<>> /\ d.memory_size # 0 /\ d \in PlanDynamicSegments
    BY HeadersAssumption, Zenon DEF dynamic_error, NoDynamic
  <1>2. plan \in LoadPlans
    BY Zenon DEF PlanInv
  <1>3. /\ plan' \in LoadPlans /\ plan'.dynamic_segment = <<d>>
        /\ plan'.segments = plan.segments /\ plan'.relro_segments = plan.relro_segments
        /\ plan'.minimum_page = plan.minimum_page
        /\ plan'.maximum_page_end = plan.maximum_page_end
        /\ plan'.required_load_bias_alignment = plan.required_load_bias_alignment
    <2> DEFINE grown == <<d>>
    <2>1. grown \in Seq(PlanDynamicSegments)
      BY <1>1
    <2>2. plan' = [plan EXCEPT !.dynamic_segment = grown]
      BY Zenon DEF DynamicPlan
    <2> HIDE DEF grown
    <2>3. /\ plan' \in LoadPlans /\ plan'.dynamic_segment = grown
          /\ plan'.segments = plan.segments /\ plan'.relro_segments = plan.relro_segments
          /\ plan'.minimum_page = plan.minimum_page
          /\ plan'.maximum_page_end = plan.maximum_page_end
          /\ plan'.required_load_bias_alignment = plan.required_load_bias_alignment
      BY <1>2, <2>1, <2>2, ZenonT(40) DEF LoadPlans
    <2> QED
      BY <2>3, Zenon DEF grown
  <1>4. CountsOK'
    <2>1. Len(plan.dynamic_segment) = 0 /\ Len(plan'.dynamic_segment) = 1
      BY <1>1, <1>3
    <2>2. /\ Len(plan.segments) \in Nat /\ Len(plan.relro_segments) \in Nat
      BY <1>2, SMTT(40) DEF LoadPlans
    <2> QED
      BY <1>3, <2>1, <2>2, CountsGrow, SMTT(40)
  <1>5. BoundsOK'
    BY <1>3, Zenon DEF PlanInv, BoundsOK
  <1>6. \A i \in DOMAIN plan'.segments : SegmentPlanned(plan.segments[i])'
    BY <1>3, SegmentsKept, Zenon
  <1>7. \A i \in DOMAIN plan'.dynamic_segment : plan'.dynamic_segment[i].memory_size # 0
    BY <1>1, <1>3, SMTT(40)
  <1>8. \A i \in DOMAIN plan'.relro_segments : RelroPlanned(plan'.relro_segments[i])
    BY <1>3 DEF PlanInv
  <1>9. AcceptedPlanIsWellFormed'
    BY Zenon DEF AcceptedPlanIsWellFormed
  <1>10. is_power_of_two(plan'.required_load_bias_alignment)
    BY <1>3, Zenon DEF PlanInv
  <1> QED
    BY <1>3, <1>4, <1>5, <1>6, <1>7, <1>8, <1>9, <1>10, Zenon
    DEF PlanInv, is_power_of_two, RelroPlanned

LEMMA ReadRelroPreserves ==
    ASSUME PlanInv, NEW r \in RelroHeaders, pc = "table", read < MaxHeaders, read' = read + 1,
           relro_error(r) = "None", plan' = RelroPlan(r), UNCHANGED <<pc, error>>
    PROVE  PlanInv'
  <1> DEFINE v == r.virtual_address
             m == r.memory_size
             new == [virtual_address |-> v, memory_size |-> m,
                     mapping_start |-> MappingStart(v), mapping_end |-> MappingEnd(v, m)]
  <1>1. v \in Nat /\ m \in Nat
    BY HeadersAssumption, Zenon
  <1>2. m # 0 /\ ~(MappingEnd(v, m) > AddressSpaceSize)
    BY Zenon DEF relro_error, align_up_fails, MappingEnd
  <1>3. plan \in LoadPlans
    BY Zenon DEF PlanInv
  <1>4. plan' = [plan EXCEPT !.relro_segments = Append(@, new)]
    BY Zenon DEF RelroPlan
  <1> HIDE DEF v, m
  <1>5. /\ MappingStart(v) \in Nat /\ MappingStart(v) <= v /\ MappingStart(v) % PageSize = 0
        /\ MappingEnd(v, m) \in Nat /\ v + m <= MappingEnd(v, m)
        /\ MappingEnd(v, m) % PageSize = 0
    BY <1>1, MappingStartAligned, MappingEndAligned, Zenon
  <1>6. new \in PlanRelroSegments
    BY <1>1, <1>5, Zenon DEF PlanRelroSegments
  <1>7. RelroPlanned(new)
    <2>1. AddressSpaceSize \in Nat
      BY PageSizeAssumption, NumPagesAssumption DEF AddressSpaceSize
    <2>2. v < MappingEnd(v, m) /\ MappingEnd(v, m) <= AddressSpaceSize
      BY <1>1, <1>2, <1>5, <2>1
    <2> QED
      BY <1>5, <2>2, Zenon DEF RelroPlanned
  <1> HIDE DEF new
  <1>8. /\ plan' \in LoadPlans /\ plan'.relro_segments = Append(plan.relro_segments, new)
        /\ plan'.segments = plan.segments /\ plan'.dynamic_segment = plan.dynamic_segment
        /\ plan'.minimum_page = plan.minimum_page
        /\ plan'.maximum_page_end = plan.maximum_page_end
        /\ plan'.required_load_bias_alignment = plan.required_load_bias_alignment
    <2> DEFINE grown == Append(plan.relro_segments, new)
    <2>1. grown \in Seq(PlanRelroSegments)
      BY <1>3, <1>6, PlanFields
    <2>2. plan' = [plan EXCEPT !.relro_segments = grown]
      BY <1>4, Zenon
    <2> HIDE DEF grown
    <2>3. /\ plan' \in LoadPlans /\ plan'.relro_segments = grown
          /\ plan'.segments = plan.segments /\ plan'.dynamic_segment = plan.dynamic_segment
          /\ plan'.minimum_page = plan.minimum_page
          /\ plan'.maximum_page_end = plan.maximum_page_end
          /\ plan'.required_load_bias_alignment = plan.required_load_bias_alignment
      BY <1>3, <2>1, <2>2, Zenon DEF LoadPlans
    <2> QED
      BY <2>3, Zenon DEF grown
  <1>9. plan.relro_segments \in Seq(PlanRelroSegments)
    BY <1>3 DEF LoadPlans
  <1>10. CountsOK'
    <2>1. Len(plan'.relro_segments) = Len(plan.relro_segments) + 1
      BY <1>8, <1>9, SMTT(40)
    <2>2. /\ Len(plan.segments) \in Nat /\ Len(plan.relro_segments) \in Nat
          /\ Len(plan.dynamic_segment) \in Nat
      BY <1>3, SMTT(40) DEF LoadPlans
    <2>3. Len(plan.dynamic_segment) <= 1
      BY Zenon DEF PlanInv, CountsOK
    <2>4. /\ Len(plan'.segments) = Len(plan.segments)
          /\ Len(plan'.dynamic_segment) = Len(plan.dynamic_segment)
      BY <1>8, Zenon
    <2>5. /\ Len(plan'.segments) + Len(plan'.relro_segments) + Len(plan'.dynamic_segment)
                <= Len(plan.segments) + Len(plan.relro_segments) + Len(plan.dynamic_segment) + 1
          /\ Len(plan'.dynamic_segment) <= 1
      <3> DEFINE a == Len(plan.segments)
                 b == Len(plan.relro_segments)
                 c == Len(plan.dynamic_segment)
                 x == Len(plan'.segments)
                 y == Len(plan'.relro_segments)
                 z == Len(plan'.dynamic_segment)
      <3>1. /\ a \in Nat /\ b \in Nat /\ c \in Nat /\ c <= 1 /\ z = c
            /\ (x = a + 1 /\ y = b) \/ (x = a /\ y = b + 1)
        BY <2>1, <2>2, <2>3, <2>4, Zenon
      <3> HIDE DEF a, b, c, x, y, z
      <3>2. x + y + z <= a + b + c + 1 /\ z <= 1
        BY <3>1
      <3> QED
        BY <3>2, ZenonT(40) DEF a, b, c, x, y, z
    <2>6. plan' \in LoadPlans
      BY <1>8, Zenon
    <2> QED
      BY <2>5, <2>6, CountsGrow, Zenon
  <1>11. BoundsOK'
    BY <1>8 DEF PlanInv, BoundsOK
  <1>12. \A i \in DOMAIN plan'.segments : SegmentPlanned(plan.segments[i])'
    BY <1>8, SegmentsKept, Zenon
  <1>13. \A i \in DOMAIN plan'.dynamic_segment : plan'.dynamic_segment[i].memory_size # 0
    BY <1>8, Zenon DEF PlanInv
  <1>14. ASSUME NEW i \in DOMAIN plan'.relro_segments
         PROVE  RelroPlanned(plan'.relro_segments[i])
    <2>1. CASE i = Len(plan.relro_segments) + 1
      BY <1>7, <1>8, <1>9, <2>1, SMTT(40)
    <2>2. CASE i # Len(plan.relro_segments) + 1
      <3>1. i \in DOMAIN plan.relro_segments /\ plan'.relro_segments[i] = plan.relro_segments[i]
        BY <1>8, <1>9, <2>2
      <3> QED
        BY <3>1, Zenon DEF PlanInv
    <2> QED
      BY <2>1, <2>2, Zenon
  <1>15. AcceptedPlanIsWellFormed'
    BY Zenon DEF AcceptedPlanIsWellFormed
  <1>16. (is_power_of_two(plan.required_load_bias_alignment))'
    BY <1>8, Zenon DEF PlanInv, is_power_of_two
  <1>17. (\A i \in DOMAIN plan.relro_segments : RelroPlanned(plan.relro_segments[i]))'
    BY <1>14, Zenon DEF RelroPlanned
  <1>18. pc' \in {"header", "table", "done"}
    BY ZenonT(40) DEF PlanInv
  <1> QED
    BY <1>8, <1>10, <1>11, <1>12, <1>13, <1>15, <1>16, <1>17, <1>18, Zenon DEF PlanInv

LEMMA ReadLoadPreserves ==
    ASSUME PlanInv, NEW s \in LoadHeaders, pc = "table", read < MaxHeaders, read' = read + 1,
           load_error(s) = "None", plan' = LoadPlan(s), UNCHANGED <<pc, error>>
    PROVE  PlanInv'
  <1> DEFINE v == s.virtual_address
             m == s.memory_size
             start == IF m # 0 THEN MappingStart(v) ELSE 0
             end == IF m # 0 THEN MappingEnd(v, m) ELSE 0
             new == [offset |-> s.offset, virtual_address |-> v, file_size |-> s.file_size,
                     memory_size |-> m, permissions |-> s.permissions,
                     alignment |-> s.alignment, mapping_start |-> start, mapping_end |-> end]
             low == IF m # 0 THEN Lesser(plan.minimum_page, start) ELSE plan.minimum_page
             high == IF m # 0 THEN Greater(plan.maximum_page_end, end) ELSE plan.maximum_page_end
             align == IF s.alignment > 1
                      THEN Greater(plan.required_load_bias_alignment, s.alignment)
                      ELSE plan.required_load_bias_alignment
  <1>1. /\ v \in Nat /\ m \in Nat /\ s.offset \in Nat /\ s.file_size \in Nat
        /\ s.permissions \in Permissions /\ s.alignment \in Nat
    BY HeadersAssumption, SMTT(40)
  <1>2. /\ ~(s.file_size > m) /\ decodable_flags(s.permissions)
        /\ m # 0 => ~(MappingEnd(v, m) > AddressSpaceSize)
        /\ ~(v + m > AddressSpaceSize)
        /\ s.alignment > 1 => is_power_of_two(s.alignment) /\ v % s.alignment = s.offset % s.alignment
        /\ ~(s.offset + s.file_size > ImageSize)
    BY Zenon DEF load_error, align_up_fails, MappingEnd
  <1>3. plan \in LoadPlans
    BY Zenon DEF PlanInv
  <1>4. plan' = [[plan EXCEPT !.minimum_page = low, !.maximum_page_end = high,
                              !.required_load_bias_alignment = align]
                    EXCEPT !.segments = Append(@, new)]
    BY Zenon DEF LoadPlan
  <1>5. /\ MappingStart(v) \in Nat /\ MappingStart(v) <= v /\ MappingStart(v) % PageSize = 0
        /\ MappingEnd(v, m) \in Nat /\ v + m <= MappingEnd(v, m)
        /\ MappingEnd(v, m) % PageSize = 0
    <2> HIDE DEF v, m
    <2> QED
      BY <1>1, MappingStartAligned, MappingEndAligned, Zenon
  <1>6. AddressSpaceSize \in Nat
    BY PageSizeAssumption, NumPagesAssumption DEF AddressSpaceSize
  <1>7. /\ plan.minimum_page \in Nat /\ plan.maximum_page_end \in Nat
        /\ plan.required_load_bias_alignment \in Nat
    BY <1>3, Zenon DEF LoadPlans
  <1>8. /\ plan.minimum_page <= AddressSpaceSize /\ plan.minimum_page % PageSize = 0
        /\ plan.maximum_page_end <= AddressSpaceSize
    BY Zenon DEF PlanInv, BoundsOK
  <1> HIDE DEF v, m
  <1>9. /\ start \in Nat /\ end \in Nat
        /\ m # 0 => start <= v /\ v + m <= end /\ start % PageSize = 0 /\ end % PageSize = 0
        /\ m # 0 => end <= AddressSpaceSize
    BY <1>1, <1>2, <1>5, <1>6
  <1> HIDE DEF start, end
  <1>10. /\ low \in Nat /\ low <= plan.minimum_page /\ low % PageSize = 0
         /\ low <= AddressSpaceSize
         /\ m # 0 => low <= start
         /\ m = 0 => low = plan.minimum_page
    BY <1>6, <1>7, <1>8, <1>9, SMTT(40) DEF Lesser
  <1>11. /\ high \in Nat /\ plan.maximum_page_end <= high /\ high <= AddressSpaceSize
         /\ m # 0 => end <= high
    BY <1>6, <1>7, <1>8, <1>9, SMTT(40) DEF Greater
  <1>12. /\ align \in Nat /\ plan.required_load_bias_alignment <= align
         /\ s.alignment > 1 => s.alignment <= align
    BY <1>1, <1>7, SMTT(40) DEF Greater
  <1>13. is_power_of_two(align)
    <2>1. align = plan.required_load_bias_alignment
          \/ (s.alignment > 1 /\ align = s.alignment)
      BY Zenon DEF Greater
    <2> QED
      BY <1>2, <2>1, Zenon DEF PlanInv
  <1> HIDE DEF low, high, align
  <1>14. new \in PlanSegments
    BY <1>1, <1>9, Zenon DEF PlanSegments
  <1>15. /\ new.offset = s.offset /\ new.virtual_address = v /\ new.file_size = s.file_size
         /\ new.memory_size = m /\ new.permissions = s.permissions
         /\ new.alignment = s.alignment /\ new.mapping_start = start /\ new.mapping_end = end
    BY Zenon
  <1> HIDE DEF new
  <1>16. /\ plan' \in LoadPlans /\ plan'.segments = Append(plan.segments, new)
         /\ plan'.relro_segments = plan.relro_segments
         /\ plan'.dynamic_segment = plan.dynamic_segment
         /\ plan'.minimum_page = low /\ plan'.maximum_page_end = high
         /\ plan'.required_load_bias_alignment = align
    <2> DEFINE grown == Append(plan.segments, new)
    <2>1. grown \in Seq(PlanSegments)
      BY <1>3, <1>14, PlanFields
    <2>2. plan' = [[plan EXCEPT !.minimum_page = low, !.maximum_page_end = high,
                                !.required_load_bias_alignment = align]
                      EXCEPT !.segments = grown]
      BY <1>3, <1>4, SMTT(40) DEF LoadPlans
    <2> HIDE DEF grown
    <2>3. /\ plan' \in LoadPlans /\ plan'.segments = grown
          /\ plan'.relro_segments = plan.relro_segments
          /\ plan'.dynamic_segment = plan.dynamic_segment
          /\ plan'.minimum_page = low /\ plan'.maximum_page_end = high
          /\ plan'.required_load_bias_alignment = align
      BY <1>3, <1>10, <1>11, <1>12, <2>1, <2>2, ZenonT(40) DEF LoadPlans
    <2> QED
      BY <2>3, Zenon DEF grown
  <1>17. plan.segments \in Seq(PlanSegments)
    BY <1>3, Zenon DEF LoadPlans
  <1>18. CountsOK'
    <2>1. Len(plan'.segments) = Len(plan.segments) + 1
      BY <1>16, <1>17
    <2>2. /\ Len(plan.segments) \in Nat /\ Len(plan.relro_segments) \in Nat
          /\ Len(plan.dynamic_segment) \in Nat
      BY <1>3 DEF LoadPlans
    <2>3. Len(plan.dynamic_segment) <= 1
      BY Zenon DEF PlanInv, CountsOK
    <2>4. /\ Len(plan'.relro_segments) = Len(plan.relro_segments)
          /\ Len(plan'.dynamic_segment) = Len(plan.dynamic_segment)
      BY <1>16, Zenon
    <2>5. /\ Len(plan'.segments) + Len(plan'.relro_segments) + Len(plan'.dynamic_segment)
                <= Len(plan.segments) + Len(plan.relro_segments) + Len(plan.dynamic_segment) + 1
          /\ Len(plan'.dynamic_segment) <= 1
      <3> DEFINE a == Len(plan.segments)
                 b == Len(plan.relro_segments)
                 c == Len(plan.dynamic_segment)
                 x == Len(plan'.segments)
                 y == Len(plan'.relro_segments)
                 z == Len(plan'.dynamic_segment)
      <3>1. /\ a \in Nat /\ b \in Nat /\ c \in Nat /\ c <= 1 /\ z = c
            /\ (x = a + 1 /\ y = b) \/ (x = a /\ y = b + 1)
        BY <2>1, <2>2, <2>3, <2>4, Zenon
      <3> HIDE DEF a, b, c, x, y, z
      <3>2. x + y + z <= a + b + c + 1 /\ z <= 1
        BY <3>1
      <3> QED
        BY <3>2, Zenon DEF a, b, c, x, y, z
    <2>6. plan' \in LoadPlans
      BY <1>16, Zenon
    <2> QED
      BY <2>5, <2>6, CountsGrow, Zenon
  <1>19. \A i \in DOMAIN plan'.segments :
            \/ i = Len(plan.segments) + 1 /\ plan'.segments[i] = new
            \/ i \in DOMAIN plan.segments /\ plan'.segments[i] = plan.segments[i]
    BY <1>16, <1>17, SMTT(40)
  <1>20. BoundsOK'
    <2>1. ASSUME low # AddressSpaceSize
          PROVE  \E i \in DOMAIN plan'.segments : plan'.segments[i].memory_size # 0
      <3>1. CASE m # 0
        <4>1. /\ Len(plan.segments) + 1 \in DOMAIN plan'.segments
              /\ plan'.segments[Len(plan.segments) + 1] = new
          BY <1>16, <1>17, SMTT(40)
        <4> QED
          BY <1>15, <3>1, <4>1, Zenon
      <3>2. CASE m = 0
        <4>1. PICK i \in DOMAIN plan.segments : plan.segments[i].memory_size # 0
          BY <1>10, <2>1, <3>2, ZenonT(40) DEF PlanInv, BoundsOK
        <4>2. i \in DOMAIN plan'.segments /\ plan'.segments[i] = plan.segments[i]
          BY <1>16, <1>17, SMTT(40)
        <4> QED
          BY <4>1, <4>2, Zenon
      <3> QED
        BY <3>1, <3>2, Zenon
    <2> QED
      BY <1>10, <1>11, <1>16, <2>1, Zenon DEF BoundsOK
  <1>21. ASSUME NEW i \in DOMAIN plan'.segments
         PROVE  SegmentPlanned(plan.segments[i])'
    <2>1. CASE plan'.segments[i] = new
      <3>1. SegmentWellFormed(plan', new)
        BY <1>1, <1>2, <1>9, <1>10, <1>11, <1>15, <1>16, SMTT(40) DEF SegmentWellFormed
      <3>2. s.offset + s.file_size <= ImageSize
        BY <1>1, <1>2, HeadersAssumption, SMTT(40)
      <3> QED
        BY <1>2, <1>12, <1>15, <1>16, <2>1, <3>1, <3>2, ZenonT(40) DEF SegmentPlanned, is_power_of_two, v
    <2>2. CASE i \in DOMAIN plan.segments /\ plan'.segments[i] = plan.segments[i]
      <3> DEFINE t == plan.segments[i]
      <3>1. t \in PlanSegments /\ SegmentPlanned(t)
        BY <1>17, <2>2, SMTT(40) DEF PlanInv
      <3>2. plan'.segments[i] = t
        BY <2>2, Zenon
      <3> HIDE DEF t
      <3>3. SegmentWellFormed(plan', t)
        <4>1. /\ t.mapping_start \in Nat /\ t.mapping_end \in Nat
              /\ SegmentWellFormed(plan, t)
          BY <3>1, ZenonT(40) DEF SegmentPlanned, PlanSegments
        <4>2. t.memory_size # 0 => /\ plan'.minimum_page <= t.mapping_start
                                   /\ t.mapping_end <= plan'.maximum_page_end
          BY <1>7, <1>10, <1>11, <1>16, <4>1, SMTT(40) DEF SegmentWellFormed
        <4> QED
          BY <4>1, <4>2, Zenon DEF SegmentWellFormed
      <3>4. t.alignment > 1 => t.alignment <= align
        BY <1>7, <1>12, <3>1, SMTT(40) DEF SegmentPlanned, PlanSegments
      <3> QED
        BY <1>16, <3>1, <3>2, <3>3, <3>4, Zenon DEF SegmentPlanned, is_power_of_two
    <2> QED
      BY <1>19, <2>1, <2>2, Zenon
  <1>22. \A i \in DOMAIN plan'.dynamic_segment : plan'.dynamic_segment[i].memory_size # 0
    BY <1>16, Zenon DEF PlanInv
  <1>23. \A i \in DOMAIN plan'.relro_segments : RelroPlanned(plan'.relro_segments[i])
    BY <1>16, Zenon DEF PlanInv
  <1>24. AcceptedPlanIsWellFormed'
    BY Zenon DEF AcceptedPlanIsWellFormed
  <1>25. (is_power_of_two(plan.required_load_bias_alignment))'
    BY <1>13, <1>16, Zenon DEF is_power_of_two
  <1>26. (\A i \in DOMAIN plan.relro_segments : RelroPlanned(plan.relro_segments[i]))'
    BY <1>23, Zenon DEF RelroPlanned
  <1>27. pc' \in {"header", "table", "done"}
    BY Zenon DEF PlanInv
  <1> QED
    BY <1>16, <1>18, <1>20, <1>21, <1>22, <1>24, <1>25, <1>26, <1>27, Zenon DEF PlanInv

(***************************************************************************)
(* The theorems.                                                           *)
(***************************************************************************)
LEMMA InitPlanInv == Init => PlanInv
  <1> SUFFICES ASSUME Init
               PROVE  PlanInv
    BY Zenon
  <1>1. PageSize \in Nat \ {0} /\ NumPages \in Nat \ {0} /\ AddressSpaceSize \in Nat
    BY PageSizeAssumption, NumPagesAssumption DEF AddressSpaceSize
  <1>2. AddressSpaceSize % PageSize = 0
    BY <1>1, Multiple, SMTT(40) DEF AddressSpaceSize
  <1>3. plan \in LoadPlans
    BY <1>1 DEF Init, EmptyPlan, LoadPlans, NoDynamic
  <1>4. /\ plan.segments = <<>> /\ plan.dynamic_segment = <<>> /\ plan.relro_segments = <<>>
        /\ plan.minimum_page = AddressSpaceSize /\ plan.maximum_page_end = 0
        /\ plan.required_load_bias_alignment = 1
    BY Zenon DEF Init, EmptyPlan, NoDynamic
  <1>5. BoundsOK
    BY <1>1, <1>2, <1>4, SMTT(40) DEF BoundsOK
  <1>6. CountsOK
    <2>1. MaxHeaders \in Nat
      BY HeadersAssumption, Zenon
    <2>2. Len(plan.segments) = 0 /\ Len(plan.relro_segments) = 0 /\ Len(plan.dynamic_segment) = 0
      BY <1>4, Zenon
    <2>3. read = 0
      BY Zenon DEF Init
    <2> QED
      BY <2>1, <2>2, <2>3, SMTT(40) DEF CountsOK
  <1>7. AcceptedPlanIsWellFormed /\ pc = "header"
    BY Zenon DEF AcceptedPlanIsWellFormed, Init
  <1>8. is_power_of_two(plan.required_load_bias_alignment)
    BY <1>4, OneIsPowerOfTwo, Zenon
  <1> QED
    BY <1>3, <1>4, <1>5, <1>6, <1>7, <1>8, SMTT(40) DEF PlanInv

LEMMA NextPlanInv == PlanInv /\ [Next]_vars => PlanInv'
  <1> SUFFICES ASSUME PlanInv, [Next]_vars
               PROVE  PlanInv'
    BY Zenon
  <1>1. CASE CheckHeader
    <2>1. CASE \E e \in HeaderErrors : Return(e) /\ UNCHANGED plan
      <3>1. PICK e \in HeaderErrors : Return(e) /\ UNCHANGED plan
        BY <2>1, Zenon
      <3>2. e # "None" /\ read' = read
        BY <1>1 DEF HeaderErrors, CheckHeader
      <3> QED
        BY <3>1, <3>2, ErrorPreserves, Zenon
    <2>2. CASE \E type \in {"Dynamic", "Executable"} : plan' = EmptyPlan(type) /\ pc' = "table"
      <3>1. PICK type \in {"Dynamic", "Executable"} : plan' = EmptyPlan(type)
        BY <2>2, Zenon
      <3>2. pc' = "table" /\ read' \in 0 .. MaxHeaders
        BY <1>1, <2>2, Zenon DEF CheckHeader, PlanInv, CountsOK
      <3> QED
        BY <3>1, <3>2, EmptyPlanOK, Zenon
    <2> QED
      BY <1>1, <2>1, <2>2, Zenon DEF CheckHeader
  <1>2. CASE ReadDynamic
    <2>1. PICK d \in DynamicHeaders : Accept(dynamic_error(d), DynamicPlan(d))
      BY <1>2, Zenon DEF ReadDynamic
    <2> QED
      BY <2>1, ErrorPreserves, ReadDynamicPreserves, Zenon DEF Accept
  <1>3. CASE ReadRelro
    <2>1. PICK r \in RelroHeaders : Accept(relro_error(r), RelroPlan(r))
      BY <1>3, ZenonT(40) DEF ReadRelro
    <2> QED
      BY <2>1, ErrorPreserves, ReadRelroPreserves, Zenon DEF Accept
  <1>4. CASE ReadLoad
    <2>1. PICK s \in LoadHeaders : Accept(load_error(s), LoadPlan(s))
      BY <1>4, Zenon DEF ReadLoad
    <2> QED
      BY <2>1, ErrorPreserves, ReadLoadPreserves, Zenon DEF Accept
  <1>5. CASE ReadOther
    <2>1. /\ UNCHANGED plan /\ pc' = "table" /\ read < MaxHeaders /\ read' = read + 1
      BY <1>5, Zenon DEF ReadOther, Accept
    <2>2. AcceptedPlanIsWellFormed'
      BY <2>1, Zenon DEF AcceptedPlanIsWellFormed
    <2> QED
      BY <2>1, <2>2, SamePlanPreserves, Zenon
  <1>6. CASE Finish
    <2>1. PICK order \in Orders : Return(finish_error(order))
      BY <1>6, Zenon DEF Finish
    <2>2. UNCHANGED <<plan, read>>
      BY <1>6 DEF Finish
    <2>3. CASE finish_error(order) # "None"
      BY <2>1, <2>2, <2>3, ErrorPreserves, Zenon
    <2>4. CASE finish_error(order) = "None"
      <3>1. WellFormed(plan) /\ FileBytesInImage /\ pc' = "done"
        BY <2>1, <2>4, FinishAccepts, Zenon DEF Return
      <3>2. AcceptedPlanIsWellFormed'
        <4>1. WellFormed(plan)'
          BY <2>2, <3>1, SamePlanWellFormed, SMTT(40)
        <4> QED
          BY <2>2, <3>1, <4>1, Zenon DEF AcceptedPlanIsWellFormed, FileBytesInImage
      <3> QED
        BY <2>2, <3>1, <3>2, SamePlanPreserves, Zenon
    <2> QED
      BY <2>3, <2>4, Zenon
  <1>7. CASE UNCHANGED vars
    <2>1. AcceptedPlanIsWellFormed'
      <3>1. WellFormed(plan) => WellFormed(plan)'
        BY <1>7, SamePlanWellFormed, Zenon DEF vars
      <3>2. FileBytesInImage => FileBytesInImage'
        BY <1>7, Zenon DEF vars, FileBytesInImage
      <3> QED
        BY <1>7, <3>1, <3>2, Zenon DEF vars, PlanInv, AcceptedPlanIsWellFormed
    <2> QED
      BY <1>7, <2>1, SamePlanPreserves, Zenon DEF vars, PlanInv, CountsOK
  <1> QED
    BY <1>1, <1>2, <1>3, <1>4, <1>5, <1>6, <1>7, Zenon DEF Next

LEMMA PlanInvHolds == Spec => []PlanInv
  BY InitPlanInv, NextPlanInv, PTL DEF Spec

\* The plan under construction has its type, and no more entries than headers
\* were read.
THEOREM PlanTypeCorrect == Spec => []TypeOK
  <1>1. PlanInv => TypeOK
    <2>1. AddressSpaceSize \in Nat
      BY PageSizeAssumption, NumPagesAssumption DEF AddressSpaceSize
    <2> QED
      BY <2>1 DEF PlanInv, TypeOK, CountsOK, BoundsOK, LoadPlans
  <1> QED
    BY <1>1, PlanInvHolds, PTL

\* Whatever program headers an image holds, plan_elf32_load returns a plan only
\* if it meets the contract that load_elf32 and placement rely on.
THEOREM PlansAreWellFormed == Spec => []AcceptedPlanIsWellFormed
  <1>1. PlanInv => AcceptedPlanIsWellFormed
    BY Zenon DEF PlanInv
  <1> QED
    BY <1>1, PlanInvHolds, PTL

=============================================================================
