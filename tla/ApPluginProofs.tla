--------------------------- MODULE ApPluginProofs ---------------------------
(***************************************************************************)
(* What the AP plugin chooses, for every list: an AP of the list, of the   *)
(* virtual candidates the one that is last in the order of the code, and   *)
(* by set_priorities() the one with the lowest priority.                   *)
(***************************************************************************)
EXTENDS ApPlugin, CommonProofs, FiniteSetTheorems

(***************************************************************************)
(* The order of MACs.                                                      *)
(***************************************************************************)

LEMMA Nibble ==
    ASSUME NEW len, NEW a \in [1 .. len -> 0 .. 15], NEW i \in 1 .. len
    PROVE  a[i] \in Int
<1>1. a[i] \in 0 .. 15
  OBVIOUS
<1> QED
  BY <1>1

LEMMA MacAsymmetric ==
    ASSUME NEW len \in Nat, NEW a \in [1 .. len -> 0 .. 15], NEW b \in [1 .. len -> 0 .. 15],
           MacLower(a, b)
    PROVE  ~MacLower(b, a) /\ a # b
<1>1. PICK i \in 1 .. len : a[i] < b[i] /\ \A k \in 1 .. i - 1 : a[k] = b[k]
  BY DEF MacLower
<1>2. ASSUME MacLower(b, a)
      PROVE  FALSE
  <2>1. PICK j \in 1 .. len : b[j] < a[j] /\ \A k \in 1 .. j - 1 : b[k] = a[k]
    BY <1>2 DEF MacLower
  <2>2. /\ a[i] \in Int /\ b[i] \in Int /\ a[j] \in Int /\ b[j] \in Int
        /\ i < j => i \in 1 .. j - 1
        /\ j < i => j \in 1 .. i - 1
    BY Nibble
  <2> QED
    BY <1>1, <2>1, <2>2
<1>3. a # b
  BY <1>1
<1> QED
  BY <1>2, <1>3

LEMMA MacTotal ==
    ASSUME NEW len \in Nat, NEW a \in [1 .. len -> 0 .. 15], NEW b \in [1 .. len -> 0 .. 15],
           a # b
    PROVE  MacLower(a, b) \/ MacLower(b, a)
<1> DEFINE differ == {i \in 1 .. len : a[i] # b[i]}
           first == Min(differ)
<1>1. differ \in SUBSET Nat /\ differ # {}
  OBVIOUS
<1>2. first \in differ /\ \A i \in differ : first <= i
  <2> HIDE DEF differ
  <2> QED
    BY <1>1, LeastNatural
<1>3. first \in 1 .. len /\ a[first] # b[first]
  BY <1>2
<1>4. \A k \in 1 .. first - 1 : a[k] = b[k]
  BY <1>2, <1>3
<1> HIDE DEF first
<1>5. a[first] < b[first] \/ b[first] < a[first]
  <2>1. a[first] \in Int /\ b[first] \in Int
    BY <1>3
  <2> QED
    BY <2>1, <1>3
<1> QED
  BY <1>3, <1>4, <1>5 DEF MacLower

LEMMA MacTransitive ==
    ASSUME NEW len \in Nat, NEW a \in [1 .. len -> 0 .. 15], NEW b \in [1 .. len -> 0 .. 15],
           NEW c \in [1 .. len -> 0 .. 15], MacLower(a, b), MacLower(b, c)
    PROVE  MacLower(a, c)
<1>1. PICK i \in 1 .. len : a[i] < b[i] /\ \A k \in 1 .. i - 1 : a[k] = b[k]
  BY DEF MacLower
<1>2. PICK j \in 1 .. len : b[j] < c[j] /\ \A k \in 1 .. j - 1 : b[k] = c[k]
  BY DEF MacLower
<1>3. /\ a[i] \in Int /\ b[i] \in Int /\ c[i] \in Int
      /\ a[j] \in Int /\ b[j] \in Int /\ c[j] \in Int
  BY Nibble
<1>4. CASE i <= j
  <2>1. a[i] < c[i]
    BY <1>1, <1>2, <1>3, <1>4
  <2>2. \A k \in 1 .. i - 1 : a[k] = c[k]
    BY <1>1, <1>2, <1>4
  <2> QED
    BY <2>1, <2>2 DEF MacLower
<1>5. CASE j < i
  <2>1. a[j] < c[j]
    BY <1>1, <1>2, <1>3, <1>5
  <2>2. \A k \in 1 .. j - 1 : a[k] = c[k]
    BY <1>1, <1>2, <1>5
  <2> QED
    BY <2>1, <2>2 DEF MacLower
<1> QED
  BY <1>4, <1>5

(***************************************************************************)
(* The APs of a list, the first n of it.                                   *)
(***************************************************************************)

ApsOf(list, n) ==
    /\ \A i \in 1 .. n : list[i].rssi \in Int /\ list[i].age \in Nat
    /\ \E len \in Nat : \A i \in 1 .. n : list[i].mac \in [1 .. len -> 0 .. 15]

LEMMA CandidatesInList ==
    ASSUME NEW list, NEW n \in Nat, NEW k \in VirtualCandidates(list, n)
    PROVE  \E p \in VirtualPairs(list, n) :
              /\ k \in {p[1], p[2]} /\ p[1] \in 1 .. n /\ p[2] \in 1 .. n /\ p[1] < p[2]
              /\ ~list[p[1]].connected /\ ~list[p[2]].connected
              /\ MacSimilar(list[p[1]].mac, list[p[2]].mac)
<1>1. PICK p \in VirtualPairs(list, n) :
        k = IF VirtualPreferred(p[1], p[2], list) THEN p[2] ELSE p[1]
  BY DEF VirtualCandidates
<1>2. /\ p[1] \in 1 .. n /\ p[2] \in 1 .. n /\ p[1] < p[2]
      /\ ~list[p[1]].connected /\ ~list[p[2]].connected
      /\ MacSimilar(list[p[1]].mac, list[p[2]].mac)
  BY DEF VirtualPairs
<1> QED
  BY <1>1, <1>2

\* remove_virtual_ap() gives up a candidate if there is one.
LEMMA VirtualChosen ==
    ASSUME NEW list, NEW n \in Nat, ApsOf(list, n), VirtualCandidates(list, n) # {}
    PROVE  RemoveVirtualAp(list, n) \in VirtualCandidates(list, n)
<1> DEFINE T == VirtualCandidates(list, n)
           rank(k) == ConnectedUsedRank(list[k])
           NotAfter(k, m) ==
               rank(m) > rank(k)
                 \/ (rank(m) = rank(k) /\ ~MacLower(list[m].mac, list[k].mac))
           R == {p \in T \X T : NotAfter(p[1], p[2])}
<1>1. PICK len \in Nat : \A i \in 1 .. n : list[i].mac \in [1 .. len -> 0 .. 15]
  BY DEF ApsOf
<1>2. T \in SUBSET (1 .. n)
  BY CandidatesInList
<1>3. \A k \in T : rank(k) \in Nat /\ list[k].mac \in [1 .. len -> 0 .. 15]
  <2> TAKE k \in T
  <2>1. rank(k) \in Nat
    BY DEF ConnectedUsedRank
  <2>2. k \in 1 .. n
    BY <1>2
  <2> QED
    BY <2>1, <2>2, <1>1
<1> HIDE DEF T, rank
<1>4. \A k, m \in T : <<k, m>> \in R <=> NotAfter(k, m)
  OBVIOUS
<1>5. \A k, m \in T : NotAfter(k, m) \/ NotAfter(m, k)
  <2> TAKE k, m \in T
  <2>1. rank(k) \in Nat /\ rank(m) \in Nat
    BY <1>3
  <2>2. ~MacLower(list[m].mac, list[k].mac) \/ ~MacLower(list[k].mac, list[m].mac)
    BY <1>3, MacAsymmetric
  <2> QED
    BY <2>1, <2>2
<1>6. \A k, m, l \in T : NotAfter(k, m) /\ NotAfter(m, l) => NotAfter(k, l)
  <2> SUFFICES ASSUME NEW k \in T, NEW m \in T, NEW l \in T, NotAfter(k, m), NotAfter(m, l),
                      ~(rank(l) > rank(k))
               PROVE  rank(l) = rank(k) /\ ~MacLower(list[l].mac, list[k].mac)
    OBVIOUS
  <2>1. /\ rank(l) = rank(k) /\ rank(m) = rank(k)
        /\ ~MacLower(list[m].mac, list[k].mac) /\ ~MacLower(list[l].mac, list[m].mac)
    BY <1>3
  <2>2. ASSUME MacLower(list[l].mac, list[k].mac)
        PROVE  FALSE
    <3>1. CASE list[m].mac = list[l].mac
      BY <3>1, <2>1, <2>2
    <3>2. CASE list[m].mac # list[l].mac
      <4>1. MacLower(list[m].mac, list[l].mac)
        BY <3>2, <1>3, <2>1, MacTotal
      <4>2. MacLower(list[m].mac, list[k].mac)
        BY <4>1, <2>2, <1>3, MacTransitive
      <4> QED
        BY <4>2, <2>1
    <3> QED
      BY <3>1, <3>2
  <2> QED
    BY <2>1, <2>2
<1>7. \E k \in T : \A m \in T : NotAfter(m, k)
  <2>1. T # {}
    BY DEF T
  <2>2. Total(R, T)
    BY <1>4, <1>5 DEF Total
  <2>3. Transitive(R, T)
    <3> HIDE DEF R, NotAfter
    <3> QED
      BY <1>4, <1>6 DEF Transitive
  <2>4. \E k \in T : \A j \in T : <<j, k>> \in R
    <3> HIDE DEF R
    <3> QED
      BY <1>2, <2>1, <2>2, <2>3, GreatestByRelation
  <2> QED
    BY <2>4, <1>4
<1>8. RemoveVirtualAp(list, n) = CHOOSE k \in T : \A m \in T : NotAfter(m, k)
  BY DEF RemoveVirtualAp, T, rank
<1> QED
  BY <1>7, <1>8 DEF T

\* remove_oldest_ap() gives up an AP of the list or none.
LEMMA OldestChosen ==
    ASSUME NEW list, NEW n \in Nat, ApsOf(list, n)
    PROVE  RemoveOldestAp(list, n) \in 0 .. n
<1> DEFINE ages == {list[i].age : i \in 1 .. n}
           oldest == {i \in 1 .. n : list[i].age = Max(ages)}
           R == {p \in (1 .. n) \X (1 .. n) : list[p[1]].age <= list[p[2]].age}
<1>1. \A i \in 1 .. n : list[i].age \in Nat
  BY DEF ApsOf
<1>2. CASE Cardinality(ages) <= 1
  BY <1>2 DEF RemoveOldestAp
<1>3. CASE ~(Cardinality(ages) <= 1)
  <2>1. 1 .. n # {}
    <3>1. ASSUME 1 .. n = {}
          PROVE  FALSE
      <4>1. ages = {}
        BY <3>1
      <4>2. Cardinality(ages) = 0
        BY <4>1, FS_EmptySet
      <4> HIDE DEF ages
      <4> QED
        BY <4>2, <1>3
    <3> QED
      BY <3>1
  <2>2. Total(R, 1 .. n) /\ Transitive(R, 1 .. n)
    <3>1. \A x, y \in 1 .. n : <<x, y>> \in R <=> list[x].age <= list[y].age
      OBVIOUS
    <3> HIDE DEF R
    <3> QED
      BY <3>1, <1>1 DEF Total, Transitive
  <2>3. PICK k \in 1 .. n : \A j \in 1 .. n : <<j, k>> \in R
    <3>1. 1 .. n \in SUBSET (1 .. n)
      OBVIOUS
    <3> HIDE DEF R
    <3> QED
      BY <3>1, <2>1, <2>2, GreatestByRelation
  <2>4. Max(ages) \in ages
    <3>1. list[k].age \in ages /\ \A a \in ages : list[k].age >= a
      BY <2>3
    <3> HIDE DEF ages
    <3> QED
      BY <3>1 DEF Max
  <2>5. oldest # {} /\ oldest \in SUBSET Nat
    BY <2>4
  <2>6. Min(oldest) \in oldest
    <3> HIDE DEF oldest
    <3> QED
      BY <2>5, LeastNatural
  <2>7. RemoveOldestAp(list, n) = Min(oldest)
    BY <1>3 DEF RemoveOldestAp
  <2> QED
    BY <2>6, <2>7
<1> QED
  BY <1>2, <1>3

(***************************************************************************)
(* set_priorities(): the scan of the APs, from both ends to the middle.    *)
(***************************************************************************)

\* What the loop holds after it has seen AP j.
Visited(list, n, threshold, acc, j) ==
    LET p == GetPriority(list, n, j)
    IN  IF /\ \/ BelowRssiThreshold(list[n], threshold) /\ BelowRssiThreshold(list[j], threshold)
              \/ p <= acc.priority
           /\ p # acc.priority \/ MacLower(list[acc.idx].mac, list[j].mac)
        THEN [idx |-> j, priority |-> p]
        ELSE acc

Start(n) == [idx |-> n \div 2 + 1, priority |-> (n - 1) * HIGHEST_PRIORITY]

\* The equation of the fold over the first m APs visited, by which the library
\* defines it.
Folds(g, list, n, threshold, m) ==
    g = [s \in SUBSET (1 .. m) |->
            IF s = {} THEN Start(n)
            ELSE Visited(list, n, threshold, g[s \ {Max(s)}], VisitOrder(n)[Max(s)])]

Fold(list, n, threshold) == CHOOSE g : Folds(g, list, n, threshold, n)

LEMMA SetPrioritiesFolds ==
    ASSUME NEW list, NEW n \in Nat, NEW threshold
    PROVE  SetPriorities(list, n, threshold) = Fold(list, n, threshold)[1 .. n].idx
<1>1. DOMAIN VisitOrder(n) = 1 .. n
  BY DEF VisitOrder
<1>2. SetPriorities(list, n, threshold) =
        (CHOOSE g : g = [s \in SUBSET (DOMAIN VisitOrder(n)) |->
            IF s = {} THEN Start(n)
            ELSE Visited(list, n, threshold, g[s \ {Max(s)}], VisitOrder(n)[Max(s)])])[DOMAIN VisitOrder(n)].idx
  BY DEF SetPriorities, FoldLeft, MapThenFoldSet, Visited, Start
<1> QED
  BY <1>1, <1>2 DEF Fold, Folds

\* There is such a fold, by induction on the number of APs visited.
LEMMA FoldExists ==
    ASSUME NEW list, NEW n \in Nat, NEW threshold
    PROVE  Folds(Fold(list, n, threshold), list, n, threshold, n)
<1> DEFINE Bad == {m \in Nat : ~\E g : Folds(g, list, n, threshold, m)}
<1>1. 0 \notin Bad
  <2> DEFINE g == [s \in SUBSET (1 .. 0) |-> Start(n)]
  <2>1. \A s \in SUBSET (1 .. 0) : s = {}
    OBVIOUS
  <2>2. Folds(g, list, n, threshold, 0)
    BY <2>1 DEF Folds
  <2> QED
    BY <2>2
<1>2. ASSUME NEW m \in Nat, m \notin Bad
      PROVE  m + 1 \notin Bad
  <2>1. PICK g : Folds(g, list, n, threshold, m)
    BY <1>2
  <2> DEFINE h == [s \in SUBSET (1 .. m + 1) |->
                     IF m + 1 \notin s THEN g[s]
                     ELSE Visited(list, n, threshold, g[s \ {m + 1}], VisitOrder(n)[m + 1])]
             eq(s) == IF s = {} THEN Start(n)
                      ELSE Visited(list, n, threshold, h[s \ {Max(s)}], VisitOrder(n)[Max(s)])
  <2>2. ASSUME NEW s \in SUBSET (1 .. m + 1)
        PROVE  h[s] = eq(s)
    <3>1. CASE m + 1 \in s
      <4>1. Max(s) = m + 1
        <5>1. s \in SUBSET (0 .. m + 1) /\ s # {} /\ m + 1 \in Nat
          BY <3>1
        <5>2. Max(s) \in s /\ \A x \in s : Max(s) >= x
          BY <5>1, GreatestNatural
        <5>3. Max(s) \in 1 .. m + 1 /\ Max(s) >= m + 1
          BY <5>2, <3>1
        <5> QED
          BY <5>3
      <4>2. s \ {m + 1} \in SUBSET (1 .. m + 1) /\ m + 1 \notin s \ {m + 1}
        OBVIOUS
      <4>3. h[s \ {m + 1}] = g[s \ {m + 1}]
        BY <4>2
      <4>4. h[s] = Visited(list, n, threshold, g[s \ {m + 1}], VisitOrder(n)[m + 1])
        BY <3>1
      <4> HIDE DEF h
      <4> QED
        BY <3>1, <4>1, <4>3, <4>4
    <3>2. CASE m + 1 \notin s /\ s # {}
      <4>1. s \in SUBSET (1 .. m) /\ s \in SUBSET (0 .. m)
        BY <3>2
      <4>2. Max(s) \in s
        BY <4>1, <3>2, GreatestNatural
      <4>3. s \ {Max(s)} \in SUBSET (1 .. m + 1) /\ m + 1 \notin s \ {Max(s)}
        BY <3>2
      <4>4. h[s \ {Max(s)}] = g[s \ {Max(s)}] /\ h[s] = g[s]
        BY <3>2, <4>3
      <4>5. g[s] = Visited(list, n, threshold, g[s \ {Max(s)}], VisitOrder(n)[Max(s)])
        BY <2>1, <4>1, <3>2 DEF Folds
      <4> HIDE DEF h
      <4> QED
        BY <3>2, <4>4, <4>5
    <3>3. CASE s = {}
      <4>1. g[{}] = Start(n)
        BY <2>1 DEF Folds
      <4> QED
        BY <3>3, <4>1
    <3> QED
      BY <3>1, <3>2, <3>3
  <2>3. h = [s \in SUBSET (1 .. m + 1) |-> eq(s)]
    <3>1. h = [s \in SUBSET (1 .. m + 1) |-> h[s]]
      OBVIOUS
    <3> HIDE DEF h, eq
    <3> QED
      BY <3>1, <2>2
  <2>4. Folds(h, list, n, threshold, m + 1)
    <3> HIDE DEF h
    <3> QED
      BY <2>3 DEF Folds
  <2> QED
    BY <2>4
<1>3. Bad = {}
  <2>1. Bad \in SUBSET Nat
    OBVIOUS
  <2> HIDE DEF Bad
  <2> QED
    BY <2>1, <1>1, <1>2, NoLeastNoBad
<1>4. \E g : Folds(g, list, n, threshold, n)
  BY <1>3
<1> QED
  BY <1>4 DEF Fold

\* The loop, one AP after the other: acc[k] is what it holds after k APs.
Loop(acc, list, n, threshold) ==
    /\ acc[0] = Start(n)
    /\ \A k \in 1 .. n :
         acc[k] = Visited(list, n, threshold, acc[k - 1], VisitOrder(n)[k])
    /\ SetPriorities(list, n, threshold) = acc[n].idx

LEMMA FoldSteps ==
    ASSUME NEW list, NEW n \in Nat, NEW threshold
    PROVE  \E acc : Loop(acc, list, n, threshold)
<1> DEFINE g == Fold(list, n, threshold)
           acc == [k \in 0 .. n |-> g[1 .. k]]
<1>1. Folds(g, list, n, threshold, n)
  BY FoldExists
<1>2. SetPriorities(list, n, threshold) = g[1 .. n].idx
  BY SetPrioritiesFolds
<1> HIDE DEF g
<1>3. acc[0] = Start(n)
  <2>1. 1 .. 0 = {} /\ {} \in SUBSET (1 .. n)
    OBVIOUS
  <2> QED
    BY <2>1, <1>1 DEF Folds
<1>4. ASSUME NEW k \in 1 .. n
      PROVE  acc[k] = Visited(list, n, threshold, acc[k - 1], VisitOrder(n)[k])
  <2>1. 1 .. k \in SUBSET (1 .. n) /\ 1 .. k # {} /\ 1 .. k \in SUBSET (0 .. n)
    OBVIOUS
  <2>2. Max(1 .. k) = k
    <3>1. Max(1 .. k) \in 1 .. k /\ \A x \in 1 .. k : Max(1 .. k) >= x
      BY <2>1, GreatestNatural
    <3> QED
      BY <3>1
  <2>3. (1 .. k) \ {k} = 1 .. k - 1
    OBVIOUS
  <2>4. g[1 .. k] = Visited(list, n, threshold, g[1 .. k - 1], VisitOrder(n)[k])
    BY <1>1, <2>1, <2>2, <2>3 DEF Folds
  <2>5. k \in 0 .. n /\ k - 1 \in 0 .. n
    OBVIOUS
  <2> QED
    BY <2>4, <2>5
<1>5. acc[n] = g[1 .. n]
  OBVIOUS
<1>6. Loop(acc, list, n, threshold)
  <2> HIDE DEF acc
  <2> QED
    BY <1>2, <1>3, <1>4, <1>5 DEF Loop
<1> QED
  BY <1>6

\* The loop sees every AP.
LEMMA EachVisited ==
    ASSUME NEW n \in Nat \ {0}
    PROVE  /\ \A k \in 1 .. n : VisitOrder(n)[k] \in 1 .. n
           /\ VisitOrder(n)[1] = 1
           /\ \A j \in 1 .. n : \E k \in 1 .. n : VisitOrder(n)[k] = j
<1> DEFINE visit(k) == IF k % 2 = 1 THEN (k + 1) \div 2 ELSE n + 1 - k \div 2
<1>1. \A k \in 1 .. n : VisitOrder(n)[k] = visit(k)
  BY DEF VisitOrder
<1>2. \A k \in 1 .. n : visit(k) \in 1 .. n
  OBVIOUS
<1>3. visit(1) = 1 /\ 1 \in 1 .. n
  OBVIOUS
<1>4. ASSUME NEW j \in 1 .. n
      PROVE  \E k \in 1 .. n : visit(k) = j
  <2>1. CASE 2 * j - 1 <= n
    <3>1. 2 * j - 1 \in 1 .. n /\ visit(2 * j - 1) = j
      BY <2>1
    <3> QED
      BY <3>1
  <2>2. CASE ~(2 * j - 1 <= n)
    <3>1. 2 * (n + 1 - j) \in 1 .. n /\ visit(2 * (n + 1 - j)) = j
      BY <2>2
    <3> QED
      BY <3>1
  <2> QED
    BY <2>1, <2>2
<1> HIDE DEF visit
<1> QED
  BY <1>1, <1>2, <1>3, <1>4

\* No priority reaches the one the scan starts from.
LEMMA PriorityBound ==
    ASSUME NEW list, NEW n \in Nat \ {0}, ApsOf(list, n), NEW j \in 1 .. n
    PROVE  /\ GetPriority(list, n, j) \in Int
           /\ n > 1 => GetPriority(list, n, j) < (n - 1) * HIGHEST_PRIORITY
<1> DEFINE E(k) == EffectiveRssi(list[k])
           x == (n - 1) * (E(j) - E(1)) + (j - 1) * (E(1) - E(n))
           c == IF list[j].connected THEN CONNECTED ELSE 0
<1>1. E(j) \in Int /\ E(1) \in Int /\ E(n) \in Int
  <2>1. \A k \in 1 .. n : list[k].rssi \in Int
    BY DEF ApsOf
  <2>2. 1 \in 1 .. n /\ n \in 1 .. n
    OBVIOUS
  <2> QED
    BY <2>1, <2>2 DEF EffectiveRssi
<1>2. x \in Int
  <2> HIDE DEF E
  <2>1. n - 1 \in Int /\ E(j) - E(1) \in Int /\ j - 1 \in Int /\ E(1) - E(n) \in Int
    BY <1>1
  <2>2. (n - 1) * (E(j) - E(1)) \in Int /\ (j - 1) * (E(1) - E(n)) \in Int
    BY <2>1
  <2> QED
    BY <2>2
<1>3. GetPriority(list, n, j) = (n - 1) * (c + 128) - Magnitude(x)
  BY DEF GetPriority
<1> HIDE DEF x
<1>4. Magnitude(x) \in Nat
  BY <1>2 DEF Magnitude
<1>5. CASE c = 512
  <2>1. GetPriority(list, n, j) = (n - 1) * 640 - Magnitude(x)
    BY <1>3, <1>5
  <2> QED
    BY <2>1, <1>4 DEF HIGHEST_PRIORITY
<1>6. CASE c = 0
  <2>1. GetPriority(list, n, j) = (n - 1) * 128 - Magnitude(x)
    BY <1>3, <1>6
  <2> QED
    BY <2>1, <1>4 DEF HIGHEST_PRIORITY
<1> QED
  BY <1>5, <1>6 DEF CONNECTED

LEMMA PriorityChosen ==
    ASSUME NEW list, NEW n \in Nat \ {0}, NEW threshold
    PROVE  SetPriorities(list, n, threshold) \in 1 .. n
<1>0. PICK acc : Loop(acc, list, n, threshold)
  <2>1. n \in Nat
    OBVIOUS
  <2> QED
    BY <2>1, FoldSteps
<1>1. /\ acc[0] = Start(n)
      /\ \A k \in 1 .. n :
           acc[k] = Visited(list, n, threshold, acc[k - 1], VisitOrder(n)[k])
      /\ SetPriorities(list, n, threshold) = acc[n].idx
  BY <1>0 DEF Loop
<1> DEFINE Bad == {k \in Nat : k <= n /\ acc[k].idx \notin 1 .. n}
<1>2. 0 \notin Bad
  <2>1. n \div 2 + 1 \in 1 .. n
    OBVIOUS
  <2> QED
    BY <1>1, <2>1 DEF Start
<1>3. ASSUME NEW k \in Nat, k \notin Bad
      PROVE  k + 1 \notin Bad
  <2> SUFFICES ASSUME k + 1 <= n
               PROVE  acc[k + 1].idx \in 1 .. n
    OBVIOUS
  <2>1. acc[k].idx \in 1 .. n
    BY <1>3
  <2>2. acc[k + 1] = Visited(list, n, threshold, acc[k], VisitOrder(n)[k + 1])
    <3>1. k + 1 \in 1 .. n /\ (k + 1) - 1 = k
      OBVIOUS
    <3> QED
      BY <1>1, <3>1
  <2>3. acc[k + 1].idx \in {acc[k].idx, VisitOrder(n)[k + 1]}
    BY <2>2 DEF Visited
  <2> QED
    BY <2>1, <2>3, EachVisited
<1>4. Bad = {}
  <2>1. Bad \in SUBSET Nat
    OBVIOUS
  <2> HIDE DEF Bad
  <2> QED
    BY <2>1, <1>2, <1>3, NoLeastNoBad
<1> QED
  BY <1>1, <1>4

\* j is to be kept rather than i.
Worse(list, n, i, j) ==
    \/ GetPriority(list, n, i) < GetPriority(list, n, j)
    \/ /\ GetPriority(list, n, i) = GetPriority(list, n, j)
       /\ MacLower(list[j].mac, list[i].mac)

\* If the weakest AP is not below the threshold, the loop ends with the AP of
\* lowest priority and, of those, the highest MAC.
LEMMA LowestChosen ==
    ASSUME NEW list, NEW n \in Nat \ {0}, NEW threshold, ApsOf(list, n),
           \A i, j \in 1 .. n : i # j => list[i].mac # list[j].mac,
           ~BelowRssiThreshold(list[n], threshold)
    PROVE  \A j \in (1 .. n) \ {SetPriorities(list, n, threshold)} :
              Worse(list, n, SetPriorities(list, n, threshold), j)
<1>0. PICK acc : Loop(acc, list, n, threshold)
  <2>1. n \in Nat
    OBVIOUS
  <2> QED
    BY <2>1, FoldSteps
<1>1. /\ acc[0] = Start(n)
      /\ \A k \in 1 .. n :
           acc[k] = Visited(list, n, threshold, acc[k - 1], VisitOrder(n)[k])
      /\ SetPriorities(list, n, threshold) = acc[n].idx
  BY <1>0 DEF Loop
<1>2. PICK len \in Nat : \A i \in 1 .. n : list[i].mac \in [1 .. len -> 0 .. 15]
  BY DEF ApsOf
<1>3. CASE n = 1
  <2>1. SetPriorities(list, n, threshold) \in 1 .. 1
    BY <1>3, PriorityChosen
  <2> QED
    BY <2>1, <1>3
<1>4. CASE n > 1
  <2> DEFINE prio(j) == GetPriority(list, n, j)
             \* What the loop has established after k APs.
             Seen(k) ==
                 /\ acc[k].idx \in 1 .. n
                 /\ acc[k].priority = prio(acc[k].idx)
                 /\ \A l \in 1 .. k :
                      VisitOrder(n)[l] # acc[k].idx => Worse(list, n, acc[k].idx, VisitOrder(n)[l])
             Bad == {k \in Nat : k + 1 <= n /\ ~Seen(k + 1)}
  <2>1. \A j \in 1 .. n : prio(j) \in Int /\ prio(j) < (n - 1) * HIGHEST_PRIORITY
    BY <1>4, PriorityBound
  <2>2. 0 \notin Bad
    <3>1. acc[1] = Visited(list, n, threshold, Start(n), 1)
      <4>1. 1 \in 1 .. n /\ 1 - 1 = 0
        OBVIOUS
      <4>2. VisitOrder(n)[1] = 1
        BY EachVisited
      <4>3. acc[1] = Visited(list, n, threshold, acc[1 - 1], VisitOrder(n)[1])
        BY <1>1, <4>1
      <4> QED
        BY <1>1, <4>1, <4>2, <4>3
    <3>2. (n - 1) * HIGHEST_PRIORITY \in Int
      BY DEF HIGHEST_PRIORITY
    <3>3. prio(1) <= Start(n).priority /\ prio(1) # Start(n).priority
      <4>1. prio(1) \in Int /\ prio(1) < (n - 1) * HIGHEST_PRIORITY
        BY <2>1
      <4> HIDE DEF prio
      <4> QED
        BY <4>1, <3>2 DEF Start
    <3>4. acc[1] = [idx |-> 1, priority |-> prio(1)]
      BY <3>1, <3>3 DEF Visited
    <3>5. Seen(1)
      <4>1. \A l \in 1 .. 1 : VisitOrder(n)[l] = 1
        BY EachVisited
      <4> HIDE DEF prio
      <4> QED
        BY <3>4, <4>1
    <3> HIDE DEF Seen
    <3> QED
      BY <3>5
  <2>3. ASSUME NEW k \in Nat, k \notin Bad
        PROVE  k + 1 \notin Bad
    <3> SUFFICES ASSUME (k + 1) + 1 <= n
                 PROVE  Seen((k + 1) + 1)
      OBVIOUS
    <3> DEFINE a == acc[k + 1]
               j == VisitOrder(n)[k + 2]
    <3>1. Seen(k + 1)
      <4> HIDE DEF Seen
      <4> QED
        BY <2>3
    <3>2. acc[k + 2] = Visited(list, n, threshold, a, j)
      <4>1. k + 2 \in 1 .. n /\ (k + 2) - 1 = k + 1
        OBVIOUS
      <4> QED
        BY <1>1, <4>1
    <3>3. j \in 1 .. n /\ a.idx \in 1 .. n /\ a.priority = prio(a.idx)
      <4>1. k + 2 \in 1 .. n
        OBVIOUS
      <4> QED
        BY <4>1, <3>1, EachVisited
    <3>4. \A l \in 1 .. k + 1 : \/ VisitOrder(n)[l] = a.idx
                                \/ Worse(list, n, a.idx, VisitOrder(n)[l])
      BY <3>1
    <3>m. \A l \in 1 .. k + 2 : l \in 1 .. k + 1 \/ l = k + 2
      OBVIOUS
    <3>v. \A l \in 1 .. k + 1 : VisitOrder(n)[l] \in 1 .. n
      <4>1. \A l \in 1 .. k + 1 : l \in 1 .. n
        OBVIOUS
      <4> QED
        BY <4>1, EachVisited
    <3> HIDE DEF a, j
    <3>5. CASE Worse(list, n, j, a.idx)
      <4>1. /\ prio(j) <= a.priority
            /\ prio(j) # a.priority \/ MacLower(list[a.idx].mac, list[j].mac)
        BY <3>3, <3>5, <2>1 DEF Worse
      <4>2. acc[k + 2] = [idx |-> j, priority |-> prio(j)]
        BY <3>2, <4>1 DEF Visited
      <4>3. ASSUME NEW l \in 1 .. k + 1, VisitOrder(n)[l] # a.idx
            PROVE  Worse(list, n, j, VisitOrder(n)[l])
        <5> DEFINE i == VisitOrder(n)[l]
        <5>1. Worse(list, n, a.idx, i) /\ i \in 1 .. n
          BY <3>4, <3>v, <4>3
        <5> HIDE DEF i
        <5>2. /\ prio(j) \in Int /\ prio(i) \in Int /\ prio(a.idx) \in Int
              /\ MacLower(list[i].mac, list[a.idx].mac) /\ MacLower(list[a.idx].mac, list[j].mac)
                   => MacLower(list[i].mac, list[j].mac)
          <6>1. /\ list[i].mac \in [1 .. len -> 0 .. 15] /\ list[j].mac \in [1 .. len -> 0 .. 15]
                /\ list[a.idx].mac \in [1 .. len -> 0 .. 15]
            BY <1>2, <3>3, <5>1
          <6> QED
            BY <6>1, <2>1, <3>3, <5>1, MacTransitive
        <5>3. Worse(list, n, j, i)
          <6> HIDE DEF prio
          <6>1. /\ prio(j) < prio(a.idx) \/ (prio(j) = prio(a.idx) /\ MacLower(list[a.idx].mac, list[j].mac))
                /\ prio(a.idx) < prio(i) \/ (prio(a.idx) = prio(i) /\ MacLower(list[i].mac, list[a.idx].mac))
            BY <3>5, <5>1 DEF Worse, prio
          <6>2. prio(j) < prio(i) \/ (prio(j) = prio(i) /\ MacLower(list[i].mac, list[j].mac))
            BY <6>1, <5>2
          <6> QED
            BY <6>2 DEF Worse, prio
        <5> QED
          BY <5>3 DEF i
      <4>4. \A l \in 1 .. k + 2 : \/ VisitOrder(n)[l] = j
                                  \/ Worse(list, n, j, VisitOrder(n)[l])
        BY <4>3, <3>5, <3>m DEF j
      <4>5. Seen(k + 2)
        <5> HIDE DEF prio
        <5> QED
          BY <4>2, <4>4, <3>3
      <4> QED
        BY <4>5
    <3>6. CASE ~Worse(list, n, j, a.idx)
      <4>1. acc[k + 2] = a
        <5>1. /\ prio(j) \in Int /\ prio(a.idx) \in Int
              /\ ~(prio(j) < prio(a.idx))
              /\ ~(prio(j) = prio(a.idx) /\ MacLower(list[a.idx].mac, list[j].mac))
          BY <2>1, <3>3, <3>6 DEF Worse
        <5>2. ~(/\ prio(j) <= a.priority
                /\ prio(j) # a.priority \/ MacLower(list[a.idx].mac, list[j].mac))
          <6> HIDE DEF prio
          <6> QED
            BY <5>1, <3>3
        <5> QED
          BY <3>2, <5>2 DEF Visited
      <4>2. j = a.idx \/ Worse(list, n, a.idx, j)
        <5>1. /\ prio(j) \in Int /\ prio(a.idx) \in Int
              /\ list[j].mac \in [1 .. len -> 0 .. 15] /\ list[a.idx].mac \in [1 .. len -> 0 .. 15]
          BY <2>1, <1>2, <3>3
        <5>2. j # a.idx => MacLower(list[j].mac, list[a.idx].mac) \/ MacLower(list[a.idx].mac, list[j].mac)
          BY <5>1, <3>3, MacTotal
        <5>3. /\ ~(prio(j) < prio(a.idx))
              /\ ~(prio(j) = prio(a.idx) /\ MacLower(list[a.idx].mac, list[j].mac))
          BY <3>6 DEF Worse
        <5>4. \/ j = a.idx \/ prio(a.idx) < prio(j)
              \/ prio(a.idx) = prio(j) /\ MacLower(list[j].mac, list[a.idx].mac)
          <6> HIDE DEF prio
          <6> QED
            BY <5>1, <5>2, <5>3
        <5> QED
          BY <5>4 DEF Worse
      <4>3. \A l \in 1 .. k + 2 : \/ VisitOrder(n)[l] = a.idx
                                  \/ Worse(list, n, a.idx, VisitOrder(n)[l])
        BY <4>2, <3>4, <3>m DEF j
      <4>4. Seen(k + 2)
        <5> HIDE DEF prio
        <5> QED
          BY <4>1, <4>3, <3>3
      <4> QED
        BY <4>4
    <3> QED
      BY <3>5, <3>6
  <2>4. Bad = {}
    <3>1. Bad \in SUBSET Nat
      OBVIOUS
    <3> HIDE DEF Bad
    <3> QED
      BY <3>1, <2>2, <2>3, NoLeastNoBad
  <2>5. Seen(n)
    <3> HIDE DEF Seen
    <3>1. n - 1 \in Nat /\ (n - 1) + 1 = n /\ n - 1 \notin Bad
      BY <1>4, <2>4
    <3> QED
      BY <3>1
  <2>6. \A j \in 1 .. n : \E k \in 1 .. n : VisitOrder(n)[k] = j
    BY EachVisited
  <2>7. SetPriorities(list, n, threshold) = acc[n].idx
    BY <1>1
  <2> QED
    BY <2>5, <2>6, <2>7
<1> QED
  BY <1>3, <1>4
=============================================================================
