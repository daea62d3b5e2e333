------------------------ MODULE SchedulerServiceProofs ------------------------
(***************************************************************************)
(* The tree scheduling policy and the service that replaces it, for every  *)
(* number of localities and every granularity: a tree realises the mapping *)
(* it was made from, rebalancing keeps the localities that take part, and  *)
(* the local decisions of the virtual nodes lead every task to its target. *)
(***************************************************************************)
EXTENDS SchedulerService, FiniteSetTheorems, WellFoundedInduction, TLAPS

-----------------------------------------------------------------------------
(***************************************************************************)
(* Numbers.  Induction over data is made from the well-foundedness of the  *)
(* naturals: a set of naturals has a least member, so that what holds of 0 *)
(* and passes on from i to i + 1 holds up to every n.                      *)
(***************************************************************************)

\* The order of the natural numbers, as a relation.
Less == {ss \in Nat \X Nat : ss[1] < ss[2]}

\* A set of natural numbers that is not empty has a least member.
LEMMA Least ==
  ASSUME NEW T, T \subseteq Nat, T # {}
  PROVE  \E x \in T : \A y \in T : x <= y
<1>1. IsWellFoundedOn(Less, Nat)
  BY NatLessThanWellFounded, Zenon DEF OpToRel, Less
<1>2. \A x, y \in Nat : y < x => <<y, x>> \in Less
  BY DEF Less
<1>3. \E x \in T : \A y \in T : ~(<<y, x>> \in Less)
  BY <1>1, WFMin, Zenon
<1>4. PICK x \in T : \A y \in T : ~(<<y, x>> \in Less)
  BY <1>3
<1>5. \A y \in T : x <= y
  <2> TAKE y \in T
  <2>1. x \in Nat /\ y \in Nat
    OBVIOUS
  <2>2. ~ (y < x)
    BY <2>1, <1>2, <1>4
  <2> QED BY <2>1, <2>2
<1>6. QED
  BY <1>5

\* Induction up to n, over the members of a set.
LEMMA Upto ==
  ASSUME NEW n \in Nat, NEW S, 0 \in S,
         \A i \in 0 .. n : i < n /\ i \in S => i + 1 \in S
  PROVE  \A i \in 0 .. n : i \in S
<1> DEFINE T == {i \in 0 .. n : i \notin S}
<1>1. SUFFICES ASSUME T # {} PROVE FALSE
  OBVIOUS
<1>0. T \subseteq Nat
  OBVIOUS
<1>2. PICK x \in T : \A y \in T : x <= y
  <2> HIDE DEF T
  <2> QED BY <1>0, <1>1, Least
<1>3. x \in Nat /\ x <= n /\ x # 0 /\ x \notin S
  OBVIOUS
<1>4. x - 1 \in 0 .. n /\ x - 1 < n
  BY <1>3
<1>5. x - 1 \in S
  BY <1>2, <1>3, <1>4
<1>6. (x - 1) + 1 \in S
  BY <1>4, <1>5
<1>7. QED
  BY <1>3, <1>6

\* Induction over all natural numbers, over the members of a set.
LEMMA Forever ==
  ASSUME NEW S, 0 \in S, \A i \in Nat : i \in S => i + 1 \in S
  PROVE  \A i \in Nat : i \in S
<1> TAKE i \in Nat
<1>1. \A j \in 0 .. i : j \in S
  BY Upto
<1>2. QED
  BY <1>1

\* 2^n counts the subsets of 1 .. n ...
LEMMA PowerIsNat == ASSUME NEW n \in Nat PROVE 2^n \in Nat
<1>1. IsFiniteSet(1 .. n) /\ Cardinality(1 .. n) = n
  BY FS_Interval
<1>2. IsFiniteSet(SUBSET (1 .. n)) /\ Cardinality(SUBSET (1 .. n)) = 2^n
  BY <1>1, FS_SUBSET
<1>3. QED
  BY <1>2, FS_CardinalityType

\* ... and so doubles with every n.
LEMMA PowerDoubles == ASSUME NEW n \in Nat PROVE 2^(n + 1) = 2 * 2^n
<1> DEFINE S == SUBSET (1 .. n)
           T == {s \cup {n + 1} : s \in S}
           f == [s \in S |-> s \cup {n + 1}]
<1>1. IsFiniteSet(1 .. n) /\ Cardinality(1 .. n) = n /\ IsFiniteSet(1 .. n + 1) /\ Cardinality(1 .. n + 1) = n + 1
  BY FS_Interval
<1>2. IsFiniteSet(S) /\ Cardinality(S) = 2^n /\ Cardinality(SUBSET (1 .. n + 1)) = 2^(n + 1)
  BY <1>1, FS_SUBSET
<1>3. n + 1 \notin 1 .. n
  OBVIOUS
<1>4. f \in Bijection(S, T)
  <2>1. \A s, t \in S : f[s] = f[t] => s = t
    <3> SUFFICES ASSUME NEW s \in S, NEW t \in S, s \cup {n + 1} = t \cup {n + 1} PROVE s = t
      OBVIOUS
    <3>1. n + 1 \notin s /\ n + 1 \notin t
      BY <1>3
    <3>2. s = (s \cup {n + 1}) \ {n + 1} /\ t = (t \cup {n + 1}) \ {n + 1}
      BY <3>1
    <3>3. QED
      BY <3>2, Zenon
  <2>2. f \in [S -> T] /\ \A t \in T : \E s \in S : f[s] = t
    OBVIOUS
  <2>3. QED
    BY <2>1, <2>2 DEF Bijection, Injection, Surjection, IsInjective
<1>5. IsFiniteSet(T) /\ Cardinality(T) = Cardinality(S)
  <2>1. ExistsBijection(S, T)
    BY <1>4 DEF ExistsBijection
  <2>2. QED
    BY <2>1, <1>2, FS_Bijection
<1>6. S \cap T = {}
  BY <1>3
<1>7. S \cup T = SUBSET (1 .. n + 1)
  <2>1. 1 .. n + 1 = (1 .. n) \cup {n + 1}
    OBVIOUS
  <2>2. ASSUME NEW u \in SUBSET (1 .. n + 1), n + 1 \in u PROVE u \in T
    <3>1. u \ {n + 1} \in S /\ u = (u \ {n + 1}) \cup {n + 1}
      BY <2>1, <2>2
    <3>2. QED
      BY <3>1
  <2>3. ASSUME NEW u \in SUBSET (1 .. n + 1), n + 1 \notin u PROVE u \in S
    BY <2>1, <2>3
  <2>4. S \cup T \subseteq SUBSET (1 .. n + 1)
    BY <2>1
  <2>5. QED
    BY <2>2, <2>3, <2>4
<1>8. Cardinality(S \cup T) = Cardinality(S) + Cardinality(T) - Cardinality(S \cap T)
  BY <1>2, <1>5, FS_Union
<1>9. Cardinality(S \cap T) = 0
  BY <1>6, FS_EmptySet
<1>10. 2^n \in Nat
  BY PowerIsNat
<1> HIDE DEF S, T
<1>11. 2^(n + 1) = Cardinality(S) + Cardinality(T) - 0
  BY <1>2, <1>7, <1>8, <1>9
<1>12. QED
  BY <1>11, <1>10, <1>2, <1>5

\* What is needed of the powers of two.
LEMMA Powers ==
  /\ 2^0 = 1
  /\ \A n \in Nat : 2^n \in Nat /\ 2^n > n
  /\ \A n \in Nat : n # 0 => 2^n = 2 * 2^(n - 1)
<1>1. 2^0 = 1
  OBVIOUS
<1>2. \A n \in Nat : 2^n \in Nat
  BY PowerIsNat
<1>3. \A n \in Nat : n # 0 => 2^n = 2 * 2^(n - 1)
  <2> SUFFICES ASSUME NEW n \in Nat, n # 0 PROVE 2^n = 2 * 2^(n - 1)
    OBVIOUS
  <2>1. PICK m \in Nat : m = n - 1
    OBVIOUS
  <2>2. 2^(m + 1) = 2 * 2^m
    BY PowerDoubles
  <2>3. n = m + 1
    BY <2>1
  <2>4. QED
    BY <2>1, <2>2, <2>3
<1>4. \A n \in Nat : 2^n > n
  <2> DEFINE S == {n \in Nat : 2^n > n}
  <2>1. 0 \in S
    BY <1>1
  <2>2. ASSUME NEW n \in Nat, n \in S PROVE n + 1 \in S
    <3>1. 2^(n + 1) = 2 * 2^n /\ 2^n \in Nat /\ 2^n > n
      BY <2>2, <1>2, PowerDoubles
    <3> DEFINE a == 2^n
               b == 2^(n + 1)
    <3>2. b = 2 * a /\ a \in Nat /\ a > n
      BY <3>1
    <3> HIDE DEF a, b
    <3>3. b > n + 1
      BY <3>2
    <3>4. QED
      BY <3>3 DEF b
  <2> HIDE DEF S
  <2>3. \A n \in Nat : n \in S
    BY <2>1, <2>2, Forever
  <2>4. QED
    BY <2>3 DEF S
<1>5. QED
  BY <1>1, <1>2, <1>3, <1>4

\* Powers grow with their exponents.
LEMMA PowersGrow == ASSUME NEW m \in Nat, NEW n \in Nat, m <= n PROVE 2^m <= 2^n
<1> DEFINE S == {k \in 0 .. n - m : 2^m <= 2^(m + k)}
<1>1. 0 \in S
  BY Powers
<1>2. ASSUME NEW k \in 0 .. n - m, k < n - m, k \in S PROVE k + 1 \in S
  <2>1. m + k \in Nat /\ m + (k + 1) = (m + k) + 1
    OBVIOUS
  <2>2. 2^(m + (k + 1)) = 2 * 2^(m + k)
    BY <2>1, PowerDoubles
  <2>3. 2^(m + k) \in Nat /\ 2^m \in Nat /\ 2^m <= 2^(m + k)
    BY <1>2, <2>1, Powers
  <2> DEFINE a == 2^m
             b == 2^(m + k)
             c == 2^(m + (k + 1))
  <2>4. a \in Nat /\ b \in Nat /\ c = 2 * b /\ a <= b
    BY <2>2, <2>3
  <2> HIDE DEF a, b, c
  <2>5. a <= c
    BY <2>4
  <2>6. 2^m <= 2^(m + (k + 1))
    BY <2>5 DEF a, c
  <2>7. QED
    BY <2>6, <1>2
<1>3. n - m \in Nat
  OBVIOUS
<1> HIDE DEF S
<1>4. n - m \in S
  BY <1>1, <1>2, <1>3, Upto
<1>5. QED
  BY <1>4 DEF S

\* CeilLog2 exists: the tree of virtual nodes is high enough for all localities, and no
\* higher than the paths that are mapped are long.
LEMMA Depth ==
  /\ MaxDepth \in Nat /\ MaxDepth <= Granularity
  /\ 2^MaxDepth >= N
  /\ N \in Nat \ {0} /\ Granularity \in Nat
  /\ Root = <<0, MaxDepth>>
<1>1. N \in Nat \ {0} /\ Granularity \in Nat /\ 2^Granularity >= N
  BY PolicyAssumption
<1> DEFINE T == {h \in Nat : 2^h >= N}
<1>2. Granularity \in T
  BY <1>1
<1>3. PICK h \in T : \A y \in T : h <= y
  BY <1>2, Least
<1>4. N \in T
  BY <1>1, Powers
<1>5. h \in 0 .. N /\ h <= Granularity /\ 2^h >= N
  BY <1>1, <1>2, <1>3, <1>4
<1>6. h = 0 \/ 2^(h - 1) < N
  <2> SUFFICES ASSUME h # 0 PROVE 2^(h - 1) < N
    OBVIOUS
  <2>1. h - 1 \in Nat /\ h - 1 < h
    BY <1>5
  <2>2. h - 1 \notin T
    BY <1>3, <1>5, <2>1
  <2>3. 2^(h - 1) \in Nat
    BY <2>1, Powers
  <2>4. QED
    BY <2>1, <2>2, <2>3, <1>1
<1>7. MaxDepth \in 0 .. N /\ 2^MaxDepth >= N /\ (MaxDepth = 0 \/ 2^(MaxDepth - 1) < N)
  <2>1. MaxDepth = CHOOSE k \in 0 .. N : 2^k >= N /\ (k = 0 \/ 2^(k - 1) < N)
    BY DEF MaxDepth, H!CeilLog2
  <2>2. \E k \in 0 .. N : 2^k >= N /\ (k = 0 \/ 2^(k - 1) < N)
    BY <1>5, <1>6
  <2>3. QED
    BY <2>1, <2>2, Zenon
<1>8. MaxDepth <= Granularity
  <2> SUFFICES ASSUME MaxDepth > Granularity PROVE FALSE
    BY <1>1, <1>7
  <2>1. MaxDepth \in Nat /\ MaxDepth - 1 \in Nat /\ MaxDepth - 1 >= Granularity /\ MaxDepth # 0
    BY <1>1, <1>7
  <2>2. 2^Granularity <= 2^(MaxDepth - 1)
    BY <2>1, <1>1, PowersGrow
  <2>3. 2^(MaxDepth - 1) < N /\ 2^(MaxDepth - 1) \in Nat /\ 2^Granularity \in Nat
    BY <2>1, <1>1, <1>7, Powers
  <2>4. QED
    BY <2>2, <2>3, <1>1
<1>9. Root = <<0, MaxDepth>>
  <2>1. H!getLayersOn(0, N) = 1 + MaxDepth
    BY DEF MaxDepth, H!getLayersOn
  <2>2. Root = <<0, H!getLayersOn(0, N) - 1>>
    BY DEF Root, H!getRootOfNetworkSize
  <2>3. QED
    BY <2>1, <2>2, <1>7
<1>10. QED
  BY <1>1, <1>7, <1>8, <1>9
-----------------------------------------------------------------------------
(***************************************************************************)
(* Paths, and the visits of fillTree.                                      *)
(***************************************************************************)

\* Paths, by their lengths.
Turns(n) == [1 .. n -> {0, 1}]

\* What a path is ...
LEMMA PathLength ==
  ASSUME NEW p \in Paths
  PROVE  Len(p) \in 0 .. 2 * Granularity /\ p \in Turns(Len(p)) /\ p \in Seq({0, 1})
<1>1. PICK n \in 0 .. 2 * Granularity : p \in Turns(n)
  BY DEF Paths, Turns
<1>2. n \in Nat
  BY Depth
<1>3. p \in Seq({0, 1}) /\ Len(p) = n
  BY <1>1, <1>2 DEF Turns
<1>4. QED
  BY <1>1, <1>3

\* ... and what is a path.
LEMMA PathOfLength ==
  ASSUME NEW n \in 0 .. 2 * Granularity, NEW p \in Turns(n)
  PROVE  p \in Paths /\ Len(p) = n /\ p \in Seq({0, 1})
<1>1. p \in Paths
  BY DEF Paths, Turns
<1>2. n \in Nat
  BY Depth
<1>3. QED
  BY <1>1, <1>2 DEF Turns

\* The paths above a path.
LEMMA Prefix ==
  ASSUME NEW p \in Paths, NEW n \in 0 .. Len(p)
  PROVE  /\ SubSeq(p, 1, n) \in Paths /\ Len(SubSeq(p, 1, n)) = n
         /\ \A i \in 1 .. n : SubSeq(p, 1, n)[i] = p[i]
         /\ \A m \in 0 .. n : SubSeq(SubSeq(p, 1, n), 1, m) = SubSeq(p, 1, m)
         /\ n = Len(p) => SubSeq(p, 1, n) = p
<1>1. Len(p) \in 0 .. 2 * Granularity /\ p \in Turns(Len(p)) /\ p \in Seq({0, 1})
  BY PathLength
<1>2. n \in Nat /\ n <= Len(p) /\ n \in 0 .. 2 * Granularity /\ Granularity \in Nat
  BY <1>1, Depth
<1> DEFINE q == SubSeq(p, 1, n)
<1>3. q = [i \in 1 .. n |-> p[i]]
  BY <1>1, <1>2
<1>4. q \in Turns(n)
  <2>1. \A i \in 1 .. n : p[i] \in {0, 1}
    BY <1>1, <1>2 DEF Turns
  <2> HIDE DEF q
  <2> QED BY <2>1, <1>3 DEF Turns
<1>5. q \in Paths /\ Len(q) = n /\ q \in Seq({0, 1})
  BY <1>2, <1>4, PathOfLength
<1>6. \A i \in 1 .. n : q[i] = p[i]
  BY <1>3
<1>7. ASSUME NEW m \in 0 .. n PROVE SubSeq(q, 1, m) = SubSeq(p, 1, m)
  <2>1. m \in Nat /\ m <= Len(p) /\ m <= Len(q)
    BY <1>2, <1>5
  <2>2. SubSeq(p, 1, m) = [i \in 1 .. m |-> p[i]]
    BY <1>1, <2>1
  <2>3. SubSeq(q, 1, m) = [i \in 1 .. m |-> q[i]]
    BY <1>5, <2>1
  <2>4. \A i \in 1 .. m : q[i] = p[i]
    BY <1>6, <2>1, <1>2
  <2>5. QED
    BY <2>2, <2>3, <2>4
<1>8. n = Len(p) => q = p
  BY <1>1, <1>3 DEF Turns
<1>9. QED
  BY <1>5, <1>6, <1>7, <1>8

\* A path without its last turn.
LEMMA FrontOfPath ==
  ASSUME NEW p \in Paths
  PROVE  /\ p = <<>> <=> Len(p) = 0
         /\ p # <<>> => /\ Front(p) \in Paths /\ Len(Front(p)) = Len(p) - 1
                        /\ Last(p) \in {0, 1}
<1>1. Len(p) \in Nat /\ p \in Turns(Len(p)) /\ p \in Seq({0, 1})
  BY PathLength
<1>2. p = <<>> <=> Len(p) = 0
  BY <1>1
<1>3. ASSUME p # <<>>
      PROVE  Front(p) \in Paths /\ Len(Front(p)) = Len(p) - 1 /\ Last(p) \in {0, 1}
  <2>1. Len(p) - 1 \in 0 .. Len(p) /\ Len(p) \in 1 .. Len(p)
    BY <1>1, <1>2, <1>3
  <2>2. Last(p) \in {0, 1}
    BY <1>1, <2>1 DEF Last, Turns
  <2>3. QED
    BY <2>1, <2>2, Prefix DEF Front
<1>4. QED
  BY <1>2, <1>3

\* The recursion of fillTree, unfolded: the visit of the root and the one of a longer path.
FirstVisit == [depth |-> 0, lo |-> 0, hi |-> 2^MaxDepth, min |-> 0, max |-> NumTasks]
\* NextVisit, and none once a leaf is reached.
Later(map, v, turn) == IF v.depth >= MaxDepth THEN v ELSE NextVisit(map, v, turn)

VisitAt(map, f, p) == IF p = <<>> THEN FirstVisit ELSE Later(map, f[Front(p)], Last(p))

\* Visits is defined by recursion over the lengths of the paths.
LEMMA VisitsDefined ==
  ASSUME NEW map
  PROVE  Visits(map) = [p \in Paths |-> VisitAt(map, Visits(map), p)]
<1> DEFINE Short(n) == {p \in Paths : Len(p) <= n}
           Good(f, n) == f = [p \in Short(n) |-> VisitAt(map, f, p)]
           S == {n \in 0 .. 2 * Granularity : \E f : Good(f, n)}
<1>0. Granularity \in Nat /\ 2 * Granularity \in Nat
  BY Depth
<1>1. 0 \in S
  <2> DEFINE f == [p \in Short(0) |-> FirstVisit]
  <2>1. \A p \in Short(0) : p = <<>>
    BY FrontOfPath, PathLength
  <2>2. \A p \in Short(0) : VisitAt(map, f, p) = FirstVisit
    BY <2>1 DEF VisitAt
  <2>3. Good(f, 0)
    BY <2>2, Zenon
  <2>4. \E g : Good(g, 0)
    BY <2>3, Zenon
  <2>5. 0 \in 0 .. 2 * Granularity
    BY <1>0
  <2> HIDE DEF Good
  <2> QED
    BY <2>4, <2>5
<1>2. ASSUME NEW n \in 0 .. 2 * Granularity, n < 2 * Granularity, n \in S
      PROVE  n + 1 \in S
  <2>1. PICK f : Good(f, n)
    BY <1>2
  <2> DEFINE g == [p \in Short(n + 1) |-> IF p \in Short(n) THEN f[p] ELSE VisitAt(map, f, p)]
  <2>2. ASSUME NEW p \in Short(n + 1), p # <<>> PROVE Front(p) \in Short(n) /\ Front(p) \in Short(n + 1)
    BY <2>2, FrontOfPath, PathLength
  <2>3. ASSUME NEW p \in Short(n + 1) PROVE VisitAt(map, g, p) = VisitAt(map, f, p)
    <3>1. p # <<>> => g[Front(p)] = f[Front(p)]
      <4> HIDE DEF Short
      <4> QED
      BY <2>2, Zenon
    <3> HIDE DEF g
    <3>2. QED
      BY <3>1, Zenon DEF VisitAt
  <2>4. ASSUME NEW p \in Short(n) PROVE f[p] = VisitAt(map, f, p)
    <3> HIDE DEF Short
    <3> QED
    BY <2>1, Zenon
  <2>5. ASSUME NEW p \in Short(n + 1) PROVE g[p] = VisitAt(map, g, p)
    <3> HIDE DEF Short
    <3>1. g[p] = IF p \in Short(n) THEN f[p] ELSE VisitAt(map, f, p)
      BY Zenon
    <3> HIDE DEF g
    <3> QED
      BY <3>1, <2>3, <2>4, Zenon
  <2>6. g = [p \in Short(n + 1) |-> g[p]]
    <3> HIDE DEF Short
    <3> QED BY Zenon
  <2>7. Good(g, n + 1)
    <3> HIDE DEF g, Short
    <3> QED BY <2>5, <2>6, Zenon
  <2> HIDE DEF Good
  <2>8. \E h : Good(h, n + 1)
    BY <2>7, Zenon
  <2>9. n + 1 \in 0 .. 2 * Granularity
    BY <1>0, <1>2
  <2> QED
    BY <2>8, <2>9
<1>3. 2 * Granularity \in S
  <2> HIDE DEF S
  <2> QED BY <1>0, <1>1, <1>2, Upto
<1>4. Short(2 * Granularity) = Paths
  BY PathLength, Depth
<1>5. \E f : f = [p \in Paths |-> VisitAt(map, f, p)]
  <2>1. PICK f : Good(f, 2 * Granularity)
    BY <1>3
  <2>2. f = [p \in Short(2 * Granularity) |-> VisitAt(map, f, p)]
    BY <2>1
  <2> HIDE DEF Short
  <2>3. QED
    BY <2>2, <1>4, Zenon
<1>6. Visits(map) = CHOOSE f : f = [p \in Paths |-> VisitAt(map, f, p)]
  BY Zenon DEF Visits, VisitAt, FirstVisit, Later
<1>7. QED
  BY <1>5, <1>6, Zenon
-----------------------------------------------------------------------------
(***************************************************************************)
(* The invariant of the visits.                                            *)
(***************************************************************************)

\* What a visit consists of.
Visit == [depth : Nat, lo : Nat, hi : Nat, min : Nat, max : Nat]

\* Where a visit after n turns has got to.
Place(v) ==
  /\ v.depth <= MaxDepth
  /\ v.lo \in Nodes
  /\ v.hi = v.lo + 2^(MaxDepth - v.depth)

\* The tasks it is in charge of.
Charge(v, n) ==
  /\ v.min < NumTasks /\ v.min <= v.max /\ v.max <= NumTasks
  /\ v.depth < MaxDepth =>
       IF n <= Granularity THEN v.max - v.min = 2^(Granularity - n) ELSE v.max - v.min <= 1

\* Below the paths that are mapped every turn leads further down.
Descent(v, n) == n >= Granularity => v.depth = MaxDepth \/ v.depth >= n - Granularity

VisitOK(v, n) == v \in Visit /\ Place(v) /\ Charge(v, n) /\ Descent(v, n)

\* The locality and the task in the middle of a visit, and half of its localities.
Center(v) == v.lo + (v.hi - v.lo) \div 2
Mid(v)    == v.min + (v.max - v.min) \div 2
Half(v)   == 2^(MaxDepth - (v.depth + 1))

\* Above the leaves the center divides the localities into equal halves.
LEMMA Centers ==
  ASSUME NEW v \in Visit, Place(v), v.depth < MaxDepth
  PROVE  Half(v) \in Nat \ {0} /\ Center(v) = v.lo + Half(v) /\ v.hi = Center(v) + Half(v)
<1>1. MaxDepth \in Nat /\ v.depth \in Nat /\ v.lo \in Nat /\ v.hi \in Nat
  BY Depth DEF Visit
<1>2. MaxDepth - v.depth \in Nat /\ MaxDepth - v.depth # 0
  BY <1>1
<1>3. 2^(MaxDepth - v.depth) = 2 * 2^((MaxDepth - v.depth) - 1)
  BY <1>2, Powers
<1>4. (MaxDepth - v.depth) - 1 = MaxDepth - (v.depth + 1) /\ MaxDepth - (v.depth + 1) \in Nat
  BY <1>1
<1>5. 2^(MaxDepth - v.depth) = 2 * Half(v) /\ Half(v) \in Nat /\ Half(v) > 0
  <2>1. Half(v) \in Nat /\ Half(v) > MaxDepth - (v.depth + 1)
    BY <1>4, Powers DEF Half
  <2>2. 2^(MaxDepth - v.depth) = 2 * Half(v)
    BY <1>3, <1>4 DEF Half
  <2>3. QED
    BY <2>1, <2>2, <1>4
<1>6. v.hi = v.lo + 2 * Half(v)
  BY <1>5 DEF Place
<1>7. QED
  BY <1>1, <1>5, <1>6 DEF Center

\* mid divides the tasks into equal halves while there is more than one.
LEMMA Mids ==
  ASSUME NEW v \in Visit, NEW n \in Nat, Charge(v, n), v.depth < MaxDepth
  PROVE  /\ n < Granularity => /\ v.max = Mid(v) + 2^(Granularity - (n + 1))
                               /\ Mid(v) = v.min + 2^(Granularity - (n + 1))
                               /\ 2^(Granularity - (n + 1)) \in Nat \ {0}
         /\ n >= Granularity => Mid(v) = v.min /\ v.max - v.min <= 1
         /\ n = Granularity => v.max = v.min + 1
         /\ Mid(v) \in Nat
<1>1. v.min \in Nat /\ v.max \in Nat /\ v.min <= v.max
  BY DEF Visit, Charge
<1>2. ASSUME n < Granularity
      PROVE  /\ v.max = Mid(v) + 2^(Granularity - (n + 1)) /\ Mid(v) = v.min + 2^(Granularity - (n + 1))
             /\ 2^(Granularity - (n + 1)) \in Nat \ {0}
  <2>1. Granularity - n \in Nat /\ Granularity - n # 0 /\ (Granularity - n) - 1 = Granularity - (n + 1)
        /\ Granularity - (n + 1) \in Nat
    BY <1>2, Depth
  <2>2. 2^(Granularity - n) = 2 * 2^((Granularity - n) - 1)
    BY <2>1, Powers
  <2>3. 2^(Granularity - (n + 1)) \in Nat /\ 2^(Granularity - (n + 1)) > Granularity - (n + 1)
    BY <2>1, Powers
  <2> DEFINE a == 2^(Granularity - (n + 1))
  <2>4. a \in Nat /\ a > 0
    BY <2>1, <2>3
  <2>5. v.max - v.min = 2 * a
    BY <2>1, <2>2, <1>2, Depth DEF Charge
  <2> HIDE DEF a
  <2>6. v.max = Mid(v) + a /\ Mid(v) = v.min + a /\ a \in Nat \ {0}
    BY <1>1, <2>4, <2>5 DEF Mid
  <2>7. QED
    BY <2>6 DEF a
<1>3. ASSUME n >= Granularity PROVE Mid(v) = v.min /\ v.max - v.min <= 1
  <2>1. v.max - v.min <= 1
    <3>1. CASE n > Granularity
      BY <3>1, Depth DEF Charge
    <3>2. CASE n = Granularity
      BY <3>2, Powers, Depth DEF Charge
    <3>3. QED
      BY <1>3, <3>1, <3>2, Depth
  <2>2. (v.max - v.min) = 0 \/ v.max - v.min = 1
    BY <1>1, <2>1
  <2>3. QED
    BY <1>1, <2>1, <2>2 DEF Mid
<1>4. ASSUME n = Granularity PROVE v.max = v.min + 1
  <2>1. v.max - v.min = 1
    BY <1>4, Powers, Depth DEF Charge
  <2>2. QED
    BY <2>1, <1>1
<1>5. Mid(v) \in Nat
  <2>1. CASE n < Granularity
    BY <1>1, <1>2, <2>1
  <2>2. CASE n >= Granularity
    BY <1>1, <1>3, <2>2
  <2>3. QED
    BY <2>1, <2>2, Depth
<1>6. QED
  BY <1>2, <1>3, <1>4, <1>5

\* A visit in charge of at most one task never stays.
LEMMA Decided ==
  ASSUME NEW map \in Mapping, NEW v \in Visit, NEW n \in Nat, Place(v), Charge(v, n), v.depth < MaxDepth
  PROVE  /\ Decision(map, v) \in {"left", "right", "stay"}
         /\ n >= Granularity => Decision(map, v) # "stay"
         /\ Decision(map, v) = "right" => Center(v) <= map[v.min]
         /\ Decision(map, v) = "left" => map[v.min] < Center(v) \/ v.max # v.min
         /\ Decision(map, v) = "left" =>
              \A i \in Nat : v.min <= i /\ i < v.max /\ i = v.max - 1 => map[i] < Center(v)
<1>1. v.min \in TaskIds /\ map[v.min] \in Nat /\ v.min \in Nat /\ v.max \in Nat /\ v.min <= v.max
  BY Depth, Powers DEF Mapping, Nodes, TaskIds, Charge, Visit, NumTasks
<1> DEFINE first == map[v.min]
           last == IF v.min = v.max THEN first ELSE map[v.max - 1]
<1>2. Decision(map, v) = IF last < Center(v) THEN "left" ELSE IF Center(v) <= first THEN "right" ELSE "stay"
  BY DEF Decision, Center
<1>3. v.min # v.max => v.max - 1 \in TaskIds
  BY <1>1, Depth, Powers DEF TaskIds, Charge, NumTasks
<1>4. last \in Nat
  BY <1>1, <1>3 DEF Mapping, Nodes
<1>5. n >= Granularity => last = first
  <2> SUFFICES ASSUME n >= Granularity, v.min # v.max PROVE map[v.max - 1] = map[v.min]
    OBVIOUS
  <2>1. v.max - v.min <= 1
    BY Mids
  <2>2. v.max - 1 = v.min
    BY <2>1, <1>1
  <2>3. QED
    BY <2>2
<1>6. Center(v) \in Nat
  BY Centers DEF Visit
<1> HIDE DEF first, last
<1>7. /\ Decision(map, v) \in {"left", "right", "stay"}
      /\ n >= Granularity => Decision(map, v) # "stay"
      /\ Decision(map, v) = "right" => Center(v) <= first
      /\ Decision(map, v) = "left" => last < Center(v)
  BY <1>1, <1>2, <1>4, <1>5, <1>6 DEF first
<1>8. QED
  BY <1>7, <1>1 DEF first, last

\* The visit of a longer path, by its fields.
LEMMA NextVisitIs ==
  ASSUME NEW map, NEW v, NEW turn
  PROVE  NextVisit(map, v, turn) =
           [depth |-> IF Decision(map, v) = "stay" THEN v.depth ELSE v.depth + 1,
            lo  |-> IF Decision(map, v) = "right" THEN Center(v) ELSE v.lo,
            hi  |-> IF Decision(map, v) = "left" THEN Center(v) ELSE v.hi,
            min |-> IF turn = 0 THEN v.min ELSE Mid(v),
            max |-> IF turn = 0 THEN Mid(v) ELSE v.max]
BY Zenon DEF NextVisit, Center, Mid

\* The invariant of the visits: kept by every turn ...
LEMMA LaterOK ==
  ASSUME NEW map \in Mapping, NEW n \in Nat, NEW v, VisitOK(v, n), NEW turn \in {0, 1}
  PROVE  VisitOK(Later(map, v, turn), n + 1)
<1>0. v \in Visit /\ Place(v) /\ Charge(v, n) /\ Descent(v, n)
  BY DEF VisitOK
<1>1. CASE v.depth >= MaxDepth
  <2>1. v.depth = MaxDepth
    BY <1>0, <1>1, Depth DEF Place, Visit
  <2>2. Charge(v, n + 1) /\ Descent(v, n + 1)
    BY <1>0, <2>1, Depth DEF Charge, Descent
  <2>3. Later(map, v, turn) = v
    BY <1>1 DEF Later
  <2>4. QED
    BY <1>0, <2>2, <2>3 DEF VisitOK
<1>2. CASE ~ (v.depth >= MaxDepth)
  <2>0. v.depth < MaxDepth /\ v.depth \in Nat /\ v.lo \in Nat /\ v.hi \in Nat /\ v.min \in Nat /\ v.max \in Nat
    BY <1>0, <1>2, Depth DEF Visit
  <2> DEFINE w == NextVisit(map, v, turn)
             d == Decision(map, v)
  <2>1. Later(map, v, turn) = w
    BY <1>2 DEF Later
  <2>2. w = [depth |-> IF d = "stay" THEN v.depth ELSE v.depth + 1,
            lo  |-> IF d = "right" THEN Center(v) ELSE v.lo,
            hi  |-> IF d = "left" THEN Center(v) ELSE v.hi,
            min |-> IF turn = 0 THEN v.min ELSE Mid(v),
            max |-> IF turn = 0 THEN Mid(v) ELSE v.max]
    BY NextVisitIs
  <2>3. /\ d \in {"left", "right", "stay"}
        /\ n >= Granularity => d # "stay"
        /\ d = "right" => Center(v) <= map[v.min]
    BY <1>0, <2>0, Decided
  <2>4. Half(v) \in Nat \ {0} /\ Center(v) = v.lo + Half(v) /\ v.hi = Center(v) + Half(v)
    BY <1>0, <2>0, Centers
  <2>5. /\ n < Granularity => /\ v.max = Mid(v) + 2^(Granularity - (n + 1))
                              /\ Mid(v) = v.min + 2^(Granularity - (n + 1))
                              /\ 2^(Granularity - (n + 1)) \in Nat \ {0}
        /\ n >= Granularity => Mid(v) = v.min /\ v.max - v.min <= 1
        /\ Mid(v) \in Nat
    BY <1>0, <2>0, Mids
  <2>6. map[v.min] \in Nodes /\ v.min < NumTasks /\ v.min <= v.max /\ v.max <= NumTasks
        /\ NumTasks \in Nat /\ MaxDepth \in Nat /\ Granularity \in Nat /\ N \in Nat
    BY <1>0, <2>0, Depth, Powers DEF Charge, Mapping, TaskIds, NumTasks
  <2> HIDE DEF w, d
  <2>7. w \in Visit
    <3>1. Center(v) \in Nat
      BY <2>4, <2>0
    <3>2. QED
      BY <2>2, <2>0, <2>5, <3>1 DEF Visit
  <2>8. Place(w)
    <3>1. w.depth <= MaxDepth
      BY <2>2, <2>0, <2>6
    <3>2. w.lo \in Nodes
      <4>1. v.lo \in Nodes
        BY <1>0 DEF Place
      <4>2. d = "right" => Center(v) \in Nodes
        BY <2>3, <2>4, <2>6, <2>0 DEF Nodes
      <4>3. QED
        BY <4>1, <4>2, <2>2
    <3>3. w.hi = w.lo + 2^(MaxDepth - w.depth)
      <4>1. CASE d = "stay"
        BY <4>1, <2>2, <1>0 DEF Place
      <4>2. CASE d # "stay"
        <5>1. w.depth = v.depth + 1
          BY <4>2, <2>2
        <5>2. 2^(MaxDepth - w.depth) = Half(v)
          BY <5>1 DEF Half
        <5>3. CASE d = "left"
          <6>1. w.lo = v.lo /\ w.hi = Center(v)
            BY <5>3, <2>2
          <6>2. QED
            BY <6>1, <5>2, <2>4
        <5>4. CASE d = "right"
          <6>1. w.lo = Center(v) /\ w.hi = v.hi
            BY <5>4, <2>2
          <6>2. QED
            BY <6>1, <5>2, <2>4
        <5>5. QED
          BY <5>3, <5>4, <4>2, <2>3
      <4>3. QED
        BY <4>1, <4>2
    <3>4. QED
      BY <3>1, <3>2, <3>3 DEF Place
  <2>9. Charge(w, n + 1)
    <3>1. (w.min = v.min /\ w.max = Mid(v)) \/ (w.min = Mid(v) /\ w.max = v.max)
      BY <2>2
    <3>2. CASE n < Granularity
      <4> DEFINE a == 2^(Granularity - (n + 1))
      <4>1. a \in Nat \ {0} /\ v.max = Mid(v) + a /\ Mid(v) = v.min + a
        BY <3>2, <2>5
      <4> HIDE DEF a
      <4>2. w.max - w.min = a /\ w.min < NumTasks /\ w.min <= w.max /\ w.max <= NumTasks
        BY <3>1, <4>1, <2>0, <2>6
      <4>3. n + 1 <= Granularity
        BY <3>2, <2>6
      <4>4. QED
        BY <4>2, <4>3 DEF Charge, a
    <3>3. CASE ~ (n < Granularity)
      <4>1. Mid(v) = v.min /\ v.max - v.min <= 1 /\ n >= Granularity
        BY <3>3, <2>5, <2>6
      <4>2. w.max - w.min <= 1 /\ w.min < NumTasks /\ w.min <= w.max /\ w.max <= NumTasks
        BY <3>1, <4>1, <2>0, <2>6
      <4>3. ~ (n + 1 <= Granularity)
        BY <4>1, <2>6
      <4>4. QED
        BY <4>2, <4>3 DEF Charge
    <3>4. QED
      BY <3>2, <3>3
  <2>10. Descent(w, n + 1)
    <3> SUFFICES ASSUME n + 1 >= Granularity PROVE w.depth = MaxDepth \/ w.depth >= (n + 1) - Granularity
      BY DEF Descent
    <3>1. CASE n >= Granularity
      <4>1. w.depth = v.depth + 1
        BY <3>1, <2>2, <2>3
      <4>2. v.depth >= n - Granularity
        BY <3>1, <1>0, <2>0, <2>6 DEF Descent
      <4>3. QED
        BY <4>1, <4>2, <2>0, <2>6
    <3>2. CASE ~ (n >= Granularity)
      <4>1. (n + 1) - Granularity = 0
        BY <3>2, <2>6
      <4>2. w.depth \in Nat
        BY <2>7 DEF Visit
      <4>3. w.depth >= 0
        BY <4>2
      <4>4. QED
        BY <4>1, <4>3
    <3>3. QED
      BY <3>1, <3>2
  <2>11. QED
    BY <2>1, <2>7, <2>8, <2>9, <2>10 DEF VisitOK
<1>3. QED
  BY <1>1, <1>2

\* ... and true of the visit of the root.
LEMMA FirstVisitOK == VisitOK(FirstVisit, 0)
<1>1. MaxDepth \in Nat /\ Granularity \in Nat /\ N \in Nat \ {0} /\ 2^MaxDepth \in Nat /\ NumTasks \in Nat /\ NumTasks > 0
  BY Depth, Powers DEF NumTasks
<1>2. FirstVisit \in Visit /\ FirstVisit.depth = 0 /\ FirstVisit.lo = 0 /\ FirstVisit.hi = 2^MaxDepth
      /\ FirstVisit.min = 0 /\ FirstVisit.max = NumTasks
  BY <1>1 DEF FirstVisit, Visit
<1>3. MaxDepth - 0 = MaxDepth /\ Granularity - 0 = Granularity
  BY <1>1
<1>4. Place(FirstVisit)
  BY <1>1, <1>2, <1>3 DEF Place, Nodes
<1>5. Charge(FirstVisit, 0)
  BY <1>1, <1>2, <1>3 DEF Charge, NumTasks
<1>6. Descent(FirstVisit, 0)
  BY <1>1, <1>2 DEF Descent
<1>7. QED
  BY <1>2, <1>4, <1>5, <1>6 DEF VisitOK

\* A visit comes from the one before the last turn.
LEMMA VisitStep ==
  ASSUME NEW map, NEW p \in Paths
  PROVE  Visits(map)[p] = IF p = <<>> THEN FirstVisit ELSE Later(map, Visits(map)[Front(p)], Last(p))
<1> DEFINE f == Visits(map)
<1>1. f = [q \in Paths |-> VisitAt(map, f, q)]
  BY VisitsDefined
<1> HIDE DEF f
<1>2. f[p] = VisitAt(map, f, p)
  BY <1>1, Zenon
<1>3. QED
  BY <1>2, Zenon DEF VisitAt, f

\* All visits of fillTree are within the localities, the tasks and the depth of the tree.
LEMMA AllVisitsOK ==
  ASSUME NEW map \in Mapping
  PROVE  \A p \in Paths : VisitOK(Visits(map)[p], Len(p))
<1> DEFINE f == Visits(map)
           S == {n \in 0 .. 2 * Granularity : \A p \in Paths : Len(p) = n => VisitOK(f[p], n)}
<1>0. 2 * Granularity \in Nat
  BY Depth
<1>1. 0 \in S
  <2> SUFFICES ASSUME NEW p \in Paths, Len(p) = 0 PROVE VisitOK(f[p], 0)
    BY <1>0
  <2>1. f[p] = FirstVisit
    BY VisitStep, FrontOfPath
  <2>2. QED
    BY <2>1, FirstVisitOK
<1>2. ASSUME NEW n \in 0 .. 2 * Granularity, n < 2 * Granularity, n \in S PROVE n + 1 \in S
  <2> SUFFICES ASSUME NEW p \in Paths, Len(p) = n + 1 PROVE VisitOK(f[p], n + 1)
    BY <1>0, <1>2
  <2>1. p # <<>> /\ Front(p) \in Paths /\ Len(Front(p)) = n /\ Last(p) \in {0, 1}
    BY FrontOfPath
  <2>2. VisitOK(f[Front(p)], n)
    BY <1>2, <2>1
  <2>3. f[p] = Later(map, f[Front(p)], Last(p))
    BY <2>1, VisitStep
  <2> HIDE DEF f, S
  <2>4. QED
    BY <2>1, <2>2, <2>3, LaterOK
<1> HIDE DEF f, S
<1>3. \A n \in 0 .. 2 * Granularity : n \in S
  BY <1>0, <1>1, <1>2, Upto
<1>4. QED
  BY <1>3, PathLength DEF S, f
-----------------------------------------------------------------------------
(***************************************************************************)
(* Recursion, and the targets of paths.  A function defined by recursion   *)
(* exists; what is proved of it follows by induction.                      *)
(***************************************************************************)

\* A function f defined by recursion over 0 .. n: from c, by the steps g.
Follows(f, n, c, g) == \A i \in 0 .. n : f[i] = IF i = 0 THEN c ELSE g[i][f[i - 1]]

\* There is a function for every recursion over 0 .. n.
LEMMA Recursion ==
  ASSUME NEW n \in Nat, NEW V, NEW c \in V, NEW g \in [0 .. n -> [V -> V]]
  PROVE  \E f \in [0 .. n -> V] : Follows(f, n, c, g)
<1> DEFINE Good(f, m) == \A i \in 0 .. m : f[i] = IF i = 0 THEN c ELSE g[i][f[i - 1]]
           S == {m \in 0 .. n : \E f \in [0 .. n -> V] : Good(f, m)}
<1>1. 0 \in S
  <2>1. [i \in 0 .. n |-> c] \in [0 .. n -> V] /\ Good([i \in 0 .. n |-> c], 0)
    OBVIOUS
  <2> HIDE DEF Good
  <2>2. QED
    BY <2>1
<1>2. ASSUME NEW m \in 0 .. n, m < n, m \in S PROVE m + 1 \in S
  <2>1. PICK f \in [0 .. n -> V] : Good(f, m)
    BY <1>2
  <2> DEFINE h == [f EXCEPT ![m + 1] = g[m + 1][f[m]]]
  <2>2. m \in 0 .. n /\ m + 1 \in 0 .. n /\ f[m] \in V /\ g[m + 1] \in [V -> V]
    BY <1>2
  <2>3. h \in [0 .. n -> V]
    BY <2>2
  <2>4. \A i \in 0 .. m : h[i] = f[i]
    BY <1>2
  <2>5. h[m + 1] = g[m + 1][f[m]]
    BY <2>2
  <2> HIDE DEF h
  <2>6. ASSUME NEW i \in 0 .. m + 1 PROVE h[i] = IF i = 0 THEN c ELSE g[i][h[i - 1]]
    <3>1. CASE i = m + 1
      <4>1. i # 0 /\ i - 1 = m /\ m \in 0 .. m
        BY <3>1
      <4>2. QED
        BY <4>1, <3>1, <2>4, <2>5
    <3>2. CASE i # m + 1
      <4>1. i \in 0 .. m /\ (i # 0 => i - 1 \in 0 .. m)
        BY <3>2
      <4>2. f[i] = IF i = 0 THEN c ELSE g[i][f[i - 1]]
        BY <4>1, <2>1
      <4>3. QED
        BY <4>1, <4>2, <2>4
    <3>3. QED
      BY <3>1, <3>2
  <2>7. Good(h, m + 1)
    BY <2>6
  <2> HIDE DEF Good
  <2>8. QED
    BY <2>2, <2>3, <2>7
<1>3. n \in S
  <2> HIDE DEF S
  <2>1. \A m \in 0 .. n : m \in S
    BY <1>1, <1>2, Upto
  <2> QED BY <2>1
<1>4. PICK f \in [0 .. n -> V] : Good(f, n)
  BY <1>3
<1>5. QED
  BY <1>4, Zenon DEF Follows

\* The addresses of virtual nodes, whether or not they exist, and the recursion of get_target.
Address == Int \X Nat

TargetStep(t, p, a, n) == IF H!isLeaf(a) THEN a ELSE Move(a, get(t, SubSeq(p, 1, n)))
TargetAt(t, p, f, n) == TargetStep(t, p, IF n = 0 THEN Root ELSE f[n - 1], n)

\* The children of a virtual node that is no leaf.
LEMMA MoveIs ==
  ASSUME NEW a \in Address, ~ H!isLeaf(a), NEW d
  PROVE  /\ Move(a, d) \in Address
         /\ d = "left" => Move(a, d) = <<a[1], a[2] - 1>>
         /\ d = "right" => Move(a, d) = <<a[1] + 2^(a[2] - 1), a[2] - 1>>
         /\ d \notin {"left", "right"} => Move(a, d) = a
<1>1. a[1] \in Int /\ a[2] \in Nat /\ a[2] # 0 /\ a[2] - 1 \in Nat /\ a = <<a[1], a[2]>>
  BY DEF Address, H!isLeaf, H!getLayer
<1>2. 2^(a[2] - 1) \in Nat
  BY <1>1, Powers
<1>3. d = "left" => Move(a, d) = <<a[1], a[2] - 1>>
  BY DEF Move, H!getLeftChild, H!getRank, H!getLayer
<1>4. d = "right" => Move(a, d) = <<a[1] + 2^(a[2] - 1), a[2] - 1>>
  BY DEF Move, H!getRightChild, H!getRank, H!getLayer
<1>5. d \notin {"left", "right"} => Move(a, d) = a
  BY DEF Move
<1>6. Move(a, d) \in Address
  <2>1. CASE d = "left"
    BY <2>1, <1>1, <1>3 DEF Address
  <2>2. CASE d = "right"
    BY <2>2, <1>1, <1>2, <1>4 DEF Address
  <2>3. CASE d \notin {"left", "right"}
    BY <2>3, <1>5
  <2>4. QED
    BY <2>1, <2>2, <2>3
<1>7. QED
  BY <1>3, <1>4, <1>5, <1>6

\* Targets is defined by recursion over the length of the path.
LEMMA TargetsDefined ==
  ASSUME NEW t, NEW p, Len(p) \in Nat
  PROVE  /\ Targets(t, p) \in [0 .. Len(p) -> Address]
         /\ \A n \in 0 .. Len(p) : Targets(t, p)[n] = TargetAt(t, p, Targets(t, p), n)
<1> DEFINE m == Len(p)
           g == [n \in 0 .. m |-> [a \in Address |-> TargetStep(t, p, a, n)]]
           c == TargetStep(t, p, Root, 0)
<1>1. \A a \in Address : \A n : TargetStep(t, p, a, n) \in Address
  BY MoveIs DEF TargetStep
<1>2. Root \in Address
  BY Depth DEF Address
<1>3. c \in Address /\ g \in [0 .. m -> [Address -> Address]] /\ m \in Nat
  BY <1>1, <1>2
<1>4. \A n \in 0 .. m : \A a \in Address : g[n][a] = TargetStep(t, p, a, n)
  OBVIOUS
<1> HIDE DEF g
<1>5. PICK f \in [0 .. m -> Address] : Follows(f, m, c, g)
  <2> HIDE DEF c, m
  <2> QED BY <1>3, Recursion
<1>6. ASSUME NEW i \in 0 .. m PROVE f[i] = TargetAt(t, p, f, i)
  <2>1. f[i] = IF i = 0 THEN c ELSE g[i][f[i - 1]]
    <3> HIDE DEF m, c
    <3> QED BY <1>5, Zenon DEF Follows
  <2>2. i # 0 => i - 1 \in 0 .. m /\ f[i - 1] \in Address
    BY <1>3
  <2>3. QED
    BY <2>1, <2>2, <1>4 DEF TargetAt
<1>7. f = [i \in 0 .. m |-> TargetAt(t, p, f, i)]
  <2> HIDE DEF m
  <2> QED BY <1>6
<1>8. Targets(t, p) = CHOOSE h : h = [i \in 0 .. m |-> TargetAt(t, p, h, i)]
  BY Zenon DEF Targets, TargetAt, TargetStep
<1> DEFINE T == Targets(t, p)
<1>9. T = [i \in 0 .. m |-> TargetAt(t, p, T, i)]
  BY <1>7, <1>8, Zenon
<1> HIDE DEF T
<1>10. \A n \in 0 .. m : T[n] = TargetAt(t, p, T, n)
  BY <1>9, Zenon
<1> DEFINE S == {n \in 0 .. m : T[n] \in Address}
<1>11. 0 \in S
  <2>1. T[0] = TargetStep(t, p, Root, 0)
    BY <1>10, <1>3 DEF TargetAt
  <2>2. QED
    BY <2>1, <1>1, <1>2, <1>3
<1>12. ASSUME NEW n \in 0 .. m, n < m, n \in S PROVE n + 1 \in S
  <2>1. n + 1 \in 0 .. m /\ n + 1 # 0 /\ (n + 1) - 1 = n
    BY <1>3, <1>12
  <2>2. T[n + 1] = TargetStep(t, p, T[n], n + 1)
    BY <2>1, <1>10 DEF TargetAt
  <2>3. QED
    BY <2>1, <2>2, <1>1, <1>12
<1> HIDE DEF S, m
<1>13. \A n \in 0 .. m : n \in S
  BY <1>3, <1>11, <1>12, Upto
<1>14. T \in [0 .. m -> Address]
  <2>1. \A n \in 0 .. m : T[n] \in Address
    BY <1>13 DEF S
  <2>2. T = [n \in 0 .. m |-> T[n]]
    BY <1>9, Zenon
  <2>3. QED
    BY <2>1, <2>2
<1>15. QED
  BY <1>10, <1>14 DEF T, m

\* The virtual node a visit leads to.
After(map, v) == LET w == Later(map, v, 0) IN <<w.lo, MaxDepth - w.depth>>

\* One decision of the tree is one step of the visit.
LEMMA OneStep ==
  ASSUME NEW map \in Mapping, NEW p \in Paths, NEW n \in 0 .. Len(p),
         NEW a, a = <<Visits(map)[SubSeq(p, 1, n)].lo, MaxDepth - Visits(map)[SubSeq(p, 1, n)].depth>>
  PROVE  TargetStep(toDecisionTree(map), p, a, n) = After(map, Visits(map)[SubSeq(p, 1, n)])
<1> DEFINE q == SubSeq(p, 1, n)
           v == Visits(map)[q]
           t == toDecisionTree(map)
<1>1. q \in Paths /\ Len(q) = n
  BY Prefix
<1>2. VisitOK(v, n) /\ n \in Nat
  <2>1. VisitOK(Visits(map)[q], Len(q))
    BY <1>1, AllVisitsOK
  <2>2. QED
    BY <2>1, <1>1, PathLength
<1>3. v \in Visit /\ Place(v) /\ Charge(v, n)
  BY <1>2 DEF VisitOK
<1>4. v.depth \in Nat /\ v.depth <= MaxDepth /\ MaxDepth \in Nat /\ v.lo \in Nat
  BY <1>3, Depth DEF Visit, Place
<1>5. get(t, q) = IF v.depth >= MaxDepth THEN "done" ELSE Decision(map, v)
  <2>1. t = [r \in Paths |-> IF Visits(map)[r].depth >= MaxDepth THEN "done" ELSE Decision(map, Visits(map)[r])]
    BY Zenon DEF toDecisionTree, fillTree
  <2> HIDE DEF t, q
  <2>2. q \in DOMAIN t /\ t[q] = IF v.depth >= MaxDepth THEN "done" ELSE Decision(map, v)
    BY <2>1, <1>1, Zenon
  <2>3. QED
    BY <2>2, Zenon DEF get
<1> HIDE DEF q, t
<1>6. a = <<v.lo, MaxDepth - v.depth>>
  BY DEF q
<1> HIDE DEF v
<1>7. TargetStep(t, p, a, n) = IF H!isLeaf(a) THEN a ELSE Move(a, get(t, q))
  BY Zenon DEF TargetStep, q
<1>8. H!isLeaf(a) <=> v.depth = MaxDepth
  BY <1>4, <1>6 DEF H!isLeaf, H!getLayer
<1>9. CASE v.depth = MaxDepth
  <2>1. Later(map, v, 0) = v
    BY <1>9, <1>4 DEF Later
  <2>2. QED
    BY <2>1, <1>6, <1>7, <1>8, <1>9 DEF After, q, v, t
<1>10. CASE v.depth # MaxDepth
  <2>1. v.depth < MaxDepth /\ ~ (v.depth >= MaxDepth)
    BY <1>10, <1>4
  <2> DEFINE d == Decision(map, v)
             w == Later(map, v, 0)
  <2>2. w = NextVisit(map, v, 0)
    BY <2>1 DEF Later
  <2>3. w.depth = (IF d = "stay" THEN v.depth ELSE v.depth + 1) /\ w.lo = (IF d = "right" THEN Center(v) ELSE v.lo)
    BY <2>2, NextVisitIs
  <2>4. d \in {"left", "right", "stay"}
    BY <2>1, <1>3, <1>2, Decided
  <2>5. Half(v) \in Nat \ {0} /\ Center(v) = v.lo + Half(v)
    BY <2>1, <1>3, Centers
  <2>6. a \in Address /\ ~ H!isLeaf(a) /\ a[1] = v.lo /\ a[2] = MaxDepth - v.depth
    BY <1>4, <1>6, <1>8, <1>10 DEF Address
  <2>7. a[2] - 1 = MaxDepth - (v.depth + 1)
    BY <2>6, <1>4
  <2>8. get(t, q) = d
    BY <1>5, <2>1
  <2>9. TargetStep(t, p, a, n) = Move(a, d)
    BY <1>7, <2>6, <2>8
  <2>10. After(map, v) = <<w.lo, MaxDepth - w.depth>>
    BY DEF After
  <2> HIDE DEF d, w
  <2>11. Move(a, d) = <<w.lo, MaxDepth - w.depth>>
    <3>1. CASE d = "left"
      <4>1. Move(a, d) = <<v.lo, MaxDepth - (v.depth + 1)>>
        BY <3>1, <2>6, <2>7, MoveIs
      <4>2. w.lo = v.lo /\ w.depth = v.depth + 1
        BY <3>1, <2>3
      <4>3. QED
        BY <4>1, <4>2
    <3>2. CASE d = "right"
      <4>1. Move(a, d) = <<v.lo + 2^(MaxDepth - (v.depth + 1)), MaxDepth - (v.depth + 1)>>
        BY <3>2, <2>6, <2>7, MoveIs
      <4>2. w.lo = v.lo + 2^(MaxDepth - (v.depth + 1)) /\ w.depth = v.depth + 1
        BY <3>2, <2>3, <2>5 DEF Half
      <4>3. QED
        BY <4>1, <4>2
    <3>3. CASE d = "stay"
      <4>1. Move(a, d) = a
        BY <3>3, <2>6, MoveIs
      <4>2. w.lo = v.lo /\ w.depth = v.depth
        BY <3>3, <2>3
      <4>3. QED
        BY <4>1, <4>2, <1>6
    <3>4. QED
      BY <3>1, <3>2, <3>3, <2>4
  <2>12. QED
    BY <2>9, <2>10, <2>11 DEF q, v, t
<1>11. QED
  BY <1>9, <1>10

\* Where a visit gets does not depend on the turn.
LEMMA SamePlace ==
  ASSUME NEW map, NEW v, NEW turn
  PROVE  Later(map, v, turn).lo = Later(map, v, 0).lo /\ Later(map, v, turn).depth = Later(map, v, 0).depth
<1>1. CASE v.depth >= MaxDepth
  BY <1>1, Zenon DEF Later
<1>2. CASE ~ (v.depth >= MaxDepth)
  <2>1. Later(map, v, turn) = NextVisit(map, v, turn) /\ Later(map, v, 0) = NextVisit(map, v, 0)
    BY <1>2, Zenon DEF Later
  <2>2. QED
    BY <2>1, NextVisitIs
<1>3. QED
  BY <1>1, <1>2

\* Reading the tree repeats the visits it was made by: targets are where the visits got.
LEMMA TargetsAre ==
  ASSUME NEW map \in Mapping, NEW p \in Paths
  PROVE  \A n \in 0 .. Len(p) :
           Targets(toDecisionTree(map), p)[n] = After(map, Visits(map)[SubSeq(p, 1, n)])
<1> DEFINE t == toDecisionTree(map)
           T == Targets(t, p)
           v(n) == Visits(map)[SubSeq(p, 1, n)]
           S == {n \in 0 .. Len(p) : T[n] = After(map, v(n))}
<1>1. Len(p) \in Nat
  BY PathLength
<1>2. \A n \in 0 .. Len(p) : T[n] = TargetAt(t, p, T, n)
  BY <1>1, TargetsDefined
<1>3. 0 \in S
  <2>1. T[0] = TargetStep(t, p, Root, 0)
    BY <1>1, <1>2 DEF TargetAt
  <2>2. SubSeq(p, 1, 0) = <<>> /\ <<>> \in Paths
    <3>1. 0 \in 0 .. Len(p)
      BY <1>1
    <3>2. SubSeq(p, 1, 0) \in Paths /\ Len(SubSeq(p, 1, 0)) = 0
      BY <3>1, Prefix
    <3>3. QED
      BY <3>2, FrontOfPath
  <2>3. v(0) = FirstVisit
    BY <2>2, VisitStep
  <2>4. Root = <<v(0).lo, MaxDepth - v(0).depth>>
    BY <2>3, Depth DEF FirstVisit
  <2>5. 0 \in 0 .. Len(p)
    BY <1>1
  <2> HIDE DEF T
  <2>6. QED
    BY <2>1, <2>4, <2>5, OneStep
<1>4. ASSUME NEW n \in 0 .. Len(p), n < Len(p), n \in S PROVE n + 1 \in S
  <2>1. n + 1 \in 0 .. Len(p) /\ n + 1 # 0 /\ (n + 1) - 1 = n /\ n \in 0 .. n + 1
    BY <1>1, <1>4
  <2>2. T[n + 1] = TargetStep(t, p, T[n], n + 1)
    BY <1>2, <2>1 DEF TargetAt
  <2> DEFINE q == SubSeq(p, 1, n + 1)
  <2>3. q \in Paths /\ Len(q) = n + 1 /\ SubSeq(q, 1, n) = SubSeq(p, 1, n)
    BY <2>1, Prefix
  <2>4. q # <<>> /\ Front(q) = SubSeq(p, 1, n)
    BY <2>1, <2>3, FrontOfPath DEF Front
  <2>5. v(n + 1) = Later(map, v(n), Last(q))
    BY <2>3, <2>4, VisitStep
  <2> HIDE DEF v
  <2>6. T[n] = <<v(n + 1).lo, MaxDepth - v(n + 1).depth>>
    BY <2>5, <1>4, SamePlace DEF After
  <2> HIDE DEF T
  <2>7. T[n + 1] = After(map, v(n + 1))
    BY <2>1, <2>2, <2>6, OneStep DEF v
  <2>8. QED
    BY <2>1, <2>7
<1> HIDE DEF S
<1>5. \A n \in 0 .. Len(p) : n \in S
  BY <1>1, <1>3, <1>4, Upto
<1>6. QED
  BY <1>5 DEF S
-----------------------------------------------------------------------------
(***************************************************************************)
(* The paths of tasks, and where they lead.                                *)
(***************************************************************************)

\* The path of a task, followed to the left n times.
Down(i, n) == PathOf(i) \o [k \in 1 .. n |-> 0]

\* The path of a task has the length of those that are mapped ...
LEMMA PathOfTask ==
  ASSUME NEW i \in TaskIds
  PROVE  PathOf(i) \in Turns(Granularity) /\ Len(PathOf(i)) = Granularity /\ PathOf(i) \in Seq({0, 1})
<1>1. Granularity \in Nat /\ i \in Nat
  BY Depth, Powers DEF TaskIds, NumTasks
<1>2. ASSUME NEW k \in 1 .. Granularity PROVE (i \div 2^(Granularity - k)) % 2 \in {0, 1}
  <2>1. Granularity - k \in Nat
    BY <1>1
  <2>2. 2^(Granularity - k) \in Nat /\ 2^(Granularity - k) > 0
    BY <2>1, Powers
  <2> DEFINE a == 2^(Granularity - k)
  <2> HIDE DEF a
  <2>3. i \div a \in Nat
    BY <1>1, <2>2 DEF a
  <2>4. (i \div a) % 2 \in {0, 1}
    BY <2>3
  <2>5. QED
    BY <2>4 DEF a
<1>3. PathOf(i) \in Turns(Granularity)
  BY <1>2 DEF PathOf, Turns
<1>4. Granularity \in 0 .. 2 * Granularity
  BY <1>1
<1>5. QED
  BY <1>3, <1>4, PathOfLength

\* A sequence of turns, as a function.
LEMMA TurnsOfSequence == ASSUME NEW s \in Seq({0, 1}) PROVE s \in Turns(Len(s))
BY DEF Turns

\* ... and room for as many turns below it.
LEMMA DownIsPath ==
  ASSUME NEW i \in TaskIds, NEW n \in 0 .. Granularity
  PROVE  /\ Down(i, n) \in Paths /\ Len(Down(i, n)) = Granularity + n
         /\ \A k \in 1 .. Granularity : Down(i, n)[k] = PathOf(i)[k]
         /\ \A k \in Granularity + 1 .. Granularity + n : Down(i, n)[k] = 0
<1> DEFINE p == PathOf(i)
           z == [k \in 1 .. n |-> 0]
<1>1. Granularity \in Nat /\ n \in Nat /\ Granularity + n \in 0 .. 2 * Granularity
  BY Depth
<1>2. p \in Turns(Granularity) /\ Len(p) = Granularity /\ p \in Seq({0, 1})
  BY PathOfTask
<1>3. z \in Seq({0, 1}) /\ Len(z) = n /\ \A k \in 1 .. n : z[k] = 0
  BY <1>1
<1> HIDE DEF p, z
<1>4. p \o z \in Seq({0, 1}) /\ Len(p \o z) = Granularity + n
  BY <1>1, <1>2, <1>3
<1>5. \A k \in 1 .. Granularity : (p \o z)[k] = p[k]
  BY <1>1, <1>2, <1>3
<1>6. ASSUME NEW k \in Granularity + 1 .. Granularity + n PROVE (p \o z)[k] = 0
  <2>1. k - Granularity \in 1 .. n /\ k \in 1 .. Granularity + n /\ k > Granularity
    BY <1>1
  <2>2. (p \o z)[k] = z[k - Granularity]
    BY <1>1, <1>2, <1>3, <2>1
  <2>3. QED
    BY <2>1, <2>2, <1>3
<1>7. p \o z \in Turns(Granularity + n)
  BY <1>4, TurnsOfSequence
<1>8. p \o z \in Paths
  BY <1>1, <1>7, PathOfLength
<1>9. QED
  BY <1>4, <1>5, <1>6, <1>8 DEF p, z, Down

\* The last visit on the way of a path: the one whose place is the target.
LastVisit(map, p) == Later(map, Visits(map)[p], 0)

\* The target of a path is the virtual node its last visit leads to.
LEMMA TargetOfPath ==
  ASSUME NEW map \in Mapping, NEW p \in Paths
  PROVE  /\ VisitOK(LastVisit(map, p), Len(p) + 1)
         /\ get_target(toDecisionTree(map), p) = <<LastVisit(map, p).lo, MaxDepth - LastVisit(map, p).depth>>
         /\ H!isLeaf(get_target(toDecisionTree(map), p)) <=> LastVisit(map, p).depth = MaxDepth
<1>1. Len(p) \in Nat /\ Len(p) \in 0 .. Len(p)
  BY PathLength
<1>2. SubSeq(p, 1, Len(p)) = p
  BY <1>1, Prefix
<1>3. VisitOK(LastVisit(map, p), Len(p) + 1)
  <2>1. VisitOK(Visits(map)[p], Len(p))
    BY AllVisitsOK
  <2>2. QED
    BY <2>1, <1>1, LaterOK DEF LastVisit
<1>4. get_target(toDecisionTree(map), p) = <<LastVisit(map, p).lo, MaxDepth - LastVisit(map, p).depth>>
  <2>1. get_target(toDecisionTree(map), p) = Targets(toDecisionTree(map), p)[Len(p)]
    BY DEF get_target
  <2>2. get_target(toDecisionTree(map), p) = After(map, Visits(map)[p])
    BY <2>1, <1>1, <1>2, TargetsAre
  <2>3. QED
    BY <2>2 DEF After, LastVisit
<1>5. LastVisit(map, p).depth \in Nat /\ MaxDepth \in Nat
  BY <1>3, Depth DEF VisitOK, Visit
<1>6. QED
  BY <1>3, <1>4, <1>5 DEF H!isLeaf, H!getLayer

\* traceTarget ends: there is a leaf at most Granularity turns below the path of a task.
LEMMA TraceTarget ==
  ASSUME NEW map \in Mapping, NEW i \in TaskIds
  PROVE  \E n \in 0 .. Granularity :
           /\ LastVisit(map, Down(i, n)).depth = MaxDepth
           /\ traceTarget(toDecisionTree(map), PathOf(i)) = LastVisit(map, Down(i, n)).lo
<1> DEFINE t == toDecisionTree(map)
           S == {m \in 0 .. Granularity : H!isLeaf(get_target(t, Down(i, m)))}
<1>1. Granularity \in Nat /\ Granularity \in 0 .. Granularity
  BY Depth
<1>2. Granularity \in S
  <2> DEFINE p == Down(i, Granularity)
  <2>1. p \in Paths /\ Len(p) = Granularity + Granularity
    BY <1>1, DownIsPath
  <2> HIDE DEF p
  <2>2. VisitOK(Visits(map)[p], Len(p))
    BY <2>1, AllVisitsOK
  <2> DEFINE v == Visits(map)[p]
  <2>3. v.depth = MaxDepth \/ v.depth >= Len(p) - Granularity
    BY <2>1, <2>2, <1>1 DEF VisitOK, Descent
  <2>4. v.depth \in Nat /\ v.depth <= MaxDepth
    BY <2>2 DEF VisitOK, Visit, Place
  <2> HIDE DEF v
  <2>5. v.depth = MaxDepth
    BY <2>1, <2>3, <2>4, Depth
  <2>6. Later(map, v, 0) = v
    BY <2>5, Depth DEF Later
  <2>7. LastVisit(map, p).depth = MaxDepth
    BY <2>5, <2>6 DEF LastVisit, v
  <2>8. QED
    BY <2>1, <2>7, <1>1, TargetOfPath DEF p
<1>3. S \subseteq Nat /\ S # {}
  BY <1>1, <1>2
<1> HIDE DEF S
<1>4. Min(S) \in S
  <2>1. \E x \in S : \A y \in S : x <= y
    BY <1>3, Least
  <2>2. QED
    BY <2>1, Zenon DEF Min
<1>5. traceTarget(t, PathOf(i)) = H!getRank(get_target(t, Down(i, Min(S))))
  BY Zenon DEF traceTarget, Down, S
<1>6. Min(S) \in 0 .. Granularity /\ H!isLeaf(get_target(t, Down(i, Min(S))))
  BY <1>4 DEF S
<1>7. Down(i, Min(S)) \in Paths
  BY <1>6, DownIsPath
<1>8. LastVisit(map, Down(i, Min(S))).depth = MaxDepth
  BY <1>6, <1>7, TargetOfPath
<1>9. H!getRank(get_target(t, Down(i, Min(S)))) = LastVisit(map, Down(i, Min(S))).lo
  BY <1>7, TargetOfPath DEF H!getRank
<1>10. QED
  BY <1>5, <1>6, <1>8, <1>9

\* Whatever the mapping, the tree sends every task to a locality.
LEMMA ReadBack ==
  ASSUME NEW map \in Mapping
  PROVE  task_distribution_mapping(toDecisionTree(map)) \in Mapping
<1>1. ASSUME NEW i \in TaskIds PROVE traceTarget(toDecisionTree(map), PathOf(i)) \in Nodes
  <2>1. PICK n \in 0 .. Granularity :
           /\ LastVisit(map, Down(i, n)).depth = MaxDepth
           /\ traceTarget(toDecisionTree(map), PathOf(i)) = LastVisit(map, Down(i, n)).lo
    BY TraceTarget
  <2>2. VisitOK(LastVisit(map, Down(i, n)), Len(Down(i, n)) + 1)
    BY DownIsPath, TargetOfPath
  <2>3. QED
    BY <2>1, <2>2 DEF VisitOK, Place
<1>2. QED
  BY <1>1 DEF task_distribution_mapping, Mapping
-----------------------------------------------------------------------------
(***************************************************************************)
(* Ordered mappings.                                                       *)
(***************************************************************************)

\* The tasks a visit is in charge of are within its localities, and so is its first task.
Within(map, v) ==
  /\ v.lo <= map[v.min] /\ map[v.min] < v.hi
  /\ \A i \in TaskIds : v.min <= i /\ i < v.max => v.lo <= map[i] /\ map[i] < v.hi

\* In an ordered mapping a decision to one side is right for all tasks it is made for.
LEMMA WithinLater ==
  ASSUME NEW map \in Mapping, Ordered(map), NEW n \in Nat, NEW v, VisitOK(v, n), Within(map, v),
         NEW turn \in {0, 1}
  PROVE  Within(map, Later(map, v, turn))
<1>0. v \in Visit /\ Place(v) /\ Charge(v, n)
  BY DEF VisitOK
<1>1. CASE v.depth >= MaxDepth
  BY <1>1 DEF Later
<1>2. CASE ~ (v.depth >= MaxDepth)
  <2>0. v.depth < MaxDepth /\ v.depth \in Nat /\ v.lo \in Nat /\ v.hi \in Nat /\ v.min \in Nat /\ v.max \in Nat
    BY <1>0, <1>2, Depth DEF Visit
  <2> DEFINE w == NextVisit(map, v, turn)
             d == Decision(map, v)
  <2>1. Later(map, v, turn) = w
    BY <1>2 DEF Later
  <2>2. w = [depth |-> IF d = "stay" THEN v.depth ELSE v.depth + 1,
            lo  |-> IF d = "right" THEN Center(v) ELSE v.lo,
            hi  |-> IF d = "left" THEN Center(v) ELSE v.hi,
            min |-> IF turn = 0 THEN v.min ELSE Mid(v),
            max |-> IF turn = 0 THEN Mid(v) ELSE v.max]
    BY NextVisitIs
  <2>3. d \in {"left", "right", "stay"} /\ (d = "right" => Center(v) <= map[v.min])
    BY <1>0, <2>0, Decided
  <2>4. Center(v) \in Nat
    BY <1>0, <2>0, Centers
  <2>5. v.min <= Mid(v) /\ Mid(v) <= v.max /\ Mid(v) \in Nat /\ (Mid(v) # v.min => Mid(v) < v.max)
    <3>1. v.min <= v.max
      BY <1>0 DEF Charge
    <3>2. QED
      BY <2>0, <3>1 DEF Mid
  <2>6. v.min \in TaskIds /\ NumTasks \in Nat /\ v.max <= NumTasks /\ v.min <= v.max
    BY <1>0, <2>0, Depth, Powers DEF Charge, TaskIds, NumTasks
  <2>7. \A i \in TaskIds : map[i] \in Nat /\ i \in Nat
    BY <2>6, Depth DEF Mapping, Nodes, TaskIds
  <2>8. \A i, j \in TaskIds : i <= j => map[i] <= map[j]
    BY <2>7 DEF Ordered
  \* The tasks in question: those it is in charge of and the first.
  <2>9. ASSUME NEW i \in TaskIds, i = v.min \/ (v.min <= i /\ i < v.max)
        PROVE  (d = "left" => map[i] < Center(v)) /\ (d = "right" => Center(v) <= map[i])
               /\ v.lo <= map[i] /\ map[i] < v.hi
    <3>1. v.lo <= map[i] /\ map[i] < v.hi
      BY <2>9 DEF Within
    <3>2. d = "right" => Center(v) <= map[i]
      <4>1. v.min <= i
        BY <2>9, <2>7
      <4>2. map[v.min] <= map[i]
        BY <4>1, <2>6, <2>8
      <4>3. QED
        BY <4>2, <2>3, <2>4, <2>6, <2>7
    <3>3. ASSUME d = "left" PROVE map[i] < Center(v)
      <4>1. CASE v.min = v.max
        <5>1. map[v.min] < Center(v)
          BY <4>1, <3>3, <2>4, <2>6, <2>7 DEF Decision, Center
        <5>2. i = v.min
          BY <4>1, <2>9, <2>7, <2>0
        <5>3. QED
          BY <5>1, <5>2
      <4>2. CASE v.min # v.max
        <5>1. map[v.max - 1] < Center(v)
          BY <4>2, <3>3 DEF Decision, Center
        <5>2. v.max - 1 \in TaskIds /\ i <= v.max - 1
          BY <4>2, <2>6, <2>7, <2>9, <2>0 DEF TaskIds
        <5>3. map[i] <= map[v.max - 1]
          BY <5>2, <2>8
        <5>4. QED
          BY <5>1, <5>2, <5>3, <2>4, <2>7
      <4>3. QED
        BY <4>1, <4>2
    <3>4. QED
      BY <3>1, <3>2, <3>3
  <2> HIDE DEF d, w
  <2>10. ASSUME NEW i \in TaskIds, i = v.min \/ (v.min <= i /\ i < v.max)
         PROVE  w.lo <= map[i] /\ map[i] < w.hi
    BY <2>2, <2>3, <2>9, <2>10
  <2>11. w.min \in TaskIds /\ (w.min = v.min \/ (v.min <= w.min /\ w.min < v.max))
    BY <2>2, <2>5, <2>6, <2>0 DEF TaskIds
  <2>12. \A i \in TaskIds : w.min <= i /\ i < w.max => v.min <= i /\ i < v.max
    BY <2>2, <2>5, <2>7, <2>0
  <2>13. Within(map, w)
    BY <2>10, <2>11, <2>12 DEF Within
  <2>14. QED
    BY <2>1, <2>13
<1>3. QED
  BY <1>1, <1>2

\* All tasks are within the localities of the root.
LEMMA FirstWithin == ASSUME NEW map \in Mapping PROVE Within(map, FirstVisit)
<1>1. FirstVisit.lo = 0 /\ FirstVisit.hi = 2^MaxDepth /\ FirstVisit.min = 0
  BY DEF FirstVisit
<1>2. 2^MaxDepth >= N /\ 2^MaxDepth \in Nat /\ N \in Nat /\ 0 \in TaskIds
  BY Depth, Powers DEF TaskIds, NumTasks
<1>3. \A i \in TaskIds : 0 <= map[i] /\ map[i] < 2^MaxDepth
  BY <1>2 DEF Mapping, Nodes
<1>4. QED
  BY <1>1, <1>2, <1>3 DEF Within

\* Of an ordered mapping every visit knows the localities of its tasks.
LEMMA AllWithin ==
  ASSUME NEW map \in Mapping, Ordered(map)
  PROVE  \A p \in Paths : Within(map, Visits(map)[p])
<1> DEFINE f == Visits(map)
           S == {n \in 0 .. 2 * Granularity : \A p \in Paths : Len(p) = n => Within(map, f[p])}
<1>0. 2 * Granularity \in Nat
  BY Depth
<1>1. 0 \in S
  <2> SUFFICES ASSUME NEW p \in Paths, Len(p) = 0 PROVE Within(map, f[p])
    BY <1>0
  <2>1. f[p] = FirstVisit
    BY VisitStep, FrontOfPath
  <2>2. QED
    BY <2>1, FirstWithin
<1>2. ASSUME NEW n \in 0 .. 2 * Granularity, n < 2 * Granularity, n \in S PROVE n + 1 \in S
  <2> SUFFICES ASSUME NEW p \in Paths, Len(p) = n + 1 PROVE Within(map, f[p])
    BY <1>0, <1>2
  <2>1. p # <<>> /\ Front(p) \in Paths /\ Len(Front(p)) = n /\ Last(p) \in {0, 1}
    BY FrontOfPath
  <2>2. Within(map, f[Front(p)]) /\ VisitOK(f[Front(p)], n)
    BY <1>2, <2>1, AllVisitsOK
  <2>3. f[p] = Later(map, f[Front(p)], Last(p))
    BY <2>1, VisitStep
  <2> HIDE DEF f, S
  <2>4. QED
    BY <2>1, <2>2, <2>3, WithinLater
<1> HIDE DEF f, S
<1>3. \A n \in 0 .. 2 * Granularity : n \in S
  BY <1>0, <1>1, <1>2, Upto
<1>4. QED
  BY <1>3, PathLength DEF S, f

\* A turn of the path of i leads to the half in which i is.
LEMMA Halves ==
  ASSUME NEW i \in Nat, NEW b \in Nat \ {0}, NEW k \in Nat,
         k * (2 * b) <= i, i < (k + 1) * (2 * b)
  PROVE  /\ (i \div b) % 2 = 0 => i < k * (2 * b) + b /\ k * (2 * b) = (2 * k) * b
         /\ (i \div b) % 2 # 0 => k * (2 * b) + b <= i /\ k * (2 * b) + b = (2 * k + 1) * b
<1> DEFINE q == i \div b
           r == i - k * (2 * b)
<1>0. k * (2 * b) \in Nat /\ (k + 1) * (2 * b) = k * (2 * b) + 2 * b
  OBVIOUS
<1>1. r \in Nat /\ r < 2 * b /\ i = k * (2 * b) + r
  BY <1>0
<1>2. CASE r < b
  <2>1. i = (2 * k) * b + r
    BY <1>1
  <2>2. i \div b = 2 * k
    BY <2>1, <1>1, <1>2
  <2>3. QED
    BY <2>2, <1>1, <1>2
<1>3. CASE r >= b
  <2>1. i = (2 * k + 1) * b + (r - b) /\ r - b \in Nat /\ r - b < b
    BY <1>1, <1>3
  <2>2. i \div b = 2 * k + 1
    BY <2>1
  <2>3. QED
    BY <2>2, <1>1, <1>3
<1>4. QED
  BY <1>1, <1>2, <1>3
-----------------------------------------------------------------------------
(***************************************************************************)
(* Reading the mapping back.                                               *)
(***************************************************************************)

\* A visit on the way down from the path of task i, after n turns.
InBlock(v, i, b) == \E k \in Nat : v.min = k * b /\ k * b <= i /\ i < (k + 1) * b
\* Once at a leaf the visit may be in charge of several tasks, i among them.
Serves(v, i, n) ==
  /\ v.depth = MaxDepth => v.min = i \/ (v.min <= i /\ i < v.max)
  /\ v.depth < MaxDepth => IF n <= Granularity THEN InBlock(v, i, 2^(Granularity - n)) ELSE v.min = i

\* The turn after n turns on the path of task i, and to the left below it.
TurnOf(i, n) == IF n < Granularity THEN (i \div 2^(Granularity - (n + 1))) % 2 ELSE 0

\* The turns of the path of a task lead to visits in charge of it.
LEMMA ServesLater ==
  ASSUME NEW map \in Mapping, NEW n \in Nat, NEW v, VisitOK(v, n), NEW i \in TaskIds, Serves(v, i, n),
         NEW turn \in {0, 1}, turn = TurnOf(i, n)
  PROVE  Serves(Later(map, v, turn), i, n + 1)
<1>0. v \in Visit /\ Place(v) /\ Charge(v, n) /\ v.depth \in Nat /\ v.depth <= MaxDepth /\ MaxDepth \in Nat
      /\ i \in Nat /\ Granularity \in Nat /\ v.min \in Nat /\ v.max \in Nat
  BY Depth, Powers DEF VisitOK, Visit, Place, TaskIds, NumTasks
<1>1. CASE v.depth = MaxDepth
  <2>1. Later(map, v, turn) = v
    BY <1>0, <1>1 DEF Later
  <2>2. QED
    BY <2>1, <1>0, <1>1 DEF Serves
<1>2. CASE v.depth # MaxDepth
  <2> DEFINE w == Later(map, v, turn)
  <2>1. v.depth < MaxDepth /\ ~ (v.depth >= MaxDepth)
    BY <1>0, <1>2
  <2>2. w = NextVisit(map, v, turn)
    BY <2>1 DEF Later
  <2>3. w.min = (IF turn = 0 THEN v.min ELSE Mid(v)) /\ w.max = (IF turn = 0 THEN Mid(v) ELSE v.max)
    BY <2>2, NextVisitIs
  <2> HIDE DEF w
  <2>4. CASE n < Granularity
    <3> DEFINE b == 2^(Granularity - (n + 1))
    <3>1. /\ v.max = Mid(v) + b
          /\ Mid(v) = v.min + b
          /\ b \in Nat \ {0}
      BY <2>4, <2>1, <1>0, Mids
    <3>2. Granularity - n \in Nat /\ Granularity - n # 0 /\ (Granularity - n) - 1 = Granularity - (n + 1)
      BY <2>4, <1>0
    <3>3. 2^(Granularity - n) = 2 * 2^((Granularity - n) - 1)
      BY <3>2, Powers
    <3>4. 2^(Granularity - n) = 2 * b
      BY <3>2, <3>3
    <3>5. turn = (i \div b) % 2
      BY <2>4 DEF TurnOf
    <3>6. InBlock(v, i, 2 * b)
      BY <3>4, <2>1, <2>4, <1>0 DEF Serves
    <3> HIDE DEF b
    <3>7. PICK k \in Nat : v.min = k * (2 * b) /\ k * (2 * b) <= i /\ i < (k + 1) * (2 * b)
      BY <3>6 DEF InBlock
    <3>8. /\ turn = 0 => i < k * (2 * b) + b /\ k * (2 * b) = (2 * k) * b
          /\ turn # 0 => k * (2 * b) + b <= i /\ k * (2 * b) + b = (2 * k + 1) * b
      <4>1. i \in Nat /\ b \in Nat \ {0} /\ k * (2 * b) <= i /\ i < (k + 1) * (2 * b)
        BY <1>0, <3>1, <3>7
      <4>2. /\ (i \div b) % 2 = 0 => i < k * (2 * b) + b /\ k * (2 * b) = (2 * k) * b
            /\ (i \div b) % 2 # 0 => k * (2 * b) + b <= i /\ k * (2 * b) + b = (2 * k + 1) * b
        BY <4>1, Halves, Zenon
      <4>3. QED
        BY <4>2, <3>5, Zenon
    <3> DEFINE m == v.min
    <3>9. (k + 1) * (2 * b) = m + 2 * b /\ m = k * (2 * b)
      BY <3>1, <3>7
    <3>10. w.min <= i /\ i < w.min + b /\ w.max = w.min + b
      BY <2>3, <3>1, <3>7, <3>8, <3>9, <1>0
    <3>11. InBlock(w, i, b)
      <4>1. CASE turn = 0
        <5>1. w.min = (2 * k) * b /\ 2 * k \in Nat
          BY <4>1, <2>3, <3>7, <3>8
        <5>2. (2 * k + 1) * b = (2 * k) * b + b
          BY <3>1
        <5>3. QED
          BY <5>1, <5>2, <3>10 DEF InBlock
      <4>2. CASE turn # 0
        <5>1. w.min = (2 * k + 1) * b /\ 2 * k + 1 \in Nat
          BY <4>2, <2>3, <3>1, <3>7, <3>8
        <5>2. ((2 * k + 1) + 1) * b = (2 * k + 1) * b + b
          BY <3>1
        <5>3. QED
          BY <5>1, <5>2, <3>10 DEF InBlock
      <4>3. QED
        BY <4>1, <4>2
    <3>12. n + 1 <= Granularity
      BY <2>4, <1>0
    <3>13. QED
      BY <3>10, <3>11, <3>12 DEF Serves, w, b
  <2>5. CASE ~ (n < Granularity)
    <3>1. turn = 0 /\ w.min = v.min
      BY <2>5, <2>3 DEF TurnOf
    <3>2. v.min = i
      <4>1. CASE n = Granularity
        <5>1. 2^(Granularity - n) = 1
          BY <4>1, <1>0, Powers
        <5>2. InBlock(v, i, 1)
          BY <5>1, <4>1, <2>1, <1>0 DEF Serves
        <5>3. QED
          BY <5>2, <1>0 DEF InBlock
      <4>2. CASE n # Granularity
        BY <4>2, <2>5, <2>1, <1>0 DEF Serves
      <4>3. QED
        BY <4>1, <4>2
    <3>3. ~ (n + 1 <= Granularity)
      BY <2>5, <1>0
    <3>4. QED
      BY <3>1, <3>2, <3>3 DEF Serves, w
  <2>6. QED
    BY <2>4, <2>5
<1>3. QED
  BY <1>1, <1>2

\* The root is in charge of all tasks.
LEMMA FirstServes == ASSUME NEW i \in TaskIds PROVE Serves(FirstVisit, i, 0)
<1>1. FirstVisit.depth = 0 /\ FirstVisit.min = 0 /\ FirstVisit.max = 2^Granularity
  BY DEF FirstVisit, NumTasks
<1>2. i \in Nat /\ i < 2^Granularity /\ Granularity \in Nat /\ 2^Granularity \in Nat /\ Granularity - 0 = Granularity
  BY Depth, Powers DEF TaskIds, NumTasks
<1>3. InBlock(FirstVisit, i, 2^Granularity)
  <2> DEFINE b == 2^Granularity
  <2>1. b \in Nat /\ i < b /\ i \in Nat /\ FirstVisit.min = 0
    BY <1>1, <1>2
  <2> HIDE DEF b
  <2>2. 0 * b = 0 /\ (0 + 1) * b = b
    BY <2>1
  <2>3. InBlock(FirstVisit, i, b)
    BY <2>1, <2>2 DEF InBlock
  <2>4. QED
    BY <2>3 DEF b
<1>4. QED
  BY <1>1, <1>2, <1>3 DEF Serves

\* What the path of a task leads to is in charge of it.
LEMMA DownServes ==
  ASSUME NEW map \in Mapping, NEW i \in TaskIds, NEW m \in 0 .. Granularity
  PROVE  Serves(LastVisit(map, Down(i, m)), i, Granularity + m + 1)
<1> DEFINE p == Down(i, m)
           v(n) == Visits(map)[SubSeq(p, 1, n)]
           S == {n \in 0 .. Len(p) : Serves(v(n), i, n)}
<1>1. /\ p \in Paths /\ Len(p) = Granularity + m /\ Granularity \in Nat /\ m \in Nat
      /\ \A k \in 1 .. Granularity : p[k] = PathOf(i)[k]
      /\ \A k \in Granularity + 1 .. Granularity + m : p[k] = 0
  BY DownIsPath, Depth
<1> HIDE DEF p
<1>2. 0 \in S
  <2>1. 0 \in 0 .. Len(p)
    BY <1>1
  <2>2. SubSeq(p, 1, 0) \in Paths /\ Len(SubSeq(p, 1, 0)) = 0
    BY <2>1, <1>1, Prefix
  <2>3. v(0) = FirstVisit
    BY <2>2, VisitStep, FrontOfPath
  <2>4. QED
    BY <2>1, <2>3, FirstServes
<1>3. ASSUME NEW n \in 0 .. Len(p), n < Len(p), n \in S PROVE n + 1 \in S
  <2>1. n \in Nat /\ n + 1 \in 0 .. Len(p) /\ n + 1 \in 1 .. n + 1 /\ n \in 0 .. n + 1
    BY <1>1, <1>3
  <2> DEFINE q == SubSeq(p, 1, n + 1)
  <2>2. q \in Paths /\ Len(q) = n + 1 /\ q[n + 1] = p[n + 1] /\ SubSeq(q, 1, n) = SubSeq(p, 1, n)
    BY <2>1, <1>1, Prefix
  <2>3. q # <<>> /\ Front(q) = SubSeq(p, 1, n) /\ Last(q) = p[n + 1] /\ Last(q) \in {0, 1}
    <3> HIDE DEF q
    <3>1. q # <<>>
      BY <2>1, <2>2, FrontOfPath
    <3>2. Len(q) - 1 = n /\ Len(q) = n + 1
      BY <2>1, <2>2
    <3>3. Front(q) = SubSeq(q, 1, n)
      BY <3>2 DEF Front
    <3>4. Last(q) = q[n + 1]
      BY <3>2 DEF Last
    <3>5. SubSeq(q, 1, n) = SubSeq(p, 1, n) /\ q[n + 1] = p[n + 1]
      BY <2>2 DEF q
    <3>6. Last(q) \in {0, 1}
      BY <3>1, <2>2, FrontOfPath
    <3>7. QED
      BY <3>1, <3>3, <3>4, <3>5, <3>6, Zenon
  <2>4. p[n + 1] = TurnOf(i, n)
    <3>1. CASE n < Granularity
      <4>1. n + 1 \in 1 .. Granularity
        BY <3>1, <2>1, <1>1
      <4>2. QED
        BY <4>1, <3>1, <1>1 DEF TurnOf, PathOf
    <3>2. CASE ~ (n < Granularity)
      <4>1. n + 1 \in Granularity + 1 .. Granularity + m
        BY <3>2, <2>1, <1>1
      <4>2. QED
        BY <4>1, <3>2, <1>1 DEF TurnOf
    <3>3. QED
      BY <3>1, <3>2
  <2>5. VisitOK(v(n), n)
    <3>1. SubSeq(p, 1, n) \in Paths /\ Len(SubSeq(p, 1, n)) = n
      BY <1>1, Prefix
    <3>2. VisitOK(v(n), Len(SubSeq(p, 1, n)))
      BY <3>1, AllVisitsOK
    <3>3. QED
      BY <3>1, <3>2
  <2>6. v(n + 1) = Later(map, v(n), p[n + 1])
    BY <2>2, <2>3, VisitStep
  <2>7. Serves(v(n), i, n)
    BY <1>3
  <2> HIDE DEF v, S, q
  <2>8. Serves(v(n + 1), i, n + 1)
    BY <2>1, <2>3, <2>4, <2>5, <2>6, <2>7, ServesLater
  <2>9. QED
    BY <2>1, <2>8 DEF S
<1> HIDE DEF S
<1>4. Len(p) \in S
  <2>1. \A n \in 0 .. Len(p) : n \in S
    BY <1>1, <1>2, <1>3, Upto
  <2>2. QED
    BY <2>1, <1>1
<1>5. SubSeq(p, 1, Len(p)) = p
  BY <1>1, Prefix
<1>6. Serves(Visits(map)[p], i, Len(p)) /\ VisitOK(Visits(map)[p], Len(p))
  BY <1>1, <1>4, <1>5, AllVisitsOK DEF S
<1>7. TurnOf(i, Len(p)) = 0
  BY <1>1 DEF TurnOf
<1>8. Len(p) \in Nat
  BY <1>1
<1>9. Serves(LastVisit(map, p), i, Len(p) + 1)
  BY <1>6, <1>7, <1>8, ServesLater DEF LastVisit
<1>10. QED
  BY <1>1, <1>9 DEF p

\* Reading the tree of a mapping in order gives the mapping.
LEMMA TreeRealises ==
  ASSUME NEW map \in Mapping, Ordered(map)
  PROVE  task_distribution_mapping(toDecisionTree(map)) = map
<1>1. ASSUME NEW i \in TaskIds PROVE traceTarget(toDecisionTree(map), PathOf(i)) = map[i]
  <2>1. PICK n \in 0 .. Granularity :
           /\ LastVisit(map, Down(i, n)).depth = MaxDepth
           /\ traceTarget(toDecisionTree(map), PathOf(i)) = LastVisit(map, Down(i, n)).lo
    BY TraceTarget
  <2> DEFINE w == LastVisit(map, Down(i, n))
  <2>2. Down(i, n) \in Paths
    BY DownIsPath
  <2>3. VisitOK(w, Len(Down(i, n)) + 1)
    BY <2>2, TargetOfPath
  <2>4. Within(map, w)
    <3>1. VisitOK(Visits(map)[Down(i, n)], Len(Down(i, n))) /\ Within(map, Visits(map)[Down(i, n)])
          /\ Len(Down(i, n)) \in Nat
      BY <2>2, AllVisitsOK, AllWithin, PathLength
    <3>2. QED
      BY <3>1, WithinLater DEF LastVisit
  <2>5. Serves(w, i, Granularity + n + 1)
    BY DownServes
  <2>6. w.depth = MaxDepth /\ MaxDepth \in Nat /\ w.lo \in Nat
    BY <2>1, <2>3, Depth DEF VisitOK, Visit
  <2>7. w.hi = w.lo + 2^(MaxDepth - w.depth)
    BY <2>3 DEF VisitOK, Place
  <2> HIDE DEF w
  <2>8. w.hi = w.lo + 1
    BY <2>6, <2>7, Powers
  <2>9. w.lo <= map[i] /\ map[i] < w.hi
    BY <2>4, <2>5, <2>6 DEF Within, Serves
  <2>10. map[i] \in Nat
    BY Depth DEF Mapping, Nodes
  <2>11. QED
    BY <2>1, <2>6, <2>8, <2>9, <2>10 DEF w
<1>2. map = [i \in TaskIds |-> map[i]]
  BY DEF Mapping
<1>3. QED
  BY <1>1, <1>2 DEF task_distribution_mapping
-----------------------------------------------------------------------------
(***************************************************************************)
(* What the operations make of mappings, nodes and tuners.                 *)
(***************************************************************************)

\* getEqualDistribution gives every task a locality.
LEMMA UniformIsMapping == ASSUME NEW mask \in SUBSET Nodes PROVE Uniform(mask) \in Mapping
<1> DEFINE count == Cardinality(mask)
           Before(n) == Cardinality(mask \cap 0 .. n - 1)
           Given(k)  == k * (NumTasks \div count) + Min({k, NumTasks % count})
           Gets(n, i) == Given(Before(n)) <= i /\ i < Given(Before(n) + 1)
           seen == mask \cap 0 .. count - 1
           first(i) == CHOOSE n \in seen : Gets(n, i)
<1>1. Uniform(mask) = [i \in TaskIds |-> IF \E n \in seen : Gets(n, i) THEN first(i) ELSE 0]
  BY Zenon DEF Uniform, getEqualDistribution
<1> HIDE DEF Gets
<1>2. seen \subseteq Nodes /\ 0 \in Nodes
  BY Depth DEF Nodes
<1> HIDE DEF seen
<1>3. ASSUME NEW i \in TaskIds PROVE (IF \E n \in seen : Gets(n, i) THEN first(i) ELSE 0) \in Nodes
  <2>1. (\E n \in seen : Gets(n, i)) => first(i) \in seen
    BY Zenon
  <2> HIDE DEF first
  <2>2. QED
    BY <2>1, <1>2
<1> HIDE DEF first
<1>4. QED
  BY <1>1, <1>3 DEF Mapping

\* The first task of each node when they are given as many as c says, and who gets task i.
StartsOf(c) ==
  LET start[n \in 0 .. N] == IF n = 0 THEN 0 ELSE start[n - 1] + c[n - 1]
  IN  start
Holds(s, n, i) == s[n] <= i /\ i < s[n + 1]

\* Refill, by the first tasks of the nodes.
LEMMA RefillIs ==
  ASSUME NEW map, NEW c
  PROVE  Refill(map, c) = [i \in TaskIds |-> IF \E n \in Nodes : Holds(StartsOf(c), n, i)
                                             THEN CHOOSE n \in Nodes : Holds(StartsOf(c), n, i)
                                             ELSE map[i]]
BY Zenon DEF Refill, StartsOf, Holds

\* Refilling gives every task a locality ...
LEMMA RefillIsMapping == ASSUME NEW map \in Mapping, NEW c PROVE Refill(map, c) \in Mapping
<1> DEFINE Gets(n, i) == Holds(StartsOf(c), n, i)
           first(i) == CHOOSE n \in Nodes : Gets(n, i)
<1>1. Refill(map, c) = [i \in TaskIds |-> IF \E n \in Nodes : Gets(n, i) THEN first(i) ELSE map[i]]
  BY RefillIs, Zenon
<1> HIDE DEF Gets
<1>2. ASSUME NEW i \in TaskIds PROVE (IF \E n \in Nodes : Gets(n, i) THEN first(i) ELSE map[i]) \in Nodes
  <2>1. (\E n \in Nodes : Gets(n, i)) => first(i) \in Nodes
    BY Zenon
  <2>2. map[i] \in Nodes
    BY DEF Mapping
  <2> HIDE DEF first
  <2>3. QED
    BY <2>1, <2>2
<1> HIDE DEF first
<1>3. QED
  BY <1>1, <1>2 DEF Mapping

\* ... and so does rebalancing.
LEMMA RebalancedIsMapping == ASSUME NEW map \in Mapping, NEW m \in Rebalanced(map) PROVE m \in Mapping
<1>1. m = map \/ \E c : m = Refill(map, c)
  BY Zenon DEF Rebalanced
<1>2. QED
  BY <1>1, RefillIsMapping

\* toDecisionTree always makes a tree, and none of those that stand for no tree.
LEMMA TreeIsTree ==
  ASSUME NEW map \in Mapping
  PROVE  toDecisionTree(map) \in Tree /\ toDecisionTree(map) # NoTree /\ toDecisionTree(map) # BadTree
<1> DEFINE t == toDecisionTree(map)
<1>1. t = [p \in Paths |-> IF Visits(map)[p].depth >= MaxDepth THEN "done" ELSE Decision(map, Visits(map)[p])]
  BY Zenon DEF toDecisionTree, fillTree
<1>2. \A v : Decision(map, v) \in Decisions
  BY DEF Decision, Decisions
<1>3. "done" \in Decisions
  BY DEF Decisions
<1> HIDE DEF t
<1>4. t \in Tree
  BY <1>1, <1>2, <1>3 DEF Tree
<1>5. <<>> \in Paths
  <2>1. PICK p \in Paths : TRUE
    <3>1. 0 \in TaskIds /\ 0 \in 0 .. Granularity
      BY Depth, Powers DEF TaskIds, NumTasks
    <3>2. QED
      BY <3>1, DownIsPath
  <2>2. 0 \in 0 .. Len(p)
    BY PathLength
  <2>3. SubSeq(p, 1, 0) \in Paths /\ Len(SubSeq(p, 1, 0)) = 0
    BY <2>2, Prefix
  <2>4. QED
    BY <2>3, FrontOfPath
<1>6. t[<<>>] \in Decisions
  BY <1>4, <1>5 DEF Tree
<1>7. NoTree[<<>>] = "random" /\ BadTree[<<>>] = "undefined"
  BY <1>5 DEF NoTree, BadTree
<1>8. t # NoTree /\ t # BadTree
  BY <1>6, <1>7 DEF Decisions
<1>9. QED
  BY <1>4, <1>8 DEF t

\* The values of the optimizer and its tuner.
Masks == SUBSET Nodes
Freqs == Frequencies \cup {Unknown}
Tuners == [mask : Masks, freq : Freqs, dim : {"nodes", "frequency"}, dir : {"up", "down"}]

\* What is needed of the nodes.
LEMMA NodesAreNumbers == IsFiniteSet(Nodes) /\ Nodes \subseteq Nat /\ Nodes # {}
<1>1. 0 \in Int /\ N - 1 \in Int /\ N \in Nat /\ N > 0
  BY Depth
<1>2. IsFiniteSet(0 .. N - 1)
  BY <1>1, FS_Interval
<1>3. 0 \in 0 .. N - 1
  BY <1>1
<1>4. QED
  BY <1>2, <1>3 DEF Nodes

\* A candidate of a tuner with active nodes has some, too: dec guards the last one.
LEMMA CandidatesAre ==
  ASSUME NEW t \in Tuners, NEW c \in Candidates(t)
  PROVE  c[1] \in Masks /\ c[2] \in Freqs /\ (t.mask # {} => c[1] # {})
<1>1. t.mask \in Masks /\ t.freq \in Freqs
  BY DEF Tuners
<1>2. ASSUME NEW m \in inc(t.mask) PROVE m \in Masks /\ m # {}
  <2>1. t.mask # Nodes /\ m = t.mask \cup {Min(Nodes \ t.mask)}
    BY <1>2 DEF inc
  <2> DEFINE S == Nodes \ t.mask
  <2>2. S # {} /\ S \subseteq Nat
    BY <2>1, <1>1, NodesAreNumbers DEF Masks
  <2> HIDE DEF S
  <2>3. Min(S) \in S
    <3>1. \E x \in S : \A y \in S : x <= y
      BY <2>2, Least
    <3>2. QED
      BY <3>1, Zenon DEF Min
  <2>4. QED
    BY <2>1, <2>3, <1>1 DEF S, Masks
<1>3. ASSUME NEW m \in dec(t.mask) PROVE m \in Masks /\ (t.mask # {} => m # {})
  <2> DEFINE last == {n \in t.mask : \A k \in t.mask : k <= n}
  <2>1. Cardinality(t.mask) # 1 /\ m = t.mask \ last
    BY <1>3 DEF dec
  <2>2. ASSUME t.mask # {}, m = {} PROVE FALSE
    <3>1. PICK n \in t.mask : TRUE
      BY <2>2
    <3>2. \A k \in t.mask : k \in Nat /\ k <= n /\ n <= k
      BY <2>1, <2>2, <1>1, NodesAreNumbers DEF Masks
    <3>3. \A k \in t.mask : k = n
      BY <3>2
    <3>4. t.mask = {n}
      BY <3>1, <3>3
    <3>5. Cardinality({n}) = 1
      BY FS_Singleton
    <3>6. QED
      BY <2>1, <3>4, <3>5
  <2>3. QED
    BY <2>1, <2>2, <1>1 DEF Masks
<1>4. incFreq(t.freq) \subseteq Freqs /\ decFreq(t.freq) \subseteq Freqs
  BY DEF incFreq, decFreq, Freqs
<1>5. (\E m : m \in Masks /\ (t.mask # {} => m # {}) /\ c = <<m, t.freq>>) \/ \E f \in Freqs : c = <<t.mask, f>>
  <2>1. CASE t.dim = "nodes"
    <3>1. \E m \in (IF t.dir = "up" THEN inc(t.mask) ELSE dec(t.mask)) : c = <<m, t.freq>>
      BY <2>1, Zenon DEF Candidates
    <3>2. QED
      BY <3>1, <1>2, <1>3
  <2>2. CASE t.dim # "nodes"
    <3>1. \E f \in (IF t.dir = "up" THEN incFreq(t.freq) ELSE decFreq(t.freq)) : c = <<t.mask, f>>
      BY <2>2, Zenon DEF Candidates
    <3>2. QED
      BY <3>1, <1>4
  <2>3. QED
    BY <2>1, <2>2
<1>6. QED
  BY <1>1, <1>5

\* Turning changes neither the nodes nor the frequency.
LEMMA NextDirection ==
  ASSUME NEW t \in Tuners
  PROVE  next_direction(t) \in Tuners /\ next_direction(t).mask = t.mask
BY DEF next_direction, Tuners

\* The loop of next only turns.
LEMMA TurnedIs == ASSUME NEW t \in Tuners PROVE Turned(t) \subseteq {u \in Tuners : u.mask = t.mask}
<1> DEFINE g == [k \in 0 .. 3 |-> [u \in Tuners |-> next_direction(u)]]
           Eq(f) == f = [k \in 0 .. 3 |-> IF k = 0 THEN t ELSE next_direction(f[k - 1])]
           turn == CHOOSE f : Eq(f)
<1>1. g \in [0 .. 3 -> [Tuners -> Tuners]] /\ 3 \in Nat /\ t \in Tuners
  BY NextDirection
<1>2. \A k \in 0 .. 3 : \A u \in Tuners : g[k][u] = next_direction(u)
  OBVIOUS
<1> HIDE DEF g
<1>3. PICK f \in [0 .. 3 -> Tuners] : Follows(f, 3, t, g)
  BY <1>1, Recursion
<1>4. ASSUME NEW k \in 0 .. 3 PROVE f[k] = IF k = 0 THEN t ELSE next_direction(f[k - 1])
  <2>1. f[k] = IF k = 0 THEN t ELSE g[k][f[k - 1]]
    BY <1>3, Zenon DEF Follows
  <2>2. k # 0 => k - 1 \in 0 .. 3 /\ f[k - 1] \in Tuners
    OBVIOUS
  <2>3. QED
    BY <2>1, <2>2, <1>2
<1>5. Eq(f)
  BY <1>4
<1>6. Eq(turn)
  <2> HIDE DEF Eq
  <2> QED BY <1>5, Zenon
<1> DEFINE h == turn
<1>7. h = [k \in 0 .. 3 |-> IF k = 0 THEN t ELSE next_direction(h[k - 1])]
  BY <1>6
<1> HIDE DEF h
<1>8. h[0] = t /\ h[1] = next_direction(h[0]) /\ h[2] = next_direction(h[1]) /\ h[3] = next_direction(h[2])
  BY <1>7
<1>9. h[0] \in Tuners /\ h[1] \in Tuners /\ h[2] \in Tuners /\ h[3] \in Tuners
  BY <1>8, NextDirection
<1>13. h[0].mask = t.mask /\ h[1].mask = t.mask /\ h[2].mask = t.mask /\ h[3].mask = t.mask
  BY <1>8, <1>9, NextDirection
<1>10. \A k \in 0 .. 3 : h[k] \in Tuners /\ h[k].mask = t.mask
  BY <1>9, <1>13
<1>11. ASSUME NEW u \in Turned(t) PROVE \E k \in 0 .. 3 : u = h[k]
  BY Zenon DEF Turned, h
<1>12. QED
  BY <1>10, <1>11

\* The tuner starts from the best configuration, which may be the current one.
LEMMA NextTurns ==
  ASSUME tuner \in Tuners, active \in Masks, freq \in Freqs, NEW cmp \in {"less", "other", "more"}
  PROVE  \E t \in Tuners : next(cmp) = Turned(t) /\ t.mask \in {tuner.mask, active}
<1>1. next_direction(tuner) \in Tuners /\ next_direction(tuner).mask = tuner.mask
  BY NextDirection
<1> DEFINE moved == [tuner EXCEPT !.mask = active, !.freq = freq]
<1>2. moved \in Tuners /\ moved.mask = active
  BY DEF Tuners
<1>3. CASE cmp = "less"
  <2>1. next(cmp) = Turned(next_direction(tuner))
    BY <1>3 DEF next
  <2>2. QED
    BY <2>1, <1>1
<1>4. CASE cmp = "more"
  <2>1. next(cmp) = Turned(moved)
    BY <1>4 DEF next
  <2>2. QED
    BY <2>1, <1>2
<1>5. CASE cmp = "other"
  <2>1. next(cmp) = Turned(tuner)
    BY <1>5 DEF next
  <2>2. QED
    BY <2>1
<1>6. QED
  BY <1>3, <1>4, <1>5
-----------------------------------------------------------------------------
(***************************************************************************)
(* The invariant of the service.                                           *)
(***************************************************************************)

\* The operations under way, with values the program was given.
Ops ==
  [op : {"set_policy"}, value : PolicyNames] \cup [op : {"toggle", "enforce"}]
  \cup [op : {"collect"}, tuned : BOOLEAN]
  \cup [op : {"balance"}, mask : Masks, freq : Freqs]
  \cup [op : {"update"}, mask : Masks, freq : Freqs, map : Mapping]
  \cup [op : {"updated", "ino"}, map : Mapping]

\* The inductive invariant: whatever interleaves between the two locks, mapping and tree are
\* replaced together, and a policy that is not random has the tree of its mapping.
ServiceInv ==
  /\ value \in Values /\ wanted \in Mapping
  /\ tree \in {NoTree, BadTree} \/ tree = toDecisionTree(wanted)
  /\ value # "random" => tree = toDecisionTree(wanted)
  /\ active \in Masks /\ freq \in Freqs /\ tuner \in Tuners
  /\ ops \subseteq Ops

\* What an operation under way carries.
LEMMA OpsAre ==
  ASSUME NEW o \in Ops
  PROVE  /\ o.op = "set_policy" => o.value \in PolicyNames
         /\ o.op \in {"balance", "update"} => o.mask \in Masks /\ o.freq \in Freqs
         /\ o.op \in {"update", "updated", "ino"} => o.map \in Mapping
         /\ o \in Operation
<1>1. PolicyNames \subseteq Values
  BY ServiceAssumption
<1>2. Masks \subseteq SUBSET Nodes
  BY DEF Masks
<1>3. CASE o \in [op : {"set_policy"}, value : PolicyNames]
  BY <1>1, <1>3 DEF Operation
<1>4. CASE o \in [op : {"toggle", "enforce"}]
  BY <1>4 DEF Operation
<1>9. CASE o \in [op : {"collect"}, tuned : BOOLEAN]
  BY <1>9 DEF Operation
<1>5. CASE o \in [op : {"balance"}, mask : Masks, freq : Freqs]
  BY <1>2, <1>5 DEF Operation, Freqs
<1>6. CASE o \in [op : {"update"}, mask : Masks, freq : Freqs, map : Mapping]
  BY <1>2, <1>6 DEF Operation, Freqs
<1>7. CASE o \in [op : {"updated", "ino"}, map : Mapping]
  BY <1>7 DEF Operation
<1>8. QED
  BY <1>3, <1>4, <1>9, <1>5, <1>6, <1>7 DEF Ops

\* The initial states satisfy the invariant.
LEMMA ServiceInit == Init => ServiceInv
<1> SUFFICES ASSUME Init PROVE ServiceInv
  OBVIOUS
<1>1. Nodes \in SUBSET Nodes /\ Nodes \in Masks /\ Nodes # {}
  BY NodesAreNumbers DEF Masks
<1>2. value \in Values /\ active \in Masks /\ freq \in Freqs /\ ops \subseteq Ops
  BY <1>1, ServiceAssumption DEF Init, Freqs
<1>3. wanted \in Mapping
  BY <1>1, UniformIsMapping DEF Init
<1>4. tree = IF value = "random" THEN NoTree ELSE toDecisionTree(wanted)
  BY DEF Init, create_uniform, Uniform
<1>5. tuner \in Tuners
  BY <1>1 DEF Init, Tuners, Freqs
<1>6. QED
  BY <1>2, <1>3, <1>4, <1>5 DEF ServiceInv

\* Every operation preserves the invariant.
LEMMA ServiceNext == ServiceInv /\ Next => ServiceInv'
<1> SUFFICES ASSUME ServiceInv, Next PROVE ServiceInv'
  OBVIOUS
<1>0. /\ value \in Values /\ wanted \in Mapping
      /\ tree \in {NoTree, BadTree} \/ tree = toDecisionTree(wanted)
      /\ value # "random" => tree = toDecisionTree(wanted)
      /\ active \in Masks /\ freq \in Freqs /\ tuner \in Tuners
      /\ ops \subseteq Ops
  BY DEF ServiceInv
<1>1. /\ PolicyNames \subseteq Values /\ Toggled \subseteq Nodes /\ InoMappings \subseteq Mapping
  BY ServiceAssumption
<1>2. Nodes \in Masks /\ Nodes # {} /\ Masks \subseteq SUBSET Nodes
  BY NodesAreNumbers DEF Masks
<1>3. \A mask \in Masks \ {{}} : Uniform(mask) \in Mapping
  BY <1>2, UniformIsMapping
<1>4. \A mask : create_uniform(mask) = toDecisionTree(Uniform(mask))
  BY DEF create_uniform, Uniform
<1>5. ASSUME UNCHANGED <<value, tree, wanted>>
      PROVE  /\ value' \in Values /\ wanted' \in Mapping
             /\ tree' \in {NoTree, BadTree} \/ tree' = toDecisionTree(wanted')
             /\ value' # "random" => tree' = toDecisionTree(wanted')
  BY <1>0, <1>5
<1>10. ASSUME NEW v \in PolicyNames, set_policy_nodes(v) PROVE ServiceInv'
  <2>1. ops' = ops \cup {[op |-> "set_policy", value |-> v]} /\ active' = Nodes
        /\ UNCHANGED <<value, tree, wanted, freq, tuner>>
    BY <1>10 DEF set_policy_nodes, Begin
  <2>2. [op |-> "set_policy", value |-> v] \in Ops
    BY DEF Ops
  <2>3. QED
    BY <1>0, <1>2, <1>5, <2>1, <2>2 DEF ServiceInv
<1>11. ASSUME NEW n \in Toggled, toggle_node_active(n) PROVE ServiceInv'
  <2>1. ops' = ops \cup {[op |-> "toggle"]} /\ UNCHANGED <<value, tree, wanted, freq, tuner>>
        /\ active' = (IF n \in active THEN active \ {n} ELSE active \cup {n})
    BY <1>11 DEF toggle_node_active, Begin
  <2>2. [op |-> "toggle"] \in Ops
    BY DEF Ops
  <2>3. active' \in Masks
    BY <2>1, <1>0, <1>1 DEF Masks
  <2>4. QED
    BY <1>0, <1>5, <2>1, <2>2, <2>3 DEF ServiceInv
<1>12. ASSUME NEW o \in ops, NEW op \in Ops, Continue(o, op) PROVE ops' \subseteq Ops
  BY <1>0, <1>12 DEF Continue
<1>13. ASSUME balance PROVE ServiceInv'
  <2>1. ops' = ops \cup {[op |-> "collect", tuned |-> value = "tuned"]}
        /\ UNCHANGED <<value, tree, wanted, active, freq, tuner>>
    BY <1>13 DEF balance, Begin
  <2>2. [op |-> "collect", tuned |-> value = "tuned"] \in Ops
    BY DEF Ops
  <2>3. QED
    BY <1>0, <1>5, <2>1, <2>2 DEF ServiceInv
<1>24. [op |-> "enforce"] \in Ops
  BY DEF Ops
<1>25. ASSUME NEW o \in ops, balance_uneven(o) PROVE ServiceInv'
  BY <1>0, <1>5, <1>12, <1>24, <1>25 DEF balance_uneven, ServiceInv
<1>26. ASSUME NEW o \in ops, balance_enforce(o) PROVE ServiceInv'
  <2>1. [op |-> "balance", mask |-> active, freq |-> freq] \in Ops
    BY <1>0 DEF Ops
  <2>2. QED
    BY <1>0, <1>5, <1>12, <1>26, <2>1 DEF balance_enforce, ServiceInv
<1>14. ASSUME NEW o \in ops, NEW cmp \in {"less", "other", "more"}, tune(o, cmp) PROVE ServiceInv'
  <2>1. tuner' \in next(cmp) /\ Continue(o, [op |-> "enforce"]) /\ UNCHANGED <<value, tree, wanted>>
        /\ \E c \in Candidates(tuner') : active' = c[1] /\ freq' = c[2]
    BY <1>14 DEF tune
  <2>3. PICK t \in Tuners : next(cmp) = Turned(t)
    BY <1>0, NextTurns
  <2>4. tuner' \in Tuners
    BY <2>1, <2>3, TurnedIs
  <2>5. active' \in Masks /\ freq' \in Freqs
    BY <2>1, <2>4, CandidatesAre
  <2>6. QED
    BY <1>5, <1>12, <1>24, <2>1, <2>4, <2>5 DEF ServiceInv
<1>15. ASSUME NEW map \in InoMappings, balance_ino(map) PROVE ServiceInv'
  <2>1. ops' = ops \cup {[op |-> "ino", map |-> map]} /\ UNCHANGED <<value, tree, wanted, active, freq, tuner>>
    BY <1>15 DEF balance_ino, Begin
  <2>2. [op |-> "ino", map |-> map] \in Ops
    BY <1>1 DEF Ops
  <2>3. QED
    BY <1>0, <1>5, <2>1, <2>2 DEF ServiceInv
<1>16. ASSUME NEW o \in ops, set_policy(o) PROVE ServiceInv'
  <2>1. o.value \in PolicyNames
    BY <1>16, <1>0, OpsAre DEF set_policy
  <2>2. value' = o.value /\ wanted' = Uniform(Nodes) /\ ops' = ops \ {o} /\ UNCHANGED <<active, freq, tuner>>
        /\ tree' = IF o.value = "random" THEN NoTree ELSE create_uniform(Nodes)
    BY <1>16 DEF set_policy, End
  <2>3. QED
    BY <1>0, <1>1, <1>2, <1>3, <1>4, <2>1, <2>2 DEF ServiceInv
<1>17. ASSUME NEW o \in ops, toggle_node(o) PROVE ServiceInv'
  <2>1. value' = (IF value = "random" THEN "static" ELSE value) /\ wanted' = Uniform(active)
        /\ tree' = create_uniform(active) /\ ops' = ops \ {o} /\ UNCHANGED <<active, freq, tuner>>
        /\ active # {}
    BY <1>17 DEF toggle_node, End
  <2>2. value' \in Values
    BY <1>0, <2>1 DEF Values
  <2>3. QED
    BY <1>0, <1>3, <1>4, <2>1, <2>2 DEF ServiceInv
<1>27. ASSUME NEW o \in ops, toggle_node_ends(o) PROVE ServiceInv'
  BY <1>0, <1>5, <1>27 DEF toggle_node_ends, End, ServiceInv
<1>28. ASSUME Ended PROVE ServiceInv'
  BY <1>0, <1>5, <1>28 DEF Ended, vars, ServiceInv
<1>18. ASSUME NEW o \in ops, update_policy(o) PROVE ServiceInv'
  <2>1. /\ o.op = "balance" /\ value \in {"dynamic", "tuned"}
        /\ UNCHANGED <<value, tree, wanted, active, freq, tuner>>
        /\ \E map \in Rebalanced(task_distribution_mapping(tree)) :
             ops' = (ops \ {o}) \cup {[op |-> "update", mask |-> o.mask, freq |-> o.freq, map |-> map]}
    BY <1>18 DEF update_policy, Continue
  <2>2. PICK map \in Rebalanced(task_distribution_mapping(tree)) :
             ops' = (ops \ {o}) \cup {[op |-> "update", mask |-> o.mask, freq |-> o.freq, map |-> map]}
    BY <2>1
  <2>3. task_distribution_mapping(tree) \in Mapping
    BY <1>0, <2>1, ReadBack
  <2>4. map \in Mapping
    BY <2>3, RebalancedIsMapping
  <2>5. o.mask \in Masks /\ o.freq \in Freqs
    BY <1>0, <2>1, OpsAre
  <2>6. [op |-> "update", mask |-> o.mask, freq |-> o.freq, map |-> map] \in Ops
    BY <2>4, <2>5 DEF Ops
  <2>7. QED
    BY <1>0, <1>5, <2>1, <2>2, <2>6 DEF ServiceInv
<1>19. ASSUME NEW o \in ops, update_policy_ignored(o) PROVE ServiceInv'
  BY <1>0, <1>5, <1>19 DEF update_policy_ignored, End, ServiceInv
<1>20. ASSUME NEW o \in ops, update_policy_nodes(o) PROVE ServiceInv'
  <2>1. /\ o.op = "update" /\ active' = o.mask /\ freq' = o.freq
        /\ ops' = (ops \ {o}) \cup {[op |-> "updated", map |-> o.map]}
        /\ UNCHANGED <<value, tree, wanted, tuner>>
    BY <1>20 DEF update_policy_nodes, Continue
  <2>2. o.mask \in Masks /\ o.freq \in Freqs /\ o.map \in Mapping
    BY <1>0, <2>1, OpsAre
  <2>3. [op |-> "updated", map |-> o.map] \in Ops
    BY <2>2 DEF Ops
  <2>4. QED
    BY <1>0, <1>5, <2>1, <2>2, <2>3 DEF ServiceInv
<1>21. ASSUME NEW o \in ops, update_policy_store(o) PROVE ServiceInv'
  <2>1. /\ o.op = "updated" /\ wanted' = o.map /\ tree' = toDecisionTree(o.map) /\ ops' = ops \ {o}
        /\ UNCHANGED <<value, active, freq, tuner>>
    BY <1>21 DEF update_policy_store, End
  <2>2. o.map \in Mapping
    BY <1>0, <2>1, OpsAre
  <2>3. QED
    BY <1>0, <2>1, <2>2 DEF ServiceInv
<1>22. ASSUME NEW o \in ops, apply_new_mapping(o) PROVE ServiceInv'
  <2>1. /\ o.op = "ino" /\ wanted' = o.map /\ ops' = ops \ {o}
        /\ tree' = (IF tree = NoTree THEN BadTree ELSE toDecisionTree(o.map))
        /\ UNCHANGED <<value, active, freq, tuner>>
    BY <1>22 DEF apply_new_mapping, End, from_mapping
  <2>2. o.map \in Mapping
    BY <1>0, <2>1, OpsAre
  <2>3. value # "random" => tree # NoTree
    BY <1>0, TreeIsTree
  <2>4. QED
    BY <1>0, <2>1, <2>2, <2>3 DEF ServiceInv
<1>23. QED
  BY <1>10, <1>11, <1>13, <1>14, <1>15, <1>16, <1>17, <1>18, <1>19, <1>20, <1>21, <1>22,
     <1>25, <1>26, <1>27, <1>28, Zenon DEF Next

\* Stuttering preserves the invariant.
LEMMA ServiceStutter == ServiceInv /\ UNCHANGED vars => ServiceInv'
BY DEF ServiceInv, vars

\* All reachable states satisfy the invariant.
LEMMA ServiceInvariant == Spec => []ServiceInv
<1>1. ServiceInv /\ [Next]_vars => ServiceInv'
  BY ServiceNext, ServiceStutter
<1>2. QED
  BY <1>1, ServiceInit, PTL DEF Spec

\* The invariant is all that Realised needs: it is a fact about the tree of a mapping.
LEMMA TreeRead == ServiceInv => Realised
<1> SUFFICES ASSUME ServiceInv, IsTree, Ordered(wanted)
             PROVE  task_distribution_mapping(tree) = wanted
  BY DEF Realised
<1>1. wanted \in Mapping /\ tree = toDecisionTree(wanted)
  BY DEF ServiceInv, IsTree
<1>2. QED
  BY <1>1, TreeRealises

\* The tree in use realises the mapping it was made from: task_distribution_mapping, from
\* which update_policy computes the next mapping, reads back the same one from what
\* toDecisionTree encoded, for every ordered mapping, every number of localities, every
\* granularity and however often the policy has been replaced.
THEOREM TreesRealiseMappings == Spec => []Realised
BY ServiceInvariant, TreeRead, PTL

\* A program that uses the random policy uses no other but the static one: update_policy and
\* apply_new_mapping cast the policy to a tree policy without a test, and set_policy may
\* have put the random one in its place meanwhile.
RandomApart == "random" \in PolicyNames => PolicyNames \subseteq {"random", "static"}

\* What RandomApart keeps true: there is a tree unless the random policy is in use.
RandomInv ==
  /\ "random" \in PolicyNames => value \in {"random", "static"} /\ \A o \in ops : IsCommand(o)
  /\ "random" \notin PolicyNames => value # "random"
  /\ value = "random" => tree = NoTree

-----------------------------------------------------------------------------
(***************************************************************************)
(* The types of the service.                                               *)
(***************************************************************************)

\* It is true initially.
LEMMA RandomInit == RandomApart /\ Init => RandomInv
<1> SUFFICES ASSUME RandomApart, Init PROVE RandomInv
  OBVIOUS
<1>1. value \in PolicyNames /\ ops = {} /\ (value = "random" => tree = NoTree)
  BY DEF Init
<1>2. QED
  BY <1>1 DEF RandomInv, RandomApart

\* Every operation preserves it.
LEMMA RandomNext == RandomApart /\ ServiceInv /\ RandomInv /\ Next => RandomInv'
<1> SUFFICES ASSUME RandomApart, ServiceInv, RandomInv, Next PROVE RandomInv'
  OBVIOUS
<1>0. /\ "random" \in PolicyNames => PolicyNames \subseteq {"random", "static"}
      /\ "random" \in PolicyNames => value \in {"random", "static"} /\ \A o \in ops : IsCommand(o)
      /\ "random" \notin PolicyNames => value # "random"
      /\ value = "random" => tree = NoTree
      /\ ops \subseteq Ops
  BY DEF RandomApart, RandomInv, ServiceInv
<1>1. ASSUME UNCHANGED <<value, tree>>, NEW op, ops' \subseteq ops \cup {op}, "random" \in PolicyNames => IsCommand(op)
      PROVE  RandomInv'
  BY <1>0, <1>1 DEF RandomInv
<1>2. ASSUME UNCHANGED <<value, tree>>, ops' \subseteq ops PROVE RandomInv'
  BY <1>0, <1>2 DEF RandomInv
<1>3. ASSUME "random" \notin PolicyNames, value' = value PROVE RandomInv'
  BY <1>0, <1>3 DEF RandomInv
<1>10. ASSUME NEW v \in PolicyNames, set_policy_nodes(v) PROVE RandomInv'
  <2> DEFINE op == [op |-> "set_policy", value |-> v]
  <2>1. ops' = ops \cup {op} /\ UNCHANGED <<value, tree>>
    BY <1>10 DEF set_policy_nodes, Begin
  <2>2. IsCommand(op)
    BY DEF IsCommand
  <2> HIDE DEF op
  <2>3. QED
    BY <1>1, <2>1, <2>2
<1>11. ASSUME NEW n \in Toggled, toggle_node_active(n) PROVE RandomInv'
  <2> DEFINE op == [op |-> "toggle"]
  <2>1. ops' = ops \cup {op} /\ UNCHANGED <<value, tree>>
    BY <1>11 DEF toggle_node_active, Begin
  <2>2. IsCommand(op)
    BY DEF IsCommand
  <2> HIDE DEF op
  <2>3. QED
    BY <1>1, <2>1, <2>2
<1>12. ASSUME value \in {"dynamic", "tuned", "ino"}, UNCHANGED value PROVE RandomInv'
  BY <1>0, <1>3, <1>12
<1>13. ASSUME balance PROVE RandomInv'
  BY <1>12, <1>13 DEF balance
<1>28. ASSUME Ended PROVE RandomInv'
  BY <1>2, <1>28 DEF Ended, vars
<1>15. ASSUME NEW map \in InoMappings, balance_ino(map) PROVE RandomInv'
  BY <1>12, <1>15 DEF balance_ino
<1>16. ASSUME NEW o \in ops, set_policy(o) PROVE RandomInv'
  <2>1. o.value \in PolicyNames
    BY <1>16, <1>0, OpsAre DEF set_policy
  <2>2. value' = o.value /\ ops' \subseteq ops /\ (o.value = "random" => tree' = NoTree)
    BY <1>16 DEF set_policy, End
  <2>3. QED
    BY <1>0, <2>1, <2>2 DEF RandomInv
<1>17. ASSUME NEW o \in ops, toggle_node(o) PROVE RandomInv'
  <2>1. value' = (IF value = "random" THEN "static" ELSE value) /\ ops' \subseteq ops
    BY <1>17 DEF toggle_node, End
  <2>2. value' # "random" /\ ("random" \in PolicyNames => value' \in {"random", "static"})
    BY <1>0, <2>1
  <2>3. QED
    BY <1>0, <2>1, <2>2 DEF RandomInv
<1>27. ASSUME NEW o \in ops, toggle_node_ends(o) PROVE RandomInv'
  BY <1>2, <1>27 DEF toggle_node_ends, End
\* The other operations are none while a policy may be the random one.
<1>18. ASSUME NEW o \in ops, o.op \notin {"set_policy", "toggle"}, UNCHANGED value PROVE RandomInv'
  <2>1. ~ IsCommand(o)
    BY <1>18 DEF IsCommand
  <2>2. QED
    BY <1>0, <1>3, <1>18, <2>1
<1>14. ASSUME NEW o \in ops, NEW cmp \in {"less", "other", "more"}, tune(o, cmp) PROVE RandomInv'
  BY <1>18, <1>14 DEF tune
<1>25. ASSUME NEW o \in ops, balance_uneven(o) PROVE RandomInv'
  BY <1>18, <1>25 DEF balance_uneven
<1>26. ASSUME NEW o \in ops, balance_enforce(o) PROVE RandomInv'
  BY <1>18, <1>26 DEF balance_enforce
<1>19. ASSUME NEW o \in ops, update_policy(o) PROVE RandomInv'
  BY <1>18, <1>19 DEF update_policy
<1>20. ASSUME NEW o \in ops, update_policy_ignored(o) PROVE RandomInv'
  BY <1>18, <1>20 DEF update_policy_ignored
<1>21. ASSUME NEW o \in ops, update_policy_nodes(o) PROVE RandomInv'
  BY <1>18, <1>21 DEF update_policy_nodes
<1>22. ASSUME NEW o \in ops, update_policy_store(o) PROVE RandomInv'
  BY <1>18, <1>22 DEF update_policy_store
<1>23. ASSUME NEW o \in ops, apply_new_mapping(o) PROVE RandomInv'
  BY <1>18, <1>23 DEF apply_new_mapping
<1>24. QED
  BY <1>10, <1>11, <1>13, <1>14, <1>15, <1>16, <1>17, <1>19, <1>20, <1>21, <1>22, <1>23,
     <1>25, <1>26, <1>27, <1>28, Zenon DEF Next

\* Stuttering preserves it.
LEMMA RandomStutter == RandomInv /\ UNCHANGED vars => RandomInv'
BY DEF RandomInv, vars

\* A step other than that of toggle_node which deactivates the last active node leaves
\* somebody active.
LEMMA ActiveNext ==
  ASSUME ServiceInv, SomebodyActive, Next
  PROVE  SomebodyActive' \/ \E n \in Toggled : toggle_node_active(n) /\ active = {n}
<1>0. /\ active \in Masks /\ freq \in Freqs /\ tuner \in Tuners /\ ops \subseteq Ops
  BY DEF ServiceInv
<1>1. ASSUME UNCHANGED tuner, active' = active \/ active' # {}, ops' \subseteq ops
      PROVE  SomebodyActive'
  BY <1>1 DEF SomebodyActive
<1>2. ASSUME UNCHANGED tuner, active' = active \/ active' # {},
             NEW op, op.op \notin {"balance", "update"}, ops' \subseteq ops \cup {op}
      PROVE  SomebodyActive'
  BY <1>2 DEF SomebodyActive
<1>10. ASSUME NEW v \in PolicyNames, set_policy_nodes(v) PROVE SomebodyActive'
  BY <1>2, <1>10, NodesAreNumbers DEF set_policy_nodes, Begin
<1>11. ASSUME NEW n \in Toggled, toggle_node_active(n), active # {n} PROVE SomebodyActive'
  <2>1. /\ ops' = ops \cup {[op |-> "toggle"]} /\ UNCHANGED tuner
        /\ active' = (IF n \in active THEN active \ {n} ELSE active \cup {n})
    BY <1>11 DEF toggle_node_active, Begin
  <2>2. active' # {}
    BY <1>11, <2>1 DEF SomebodyActive
  <2>3. QED
    BY <1>2, <2>1, <2>2
<1>13. ASSUME balance PROVE SomebodyActive'
  BY <1>2, <1>13 DEF balance, Begin
<1>14. ASSUME NEW o \in ops, NEW cmp \in {"less", "other", "more"}, tune(o, cmp) PROVE SomebodyActive'
  <2>1. /\ tuner' \in next(cmp) /\ ops' \subseteq ops \cup {[op |-> "enforce"]}
        /\ \E c \in Candidates(tuner') : active' = c[1]
    BY <1>14 DEF tune, Continue
  <2>2. PICK t \in Tuners : next(cmp) = Turned(t) /\ t.mask \in {tuner.mask, active}
    BY <1>0, NextTurns
  <2>3. tuner' \in Tuners /\ tuner'.mask \in {tuner.mask, active}
    BY <2>1, <2>2, TurnedIs
  <2>4. tuner'.mask # {} => active' # {}
    BY <2>1, <2>3, CandidatesAre
  <2>5. QED
    BY <2>1, <2>3, <2>4 DEF SomebodyActive
<1>15. ASSUME NEW map \in InoMappings, balance_ino(map) PROVE SomebodyActive'
  BY <1>2, <1>15 DEF balance_ino, Begin
<1>16. ASSUME NEW o \in ops, set_policy(o) PROVE SomebodyActive'
  BY <1>1, <1>16 DEF set_policy, End
<1>17. ASSUME NEW o \in ops, toggle_node(o) PROVE SomebodyActive'
  BY <1>1, <1>17 DEF toggle_node, End
<1>27. ASSUME NEW o \in ops, toggle_node_ends(o) PROVE SomebodyActive'
  BY <1>1, <1>27 DEF toggle_node_ends, End
<1>25. ASSUME NEW o \in ops, balance_uneven(o) PROVE SomebodyActive'
  BY <1>2, <1>25 DEF balance_uneven, Continue
<1>26. ASSUME NEW o \in ops, balance_enforce(o) PROVE SomebodyActive'
  BY <1>26 DEF balance_enforce, Continue, SomebodyActive
<1>18. ASSUME NEW o \in ops, update_policy(o) PROVE SomebodyActive'
  BY <1>18 DEF update_policy, Continue, SomebodyActive
<1>19. ASSUME NEW o \in ops, update_policy_ignored(o) PROVE SomebodyActive'
  BY <1>1, <1>19 DEF update_policy_ignored, End
<1>20. ASSUME NEW o \in ops, update_policy_nodes(o) PROVE SomebodyActive'
  BY <1>20 DEF update_policy_nodes, Continue, SomebodyActive
<1>21. ASSUME NEW o \in ops, update_policy_store(o) PROVE SomebodyActive'
  BY <1>1, <1>21 DEF update_policy_store, End
<1>22. ASSUME NEW o \in ops, apply_new_mapping(o) PROVE SomebodyActive'
  BY <1>1, <1>22 DEF apply_new_mapping, End
<1>28. ASSUME Ended PROVE SomebodyActive'
  BY <1>1, <1>28 DEF Ended, vars
<1>23. CASE \E n \in Toggled : toggle_node_active(n)
  BY <1>11, <1>23
<1>24. CASE ~\E n \in Toggled : toggle_node_active(n)
  BY <1>10, <1>13, <1>14, <1>15, <1>16, <1>17, <1>18, <1>19, <1>20, <1>21, <1>22, <1>24,
     <1>25, <1>26, <1>27, <1>28, Zenon DEF Next
<1>29. QED
  BY <1>23, <1>24

\* For every number of localities, any programs and commands: the tuner (dec guards the last
\* node) and the ways a selection of nodes takes between the optimizer and the policies leave
\* somebody active; only toggle_node called for the last active node does not.
THEOREM NodesStayActive == Spec => SomebodyStaysActive
<1>1. ServiceInv /\ [Next]_vars =>
        [SomebodyActive /\ ~SomebodyActive' =>
           \E n \in Toggled : toggle_node_active(n) /\ active = {n}]_vars
  BY ActiveNext
<1>2. QED
  BY <1>1, ServiceInvariant, PTL DEF Spec, SomebodyStaysActive

\* The program runs or has ended.
RunningInv == running \in BOOLEAN

\* It does in the beginning, and after every step.
LEMMA RunningNext == (Init => RunningInv) /\ (RunningInv /\ [Next]_vars => RunningInv')
BY DEF RunningInv, Init, Next, vars, Ended, Begin, End, Continue, set_policy_nodes, set_policy, toggle_node_active,
       toggle_node, toggle_node_ends, balance, balance_uneven, balance_enforce, tune, update_policy,
       update_policy_ignored, update_policy_nodes, update_policy_store, balance_ino, apply_new_mapping

\* The invariants imply the types.
LEMMA ServiceTypes == ServiceInv /\ RandomInv /\ RunningInv => TypeOK
<1> SUFFICES ASSUME ServiceInv, RandomInv, RunningInv PROVE TypeOK
  OBVIOUS
<1>1. /\ value \in Values /\ wanted \in Mapping
      /\ value # "random" => tree = toDecisionTree(wanted)
      /\ active \in Masks /\ freq \in Freqs /\ tuner \in Tuners
      /\ ops \subseteq Ops
  BY DEF ServiceInv
<1>2. value = "random" => tree = NoTree
  BY DEF RandomInv
<1>3. tree \in Tree \cup {NoTree} /\ (tree = NoTree <=> value = "random")
  BY <1>1, <1>2, TreeIsTree
<1>4. ops \subseteq Operation
  BY <1>1, OpsAre
<1>5. QED
  BY <1>1, <1>3, <1>4 DEF TypeOK, Masks, Freqs, Tuners, RunningInv

\* The types of the service's state, for every number of localities.  In particular
\* update_policy never reads a policy through a wrong cast, in a program that keeps the
\* random policy apart.
THEOREM ServiceTypeOK == RandomApart => (Spec => []TypeOK)
<1> SUFFICES ASSUME RandomApart PROVE Spec => []TypeOK
  OBVIOUS
<1>1. Init => RandomInv
  BY RandomInit
<1>2. ServiceInv /\ RandomInv /\ [Next]_vars => RandomInv'
  BY RandomNext, RandomStutter
<1>3. (Init => RunningInv) /\ (RunningInv /\ [Next]_vars => RunningInv')
  BY RunningNext
<1>4. QED
  BY <1>1, <1>2, <1>3, ServiceInvariant, ServiceTypes, PTL DEF Spec
-----------------------------------------------------------------------------
(***************************************************************************)
(* Counting tasks.                                                         *)
(***************************************************************************)

\* How many tasks the nodes are given; a count may be wrong.
Counts == [Nodes -> Int]

\* The first tasks are the sums of the counts before.
LEMMA StartsDefined ==
  ASSUME NEW c \in Counts
  PROVE  /\ StartsOf(c) \in [0 .. N -> Int]
         /\ StartsOf(c)[0] = 0
         /\ \A n \in Nodes : StartsOf(c)[n + 1] = StartsOf(c)[n] + c[n]
<1> DEFINE g == [n \in 0 .. N |-> [s \in Int |-> IF n = 0 THEN 0 ELSE s + c[n - 1]]]
           Eq(f) == f = [n \in 0 .. N |-> IF n = 0 THEN 0 ELSE f[n - 1] + c[n - 1]]
           s == StartsOf(c)
<1>1. N \in Nat /\ 0 \in Int
  BY Depth
<1>2. ASSUME NEW n \in 0 .. N, n # 0 PROVE n - 1 \in Nodes /\ n - 1 \in 0 .. N /\ c[n - 1] \in Int
  BY <1>1, <1>2 DEF Nodes, Counts
<1>3. g \in [0 .. N -> [Int -> Int]]
  <2>1. ASSUME NEW n \in 0 .. N, NEW x \in Int PROVE (IF n = 0 THEN 0 ELSE x + c[n - 1]) \in Int
    BY <1>2
  <2>2. QED
    BY <2>1
<1>4. \A n \in 0 .. N : \A x \in Int : n # 0 => g[n][x] = x + c[n - 1]
  OBVIOUS
<1> HIDE DEF g
<1>5. PICK f \in [0 .. N -> Int] : Follows(f, N, 0, g)
  BY <1>1, <1>3, Recursion
<1>6. ASSUME NEW n \in 0 .. N PROVE f[n] = IF n = 0 THEN 0 ELSE f[n - 1] + c[n - 1]
  <2>1. f[n] = IF n = 0 THEN 0 ELSE g[n][f[n - 1]]
    BY <1>5, Zenon DEF Follows
  <2>2. n # 0 => f[n - 1] \in Int
    BY <1>2
  <2>3. QED
    BY <2>1, <2>2, <1>4
<1>7. Eq(f)
  BY <1>6
<1>8. s = CHOOSE h : Eq(h)
  BY Zenon DEF StartsOf
<1>9. Eq(s)
  <2> HIDE DEF Eq, s
  <2> QED BY <1>7, <1>8, Zenon
<1> HIDE DEF s
<1>10. \A n \in 0 .. N : s[n] = IF n = 0 THEN 0 ELSE s[n - 1] + c[n - 1]
  BY <1>9
<1> DEFINE S == {n \in 0 .. N : s[n] \in Int}
<1>11. 0 \in S /\ s[0] = 0
  BY <1>1, <1>10
<1>12. ASSUME NEW n \in 0 .. N, n < N, n \in S PROVE n + 1 \in S
  <2>1. n + 1 \in 0 .. N /\ n + 1 # 0 /\ (n + 1) - 1 = n
    BY <1>1, <1>12
  <2>2. s[n + 1] = s[n] + c[n] /\ c[n] \in Int /\ s[n] \in Int
    BY <2>1, <1>2, <1>10, <1>12
  <2>3. QED
    BY <2>1, <2>2
<1> HIDE DEF S
<1>13. \A n \in 0 .. N : n \in S
  BY <1>1, <1>11, <1>12, Upto
<1>14. s \in [0 .. N -> Int]
  <2>1. \A n \in 0 .. N : s[n] \in Int
    BY <1>13 DEF S
  <2>2. QED
    BY <2>1, <1>9
<1>15. ASSUME NEW n \in Nodes PROVE s[n + 1] = s[n] + c[n]
  <2>1. n + 1 \in 0 .. N /\ n + 1 # 0 /\ (n + 1) - 1 = n
    BY <1>1 DEF Nodes
  <2>2. QED
    BY <2>1, <1>10
<1>16. QED
  BY <1>11, <1>14, <1>15 DEF s

\* A shift changes no sum.
LEMMA ShiftKeepsSum ==
  ASSUME NEW c \in Counts, NEW from \in Nodes, NEW to \in Nodes, from # to
  PROVE  Shift(c, from, to) \in Counts /\ StartsOf(Shift(c, from, to))[N] = StartsOf(c)[N]
<1> DEFINE d == Shift(c, from, to)
           s == StartsOf(c)
           t == StartsOf(d)
           S == {n \in 0 .. N : t[n] = s[n] - (IF n > from THEN 1 ELSE 0) + (IF n > to THEN 1 ELSE 0)}
<1>0. N \in Nat /\ from \in Nat /\ to \in Nat /\ from < N /\ to < N
  BY Depth DEF Nodes
<1>1. d \in Counts /\ d[from] = c[from] - 1 /\ d[to] = c[to] + 1
      /\ \A n \in Nodes : n # from /\ n # to => d[n] = c[n]
  BY DEF Shift, Counts
<1> HIDE DEF d
<1>2. /\ s \in [0 .. N -> Int] /\ s[0] = 0 /\ \A n \in Nodes : s[n + 1] = s[n] + c[n]
      /\ t \in [0 .. N -> Int] /\ t[0] = 0 /\ \A n \in Nodes : t[n + 1] = t[n] + d[n]
  BY <1>1, StartsDefined
<1> HIDE DEF s, t
<1>3. 0 \in S
  BY <1>0, <1>2
<1>4. ASSUME NEW n \in 0 .. N, n < N, n \in S PROVE n + 1 \in S
  <2>1. n \in Nodes /\ n + 1 \in 0 .. N /\ n \in Nat
    BY <1>0, <1>4 DEF Nodes
  <2>2. t[n + 1] = t[n] + d[n] /\ s[n + 1] = s[n] + c[n] /\ c[n] \in Int /\ d[n] \in Int
        /\ s[n] \in Int /\ t[n] \in Int
    BY <2>1, <1>1, <1>2 DEF Counts
  <2>3. t[n] = s[n] - (IF n > from THEN 1 ELSE 0) + (IF n > to THEN 1 ELSE 0)
    BY <1>4
  <2>4. CASE n = from
    BY <2>1, <2>2, <2>3, <2>4, <1>0, <1>1
  <2>5. CASE n = to
    BY <2>1, <2>2, <2>3, <2>5, <1>0, <1>1
  <2>6. CASE n # from /\ n # to
    BY <2>1, <2>2, <2>3, <2>6, <1>0, <1>1
  <2>7. QED
    BY <2>4, <2>5, <2>6
<1> HIDE DEF S
<1>5. \A n \in 0 .. N : n \in S
  BY <1>0, <1>3, <1>4, Upto
<1>6. N \in S
  BY <1>0, <1>5
<1>7. t[N] = s[N]
  BY <1>0, <1>2, <1>6 DEF S
<1>8. QED
  BY <1>1, <1>7 DEF d, s, t

\* How many tasks there are.
LEMMA TasksAreFinite == IsFiniteSet(TaskIds) /\ Cardinality(TaskIds) = NumTasks /\ NumTasks \in Nat
<1>1. NumTasks \in Nat /\ NumTasks > 0
  BY Depth, Powers DEF NumTasks
<1>2. 0 \in Int /\ NumTasks - 1 \in Int
  BY <1>1
<1>3. IsFiniteSet(0 .. NumTasks - 1)
      /\ Cardinality(0 .. NumTasks - 1) = IF 0 > NumTasks - 1 THEN 0 ELSE (NumTasks - 1) - 0 + 1
  BY <1>2, FS_Interval
<1>4. QED
  BY <1>1, <1>3 DEF TaskIds

\* A mapping's counts: whoever has a task counts it, and all of them are counted.
LEMMA ContributionIs ==
  ASSUME NEW map \in Mapping
  PROVE  /\ Contribution(map) \in [Nodes -> Nat]
         /\ \A n \in Nodes : Contribution(map)[n] # 0 <=> n \in Range(map)
         /\ StartsOf(Contribution(map))[N] = NumTasks
<1> DEFINE c == Contribution(map)
           At(n) == {i \in TaskIds : map[i] = n}
           Below(n) == {i \in TaskIds : map[i] < n}
           s == StartsOf(c)
           S == {n \in 0 .. N : s[n] = Cardinality(Below(n))}
<1>1. \A n : IsFiniteSet(At(n)) /\ IsFiniteSet(Below(n)) /\ Cardinality(At(n)) \in Nat
  <2> TAKE n
  <2>1. At(n) \in SUBSET TaskIds /\ Below(n) \in SUBSET TaskIds
    OBVIOUS
  <2> HIDE DEF At, Below
  <2>2. IsFiniteSet(At(n)) /\ IsFiniteSet(Below(n))
    BY <2>1, TasksAreFinite, FS_Subset
  <2>3. QED
    BY <2>2, FS_CardinalityType
<1>2. \A n \in Nodes : c[n] = Cardinality(At(n))
  BY DEF Contribution
<1>3. c \in [Nodes -> Nat]
  <2> HIDE DEF At
  <2>1. c = [n \in Nodes |-> c[n]]
    BY DEF Contribution
  <2> HIDE DEF c
  <2>2. QED
    BY <2>1, <1>1, <1>2
<1>4. ASSUME NEW n \in Nodes PROVE c[n] # 0 <=> n \in Range(map)
  <2>1. c[n] # 0 <=> At(n) # {}
    <3> HIDE DEF At, c
    <3>1. c[n] = Cardinality(At(n)) /\ IsFiniteSet(At(n))
      BY <1>1, <1>2
    <3>2. Cardinality(At(n)) = 0 <=> At(n) = {}
      BY <3>1, FS_EmptySet
    <3>3. QED
      BY <3>1, <3>2
  <2>2. n \in Range(map) <=> \E i \in TaskIds : map[i] = n
    BY DEF Range, Mapping
  <2>3. QED
    BY <2>1, <2>2
<1>5. c \in Counts /\ N \in Nat
  BY <1>3, Depth DEF Counts
<1> HIDE DEF c
<1>6. /\ s \in [0 .. N -> Int] /\ s[0] = 0 /\ \A n \in Nodes : s[n + 1] = s[n] + c[n]
  BY <1>5, StartsDefined
<1> HIDE DEF s
<1>7. \A i \in TaskIds : map[i] \in Nat /\ map[i] < N
  BY <1>5 DEF Mapping, Nodes
<1>8. 0 \in S
  <2>1. Below(0) = {}
    BY <1>7
  <2> HIDE DEF Below
  <2>2. Cardinality(Below(0)) = 0
    BY <2>1, FS_EmptySet
  <2>3. QED
    BY <2>2, <1>5, <1>6
<1>9. ASSUME NEW n \in 0 .. N, n < N, n \in S PROVE n + 1 \in S
  <2>1. n \in Nodes /\ n + 1 \in 0 .. N /\ n \in Nat
    BY <1>5, <1>9 DEF Nodes
  <2>2. Below(n + 1) = Below(n) \cup At(n)
    BY <2>1, <1>7
  <2>3. Below(n) \cap At(n) = {}
    BY <2>1, <1>7
  <2> HIDE DEF Below, At
  <2>4. IsFiniteSet(Below(n)) /\ IsFiniteSet(At(n)) /\ Cardinality(At(n)) \in Nat
    BY <1>1
  <2>5. Cardinality(Below(n)) \in Nat
    BY <2>4, FS_CardinalityType
  <2>6. Cardinality(Below(n) \cup At(n)) = Cardinality(Below(n)) + Cardinality(At(n)) - Cardinality(Below(n) \cap At(n))
    BY <2>4, FS_Union
  <2>7. Cardinality(Below(n) \cap At(n)) = 0
    BY <2>3, FS_EmptySet
  <2>8. Cardinality(Below(n + 1)) = Cardinality(Below(n)) + Cardinality(At(n))
    <3>1. Cardinality(Below(n) \cup At(n)) = Cardinality(Below(n)) + Cardinality(At(n))
      BY <2>4, <2>5, <2>6, <2>7
    <3>2. QED
      BY <3>1, <2>2, Zenon
  <2>9. s[n + 1] = s[n] + c[n] /\ c[n] = Cardinality(At(n)) /\ s[n] = Cardinality(Below(n))
    BY <2>1, <1>2, <1>6, <1>9
  <2>10. QED
    BY <2>1, <2>8, <2>9
<1> HIDE DEF S
<1>10. \A n \in 0 .. N : n \in S
  BY <1>5, <1>8, <1>9, Upto
<1>11. Below(N) = TaskIds
  BY <1>7
<1>12. s[N] = NumTasks
  <2>1. N \in S
    BY <1>5, <1>10
  <2>2. s[N] = Cardinality(Below(N))
    BY <2>1 DEF S
  <2> HIDE DEF Below
  <2>3. QED
    BY <2>2, <1>11, TasksAreFinite
<1>13. QED
  BY <1>3, <1>4, <1>12 DEF c, s
-----------------------------------------------------------------------------
(***************************************************************************)
(* Rebalancing.                                                            *)
(***************************************************************************)

\* What a shift between neighbours leaves as it was.
Fair(c0, c) ==
  /\ c \in [Nodes -> Nat] /\ \A n \in Nodes : c[n] = 0 <=> c0[n] = 0
  /\ StartsOf(c)[N] = StartsOf(c0)[N]

\* A shift from a node with more than one task to one that has some is fair.
LEMMA ShiftIsFair ==
  ASSUME NEW c0 \in [Nodes -> Nat], NEW c, Fair(c0, c), NEW from \in Nodes, NEW to \in Nodes, from # to,
         c[from] # 1, c0[from] # 0, c0[to] # 0
  PROVE  Fair(c0, Shift(c, from, to))
<1> DEFINE d == Shift(c, from, to)
<1>1. c \in [Nodes -> Nat] /\ \A n \in Nodes : c[n] = 0 <=> c0[n] = 0
  BY DEF Fair
<1>2. c \in Counts
  BY <1>1 DEF Counts
<1>3. d \in Counts /\ StartsOf(d)[N] = StartsOf(c)[N]
  BY <1>2, ShiftKeepsSum
<1>4. d[from] = c[from] - 1 /\ d[to] = c[to] + 1 /\ \A n \in Nodes : n # from /\ n # to => d[n] = c[n]
  BY <1>2 DEF Shift, Counts
<1> HIDE DEF d
<1>5. c[from] \in Nat /\ c[from] > 1 /\ c[to] \in Nat /\ c[to] > 0
  BY <1>1
<1>6. ASSUME NEW n \in Nodes PROVE d[n] \in Nat /\ (d[n] = 0 <=> c0[n] = 0)
  <2>1. c[n] \in Nat /\ (c[n] = 0 <=> c0[n] = 0)
    BY <1>1
  <2>2. CASE n = from
    BY <2>1, <2>2, <1>4, <1>5
  <2>3. CASE n = to
    BY <2>1, <2>3, <1>4, <1>5
  <2>4. CASE n # from /\ n # to
    BY <2>1, <2>4, <1>4
  <2>5. QED
    BY <2>2, <2>3, <2>4
<1>7. d \in [Nodes -> Nat]
  BY <1>3, <1>6 DEF Counts
<1>8. QED
  BY <1>3, <1>6, <1>7 DEF Fair, d

\* What balancing node n does, of which every outcome is fair.
Moves(c0, c, n) == eligable_max(c0, c, n) \cup eligable_min(c0, c, n)

\* eligable_max and eligable_min look at both counts before they shift.
LEMMA MovesAreFair ==
  ASSUME NEW c0 \in [Nodes -> Nat], NEW c, Fair(c0, c), NEW n \in Nodes, NEW d \in Moves(c0, c, n)
  PROVE  Fair(c0, d)
<1>1. \A m \in Neighbours(n) : m \in Nodes /\ m # n
  BY Depth DEF Neighbours, Nodes
<1>2. CASE d = c
  BY <1>2
<1>3. CASE \E m \in Neighbours(n) : d = Shift(c, n, m) /\ c[n] # 1 /\ c0[n] # 0 /\ c0[m] # 0
  BY <1>1, <1>3, ShiftIsFair
<1>4. CASE \E m \in Neighbours(n) : d = Shift(c, m, n) /\ c[m] # 1 /\ c0[n] # 0 /\ c0[m] # 0
  BY <1>1, <1>4, ShiftIsFair
<1>5. QED
  BY <1>2, <1>3, <1>4, Zenon DEF Moves, eligable_max, eligable_min

\* The results of balancing the first n nodes.
Afters(c0) ==
  LET after[n \in 0 .. N] ==
        IF n = 0 THEN {c0}
        ELSE UNION {eligable_max(c0, c, n - 1) \cup eligable_min(c0, c, n - 1) : c \in after[n - 1]}
  IN  after

\* Rebalanced, by the results of balancing all nodes.
LEMMA RebalancedIs ==
  ASSUME NEW map PROVE Rebalanced(map) = {Refill(map, c) : c \in Afters(Contribution(map))[N]} \cup {map}
BY Zenon DEF Rebalanced, Afters

\* Balancing one node after another is fair.
LEMMA AftersAreFair ==
  ASSUME NEW c0 \in [Nodes -> Nat]
  PROVE  \A c \in Afters(c0)[N] : Fair(c0, c)
<1> DEFINE All == {c \in [Nodes -> Nat] : Fair(c0, c)}
           V == SUBSET All
           Next1(C, n) == UNION {Moves(c0, c, n - 1) : c \in C}
           g == [n \in 0 .. N |-> [C \in V |-> IF n = 0 THEN {} ELSE Next1(C, n)]]
           Eq(f) == f = [n \in 0 .. N |-> IF n = 0 THEN {c0} ELSE Next1(f[n - 1], n)]
           a == Afters(c0)
<1>1. N \in Nat /\ \A n \in 0 .. N : n # 0 => n - 1 \in Nodes /\ n - 1 \in 0 .. N
  BY Depth DEF Nodes
<1>2. {c0} \in V
  BY DEF Fair
<1>3. ASSUME NEW n \in 0 .. N, n # 0, NEW C \in V PROVE Next1(C, n) \in V
  <2>1. ASSUME NEW c \in C, NEW d \in Moves(c0, c, n - 1) PROVE d \in All
    <3>1. Fair(c0, d)
      BY <2>1, <1>1, <1>3, MovesAreFair
    <3>2. QED
      BY <3>1 DEF Fair
  <2> HIDE DEF All
  <2>2. QED
    BY <2>1
<1> HIDE DEF V, Next1
<1>4. g \in [0 .. N -> [V -> V]]
  <2>1. ASSUME NEW n \in 0 .. N, NEW C \in V PROVE (IF n = 0 THEN {} ELSE Next1(C, n)) \in V
    <3>1. {} \in V
      BY DEF V
    <3>2. QED
      BY <3>1, <1>3
  <2>2. QED
    BY <2>1
<1>5. \A n \in 0 .. N : \A C \in V : n # 0 => g[n][C] = Next1(C, n)
  OBVIOUS
<1> HIDE DEF g
<1>6. PICK f \in [0 .. N -> V] : Follows(f, N, {c0}, g)
  <2> DEFINE c1 == {c0}
  <2>1. c1 \in V /\ N \in Nat
    BY <1>1, <1>2
  <2> HIDE DEF c1
  <2>2. \E f \in [0 .. N -> V] : Follows(f, N, c1, g)
    BY <2>1, <1>4, Recursion
  <2>3. QED
    BY <2>2 DEF c1
<1>7. ASSUME NEW n \in 0 .. N PROVE f[n] = IF n = 0 THEN {c0} ELSE Next1(f[n - 1], n)
  <2>1. f[n] = IF n = 0 THEN {c0} ELSE g[n][f[n - 1]]
    BY <1>6, Zenon DEF Follows
  <2>2. n # 0 => f[n - 1] \in V
    BY <1>1
  <2>3. QED
    BY <2>1, <2>2, <1>5
<1>8. Eq(f)
  BY <1>7
<1>9. a = CHOOSE h : Eq(h)
  BY Zenon DEF Afters, Moves, Next1
<1>10. Eq(a)
  <2> HIDE DEF Eq, a
  <2> QED BY <1>8, <1>9, Zenon
<1> HIDE DEF a
<1>11. \A n \in 0 .. N : a[n] = IF n = 0 THEN {c0} ELSE Next1(a[n - 1], n)
  BY <1>10
<1> DEFINE S == {n \in 0 .. N : a[n] \in V}
<1>12. 0 \in S
  <2>1. 0 \in 0 .. N
    BY <1>1
  <2>2. a[0] = {c0}
    BY <2>1, <1>11, Zenon
  <2>3. a[0] \in V
    BY <2>2, <1>2, Zenon
  <2>4. QED
    BY <2>1, <2>3
<1>13. ASSUME NEW n \in 0 .. N, n < N, n \in S PROVE n + 1 \in S
  <2>1. n + 1 \in 0 .. N /\ n + 1 # 0 /\ (n + 1) - 1 = n
    BY <1>1, <1>13
  <2>2. a[n + 1] = Next1(a[n], n + 1)
    BY <2>1, <1>11
  <2>3. QED
    BY <2>1, <2>2, <1>3, <1>13
<1> HIDE DEF S
<1>14. \A n \in 0 .. N : n \in S
  BY <1>1, <1>12, <1>13, Upto
<1>15. a[N] \in V
  <2>1. N \in 0 .. N
    BY <1>1
  <2>2. QED
    BY <2>1, <1>14 DEF S
<1>16. QED
  BY <1>15 DEF V, a

\* A node has its tasks after those of the nodes before it.
LEMMA StartsGrow ==
  ASSUME NEW c \in [Nodes -> Nat], NEW j \in 0 .. N, NEW k \in 0 .. N, j <= k
  PROVE  StartsOf(c)[j] <= StartsOf(c)[k]
<1> DEFINE s == StartsOf(c)
           S == {m \in 0 .. k - j : s[j] <= s[j + m]}
<1>1. c \in Counts /\ N \in Nat
  BY Depth DEF Counts
<1>2. s \in [0 .. N -> Int] /\ \A n \in Nodes : s[n + 1] = s[n] + c[n]
  BY <1>1, StartsDefined
<1> HIDE DEF s
<1>3. k - j \in Nat /\ j \in Nat /\ k \in Nat
  BY <1>1
<1>4. 0 \in S
  BY <1>2, <1>3
<1>5. ASSUME NEW m \in 0 .. k - j, m < k - j, m \in S PROVE m + 1 \in S
  <2>1. j + m \in Nodes /\ (j + m) + 1 = j + (m + 1) /\ j + m \in 0 .. N /\ j + (m + 1) \in 0 .. N
    BY <1>1, <1>3, <1>5 DEF Nodes
  <2>2. s[j + (m + 1)] = s[j + m] + c[j + m] /\ c[j + m] \in Nat /\ s[j + m] \in Int /\ s[j] \in Int
    BY <2>1, <1>2
  <2>3. s[j] <= s[j + (m + 1)]
    BY <2>2, <1>5
  <2>4. QED
    BY <2>3, <1>3, <1>5
<1> HIDE DEF S
<1>6. \A m \in 0 .. k - j : m \in S
  BY <1>3, <1>4, <1>5, Upto
<1>7. k - j \in S
  BY <1>3, <1>6
<1>8. s[j] <= s[j + (k - j)] /\ j + (k - j) = k
  BY <1>3, <1>7 DEF S
<1>9. QED
  BY <1>8 DEF s

\* Refilling by fair counts gives tasks to the nodes that had some.
LEMMA RefillTakesPart ==
  ASSUME NEW map \in Mapping, NEW c, Fair(Contribution(map), c)
  PROVE  Range(Refill(map, c)) = Range(map)
<1> DEFINE c0 == Contribution(map)
           s == StartsOf(c)
           m == Refill(map, c)
           first(i) == CHOOSE n \in Nodes : Holds(s, n, i)
<1>0. N \in Nat /\ N > 0 /\ NumTasks \in Nat
  BY Depth, TasksAreFinite
<1>1. c \in [Nodes -> Nat] /\ (\A n \in Nodes : c[n] = 0 <=> c0[n] = 0) /\ s[N] = NumTasks
  BY ContributionIs DEF Fair
<1>2. c \in Counts
  BY <1>1 DEF Counts
<1>3. s \in [0 .. N -> Int] /\ s[0] = 0 /\ \A n \in Nodes : s[n + 1] = s[n] + c[n]
  BY <1>2, StartsDefined
<1>4. \A j, k \in 0 .. N : j <= k => s[j] <= s[k]
  BY <1>1, StartsGrow
<1>5. m = [i \in TaskIds |-> IF \E n \in Nodes : Holds(s, n, i) THEN first(i) ELSE map[i]]
  BY RefillIs, Zenon
<1> HIDE DEF s, m
<1>6. ASSUME NEW i \in TaskIds PROVE \E n \in Nodes : Holds(s, n, i)
  <2> DEFINE T == {k \in 0 .. N : i < s[k]}
  <2>1. i \in Nat /\ i < NumTasks
    BY <1>0 DEF TaskIds
  <2>2. T \subseteq Nat /\ T # {}
    <3>1. N \in T
      BY <1>0, <1>1, <2>1
    <3>2. QED
      BY <3>1
  <2>3. PICK k \in T : \A j \in T : k <= j
    <3> HIDE DEF T
    <3> QED BY <2>2, Least
  <2>4. k # 0 /\ k \in 0 .. N /\ i < s[k]
    BY <2>1, <1>3
  <2>5. k - 1 \in Nodes /\ k - 1 \in 0 .. N /\ (k - 1) + 1 = k
    BY <2>4, <1>0 DEF Nodes
  <2>6. k - 1 \notin T
    BY <2>3, <2>4, <2>5
  <2>7. s[k - 1] <= i
    BY <2>1, <2>5, <2>6, <1>3
  <2>8. QED
    BY <2>4, <2>5, <2>7 DEF Holds
<1>7. ASSUME NEW i \in TaskIds PROVE m[i] \in Nodes /\ Holds(s, m[i], i)
  <2>1. m[i] = first(i)
    BY <1>5, <1>6
  <2>2. first(i) \in Nodes /\ Holds(s, first(i), i)
    BY <1>6, Zenon
  <2>3. QED
    BY <2>1, <2>2
<1>8. DOMAIN m = TaskIds
  BY <1>5, Zenon
<1>9. \A n \in Nodes : c0[n] # 0 <=> n \in Range(map)
  BY ContributionIs
<1>10. Range(map) \subseteq Nodes
  BY DEF Range, Mapping
<1>11. ASSUME NEW n \in Range(m) PROVE n \in Range(map)
  <2>1. PICK i \in TaskIds : n = m[i]
    BY <1>8 DEF Range
  <2>2. n \in Nodes /\ s[n] <= i /\ i < s[n + 1] /\ s[n + 1] = s[n] + c[n] /\ i \in Nat
    BY <2>1, <1>0, <1>3, <1>7 DEF Holds, TaskIds
  <2>3. n \in 0 .. N /\ s[n] \in Int /\ c[n] \in Nat
    BY <2>2, <1>0, <1>1, <1>3 DEF Nodes
  <2>4. c[n] # 0
    BY <2>2, <2>3
  <2>5. QED
    BY <2>2, <2>4, <1>1, <1>9
<1>12. ASSUME NEW n \in Range(map) PROVE n \in Range(m)
  <2>1. n \in Nodes /\ c[n] # 0 /\ c[n] \in Nat
    BY <1>1, <1>9, <1>10
  <2>2. n \in 0 .. N /\ n + 1 \in 0 .. N /\ 0 \in 0 .. N /\ N \in 0 .. N
    BY <2>1, <1>0 DEF Nodes
  <2>3. s[n + 1] = s[n] + c[n] /\ s[n] \in Int /\ s[n + 1] \in Int
    BY <2>1, <2>2, <1>3
  <2>4. 0 <= s[n] /\ s[n + 1] <= NumTasks /\ s[n] < s[n + 1]
    BY <2>1, <2>2, <2>3, <1>0, <1>1, <1>3, <1>4
  <2>5. s[n] \in TaskIds
    BY <2>3, <2>4, <1>0 DEF TaskIds
  <2> DEFINE k == m[s[n]]
  <2>6. k \in Nodes /\ s[k] <= s[n] /\ s[n] < s[k + 1]
    BY <2>5, <1>7 DEF Holds
  <2> HIDE DEF k
  <2>7. k \in 0 .. N /\ k + 1 \in 0 .. N /\ k \in Int /\ n \in Int
    BY <2>6, <2>2, <1>0 DEF Nodes
  <2>8. ~ (k < n)
    <3> SUFFICES ASSUME k < n PROVE FALSE
      OBVIOUS
    <3>1. s[k + 1] <= s[n]
      BY <2>2, <2>7, <1>4
    <3>2. s[k + 1] \in Int
      BY <2>7, <1>3
    <3>3. QED
      BY <3>1, <3>2, <2>3, <2>6
  <2>9. ~ (k > n)
    <3> SUFFICES ASSUME k > n PROVE FALSE
      OBVIOUS
    <3>1. s[n + 1] <= s[k]
      BY <2>2, <2>7, <1>4
    <3>2. s[k] \in Int
      BY <2>7, <1>3
    <3>3. QED
      BY <3>1, <3>2, <2>3, <2>4, <2>6
  <2>10. k = n
    BY <2>7, <2>8, <2>9
  <2>11. QED
    BY <2>5, <2>10, <1>8 DEF Range, k
<1>13. QED
  BY <1>11, <1>12 DEF m

\* Rebalancing keeps the nodes that take part.
LEMMA RebalancedTakesPart ==
  ASSUME NEW map \in Mapping, NEW m \in Rebalanced(map)
  PROVE  Range(m) = Range(map)
<1>1. m = map \/ \E c \in Afters(Contribution(map))[N] : m = Refill(map, c)
  BY RebalancedIs, Zenon
<1>2. \A c \in Afters(Contribution(map))[N] : Fair(Contribution(map), c)
  BY ContributionIs, AftersAreFair
<1>3. QED
  BY <1>1, <1>2, RefillTakesPart

\* What SameNodesTakePart says of a step.
Updates == \A o \in ops' \ ops : o.op = "update" => Range(o.map) = Range(task_distribution_mapping(tree))

\* Of all steps only update_policy adds an update, and it rebalances.
LEMMA UpdatesKeepNodes == ServiceInv /\ Next => Updates
<1> SUFFICES ASSUME ServiceInv, Next PROVE Updates
  OBVIOUS
<1>0. value # "random" => wanted \in Mapping /\ tree = toDecisionTree(wanted)
  BY DEF ServiceInv
<1>1. ASSUME NEW op, op.op # "update", ops' \subseteq ops \cup {op} PROVE Updates
  BY <1>1 DEF Updates
<1>2. ASSUME ops' \subseteq ops PROVE Updates
  BY <1>2 DEF Updates
<1>10. ASSUME NEW v \in PolicyNames, set_policy_nodes(v) PROVE Updates
  BY <1>1, <1>10 DEF set_policy_nodes, Begin
<1>11. ASSUME NEW n \in Toggled, toggle_node_active(n) PROVE Updates
  BY <1>1, <1>11 DEF toggle_node_active, Begin
<1>13. ASSUME balance PROVE Updates
  BY <1>1, <1>13 DEF balance, Begin
<1>12. ASSUME NEW o, NEW op, op.op # "update", Continue(o, op) PROVE Updates
  BY <1>1, <1>12 DEF Continue
<1>14. ASSUME NEW o \in ops, NEW cmp \in {"less", "other", "more"}, tune(o, cmp) PROVE Updates
  BY <1>12, <1>14 DEF tune
<1>25. ASSUME NEW o \in ops, balance_uneven(o) PROVE Updates
  BY <1>12, <1>25 DEF balance_uneven
<1>26. ASSUME NEW o \in ops, balance_enforce(o) PROVE Updates
  BY <1>12, <1>26 DEF balance_enforce
<1>27. ASSUME NEW o \in ops, toggle_node_ends(o) PROVE Updates
  BY <1>2, <1>27 DEF toggle_node_ends, End
<1>28. ASSUME Ended PROVE Updates
  BY <1>2, <1>28 DEF Ended, vars
<1>15. ASSUME NEW map \in InoMappings, balance_ino(map) PROVE Updates
  BY <1>1, <1>15 DEF balance_ino, Begin
<1>16. ASSUME NEW o \in ops, set_policy(o) PROVE Updates
  BY <1>2, <1>16 DEF set_policy, End
<1>17. ASSUME NEW o \in ops, toggle_node(o) PROVE Updates
  BY <1>2, <1>17 DEF toggle_node, End
<1>18. ASSUME NEW o \in ops, update_policy(o) PROVE Updates
  <2>1. value \in {"dynamic", "tuned"}
    BY <1>18 DEF update_policy
  <2>2. PICK map \in Rebalanced(task_distribution_mapping(tree)) :
             ops' = (ops \ {o}) \cup {[op |-> "update", mask |-> o.mask, freq |-> o.freq, map |-> map]}
    BY <1>18 DEF update_policy, Continue
  <2>3. task_distribution_mapping(tree) \in Mapping
    BY <1>0, <2>1, ReadBack
  <2>4. Range(map) = Range(task_distribution_mapping(tree))
    BY <2>3, RebalancedTakesPart
  <2> DEFINE op == [op |-> "update", mask |-> o.mask, freq |-> o.freq, map |-> map]
  <2>5. op.map = map /\ ops' \subseteq ops \cup {op}
    BY <2>2
  <2> HIDE DEF op
  <2>6. QED
    BY <2>4, <2>5 DEF Updates
<1>19. ASSUME NEW o \in ops, update_policy_ignored(o) PROVE Updates
  BY <1>2, <1>19 DEF update_policy_ignored, End
<1>20. ASSUME NEW o \in ops, update_policy_nodes(o) PROVE Updates
  <2> DEFINE op == [op |-> "updated", map |-> o.map]
  <2>1. op.op # "update" /\ ops' \subseteq ops \cup {op}
    BY <1>20 DEF update_policy_nodes, Continue
  <2> HIDE DEF op
  <2>2. QED
    BY <2>1, <1>1
<1>21. ASSUME NEW o \in ops, update_policy_store(o) PROVE Updates
  BY <1>2, <1>21 DEF update_policy_store, End
<1>22. ASSUME NEW o \in ops, apply_new_mapping(o) PROVE Updates
  BY <1>2, <1>22 DEF apply_new_mapping, End
<1>23. QED
  BY <1>10, <1>11, <1>13, <1>14, <1>15, <1>16, <1>17, <1>18, <1>19, <1>20, <1>21, <1>22,
     <1>25, <1>26, <1>27, <1>28, Zenon DEF Next

\* Rebalancing, in create_rebalanced, moves tasks between neighbours only, never takes the
\* last one of a locality nor gives one to a locality that had none, for every number of
\* localities and tasks and every outcome of the comparisons of task times.
THEOREM RebalancingKeepsNodes == Spec => SameNodesTakePart
<1>1. ServiceInv /\ [Next]_vars => [Updates]_vars
  BY UpdatesKeepNodes
<1>2. QED
  BY <1>1, ServiceInvariant, PTL DEF Spec, SameNodesTakePart, Updates
-----------------------------------------------------------------------------
(***************************************************************************)
(* Virtual nodes.                                                          *)
(***************************************************************************)

\* Max exists.
LEMMA Greatest ==
  ASSUME NEW n \in Nat, NEW S, S \subseteq 0 .. n, S # {}
  PROVE  Max(S) \in S /\ \A x \in S : x <= Max(S)
<1> DEFINE T == {y \in Nat : \E x \in S : y = n - x}
<1>1. T \subseteq Nat /\ T # {}
  <2>1. PICK x \in S : TRUE
    OBVIOUS
  <2>2. n - x \in T
    OBVIOUS
  <2>3. QED
    BY <2>2
<1>2. PICK y \in T : \A z \in T : y <= z
  <2> HIDE DEF T
  <2> QED BY <1>1, Least
<1>3. PICK x \in S : y = n - x
  OBVIOUS
<1>4. \A z \in S : x >= z
  <2> TAKE z \in S
  <2>1. n - z \in T
    OBVIOUS
  <2>2. QED
    BY <2>1, <1>2, <1>3
<1>5. \E u \in S : \A z \in S : u >= z
  BY <1>4
<1>6. Max(S) \in S /\ \A z \in S : Max(S) >= z
  BY <1>5, Zenon DEF Max
<1>7. QED
  BY <1>6

\* Multiples and remainders.
LEMMA Multiple == ASSUME NEW b \in Nat \ {0}, NEW k \in Nat PROVE (k * b) % b = 0
OBVIOUS

\* A multiple of 2b is one of b.
LEMMA MultipleOfHalf ==
  ASSUME NEW b \in Nat \ {0}, NEW r \in Nat, r % (2 * b) = 0
  PROVE  r % b = 0
<1>1. PICK q \in Nat : r = q * (2 * b)
  <2> DEFINE c == 2 * b
  <2>1. c \in Nat \ {0} /\ r % c = 0
    OBVIOUS
  <2> HIDE DEF c
  <2>2. r = c * (r \div c) + (r % c) /\ r \div c \in Nat
    BY <2>1
  <2>3. r = (r \div c) * c
    BY <2>1, <2>2
  <2>4. QED
    BY <2>2, <2>3 DEF c
<1>2. r = (2 * q) * b /\ 2 * q \in Nat
  BY <1>1
<1>3. QED
  BY <1>2, Multiple

\* A multiple of a power of two is one of the smaller powers.
LEMMA MultipleOfPower ==
  ASSUME NEW r \in Nat, NEW n \in Nat, NEW m \in 0 .. n, r % 2^n = 0
  PROVE  r % 2^m = 0
<1> DEFINE S == {j \in 0 .. n - m : r % 2^(n - j) = 0}
<1>0. n - m \in Nat /\ m \in Nat
  OBVIOUS
<1>1. 0 \in S
  <2>1. n - 0 = n
    OBVIOUS
  <2>2. QED
    BY <2>1, <1>0
<1>2. ASSUME NEW j \in 0 .. n - m, j < n - m, j \in S PROVE j + 1 \in S
  <2>1. n - j \in Nat /\ n - j # 0 /\ (n - j) - 1 = n - (j + 1) /\ n - (j + 1) \in Nat
    BY <1>0, <1>2
  <2>2. 2^(n - j) = 2 * 2^((n - j) - 1)
    BY <2>1, Powers
  <2>3. 2^(n - (j + 1)) \in Nat /\ 2^(n - (j + 1)) > n - (j + 1)
    BY <2>1, Powers
  <2> DEFINE b == 2^(n - (j + 1))
  <2>4. b \in Nat \ {0}
    BY <2>1, <2>3
  <2>5. r % (2 * b) = 0
    BY <2>1, <2>2, <1>2
  <2> HIDE DEF b
  <2>6. r % b = 0
    BY <2>4, <2>5, MultipleOfHalf
  <2>7. QED
    BY <2>6, <1>0, <1>2 DEF b
<1> HIDE DEF S
<1>3. \A j \in 0 .. n - m : j \in S
  BY <1>0, <1>1, <1>2, Upto
<1>4. n - m \in S
  BY <1>0, <1>3
<1>5. n - (n - m) = m
  OBVIOUS
<1>6. QED
  BY <1>4, <1>5 DEF S

\* TrailingZeros exists.
LEMMA TrailingZerosAre ==
  ASSUME NEW r \in Nat \ {0}
  PROVE  H!TrailingZeros(r) \in Nat /\ r % 2^(H!TrailingZeros(r) + 1) # 0
<1> DEFINE T == {z \in Nat : r % 2^(z + 1) # 0}
           Fits(z) == r % 2^z = 0 /\ r % 2^(z + 1) # 0
<1>1. r \in T
  <2>1. 2^(r + 1) \in Nat /\ 2^(r + 1) > r + 1
    BY Powers
  <2>2. \A b \in Nat : b > r => r % b = r
    OBVIOUS
  <2>3. r % 2^(r + 1) = r
    BY <2>1, <2>2
  <2>4. QED
    BY <2>3
<1>2. PICK z \in T : \A y \in T : z <= y
  <2>1. T \subseteq Nat /\ T # {}
    BY <1>1
  <2> HIDE DEF T
  <2> QED BY <2>1, Least
<1>3. z \in 0 .. r
  BY <1>1, <1>2
<1>4. Fits(z)
  <2>1. CASE z = 0
    <3>1. 2^0 = 1
      BY Powers
    <3>2. r % 1 = 0
      OBVIOUS
    <3>3. QED
      BY <3>1, <3>2, <2>1
  <2>2. CASE z # 0
    <3>1. z - 1 \in Nat /\ (z - 1) + 1 = z /\ z - 1 < z
      BY <2>2
    <3>2. z - 1 \notin T
      <4> HIDE DEF T
      <4> QED BY <3>1, <1>2, <1>3
    <3>3. r % 2^((z - 1) + 1) = 0
      BY <3>1, <3>2
    <3>4. QED
      BY <3>1, <3>3
  <2>3. QED
    BY <2>1, <2>2
<1>5. H!TrailingZeros(r) = CHOOSE y \in 0 .. r : Fits(y)
  BY Zenon DEF H!TrailingZeros
<1> HIDE DEF Fits
<1>6. H!TrailingZeros(r) \in 0 .. r /\ Fits(H!TrailingZeros(r))
  BY <1>3, <1>4, <1>5, Zenon
<1>7. QED
  BY <1>6 DEF Fits

\* A locality hosts the virtual nodes of all layers its rank is a multiple for.
LEMMA VirtualNodesAre ==
  ASSUME NEW r \in Nodes, NEW l \in 0 .. MaxDepth, r % 2^l = 0
  PROVE  <<r, l>> \in VirtualNodes
<1>1. r \in Nat /\ N \in Nat /\ MaxDepth \in Nat /\ l \in Nat
  BY Depth DEF Nodes
<1>2. l \in 0 .. H!getLayersOn(r, N) - 1
  <2>1. CASE r = 0
    <3>1. H!getLayersOn(r, N) = 1 + MaxDepth
      BY <2>1 DEF H!getLayersOn, MaxDepth
    <3>2. QED
      BY <3>1, <1>1
  <2>2. CASE r # 0
    <3> DEFINE z == H!TrailingZeros(r)
    <3>1. H!getLayersOn(r, N) = 1 + z
      BY <2>2 DEF H!getLayersOn
    <3>2. z \in Nat /\ r % 2^(z + 1) # 0
      BY <1>1, <2>2, TrailingZerosAre
    <3> HIDE DEF z
    <3>3. ~ (l > z)
      <4> SUFFICES ASSUME l > z PROVE FALSE
        OBVIOUS
      <4>1. z + 1 \in 0 .. l
        BY <3>2, <1>1
      <4>2. r % 2^(z + 1) = 0
        BY <4>1, <1>1, MultipleOfPower
      <4>3. QED
        BY <4>2, <3>2
    <3>4. QED
      BY <3>1, <3>2, <3>3, <1>1
  <2>3. QED
    BY <2>1, <2>2
<1>3. r \in 0 .. N - 1
  BY DEF Nodes
<1>4. QED
  BY <1>2, <1>3 DEF VirtualNodes, H!Addresses

\* The localities of a visit are those under one virtual node.
Aligned(v) == \E k \in Nat : v.lo = k * 2^(MaxDepth - v.depth)

\* A turn leads to the localities under a child ...
LEMMA AlignedLater ==
  ASSUME NEW map \in Mapping, NEW n \in Nat, NEW v, VisitOK(v, n), Aligned(v), NEW turn \in {0, 1}
  PROVE  Aligned(Later(map, v, turn))
<1>0. v \in Visit /\ Place(v) /\ Charge(v, n) /\ v.depth \in Nat /\ v.depth <= MaxDepth /\ MaxDepth \in Nat
  BY Depth DEF VisitOK, Visit, Place
<1>1. CASE v.depth = MaxDepth
  <2>1. Later(map, v, turn) = v
    BY <1>0, <1>1 DEF Later
  <2>2. QED
    BY <2>1
<1>2. CASE v.depth # MaxDepth
  <2> DEFINE w == Later(map, v, turn)
             d == Decision(map, v)
             b == Half(v)
  <2>1. v.depth < MaxDepth /\ ~ (v.depth >= MaxDepth)
    BY <1>0, <1>2
  <2>2. w = NextVisit(map, v, turn)
    BY <2>1 DEF Later
  <2>3. w.depth = (IF d = "stay" THEN v.depth ELSE v.depth + 1) /\ w.lo = (IF d = "right" THEN Center(v) ELSE v.lo)
    BY <2>2, NextVisitIs
  <2> HIDE DEF w, d
  <2>4. b \in Nat \ {0} /\ Center(v) = v.lo + b
    BY <1>0, <2>1, Centers
  <2>5. 2^(MaxDepth - v.depth) = 2 * b
    <3>1. MaxDepth - v.depth \in Nat /\ MaxDepth - v.depth # 0 /\ (MaxDepth - v.depth) - 1 = MaxDepth - (v.depth + 1)
      BY <1>0, <2>1
    <3>2. 2^(MaxDepth - v.depth) = 2 * 2^((MaxDepth - v.depth) - 1)
      BY <3>1, Powers
    <3>3. QED
      BY <3>1, <3>2 DEF Half
  <2>6. PICK k \in Nat : v.lo = k * (2 * b)
    BY <2>5 DEF Aligned
  <2>7. CASE d = "stay"
    BY <2>3, <2>7 DEF Aligned, w
  <2>8. CASE d # "stay"
    <3>1. 2^(MaxDepth - w.depth) = b
      BY <2>3, <2>8 DEF Half
    <3> HIDE DEF b
    <3>2. CASE d = "right"
      <4>1. w.lo = (2 * k + 1) * b
        BY <2>3, <2>4, <2>6, <3>2
      <4>2. QED
        BY <3>1, <4>1 DEF Aligned, w
    <3>3. CASE d # "right"
      <4>1. w.lo = (2 * k) * b
        BY <2>3, <2>4, <2>6, <3>3
      <4>2. QED
        BY <3>1, <4>1 DEF Aligned, w
    <3>4. QED
      BY <3>2, <3>3
  <2>9. QED
    BY <2>7, <2>8
<1>3. QED
  BY <1>1, <1>2

\* ... so that all visits are at virtual nodes.
LEMMA AllAligned ==
  ASSUME NEW map \in Mapping
  PROVE  \A p \in Paths : Aligned(Visits(map)[p])
<1> DEFINE f == Visits(map)
           S == {n \in 0 .. 2 * Granularity : \A p \in Paths : Len(p) = n => Aligned(f[p])}
<1>0. 2 * Granularity \in Nat
  BY Depth
<1>1. 0 \in S
  <2> SUFFICES ASSUME NEW p \in Paths, Len(p) = 0 PROVE Aligned(f[p])
    BY <1>0
  <2>1. f[p] = FirstVisit
    BY VisitStep, FrontOfPath
  <2>2. FirstVisit.lo = 0 /\ FirstVisit.depth = 0
    BY DEF FirstVisit
  <2>3. 2^(MaxDepth - 0) \in Nat
    BY Depth, Powers
  <2>4. 0 = 0 * 2^(MaxDepth - 0)
    BY <2>3
  <2>5. QED
    BY <2>1, <2>2, <2>4 DEF Aligned
<1>2. ASSUME NEW n \in 0 .. 2 * Granularity, n < 2 * Granularity, n \in S PROVE n + 1 \in S
  <2> SUFFICES ASSUME NEW p \in Paths, Len(p) = n + 1 PROVE Aligned(f[p])
    BY <1>0, <1>2
  <2>1. p # <<>> /\ Front(p) \in Paths /\ Len(Front(p)) = n /\ Last(p) \in {0, 1}
    BY FrontOfPath
  <2>2. Aligned(f[Front(p)]) /\ VisitOK(f[Front(p)], n)
    BY <1>2, <2>1, AllVisitsOK
  <2>3. f[p] = Later(map, f[Front(p)], Last(p))
    BY <2>1, VisitStep
  <2> HIDE DEF f, S
  <2>4. QED
    BY <2>1, <2>2, <2>3, AlignedLater
<1> HIDE DEF f, S
<1>3. \A n \in 0 .. 2 * Granularity : n \in S
  BY <1>0, <1>1, <1>2, Upto
<1>4. QED
  BY <1>3, PathLength DEF S, f

\* Targets are virtual nodes that exist, with any number of localities.
LEMMA TargetsExist ==
  ASSUME NEW map \in Mapping, NEW p \in Paths, NEW n \in 0 .. Len(p)
  PROVE  Targets(toDecisionTree(map), p)[n] \in VirtualNodes
<1> DEFINE q == SubSeq(p, 1, n)
           v == Visits(map)[q]
           w == Later(map, v, 0)
<1>1. q \in Paths /\ Len(q) = n /\ n \in Nat
  BY Prefix, PathLength
<1>2. VisitOK(v, n) /\ Aligned(v)
  BY <1>1, AllVisitsOK, AllAligned
<1>3. VisitOK(w, n + 1) /\ Aligned(w)
  <2> HIDE DEF v
  <2> QED BY <1>1, <1>2, LaterOK, AlignedLater
<1>4. Targets(toDecisionTree(map), p)[n] = <<w.lo, MaxDepth - w.depth>>
  BY TargetsAre DEF After
<1> HIDE DEF w
<1>5. w.depth \in Nat /\ w.depth <= MaxDepth /\ MaxDepth \in Nat /\ w.lo \in Nodes
  BY <1>3, Depth DEF VisitOK, Visit, Place
<1> DEFINE l == MaxDepth - w.depth
<1>6. l \in 0 .. MaxDepth /\ l \in Nat
  BY <1>5
<1>7. w.lo % 2^l = 0
  <2>1. PICK k \in Nat : w.lo = k * 2^l
    BY <1>3 DEF Aligned
  <2>2. 2^l \in Nat \ {0}
    BY <1>6, Powers
  <2> DEFINE b == 2^l
  <2> HIDE DEF b
  <2>3. (k * b) % b = 0
    BY <2>2, Multiple DEF b
  <2>4. QED
    BY <2>1, <2>3 DEF b
<1> HIDE DEF l
<1>8. <<w.lo, l>> \in VirtualNodes
  BY <1>5, <1>6, <1>7, VirtualNodesAre
<1>9. QED
  BY <1>4, <1>8 DEF l
-----------------------------------------------------------------------------
(***************************************************************************)
(* The hops of a task.                                                     *)
(***************************************************************************)

\* The ways of one path through one tree.
WayStep(t, p, a) == Move(a, decide(t, a, p))
\* The virtual nodes that are the target of a path or of one above it (is_involved).
Targeted(t, p, a) == a = Root \/ \E n \in 0 .. Len(p) : a = Targets(t, p)[n]

\* A move is to a child or none.
LEMMA MoveStays ==
  ASSUME NEW a \in Address, ~ H!isLeaf(a), NEW d
  PROVE  Move(a, d) = a \/ (Move(a, d) # a /\ Move(a, d)[2] = a[2] - 1)
<1>1. a[1] \in Int /\ a[2] \in Nat /\ a = <<a[1], a[2]>>
  BY DEF Address
<1>2. CASE d = "left"
  <2>1. Move(a, d) = <<a[1], a[2] - 1>>
    BY <1>2, MoveIs
  <2>2. QED
    BY <1>1, <2>1
<1>3. CASE d = "right"
  <2>1. Move(a, d) = <<a[1] + 2^(a[2] - 1), a[2] - 1>>
    BY <1>3, MoveIs
  <2>2. QED
    BY <1>1, <2>1
<1>4. CASE d \notin {"left", "right"}
  BY <1>4, MoveIs
<1>5. QED
  BY <1>2, <1>3, <1>4

\* The target of a path follows from the one of the path above it.
LEMMA TargetNext ==
  ASSUME NEW t, NEW p \in Paths, NEW n \in 0 .. Len(p), NEW a, a = IF n = 0 THEN Root ELSE Targets(t, p)[n - 1]
  PROVE  /\ Targets(t, p)[n] \in Address /\ a \in Address
         /\ H!isLeaf(a) => Targets(t, p)[n] = a
         /\ ~ H!isLeaf(a) => Targets(t, p)[n] = Move(a, get(t, SubSeq(p, 1, n)))
         /\ Targets(t, p)[n] = a \/ Targets(t, p)[n][2] = a[2] - 1
         /\ a[2] \in Nat
<1> DEFINE T == Targets(t, p)
<1>1. Len(p) \in Nat
  BY PathLength
<1>2. T \in [0 .. Len(p) -> Address] /\ T[n] = TargetAt(t, p, T, n)
  BY <1>1, TargetsDefined
<1>3. Root \in Address
  BY Depth DEF Address
<1>4. n # 0 => n - 1 \in 0 .. Len(p)
  BY <1>1
<1>5. a \in Address
  BY <1>2, <1>3, <1>4
<1>6. T[n] = TargetStep(t, p, a, n)
  BY <1>2, Zenon DEF TargetAt
<1>7. T[n] = IF H!isLeaf(a) THEN a ELSE Move(a, get(t, SubSeq(p, 1, n)))
  BY <1>6, Zenon DEF TargetStep
<1>8. T[n] \in Address
  BY <1>2
<1>9. a[2] \in Nat
  BY <1>5 DEF Address
<1> HIDE DEF T
<1>10. T[n] = a \/ T[n][2] = a[2] - 1
  <2>1. CASE H!isLeaf(a)
    BY <2>1, <1>7
  <2>2. CASE ~ H!isLeaf(a)
    <3>1. T[n] = Move(a, get(t, SubSeq(p, 1, n)))
      BY <2>2, <1>7
    <3>2. QED
      BY <2>2, <3>1, <1>5, MoveStays
  <2>3. QED
    BY <2>1, <2>2
<1>11. QED
  BY <1>5, <1>7, <1>8, <1>9, <1>10, Zenon DEF T

\* Targets go down, and stay once they are a leaf.
LEMMA TargetsDescend ==
  ASSUME NEW t, NEW p \in Paths, NEW m \in 0 .. Len(p), NEW n \in 0 .. Len(p), m <= n
  PROVE  /\ Targets(t, p)[n] = Targets(t, p)[m] \/ Targets(t, p)[n][2] < Targets(t, p)[m][2]
         /\ H!isLeaf(Targets(t, p)[m]) => Targets(t, p)[n] = Targets(t, p)[m]
<1> DEFINE T == Targets(t, p)
           Below(x, a) == x \in Address /\ (x = a \/ x[2] < a[2]) /\ (H!isLeaf(a) => x = a)
           S == {k \in 0 .. n - m : Below(T[m + k], T[m])}
<1>0. Len(p) \in Nat /\ m \in Nat /\ n \in Nat /\ n - m \in Nat
  BY PathLength
<1>1. T[m] \in Address /\ T[m][2] \in Nat
  <2>1. T \in [0 .. Len(p) -> Address]
    BY <1>0, TargetsDefined
  <2> HIDE DEF T
  <2>2. T[m] \in Address
    BY <2>1
  <2>3. QED
    BY <2>2 DEF Address
<1> HIDE DEF T
<1>2. 0 \in S
  <2>1. m + 0 = m
    BY <1>0
  <2>2. QED
    BY <2>1, <1>0, <1>1
<1>3. ASSUME NEW k \in 0 .. n - m, k < n - m, k \in S PROVE k + 1 \in S
  <2>1. m + k + 1 \in 0 .. Len(p) /\ m + (k + 1) = m + k + 1 /\ m + k + 1 # 0 /\ (m + k + 1) - 1 = m + k
    BY <1>0, <1>3
  <2> DEFINE a == T[m + k]
             x == T[m + k + 1]
  <2>2. /\ x \in Address /\ a \in Address
        /\ H!isLeaf(a) => x = a
        /\ x = a \/ x[2] = a[2] - 1
        /\ a[2] \in Nat
    BY <2>1, TargetNext DEF T
  <2>3. Below(a, T[m])
    BY <1>3
  <2> HIDE DEF a, x
  <2>4. Below(x, T[m])
    BY <2>2, <2>3, <1>1
  <2>5. k + 1 \in 0 .. n - m
    BY <1>0, <1>3
  <2>6. QED
    BY <2>1, <2>4, <2>5 DEF x
<1> HIDE DEF S
<1>4. n - m \in S
  <2>1. \A k \in 0 .. n - m : k \in S
    BY <1>0, <1>2, <1>3, Upto
  <2>2. QED
    BY <2>1, <1>0
<1>5. m + (n - m) = n
  BY <1>0
<1>6. QED
  BY <1>4, <1>5 DEF S, T

\* A hop leads from one target to another, one layer below, until it is the last.
LEMMA OneHop ==
  ASSUME NEW t, NEW p \in Paths, NEW a, Targeted(t, p, a)
  PROVE  LET last == Targets(t, p)[Len(p)]
             b == WayStep(t, p, a)
         IN  /\ a \in Address /\ Targeted(t, p, b) /\ (H!isLeaf(a) => a = last)
             /\ b = last \/ b[2] = a[2] - 1
             /\ a = last => b = last
<1> DEFINE T == Targets(t, p)
           last == T[Len(p)]
           b == WayStep(t, p, a)
           here == {n \in 1 .. Len(p) : T[n - 1] = a}
<1>0. Len(p) \in Nat /\ Root \in Address /\ T \in [0 .. Len(p) -> Address] /\ Len(p) \in 0 .. Len(p)
  BY PathLength, TargetsDefined, Depth DEF Address
<1>1. a \in Address
  BY <1>0 DEF Targeted
<1>2. a[2] \in Nat
  BY <1>1 DEF Address
<1>3. \A m, n \in 0 .. Len(p) : m <= n => /\ T[n] = T[m] \/ T[n][2] < T[m][2]
                                          /\ H!isLeaf(T[m]) => T[n] = T[m]
  BY TargetsDescend
<1>4. /\ H!isLeaf(Root) => T[0] = Root
      /\ ~ H!isLeaf(Root) => T[0] = Move(Root, get(t, SubSeq(p, 1, 0)))
      /\ T[0] = Root \/ T[0][2] = Root[2] - 1
  <2>1. 0 \in 0 .. Len(p)
    BY <1>0
  <2>2. QED
    BY <2>1, TargetNext
<1>5. ASSUME NEW m \in 1 .. Len(p), T[m - 1] = a
      PROVE  /\ ~ H!isLeaf(a) => T[m] = Move(a, get(t, SubSeq(p, 1, m)))
             /\ T[m] = a \/ T[m][2] = a[2] - 1
  <2>1. m \in 0 .. Len(p) /\ m # 0
    BY <1>0
  <2>2. QED
    BY <2>1, <1>5, TargetNext
<1>6. b = Move(a, decide(t, a, p))
  BY DEF WayStep
<1> HIDE DEF b
<1>7. CASE H!isLeaf(a)
  <2>1. decide(t, a, p) = "stay"
    BY <1>7, Zenon DEF decide
  <2>2. b = a
    BY <2>1, <1>6 DEF Move
  <2>3. a = last
    <3>1. CASE a = Root
      <4>1. T[0] = a /\ 0 \in 0 .. Len(p) /\ 0 <= Len(p)
        BY <3>1, <1>0, <1>4, <1>7
      <4>2. QED
        BY <4>1, <1>0, <1>3, <1>7
    <3>2. CASE \E n \in 0 .. Len(p) : a = T[n]
      <4>1. PICK n \in 0 .. Len(p) : a = T[n]
        BY <3>2
      <4>2. n <= Len(p)
        BY <1>0
      <4>3. QED
        BY <4>1, <4>2, <1>0, <1>3, <1>7
    <3>3. QED
      BY <3>1, <3>2 DEF Targeted
  <2>4. QED
    BY <2>2, <2>3, <1>1 DEF b
<1>8. CASE ~ H!isLeaf(a) /\ here # {}
  <2> DEFINE m == Max(here)
  <2>1. here \subseteq 0 .. Len(p)
    BY <1>0
  <2>2. m \in here /\ \A n \in here : n <= m
    <3> HIDE DEF here
    <3> QED BY <2>1, <1>0, <1>8, Greatest
  <2>3. decide(t, a, p) = get(t, SubSeq(p, 1, m))
    <3>1. decide(t, a, p) = CASE H!isLeaf(a) -> "stay"
                              [] ~H!isLeaf(a) /\ here # {} -> get(t, SubSeq(p, 1, Max(here)))
                              [] ~H!isLeaf(a) /\ here = {} -> IF a = Root THEN get(t, <<>>) ELSE "stay"
      BY Zenon DEF decide
    <3> HIDE DEF here
    <3>2. QED
      BY <3>1, <1>8
  <2> HIDE DEF m
  <2>4. m \in 1 .. Len(p) /\ T[m - 1] = a /\ \A n \in 1 .. Len(p) : T[n - 1] = a => n <= m
    BY <2>2
  <2>5. T[m] = b /\ (T[m] = a \/ T[m][2] = a[2] - 1)
    BY <2>3, <2>4, <1>5, <1>6, <1>8
  <2>6. m \in 0 .. Len(p) /\ m - 1 \in 0 .. Len(p) /\ m <= Len(p)
    BY <2>4, <1>0
  <2>7. CASE m = Len(p)
    BY <2>5, <2>6, <2>7, <1>1, <1>8, Zenon DEF Targeted, b
  <2>8. CASE m # Len(p)
    <3>1. m + 1 \in 1 .. Len(p) /\ (m + 1) - 1 = m /\ ~ (m + 1 <= m)
      BY <2>6, <2>8, <1>0
    <3>2. T[m] # a
      BY <2>4, <3>1
    <3>3. b[2] = a[2] - 1
      BY <3>2, <2>5
    <3>4. a # last
      <4>1. last = T[m] \/ last[2] < T[m][2]
        BY <2>6, <1>0, <1>3
      <4>2. last[2] < a[2]
        <5>1. T[m][2] = a[2] - 1
          BY <3>2, <2>5
        <5>2. last \in Address
          BY <1>0
        <5>3. last[2] \in Nat
          BY <5>2 DEF Address
        <5> HIDE DEF last
        <5>4. QED
          BY <4>1, <5>1, <5>3, <1>2
      <4>3. QED
        BY <4>2, <1>2
    <3>5. Targeted(t, p, b)
      BY <2>5, <2>6, Zenon DEF Targeted
    <3>6. QED
      BY <3>3, <3>4, <3>5, <1>1, <1>8 DEF b
  <2>9. QED
    BY <2>7, <2>8
<1>9. CASE ~ H!isLeaf(a) /\ here = {}
  <2>1. decide(t, a, p) = IF a = Root THEN get(t, <<>>) ELSE "stay"
    <3>1. decide(t, a, p) = CASE H!isLeaf(a) -> "stay"
                              [] ~H!isLeaf(a) /\ here # {} -> get(t, SubSeq(p, 1, Max(here)))
                              [] ~H!isLeaf(a) /\ here = {} -> IF a = Root THEN get(t, <<>>) ELSE "stay"
      BY Zenon DEF decide
    <3> HIDE DEF here
    <3>2. QED
      BY <3>1, <1>9
  <2>2. \A n \in 0 .. Len(p) : T[n] = a => n = Len(p)
    <3> SUFFICES ASSUME NEW n \in 0 .. Len(p), T[n] = a, n # Len(p) PROVE FALSE
      OBVIOUS
    <3>1. n + 1 \in 1 .. Len(p) /\ (n + 1) - 1 = n
      BY <1>0
    <3>2. n + 1 \in here
      BY <3>1
    <3>3. QED
      BY <3>2, <1>9
  <2>3. CASE a = Root
    <3>1. SubSeq(p, 1, 0) = <<>>
      <4>1. SubSeq(p, 1, 0) \in Paths /\ Len(SubSeq(p, 1, 0)) = 0
        BY <1>0, Prefix
      <4>2. QED
        BY <4>1, FrontOfPath
    <3>2. b = T[0]
      BY <2>1, <2>3, <3>1, <1>4, <1>6, <1>9
    <3>3. 0 \in 0 .. Len(p) /\ 0 <= Len(p)
      BY <1>0
    <3>4. Targeted(t, p, b)
      BY <3>2, <3>3, Zenon DEF Targeted
    <3>5. CASE Len(p) = 0
      BY <3>2, <3>4, <3>5, <1>1, <1>9 DEF b
    <3>6. CASE Len(p) # 0
      <4>1. T[0] # a
        BY <3>3, <3>6, <2>2
      <4>2. b[2] = a[2] - 1
        BY <4>1, <3>2, <1>4, <2>3
      <4>3. a # last
        <5>1. last = T[0] \/ last[2] < T[0][2]
          BY <3>3, <1>0, <1>3
        <5>2. last \in Address
          BY <1>0
        <5>3. last[2] \in Nat
          BY <5>2 DEF Address
        <5> HIDE DEF last
        <5>4. last[2] < a[2]
          BY <5>1, <5>3, <4>2, <3>2, <1>2
        <5>5. QED
          BY <5>4, <1>2
      <4>4. QED
        BY <4>2, <4>3, <3>4, <1>1, <1>9 DEF b
    <3>7. QED
      BY <3>5, <3>6
  <2>4. CASE a # Root
    <3>1. b = a
      BY <2>1, <2>4, <1>6 DEF Move
    <3>2. a = last
      BY <2>2, <2>4 DEF Targeted
    <3>3. QED
      BY <3>1, <3>2, <1>1, <1>9 DEF b
  <2>5. QED
    BY <2>3, <2>4
<1>10. QED
  BY <1>7, <1>8, <1>9
-----------------------------------------------------------------------------
(***************************************************************************)
(* The ways of tasks.                                                      *)
(***************************************************************************)

\* The ways of k hops, and how the next hop makes the next way.
Ways == {s \in Seq(Address) : s # <<>>}
\* The next hop.
Hop(t, p, s) == Append(s, WayStep(t, p, Last(s)))
WayAt(t, p, f, k) == IF k = 0 THEN <<Root>> ELSE Hop(t, p, f[k - 1])

\* A hop adds one virtual node to the way.
LEMMA HopIs ==
  ASSUME NEW t, NEW p, NEW s \in Ways
  PROVE  /\ Hop(t, p, s) \in Ways /\ Len(Hop(t, p, s)) = Len(s) + 1
         /\ Last(s) = s[Len(s)] /\ Len(s) \in Nat \ {0}
         /\ Last(Hop(t, p, s)) = WayStep(t, p, Last(s))
         /\ \A i \in 1 .. Len(s) : Hop(t, p, s)[i] = s[i]
         /\ Hop(t, p, s)[Len(s) + 1] = WayStep(t, p, Last(s))
<1>1. s \in Seq(Address) /\ s # <<>>
  BY DEF Ways
<1>2. Len(s) \in Nat \ {0} /\ Last(s) = s[Len(s)] /\ Last(s) \in Address
  BY <1>1 DEF Last
<1> DEFINE a == Last(s)
           b == WayStep(t, p, a)
<1>3. b \in Address
  <2> HIDE DEF a
  <2>1. CASE H!isLeaf(a)
    <3>1. decide(t, a, p) = "stay"
      BY <2>1, Zenon DEF decide
    <3>2. QED
      BY <1>2, <3>1 DEF WayStep, Move, a
  <2>2. CASE ~ H!isLeaf(a)
    BY <1>2, <2>2, MoveIs DEF WayStep, a
  <2>3. QED
    BY <2>1, <2>2
<1>4. Hop(t, p, s) = Append(s, b)
  BY DEF Hop
<1> HIDE DEF b
<1>5. Append(s, b) \in Seq(Address) /\ Append(s, b) # <<>> /\ Len(Append(s, b)) = Len(s) + 1
  BY <1>1, <1>3
<1>6. Append(s, b)[Len(s) + 1] = b /\ \A i \in 1 .. Len(s) : Append(s, b)[i] = s[i]
  BY <1>1, <1>3
<1>7. Last(Append(s, b)) = b
  BY <1>5, <1>6 DEF Last
<1>8. QED
  BY <1>2, <1>4, <1>5, <1>6, <1>7 DEF Ways, b

\* After k hops a task is where the path's target is, or k layers below the root.
Arrived(t, p, s, k) ==
  LET last == Targets(t, p)[Len(p)]
  IN  /\ s \in Ways /\ Len(s) = k + 1
      /\ \A i \in 1 .. Len(s) : Targeted(t, p, s[i])
      /\ Last(s) = last \/ Last(s)[2] = MaxDepth - k

\* At the root no hop has been made.
LEMMA ArrivedFirst == ASSUME NEW t, NEW p PROVE Arrived(t, p, <<Root>>, 0)
<1>1. Root \in Address /\ Root[2] = MaxDepth /\ MaxDepth \in Nat
  BY Depth DEF Address
<1>2. <<Root>> \in Ways /\ Len(<<Root>>) = 1 /\ <<Root>>[1] = Root /\ Last(<<Root>>) = Root
  BY <1>1 DEF Ways, Last
<1>3. Targeted(t, p, Root)
  BY DEF Targeted
<1>4. QED
  BY <1>1, <1>2, <1>3 DEF Arrived

\* A hop gets one layer further.
LEMMA ArrivedNext ==
  ASSUME NEW t, NEW p \in Paths, NEW s, NEW k \in Nat, Arrived(t, p, s, k)
  PROVE  Arrived(t, p, Hop(t, p, s), k + 1)
<1> DEFINE last == Targets(t, p)[Len(p)]
           a == Last(s)
           b == WayStep(t, p, a)
           h == Hop(t, p, s)
<1>1. s \in Ways /\ Len(s) = k + 1 /\ (\A i \in 1 .. Len(s) : Targeted(t, p, s[i])) /\ (a = last \/ a[2] = MaxDepth - k)
  BY DEF Arrived
<1>2. /\ h \in Ways /\ Len(h) = Len(s) + 1 /\ a = s[Len(s)] /\ Len(s) \in Nat \ {0}
      /\ Last(h) = b /\ (\A i \in 1 .. Len(s) : h[i] = s[i]) /\ h[Len(s) + 1] = b
  BY <1>1, HopIs
<1>3. Len(s) \in 1 .. Len(s)
  BY <1>2
<1>4. Targeted(t, p, a)
  BY <1>1, <1>2, <1>3
<1> HIDE DEF a, h
<1>5. Targeted(t, p, b) /\ (b = last \/ b[2] = a[2] - 1) /\ (a = last => b = last)
  BY <1>4, OneHop
<1> HIDE DEF b, last
<1>6. b = last \/ b[2] = MaxDepth - (k + 1)
  BY <1>1, <1>5, Depth
<1>7. \A i \in 1 .. Len(h) : Targeted(t, p, h[i])
  <2> TAKE i \in 1 .. Len(h)
  <2>1. CASE i = Len(s) + 1
    BY <2>1, <1>2, <1>5
  <2>2. CASE i # Len(s) + 1
    <3>1. i \in 1 .. Len(s)
      BY <2>2, <1>2
    <3>2. QED
      BY <3>1, <1>1, <1>2
  <2>3. QED
    BY <2>1, <2>2
<1>8. Len(h) = (k + 1) + 1
  BY <1>1, <1>2
<1>9. QED
  BY <1>2, <1>6, <1>7, <1>8 DEF Arrived, h, last

\* The way of a task ends at the target of its path.
LEMMA WayArrives ==
  ASSUME NEW p \in Paths
  PROVE  Arrived(tree, p, Way(p), MaxDepth)
<1> DEFINE m == MaxDepth
           c == <<Root>>
           g == [k \in 0 .. m |-> [s \in Ways |-> Hop(tree, p, s)]]
<1>1. m \in Nat
  BY Depth
<1>2. c \in Ways
  BY ArrivedFirst DEF Arrived
<1>3. \A s \in Ways : Hop(tree, p, s) \in Ways
  BY HopIs
<1>4. g \in [0 .. m -> [Ways -> Ways]]
  BY <1>3
<1>5. \A k \in 0 .. m : \A s \in Ways : g[k][s] = Hop(tree, p, s)
  OBVIOUS
<1> HIDE DEF g, c
<1>6. PICK f \in [0 .. m -> Ways] : Follows(f, m, c, g)
  <2> HIDE DEF m
  <2> QED BY <1>1, <1>2, <1>4, Recursion
<1>7. ASSUME NEW k \in 0 .. m PROVE f[k] = WayAt(tree, p, f, k)
  <2>1. f[k] = IF k = 0 THEN c ELSE g[k][f[k - 1]]
    <3> HIDE DEF m
    <3> QED BY <1>6, Zenon DEF Follows
  <2>2. k # 0 => k - 1 \in 0 .. m /\ f[k - 1] \in Ways
    BY <1>1
  <2>3. QED
    BY <2>1, <2>2, <1>5 DEF WayAt, c
<1>8. f = [k \in 0 .. m |-> WayAt(tree, p, f, k)]
  <2> HIDE DEF m
  <2> QED BY <1>7
<1> DEFINE W == CHOOSE h : h = [k \in 0 .. m |-> WayAt(tree, p, h, k)]
<1>9. W = [k \in 0 .. m |-> WayAt(tree, p, W, k)]
  BY <1>8, Zenon
<1>10. Way(p) = W[m]
  BY Zenon DEF Way, WayAt, Hop, WayStep
<1> HIDE DEF W
<1>11. \A k \in 0 .. m : W[k] = WayAt(tree, p, W, k)
  BY <1>9, Zenon
<1> DEFINE S == {k \in 0 .. m : Arrived(tree, p, W[k], k)}
<1>12. 0 \in S
  <2>1. W[0] = <<Root>>
    BY <1>1, <1>11 DEF WayAt
  <2>2. QED
    BY <2>1, <1>1, ArrivedFirst
<1>13. ASSUME NEW k \in 0 .. m, k < m, k \in S PROVE k + 1 \in S
  <2>1. k + 1 \in 0 .. m /\ k + 1 # 0 /\ (k + 1) - 1 = k /\ k \in Nat
    BY <1>1, <1>13
  <2>2. W[k + 1] = Hop(tree, p, W[k])
    BY <2>1, <1>11 DEF WayAt
  <2>3. Arrived(tree, p, W[k], k)
    BY <1>13
  <2>4. Arrived(tree, p, Hop(tree, p, W[k]), k + 1)
    BY <2>1, <2>3, ArrivedNext
  <2>5. QED
    BY <2>1, <2>2, <2>4
<1> HIDE DEF S
<1>14. m \in S
  <2> HIDE DEF m
  <2>1. \A k \in 0 .. m : k \in S
    BY <1>1, <1>12, <1>13, Upto
  <2>2. QED
    BY <2>1, <1>1
<1>15. QED
  BY <1>10, <1>14 DEF S, m

\* In the tree of a mapping all ways end at the target of their path.
LEMMA TasksArrive == ServiceInv => Routed
<1> SUFFICES ASSUME ServiceInv, IsTree, NEW p \in Paths
             PROVE  /\ Last(Way(p)) = get_target(tree, p)
                    /\ \A a \in Range(Way(p)) : a \in VirtualNodes /\ is_involved(tree, a, p)
  BY DEF Routed
<1>1. wanted \in Mapping /\ tree = toDecisionTree(wanted)
  BY DEF ServiceInv, IsTree
<1> DEFINE w == Way(p)
           a == Last(w)
           last == Targets(tree, p)[Len(p)]
<1>2. Arrived(tree, p, w, MaxDepth)
  BY WayArrives
<1>3. Len(p) \in 0 .. Len(p)
  BY PathLength
<1> HIDE DEF w
<1>4. /\ w \in Ways /\ \A i \in 1 .. Len(w) : Targeted(tree, p, w[i])
      /\ a = last \/ a[2] = MaxDepth - MaxDepth
  BY <1>2 DEF Arrived
<1>5. Len(w) \in 1 .. Len(w) /\ a = w[Len(w)] /\ w \in Seq(Address) /\ DOMAIN w = 1 .. Len(w)
  <2>1. Len(w) \in Nat \ {0} /\ a = w[Len(w)]
    <3>1. w \in Ways
      BY <1>4
    <3>2. QED
      BY <3>1, HopIs, Zenon
  <2>2. w \in Seq(Address)
    BY <1>4 DEF Ways
  <2>3. DOMAIN w = 1 .. Len(w)
    BY <2>2
  <2>4. QED
    BY <2>1, <2>2, <2>3
<1>6. Targeted(tree, p, a)
  BY <1>4, <1>5
<1> HIDE DEF a
<1>7. a = last
  <2>1. H!isLeaf(a) => a = last
    BY <1>6, OneHop
  <2>2. a[2] = 0 => H!isLeaf(a)
    BY DEF H!isLeaf, H!getLayer
  <2>3. MaxDepth - MaxDepth = 0
    BY Depth
  <2>4. QED
    BY <1>4, <2>1, <2>2, <2>3
<1>8. a = get_target(tree, p)
  BY <1>7 DEF get_target
<1>9. ASSUME NEW x \in Range(w) PROVE x \in VirtualNodes /\ is_involved(tree, x, p)
  <2>1. PICK i \in 1 .. Len(w) : x = w[i]
    BY <1>5 DEF Range
  <2>2. Targeted(tree, p, x)
    BY <2>1, <1>4
  <2>3. CASE x = Root
    <3>1. 0 \in Nodes /\ MaxDepth \in 0 .. MaxDepth /\ 0 % 2^MaxDepth = 0
      BY Depth, Powers DEF Nodes
    <3>2. <<0, MaxDepth>> \in VirtualNodes
      BY <3>1, VirtualNodesAre
    <3>3. QED
      BY <2>3, <3>2, Depth DEF is_involved
  <2>4. CASE \E n \in 0 .. Len(p) : x = Targets(tree, p)[n]
    <3>1. PICK n \in 0 .. Len(p) : x = Targets(tree, p)[n]
      BY <2>4
    <3>2. x \in VirtualNodes
      BY <3>1, <1>1, TargetsExist
    <3>3. QED
      BY <3>1, <3>2 DEF is_involved
  <2>5. QED
    BY <2>2, <2>3, <2>4, Zenon DEF Targeted
<1>10. QED
  BY <1>8, <1>9 DEF w, a

\* The local answers of decide (scheduler_component's schedule_down) lead every task from the
\* root to the target of its path, which check_target asserts, over virtual nodes that exist
\* and are involved, for every number of localities, every mapping the policy was made from
\* and every path.
THEOREM TasksAreRouted == Spec => []Routed
BY ServiceInvariant, TasksArrive, PTL
=============================================================================
