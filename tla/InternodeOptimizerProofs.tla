---------------------- MODULE InternodeOptimizerProofs ----------------------
(***************************************************************************)
(* What holds of the inter-node optimizer for every number of nodes, every *)
(* setting of its parameters and every sequence of measurements: a choice  *)
(* that is no exploration is optimal in the sense of Pareto (ParetoOptimal)*)
(* and what decide_schedule distributes is even (Evenly).                  *)
(*                                                                         *)
(* Both are about loops over sequences, FoldLeft here.  A loop is a series *)
(* of states, one after every turn (Folds, FoldSteps), which is the value  *)
(* of FoldLeft because there is no other such function of the sets of      *)
(* indices (FoldsAgree); its invariant is carried along by Upto, or is the *)
(* set of values of the function (FoldExists).                             *)
(***************************************************************************)
EXTENDS InternodeOptimizer, FiniteSetTheorems, WellFoundedInduction, TLAPS

Less == {ss \in Nat \X Nat : ss[1] < ss[2]}

\* A nonempty set of natural numbers has a least one.
LEMMA Least ==
  ASSUME NEW T, T \subseteq Nat, T # {}
  PROVE  \E x \in T : \A y \in T : x <= y
<1>1. IsWellFoundedOn(Less, Nat)
  BY NatLessThanWellFounded, Zenon DEF OpToRel, Less
<1>2. \A x, y \in Nat : y < x => <<y, x>> \in Less
  BY DEF Less
<1>3. \E x \in T : \A y \in T : ~(<<y, x>> \in Less)
  BY <1>1, WFMin, Zenon
<1>4. PICK x \in T : \A y \in T : ~(<<y, x>> \in Less)
  BY <1>3
<1>5. \A y \in T : x <= y
  <2> TAKE y \in T
  <2>1. x \in Nat /\ y \in Nat
    OBVIOUS
  <2>2. ~ (y < x)
    BY <2>1, <1>2, <1>4
  <2> QED BY <2>1, <2>2
<1>6. QED
  BY <1>5

\* For a nonempty set of subsets of a finite set, one without a smaller one in it.
LEMMA Minimal ==
  ASSUME NEW S, IsFiniteSet(S), NEW P, P \subseteq SUBSET S, P # {}
  PROVE  \E s \in P : \A x \in s : s \ {x} \notin P
<1> DEFINE T == {Cardinality(s) : s \in P}
<1>1. \A s \in SUBSET S : Cardinality(s) \in Nat /\ IsFiniteSet(s)
  BY FS_CardinalityType, FS_Subset
<1>2. T \subseteq Nat /\ T # {}
  BY <1>1
<1>3. PICK s \in P : \A r \in P : Cardinality(s) <= Cardinality(r)
  <2>1. PICK k \in T : \A j \in T : k <= j
    <3> HIDE DEF T
    <3> QED BY <1>2, Least
  <2>2. QED
    BY <2>1
<1>4. ASSUME NEW x \in s PROVE s \ {x} \notin P
  <2>1. Cardinality(s \ {x}) = Cardinality(s) - 1 /\ Cardinality(s) \in Nat
    BY <1>1, <1>3, FS_RemoveElement
  <2>2. QED
    BY <1>3, <2>1
<1>5. QED
  BY <1>4

\* A function of the subsets of a finite set that is defined by taking one element after
\* another: s[h] follows from the set without the element that c takes.
Takes(S, c) == \A s \in SUBSET S : s # {} => c[s] \in s
Folds(h, S, c, base, g) ==
  \A s \in SUBSET S : h[s] = IF s = {} THEN base ELSE g[c[s]][h[s \ {c[s]}]]

\* There is such a function ...
LEMMA FoldExists ==
  ASSUME NEW S, IsFiniteSet(S), NEW c, Takes(S, c), NEW V, NEW base \in V, NEW g \in [S -> [V -> V]]
  PROVE  \E h \in [SUBSET S -> V] : Folds(h, S, c, base, g)
<1> DEFINE Good(h, k) == \A s \in SUBSET S : Cardinality(s) <= k => h[s] = IF s = {} THEN base ELSE g[c[s]][h[s \ {c[s]}]]
           T == {k \in Nat : ~ \E h \in [SUBSET S -> V] : Good(h, k)}
<1>0. \A s \in SUBSET S : /\ IsFiniteSet(s) /\ Cardinality(s) \in Nat
                          /\ Cardinality(s) = 0 <=> s = {}
                          /\ s # {} => /\ c[s] \in s /\ Cardinality(s \ {c[s]}) = Cardinality(s) - 1
  BY FS_Subset, FS_CardinalityType, FS_EmptySet, FS_RemoveElement DEF Takes
<1>1. T = {}
  <2> SUFFICES ASSUME T # {} PROVE FALSE
    OBVIOUS
  <2>1. PICK k \in T : \A j \in T : k <= j
    <3>1. T \subseteq Nat
      OBVIOUS
    <3> HIDE DEF T
    <3>2. QED
      BY <3>1, Least
  <2>2. k # 0
    <3> SUFFICES ASSUME k = 0 PROVE FALSE
      OBVIOUS
    <3> DEFINE h == [s \in SUBSET S |-> base]
    <3>1. h \in [SUBSET S -> V]
      OBVIOUS
    <3>2. Good(h, 0)
      <4> SUFFICES ASSUME NEW s \in SUBSET S, Cardinality(s) <= 0 PROVE s = {}
        OBVIOUS
      <4>0. Cardinality(s) \in Nat
        BY <1>0, Zenon
      <4>1. Cardinality(s) = 0
        BY <4>0
      <4>2. QED
        BY <4>1, <1>0
    <3> HIDE DEF h, Good
    <3>3. QED
      BY <3>1, <3>2
  <2>3. k \in Nat /\ k - 1 \in Nat /\ ~ (k <= k - 1)
    BY <2>2
  <2>4. PICK h \in [SUBSET S -> V] : Good(h, k - 1)
    BY <2>1, <2>3
  <2> DEFINE f == [s \in SUBSET S |-> IF s = {} THEN base ELSE g[c[s]][h[s \ {c[s]}]]]
  <2>5. f \in [SUBSET S -> V]
    <3> SUFFICES ASSUME NEW s \in SUBSET S, s # {} PROVE g[c[s]][h[s \ {c[s]}]] \in V
      OBVIOUS
    <3>1. c[s] \in S /\ s \ {c[s]} \in SUBSET S
      BY <1>0
    <3>2. h[s \ {c[s]}] \in V /\ g[c[s]] \in [V -> V]
      BY <3>1
    <3>3. QED
      BY <3>2
  <2>6. ASSUME NEW s \in SUBSET S, Cardinality(s) <= k - 1 PROVE f[s] = h[s]
    BY <2>4, <2>6
  <2>7. ASSUME NEW s \in SUBSET S, Cardinality(s) <= k, s # {} PROVE f[s] = g[c[s]][f[s \ {c[s]}]]
    <3>00. Cardinality(s) \in Nat
      BY <1>0, Zenon
    <3>0. k \in Int /\ Cardinality(s) \in Int
      BY <3>00, <2>3
    <3>1. s \ {c[s]} \in SUBSET S /\ Cardinality(s \ {c[s]}) <= k - 1
      <4>1. s \ {c[s]} \in SUBSET S /\ Cardinality(s \ {c[s]}) = Cardinality(s) - 1
        BY <1>0, <2>7
      <4>2. QED
        BY <4>1, <3>0, <2>7
    <3>2. f[s \ {c[s]}] = h[s \ {c[s]}]
      BY <3>1, <2>6
    <3>3. f[s] = g[c[s]][h[s \ {c[s]}]]
      BY <2>7
    <3>4. QED
      BY <3>2, <3>3
  <2>8. {} \in SUBSET S /\ f[{}] = base
    OBVIOUS
  <2> HIDE DEF f
  <2>9. Good(f, k)
    BY <2>7, <2>8
  <2> HIDE DEF Good
  <2>10. QED
    BY <2>1, <2>5, <2>9
<1>2. Cardinality(S) \in Nat /\ S \in SUBSET S
  BY FS_CardinalityType
<1>3. PICK h \in [SUBSET S -> V] : Good(h, Cardinality(S))
  BY <1>1, <1>2
<1>4. \A s \in SUBSET S : Cardinality(s) <= Cardinality(S)
  BY FS_Subset
<1>5. Folds(h, S, c, base, g)
  BY <1>3, <1>4 DEF Folds
<1>6. QED
  BY <1>5

\* Two functions of the subsets that agree on a set when they agree without the member that
\* c takes are the same.
AgreesOn(h, i, S, c) ==
  /\ h[{}] = i[{}]
  /\ \A s \in SUBSET S : s # {} /\ h[s \ {c[s]}] = i[s \ {c[s]}] => h[s] = i[s]

\* Then they are the same function.
LEMMA FoldsAgree ==
  ASSUME NEW S, IsFiniteSet(S), NEW c, Takes(S, c), NEW h, NEW i, AgreesOn(h, i, S, c)
  PROVE  \A s \in SUBSET S : h[s] = i[s]
<1> DEFINE P == {s \in SUBSET S : h[s] # i[s]}
<1>1. SUFFICES ASSUME P # {} PROVE FALSE
  OBVIOUS
<1>2. PICK s \in P : \A x \in s : s \ {x} \notin P
  <2>1. P \subseteq SUBSET S
    OBVIOUS
  <2> HIDE DEF P
  <2>2. QED
    BY <1>1, <2>1, Minimal
<1>3. s \in SUBSET S /\ s # {} /\ h[s] # i[s]
  BY <1>2 DEF AgreesOn
<1>4. c[s] \in s /\ s \ {c[s]} \in SUBSET S
  BY <1>3 DEF Takes
<1>5. h[s \ {c[s]}] = i[s \ {c[s]}]
  BY <1>2, <1>4
<1>6. QED
  BY <1>3, <1>5 DEF AgreesOn

LastOf(n) == [s \in SUBSET (1 .. n) |-> Max(s)]

\* Max of a set of indices.
LEMMA Greatest ==
  ASSUME NEW n \in Nat, NEW s \in SUBSET (1 .. n), s # {}
  PROVE  Max(s) \in s /\ \A y \in s : Max(s) >= y
<1> DEFINE T == {n - x : x \in s}
<1>1. T \subseteq Nat /\ T # {}
  <2>1. \A x \in s : n - x \in Nat
    OBVIOUS
  <2>2. QED
    BY <2>1
<1>2. PICK k \in T : \A j \in T : k <= j
  <2> HIDE DEF T
  <2> QED BY <1>1, Least
<1>3. PICK x \in s : k = n - x
  OBVIOUS
<1>4. \A y \in s : x >= y
  <2> SUFFICES ASSUME NEW y \in s PROVE x >= y
    OBVIOUS
  <2>1. n - y \in T
    OBVIOUS
  <2>2. n - x <= n - y /\ x \in Int /\ y \in Int
    BY <2>1, <1>2, <1>3
  <2>3. QED
    BY <2>2
<1>5. QED
  BY <1>3, <1>4, Zenon DEF Max

\* The last index is the greatest.
LEMMA MaxUpTo == ASSUME NEW n \in Nat, n # 0 PROVE Max(1 .. n) = n
<1>1. n \in 1 .. n /\ 1 .. n \in SUBSET (1 .. n) /\ 1 .. n # {}
  OBVIOUS
<1>2. Max(1 .. n) \in 1 .. n /\ Max(1 .. n) >= n
  BY <1>1, Greatest
<1>3. QED
  BY <1>2

\* FoldLeft takes the last turn off.
LEMMA LastTakes == ASSUME NEW n \in Nat PROVE Takes(1 .. n, LastOf(n))
BY Greatest DEF Takes, LastOf

\* A fold over 1 .. n is n steps, one for every index.
Stepwise(h, n, t, g) == h[1 .. 0] = t /\ \A k \in 1 .. n : h[1 .. k] = g[k][h[1 .. (k - 1)]]

\* Every index is one of the steps.
LEMMA FoldSteps ==
  ASSUME NEW n \in Nat, NEW h, NEW t, NEW g, Folds(h, 1 .. n, LastOf(n), t, g)
  PROVE  Stepwise(h, n, t, g)
<1>1. h[1 .. 0] = t
  <2>1. 1 .. 0 = {} /\ 1 .. 0 \in SUBSET (1 .. n)
    OBVIOUS
  <2>2. QED
    BY <2>1 DEF Folds
<1>2. ASSUME NEW k \in 1 .. n PROVE h[1 .. k] = g[k][h[1 .. (k - 1)]]
  <2>1. 1 .. k \in SUBSET (1 .. n) /\ 1 .. k # {} /\ Max(1 .. k) = k /\ (1 .. k) \ {k} = 1 .. (k - 1)
    <3>1. k \in Nat /\ k # 0
      OBVIOUS
    <3>2. Max(1 .. k) = k
      BY <3>1, MaxUpTo
    <3>3. QED
      BY <3>2
  <2>2. LastOf(n)[1 .. k] = k
    BY <2>1 DEF LastOf
  <2>3. h[1 .. k] = g[LastOf(n)[1 .. k]][h[(1 .. k) \ {LastOf(n)[1 .. k]}]]
    BY <2>1 DEF Folds
  <2>4. QED
    BY <2>1, <2>2, <2>3
<1>3. QED
  BY <1>1, <1>2 DEF Stepwise

\* Induction from 0 to n.
LEMMA Upto ==
  ASSUME NEW n \in Nat, NEW S, 0 \in S, \A k \in 0 .. n : k < n /\ k \in S => k + 1 \in S
  PROVE  \A k \in 0 .. n : k \in S
<1> DEFINE T == {k \in 0 .. n : k \notin S}
<1>1. SUFFICES ASSUME T # {} PROVE FALSE
  OBVIOUS
<1>2. T \subseteq Nat
  OBVIOUS
<1>3. PICK k \in T : \A j \in T : k <= j
  <2> HIDE DEF T
  <2> QED BY <1>1, <1>2, Least
<1>4. k # 0 /\ k - 1 \in 0 .. n /\ k - 1 < n /\ k - 1 \notin T /\ (k - 1) + 1 = k
  BY <1>3
<1>5. QED
  BY <1>3, <1>4


\* A set whose members are in a sequence, each once.
LEMMA SequenceOf ==
  ASSUME NEW S, IsFiniteSet(S), NEW s \in SetToSeqs(S)
  PROVE  /\ Cardinality(S) \in Nat /\ s \in [1 .. Cardinality(S) -> S]
         /\ \A x \in S : \E i \in 1 .. Cardinality(S) : s[i] = x
<1> DEFINE n == Cardinality(S)
           R == {s[i] : i \in 1 .. n}
<1>1. n \in Nat
  BY FS_CardinalityType
<1>2. s \in [1 .. n -> S] /\ \A i, j \in 1 .. n : i # j => s[i] # s[j]
  BY DEF SetToSeqs
<1> HIDE DEF n
<1>3. s \in Bijection(1 .. n, R)
  BY <1>2 DEF Bijection, Injection, Surjection, IsInjective
<1>4. IsFiniteSet(1 .. n) /\ Cardinality(1 .. n) = n
  BY <1>1, FS_Interval
<1>5. ExistsBijection(1 .. n, R)
  BY <1>3 DEF ExistsBijection
<1>6. Cardinality(R) = n
  BY <1>4, <1>5, FS_Bijection
<1>7. R \in SUBSET S
  BY <1>2
<1>8. R = S
  <2> HIDE DEF R
  <2> QED BY <1>6, <1>7, FS_Subset DEF n
<1>9. QED
  BY <1>1, <1>2, <1>8 DEF n

Add(f, D) == [x \in D |-> [v \in Int |-> f[x] + v]]
First(D) == [s \in SUBSET D |-> CHOOSE x \in s : TRUE]

\* SumOf, as the function of the sets of indices that it is made of.
LEMMA SumOfUnfolds ==
  \A f : SumOf(f) = (CHOOSE h : h = [s \in SUBSET DOMAIN f |-> IF s = {} THEN 0
                       ELSE f[CHOOSE x \in s : TRUE] + h[s \ {CHOOSE x \in s : TRUE}]])[DOMAIN f]
BY Zenon DEF SumOf, FoldFunction, FoldFunctionOnSet, MapThenFoldSet

\* The sum of integers is an integer.
LEMMA SumOfType ==
  ASSUME NEW D, IsFiniteSet(D), NEW f \in [D -> Int]
  PROVE  SumOf(f) \in Int
<1> DEFINE Sums(h) == h = [s \in SUBSET D |-> IF s = {} THEN 0
                            ELSE f[CHOOSE x \in s : TRUE] + h[s \ {CHOOSE x \in s : TRUE}]]
<1>0. Takes(D, First(D))
  BY DEF Takes, First
<1>1. Add(f, D) \in [D -> [Int -> Int]] /\ 0 \in Int
  BY DEF Add
<1>2. PICK h \in [SUBSET D -> Int] : Folds(h, D, First(D), 0, Add(f, D))
  BY <1>0, <1>1, FoldExists, Zenon
<1>3. h[{}] = 0 /\ \A s \in SUBSET D : s # {} =>
           h[s] = f[CHOOSE x \in s : TRUE] + h[s \ {CHOOSE x \in s : TRUE}]
  <2>1. h[{}] = 0
    BY <1>2 DEF Folds
  <2>2. ASSUME NEW s \in SUBSET D, s # {}
        PROVE  h[s] = f[CHOOSE x \in s : TRUE] + h[s \ {CHOOSE x \in s : TRUE}]
    <3> DEFINE x == CHOOSE x \in s : TRUE
    <3>1. x \in D /\ First(D)[s] = x
      BY <2>2 DEF First
    <3> HIDE DEF x
    <3>2. h[s] = Add(f, D)[x][h[s \ {x}]] /\ h[s \ {x}] \in Int
      BY <1>2, <2>2, <3>1 DEF Folds
    <3>3. QED
      BY <3>1, <3>2 DEF Add, x
  <2>3. QED
    BY <2>1, <2>2
<1>4. Sums(h)
  <2> DEFINE G(s) == f[CHOOSE x \in s : TRUE] + h[s \ {CHOOSE x \in s : TRUE}]
  <2>1. \A s \in SUBSET D : s # {} => h[s] = G(s)
    BY <1>3
  <2> HIDE DEF G
  <2>2. h = [s \in SUBSET D |-> IF s = {} THEN 0 ELSE G(s)]
    BY <1>3, <2>1
  <2>3. QED
    BY <2>2, Zenon DEF G
<1> DEFINE i == CHOOSE h1 : Sums(h1)
<1>5. Sums(i)
  BY <1>4, Zenon
<1>6. SumOf(f) = i[D]
  <2>1. DOMAIN f = D
    OBVIOUS
  <2>2. QED
    BY <2>1, SumOfUnfolds, Zenon
<1>7. i[{}] = 0 /\ \A s \in SUBSET D : s # {} =>
           i[s] = f[CHOOSE x \in s : TRUE] + i[s \ {CHOOSE x \in s : TRUE}]
  BY <1>5
<1> HIDE DEF i
<1>8. ASSUME NEW s \in SUBSET D, s # {}, h[s \ {First(D)[s]}] = i[s \ {First(D)[s]}]
      PROVE  h[s] = i[s]
  <2>1. First(D)[s] = CHOOSE x \in s : TRUE
    BY DEF First
  <2> DEFINE x == CHOOSE x \in s : TRUE
  <2>2. h[s] = f[x] + h[s \ {x}] /\ i[s] = f[x] + i[s \ {x}] /\ h[s \ {x}] = i[s \ {x}]
    BY <1>3, <1>7, <1>8, <2>1
  <2>3. QED
    BY <2>2
<1>9. \A s \in SUBSET D : h[s] = i[s]
  <2>1. h[{}] = i[{}]
    BY <1>3, <1>7
  <2>2. \A s \in SUBSET D : s # {} /\ h[s \ {First(D)[s]}] = i[s \ {First(D)[s]}] => h[s] = i[s]
    BY <1>8
  <2>3. AgreesOn(h, i, D, First(D))
    BY <2>1, <2>2 DEF AgreesOn
  <2>4. QED
    BY <1>0, <2>3, FoldsAgree
<1>10. QED
  BY <1>6, <1>9

-----------------------------------------------------------------------------
\* Numbers are ordered as their multiples are.
LEMMA Larger ==
  ASSUME NEW x \in Int, NEW y \in Int, NEW a \in Nat \ {0}
  PROVE  x < y <=> x * a < y * a
OBVIOUS

\* x/a < y/b and y/b < z/d, multiplied out.
LEMMA RatiosOrdered ==
  ASSUME NEW x \in Int, NEW y \in Int, NEW z \in Int,
         NEW a \in Nat \ {0}, NEW b \in Nat \ {0}, NEW d \in Nat \ {0},
         x * b < y * a, y * d < z * b
  PROVE  x * d < z * a
<1> DEFINE p == x * b
           q == y * a
           r == y * d
           t == z * b
           u == x * d
           v == z * a
<1>1. p \in Int /\ q \in Int /\ r \in Int /\ t \in Int /\ u \in Int /\ v \in Int
  OBVIOUS
<1>2. p * d < q * d /\ r * a < t * a
  <2> HIDE DEF p, q, r, t
  <2>1. p < q /\ r < t
    BY DEF p, q, r, t
  <2>2. QED
    BY <1>1, <2>1, Larger
<1>3. q * d = r * a /\ p * d = u * b /\ t * a = v * b
  OBVIOUS
<1>4. u * b < v * b
  <2>1. p * d \in Int /\ q * d \in Int /\ t * a \in Int
    OBVIOUS
  <2> HIDE DEF p, q, r, t, u, v
  <2>2. QED
    BY <1>2, <1>3, <2>1
<1>5. u < v
  <2> HIDE DEF u, v
  <2> QED BY <1>1, <1>4, Larger
<1>6. QED
  BY <1>5

Entry == [age : Int, load : Int, time : Int, energy : Int]
PastOK(p) == /\ DOMAIN p \subseteq Nat \ {0} /\ IsFiniteSet(DOMAIN p)
             /\ \A n \in DOMAIN p : p[n] \in Entry

\* To be better in one criterion, measured per node, is a strict order.
LEMMA BetterIsAnOrder ==
  ASSUME NEW p, PastOK(p), NEW c \in 1 .. 3
  PROVE  /\ \A a \in DOMAIN p : ~ Better(p, c, a, a)
         /\ \A a, b, d \in DOMAIN p : Better(p, c, a, b) /\ Better(p, c, b, d) => Better(p, c, a, d)
<1>1. \A a \in DOMAIN p : p[a].load \in Int /\ p[a].time \in Int /\ p[a].energy \in Int /\ a \in Nat \ {0}
  BY DEF PastOK, Entry
<1>2. ASSUME NEW a \in DOMAIN p PROVE ~ Better(p, c, a, a)
  <2>1. p[a].load * a \in Int /\ p[a].time * a \in Int /\ p[a].energy * a \in Int
    BY <1>1
  <2>2. \A n \in Int : ~ (n < n) /\ ~ (n > n)
    OBVIOUS
  <2>3. c = 1 \/ c = 2 \/ c = 3
    OBVIOUS
  <2>4. QED
    BY <2>1, <2>2, <2>3, Zenon DEF Better
<1>3. ASSUME NEW a \in DOMAIN p, NEW b \in DOMAIN p, NEW d \in DOMAIN p,
             Better(p, c, a, b), Better(p, c, b, d)
      PROVE  Better(p, c, a, d)
  <2>0. a \in Nat \ {0} /\ b \in Nat \ {0} /\ d \in Nat \ {0}
    BY <1>1
  <2>1. CASE c = 1
    <3>1. p[b].load * a < p[a].load * b /\ p[d].load * b < p[b].load * d
      BY <1>3, <2>1, <1>1, <2>0 DEF Better
    <3>2. p[d].load * a < p[a].load * d
      BY <3>1, <1>1, <2>0, RatiosOrdered
    <3>3. QED
      BY <3>2, <2>1, <1>1, <2>0 DEF Better
  <2>2. CASE c = 2
    <3>1. p[a].time * b < p[b].time * a /\ p[b].time * d < p[d].time * b
      BY <1>3, <2>2 DEF Better
    <3>2. p[a].time * d < p[d].time * a
      BY <3>1, <1>1, <2>0, RatiosOrdered
    <3>3. QED
      BY <3>2, <2>2 DEF Better
  <2>3. CASE c = 3
    <3>1. p[a].energy * b < p[b].energy * a /\ p[b].energy * d < p[d].energy * b
      BY <1>3, <2>3 DEF Better
    <3>2. p[a].energy * d < p[d].energy * a
      BY <3>1, <1>1, <2>0, RatiosOrdered
    <3>3. QED
      BY <3>2, <2>3 DEF Better
  <2>4. QED
    BY <2>1, <2>2, <2>3
<1>4. QED
  BY <1>2, <1>3

Insert(p, next, f, n) == IF \E m \in f : Better(p, next, m, n) THEN f ELSE f \cup {n}
Inserted(p, next, f, s) == FoldLeft(LAMBDA f1, n : Insert(p, next, f1, n), f, s)

\* Frontier is the loop over the entries sorted by a criterion.
LEMMA FrontierUnfolds ==
  \A p, c, f : Frontier(p, c, f) = {Inserted(p, (c % 3) + 1, f \cup {s[1]}, s) : s \in Sorted(p, c)}
BY Zenon DEF Frontier, Inserted, Insert

Insertions(h, p, next, f, s) ==
  h = [x \in SUBSET DOMAIN s |-> IF x = {} THEN f ELSE Insert(p, next, h[x \ {Max(x)}], s[Max(x)])]

\* FoldLeft, as the function of the sets of indices that it is made of.
LEMMA InsertedUnfolds ==
  \A p, next, f, s : Inserted(p, next, f, s) = (CHOOSE h : Insertions(h, p, next, f, s))[DOMAIN s]
BY Zenon DEF Inserted, FoldLeft, MapThenFoldSet, Insertions

-----------------------------------------------------------------------------
\* No entry is better than n in all three criteria.
Optimal(p, n) == \A m \in DOMAIN p : \E c \in 1 .. 3 : ~ Better(p, c, m, n)

\* FoldLeft over the sorted entries, as steps that insert one of them or not.
InsertsIn(p, next, f, s, n) ==
  \E F : /\ F[0] = f /\ Inserted(p, next, f, s) = F[n]
         /\ \A k \in 1 .. n : F[k] = Insert(p, next, F[k - 1], s[k])
         /\ \A k \in 0 .. n : F[k] \in SUBSET DOMAIN p

\* The loop is such a series of steps.
LEMMA InsertedSteps ==
  ASSUME NEW p, IsFiniteSet(DOMAIN p), NEW next, NEW f \in SUBSET DOMAIN p, NEW n \in Nat,
         NEW s \in [1 .. n -> DOMAIN p]
  PROVE  InsertsIn(p, next, f, s, n)
<1> DEFINE S == 1 .. n
           V == SUBSET DOMAIN p
           g == [i \in S |-> [x \in V |-> Insert(p, next, x, s[i])]]
<1>0. IsFiniteSet(S) /\ Takes(S, LastOf(n))
  BY FS_Interval, LastTakes
<1>1. g \in [S -> [V -> V]]
  BY DEF Insert
<1>2. PICK h \in [SUBSET S -> V] : Folds(h, S, LastOf(n), f, g)
  <2> HIDE DEF g
  <2> QED BY <1>0, <1>1, FoldExists, Zenon
<1>3. h[{}] = f
  BY <1>2 DEF Folds
<1>4. ASSUME NEW x \in SUBSET S, x # {}
      PROVE  /\ LastOf(n)[x] = Max(x) /\ Max(x) \in S
             /\ h[x] = Insert(p, next, h[x \ {Max(x)}], s[Max(x)])
  <2>1. LastOf(n)[x] = Max(x) /\ Max(x) \in S
    BY <1>4, Greatest DEF LastOf
  <2>2. h[x] = g[Max(x)][h[x \ {Max(x)}]]
    BY <1>2, <1>4, <2>1 DEF Folds
  <2>3. h[x \ {Max(x)}] \in V
    OBVIOUS
  <2>4. QED
    BY <2>1, <2>2, <2>3
<1>5. DOMAIN s = S
  OBVIOUS
<1> HIDE DEF g
<1>6. Insertions(h, p, next, f, s)
  <2> DEFINE G(x) == Insert(p, next, h[x \ {Max(x)}], s[Max(x)])
  <2>1. \A x \in SUBSET S : x # {} => h[x] = G(x)
    BY <1>4
  <2> HIDE DEF G
  <2>2. h = [x \in SUBSET S |-> IF x = {} THEN f ELSE G(x)]
    BY <1>3, <2>1
  <2>3. QED
    BY <1>5, <2>2, Zenon DEF G, Insertions
<1> DEFINE i == CHOOSE h1 : Insertions(h1, p, next, f, s)
<1>7. Insertions(i, p, next, f, s) /\ Inserted(p, next, f, s) = i[S]
  BY <1>5, <1>6, InsertedUnfolds, Zenon
<1> HIDE DEF i
<1>8. i[{}] = f /\ \A x \in SUBSET S : x # {} => i[x] = Insert(p, next, i[x \ {Max(x)}], s[Max(x)])
  BY <1>5, <1>7 DEF Insertions
<1>9. \A x \in SUBSET S : h[x] = i[x]
  <2>1. h[{}] = i[{}]
    BY <1>3, <1>8
  <2>2. \A x \in SUBSET S : x # {} /\ h[x \ {LastOf(n)[x]}] = i[x \ {LastOf(n)[x]}] => h[x] = i[x]
    BY <1>4, <1>8
  <2>3. AgreesOn(h, i, S, LastOf(n))
    BY <2>1, <2>2 DEF AgreesOn
  <2> HIDE DEF S
  <2>4. QED
    BY <1>0, <2>3, FoldsAgree
<1>10. Stepwise(h, n, f, g)
  BY <1>2, FoldSteps
<1> DEFINE F == [k \in 0 .. n |-> h[1 .. k]]
<1>11. F[0] = f /\ F[n] = i[S] /\ \A k \in 0 .. n : F[k] \in V
  <2>1. 0 \in 0 .. n /\ n \in 0 .. n /\ \A k \in 0 .. n : 1 .. k \in SUBSET S
    OBVIOUS
  <2>2. QED
    BY <1>9, <1>10, <2>1 DEF Stepwise
<1>12. \A k \in 1 .. n : F[k] = Insert(p, next, F[k - 1], s[k])
  <2> SUFFICES ASSUME NEW k \in 1 .. n PROVE F[k] = Insert(p, next, F[k - 1], s[k])
    OBVIOUS
  <2>1. k \in 0 .. n /\ k - 1 \in 0 .. n /\ F[k - 1] = h[1 .. (k - 1)] /\ F[k] = h[1 .. k]
    OBVIOUS
  <2>2. h[1 .. k] = g[k][h[1 .. (k - 1)]]
    BY <1>10 DEF Stepwise
  <2>3. h[1 .. (k - 1)] \in V
    BY <1>11, <2>1
  <2>4. QED
    BY <2>1, <2>2, <2>3 DEF g
<1>13. QED
  <2> HIDE DEF F
  <2> QED BY <1>7, <1>11, <1>12 DEF InsertsIn

\* One pass adds optimal entries only: of those sorted before an entry that is added none is
\* better in the next criterion, and of those after it none is better in the criterion itself.
LEMMA FrontierOptimal ==
  ASSUME NEW p, PastOK(p), NEW c \in 1 .. 3, DOMAIN p # {},
         NEW f \in SUBSET DOMAIN p, \A n \in f : Optimal(p, n),
         NEW r \in Frontier(p, c, f)
  PROVE  r \in SUBSET DOMAIN p /\ \A n \in r : Optimal(p, n)
<1> DEFINE D == DOMAIN p
           next == (c % 3) + 1
           N0 == Cardinality(D)
<1>1. PICK s \in Sorted(p, c) : r = Inserted(p, next, f \cup {s[1]}, s)
  BY FrontierUnfolds
<1>2. IsFiniteSet(D) /\ next \in 1 .. 3
  BY DEF PastOK
<1>3. s \in SetToSeqs(D) /\ \A i, j \in DOMAIN s : i < j => ~ Better(p, c, s[j], s[i])
  BY DEF Sorted
<1>4. N0 \in Nat /\ s \in [1 .. N0 -> D] /\ \A x \in D : \E i \in 1 .. N0 : s[i] = x
  BY <1>2, <1>3, SequenceOf
<1> HIDE DEF N0, next
<1>5. N0 # 0 /\ 1 \in 1 .. N0 /\ s[1] \in D /\ DOMAIN s = 1 .. N0
  BY <1>4
<1>6. PICK F : /\ F[0] = f \cup {s[1]} /\ Inserted(p, next, f \cup {s[1]}, s) = F[N0]
               /\ \A k \in 1 .. N0 : F[k] = Insert(p, next, F[k - 1], s[k])
               /\ \A k \in 0 .. N0 : F[k] \in SUBSET D
  <2> DEFINE f0 == f \cup {s[1]}
  <2>1. f0 \in SUBSET D
    BY <1>5
  <2> HIDE DEF f0
  <2>2. InsertsIn(p, next, f0, s, N0)
    BY <1>2, <1>4, <2>1, InsertedSteps, Zenon
  <2>3. QED
    BY <2>2, Zenon DEF f0, InsertsIn
<1>7. /\ \A a \in D : ~ Better(p, c, a, a) /\ ~ Better(p, next, a, a)
      /\ \A a, b, d \in D : Better(p, next, a, b) /\ Better(p, next, b, d) => Better(p, next, a, d)
  BY <1>2, BetterIsAnOrder
<1> DEFINE Seen(k) == \A i \in 1 .. k : s[i] \in F[k] \/ \E m \in F[k] : Better(p, next, m, s[i])
           Good(k) == (\A n \in F[k] : Optimal(p, n)) /\ Seen(k)
           P == {k \in 0 .. N0 : Good(k)}
<1>8. 0 \in P
  <2>1. Optimal(p, s[1])
    <3> SUFFICES ASSUME NEW m \in D PROVE ~ Better(p, c, m, s[1])
      BY DEF Optimal
    <3>1. PICK i \in 1 .. N0 : s[i] = m
      BY <1>4
    <3>2. CASE i = 1
      BY <3>1, <3>2, <1>5, <1>7
    <3>3. CASE i # 1
      <4>1. 1 < i
        BY <3>3, <1>4
      <4>2. QED
        BY <3>1, <4>1, <1>3, <1>5
    <3>4. QED
      BY <3>2, <3>3
  <2>2. Seen(0) /\ 0 \in 0 .. N0
    BY <1>4
  <2>3. \A n \in F[0] : Optimal(p, n)
    BY <1>6, <2>1
  <2>4. QED
    BY <2>2, <2>3
<1>9. ASSUME NEW k \in 0 .. N0, k < N0, k \in P PROVE k + 1 \in P
  <2> DEFINE x == s[k + 1]
             E == F[k]
             A == F[k + 1]
  <2>0. k + 1 \in 1 .. N0 /\ k + 1 \in 0 .. N0 /\ (k + 1) - 1 = k /\ x \in D /\ E \in SUBSET D
    <3>1. k + 1 \in 1 .. N0 /\ k + 1 \in 0 .. N0 /\ (k + 1) - 1 = k
      BY <1>4, <1>9
    <3>2. QED
      BY <3>1, <1>4, <1>6
  <2>1. A = IF \E m \in E : Better(p, next, m, x) THEN E ELSE E \cup {x}
    BY <1>6, <2>0 DEF Insert
  <2>2. Good(k)
    BY <1>9
  <2>3. ASSUME ~ \E m \in E : Better(p, next, m, x) PROVE Optimal(p, x)
    <3> SUFFICES ASSUME NEW m \in D PROVE \E e \in 1 .. 3 : ~ Better(p, e, m, x)
      BY DEF Optimal
    <3>1. PICK i \in 1 .. N0 : s[i] = m
      BY <1>4
    <3>2. CASE i = k + 1
      <4>1. ~ Better(p, c, m, x)
        BY <3>1, <3>2, <1>7
      <4>2. QED
        BY <4>1
    <3>3. CASE i > k + 1
      <4>1. ~ Better(p, c, m, x)
        BY <3>1, <3>3, <1>3, <1>5, <2>0
      <4>2. QED
        BY <4>1
    <3>4. CASE i < k + 1
      <4>1. i \in 1 .. k
        BY <3>4, <1>4
      <4>2. m \in E \/ \E l \in E : Better(p, next, l, m)
        BY <3>1, <4>1, <2>2
      <4>3. ~ Better(p, next, m, x)
        BY <4>2, <2>0, <2>3, <1>7
      <4>4. QED
        BY <4>3, <1>2
    <3>5. QED
      BY <3>2, <3>3, <3>4, <1>4
  <2>4. \A n \in A : Optimal(p, n)
    BY <2>1, <2>2, <2>3
  <2>5. Seen(k + 1)
    <3> SUFFICES ASSUME NEW i \in 1 .. k + 1
                 PROVE  s[i] \in A \/ \E m \in A : Better(p, next, m, s[i])
      OBVIOUS
    <3>1. CASE i = k + 1
      BY <3>1, <2>1
    <3>2. CASE i # k + 1
      <4>1. i \in 1 .. k
        BY <3>2, <1>4
      <4>2. E \subseteq A
        BY <2>1
      <4>3. s[i] \in E \/ \E m \in E : Better(p, next, m, s[i])
        BY <4>1, <2>2
      <4>4. QED
        BY <4>2, <4>3
    <3>3. QED
      BY <3>1, <3>2
  <2>6. QED
    BY <2>0, <2>4, <2>5
<1>10. N0 \in P
  <2>1. N0 \in 0 .. N0
    BY <1>4
  <2> HIDE DEF P
  <2>2. \A k \in 0 .. N0 : k \in P
    BY <1>4, <1>8, <1>9, Upto
  <2>3. QED
    BY <2>1, <2>2
<1>11. r = F[N0] /\ F[N0] \in SUBSET D
  BY <1>1, <1>4, <1>6
<1>12. QED
  BY <1>10, <1>11

\* get_best returns optimal entries only.
LEMMA BestIsOptimal ==
  ASSUME NEW p, PastOK(p), DOMAIN p # {}, NEW n \in get_best(p)
  PROVE  n \in DOMAIN p /\ Optimal(p, n)
<1>1. PICK f1 \in Frontier(p, 1, {}) : \E f2 \in Frontier(p, 2, f1) : \E f3 \in Frontier(p, 3, f2) : n \in f3
  BY DEF get_best
<1>2. PICK f2 \in Frontier(p, 2, f1) : \E f3 \in Frontier(p, 3, f2) : n \in f3
  BY <1>1
<1>3. PICK f3 \in Frontier(p, 3, f2) : n \in f3
  BY <1>2
<1>4. f1 \in SUBSET DOMAIN p /\ \A m \in f1 : Optimal(p, m)
  <2>1. {} \in SUBSET DOMAIN p /\ (\A m \in {} : Optimal(p, m)) /\ 1 \in 1 .. 3
    OBVIOUS
  <2>2. QED
    BY <1>1, <2>1, FrontierOptimal
<1>5. f2 \in SUBSET DOMAIN p /\ \A m \in f2 : Optimal(p, m)
  <2>1. 2 \in 1 .. 3
    OBVIOUS
  <2>2. QED
    BY <1>2, <1>4, <2>1, FrontierOptimal
<1>6. f3 \in SUBSET DOMAIN p /\ \A m \in f3 : Optimal(p, m)
  <2>1. 3 \in 1 .. 3
    OBVIOUS
  <2>2. QED
    BY <1>3, <1>5, <2>1, FrontierOptimal
<1>7. QED
  BY <1>3, <1>6

-----------------------------------------------------------------------------
\* The numbers of nodes there are to choose from.
LEMMA CountsAre == Counts \subseteq 1 .. N /\ IsFiniteSet(Counts)
<1>0. N \in Nat \ {0} /\ {Target, TargetLeeway} \subseteq 0 .. 100
  BY PolicyAssumption, InternodeAssumption
<1>1. \A a, b \in Int : Max({a, b}) \in {a, b} /\ Max({a, b}) >= a /\ Min({a, b}) \in {a, b} /\ Min({a, b}) <= a
  <2> SUFFICES ASSUME NEW a \in Int, NEW b \in Int
               PROVE  Max({a, b}) \in {a, b} /\ Max({a, b}) >= a /\ Min({a, b}) \in {a, b} /\ Min({a, b}) <= a
    OBVIOUS
  <2>1. \E x \in {a, b} : \A y \in {a, b} : x >= y
    OBVIOUS
  <2>2. Max({a, b}) \in {a, b} /\ \A y \in {a, b} : Max({a, b}) >= y
    BY <2>1, Zenon DEF Max
  <2>3. \E x \in {a, b} : \A y \in {a, b} : x =< y
    OBVIOUS
  <2>4. Min({a, b}) \in {a, b} /\ \A y \in {a, b} : Min({a, b}) =< y
    BY <2>3, Zenon DEF Min
  <2>5. QED
    BY <2>2, <2>4
<1>2. ASSUME NEW p \in Nat PROVE Percent(p) \in Int
  <2>1. p * N + 99 \in Int
    BY <1>0
  <2>2. QED
    BY <2>1 DEF Percent
<1>3. Percent(Target) \in Int /\ Percent(Target + TargetLeeway) \in Int
  BY <1>0, <1>2
<1> DEFINE lo == Max({1, Percent(Target)})
           hi == Min({N, Percent(Target + TargetLeeway)})
<1>4. lo \in Int /\ lo >= 1 /\ hi \in Int /\ hi <= N
  <2> DEFINE a == Percent(Target)
             b == Percent(Target + TargetLeeway)
  <2>1. a \in Int /\ b \in Int /\ 1 \in Int /\ N \in Int
    BY <1>0, <1>3
  <2> HIDE DEF a, b
  <2>2. Max({1, a}) \in {1, a} /\ Max({1, a}) >= 1
    BY <1>1, <2>1
  <2>3. Min({N, b}) \in {N, b} /\ Min({N, b}) <= N
    BY <1>1, <2>1
  <2>4. QED
    BY <2>1, <2>2, <2>3 DEF a, b
<1>5. Counts = lo .. hi
  BY DEF Counts
<1> HIDE DEF lo, hi
<1>6. lo .. hi \subseteq 1 .. N /\ IsFiniteSet(lo .. hi)
  <2>1. IsFiniteSet(lo .. hi)
    BY <1>4, FS_Interval
  <2>2. lo .. hi \subseteq 1 .. N
    BY <1>0, <1>4
  <2>3. QED
    BY <2>1, <2>2
<1>7. QED
  BY <1>5, <1>6

\* What is remembered are measurements of numbers of nodes that were chosen.
Measurements(p) == DOMAIN p \subseteq Counts /\ \A n \in DOMAIN p : p[n] \in Entry

InoInv ==
  /\ Measurements(past)
  /\ fresh \subseteq Counts /\ explore \subseteq Counts /\ forgotten \subseteq Counts
  /\ choices \in Nat
  /\ choices # 0 => last \in Counts

\* What is remembered can be ordered.
LEMMA MeasurementsOK == ASSUME NEW p, Measurements(p) PROVE PastOK(p)
<1>1. IsFiniteSet(DOMAIN p) /\ DOMAIN p \subseteq 1 .. N
  BY CountsAre, FS_Subset DEF Measurements
<1>2. 1 .. N \subseteq Nat \ {0}
  BY PolicyAssumption
<1>3. QED
  BY <1>1, <1>2 DEF PastOK, Measurements

\* Nothing is remembered at first.
LEMMA InoInit == Init => InoInv
BY CountsAre DEF Init, InoInv, Empty, Measurements

\* The measurement of the last choice is recorded and not too old to be kept.
LEMMA RecordedIs ==
  ASSUME InoInv, NEW load \in [Measured -> Loads], NEW time \in [Measured -> Times],
         NEW energy \in Energies
  PROVE  /\ Measurements(record_point(load, time, energy))
         /\ choices # 0 => last \in DOMAIN Remembered(record_point(load, time, energy))
<1> DEFINE e == [age |-> 0, load |-> SumOf(load), time |-> energy, energy |-> SumOf(time)]
           q == record_point(load, time, energy)
<1>0. IsFiniteSet(Measured)
  <2>1. IsFiniteSet(0 .. N) /\ Measured \in SUBSET (0 .. N)
    BY PolicyAssumption, FS_Interval DEF Measured
  <2>2. QED
    BY <2>1, FS_Subset
<1>1. Loads \subseteq Int /\ Times \subseteq Int /\ Energies \subseteq Int
  BY InternodeAssumption
<1>2. SumOf(load) \in Int /\ SumOf(time) \in Int
  <2>1. load \in [Measured -> Int] /\ time \in [Measured -> Int]
    BY <1>1
  <2>2. QED
    BY <1>0, <2>1, SumOfType
<1>3. e \in Entry /\ e.age = 0
  BY <1>1, <1>2 DEF Entry
<1> HIDE DEF e
<1>4. CASE choices = 0
  BY <1>4 DEF record_point, InoInv
<1>5. CASE choices # 0
  <2>1. q = [z \in DOMAIN past \cup {last} |-> IF z = last THEN e ELSE past[z]]
    BY <1>5 DEF record_point, Extended, e
  <2> HIDE DEF q
  <2>2. Measurements(q) /\ last \in DOMAIN q /\ q[last].age = 0
    <3>1. DOMAIN q = DOMAIN past \cup {last} /\ q[last] = e
      BY <2>1
    <3>2. last \in Counts /\ DOMAIN past \subseteq Counts
      BY <1>5 DEF InoInv, Measurements
    <3>3. ASSUME NEW z \in DOMAIN q PROVE q[z] \in Entry
      <4>1. CASE z = last
        BY <4>1, <3>1, <1>3
      <4>2. CASE z # last
        <5>1. z \in DOMAIN past /\ q[z] = past[z]
          BY <4>2, <3>1, <3>3, <2>1
        <5>2. QED
          BY <5>1 DEF InoInv, Measurements
      <4>3. QED
        BY <4>1, <4>2
    <3>4. QED
      BY <1>3, <3>1, <3>2, <3>3 DEF Measurements
  <2>3. last \notin Old(q)
    BY <2>2, InternodeAssumption DEF Old
  <2>4. last \in DOMAIN Remembered(q)
    BY <2>2, <2>3 DEF Remembered
  <2>5. QED
    BY <2>2, <2>4 DEF q
<1>6. QED
  BY <1>4, <1>5

\* A tick takes away entries and changes their age.
LEMMA RememberedIs ==
  ASSUME NEW p, Measurements(p)
  PROVE  Measurements(Remembered(p)) /\ Old(p) \subseteq Counts
<1>1. ASSUME NEW n \in DOMAIN p PROVE [p[n] EXCEPT !.age = @ + 1] \in Entry
  BY DEF Measurements, Entry
<1>2. Old(p) \subseteq DOMAIN p
  BY DEF Old
<1>3. QED
  BY <1>1, <1>2 DEF Measurements, Remembered

\* A choice is one of the numbers of nodes, and on the frontier when it is no exploration.
LEMMA ChoiceIs ==
  ASSUME InoInv, NEW load \in [Measured -> Loads], NEW time \in [Measured -> Times],
         NEW energy \in Energies, NEW k \in get_node_configuration(load, time, energy)
  PROVE  /\ Measurements(k.past) /\ k.n \in Counts
         /\ k.fresh \subseteq Counts /\ k.explore \subseteq Counts /\ k.forgotten \subseteq Counts
         /\ ~ Exploring => Optimal(k.past, k.n)
<1> DEFINE q == record_point(load, time, energy)
           f == Forgotten(q)
           p == Remembered(q)
           refilled == IF explore = {} THEN explore_configurations(p, f) ELSE explore
           unseen == IF explore = {} THEN fresh \ Smallest(fresh, SoftLimit) ELSE fresh
           next(n, u, e) == [n |-> n, past |-> p, forgotten |-> f, fresh |-> u, explore |-> e]
<1>1. \/ Exploring /\ refilled # {} /\ \E n \in refilled : k = next(n, unseen, refilled \ {n})
      \/ Exploring /\ \E n \in DOMAIN p : k = next(n, unseen, {})
      \/ ~ Exploring /\ \E n \in get_best(p) : k = next(n, fresh, explore)
  BY DEF get_node_configuration
<1>2. Measurements(p) /\ f \subseteq Counts /\ (choices # 0 => DOMAIN p # {})
  <2>1. Measurements(q) /\ (choices # 0 => DOMAIN p # {})
    BY RecordedIs
  <2> HIDE DEF q
  <2>2. Measurements(p) /\ Old(q) \subseteq Counts
    BY <2>1, RememberedIs
  <2>3. f \subseteq Counts
    BY <2>2 DEF Forgotten, InoInv
  <2>4. QED
    BY <2>1, <2>2, <2>3
<1> HIDE DEF q, f, p
<1>3. DOMAIN p \subseteq Counts
  BY <1>2 DEF Measurements
<1>4. \A s, i : Smallest(s, i) \subseteq s
  BY DEF Smallest
<1>5. explore_configurations(p, f) \subseteq Counts
  BY <1>2, <1>3, <1>4 DEF explore_configurations, InoInv
<1>6. refilled \subseteq Counts /\ unseen \subseteq Counts
  BY <1>4, <1>5 DEF InoInv
<1> HIDE DEF refilled, unseen
<1>7. CASE Exploring /\ refilled # {} /\ \E n \in refilled : k = next(n, unseen, refilled \ {n})
  BY <1>2, <1>6, <1>7
<1>8. CASE Exploring /\ \E n \in DOMAIN p : k = next(n, unseen, {})
  BY <1>2, <1>3, <1>6, <1>8
<1>9. CASE ~ Exploring /\ \E n \in get_best(p) : k = next(n, fresh, explore)
  <2>1. choices # 0
    BY <1>9, InternodeAssumption DEF Exploring, InoInv
  <2>2. PICK n \in get_best(p) : k = next(n, fresh, explore)
    BY <1>9
  <2>3. n \in DOMAIN p /\ Optimal(p, n)
    BY <1>2, <2>1, <2>2, MeasurementsOK, BestIsOptimal
  <2>4. QED
    BY <1>2, <1>3, <2>2, <2>3 DEF InoInv
<1>10. QED
  BY <1>1, <1>7, <1>8, <1>9

\* A balancing keeps the invariant, and what it chooses without exploring is optimal.
LEMMA InoStep ==
  ASSUME InoInv, Next
  PROVE  /\ InoInv'
         /\ ~ Exploring => \A n \in DOMAIN past' : \E criterion \in 1 .. 3 : ~ Better(past', criterion, n, last')
<1>1. PICK load \in [Measured -> Loads], time \in [Measured -> Times], energy \in Energies :
         balance_ino(load, time, energy)
  BY DEF Next
<1>2. PICK k \in get_node_configuration(load, time, energy) :
        /\ last' = k.n /\ past' = k.past /\ forgotten' = k.forgotten /\ fresh' = k.fresh
        /\ explore' = k.explore
        /\ choices' = IF choices = ExplorationSteps + RandomEvery THEN ExplorationSteps ELSE choices + 1
  BY <1>1 DEF balance_ino
<1>3. /\ Measurements(k.past) /\ k.n \in Counts
      /\ k.fresh \subseteq Counts /\ k.explore \subseteq Counts /\ k.forgotten \subseteq Counts
      /\ ~ Exploring => Optimal(k.past, k.n)
  BY <1>1, <1>2, ChoiceIs
<1>4. choices' \in Nat
  <2>1. ExplorationSteps \in Nat /\ choices \in Nat
    BY InternodeAssumption DEF InoInv
  <2>2. QED
    BY <1>2, <2>1
<1>5. InoInv'
  <2>1. Measurements(past)'
    BY <1>2, <1>3 DEF Measurements, Counts, Percent, Entry
  <2>2. QED
    BY <1>2, <1>3, <1>4, <2>1 DEF InoInv, Counts, Percent
<1>6. QED
  BY <1>2, <1>3, <1>5 DEF Optimal

\* A choice of get_node_configuration that is no exploration is on the Pareto frontier of
\* what is remembered: no other number of nodes did better in load, in time and in energy.
THEOREM ChoicesAreParetoOptimal == Spec => ParetoOptimal
<1>1. InoInv /\ UNCHANGED vars => InoInv'
  BY DEF InoInv, vars, Measurements
<1>2. InoInv /\ [Next]_vars => InoInv'
  BY <1>1, InoStep
<1>3. Spec => []InoInv
  BY InoInit, <1>2, PTL DEF Spec
<1>4. InoInv /\ [Next]_vars =>
        [~ Exploring => \A n \in DOMAIN past' : \E criterion \in 1 .. 3 : ~ Better(past', criterion, n, last')]_vars
  BY InoStep
<1>5. QED
  BY <1>3, <1>4, PTL DEF Spec, ParetoOptimal

-----------------------------------------------------------------------------
\* One sequence behind another.
JoinedIs(r, R, C, B, p, q) ==
  /\ r \in Seq(R) /\ Len(r) = p + q
  /\ \A i \in 1 .. p : r[i] = C[i]
  /\ \A i \in p + 1 .. p + q : r[i] = B[i - p]

\* Where the elements of two sequences are when one is appended to the other.
LEMMA Joined ==
  ASSUME NEW R, NEW C \in Seq(R), NEW B \in Seq(R), NEW p \in Nat, NEW q \in Nat, Len(C) = p, Len(B) = q
  PROVE  JoinedIs(C \o B, R, C, B, p, q)
  BY DEF JoinedIs

\* The moved node: what stands at each place of the list.
MovedIs(r, R, list, place) ==
  /\ r \in Seq(R) /\ Len(r) = Len(list)
  /\ \A i \in 1 .. Len(list) :
       r[i] = IF i < place THEN list[i + 1] ELSE IF i = place THEN list[1] ELSE list[i]

\* Taking the head off a list and inserting it at a place moves those before the place up.
LEMMA InsertedBehind ==
  ASSUME NEW R, NEW list \in Seq(R), Len(list) >= 1, NEW place \in 1 .. Len(list)
  PROVE  MovedIs(InsertAt(Tail(list), place, list[1]), R, list, place)
<1> DEFINE k == Len(list)
           T == Tail(list)
           e == list[1]
           A == SubSeq(T, 1, place - 1)
           B == SubSeq(T, place, Len(T))
           r == InsertAt(T, place, e)
<1>0. k \in Nat /\ place \in Nat /\ e \in R
  OBVIOUS
<1>1. T \in Seq(R) /\ Len(T) = k - 1 /\ \A i \in 1 .. k - 1 : T[i] = list[i + 1]
  <2>1. list # <<>>
    OBVIOUS
  <2>2. QED
    BY <2>1
<1> HIDE DEF T, k
<1>2. A \in Seq(R) /\ Len(A) = place - 1 /\ \A i \in 1 .. place - 1 : A[i] = T[i]
  BY <1>0, <1>1 DEF k
<1>3. B \in Seq(R) /\ Len(B) = k - place /\ \A i \in 1 .. k - place : B[i] = T[place + i - 1]
  BY <1>0, <1>1 DEF k
<1>4. r = (A \o <<e>>) \o B
  BY DEF InsertAt
<1> HIDE DEF A, B, e
<1> DEFINE C == A \o <<e>>
<1>5. C \in Seq(R) /\ Len(C) = place /\ (\A i \in 1 .. place - 1 : C[i] = A[i]) /\ C[place] = e
  <2>1. <<e>> \in Seq(R) /\ Len(<<e>>) = 1 /\ <<e>>[1] = e
    BY <1>0
  <2>2. QED
    BY <1>0, <1>2, <2>1
<1> HIDE DEF C
<1>6. r = C \o B
  BY <1>4 DEF C
<1> HIDE DEF r
<1>7. /\ r \in Seq(R) /\ Len(r) = k
      /\ \A i \in 1 .. place : r[i] = C[i]
      /\ \A i \in place + 1 .. k : r[i] = B[i - place]
  <2>1. k - place \in Nat /\ place + (k - place) = k
    BY <1>0 DEF k
  <2>2. JoinedIs(r, R, C, B, place, k - place)
    BY <1>0, <1>3, <1>5, <1>6, <2>1, Joined, Zenon
  <2>3. QED
    BY <2>1, <2>2 DEF JoinedIs
<1>8. ASSUME NEW i \in 1 .. k
      PROVE  r[i] = IF i < place THEN list[i + 1] ELSE IF i = place THEN list[1] ELSE list[i]
  <2>1. CASE i < place
    <3>1. i \in 1 .. place - 1 /\ i \in 1 .. k - 1
      BY <2>1, <1>0 DEF k
    <3>2. r[i] = C[i]
      BY <3>1, <2>1, <1>0, <1>7
    <3>3. QED
      BY <3>1, <3>2, <2>1, <1>1, <1>2, <1>5
  <2>2. CASE i = place
    <3>1. r[i] = C[i]
      BY <2>2, <1>0, <1>7
    <3>2. QED
      BY <3>1, <2>2, <1>0, <1>5 DEF e
  <2>3. CASE i > place
    <3>1. i - place \in 1 .. k - place /\ place + (i - place) - 1 = i - 1 /\ i - 1 \in 1 .. k - 1 /\ (i - 1) + 1 = i
      BY <2>3, <1>0 DEF k
    <3>2. r[i] = B[i - place]
      BY <2>3, <1>0, <1>7
    <3>3. B[i - place] = T[i - 1]
      BY <3>1, <1>3
    <3>4. T[i - 1] = list[i]
      BY <3>1, <1>1
    <3>5. QED
      BY <3>2, <3>3, <3>4, <2>3, <1>0
  <2>4. QED
    BY <2>1, <2>2, <2>3, <1>0
<1>9. QED
  BY <1>7, <1>8 DEF r, T, e, k, MovedIs

\* A list of nodes and their loads, all sorted, or all but the first, and no further apart than h.
Lists(Y, k) == {l \in Seq([node : Y, load : Int]) : Len(l) = k}
SortedFrom(l, a) == \A i, j \in a .. Len(l) : i <= j => l[i].load <= l[j].load
Within(l, h) == \A i, j \in 1 .. Len(l) : l[i].load - l[j].load <= h

\* Reordered sorts a list of which all but the first are sorted.
LEMMA ReorderedIs ==
  ASSUME NEW Y, NEW k \in Nat \ {0}, NEW l \in Lists(Y, k), SortedFrom(l, 2), NEW h \in Nat, Within(l, h)
  PROVE  Reordered(l) \in Lists(Y, k) /\ SortedFrom(Reordered(l), 1) /\ Within(Reordered(l), h)
<1> DEFINE R == [node : Y, load : Int]
           behind == {i \in 2 .. Len(l) : l[i].load > l[1].load}
           place  == IF behind = {} THEN Len(l) ELSE Min(behind) - 1
           r == InsertAt(Tail(l), place, l[1])
<1>0. l \in Seq(R) /\ Len(l) = k /\ \A i \in 1 .. k : l[i] \in R /\ l[i].load \in Int
  <2>1. l \in Seq(R) /\ Len(l) = k
    BY DEF Lists
  <2>2. \A i \in 1 .. k : l[i] \in R
    <3> HIDE DEF R
    <3> QED BY <2>1
  <2>3. QED
    BY <2>1, <2>2
<1>1. CASE ~ (k > 1 /\ l[1].load > l[2].load)
  <2>1. Reordered(l) = l
    BY <1>0, <1>1, Zenon DEF Reordered
  <2>2. ASSUME NEW i \in 1 .. k, NEW j \in 1 .. k, i <= j PROVE l[i].load <= l[j].load
    <3>1. CASE i # 1
      BY <3>1, <2>2, <1>0 DEF SortedFrom
    <3>2. CASE i = 1 /\ j = 1
      BY <3>2, <1>0
    <3>3. CASE i = 1 /\ j # 1
      <4>1. 2 \in 1 .. k /\ 2 \in 2 .. k /\ j \in 2 .. k /\ 2 <= j /\ k > 1
        BY <3>3
      <4>2. l[2].load <= l[j].load /\ l[1].load <= l[2].load
        BY <4>1, <1>0, <1>1 DEF SortedFrom
      <4>3. 1 \in 1 .. k
        OBVIOUS
      <4>4. QED
        BY <4>1, <4>2, <4>3, <3>3, <1>0
    <3>4. QED
      BY <3>1, <3>2, <3>3
  <2>3. SortedFrom(l, 1)
    BY <1>0, <2>2 DEF SortedFrom
  <2>4. QED
    BY <2>1, <2>3
<1>2. CASE k > 1 /\ l[1].load > l[2].load
  <2>1. Reordered(l) = r
    BY <1>0, <1>2, Zenon DEF Reordered
  <2>2. /\ place \in 1 .. k
        /\ \A i \in 2 .. k : i <= place => l[i].load <= l[1].load
        /\ \A i \in 2 .. k : i > place => l[1].load <= l[i].load
    <3>1. CASE behind = {}
      <4>1. place = k
        BY <3>1, <1>0
      <4>2. QED
        BY <3>1, <4>1, <1>0
    <3>2. CASE behind # {}
      <4>1. behind \subseteq Nat /\ behind \subseteq 2 .. k
        BY <1>0
      <4>2. Min(behind) \in behind /\ \A y \in behind : Min(behind) <= y
        <5> HIDE DEF behind
        <5>1. \E x \in behind : \A y \in behind : x <= y
          BY <3>2, <4>1, Least
        <5>2. QED
          BY <5>1, Zenon DEF Min
      <4> DEFINE m == Min(behind)
      <4>3. m \in 2 .. k /\ place = m - 1 /\ l[m].load > l[1].load
        BY <3>2, <4>1, <4>2
      <4>4. ASSUME NEW i \in 2 .. k, i <= m - 1 PROVE l[i].load <= l[1].load
        <5>1. i \notin behind
          <6> HIDE DEF behind
          <6> QED BY <4>2, <4>3, <4>4
        <5>2. l[i].load \in Int /\ l[1].load \in Int
          BY <1>0
        <5>3. QED
          BY <5>1, <5>2, <1>0
      <4>5. ASSUME NEW i \in 2 .. k, i > m - 1 PROVE l[1].load <= l[i].load
        <5>1. l[m].load <= l[i].load
          BY <4>3, <4>5, <1>0 DEF SortedFrom
        <5>2. l[i].load \in Int /\ l[1].load \in Int /\ l[m].load \in Int
          BY <1>0, <4>3
        <5>3. QED
          BY <5>1, <5>2, <4>3
      <4>6. QED
        BY <4>3, <4>4, <4>5
    <3>3. QED
      BY <3>1, <3>2
  <2> HIDE DEF place
  <2>3. /\ r \in Seq(R) /\ Len(r) = k
        /\ \A i \in 1 .. k : r[i] = IF i < place THEN l[i + 1] ELSE IF i = place THEN l[1] ELSE l[i]
    <3>1. Len(l) >= 1 /\ place \in 1 .. Len(l) /\ l \in Seq(R)
      BY <1>0, <2>2
    <3>2. MovedIs(r, R, l, place)
      <4> HIDE DEF R
      <4> QED BY <3>1, InsertedBehind, Zenon
    <3> HIDE DEF r, R
    <3>3. QED
      BY <1>0, <3>2 DEF MovedIs
  <2> HIDE DEF r, R
  <2>4. ASSUME NEW i \in 1 .. k
        PROVE  \E j \in 1 .. k : r[i] = l[j]
    BY <2>2, <2>3
  <2>5. Within(r, h)
    <3>1. ASSUME NEW i \in 1 .. k, NEW j \in 1 .. k PROVE r[i].load - r[j].load <= h
      <4>1. PICK a \in 1 .. k : r[i] = l[a]
        BY <2>4
      <4>2. PICK b \in 1 .. k : r[j] = l[b]
        BY <2>4
      <4>3. QED
        BY <4>1, <4>2, <1>0 DEF Within
    <3>2. QED
      BY <2>3, <3>1 DEF Within
  <2>6. ASSUME NEW i \in 1 .. k, NEW j \in 1 .. k, i <= j PROVE r[i].load <= r[j].load
    <3>0. l[1].load \in Int /\ place \in Nat
      BY <1>0, <2>2
    <3>1. CASE j < place
      <4>1. r[i] = l[i + 1] /\ r[j] = l[j + 1] /\ i + 1 \in 2 .. k /\ j + 1 \in 2 .. k /\ i + 1 <= j + 1
        BY <3>1, <2>6, <2>2, <2>3
      <4>2. QED
        BY <4>1, <1>0 DEF SortedFrom
    <3>2. CASE i < place /\ j = place
      <4>1. r[i] = l[i + 1] /\ r[j] = l[1] /\ i + 1 \in 2 .. k /\ i + 1 <= place
        BY <3>2, <2>6, <2>2, <2>3
      <4>2. QED
        BY <4>1, <2>2
    <3>3. CASE i < place /\ j > place
      <4>1. r[i] = l[i + 1] /\ r[j] = l[j] /\ i + 1 \in 2 .. k /\ j \in 2 .. k /\ i + 1 <= j
        BY <3>3, <2>6, <2>2, <2>3
      <4>2. QED
        BY <4>1, <1>0 DEF SortedFrom
    <3>4. CASE i = place /\ j = place
      BY <3>4, <3>0, <2>3
    <3>5. CASE i = place /\ j > place
      <4>1. r[i] = l[1] /\ r[j] = l[j] /\ j \in 2 .. k
        BY <3>5, <2>6, <2>2, <2>3
      <4>2. QED
        BY <4>1, <3>5, <2>2
    <3>6. CASE i > place
      <4>1. r[i] = l[i] /\ r[j] = l[j] /\ i \in 2 .. k /\ j \in 2 .. k
        BY <3>6, <2>6, <2>2, <2>3
      <4>2. QED
        BY <4>1, <2>6, <1>0 DEF SortedFrom
    <3>7. QED
      BY <3>0, <3>1, <3>2, <3>3, <3>4, <3>5, <3>6, <2>6
  <2>7. SortedFrom(r, 1)
    BY <2>3, <2>6 DEF SortedFrom
  <2>8. QED
    BY <2>1, <2>3, <2>5, <2>7 DEF Lists, R
<1>3. QED
  BY <1>1, <1>2

-----------------------------------------------------------------------------
Maps(D) == UNION {[T -> Nat] : T \in SUBSET D}

\* The partitions of D over k nodes on the way: no two nodes are further apart than the
\* heaviest task, and the list is sorted but for its first node, which got the last task.
Partitions(D, k) ==
  {s \in [list : Lists(Nat, k), map : Maps(D), heaviest : Nat] :
     SortedFrom(s.list, 2) /\ Within(s.list, s.heaviest)}

Assigned(s, t, cost) ==
  LET list == Reordered(s.list)
  IN  [list |-> [list EXCEPT ![1].load = @ + cost[t]],
       map  |-> Extended(s.map, t, list[1].node),
       heaviest |-> Max({s.heaviest, cost[t]})]

Idle(nodes) ==
  [list |-> [i \in DOMAIN nodes |-> [node |-> nodes[i], load |-> 0]], map |-> Empty, heaviest |-> 0]

Assignments(h, idle, tasks, cost) ==
  h = [x \in SUBSET DOMAIN tasks |->
         IF x = {} THEN idle ELSE Assigned(h[x \ {Max(x)}], tasks[Max(x)], cost)]

\* Partition is the loop over the tasks, FoldLeft, as a function of the sets of indices.
LEMMA PartitionUnfolds ==
  \A nodes, tasks, cost :
    Partition(nodes, tasks, cost) = (CHOOSE h : Assignments(h, Idle(nodes), tasks, cost))[DOMAIN tasks]
BY Zenon DEF Partition, FoldLeft, MapThenFoldSet, Assignments, Assigned, Idle

\* The load of the first node of a sorted list grows by c.
LEMMA GrownIs ==
  ASSUME NEW Y, NEW k \in Nat \ {0}, NEW l \in Lists(Y, k), SortedFrom(l, 1),
         NEW h \in Nat, Within(l, h), NEW c \in Nat, NEW m \in Nat, m >= h, m >= c
  PROVE  LET r == [l EXCEPT ![1].load = @ + c]
         IN  r \in Lists(Y, k) /\ SortedFrom(r, 2) /\ Within(r, m)
<1> DEFINE R == [node : Y, load : Int]
           r == [l EXCEPT ![1].load = @ + c]
<1>0. l \in Seq(R) /\ Len(l) = k /\ l \in [1 .. k -> R]
  <2>1. l \in Seq(R) /\ Len(l) = k
    BY DEF Lists
  <2>2. l \in [1 .. k -> R]
    <3> HIDE DEF R
    <3> QED BY <2>1
  <2>3. QED
    BY <2>1, <2>2
<1>1. \A i \in 1 .. k : l[i] \in R /\ l[i].load \in Int
  BY <1>0
<1>2. 1 \in 1 .. k
  OBVIOUS
<1>3. r \in [1 .. k -> R] /\ r[1].load = l[1].load + c /\ \A i \in 2 .. k : r[i] = l[i]
  <2>1. [l[1] EXCEPT !.load = @ + c] \in R /\ [l[1] EXCEPT !.load = @ + c].load = l[1].load + c
    BY <1>1, <1>2
  <2>2. QED
    BY <1>0, <1>2, <2>1
<1> HIDE DEF r
<1>4. r \in Lists(Y, k) /\ Len(r) = k
  <2>1. r \in Seq(R) /\ Len(r) = k
    <3> HIDE DEF R
    <3> QED BY <1>3
  <2>2. QED
    BY <2>1 DEF Lists
<1>5. SortedFrom(r, 2)
  <2> SUFFICES ASSUME NEW i \in 2 .. k, NEW j \in 2 .. k, i <= j PROVE r[i].load <= r[j].load
    BY <1>4 DEF SortedFrom
  <2>1. r[i] = l[i] /\ r[j] = l[j] /\ i \in 1 .. k /\ j \in 1 .. k
    BY <1>3
  <2>2. QED
    BY <2>1, <1>0 DEF SortedFrom
<1>6. Within(r, m)
  <2> SUFFICES ASSUME NEW i \in 1 .. k, NEW j \in 1 .. k PROVE r[i].load - r[j].load <= m
    BY <1>4 DEF Within
  <2>0. l[i].load \in Int /\ l[j].load \in Int /\ l[1].load \in Int
    BY <1>1, <1>2
  <2>1. CASE i = 1 /\ j = 1
    <3>1. r[1].load \in Int
      BY <2>0, <1>3
    <3>2. QED
      BY <2>1, <3>1
  <2>2. CASE i = 1 /\ j # 1
    <3>1. l[1].load <= l[j].load
      BY <1>2, <1>0 DEF SortedFrom
    <3>2. r[i].load = l[1].load + c /\ r[j] = l[j]
      BY <2>2, <1>3
    <3>3. QED
      BY <2>0, <3>1, <3>2
  <2>3. CASE i # 1 /\ j = 1
    <3>1. l[i].load - l[1].load <= h
      BY <1>2, <1>0 DEF Within
    <3>2. r[j].load = l[1].load + c /\ r[i] = l[i]
      BY <2>3, <1>3
    <3>3. QED
      BY <2>0, <3>1, <3>2
  <2>4. CASE i # 1 /\ j # 1
    <3>1. l[i].load - l[j].load <= h
      BY <1>0 DEF Within
    <3>2. r[j] = l[j] /\ r[i] = l[i]
      BY <2>4, <1>3
    <3>3. QED
      BY <2>0, <3>1, <3>2
  <2>5. QED
    BY <2>1, <2>2, <2>3, <2>4
<1>7. QED
  BY <1>4, <1>5, <1>6 DEF r

\* The greater of two numbers.
LEMMA GreaterOf ==
  ASSUME NEW a \in Nat, NEW b \in Nat
  PROVE  Max({a, b}) \in Nat /\ Max({a, b}) >= a /\ Max({a, b}) >= b
<1>1. \E x \in {a, b} : \A y \in {a, b} : x >= y
  OBVIOUS
<1>2. Max({a, b}) \in {a, b} /\ \A y \in {a, b} : Max({a, b}) >= y
  BY <1>1, Zenon DEF Max
<1>3. QED
  BY <1>2

\* A turn of the loop over the tasks.
LEMMA AssignedIs ==
  ASSUME NEW D, NEW k \in Nat \ {0}, NEW s \in Partitions(D, k), NEW t \in D, NEW cost \in [D -> Nat]
  PROVE  Assigned(s, t, cost) \in Partitions(D, k)
<1> DEFINE l == Reordered(s.list)
           r == [l EXCEPT ![1].load = @ + cost[t]]
           f == Extended(s.map, t, l[1].node)
           m == Max({s.heaviest, cost[t]})
<1>1. s.list \in Lists(Nat, k) /\ SortedFrom(s.list, 2) /\ s.heaviest \in Nat /\ Within(s.list, s.heaviest) /\ s.map \in Maps(D)
  BY DEF Partitions
<1>2. l \in Lists(Nat, k) /\ SortedFrom(l, 1) /\ Within(l, s.heaviest)
  BY <1>1, ReorderedIs
<1> HIDE DEF l
<1>3. cost[t] \in Nat
  OBVIOUS
<1>4. m \in Nat /\ m >= s.heaviest /\ m >= cost[t]
  BY <1>1, <1>3, GreaterOf
<1> HIDE DEF m
<1>5. r \in Lists(Nat, k) /\ SortedFrom(r, 2) /\ Within(r, m)
  BY <1>1, <1>2, <1>3, <1>4, GrownIs
<1> HIDE DEF r
<1>6. l[1].node \in Nat
  <2> DEFINE R == [node : Nat, load : Int]
  <2>1. l \in Seq(R) /\ Len(l) = k
    BY <1>2 DEF Lists
  <2>2. l[1] \in R
    <3> HIDE DEF R
    <3> QED BY <2>1
  <2>3. QED
    BY <2>2
<1>7. f \in Maps(D)
  <2>1. PICK T \in SUBSET D : s.map \in [T -> Nat]
    BY <1>1 DEF Maps
  <2>2. f \in [T \cup {t} -> Nat]
    BY <1>6, <2>1 DEF Extended
  <2>3. T \cup {t} \in SUBSET D
    OBVIOUS
  <2> HIDE DEF f
  <2>4. QED
    BY <2>2, <2>3 DEF Maps
<1> HIDE DEF f
<1>8. Assigned(s, t, cost) = [list |-> r, map |-> f, heaviest |-> m]
  BY DEF Assigned, l, r, f, m
<1>9. QED
  BY <1>4, <1>5, <1>7, <1>8 DEF Partitions

\* Nodes without tasks.
LEMMA IdleIs ==
  ASSUME NEW D, NEW k \in Nat \ {0}, NEW nodes \in [1 .. k -> Nat]
  PROVE  Idle(nodes) \in Partitions(D, k)
<1> DEFINE R == [node : Nat, load : Int]
           l == [i \in 1 .. k |-> [node |-> nodes[i], load |-> 0]]
<1>1. l \in [1 .. k -> R]
  OBVIOUS
<1>2. \A i \in 1 .. k : l[i].load = 0
  OBVIOUS
<1> HIDE DEF l
<1>3. l \in Seq(R) /\ Len(l) = k
  <2> HIDE DEF R
  <2> QED BY <1>1
<1>4. l \in Lists(Nat, k) /\ SortedFrom(l, 2) /\ Within(l, 0)
  <2>1. l \in Lists(Nat, k)
    BY <1>3 DEF Lists
  <2>2. \A i \in 2 .. k : i \in 1 .. k
    OBVIOUS
  <2>3. SortedFrom(l, 2)
    BY <1>2, <1>3, <2>2 DEF SortedFrom
  <2>4. Within(l, 0)
    BY <1>2, <1>3 DEF Within
  <2>5. QED
    BY <2>1, <2>3, <2>4
<1>5. Empty \in Maps(D)
  <2>1. Empty \in [{} -> Nat] /\ {} \in SUBSET D
    BY DEF Empty
  <2>2. QED
    BY <2>1 DEF Maps
<1>6. Idle(nodes) = [list |-> l, map |-> Empty, heaviest |-> 0]
  BY DEF Idle, l
<1>7. QED
  BY <1>4, <1>5, <1>6 DEF Partitions

\* All of them: the partition is even.
LEMMA PartitionIs ==
  ASSUME NEW D, IsFiniteSet(D), NEW tasks \in SetToSeqs(D), NEW k \in Nat \ {0},
         NEW nodes \in [1 .. k -> Nat], NEW cost \in [D -> Nat]
  PROVE  Partition(nodes, tasks, cost) \in Partitions(D, k)
<1> DEFINE n == Cardinality(D)
           S == 1 .. n
           V == Partitions(D, k)
           g == [i \in S |-> [s \in V |-> Assigned(s, tasks[i], cost)]]
           idle == Idle(nodes)
<1>1. n \in Nat /\ tasks \in [S -> D] /\ DOMAIN tasks = S
  <2>1. n \in Nat /\ tasks \in [S -> D]
    BY SequenceOf
  <2>2. QED
    BY <2>1
<1> HIDE DEF n
<1>2. IsFiniteSet(S) /\ Takes(S, LastOf(n))
  BY <1>1, FS_Interval, LastTakes
<1>3. g \in [S -> [V -> V]] /\ idle \in V
  <2>1. \A i \in S : \A s \in V : Assigned(s, tasks[i], cost) \in V
    BY <1>1, AssignedIs
  <2>2. idle \in V
    BY IdleIs
  <2> HIDE DEF V, S
  <2>3. QED
    BY <2>1, <2>2
<1> HIDE DEF V, idle
<1>4. PICK h \in [SUBSET S -> V] : Folds(h, S, LastOf(n), idle, g)
  <2> HIDE DEF g
  <2> QED BY <1>2, <1>3, FoldExists, Zenon
<1>5. h[{}] = idle
  BY <1>4 DEF Folds
<1>6. ASSUME NEW x \in SUBSET S, x # {}
      PROVE  /\ LastOf(n)[x] = Max(x) /\ Max(x) \in S
             /\ h[x] = Assigned(h[x \ {Max(x)}], tasks[Max(x)], cost)
  <2>1. LastOf(n)[x] = Max(x) /\ Max(x) \in S
    BY <1>1, <1>6, Greatest DEF LastOf
  <2>2. h[x] = g[Max(x)][h[x \ {Max(x)}]]
    BY <1>4, <1>6, <2>1 DEF Folds
  <2>3. h[x \ {Max(x)}] \in V
    OBVIOUS
  <2>4. QED
    BY <2>1, <2>2, <2>3
<1> HIDE DEF g
<1>7. Assignments(h, idle, tasks, cost)
  <2> DEFINE G(x) == Assigned(h[x \ {Max(x)}], tasks[Max(x)], cost)
  <2>1. \A x \in SUBSET S : x # {} => h[x] = G(x)
    BY <1>6
  <2> HIDE DEF G
  <2>2. h = [x \in SUBSET S |-> IF x = {} THEN idle ELSE G(x)]
    BY <1>5, <2>1
  <2>3. QED
    BY <1>1, <2>2, Zenon DEF G, Assignments
<1> DEFINE i == CHOOSE h1 : Assignments(h1, idle, tasks, cost)
<1>8. Assignments(i, idle, tasks, cost) /\ Partition(nodes, tasks, cost) = i[S]
  BY <1>1, <1>7, PartitionUnfolds, Zenon DEF idle
<1> HIDE DEF i
<1>9. i[{}] = idle /\ \A x \in SUBSET S : x # {} => i[x] = Assigned(i[x \ {Max(x)}], tasks[Max(x)], cost)
  BY <1>1, <1>8 DEF Assignments
<1>10. \A x \in SUBSET S : h[x] = i[x]
  <2>1. h[{}] = i[{}]
    BY <1>5, <1>9
  <2>2. \A x \in SUBSET S : x # {} /\ h[x \ {LastOf(n)[x]}] = i[x \ {LastOf(n)[x]}] => h[x] = i[x]
    BY <1>6, <1>9
  <2>3. AgreesOn(h, i, S, LastOf(n))
    BY <2>1, <2>2 DEF AgreesOn
  <2> HIDE DEF S
  <2>4. QED
    BY <1>2, <2>3, FoldsAgree
<1>11. QED
  <2>1. h[S] \in V /\ h[S] = i[S]
    BY <1>10
  <2>2. QED
    BY <1>8, <2>1 DEF V

-----------------------------------------------------------------------------
\* The tasks are finitely many.
LEMMA FiniteTasks == IsFiniteSet(TaskIds)
<1>1. IsFiniteSet(1 .. Granularity) /\ Cardinality(1 .. Granularity) = Granularity /\ Granularity \in Nat
  BY PolicyAssumption, FS_Interval
<1>2. IsFiniteSet(SUBSET (1 .. Granularity)) /\ Cardinality(SUBSET (1 .. Granularity)) = 2^Granularity
  BY <1>1, FS_SUBSET
<1>3. 2^Granularity \in Nat
  BY <1>2, FS_CardinalityType
<1>4. QED
  BY <1>3, FS_Interval DEF TaskIds, NumTasks

\* A task costs what its node's load allows for it, and never less than nothing.
LEMMA CostIs ==
  ASSUME NEW load \in [Measured -> Loads], NEW i, TasksOf(i) # {}
  PROVE  work_item_load(i, load) \in Nat
<1>1. CASE i \in Measured
  <2> DEFINE c == Cardinality(TasksOf(i))
  <2>1. c \in Nat /\ c # 0
    <3>1. IsFiniteSet(TasksOf(i))
      <4>1. TasksOf(i) \in SUBSET TaskIds
        BY DEF TasksOf
      <4>2. QED
        BY <4>1, FiniteTasks, FS_Subset
    <3>2. QED
      BY <3>1, FS_CardinalityType, FS_EmptySet
  <2>2. load[i] \in Nat /\ Scale \in Nat
    BY <1>1, InternodeAssumption
  <2>3. Scale * load[i] \in Nat
    BY <2>2
  <2> DEFINE x == Scale * load[i]
  <2> HIDE DEF x, c
  <2>4. x \div c \in Nat
    BY <2>1, <2>3 DEF x
  <2>5. QED
    BY <1>1, <2>4 DEF work_item_load, x, c
<1>2. CASE i \notin Measured
  BY <1>2 DEF work_item_load
<1>3. QED
  BY <1>1, <1>2

\* No two nodes of a partition are further apart than its heaviest task.
IsEven(s) == \A i, j \in DOMAIN s.list : s.list[i].load - s.list[j].load <= s.heaviest

\* Within is the property in terms of the places of the list.
LEMMA PartitionsAreEven ==
  ASSUME NEW D, NEW k \in Nat \ {0}, NEW s \in Partitions(D, k)
  PROVE  IsEven(s)
<1>1. s.list \in Seq([node : Nat, load : Int]) /\ Within(s.list, s.heaviest)
  BY DEF Partitions, Lists
<1>2. DOMAIN s.list = 1 .. Len(s.list)
  BY <1>1
<1>3. QED
  BY <1>1, <1>2 DEF IsEven, Within

\* Another number of nodes: all tasks are distributed over them.
LEMMA RedistributedIsEven ==
  ASSUME NEW load \in [Measured -> Loads], NEW n \in Counts, NEW s \in Redistributed(load, n)
  PROVE  IsEven(s)
<1> DEFINE nodes == [i \in 1 .. n |-> i - 1]
           cost == [t \in TaskIds |-> work_item_load(mapping[t], load)]
<1>1. n \in Nat \ {0}
  <2>1. n \in 1 .. N /\ N \in Nat
    BY CountsAre, PolicyAssumption
  <2>2. QED
    BY <2>1
<1>2. nodes \in [1 .. n -> Nat]
  BY <1>1
<1>3. cost \in [TaskIds -> Nat]
  <2>1. ASSUME NEW t \in TaskIds PROVE work_item_load(mapping[t], load) \in Nat
    <3>1. t \in TasksOf(mapping[t])
      BY DEF TasksOf
    <3>2. QED
      BY <3>1, CostIs
  <2>2. QED
    BY <2>1
<1>4. PICK order \in NodeByNode : s = Partition(nodes, order, cost)
  BY DEF Redistributed
<1>5. order \in SetToSeqs(TaskIds)
  BY DEF NodeByNode
<1> HIDE DEF nodes, cost
<1>6. s \in Partitions(TaskIds, n)
  BY <1>1, <1>2, <1>3, <1>4, <1>5, FiniteTasks, PartitionIs
<1>7. QED
  BY <1>1, <1>6, PartitionsAreEven

\* The same number: the tasks of two nodes are mixed, or none is moved.
LEMMA ExchangedIsEven ==
  ASSUME ~ Throws, NEW load \in [Measured -> Loads], NEW time \in [Measured -> Times],
         NEW top \in Measured, NEW bottom \in Measured, NEW s \in Exchanged(load, time, top, bottom)
  PROVE  IsEven(s)
<1> DEFINE tasks == TasksOf(top) \cup TasksOf(bottom)
           stay == {t \in TaskIds : mapping[t] \in Measured \ {top, bottom}}
           cost == [t \in tasks |-> IF mapping[t] = top THEN (work_item_load(top, load) * time[top]) \div time[bottom]
                                    ELSE work_item_load(bottom, load)]
           nodes == <<top, bottom>>
<1>1. CASE ~ Apart(time, top, bottom)
  <2>1. s = NoTasks
    BY <1>1 DEF Exchanged
  <2>2. QED
    BY <2>1 DEF NoTasks, IsEven
<1>2. CASE Apart(time, top, bottom)
  <2>1. PICK order \in SetToSeqs(tasks) :
          s = [Partition(nodes, order, cost) EXCEPT !.map = @ @@ [t \in stay |-> mapping[t]]]
    BY <1>2 DEF Exchanged
  <2> DEFINE p == Partition(nodes, order, cost)
             d == p.map @@ [t \in stay |-> mapping[t]]
  <2>2. s = [p EXCEPT !.map = d]
    BY <2>1, Zenon
  <2>3. tasks \in SUBSET TaskIds /\ IsFiniteSet(tasks)
    <3>1. tasks \in SUBSET TaskIds
      BY DEF TasksOf
    <3>2. QED
      BY <3>1, FiniteTasks, FS_Subset
  <2>4. nodes \in [1 .. 2 -> Nat]
    <3>1. top \in Nat /\ bottom \in Nat
      BY PolicyAssumption DEF Measured
    <3>2. QED
      BY <3>1
  <2>5. cost \in [tasks -> Nat]
    <3>1. work_item_load(top, load) \in Nat /\ work_item_load(bottom, load) \in Nat
      BY CostIs DEF Throws
    <3>2. time[top] \in Nat /\ time[bottom] \in Nat \ {0}
      BY InternodeAssumption
    <3> DEFINE x == work_item_load(top, load) * time[top]
    <3>3. x \in Nat
      BY <3>1, <3>2
    <3> HIDE DEF x
    <3>4. x \div time[bottom] \in Nat
      BY <3>2, <3>3
    <3> HIDE DEF tasks
    <3>5. QED
      BY <3>1, <3>4 DEF x
  <2> HIDE DEF nodes, cost, tasks, stay
  <2>6. p \in Partitions(tasks, 2)
    <3>1. 2 \in Nat \ {0}
      OBVIOUS
    <3>2. QED
      BY <2>3, <2>4, <2>5, <3>1, PartitionIs
  <2> HIDE DEF p, d
  <2>7. IsEven(p)
    BY <2>6, PartitionsAreEven
  <2>8. s.list = p.list /\ s.heaviest = p.heaviest
    <3>1. p \in [list : Lists(Nat, 2), map : Maps(tasks), heaviest : Nat]
      BY <2>6 DEF Partitions
    <3>2. QED
      BY <2>2, <3>1
  <2>9. QED
    BY <2>7, <2>8 DEF IsEven
<1>3. QED
  BY <1>1, <1>2

\* Both ways of decide_schedule.
LEMMA ScheduleIsEven ==
  ASSUME ~ Throws, NEW load \in [Measured -> Loads], NEW time \in [Measured -> Times],
         NEW n \in Counts, NEW s \in decide_schedule(load, time, n)
  PROVE  IsEven(s)
<1>1. CASE s \in Redistributed(load, n)
  BY <1>1, RedistributedIsEven
<1>2. CASE \E b \in Measured \X Measured : s \in Exchanged(load, time, b[1], b[2])
  <2>1. PICK b \in Measured \X Measured : s \in Exchanged(load, time, b[1], b[2])
    BY <1>2
  <2>2. b[1] \in Measured /\ b[2] \in Measured
    BY <2>1
  <2>3. QED
    BY <2>1, <2>2, ExchangedIsEven
<1>3. QED
  BY <1>1, <1>2 DEF decide_schedule

\* Evenly is a fact about decide_schedule, true in every state.
LEMMA AlwaysEven == Evenly
BY ScheduleIsEven DEF Evenly, IsEven

\* However the tasks are mapped, decide_schedule distributes them so that the loads of no two
\* of the nodes it gives tasks to differ by more than the cost of the heaviest task.
THEOREM TasksAreEven == Spec => []Evenly
BY AlwaysEven, PTL
=============================================================================
