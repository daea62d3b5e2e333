---------------------------- MODULE SchedulePolicy ----------------------------
(***************************************************************************)
(* The tree scheduling policy: how a mapping of task paths to localities   *)
(* is encoded as a tree of local decisions, how the virtual nodes of the   *)
(* overlay read it, and how the mappings are made.                         *)
(*                                                                         *)
(* A task path is the sequence of its turns, 0 to the left and 1 to the    *)
(* right.  A mapping assigns a locality to each of the 2^Granularity paths *)
(* of length Granularity, from left to right.                              *)
(***************************************************************************)
EXTENDS Integers, FiniteSets, SequencesExt

CONSTANTS
  N,            \* the number of localities
  Granularity   \* granularity_: the length of the paths that are mapped

H == INSTANCE Hierarchy

ASSUME PolicyAssumption ==
  /\ N \in Nat \ {0}
  /\ Granularity \in Nat /\ 2^Granularity >= N

Nodes     == 0 .. N - 1
NumTasks  == 2^Granularity
TaskIds   == 0 .. NumTasks - 1
Mapping   == [TaskIds -> Nodes]
Decisions == {"done", "stay", "left", "right"}

\* The encoded tree has room for paths of twice the length of those mapped.
Paths == UNION {[1 .. n -> {0, 1}] : n \in 0 .. 2 * Granularity}
Tree  == [Paths -> Decisions]

Root      == H!getRootOfNetworkSize(N)
VirtualNodes == H!Addresses(N)
MaxDepth  == H!CeilLog2(N)

-----------------------------------------------------------------------------
(***************************************************************************)
(* From a mapping to decisions.  fillTree visits the paths from the root:  *)
(* a visit is in charge of the tasks [min, max) of the mapping and knows   *)
(* that they are within the localities [lo, hi).                           *)
(***************************************************************************)
\* Mutant of Decision: the locality at the center is taken to be on the left.
DecisionOff(map, v) ==
  LET center == v.lo + (v.hi - v.lo) \div 2
      first  == map[v.min]
      last   == IF v.min = v.max THEN first ELSE map[v.max - 1]
  IN  IF last <= center THEN "left" ELSE IF center < first THEN "right" ELSE "stay"

Decision(map, v) ==
  LET center == v.lo + (v.hi - v.lo) \div 2
      first  == map[v.min]
      last   == IF v.min = v.max THEN first ELSE map[v.max - 1]
  IN  IF last < center THEN "left" ELSE IF center <= first THEN "right" ELSE "stay"

NextVisit(map, v, turn) ==
  LET center == v.lo + (v.hi - v.lo) \div 2
      mid    == v.min + (v.max - v.min) \div 2
      d      == Decision(map, v)
  IN  [depth |-> IF d = "stay" THEN v.depth ELSE v.depth + 1,
       lo  |-> IF d = "right" THEN center ELSE v.lo,
       hi  |-> IF d = "left" THEN center ELSE v.hi,
       min |-> IF turn = 0 THEN v.min ELSE mid,
       max |-> IF turn = 0 THEN mid ELSE v.max]

Visits(map) ==
  LET visit[p \in Paths] ==
        IF p = <<>>
        THEN [depth |-> 0, lo |-> 0, hi |-> 2^MaxDepth, min |-> 0, max |-> NumTasks]
        ELSE LET v == visit[Front(p)]
             IN  IF v.depth >= MaxDepth THEN v ELSE NextVisit(map, v, Last(p))
  IN  visit

fillTree ==
  [map \in Mapping |->
     LET visit == Visits(map)
     IN  [p \in Paths |-> IF visit[p].depth >= MaxDepth THEN "done" ELSE Decision(map, visit[p])]]

toDecisionTree(map) == fillTree[map]

-----------------------------------------------------------------------------
(***************************************************************************)
(* What the virtual nodes read from the tree.                              *)
(***************************************************************************)
Move(a, d) ==
  CASE d = "left"  -> H!getLeftChild(a)
    [] d = "right" -> H!getRightChild(a)
    [] OTHER       -> a

\* decision_tree::get: below the encoded paths nothing is decided.
get(tree, p) == IF p \in DOMAIN tree THEN tree[p] ELSE "done"

\* get_target of p and of all paths above it.
Targets(tree, p) ==
  LET target[n \in 0 .. Len(p)] ==
        LET a == IF n = 0 THEN Root ELSE target[n - 1]
        IN  IF H!isLeaf(a) THEN a ELSE Move(a, get(tree, SubSeq(p, 1, n)))
  IN  target

get_target(tree, p) == Targets(tree, p)[Len(p)]

\* Mutant of decide: a node that has passed the task on decides again, by the whole path.
decide_again(tree, a, p) == IF H!isLeaf(a) THEN "stay" ELSE get(tree, p)

\* decide: the decision for the longest path above p (or p) whose parent's target is `a'.
decide(tree, a, p) ==
  LET target == Targets(tree, p)
      here   == {n \in 1 .. Len(p) : target[n - 1] = a}
  IN  CASE H!isLeaf(a)         -> "stay"
        [] ~H!isLeaf(a) /\ here # {} -> get(tree, SubSeq(p, 1, Max(here)))
        [] ~H!isLeaf(a) /\ here = {} -> IF a = Root THEN get(tree, <<>>) ELSE "stay"

is_involved(tree, a, p) ==
  LET target == Targets(tree, p)
  IN  a = Root \/ \E n \in 0 .. Len(p) : target[n] = a

\* The path of task i, and the locality its leftmost descendants end on.
PathOf(i) == [k \in 1 .. Granularity |-> (i \div 2^(Granularity - k)) % 2]

traceTarget(tree, p) ==
  LET down(n) == p \o [k \in 1 .. n |-> 0]
      n == Min({m \in 0 .. Granularity : H!isLeaf(get_target(tree, down(m)))})
  IN  H!getRank(get_target(tree, down(n)))

task_distribution_mapping(tree) == [i \in TaskIds |-> traceTarget(tree, PathOf(i))]

-----------------------------------------------------------------------------
(***************************************************************************)
(* Making mappings.                                                        *)
(***************************************************************************)
\* getEqualDistribution: the loop looks at as many nodes as are active.  The active ones
\* before a node have got their shares, and those first in line one task more.
getEqualDistribution(mask) ==
  LET count == Cardinality(mask)
      Before(n) == Cardinality(mask \cap 0 .. n - 1)
      Given(k)  == k * (NumTasks \div count) + Min({k, NumTasks % count})
      Gets(n, i) == Given(Before(n)) <= i /\ i < Given(Before(n) + 1)
      seen == mask \cap 0 .. count - 1
  IN  [i \in TaskIds |->
         IF \E n \in seen : Gets(n, i) THEN CHOOSE n \in seen : Gets(n, i) ELSE 0]

create_uniform(mask) == toDecisionTree(getEqualDistribution(mask))

\* How many tasks a mapping gives to each node, and the mapping that gives each node
\* as many as c says, in the order of the nodes.
Contribution(map) == [n \in Nodes |-> Cardinality({i \in TaskIds : map[i] = n})]

Refill(map, c) ==
  LET start[n \in 0 .. N] == IF n = 0 THEN 0 ELSE start[n - 1] + c[n - 1]
  IN  [i \in TaskIds |-> IF \E n \in Nodes : start[n] <= i /\ i < start[n + 1]
                         THEN CHOOSE n \in Nodes : start[n] <= i /\ i < start[n + 1]
                         ELSE map[i]]

Shift(c, from, to) == [c EXCEPT ![from] = @ - 1, ![to] = @ + 1]
Neighbours(n) == {n - 1, n + 1} \cap Nodes
HasAverage(c0, m) == m \in Nodes => c0[m] # 0

\* eligable_max and eligable_min, as the sets of their results: what node n does when its
\* average is above or below the confidence interval.  The averages are data: any outcome
\* of a comparison is possible, except that one with a node that has no tasks (0 / 0) is
\* false, so that the neighbour on the right, or on the left, is looked at.
eligable_max(c0, c, n) ==
  {c} \cup {Shift(c, n, m) : m \in {m \in Neighbours(n) :
                /\ c[n] # 1 /\ c0[n] # 0 /\ c0[m] # 0
                /\ m = n - 1 => HasAverage(c0, n + 1)}}

\* Mutant of eligable_min: the neighbour may lose its last task.
eligable_min_unguarded(c0, c, n) ==
  {c} \cup {Shift(c, m, n) : m \in {m \in Neighbours(n) :
                /\ c0[n] # 0 /\ c0[m] # 0
                /\ m = n + 1 => HasAverage(c0, n - 1)}}

eligable_min(c0, c, n) ==
  {c} \cup {Shift(c, m, n) : m \in {m \in Neighbours(n) :
                /\ c[m] # 1 /\ c0[n] # 0 /\ c0[m] # 0
                /\ m = n + 1 => HasAverage(c0, n - 1)}}

\* create_rebalanced from measured times: every node shifts at most one task.  The mask
\* is not looked at.
Rebalanced(map) ==
  LET c0 == Contribution(map)
      after[n \in 0 .. N] ==
        IF n = 0 THEN {c0}
        ELSE UNION {eligable_max(c0, c, n - 1) \cup eligable_min(c0, c, n - 1) : c \in after[n - 1]}
  IN  {Refill(map, c) : c \in after[N]} \cup {map}

from_mapping(map) == toDecisionTree(map)
=============================================================================
