------------------------- MODULE InternodeOptimizer -------------------------
(***************************************************************************)
(* The inter-node optimizer and balance_ino of the global optimizer, which *)
(* drives it: every balancing records how the last choice of a number of   *)
(* nodes did, chooses the next one, by exploration or from the Pareto      *)
(* frontier of what is remembered, and distributes the tasks anew.         *)
(*                                                                         *)
(* The new mapping becomes the tree policy, and the next balancing starts  *)
(* from the mapping that is read back from the tree (SchedulePolicy).  One *)
(* balancing is one step here; SchedulerService has the messages between   *)
(* the measurement and the new policy.                                     *)
(***************************************************************************)
EXTENDS SchedulePolicy

CONSTANTS
  Target, TargetLeeway,  \* ALLSCALE_RESOURCE_MAX and ALLSCALE_RESOURCE_LEEWAY, in percent
  ExplorationSteps,      \* INO_EXPLORATION_PHASE_STEPS (3 in the code)
  RandomEvery,           \* INO_RANDOM_EVERY (3)
  SoftLimit,             \* INO_EXPLORATION_SOFT_LIMIT (10)
  ForgetAfter,           \* INO_DEFAULT_FORGET_AFTER (10000)
  Loads, Times,          \* what a node may report
  Energies,              \* what the nodes may report together
  Scale                  \* the unit of the costs: divisible by every quotient below

ASSUME InternodeAssumption ==
  /\ {Target, TargetLeeway} \subseteq 0 .. 100
  /\ {ExplorationSteps, RandomEvery, SoftLimit, ForgetAfter, Scale} \subseteq Nat \ {0}
  /\ \A s \in {Loads, Times, Energies} : s \subseteq Nat \ {0} /\ s # {}

VARIABLES
  mapping,    \* the mapping of the tree policy
  last,       \* c_last_choice, a number of nodes
  choices,    \* u_choices; beyond the exploration phase only its remainder counts
  past,       \* v_past: per number of nodes the measurements and their age
  fresh,      \* v_explore_logistics that are not b_explored
  explore,    \* s_explore
  forgotten   \* s_forgotten

vars == <<mapping, last, choices, past, fresh, explore, forgotten>>

Percent(p) == (p * N + 99) \div 100     \* of the nodes, rounded up
Counts == Max({1, Percent(Target)}) .. Min({N, Percent(Target + TargetLeeway)})

\* A mapping f in which x is mapped to y; one that maps nothing.
Extended(f, x, y) == [z \in DOMAIN f \cup {x} |-> IF z = x THEN y ELSE f[z]]
Empty == [x \in {} |-> 0]

NoTasks == [list |-> <<>>, map |-> Empty, heaviest |-> 0]

Init ==
  /\ mapping = task_distribution_mapping(create_uniform(Nodes))
  /\ last = 0 /\ choices = 0
  /\ past = Empty
  /\ fresh = Counts
  /\ explore = {} /\ forgotten = {}

SumOf(f) == FoldFunction(LAMBDA a, b : a + b, 0, f)

-----------------------------------------------------------------------------
(***************************************************************************)
(* get_node_configuration.                                                 *)
(***************************************************************************)
\* Time and energy arrive in each other's place.
record_point(load, time, energy) ==
  IF choices = 0 THEN past
  ELSE Extended(past, last, [age |-> 0, load |-> SumOf(load), time |-> energy, energy |-> SumOf(time)])

\* Entries that are too old at the next tick.
Old(p) == {n \in DOMAIN p : p[n].age + 1 > ForgetAfter}

\* Mutant of Forgotten: they are dropped altogether.
Forgotten_dropped(p) == forgotten

Forgotten(p) == forgotten \cup Old(p)

\* One tick later: what is left after try_forget.
Remembered(p) == [n \in DOMAIN p \ Old(p) |-> [p[n] EXCEPT !.age = @ + 1]]

Exploring ==
  \/ choices < ExplorationSteps
  \/ choices > ExplorationSteps /\ (choices - ExplorationSteps + 1) % (RandomEvery + 1) = 0

Smallest(s, k) == {n \in s : Cardinality({m \in s : m < n}) < k}

\* New ones first, then forgotten ones, then those of the past; a number that
\* is there already takes a place all the same.
explore_configurations(p, f) ==
  LET new  == Smallest(fresh, SoftLimit)
      left == SoftLimit - Cardinality(new)
      old  == Smallest(f, left)
  IN  new \cup old \cup Smallest(DOMAIN p, left - Cardinality(old))

\* average_load, average_time and average_energy: sums per node of the choice.
Better(p, criterion, a, b) ==
  CASE criterion = 1 -> p[a].load * b > p[b].load * a
    [] criterion = 2 -> p[a].time * b < p[b].time * a
    [] criterion = 3 -> p[a].energy * b < p[b].energy * a

Sorted(p, criterion) ==
  {s \in SetToSeqs(DOMAIN p) :
     \A i, j \in DOMAIN s : i < j => ~Better(p, criterion, s[j], s[i])}

\* Mutant of Frontier: an entry worse in the next criterion is taken as well.
Frontier_any(p, criterion, frontier) == {frontier \cup DOMAIN p}

\* One pass over the entries sorted by a criterion: the best one, and those no
\* entry of the frontier is better than in the next criterion (which stands
\* for both of the others).
Frontier(p, criterion, frontier) ==
  LET next == (criterion % 3) + 1
      Insert(f, n) == IF \E m \in f : Better(p, next, m, n) THEN f ELSE f \cup {n}
  IN  {FoldLeft(Insert, frontier \cup {s[1]}, s) : s \in Sorted(p, criterion)}

get_best(p) ==
  UNION (UNION {UNION {Frontier(p, 3, f2) : f2 \in Frontier(p, 2, f1)} : f1 \in Frontier(p, 1, {})})

get_node_configuration(load, time, energy) ==
  UNION {
    LET f == Forgotten(recorded)
        p == Remembered(recorded)
        refilled == IF explore = {} THEN explore_configurations(p, f) ELSE explore
        unseen == IF explore = {} THEN fresh \ Smallest(fresh, SoftLimit) ELSE fresh
    IN  IF Exploring
        THEN IF refilled # {}
             THEN {[n |-> n, past |-> p, forgotten |-> f, fresh |-> unseen, explore |-> refilled \ {n}] : n \in refilled}
             ELSE {[n |-> n, past |-> p, forgotten |-> f, fresh |-> unseen, explore |-> {}] : n \in DOMAIN p}
        ELSE {[n |-> n, past |-> p, forgotten |-> f, fresh |-> fresh, explore |-> explore] : n \in get_best(p)}
    : recorded \in {record_point(load, time, energy)}}

-----------------------------------------------------------------------------
(***************************************************************************)
(* decide_schedule.                                                        *)
(***************************************************************************)
\* The loop over the nodes that reported increments its index twice and ends one
\* too late; what it finds are the reports of other nodes (any, here).
Measured == {i \in 0 .. N : i % 2 = 0}

TasksOf(i) == {t \in TaskIds : mapping[t] = i}

\* The average load of a task of node i; nodes that were left out count as 0.
work_item_load(i, load) == IF i \in Measured THEN (Scale * load[i]) \div Cardinality(TasksOf(i)) ELSE 0

\* Mutant of Reordered: the first two nodes change places.
Reordered_behind_one(list) ==
  IF Len(list) > 1 /\ list[1].load > list[2].load
  THEN InsertAt(Tail(list), 2, list[1]) ELSE list

\* The first node is moved behind those that are not loaded more than it is.
Reordered(list) ==
  LET behind == {i \in 2 .. Len(list) : list[i].load > list[1].load}
      place  == IF behind = {} THEN Len(list) ELSE Min(behind) - 1
  IN  IF Len(list) > 1 /\ list[1].load > list[2].load
      THEN InsertAt(Tail(list), place, list[1]) ELSE list

\* Every task, in the order of the sequence, goes to the least loaded node.
Partition(nodes, tasks, cost) ==
  LET Assign(s, t) ==
        LET list == Reordered(s.list)
        IN  [list |-> [list EXCEPT ![1].load = @ + cost[t]],
             map  |-> Extended(s.map, t, list[1].node),
             heaviest |-> Max({s.heaviest, cost[t]})]
      idle == [list |-> [i \in DOMAIN nodes |-> [node |-> nodes[i], load |-> 0]], map |-> Empty, heaviest |-> 0]
  IN  FoldLeft(Assign, idle, tasks)

\* Another number of nodes: all tasks are distributed, node by node (there is one such order).
NodeByNode ==
  {s \in SetToSeqs(TaskIds) :
     \A i, j \in DOMAIN s :
       i < j => mapping[s[i]] < mapping[s[j]] \/ (mapping[s[i]] = mapping[s[j]] /\ s[i] < s[j])}

Redistributed(load, n) ==
  {Partition([i \in 1 .. n |-> i - 1], order, [t \in TaskIds |-> work_item_load(mapping[t], load)]) :
     order \in NodeByNode}

\* Twice the standard deviation, as the code has it: the square of the
\* difference against the variance times the square root of 2.
Apart(time, top, bottom) ==
  LET m   == Cardinality(Measured)
      sum == SumOf(time)
      deviation == SumOf([i \in Measured |-> (m * time[i] - sum) * (m * time[i] - sum)])
  IN  /\ deviation > 0
      /\ 1000 * (time[top] - time[bottom]) * (time[top] - time[bottom]) * m * m * (m - 1) >= 1414 * deviation

\* The same number: the tasks of the slowest and of the fastest node are mixed;
\* those of the other nodes that reported stay.  Equal times sort in any order.
Exchanged(load, time, top, bottom) ==
  LET tasks == TasksOf(top) \cup TasksOf(bottom)
      stay  == {t \in TaskIds : mapping[t] \in Measured \ {top, bottom}}
      cost(t) == IF mapping[t] = top THEN (work_item_load(top, load) * time[top]) \div time[bottom]
                 ELSE work_item_load(bottom, load)
  IN  IF ~Apart(time, top, bottom) THEN {NoTasks}
      ELSE {[s EXCEPT !.map = @ @@ [t \in stay |-> mapping[t]]] :
              s \in {Partition(<<top, bottom>>, order, [t \in tasks |-> cost(t)]) :
                       order \in SetToSeqs(tasks)}}

decide_schedule(load, time, n) ==
  IF Cardinality(Measured) # n \/ Cardinality(Measured) < 2
    THEN Redistributed(load, n)
    ELSE UNION {Exchanged(load, time, b[1], b[2]) :
                  b \in {b \in Measured \X Measured :
                           b[1] # b[2] /\ \A i \in Measured : time[b[2]] <= time[i] /\ time[i] <= time[b[1]]}}

-----------------------------------------------------------------------------
(***************************************************************************)
(* balance_ino.                                                            *)
(***************************************************************************)
\* node_map.at of a node that reported and has no task, or that does not
\* exist, throws: the exception ends in a future nobody looks at.
Throws == \E i \in Measured : TasksOf(i) = {}

\* The new policy's mapping, as the next balancing reads it.
ReadBack == [map \in Mapping |-> task_distribution_mapping(from_mapping(map))]

\* Tasks the schedule does not name go to node 0.
Applied(map) ==
  IF DOMAIN map = {} THEN mapping
  ELSE ReadBack[[t \in TaskIds |-> IF t \in DOMAIN map THEN map[t] ELSE 0]]

balance_ino(load, time, energy) ==
  \E k \in get_node_configuration(load, time, energy) :
    /\ last' = k.n /\ past' = k.past /\ forgotten' = k.forgotten /\ fresh' = k.fresh /\ explore' = k.explore
    /\ choices' = IF choices = ExplorationSteps + RandomEvery THEN ExplorationSteps ELSE choices + 1
    /\ mapping' \in {Applied(s.map) : s \in IF Throws THEN {NoTasks} ELSE decide_schedule(load, time, k.n)}

Next ==
  \E load \in [Measured -> Loads], time \in [Measured -> Times], energy \in Energies :
    balance_ino(load, time, energy)

Spec == Init /\ [][Next]_vars

\* Root work items keep coming, every twentieth of them balances.  A balancing is
\* always possible and always counts, so this is the weak fairness of Next.
FairSpec == Spec /\ []<><<TRUE>>_vars

-----------------------------------------------------------------------------
(* Properties.                                                             *)

\* "Computes the pareto frontier and returns one configuration from it": a
\* choice that is not an exploration is never worse, in load, time and energy,
\* than another number of nodes that is remembered.
ParetoOptimal ==
  [][~Exploring => \A n \in DOMAIN past' : \E criterion \in 1 .. 3 : ~Better(past', criterion, n, last')]_vars

\* decide_schedule distributes "evenly": the loads of the nodes that get tasks
\* differ by no more than the cost of the heaviest of them.
Evenly ==
  ~Throws => \A load \in [Measured -> Loads], time \in [Measured -> Times], n \in Counts :
    \A s \in decide_schedule(load, time, n) :
      \A i, j \in DOMAIN s.list : s.list[i].load - s.list[j].load <= s.heaviest

\* No number of nodes is given up for good: each is tried again and again, as
\* those that are not in use are forgotten and then explored anew.
TriedAgain == \A n \in Counts : []<>(last = n)

\* balance_ino is to "compute the new ino_knobs (i.e. number of Nodes), then
\* assign tasks to nodes": as many nodes are in use as were chosen.
ChosenNodesUsed == last # 0 => Cardinality(Range(mapping)) = last
=============================================================================
