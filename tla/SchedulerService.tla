--------------------------- MODULE SchedulerService ---------------------------
(***************************************************************************)
(* How the scheduling policy of the root's scheduler_service changes while *)
(* the program runs: by commands (set_policy, toggle_node), by the         *)
(* balancing of the global optimizer with its tuner, and by the inter-node *)
(* optimizer.  policy_ and active_nodes_ have a lock each; an operation    *)
(* that changes both takes one after the other, so that operations         *)
(* interleave between the two.                                             *)
(***************************************************************************)
EXTENDS SchedulePolicy

CONSTANTS
  Frequencies,   \* the positions in the list of available frequencies, 1 .. k
  InoMappings,   \* the mappings the inter-node optimizer comes up with
  PolicyNames,   \* the policies the program starts with and set_policy is called for
  Toggled        \* the nodes toggle_node is called for

Values == {"static", "dynamic", "tuned", "ino", "random"}

ASSUME ServiceAssumption ==
  /\ Frequencies \subseteq Nat /\ Frequencies # {} /\ Frequencies = 1 .. Cardinality(Frequencies)
  /\ InoMappings \subseteq Mapping
  /\ PolicyNames \subseteq Values /\ PolicyNames # {} /\ Toggled \subseteq Nodes

VARIABLES
  value,     \* replacable_policy::value_
  tree,      \* the decision tree of replacable_policy::policy_, if it is a tree policy
  wanted,    \* history: the mapping that tree was made from
  active,    \* global_optimizer::active_nodes_
  freq,      \* global_optimizer::active_frequency_
  tuner,     \* simple_coordinate_descent: best configuration, dimension, direction
  ops,       \* operations that have released one lock and not yet taken the next
  running    \* FALSE from the division by the number of active nodes when there is none

vars == <<value, tree, wanted, active, freq, tuner, ops, running>>

\* The position std::find returns for a value that is not in the list of frequencies.
Unknown == Cardinality(Frequencies) + 1

\* In place of the tree: there is none, and what is read through a wrong cast.
NoTree  == [p \in Paths |-> "random"]
BadTree == [p \in Paths |-> "undefined"]
Uniform(mask) == getEqualDistribution(mask)

Init ==
  /\ value \in PolicyNames
  /\ wanted = Uniform(Nodes)
  /\ tree = IF value = "random" THEN NoTree ELSE create_uniform(Nodes)
  /\ active = Nodes
  /\ freq \in Frequencies \cup {Unknown}     \* not initialised
  /\ tuner \in [mask : {Nodes}, freq : Frequencies, dim : {"nodes"}, dir : {"down"}]
  /\ ops = {} /\ running = TRUE

\* Bound: one command and one balancing are under way at a time.
IsCommand(o) == o.op \in {"set_policy", "toggle"}
Begin(op) ==
  /\ running /\ \A o \in ops : IsCommand(o) # IsCommand(op)
  /\ ops' = ops \cup {op}
End(op) == running /\ op \in ops /\ ops' = ops \ {op}
Continue(op, next_op) == running /\ op \in ops /\ ops' = (ops \ {op}) \cup {next_op}

-----------------------------------------------------------------------------
(***************************************************************************)
(* Commands.                                                               *)
(***************************************************************************)
set_policy_nodes(v) ==
  /\ Begin([op |-> "set_policy", value |-> v])
  /\ active' = Nodes
  /\ UNCHANGED <<value, tree, wanted, freq, tuner, running>>

set_policy(o) ==
  /\ o.op = "set_policy" /\ End(o)
  /\ value' = o.value
  /\ wanted' = Uniform(Nodes)
  /\ tree' = IF o.value = "random" THEN NoTree ELSE create_uniform(Nodes)
  /\ UNCHANGED <<active, freq, tuner, running>>

\* The bit is flipped, whether or not another node is active, ...
toggle_node_active(n) ==
  /\ Begin([op |-> "toggle"])
  /\ active' = IF n \in active THEN active \ {n} ELSE active \cup {n}
  /\ UNCHANGED <<value, tree, wanted, freq, tuner, running>>

\* ... and the tasks are distributed evenly among the nodes that are active then, ...
toggle_node(o) ==
  /\ o.op = "toggle" /\ End(o)
  /\ active # {}
  /\ value' = IF value = "random" THEN "static" ELSE value
  /\ wanted' = Uniform(active)
  /\ tree' = create_uniform(active)
  /\ UNCHANGED <<active, freq, tuner, running>>

\* ... by a division by their number, which is not tested.
toggle_node_ends(o) ==
  /\ o.op = "toggle" /\ End(o)
  /\ active = {}
  /\ running' = FALSE
  /\ UNCHANGED <<value, tree, wanted, active, freq, tuner>>

-----------------------------------------------------------------------------
(***************************************************************************)
(* The tuner: a coordinate descent over the number of nodes and the        *)
(* frequency.  How the score of the current configuration compares with    *)
(* the best one is data.                                                   *)
(***************************************************************************)
inc(mask) == IF mask = Nodes THEN {} ELSE {mask \cup {Min(Nodes \ mask)}}

\* Mutant of dec: the last node is deactivated, too.
dec_unguarded(mask) == {mask \ {n \in mask : \A m \in mask : m <= n}}

\* Of no active nodes, none is deactivated.
dec(mask) ==
  IF Cardinality(mask) = 1 THEN {} ELSE {mask \ {n \in mask : \A m \in mask : m <= n}}

\* Mutant of incFreq: the end of the list is not tested.
incFreq_unguarded(f) == {f + 1}

\* Of an unknown frequency, inc reads past the end of the list and dec its last entry.
incFreq(f) == IF f = Unknown THEN Frequencies \cup {Unknown} ELSE {f + 1} \cap Frequencies
decFreq(f) == {f - 1} \cap Frequencies

next_direction(t) ==
  IF t.dir = "up" THEN [t EXCEPT !.dir = "down"]
  ELSE [t EXCEPT !.dir = "up", !.dim = IF @ = "nodes" THEN "frequency" ELSE "nodes"]

\* The configurations one step from the best one in the tuner's direction.
Candidates(t) ==
  IF t.dim = "nodes"
  THEN {<<m, t.freq>> : m \in (IF t.dir = "up" THEN inc(t.mask) ELSE dec(t.mask))}
  ELSE {<<t.mask, f>> : f \in (IF t.dir = "up" THEN incFreq(t.freq) ELSE decFreq(t.freq))}

\* The loop of next: turn until there is a configuration in the direction.  It does not
\* end, and there is no result, when there is none in all four.
Turned(t) ==
  LET turn[k \in 0 .. 3] == IF k = 0 THEN t ELSE next_direction(turn[k - 1])
      ways == {k \in 0 .. 3 : Candidates(turn[k]) # {}}
  IN  {turn[k] : k \in {k \in ways : \A j \in ways : k <= j}}

\* simple_coordinate_descent::next, as the set of its results; cmp compares the current
\* score with the best one ("other": they are equal, or a score is not a number).  The
\* first comparison is with a best_score that has not been initialised.
next(cmp) ==
  Turned(CASE cmp = "less"  -> next_direction(tuner)
           [] cmp = "more"  -> [tuner EXCEPT !.mask = active, !.freq = freq]
           [] cmp = "other" -> tuner)

\* balance: the load of all nodes is collected; whether to tune is decided by now.
balance ==
  /\ value \in {"dynamic", "tuned"}
  /\ Begin([op |-> "collect", tuned |-> value = "tuned"])
  /\ UNCHANGED <<value, tree, wanted, active, freq, tuner, running>>

\* The continuation, when all answers are there: nothing to tune, or the nodes are not
\* evenly loaded, of which there have to be two.
balance_uneven(o) ==
  /\ o.op = "collect" /\ (o.tuned => Cardinality(active) > 1)
  /\ Continue(o, [op |-> "enforce"])
  /\ UNCHANGED <<value, tree, wanted, active, freq, tuner, running>>

\* tune: the nodes are evenly loaded, and the tuner chooses the next configuration.
tune(o, cmp) ==
  /\ o.op = "collect" /\ o.tuned
  /\ tuner' \in next(cmp)
  /\ \E c \in Candidates(tuner') : active' = c[1] /\ freq' = c[2]
  /\ Continue(o, [op |-> "enforce"])
  /\ UNCHANGED <<value, tree, wanted, running>>

\* The nodes and the frequency to use from now on are broadcast to all services; they are
\* read without the lock.
balance_enforce(o) ==
  /\ o.op = "enforce"
  /\ Continue(o, [op |-> "balance", mask |-> active, freq |-> freq])
  /\ UNCHANGED <<value, tree, wanted, active, freq, tuner, running>>

\* update_policy: another policy has been set meanwhile.
update_policy_ignored(o) ==
  /\ o.op = "balance" /\ End(o)
  /\ value \notin {"dynamic", "tuned"}
  /\ UNCHANGED <<value, tree, wanted, active, freq, tuner, running>>

\* update_policy: the new policy is computed from the current one, without a lock ...
update_policy(o) ==
  /\ o.op = "balance"
  /\ value \in {"dynamic", "tuned"}
  /\ \E map \in Rebalanced(task_distribution_mapping(tree)) :
       Continue(o, [op |-> "update", mask |-> o.mask, freq |-> o.freq, map |-> map])
  /\ UNCHANGED <<value, tree, wanted, active, freq, tuner, running>>

\* ... the nodes are stored, ...
update_policy_nodes(o) ==
  /\ o.op = "update" /\ Continue(o, [op |-> "updated", map |-> o.map])
  /\ active' = o.mask /\ freq' = o.freq
  /\ UNCHANGED <<value, tree, wanted, tuner, running>>

\* ... and the policy.
update_policy_store(o) ==
  /\ o.op = "updated" /\ End(o)
  /\ wanted' = o.map
  /\ tree' = toDecisionTree(o.map)
  /\ UNCHANGED <<value, active, freq, tuner, running>>

\* balance_ino: the mapping is broadcast and applied later, whatever the policy then is.
balance_ino(map) ==
  /\ value = "ino"
  /\ Begin([op |-> "ino", map |-> map])
  /\ UNCHANGED <<value, tree, wanted, active, freq, tuner, running>>

\* The policy is cast to a tree policy without a test.
apply_new_mapping(o) ==
  /\ o.op = "ino" /\ End(o)
  /\ wanted' = o.map
  /\ tree' = IF tree = NoTree THEN BadTree ELSE from_mapping(o.map)
  /\ UNCHANGED <<value, active, freq, tuner, running>>

-----------------------------------------------------------------------------
\* The program has ended.
Ended == ~running /\ UNCHANGED vars

Next ==
  \/ \E v \in PolicyNames : set_policy_nodes(v)
  \/ \E n \in Toggled : toggle_node_active(n)
  \/ balance
  \/ \E map \in InoMappings : balance_ino(map)
  \/ \E o \in ops : \/ set_policy(o) \/ toggle_node(o) \/ toggle_node_ends(o)
                    \/ balance_uneven(o) \/ balance_enforce(o)
                    \/ \E cmp \in {"less", "other", "more"} : tune(o, cmp)
                    \/ update_policy(o) \/ update_policy_ignored(o)
                    \/ update_policy_nodes(o) \/ update_policy_store(o)
                    \/ apply_new_mapping(o)
  \/ Ended

Spec == Init /\ [][Next]_vars

-----------------------------------------------------------------------------
IsTree == tree \notin {NoTree, BadTree}

Operation ==
  [op : {"set_policy"}, value : Values] \cup [op : {"toggle", "enforce"}]
  \cup [op : {"collect"}, tuned : BOOLEAN]
  \cup [op : {"balance"}, mask : SUBSET Nodes, freq : Frequencies \cup {Unknown}]
  \cup [op : {"update"}, mask : SUBSET Nodes, freq : Frequencies \cup {Unknown}, map : Mapping]
  \cup [op : {"updated", "ino"}, map : Mapping]

\* Somebody is active wherever a set of active nodes is kept or on its way.
SomebodyActive ==
  /\ active # {} /\ tuner.mask # {}
  /\ \A o \in ops : o.op \in {"balance", "update"} => o.mask # {}

\* The types of the service's state.  A tree policy is only missing while the random
\* policy is in use (static_cast in update_policy), and the frequency never leaves the
\* list by more than the position behind its end.
TypeOK ==
  /\ value \in Values /\ wanted \in Mapping
  /\ tree \in Tree \cup {NoTree} /\ (tree = NoTree <=> value = "random")
  /\ active \in SUBSET Nodes /\ freq \in Frequencies \cup {Unknown}
  /\ tuner \in [mask : SUBSET Nodes, freq : Frequencies \cup {Unknown},
                dim : {"nodes", "frequency"}, dir : {"up", "down"}]
  /\ ops \subseteq Operation
  /\ running \in BOOLEAN

\* The tuner, which deactivates one node after the other, and all the ways a selection of
\* nodes takes between the optimizer and the policies leave somebody active; nobody is only
\* when toggle_node is called for the last active node.
SomebodyStaysActive ==
  [][SomebodyActive /\ ~SomebodyActive' =>
       \E n \in Toggled : toggle_node_active(n) /\ active = {n}]_vars

\* The assertion of create_uniform, "assert_lt(0, std::count(mask.begin(), mask.end(), true))":
\* a policy is always made for some nodes, so that getEqualDistribution never divides by zero.
SomeNodesInMask == running

\* Where a task gets from the root by the decisions of the virtual nodes.
Way(p) ==
  LET way[k \in 0 .. MaxDepth] ==
        IF k = 0 THEN <<Root>>
        ELSE LET before == way[k - 1]
             IN  Append(before, Move(Last(before), decide(tree, Last(before), p)))
  IN  way[MaxDepth]

\* The local answers of decide lead a task from the root to the target of its path
\* (get_target, which check_target asserts), over virtual nodes that exist and that
\* consider themselves involved (is_involved, the test of schedule_down).
Routed ==
  IsTree => \A p \in Paths :
    LET way == Way(p)
    IN  /\ Last(way) = get_target(tree, p)
        /\ \A a \in Range(way) : a \in VirtualNodes /\ is_involved(tree, a, p)

Ordered(map) == \A i, j \in TaskIds : i < j => map[i] <= map[j]

\* The tree a policy is made of realises the mapping it was made from: reading the
\* mapping back (task_distribution_mapping, from which the next policy is computed)
\* gives the same one, however often the policy has been rebalanced - if the mapping
\* has the localities in order, which fillTree relies on.
Realised == IsTree /\ Ordered(wanted) => task_distribution_mapping(tree) = wanted

\* Rebalancing moves tasks between neighbours and never takes the last one of a locality,
\* nor gives one to a locality that had none: the same localities take part as before.
SameNodesTakePart ==
  [][\A o \in ops' \ ops : o.op = "update" =>
       Range(o.map) = Range(task_distribution_mapping(tree))]_vars

\* "enforce selected number of nodes" (global_optimizer::balance, step 3): once the update
\* has arrived, tasks are sent to the nodes the tuner has selected only.
SelectedNodesEnforced ==
  value = "tuned" /\ ops = {} => Range(task_distribution_mapping(tree)) \subseteq active
=============================================================================
