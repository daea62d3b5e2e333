# A TLA+ model of the AllScale runtime

The AllScale runtime executes a tree of recursive tasks on a cluster of
*localities* (HPX processes) and moves the data the tasks need along with them.
This directory holds TLA+ specifications of its core, TLC configurations that
check them on small instances, and proofs checked by TLAPS.

Paths below are relative to the root of the repository; `D/` stands for
`allscale/data_item_manager/`.

## 1. The system

### Components

| Component | State | Operations | What is hard |
|---|---|---|---|
| **Overlay hierarchy** (`allscale/hierarchy.hpp`, `src/hierarchy.cpp`) | none; a locality hosts the virtual nodes (rank, layer) of a binary tree over all ranks | parent, children, layers on a rank, root | numbers of localities that are no power of two: some inner nodes have no right child |
| **Data item index** (`D/index_service.hpp`, `D/location_info.hpp`) | per virtual node and data item: `full_`, `left_`, `right_`, `location_cache_` | allowances, `acquire_ownership(_for)`, `collect_child_ownerships`, `locate`, `update_cache` | calls of many tasks cross each other in the tree, one lock section at a time; cached locations go stale |
| **Data acquisition** (`D/acquire.hpp`, `D/check_write_requirements.hpp`, `D/data_item_view.hpp`, ...) | requirements and allowances travelling with a task | check, acquire, transfer, resize | what was missing is computed in one lock section and used in another; a migrating view leaves its fragment when it is serialised |
| **Data item store and manager** (`D/data_item_store.hpp`, `data_item_manager.hpp`, ...) | fragment and lock of each locality | create, destroy, get, lazy fetch of shared data | creation and first use on different localities |
| **Scheduler service** (`src/scheduler.cpp`) | one per virtual node: current policy, optimizer | `schedule`, `schedule_down`, policy changes | a task walks through nodes that change meanwhile; policy and mask have separate locks |
| **Schedule policies** (`src/schedule_policy.cpp`) | an encoded decision tree | `decide`, `get_target`, `is_involved`, make uniform / rebalanced / given mappings | local decisions must agree; encoding and reading back must agree |
| **Global optimizer and tuner** (`src/optimizer.cpp`, `src/tuner.cpp`) | active nodes, frequency, best configuration, direction | `balance`, `tune`, `next`, `balance_ino` | updates arrive late; uninitialised members |
| **Local scheduler** (`src/components/scheduler_component.cpp`) | thread pools, frequency, time of the last measurement and step | `schedule_local`, `optimize_locally`, fix the frequency | two periods tested one after the other; calls that have been commented out |
| **Task ids and work items** (`allscale/task_id.hpp`, `detail/work_item_impl.hpp`, `spawn.hpp`, ...) | requirement, dependencies, treeture | spawn, split, process, finalize | dependencies and data acquisition are ordered by continuations only |
| **Treetures** (`allscale/treeture.hpp`, ...) | shared state with a value, or the id of a remote one | set, get, children, serialise | the handle of a child of a task that is somewhere else |
| **Resilience** (`src/components/resilience_component.cpp`) | ring of guards and protectees, heartbeats, dispatched items, running ranks | heartbeat loop, recovery, announcement, `shutdown` | crashes at any moment; timeouts; recovery by remote calls that block |
| **Monitor** (`src/components/monitor_component.cpp`) | two queues of profiles and a worker, counters, task times | handlers of work items, sampling, `stop` | a condition variable without a predicate; counters read and reset |
| **Task times** (`src/task_times.cpp`) | a float per tracked task path | add, subtract, read | a coarse task is spread over finer ones in integers, what is kept is rounded |
| **Local optimizer** (`src/components/localoptimizer.cpp`, `nmsimplex_bbincr.cpp`) | samples per objective, simplex, chosen frequency | measure, warm-up, Nelder-Mead steps, convergence | a search that is one state machine over several calls; unsigned wrap-around |
| **Inter-node optimizer** (`src/components/internodeoptimizer.cpp`, `.hpp`) | per number of nodes the measurements and their age; numbers to explore | explore, forget, Pareto frontier, `decide_schedule` | what is forgotten must be tried again |
| **Dashboard, power and hardware** | measurements | printing, files of the operating system | I/O |

### How they interact

A task that is spawned enters `scheduler_service::schedule` at some virtual
node. The node asks the **policy** whether it is involved in the task. If not,
the task goes up, otherwise down, and at each node on the way down the
**index** entry of that node can hand out an *allowance* for elements nobody
owns. At the target the task is split, or goes on to a leaf, where the **local
scheduler** acquires the data: a writer collects the ownership from the rest of
the tree (calls up with `acquire_ownership_for`, down with
`collect_child_ownerships`), announces the new location with a broadcast and
fetches the data; a reader locates the owners and copies. Then the **work item**
waits for its dependencies and runs. When a task is sent to another locality it
is recorded in **resilience**, which schedules it again if that locality dies.
The **optimizer** of the root replaces the policy while tasks are on their way.

### What makes each part correct

* *Index and acquisition*: one locality owns an element at a time; what a node
  says its children own is what they own; a task runs on its locality's up to
  date copy; nothing written is lost; cached locations are right; every task
  gets its data eventually.
* *Policies*: the decisions taken node by node lead to the target; the tree
  realises the mapping it was made from; rebalancing loses no locality.
* *Work items*: a piece of a loop runs once and after those it needs; the
  result of a task is there only when those of its children are; a wait returns.
* *Store*: a fragment is built once; nobody keeps the address of another one.
* *Monitor*: every work item is counted and profiled exactly once, and timed up to the
  rounding of floats.
* *Optimizers*: searches start from enough samples, keep their best point and
  end; no configuration is given up for good.
* *Resilience*: only the dead are suspected; everybody counts a death once; the
  ring closes again; a dispatched item is recorded; shutdown gets around.

`PROJECT.json` lists the hazards of the code line by line, with the properties
that guard against each.

## 2. Modules

| Module | Models | Used by |
|---|---|---|
| `Hierarchy` | addresses of the overlay tree (operators) | the MC modules, `SchedulePolicy` |
| `DataItemIndex` | index, acquisition, and the way of a task through the tree | `MCDataItemIndex`, `PolicyChange`, proofs |
| `OneCopy` | what a data item promises its tasks: one copy (abstract) | `DataItemIndex` |
| `DataItemIndexProofs` | theorems about `DataItemIndex` and its refinement of `OneCopy` | |
| `SchedulerServiceProofs` | theorems about `SchedulePolicy` and `SchedulerService` | |
| `ResilienceProofs`, `WorkItemsProofs`, `MonitorProofs`, `DataItemStoreProofs`, `LocalOptimizerProofs`, `InternodeOptimizerProofs` | theorems about the module of that name | |
| `PolicyChange` | the same under a policy that changes between two hops | `MCIndexLive` |
| `SchedulePolicy` | tree policies: mappings, decision trees and their readers (operators) | `SchedulerService`, `InternodeOptimizer` |
| `SchedulerService` | policy changes: commands, balancing, tuner, new mappings | `MCSchedulerService` |
| `InternodeOptimizer` | `balance_ino`: number of nodes and distribution of the tasks | `MCInternodeOptimizer` |
| `Resilience` | failure detection, recovery, rescheduling, shutdown | `MCResilience` |
| `LoopOrder` | what a chain of parallel loops promises (abstract) | `WorkItems` |
| `WorkItems` | work items, treetures, dependencies over localities | `MCWorkItems` |
| `DataItemStore` | stores, references, shared data, first use of an item | `MCDataItemStore` |
| `TaskTimes` | trees of times, floats (operators) | `Monitor` |
| `Monitor` | handlers, queues and worker, samples, task times, `stop` | `MCMonitor` |
| `NelderMead` | the search, one call of `step` at a time (operators) | `LocalOptimizer` |
| `LocalOptimizer` | measuring, steps, policies, what the hardware is set to | `MCLocalOptimizer` |

Definitions carry the names of the functions they model. A definition whose
name ends in a variation of another one and whose comment begins "Mutant of" is a
deliberately wrong version of it that no action uses; it serves to confirm that
a property notices the error.

### DataItemIndex

One data item with elements `Elems`; a *region* is a set of elements. `full`,
`left`, `right`, `cache` are the index entries of all virtual nodes, `frag` the
values each locality has (`Absent` if the fragment does not cover the element,
`Blank` if nobody wrote it). A task writes its own name, so that `latest` tells
who wrote an element last. `pc` and `at` say where a task is, `goal` what the
policy wants of it. Calls in flight are records in `calls`, `casts`, `locs` and
`transfers`, executed in any order; `locs` holds the activation records of
`locate`, which calls itself through the tree.

`OneCopy` is the promise: there is one copy of every element; a task starts
on its latest values beside no conflicting task, nothing that any other task
does changes what it sees while it runs, and its values are the latest when it
finishes. The property `ImplementsOneCopy` is `OneCopy`'s specification with
`latest` for the copy, the fragment of a running task's locality for what it
sees (`Sees`), and the running writers; everything else the index does is a
stutter.

The tree is given by constants (`Parent`, `LeftChild`, `Below`, ...), with
`HierarchyAssumption` and `SubtreeAssumption`. The proofs use them; TLC evaluates
them for the trees built by `Hierarchy`.

Granularity and simplifications:

* An action is one lock section, or one hop of a task. Where the code takes two
  locks in a row without another step being able to tell, they are one action:
  `check_write_requirements` and `get_missing_region` at a hop; adding to `full_`
  and resizing the fragment; the entry's and the fragment's lock in
  `collect_leaf_ownership`; `update_cache` for all virtual nodes of a locality.
* Assertions have the semantics of a release build: they do not stop the
  program and become properties (`CollectsWhatIsHeld`, `CollectRightHasTarget`).
* `exclusive_` regions are written and never read and are omitted.
* One requirement per task, the union of what it asks for. The requirements of
  a split variant are empty at inner nodes (`acquire` asserts a leaf).
* The policy's target of a task is fixed when it is spawned, a node of
  `Targets`, which may depend on the requirement; the target of its parent is the same or one up,
  which is what tree policies guarantee (`Routed`). `PolicyChange` adds
  policies that change between two hops (`set_policy` gives a task that is on its
  way another target), at most `MaxChanges` times each.
* Tasks that run at the same time have no conflicting requirements: that is
  the programming model's rule. With `AllowDeps` a task may be spawned while
  the tasks it depends on are still running, as
  `spawn_with_dependencies` permits.
* Writers that must stay on their locality (`remote = FALSE`) are excluded.
* That a rank still runs (`rank_running`) is tested in `Resilience`.

### SchedulePolicy and SchedulerService

A path is a sequence of 0s and 1s, a mapping a function from the
`2^Granularity` paths of one length to localities. `fillTree` turns it into
decisions; `Visits` is the recursion's argument at each path. The readers are
`get_target`, `decide`, `is_involved` and `task_distribution_mapping`.
`create_rebalanced` compares measured averages: the model gives every outcome of
the comparisons, except those with a locality without tasks, whose average is
0/0 so that every comparison is false.

`SchedulerService` is the root's service. `ops` holds operations between two of
their locks, one command and one balancing at a time. A balancing tests
`value_` when it starts to collect the loads (`balance`), tunes or does not when
all of them have come (`tune`, `balance_uneven`), reads what it broadcasts without
the lock (`balance_enforce`), and arrives as `update_policy`. `toggle_node` may
leave nobody active. Its second part then divides by zero, and the program has
ended (`running`; an assertion, which a release build does not have, is no guard).
If another operation has set the nodes meanwhile it goes on, and the empty
selection may still be in the tuner or in an update. `SomebodyStaysActive` says that
no other step leaves nobody active. Scores and the
mappings the inter-node optimizer chooses are data here. `active_frequency_` and
`best_score` start uninitialised: any value is possible. With a random policy
in place, `apply_new_mapping` casts the wrong class; the model gives that the
value `BadTree`, and the runs keep to tree policies. Not modelled: the variants of
`create_rebalanced` that only tests call.

### Resilience

Ranks in a ring. A *period* is one iteration of the heartbeat loop (`miu`);
`age` is the difference of heartbeats the guard compares with `delta`. The
model assumes what the detection by timeouts needs: in each period
the loop of every live locality runs once, control messages to live localities
arrive within the period, and a locality that is adopted gets a turn before its
new guard's next check. Work items and announcements take any time.
A message to a crashed locality is never executed; the console (rank 0) does
not crash; a crash loses everything the locality had. `num_localities` is
unsigned and wraps (at 2^16 in the model). The announcement takes three steps on each
locality: extract the dispatched items, mark the rank, reschedule and pass on.
`delegated_items_` is a multimap from ranks to work items and a set of pairs here:
the same item dispatched twice by one locality to the same one would have two entries
there and one here, which does not happen in the runs.

`Overlapping = FALSE` excludes that a crash, or the end of the program, comes
while a crash is still being handled. With it the protocol gives no guarantee: the
console may wait in `shutdown` for a call that was lost, a locality that waits
for a dead one stops its heartbeats and is suspected itself.

### WorkItems and LoopOrder

`LoopOrder` is the promise: a piece of a loop runs once, after the pieces of
the loop before it that it needs, and the result of a split task is there when
those of all its children are. `WorkItems` is the runtime: task ids, spawning,
sending a work item to another locality, splitting, waiting, processing, and
setting treetures, by a message where the shared state is remote. Its property
`ImplementsLoopOrder` is `LoopOrder`'s specification with `ran` the tasks whose
body was executed and `resolved` those whose shared state has a value.

A program synchronises its loops in one of two ways (`Kinds`): with handles in
the closure that are refined when the task is split ("closure", as
`examples/pfor/pfor.hpp` does), or with the dependency future of the work
item ("after"). `set_children` of treetures has an empty body and nobody calls
`set_child`, so a local treeture stands for its own children. The child of a
remote one is a treeture made of the pending look-up, and is ready when the
look-up is. A parcel with a future in it leaves when the future is ready: that is HPX,
external here.

Simplifications: a split is one step (it holds no lock, but nothing
can tell its parts apart except through messages, which are separate);
values are ready or not; a work item is sent at most one hop before it is
split or processed; data requirements are `DataItemIndex`'s.

### DataItemStore

Per locality the entries of `data_item_store`, the reference objects with
their cached fragment, and threads in `get` and `resize_fragment`. The first
use of an item builds its fragment from shared data that are fetched
through the localities (id - 1) / 2 up to locality 0, with the item's mutex released.
A fragment is its locality, item and number of allocation, so that two
allocations differ. Shared data are stood for by the id of the item. The
thread-local cache in front of the store has entries of the same store and
never loses one, so it does not show. Items are created on `CreateAt`
(locality 0, where the chain of fetches ends), at most `MaxItems` of
them. `destroy` does nothing: its body is commented out.

### Monitor and TaskTimes

The life of an item's profile: start, time, push into the queue of the
moment, notification, count; the worker that switches the queues under the lock
and empties one without it; `sample_node`; the requests for task times since
the last request; `stop` on rank 0, which calls it everywhere else and gathers
statistics. A notification is lost when the worker does not wait, and the
worker may wake up for no reason. Both the count of a finished item and the
whole of a sample that touches it are sections of one mutex, and one step each.

A time comes in whole nanoseconds and is halved as such, but what is kept per tracked path is
a `float`: `Float` rounds to a significand of `Mantissa` bits (24), ties to even, and it does so
to each share that is added, to the sum, and to each difference of two vectors. Beyond
2^24 ns per path a short task may vanish altogether, so the property is one of
rounding errors: `TimesWithinRounding` allows half the distance of neighbouring floats
for each rounding, and so nothing while the times are below 2^Mantissa.
`get_task_times` divides the difference by the nanoseconds since the last request.
The quotients of all localities are added up and become the costs of the tasks in
`create_rebalanced`, which reads them with `get_time`. The quotient is not modelled:
`handed` adds up the differences, and `SchedulePolicy` lets the shifts of a rebalancing
go any way the code's tests of the mapping allow, whatever the costs are.

`MIN_QUEUE_ELEMS` (500), `TRACKING_LEVEL` (14), `Mantissa` and the number
of samples are small in the runs. Two data races are not modelled: `work_item_times` is written
at line 583 and read at 1291 of the component without a common lock.

### LocalOptimizer and NelderMead

A root work item measures and lets the optimizer make a step, as two periods
say (`Gaps`: the time between two work items). `NelderMead!step` is one call of the code's
`step`: the state says which value it is waiting for. Values, coordinates and
leeways are integers. Samples are kept while something can still read them; the trimming at 1000
samples never happens before a search is initialised. `initialize_simplex`
writes past its array into the limit of the threads: `Limits` is what it
leaves there, and an index that was never assigned is any of the three rows
(`Uninitialised`); the garbage of a real run may be out of bounds, and what happens
then is not modelled. `optimize_locally` is one step though it takes no lock. `Word` stands for 2^32: the random policy's differences are
unsigned. Active threads never change (the calls that suspend them are commented out).
`state_` is not reset between two objectives, so the first value of the
next search is taken for that of a reflection; `BestKept` is stated for the first
objective only. Outside contraction cannot be reached.

### InternodeOptimizer

One balancing is one step: record what the last number of nodes did, forget
what is too old, choose the next number by exploration or from the Pareto
frontier, distribute the tasks with `decide_schedule`, and read the mapping back from the
policy it was made into, as the next balancing does. `std::sort` may order equal
entries in any way, `random_element` returns any element. Loads, times and energies
are small integers, costs are in units of 1 / `Scale` so that
they stay whole. The code, and the model:

* increments the index of the loop over the nodes twice
  (`optimizer.cpp:452-456`) and ends one too late: nodes 0, 2, .. N are
  "measured" (`Measured`), with the states of other nodes. With an even number of
  localities node N does not exist, `node_map.at` throws, and the exception ends in a
  future nobody looks at; with an odd one it throws for ever once a measured
  node has no task (`Throws`). The choice of the number of nodes goes on without effect;
* gives the tasks of nodes that were left out to node 0 when the number of nodes stays;
* records time and energy in each other's place, and tests one criterion
  twice (`comp1` and `comp2` are the same).

`set_policy("ino")` without the environment variable leaves the optimizer
without configurations (an assertion or a division by zero); the model
starts with it constructed.

## 3. Runs

| Run | Instance | Checks |
|---|---|---|
| `IndexTwo` | 2 localities, 2 elements, 3 tasks reading, writing or split (176k states) | `RunsOnLatest`, `NothingLost`, `CacheFresh`, `ImplementsOneCopy` |
| `IndexFour` | 4 localities (7 virtual nodes), 1 element, 3 tasks (318k) | `TypeOK`, `LeftRightDisjoint`, `OwnershipLinked`, `OneOwner`, `WriterOwns`, `CollectsWhatIsHeld` |
| `IndexLive` | 4 localities, 2 tasks of every kind, one change of policy per task (66k) | `TasksFinish` |
| `SchedulerPolicies` | 3 localities, 4 paths, tuner and inter-node optimizer, node 0 toggled, so that nobody may be active (100k) | `TypeOK`, `Routed`, `Realised`, `SameNodesTakePart`, `SomebodyStaysActive` |
| `internode` | 3 localities, 4 paths, forgetting after 2 balancings (35k) | `Evenly`, `ParetoOptimal`, `TriedAgain` |
| `ResilienceOne` | ring of 4, locality 2 may crash, one item (139k) | `TypeOK`, `OnlyDeadSuspected`, `CountInStep`, `LoopsEnded`, `RingRepaired`, `ShutdownReturns` |
| `work_items` | 2 localities, a loop split once and one split twice, both kinds of synchronisation (120k) | `NothingAfterWait`, `ImplementsLoopOrder`, `WaitReturns` |
| `store` | 4 localities, 2 items, 3 references, 2 threads on locality 3 (69k) | `HintsLive`, `AnswersAreStored`, `CallsReturn` |
| `monitor` | 2 localities, 3 items, queues of 2, floats of 3 bits (686k) | `QueuesApart`, `AllProfiled`, `StatisticsComplete`, `SampledOnce`, `TimesWithinRounding`, `StopReturns` |
| `optimizer` | 2 objectives, 2 threads, 2 frequencies, 3 policies (304k) | `EnoughSamples`, `BestKept`, `AllConverge` |
| `ResilienceLost` | two items dispatched to one locality | `NoItemLost` is **violated** |
| `loop_remote` | handles in the closure of a serialisable work item | `NeighboursRanBefore` is **violated** |

The violated ones contradict a test or a comment of the code:

* `ResilienceLost`: the completion of an item erases the first entry for its
  rank, which may be another item's.
* `loop_remote`: a work item of the second loop is sent away and split there;
  the handles of its children are ready as soon as the look-up returns, and a
  piece runs before its neighbours of the first loop
  (`examples/pfor/fine_grained.cpp:79` calls that "Error in synchronization!").

### Counterexamples outside of the runs

These definitions, too, say what a comment or an assertion of the code does, and
TLC refutes them. Each can be reproduced by a change to the configuration of a run:

* `RunsOnLatest` with `AllowDeps = TRUE` (`IndexTwo` with two tasks and one element): data is acquired when the
  task reaches its leaf, before its dependencies are waited for; they take it
  away again or change it.
* `CollectRightHasTarget` with `N = 3` (`IndexTwo` with one element): an inner node without right
  subtree has `right_ == left_` and an invalid `right_id_`; what it delegates
  is recorded on the right and collected through the invalid id.
* `CollectsWhatIsHeld` with `Splits` added to the requirements of `IndexFour`
  and `MCInner` as their targets: a region that a split task got at an inner node is in `full_` of that
  node only and survives a collection. Two owners, and a `locate` that goes
  back and forth between the node and its parent, are the consequence.
* The same with readers and a policy that changes (`PolicyChange`, two
  localities): a task is rejected by a node after an ancestor handed out an
  allowance and goes up without it; the ancestor has recorded for a child what
  the child does not know of, and the next reader is sent to and fro for ever.
* `SomeNodesInMask` (`SchedulerPolicies`): the tuner, or `toggle_node` itself, deactivates
  all nodes but one, and `toggle_node` deactivates that one, too (`scheduler.cpp:345`).
  `create_uniform` asserts that there is one (`schedule_policy.cpp:190`); without
  assertions `getEqualDistribution` divides by their number (line 98).
* `SelectedNodesEnforced` (`SchedulerPolicies`): the mask the tuner selects does
  not reach the mapping.
* `RingRepaired` with two mortal localities that crash one after the other
  (`ResilienceOne`): `protectees_protectee_rank_` is a copy that is not refreshed
  when that protectee adopts a new one.
* `StopWaits` (`monitor`): `stop` declares `stop_futures` twice and waits for the
  outer, empty one; rank 0 returns, and the program goes on to its end, while
  other localities have not stopped.
* `HintIsReferenced` (`store`): both assignments of a reference replace the id
  and leave the cached fragment alone (`data_item_reference.hpp:93`), and `get`
  returns it without a look at the id.
* `DifferentVertices` (`optimizer`): the proposals of the warm-up are never
  applied, so the "at least 3 different vertices" of its comment may be one.
* `ChosenNodesUsed` (`internode`): see the list under InternodeOptimizer.

Because of the second and third, the passing index runs use numbers of
localities that are powers of two. Ownership is checked with splits at the root or
the leaves (`RootAndLeaves`, `MCLeaves`), where it does hold. `IndexLive` has two
kinds of program (`Programs`): one with readers, a fixed policy and splits at the root or a leaf; one
with writers, splits at inner nodes and a policy that changes. In both every task
finishes, also where regions are left unallocated at an inner node. In
`IndexFour` tasks are not split and the targets are `SomeNodes`: leaves on both
sides of the root and of its left child, and an inner node.

**Why the bounds are enough.** Three tasks are needed for an owner, a writer
that takes the region over and a reader that uses what the first two left in
the caches; two localities show every order of calls, four are the least with an
inner node that is not the root, through which ownership goes in both directions. More
elements only repeat what one or two show, since regions are handled
elementwise. Three localities and four paths give mappings in which a task has
to pass a node that stays, a virtual node that is missing, and a locality with a
single task. In a ring of four a locality has distinct guard, protectee and
protectee's protectee, and somebody else besides. `ResilienceOne` also passes
with every locality but the console mortal (422k states); the run
keeps to one to stay short. In the loops the second is finer than
the first, so that handles are refined by splits that the first loop does not
have, and a piece needs neighbours of both sides. Locality 3 is the nearest
whose shared data come over two hops, and two threads there race for the
fragment. Three items at the monitor are one more than fills a queue; one is
above, one below the tracked level, which is 1. With three bits the time of the first is split exactly,
and the other's, the sum of both and the differences are rounded. `MAXITERATIONS` is 1 (15 in the code), so that a search ends by its limit in the
second iteration; the optimizer passes with `Limits = {0}`, too (505k). The inter-node optimizer has three numbers of nodes and
as many places to explore; with fewer places than numbers `TriedAgain` fails,
and with more than ten localities it does so in the code.
Symmetry (permutations of tasks and elements) is used for invariants and for
`ImplementsOneCopy`, which says something of single steps and nothing of whole
behaviours, in the same way of every task and element.

**Fairness.** Index: weak fairness of the execution of calls (`CallStep`) and of every task's own steps
(`TaskStep(t)`). HPX runs every ready thread eventually and delivers every parcel; a step
that is enabled stays so until it is taken. Spawning is not fair. Resilience: weak fairness of
the passing of periods (`tick`), and per rank of its loop, its message handlers
and its announcements. Crashes, dispatching and the end of the program are up to
the environment. Work items: weak fairness of all steps but sending. Store: of
every thread that is in a call. Monitor: of every item's handlers, every worker
and every `stop`; samples and requests are not fair. Optimizers: root work items
keep coming while the program runs; the fairness is written as infinitely
many steps (until convergence), which is weak fairness of `Next`, since a step is always possible.

## 4. Proofs

| Theorem | States | Hypotheses |
|---|---|---|
| `DataItemIndexProofs!TypeCorrect` | `Spec => []TypeOK` | none |
| `DataItemIndexProofs!DisjointDelegation` | `[]LeftRightDisjoint` | none |
| `DataItemIndexProofs!RecordsLinked`, `CollectionsServed`, `SingleOwner`, `RunningWriterOwns` | `[]OwnershipLinked`, `[]CollectsWhatIsHeld`, `[]OneOwner`, `[]WriterOwns` | `Orderly` |
| `DataItemIndexProofs!LatestValues`, `NoValueLost`, `CacheIsFresh` | `[]RunsOnLatest`, `[]NothingLost`, `[]CacheFresh` | `Orderly` |
| `DataItemIndexProofs!IndexImplementsOneCopy` | `ImplementsOneCopy` | `Orderly` |
| `SchedulerServiceProofs!TasksAreRouted`, `TreesRealiseMappings`, `RebalancingKeepsNodes` | `[]Routed`, `[]Realised`, `SameNodesTakePart` | none |
| `SchedulerServiceProofs!NodesStayActive` | `SomebodyStaysActive` | none |
| `SchedulerServiceProofs!ServiceTypeOK` | `[]TypeOK` | `RandomApart` |
| `ResilienceProofs!ResilienceTypeCorrect` | `[]TypeOK` | none |
| `ResilienceProofs!NoFalseSuspicion`, `DeathCountedOnce`, `StopEndsLoops` | `[]OnlyDeadSuspected`, `[]CountInStep`, `[]LoopsEnded` | `OneCrash` |
| `WorkItemsProofs!NothingLeftAfterWait`, `RuntimeKeepsLoopOrder` | `[]NothingAfterWait`, `ImplementsLoopOrder` | `OnlyAfterMoves` |
| `MonitorProofs!QueuesStayApart`, `EveryProfileProcessed`, `StatisticsOfAll`, `EveryItemSampledOnce`, `TimesStayWithinRounding` | `[]QueuesApart`, `[]AllProfiled`, `[]StatisticsComplete`, `[]SampledOnce`, `[]TimesWithinRounding` | none |
| `DataItemStoreProofs!StoreTypeCorrect`, `HintsStayLive` | `[]TypeOK`, `[]HintsLive` | none |
| `DataItemStoreProofs!AnswersStored` | `[]AnswersAreStored` | `CreateAt = {0}` |
| `LocalOptimizerProofs!SamplesSuffice`, `SearchKeepsBest` | `[]EnoughSamples`, `BestKept` | none |
| `InternodeOptimizerProofs!ChoicesAreParetoOptimal`, `TasksAreEven` | `ParetoOptimal`, `[]Evenly` | none |

All are about `Spec`, without fairness, for every value of the constants that the
modules' named assumptions allow; TLC evaluates these assumptions in every
run.

### The data item index

`TypeOK` is more than the ranges of the variables: calls are addressed to nodes
that can serve them, are made for nonempty regions only, and the path of a
location request is never empty. It is not inductive as it stands: that a call
has a nonempty region depends on the requirement of its task, and on what
`acquire` found missing. `TypeInv` adds both (`UnderWay`).

`DisjointDelegation` rests on the fact that only four operations touch `left_`
and `right_` (`EntryUnchanged`): the two forms of `add_allowance`,
`acquire_ownership_for` and `collect_child_ownerships`. Each removes from one
side what it adds to the other, adds what neither has, or only removes. It
holds for any tree, also when `RightChild = LeftChild`.

Who owns what is proved element by element. `ElementInv(x)` says of one element:

* `Linked`: whoever has x is recorded for it at every node above, but for those
  above the node a call for x is made for (`OwnershipLinked` is the case of the
  parent);
* `Backed`: whoever is recorded for x has it, unless a task brings the allowance;
* `Fresh`: an allowance under way is recorded on its whole path, and nobody
  below has the element yet;
* `Called`: there is at most one call for x, for a node that has x, and what is
  collected from a node is no longer recorded for it;
* `Delegated`: an inner node below the root keeps nothing for itself.

`OwnershipInv` adds what tasks and calls know: writers that are active together
have disjoint regions, an allowance is part of the region and on its way
to the target, a writer has at its leaf what it acquired (`TaskInv`,
`AcquiredInv`); the request of a task goes up from its leaf, the collection
down elsewhere (`CallInv`). A step changes the records of one node, or moves one
task, so that one lemma per kind of step shows what changes there
(`AcquireForElement`, `CollectElement`, `LeafElement`, `DescendElement`,
`SettleElement`, `OwnElement`), and `Frame` that nothing else does. Two owners
without a call would be recorded at both children of the node where their paths
part, which `LeftRightDisjoint` excludes: `OneOwner`. `WriterOwns` follows since a call for an
element belongs to its writer while it collects.

Where the data is is proved on top of that. `CoherenceInv` is `OwnershipInv` and,
for one element x (`DataInv(x)`):

* `Stored`: an owner's fragment has x, with the last value, unless its task is a
  writer that is still fetching it (`Fetching`); what nobody owns nobody has written;
* `Collected`: while a writer collects x, somebody else owns it or is noted in the
  writer's `info` as the place of the last value, and a leaf that is noted
  has given its ownership up;
* `Brought`: a task that waits for its transfers has the last value or a transfer
  that brings it; a migrating view is saved at a locality that no longer owns x, so that what
  the source forgets is not an owner's;
* `Tracked`: a cached location is the owner's, or a writer is moving x, and
  each cache that names another place has its broadcast still to come;
* `Located`: what an activation of `locate` knows is right, and an owner is known
  to it or in the region of a callee that has not answered.

`StageInv`, `TransferInv` and `ActivationInv` say which task a call, a broadcast, a
transfer or an activation belongs to, and that the activations of a reader form
one tree of calls. Again there is a lemma per kind of step; the steps of a
task on its way to the leaf and those of inner nodes touch none of it (`Aside`). The
order that matters is that of `acquire_fetch`: ownership and broadcast are both complete before
the first transfer starts. A reader needs no such order, since
its region has no writer while it is active (`OneWriter`).

That the index implements `OneCopy` follows from the invariant taken before and after a step
(`CopyStep`): in both states a running task sees the last values of its region, so that a
step that changes neither these values nor who runs changes no view, whatever it does to the
fragments. `process` starts a task with the last values in view, and beside no conflicting
one (`OneWriter`); `finalize` alone changes the last values, and those of a
region that no other running task sees. `Asked` adds that a task under way has a region.

`Orderly` names the conditions: conflicting tasks are not active together
(`~AllowDeps`), each inner node has two children, writers may leave
their locality, and tasks are split at the root or at leaves. Each excludes a case in
which the code does otherwise: section 3 has the counterexamples for three
of them, and a writer that must stay takes its region at the leaf
without any record above. `SubtreeAssumption` says that the tree is one: two subtrees
are nested or apart, two leaves part somewhere.

### The scheduling policy and its service

The theorems are about trees of any size, whose decisions, targets and ways are
recursive functions. The library's induction theorems cannot be used (they take
an operator), but induction over the members of a set can: a set of naturals has
a least member (`Least`, from the well-foundedness of the naturals), so what holds of
0 and passes on from i to i + 1 holds up to n (`Upto`). In the same way there is a function for
every recursion over 0 .. n (`Recursion`), so that the functions defined in
`SchedulePolicy` have the values their definitions say (`VisitsDefined`,
`TargetsDefined`, `StartsDefined`, ...).

*Realised.* `VisitOK` is the invariant of the recursion of `fillTree`: after n
turns a visit is in charge of `2^(Granularity - n)` tasks, at most one below the
paths that are mapped, and of the localities under one virtual node. A visit in charge of
one task never stays (`Decided`), so that there is a leaf at most `Granularity`
turns below the path of a task and `traceTarget` ends. `TargetsAre`: reading the
tree repeats the visits it was made by. In an ordered mapping each visit
knows the localities of its tasks (`Within`), and the turns of the path of a task are
the bits of its number (`Serves`): the leaf is that of its locality.

*Routed.* The targets of the paths above a path descend, and stay once they are
a leaf (`TargetsDescend`). A hop takes a task from one of them to the next that
differs, one layer down, or it has arrived (`OneHop`); after as many hops as the tree
is high it is at the target. That the virtual nodes on the way exist with any
number of localities is `Aligned`: the first locality of a visit is a
multiple of the size of its subtree.

*SameNodesTakePart.* `Fair(c0, c)`: the counts c add up to those of c0 and are 0 for
the same nodes. A shift between two nodes that take part, from one that has more
than one task, is fair, and whatever `create_rebalanced` decides is a sequence of
such shifts. Refilling by fair counts gives every node with a count a task, since
the sums of the counts grow from 0 to the number of tasks. With `Realised`'s lemma that
what is read back is a mapping, this holds of unordered mappings, too.

The inductive invariant of the service, `ServiceInv`, says that tree and mapping
are replaced together, whichever operations interleave between their two locks,
and that masks are sets of nodes. *SomebodyStaysActive* goes through the steps: the
tuner's part is that turning keeps the nodes of the best configuration and that `dec`
keeps the last one. Routing, reading back and
rebalancing hold with nobody active, too, since no policy is made then. `TypeOK` needs
`RandomApart`: a program that uses the random policy uses no other but the static one. Without it
`update_policy`, which asks for the policy in one lock section and stores the new
one in another, can put a tree in place of a random policy that was set in between.

### Resilience

`RecoveryInv` follows one recovery through its phases: nothing has happened
(`Whole`), one of the two remote calls of `protectee_crashed` is under way
(`Healing`), the announcement is at or on its way to locality x, those it has
visited know of the death and those beyond do not, and its token is their number
(`Announcing`), or everybody knows (`Over`). `HeartbeatInv` ties the age of the last
heartbeat to who has had its turn in this period; `StopInv` places `shutdown` in
the circle of the survivors by its token. `OneCrash` is at most one crash,
not during the end of the program, among at least three localities: with two,
the survivor becomes its own guard and protectee and can suspect itself
before its loop stops. Nothing is proved about dispatched items: that each has a
record until it is done is not true (`ResilienceLost`). `num_localities` is a number
below `Wrap`, and `N < Wrap` is assumed.

### Work items

`OrderInv`: the tree of a loop grows from its root (`GrowthInv`); a result is
there only when everything below has one (`ResultInv`); a work item that has not run waits for
the whole loop before it, unless that is over, and has a handle on it and not just its id
(`WaitInv`). The refinement maps each step to a step of `LoopOrder` or a stutter.
`OnlyAfterMoves` (only work items of `runtime::after` are sent away) is needed: the
run `loop_remote` shows that handles in a closure do not survive the journey.

### Monitor and store

`QueueInv`: the worker and the handlers use the same queue except while the worker
drains the other one, and then the queue it left is empty; a profile is in a queue of its
rank or processed; the worker ends only after `stop`, which comes when all items are done.
`CountInv` counts the finished items of a rank. `StoreInv`: shared data are those of their
item and stay where they are; a thread's fetch goes down a chain that leaves room for
all that are still to answer. Items are created on locality 0 in
`AnswersStored`, where the chain ends, as every caller in the code does.

Task times are sums over sets of tasks and loops over the turns of a path, for
which the community modules have folds. A fold is a function of the subsets of its set that is
chosen because it satisfies an equation; there is such a function (`FoldExists`)
and only one (`FoldsAgree`), both by induction over the subsets, which again is the existence
of a least number. So a sum can be taken apart at any element (`SumTake`) and
into disjoint sets (`SumUnion`), and a loop is a series of steps (`FoldSteps`).
`WholeAlways`: of the time of a task on level m the tracked tasks below it get shares that
add up to it, whatever is odd on the way; by induction from the tracked level
up, as each turn gives the left child half and the right one the rest. A task below the tracked
level counts for the tracked one above it.

What is kept are floats. The distance of neighbouring floats at x is a power of two (`UlpIs`), and
powers of two are sizes of sets of subsets (`PowerDoubles`), which is how the prover gets
at them. It grows with x (`UlpGrows`) and does not shrink when x is rounded (`UlpOfFloat`); a
rounded number is a float (`FloatIsFloat`), at most half the distance away (`FloatIs`), and not below
a float that it was not below (`FloatKeeps`), so a tracked time never decreases and a
difference is never negative. `PlusRounds` and `MinusRounds` are the errors of one addition and
one difference, `SumDiffers` adds them up over the tracked tasks. `TimesInv` says of each
locality that what was handed out and what has been added since differs from the sum of the
recorded times by at most one such error for every rounding so far (`Near`), each as
large as one at the present times would be.

### Local optimizer

`SamplesInTime`: a locality has one sample more than it has made steps, or has
waited as long for the next measurement as for the next step, and then
measures when it makes it. `SearchInv` is what a search keeps between two calls
of `step`: while a reflected point is measured `vs` and `vg` are those of the
current values, and when an expanded one is, the reflected value was below all of
them. So each branch replaces the best vertex by a better one or not at all (`NoWorse`), and
`StepFacts` says so of any call. `FirstSearch` adds where the first search comes
from: it is fresh until it is initialised from the three oldest samples. The
argument does not depend on where the points are, so neither the
constraints nor what the overrun leaves in the limit of the threads matters.

### Inter-node optimizer

*ParetoOptimal.* `InoInv`: what is remembered are measurements of numbers of nodes that can be
chosen, and after the first balancing the last choice is among them, so that there
is an entry to choose. To be better in one criterion is a strict order of the quotients
(`RatiosOrdered` multiplies them out). One pass over the entries, sorted by criterion c in any
order of equals, keeps: an entry seen so far is on the frontier or an entry of the frontier
is better in the next criterion (`Seen`), and each entry of the
frontier is optimal. When an entry is added, none that is sorted behind it is better in c, and one
before it that were better in the next criterion would be on the frontier or beaten by
one that is, and the entry not added (`FrontierOptimal`). That the passes test one criterion twice
therefore costs choices, but not optimality.

*Evenly.* The loop of `decide_schedule` keeps a list that is sorted but for its first
node, with loads no further apart than the heaviest task so far (`Partitions`). Moving the
first node behind those that are not loaded more sorts the list (`ReorderedIs`), the task then
goes to the least loaded node (`GrownIs`). The mapping is not used; `Evenly` is
true of any, so there is no inductive invariant.

### Only model-checked, and why

* Liveness (`TasksFinish`, `RingRepaired`, `ShutdownReturns`, `WaitReturns`,
  `CallsReturn`, `StopReturns`, `AllConverge`, `TriedAgain`): out of the prover's reach.

Every other property of the passing runs is stated by a theorem.

## 5. Not modelled

* The dashboard, power measurement and hardware reconfiguration: pure I/O.
* The access checks and serialisation helpers: templates without state.
* Of the monitor: printing, graphs, and the histories that only
  the printing reads. Of the scheduler components: reading options from the
  environment, setting up thread pools, and `suspend_threads` /
  `resume_threads`, which have no caller left. Of the policies: the variants of
  `create_rebalanced` that only tests call. Of the optimizer: the objective
  function (floating point) and `decide_random_mapping`, which nobody calls.
* The operators that combine treetures (`parallel`, `sequential`,
  `combine`): stateless wrappers of HPX futures.
* `examples/`: more than half of the repository's lines, most of them the output of
  the AllScale compiler. They are programs that run on the runtime; the
  models stand for any program of their kind.
