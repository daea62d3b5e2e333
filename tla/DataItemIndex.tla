---------------------------- MODULE DataItemIndex ----------------------------
(***************************************************************************)
(* The distributed index of one data item and the data acquisition of the  *)
(* tasks that use it.                                                      *)
(*                                                                         *)
(* A data item is a set of elements spread over the localities.  Every     *)
(* virtual node of the overlay tree keeps an index entry: the region it is *)
(* in charge of (full_), the parts of it delegated to its children (left_, *)
(* right_) and a cache of locations.  A task asks for a region either      *)
(* ReadOnly or ReadWrite.  The scheduler moves the task up and down the    *)
(* tree, handing out `allowances' for regions nobody owns yet; at the leaf *)
(* where it is to run, the region is acquired: ownership is collected from *)
(* the rest of the tree and the data migrates (ReadWrite), or the owners   *)
(* are located and the data is copied (ReadOnly).                          *)
(*                                                                         *)
(* Every action is one critical section of an index entry or data item     *)
(* (they are guarded by a mutex each), or one hop of a task.  Calls        *)
(* between virtual nodes, local or remote, are members of the sets `calls',*)
(* `casts', `locs' and `transfers' and are executed in any order.          *)
(***************************************************************************)
EXTENDS Integers, FiniteSets, Sequences

CONSTANTS
  Addr,          \* the virtual nodes
  Root,          \* the root of the overlay tree
  Leaf,          \* the leaf of every locality
  Rank,          \* the locality hosting a virtual node
  Parent,        \* the parent of every virtual node but the root
  LeftChild,     \* the service's left_ of every inner node
  RightChild,    \* the service's right_ of every inner node
  Below,         \* the virtual nodes of the subtree of a node
  Elems,         \* the elements of the data item
  Tasks,
  Requirements,  \* what a task may ask for
  Targets,       \* the nodes the policy may choose, for every task and requirement
  Programs,      \* the sets of tasks a program may consist of
  AllowDeps,     \* may a task be spawned while tasks it depends on still run?
  Blank,         \* the value of an element nobody has written
  Absent         \* the value of an element a fragment does not cover

Ranks  == DOMAIN Leaf
Leaves == {Leaf[r] : r \in Ranks}
Inner  == Addr \ Leaves

\* The overlay tree is a tree; TLC evaluates this for the trees that module
\* Hierarchy builds.
ASSUME HierarchyAssumption ==
  /\ Root \in Addr
  /\ Leaf \in [Ranks -> Addr]
  /\ Rank \in [Addr -> Ranks]
  /\ \A r \in Ranks : Rank[Leaf[r]] = r
  /\ Parent \in [Addr \ {Root} -> Inner]
  /\ LeftChild \in [Inner -> Addr \ {Root}]
  /\ RightChild \in [Inner -> Addr \ {Root}]
  /\ \A a \in Inner : Parent[LeftChild[a]] = a /\ Parent[RightChild[a]] = a
  /\ \A a \in Addr \ {Root} : a \in {LeftChild[Parent[a]], RightChild[Parent[a]]}
  /\ Below \in [Addr -> SUBSET Addr]
  /\ \A a \in Inner : Below[a] = {a} \cup Below[LeftChild[a]] \cup Below[RightChild[a]]
  /\ \A a \in Leaves : Below[a] = {a}
  /\ Below[Root] = Addr
  /\ \A a \in Addr : \A b \in Below[a] :
       Below[b] \subseteq Below[a] /\ (b # a => b # Root /\ Parent[b] \in Below[a])
  /\ \A a \in Addr \ {Root} : Parent[a] \notin Below[a]

\* Two subtrees are nested or apart, and two leaves part at some virtual node.
ASSUME SubtreeAssumption ==
  /\ \A a, b \in Addr : a \in Below[b] \/ b \in Below[a] \/ Below[a] \cap Below[b] = {}
  /\ \A a, b \in Leaves : a # b =>
       \E c, d \in Addr \ {Root} :
          c # d /\ Parent[c] = Parent[d] /\ a \in Below[c] /\ b \in Below[d]

Modes == {"ReadOnly", "ReadWrite"}

\* mode and region of the (merged) requirement of the process variant, and
\* whether the task is split instead of processed and may leave its locality.
Requirement ==
  [mode : Modes, region : (SUBSET Elems) \ {{}}, split : BOOLEAN, remote : BOOLEAN]

ASSUME RequirementsAssumption == Requirements \subseteq Requirement
ASSUME ValuesAssumption ==
  /\ Targets \in [Tasks -> [Requirements -> SUBSET Addr]]
  /\ Programs \subseteq SUBSET Tasks
  /\ AllowDeps \in BOOLEAN
  /\ Blank \notin Tasks
  /\ Absent \notin Tasks \cup {Blank}

VARIABLES
  full, left, right,  \* index_entry::full_, left_, right_ of every virtual node
  cache,              \* index_entry::location_cache_
  frag,               \* the fragment of every locality: values of its elements
  latest,             \* history: the last value written to an element
  pc, at,             \* what a task does, and at which virtual node
  req, goal, deps,    \* its requirement, the policy's target for it, its dependencies
  allowance,          \* data_item_requirement::allowance
  missing, info,      \* what acquire found missing, the locations it got back
  calls,              \* acquire_ownership_for and collect_child_ownerships in flight
  casts,              \* update_cache broadcasts in flight
  locs,               \* activations of locate
  transfers           \* transfer calls in flight

entry    == <<full, left, right>>
taskVars == <<at, req, goal, deps, allowance>>
vars == <<full, left, right, cache, frag, latest, pc, at, req, goal, deps,
          allowance, missing, info, calls, casts, locs, transfers>>

Values   == Tasks \cup {Blank, Absent}
Location == [Ranks -> SUBSET Elems]
Nowhere  == [r \in Ranks |-> {}]

\* location_info::add_part for every part of `more'.
AddParts(loc, more) == [r \in Ranks |-> loc[r] \cup more[r]]

\* Mutant of UpdateLocation: the previous location of the region is kept.
UpdateLocationKeeps(loc, r, region) ==
  [loc EXCEPT ![r] = @ \cup (region \cap UNION {loc[s] : s \in Ranks})]

\* location_info::update: what is known of `region' is now known to be at r.
UpdateLocation(loc, r, region) ==
  LET known == region \cap UNION {loc[s] : s \in Ranks}
  IN  [s \in Ranks |-> IF s = r THEN (loc[s] \ region) \cup known ELSE loc[s] \ region]

NoRequirement == [mode |-> "ReadOnly", region |-> {}, split |-> FALSE, remote |-> FALSE]
AtRoot        == [own |-> Root, parent |-> Root]

Init ==
  /\ full  = [a \in Addr |-> {}]
  /\ left  = [a \in Addr |-> {}]
  /\ right = [a \in Addr |-> {}]
  /\ cache = [a \in Addr |-> Nowhere]
  /\ frag  = [r \in Ranks |-> [x \in Elems |-> Absent]]
  /\ latest = [x \in Elems |-> Blank]
  /\ \E P \in Programs : pc = [t \in Tasks |-> IF t \in P THEN "new" ELSE "done"]
  /\ at  = [t \in Tasks |-> Root]
  /\ req = [t \in Tasks |-> NoRequirement]
  /\ goal = [t \in Tasks |-> AtRoot]
  /\ deps = [t \in Tasks |-> {}]
  /\ allowance = [t \in Tasks |-> {}]
  /\ missing = [t \in Tasks |-> {}]
  /\ info = [t \in Tasks |-> Nowhere]
  /\ calls = {} /\ casts = {} /\ locs = {} /\ transfers = {}

-----------------------------------------------------------------------------
(***************************************************************************)
(* Spawning.  The programming model orders conflicting tasks: either the   *)
(* earlier one is finished when the later one is spawned, or the later one *)
(* is spawned with the earlier one as dependency (allowed by AllowDeps).   *)
(* The scheduling policy has a target for every task, and that of its      *)
(* parent task is the same node or the one above.                          *)
(***************************************************************************)
Active == {t \in Tasks : pc[t] \notin {"new", "done"}}

Conflict(p, q) == p.region \cap q.region # {} /\ "ReadWrite" \in {p.mode, q.mode}

ParentGoals(g) == IF g = Root THEN {Root} ELSE {g, Parent[g]}

spawn(t, q, r, g, p) ==
  LET before == {u \in Active : Conflict(q, req[u])}
  IN  /\ pc[t] = "new"
      /\ before = {} \/ AllowDeps
      /\ g \in Targets[t][q]
      /\ pc'   = [pc EXCEPT ![t] = "schedule"]
      /\ at'   = [at EXCEPT ![t] = Leaf[r]]
      /\ req'  = [req EXCEPT ![t] = q]
      /\ goal' = [goal EXCEPT ![t] = [own |-> g, parent |-> p]]
      /\ deps' = [deps EXCEPT ![t] = before]
      /\ UNCHANGED <<entry, cache, frag, latest, allowance, missing, info,
                     calls, casts, locs, transfers>>

-----------------------------------------------------------------------------
(***************************************************************************)
(* The index operations the scheduler uses.                                *)
(***************************************************************************)
Region(t) == req[t].region
Writes(t) == req[t].mode = "ReadWrite"

get_managed_unallocated(a, region) ==
  IF a \in Leaves THEN {} ELSE region \cap (full[a] \ (left[a] \cup right[a]))

get_missing_region(a, region) ==
  LET unallocated == get_managed_unallocated(a, region)
  IN  IF unallocated # {} THEN unallocated ELSE region \ full[a]

check_write_requirements(a, t) == Writes(t) => get_missing_region(a, Region(t)) = {}

\* get_missing_regions leaves the allowance of a read-only requirement alone.
MissingRegions(a, t) == IF Writes(t) THEN get_missing_region(a, Region(t)) ELSE {}
Unallocated(a, t)    == Writes(t) /\ get_managed_unallocated(a, Region(t)) # {}

\* A finished work item is destroyed, and with it all it knew.
Forget(t) ==
  /\ at'   = [at EXCEPT ![t] = Root]
  /\ req'  = [req EXCEPT ![t] = NoRequirement]
  /\ goal' = [goal EXCEPT ![t] = AtRoot]
  /\ deps' = [deps EXCEPT ![t] = {}]
  /\ allowance' = [allowance EXCEPT ![t] = {}]
  /\ missing' = [missing EXCEPT ![t] = {}]
  /\ info' = [info EXCEPT ![t] = Nowhere]

\* Mutant of Handed: what the other child holds is not cut off.
HandedTwice(f, region, required, mine, other) == (required \ mine) \cap (f \cup region)

\* What add_left and add_right hand down to the child.
Handed(f, region, required, mine, other) ==
  ((required \ mine) \cap (f \cup region)) \ other

add_allowance_left(a, t) ==
  IF Writes(t)
  THEN LET handed == Handed(full[a], allowance[t], Region(t), left[a], right[a])
       IN  /\ full' = [full EXCEPT ![a] = @ \cup allowance[t]]
           /\ left' = [left EXCEPT ![a] = @ \cup handed]
           /\ allowance' = [allowance EXCEPT ![t] = handed]
           /\ UNCHANGED right
  ELSE UNCHANGED <<full, left, right, allowance>>

add_allowance_right(a, t) ==
  IF Writes(t)
  THEN LET handed == Handed(full[a], allowance[t], Region(t), right[a], left[a])
       IN  /\ full'  = [full EXCEPT ![a] = @ \cup allowance[t]]
           /\ right' = [right EXCEPT ![a] = @ \cup handed]
           /\ allowance' = [allowance EXCEPT ![t] = handed]
           /\ UNCHANGED left
  ELSE UNCHANGED <<full, left, right, allowance>>

\* resize_fragment: the fragment of locality r grows by `region'.
resize_fragment(r, region) ==
  frag' = [frag EXCEPT ![r] =
             [x \in Elems |-> IF x \in region /\ @[x] = Absent THEN Blank ELSE @[x]]]

add_allowance(a, t) ==
  /\ full' = IF Writes(t) THEN [full EXCEPT ![a] = @ \cup allowance[t]] ELSE full
  /\ IF a \in Leaves THEN resize_fragment(Rank[a], Region(t)) ELSE UNCHANGED frag
  /\ UNCHANGED <<left, right>>

(***************************************************************************)
(* scheduler_service::schedule, one virtual node at a time.                *)
(***************************************************************************)
Involved(a, g) == g \in Below[a]

index == <<cache, latest, missing, info, calls, casts, locs, transfers>>

\* An autonomous decision of an inner node in control of the written data.
Shortcut(t) ==
  /\ at[t] # Root
  /\ Involved(at[t], goal[t].parent)
  /\ check_write_requirements(at[t], t)

MayLeave(t) == pc[t] = "schedule" /\ req[t].remote

schedule_here(t) ==
  /\ pc[t] = "schedule" /\ ~req[t].remote
  /\ allowance' = [allowance EXCEPT ![t] = MissingRegions(at[t], t)]
  /\ pc' = [pc EXCEPT ![t] = "local"]
  /\ UNCHANGED <<entry, frag, at, req, goal, deps, index>>

schedule_shortcut(t) ==
  /\ MayLeave(t) /\ Shortcut(t)
  /\ allowance' = [allowance EXCEPT ![t] = {}]
  /\ pc' = [pc EXCEPT ![t] = "down"]
  /\ UNCHANGED <<entry, frag, at, req, goal, deps, index>>

\* Mutant of schedule_turn: the root is no exception.
schedule_turn_unallocated(t) ==
  /\ MayLeave(t) /\ ~Shortcut(t) /\ Unallocated(at[t], t)
  /\ allowance' = [allowance EXCEPT ![t] = MissingRegions(at[t], t)]
  /\ pc' = [pc EXCEPT ![t] = "down"]
  /\ UNCHANGED <<entry, frag, at, req, goal, deps, index>>

schedule_turn(t) ==
  /\ MayLeave(t) /\ ~Shortcut(t)
  /\ Unallocated(at[t], t) \/ at[t] = Root
  /\ allowance' = [allowance EXCEPT ![t] = MissingRegions(at[t], t)]
  /\ pc' = [pc EXCEPT ![t] = "down"]
  /\ UNCHANGED <<entry, frag, at, req, goal, deps, index>>

schedule_up(t) ==
  /\ MayLeave(t) /\ ~Shortcut(t)
  /\ ~Unallocated(at[t], t) /\ at[t] # Root
  /\ at' = [at EXCEPT ![t] = Parent[@]]
  /\ UNCHANGED <<entry, frag, pc, req, goal, deps, allowance, index>>

(***************************************************************************)
(* scheduler_service::schedule_down.                                       *)
(***************************************************************************)
Stays(t)      == at[t] \in Leaves \/ goal[t].own = at[t]
\* The policy decides for the left child, or there is no other.
TargetLeft(t) == goal[t].own \in Below[LeftChild[at[t]]]

schedule_down_reject(t) ==
  /\ pc[t] = "down" /\ ~Involved(at[t], goal[t].own)
  /\ pc' = [pc EXCEPT ![t] = "schedule"]
  /\ at' = [at EXCEPT ![t] = Parent[@]]
  /\ allowance' = [allowance EXCEPT ![t] = {}]
  /\ UNCHANGED <<entry, frag, req, goal, deps, index>>

schedule_down_stay(t) ==
  /\ pc[t] = "down" /\ Involved(at[t], goal[t].own) /\ Stays(t)
  /\ pc' = [pc EXCEPT ![t] = "local"]
  /\ UNCHANGED <<entry, frag, taskVars, index>>

schedule_down_left(t) ==
  /\ pc[t] = "down" /\ Involved(at[t], goal[t].own) /\ ~Stays(t) /\ TargetLeft(t)
  /\ add_allowance_left(at[t], t)
  /\ at' = [at EXCEPT ![t] = LeftChild[@]]
  /\ UNCHANGED <<frag, pc, req, goal, deps, index>>

schedule_down_right(t) ==
  /\ pc[t] = "down" /\ Involved(at[t], goal[t].own) /\ ~Stays(t) /\ ~TargetLeft(t)
  /\ add_allowance_right(at[t], t)
  /\ at' = [at EXCEPT ![t] = RightChild[@]]
  /\ UNCHANGED <<frag, pc, req, goal, deps, index>>

(***************************************************************************)
(* scheduler_service::schedule_local and components::scheduler::           *)
(* schedule_local.  A split task is done with the index once its allowance *)
(* is recorded (the requirements of the split variant are empty: acquire   *)
(* accepts leaves only); its children are spawned as tasks of their own.   *)
(***************************************************************************)
schedule_local_split(t) ==
  /\ pc[t] = "local" /\ req[t].split
  /\ add_allowance(at[t], t)
  /\ pc' = [pc EXCEPT ![t] = "done"]
  /\ Forget(t)
  /\ UNCHANGED <<cache, latest, calls, casts, locs, transfers>>

schedule_local_descend(t) ==
  /\ pc[t] = "local" /\ ~req[t].split /\ at[t] \in Inner
  /\ add_allowance_left(at[t], t)
  /\ at' = [at EXCEPT ![t] = LeftChild[@]]
  /\ UNCHANGED <<frag, pc, req, goal, deps, index>>

schedule_local_leaf(t) ==
  /\ pc[t] = "local" /\ ~req[t].split /\ at[t] \in Leaves
  /\ add_allowance(at[t], t)
  /\ pc' = [pc EXCEPT ![t] = "acquire"]
  /\ goal' = [goal EXCEPT ![t] = AtRoot]  \* the policy is not asked again
  /\ UNCHANGED <<at, req, deps, allowance, index>>

-----------------------------------------------------------------------------
(***************************************************************************)
(* acquire, for a ReadWrite requirement.                                   *)
(***************************************************************************)
Here(t) == Rank[at[t]]

\* Everything is owned already: the task may run.
acquire_owned(t) ==
  /\ pc[t] = "acquire" /\ Writes(t) /\ Region(t) \subseteq full[at[t]]
  /\ pc' = [pc EXCEPT ![t] = "transfer"]
  /\ UNCHANGED <<entry, frag, taskVars, index>>

\* Reads what is missing and broadcasts the coming change of location.
acquire_missing(t) ==
  LET m == Region(t) \ full[at[t]]
  IN  /\ pc[t] = "acquire" /\ Writes(t) /\ m # {}
      /\ missing' = [missing EXCEPT ![t] = m]
      /\ casts' = casts \cup {[task |-> t, rank |-> r, region |-> m, to |-> Here(t)] : r \in Ranks}
      /\ pc' = [pc EXCEPT ![t] = "own"]
      /\ UNCHANGED <<entry, cache, frag, latest, taskVars, info, calls, locs, transfers>>

\* update_cache at one locality, on all virtual nodes it hosts.
update_cache(c) ==
  /\ c \in casts
  /\ casts' = casts \ {c}
  /\ cache' = [a \in Addr |-> IF Rank[a] = c.rank
                              THEN UpdateLocation(cache[a], c.to, c.region)
                              ELSE cache[a]]
  /\ UNCHANGED <<entry, frag, latest, pc, taskVars, missing, info, calls, locs, transfers>>

AcquireFor(t, a, child, m) ==
  [op |-> "acquire", task |-> t, at |-> a, child |-> child, region |-> m]
Collect(t, a, m) ==
  [op |-> "collect", task |-> t, at |-> a, child |-> a, region |-> m]

\* index_entry::acquire_ownership: a second critical section of the leaf.
acquire_ownership(t) ==
  /\ pc[t] = "own"
  /\ full' = [full EXCEPT ![at[t]] = @ \cup missing[t]]
  /\ calls' = IF at[t] = Root THEN calls
              ELSE calls \cup {AcquireFor(t, Parent[at[t]], at[t], missing[t])}
  /\ pc' = [pc EXCEPT ![t] = "collect"]
  /\ UNCHANGED <<left, right, cache, frag, latest, taskVars, missing, info, casts,
                 locs, transfers>>

\* Mutant of acquire_ownership_for: an empty part is collected as well.
acquire_ownership_for_empty(c) ==
  LET a     == c.at
      fromRight == c.child = RightChild[a]
      part  == c.region \cap (IF fromRight THEN left[a] ELSE right[a])
      rest  == c.region \ part
      other == IF fromRight THEN LeftChild[a] ELSE RightChild[a]
  IN  /\ c \in calls /\ c.op = "acquire"
      /\ left'  = [left EXCEPT ![a] = IF fromRight THEN @ \ part ELSE @ \cup c.region]
      /\ right' = [right EXCEPT ![a] = IF fromRight THEN @ \cup c.region ELSE @ \ part]
      /\ full'  = [full EXCEPT ![a] = @ \ rest]
      /\ calls' = (calls \ {c}) \cup {Collect(c.task, other, part)}
           \cup (IF rest # {} /\ a # Root THEN {AcquireFor(c.task, Parent[a], a, rest)} ELSE {})
      /\ UNCHANGED <<cache, frag, latest, pc, taskVars, missing, info, casts, locs, transfers>>

\* Mutant of acquire_ownership_for: only the part found with the other child
\* is recorded for the asking child.
acquire_ownership_for_part(c) ==
  LET a     == c.at
      fromRight == c.child = RightChild[a]
      part  == c.region \cap (IF fromRight THEN left[a] ELSE right[a])
      rest  == c.region \ part
      other == IF fromRight THEN LeftChild[a] ELSE RightChild[a]
  IN  /\ c \in calls /\ c.op = "acquire"
      /\ left'  = [left EXCEPT ![a] = IF fromRight THEN @ \ part ELSE @ \cup part]
      /\ right' = [right EXCEPT ![a] = IF fromRight THEN @ \cup part ELSE @ \ part]
      /\ full'  = [full EXCEPT ![a] = @ \ rest]
      /\ calls' = (calls \ {c})
           \cup (IF rest # {} /\ a # Root THEN {AcquireFor(c.task, Parent[a], a, rest)} ELSE {})
           \cup (IF part # {} THEN {Collect(c.task, other, part)} ELSE {})
      /\ UNCHANGED <<cache, frag, latest, pc, taskVars, missing, info, casts, locs, transfers>>

\* index_entry::acquire_ownership_for on behalf of the child c.child.  A child
\* that is both left_ and right_ counts as the right one.
acquire_ownership_for(c) ==
  LET a     == c.at
      fromRight == c.child = RightChild[a]
      part  == c.region \cap (IF fromRight THEN left[a] ELSE right[a])
      rest  == c.region \ part
      other == IF fromRight THEN LeftChild[a] ELSE RightChild[a]
  IN  /\ c \in calls /\ c.op = "acquire"
      /\ left'  = [left EXCEPT ![a] = IF fromRight THEN @ \ part ELSE @ \cup c.region]
      /\ right' = [right EXCEPT ![a] = IF fromRight THEN @ \cup c.region ELSE @ \ part]
      /\ full'  = [full EXCEPT ![a] = @ \ rest]
      /\ calls' = (calls \ {c})
           \cup (IF rest # {} /\ a # Root THEN {AcquireFor(c.task, Parent[a], a, rest)} ELSE {})
           \cup (IF part # {} THEN {Collect(c.task, other, part)} ELSE {})
      /\ UNCHANGED <<cache, frag, latest, pc, taskVars, missing, info, casts, locs, transfers>>

\* Mutant of collect_child_ownerships: the left child keeps what is collected.
collect_child_ownerships_keeps(c) ==
  LET a  == c.at
      lp == c.region \cap left[a]
      rp == (c.region \ lp) \cap right[a]
  IN  /\ c \in calls /\ c.op = "collect" /\ a \in Inner
      /\ right' = [right EXCEPT ![a] = @ \ rp]
      /\ full'  = [full EXCEPT ![a] = @ \ (lp \cup rp)]
      /\ calls' = (calls \ {c})
           \cup (IF lp # {} THEN {Collect(c.task, LeftChild[a], lp)} ELSE {})
           \cup (IF rp # {} THEN {Collect(c.task, RightChild[a], rp)} ELSE {})
      /\ UNCHANGED <<left, cache, frag, latest, pc, taskVars, missing, info, casts, locs,
                     transfers>>

\* index_entry::collect_child_ownerships at an inner node.
collect_child_ownerships(c) ==
  LET a  == c.at
      lp == c.region \cap left[a]
      rp == (c.region \ lp) \cap right[a]
  IN  /\ c \in calls /\ c.op = "collect" /\ a \in Inner
      /\ left'  = [left EXCEPT ![a] = @ \ lp]
      /\ right' = [right EXCEPT ![a] = @ \ rp]
      /\ full'  = [full EXCEPT ![a] = @ \ (lp \cup rp)]
      /\ calls' = (calls \ {c})
           \cup (IF lp # {} THEN {Collect(c.task, LeftChild[a], lp)} ELSE {})
           \cup (IF rp # {} THEN {Collect(c.task, RightChild[a], rp)} ELSE {})
      /\ UNCHANGED <<cache, frag, latest, pc, taskVars, missing, info, casts, locs, transfers>>

Covered(r) == {x \in Elems : frag[r][x] # Absent}

\* Mutant of collect_leaf_ownership: the leaf stays owner.
collect_leaf_ownership_keeps(c) ==
  LET r == Rank[c.at]
  IN  /\ c \in calls /\ c.op = "collect" /\ c.at \in Leaves
      /\ info' = IF c.region \subseteq Covered(r)
                 THEN [info EXCEPT ![c.task][r] = @ \cup c.region] ELSE info
      /\ calls' = calls \ {c}
      /\ UNCHANGED <<entry, cache, frag, latest, pc, taskVars, missing, casts, locs, transfers>>

\* index_entry::collect_child_ownerships at a leaf: ownership is given up; the
\* data has to be fetched unless the fragment does not cover all of it.
collect_leaf_ownership(c) ==
  LET r == Rank[c.at]
  IN  /\ c \in calls /\ c.op = "collect" /\ c.at \in Leaves
      /\ full' = [full EXCEPT ![c.at] = @ \ c.region]
      /\ info' = IF c.region \subseteq Covered(r)
                 THEN [info EXCEPT ![c.task][r] = @ \cup c.region] ELSE info
      /\ calls' = calls \ {c}
      /\ UNCHANGED <<left, right, cache, frag, latest, pc, taskVars, missing, casts,
                     locs, transfers>>

\* One transfer from every other locality that has a part.
Transfers(t, loc, migrate) ==
  { [task |-> t, src |-> r, region |-> loc[r], migrate |-> migrate,
     stage |-> "save", data |-> [x \in Elems |-> Absent]] :
      r \in {s \in Ranks \ {Here(t)} : loc[s] # {}} }

\* Mutant of acquire_fetch: only the broadcast is waited for.
acquire_fetch_early(t) ==
  /\ pc[t] = "collect"
  /\ \A c \in casts : c.task # t
  /\ transfers' = transfers \cup Transfers(t, info[t], TRUE)
  /\ pc' = [pc EXCEPT ![t] = "transfer"]
  /\ UNCHANGED <<entry, cache, frag, latest, taskVars, missing, info, calls, casts, locs>>

\* The continuation of acquire, once ownership and broadcast have completed.
acquire_fetch(t) ==
  /\ pc[t] = "collect"
  /\ \A c \in calls \cup casts : c.task # t
  /\ transfers' = transfers \cup Transfers(t, info[t], TRUE)
  /\ pc' = [pc EXCEPT ![t] = "transfer"]
  /\ UNCHANGED <<entry, cache, frag, latest, taskVars, missing, info, calls, casts, locs>>

(***************************************************************************)
(* transfer: the view is saved at the source and loaded at the requester.  *)
(***************************************************************************)
\* Mutant of data_item_view_save: the source gives away what it is asked a copy of.
data_item_view_save_gives(m) ==
  LET covered == m.region \subseteq Covered(m.src)
      data    == [x \in Elems |-> IF covered /\ x \in m.region THEN frag[m.src][x] ELSE Absent]
  IN  /\ m \in transfers /\ m.stage = "save"
      /\ transfers' = (transfers \ {m}) \cup {[m EXCEPT !.stage = "load", !.data = data]}
      /\ frag' = IF covered
                 THEN [frag EXCEPT ![m.src] =
                         [x \in Elems |-> IF x \in m.region THEN Absent ELSE @[x]]]
                 ELSE frag
      /\ UNCHANGED <<entry, cache, latest, pc, taskVars, missing, info, calls, casts, locs>>

data_item_view_save(m) ==
  LET covered == m.region \subseteq Covered(m.src)
      data    == [x \in Elems |-> IF covered /\ x \in m.region THEN frag[m.src][x] ELSE Absent]
  IN  /\ m \in transfers /\ m.stage = "save"
      /\ transfers' = (transfers \ {m}) \cup {[m EXCEPT !.stage = "load", !.data = data]}
      /\ frag' = IF covered /\ m.migrate
                 THEN [frag EXCEPT ![m.src] =
                         [x \in Elems |-> IF x \in m.region THEN Absent ELSE @[x]]]
                 ELSE frag
      /\ UNCHANGED <<entry, cache, latest, pc, taskVars, missing, info, calls, casts, locs>>

\* Mutant of data_item_view_load: elements the fragment covers are not replaced.
data_item_view_load_new(m) ==
  /\ m \in transfers /\ m.stage = "load"
  /\ transfers' = transfers \ {m}
  /\ frag' = [frag EXCEPT ![Here(m.task)] =
                [x \in Elems |-> IF m.data[x] # Absent /\ @[x] = Absent THEN m.data[x] ELSE @[x]]]
  /\ UNCHANGED <<entry, cache, latest, pc, taskVars, missing, info, calls, casts, locs>>

data_item_view_load(m) ==
  /\ m \in transfers /\ m.stage = "load"
  /\ transfers' = transfers \ {m}
  /\ frag' = [frag EXCEPT ![Here(m.task)] =
                [x \in Elems |-> IF m.data[x] # Absent THEN m.data[x] ELSE @[x]]]
  /\ UNCHANGED <<entry, cache, latest, pc, taskVars, missing, info, calls, casts, locs>>

-----------------------------------------------------------------------------
(***************************************************************************)
(* acquire, for a ReadOnly requirement: locate.  An activation of locate   *)
(* is identified by the path of virtual nodes that led to it.              *)
(***************************************************************************)
Activation(t, path, region) ==
  [task |-> t, path |-> path, region |-> region, local |-> Nowhere,
   remote |-> Nowhere, called |-> FALSE]

Node(f)     == f.path[Len(f.path)]
Callees(f)  == {g \in locs : g.task = f.task /\ Len(g.path) = Len(f.path) + 1
                             /\ SubSeq(g.path, 1, Len(f.path)) = f.path}
IsCaller(g, f) == g.task = f.task /\ Len(f.path) = Len(g.path) + 1
                             /\ SubSeq(f.path, 1, Len(g.path)) = g.path

acquire_read(t) ==
  /\ pc[t] = "acquire" /\ ~Writes(t)
  /\ locs' = locs \cup {Activation(t, <<at[t]>>, Region(t))}
  /\ pc' = [pc EXCEPT ![t] = "locate"]
  /\ UNCHANGED <<entry, cache, frag, latest, taskVars, missing, info, calls, casts, transfers>>

\* The critical section of locate: own data, cached locations, then the
\* children and the parent.  `hit' picks a cached location of an element.
Cached(a) == UNION {cache[a][r] : r \in Ranks}

locate(f, hit) ==
  LET a    == Node(f)
      own  == IF a \in Leaves THEN f.region \cap full[a] ELSE {}
      rest == (f.region \ own) \ Cached(a)
      rp   == rest \cap right[a]
      lp   == (rest \ rp) \cap left[a]
      up   == IF a = Root THEN {} ELSE rest \ (rp \cup lp)
      here == [r \in Ranks |-> {x \in (f.region \ own) \cap cache[a][r] : hit[x] = r}
                               \cup (IF r = Rank[a] THEN own ELSE {})]
      Call(b, m) == IF m = {} THEN {} ELSE {Activation(f.task, Append(f.path, b), m)}
  IN  /\ f \in locs /\ ~f.called
      /\ \A x \in (f.region \ own) \cap Cached(a) : x \in cache[a][hit[x]]
      /\ \A x \in Elems \ ((f.region \ own) \cap Cached(a)) : hit[x] = Rank[Root]
      /\ locs' = (locs \ {f}) \cup {[f EXCEPT !.called = TRUE, !.local = here]}
           \cup (IF a \in Inner THEN Call(RightChild[a], rp) \cup Call(LeftChild[a], lp) ELSE {})
           \cup (IF a = Root THEN {} ELSE Call(Parent[a], up))
      /\ UNCHANGED <<entry, cache, frag, latest, pc, taskVars, missing, info, calls, casts,
                     transfers>>

\* The continuation of locate: remote answers are cached and passed on to the
\* caller; the outermost activation answers the task.
locate_return(f) ==
  LET a      == Node(f)
      answer == AddParts(f.local, f.remote)
      caller == {g \in locs : IsCaller(g, f)}
  IN  /\ f \in locs /\ f.called /\ Callees(f) = {}
      /\ cache' = [cache EXCEPT ![a] = AddParts(@, f.remote)]
      /\ locs' = (locs \ ({f} \cup caller))
                   \cup {[g EXCEPT !.remote = AddParts(@, answer)] : g \in caller}
      /\ IF caller = {}
         THEN /\ transfers' = transfers \cup Transfers(f.task, answer, FALSE)
              /\ pc' = [pc EXCEPT ![f.task] = "transfer"]
         ELSE UNCHANGED <<transfers, pc>>
      /\ UNCHANGED <<entry, frag, latest, taskVars, missing, info, calls, casts>>

-----------------------------------------------------------------------------
(***************************************************************************)
(* work_item_impl::process: the data has arrived; wait for the             *)
(* dependencies, run the process variant.  It reads its region and, if it  *)
(* writes, leaves its own value in the part its fragment covers.           *)
(***************************************************************************)
\* Mutant of process: the task does not wait for its transfers.
process_early(t) ==
  /\ pc[t] = "transfer"
  /\ \A u \in deps[t] : pc[u] = "done"
  /\ pc' = [pc EXCEPT ![t] = "running"]
  /\ UNCHANGED <<entry, frag, taskVars, index>>

process(t) ==
  /\ pc[t] = "transfer"
  /\ \A m \in transfers : m.task # t
  /\ \A u \in deps[t] : pc[u] = "done"
  /\ pc' = [pc EXCEPT ![t] = "running"]
  /\ UNCHANGED <<entry, frag, taskVars, index>>

finalize(t) ==
  /\ pc[t] = "running"
  /\ pc' = [pc EXCEPT ![t] = "done"]
  /\ IF Writes(t)
     THEN /\ latest' = [x \in Elems |-> IF x \in Region(t) THEN t ELSE latest[x]]
          /\ frag' = [frag EXCEPT ![Here(t)] =
                        [x \in Elems |-> IF x \in Region(t) /\ @[x] # Absent THEN t ELSE @[x]]]
     ELSE UNCHANGED <<latest, frag>>
  /\ Forget(t)
  /\ UNCHANGED <<entry, cache, calls, casts, locs, transfers>>

\* All tasks have finished: nothing is left to do.
Terminated == (\A t \in Tasks : pc[t] = "done") /\ calls = {} /\ casts = {}
                /\ locs = {} /\ transfers = {} /\ UNCHANGED vars

TaskStep(t) ==
  \/ schedule_here(t) \/ schedule_shortcut(t) \/ schedule_turn(t) \/ schedule_up(t)
  \/ schedule_down_reject(t) \/ schedule_down_stay(t)
  \/ schedule_down_left(t) \/ schedule_down_right(t)
  \/ schedule_local_split(t) \/ schedule_local_descend(t) \/ schedule_local_leaf(t)
  \/ acquire_owned(t) \/ acquire_missing(t) \/ acquire_ownership(t) \/ acquire_fetch(t)
  \/ acquire_read(t) \/ process(t) \/ finalize(t)

CallStep ==
  \/ \E c \in casts : update_cache(c)
  \/ \E c \in calls : \/ acquire_ownership_for(c)
                      \/ collect_child_ownerships(c)
                      \/ collect_leaf_ownership(c)
  \/ \E m \in transfers : data_item_view_save(m) \/ data_item_view_load(m)
  \/ \E f \in locs : \/ \E hit \in [Elems -> Ranks] : locate(f, hit)
                     \/ locate_return(f)

Next ==
  \/ \E t \in Tasks, q \in Requirements, r \in Ranks, g \in Addr :
       \E p \in ParentGoals(g) : spawn(t, q, r, g, p)
  \/ \E t \in Tasks : TaskStep(t)
  \/ CallStep
  \/ Terminated

Spec == Init /\ [][Next]_vars

\* HPX runs every spawned thread, delivers every parcel and resolves every
\* future: no task hop and no call in flight is delayed forever.
Fairness == WF_vars(CallStep) /\ \A t \in Tasks : WF_vars(TaskStep(t))
FairSpec == Spec /\ Fairness

-----------------------------------------------------------------------------
Versions == Tasks \cup {Blank}
Stages == {"new", "schedule", "down", "local", "acquire", "own", "collect",
           "locate", "transfer", "running", "done"}

Regions   == (SUBSET Elems) \ {{}}
IndexCall == [op : {"acquire"}, task : Tasks, at : Inner, child : Addr, region : Regions]
        \cup [op : {"collect"}, task : Tasks, at : Addr, child : Addr, region : Regions]
Cast      == [task : Tasks, rank : Ranks, region : Regions, to : Ranks]
Transfer  == [task : Tasks, src : Ranks, region : Regions, migrate : BOOLEAN,
              stage : {"save", "load"}, data : [Elems -> Values]]
Locate    == [task : Tasks, path : Seq(Addr) \ {<<>>}, region : Regions, local : Location,
              remote : Location, called : BOOLEAN]

\* The type of the state.  Calls are addressed to virtual nodes that can serve
\* them (only inner nodes acquire ownership for a child) and none is made for an
\* empty region: the assertions at the head of acquire_ownership_for,
\* collect_child_ownerships and locate.
TypeOK ==
  /\ full \in [Addr -> SUBSET Elems]
  /\ left \in [Addr -> SUBSET Elems]
  /\ right \in [Addr -> SUBSET Elems]
  /\ cache \in [Addr -> Location]
  /\ frag \in [Ranks -> [Elems -> Values]]
  /\ latest \in [Elems -> Versions]
  /\ pc \in [Tasks -> Stages]
  /\ at \in [Tasks -> Addr]
  /\ req \in [Tasks -> Requirements \cup {NoRequirement}]
  /\ goal \in [Tasks -> [own : Addr, parent : Addr]]
  /\ deps \in [Tasks -> SUBSET Tasks]
  /\ allowance \in [Tasks -> SUBSET Elems]
  /\ missing \in [Tasks -> SUBSET Elems]
  /\ info \in [Tasks -> Location]
  /\ calls \subseteq IndexCall
  /\ casts \subseteq Cast
  /\ locs \subseteq Locate
  /\ transfers \subseteq Transfer

\* The regions a virtual node has delegated to its two children never overlap,
\* whatever allowances and ownership requests cross each other at that node.
LeftRightDisjoint == \A a \in Addr : left[a] \cap right[a] = {}

\* What the parent of a virtual node records for it, what the node itself is in
\* charge of or has delegated.
Side(a) == IF a = RightChild[Parent[a]] THEN right[Parent[a]] ELSE left[Parent[a]]
Holds(a) == full[a] \cup left[a] \cup right[a]

\* Every element a virtual node is in charge of is recorded for it at its
\* parent, or a call is on its way that will record it there or collect it.
OwnershipLinked ==
  \A a \in Addr \ {Root} : \A x \in Holds(a) :
     \/ x \in Side(a)
     \/ \E c \in calls : x \in c.region /\ c.child = a

\* No element has two owning localities, except while one of them is being
\* asked to give it up (index_entry::full_ of the leaves).
OneOwner ==
  \A r, s \in Ranks : \A x \in full[Leaf[r]] \cap full[Leaf[s]] :
     r = s \/ \E c \in calls : x \in c.region

\* While the process variant of a task runs, its fragment holds, for all of
\* its region, the values the last writers left.
RunsOnLatest ==
  \A t \in Tasks : pc[t] = "running" =>
     \A x \in Region(t) : frag[Here(t)][x] = latest[x]

\* While a writer runs, its locality and no other owns its region.
WriterOwns ==
  \A t \in Tasks : pc[t] = "running" /\ Writes(t) =>
     \A x \in Region(t), r \in Ranks : x \in full[Leaf[r]] <=> r = Here(t)

\* What was written last is never lost: some fragment covers it, or it is on
\* its way between two localities.
NothingLost ==
  \A x \in Elems : latest[x] # Blank =>
     \/ \E r \in Ranks : frag[r][x] = latest[x]
     \/ \E m \in transfers : m.data[x] = latest[x]

\* A cached location is that of the owner unless a writer of the element is
\* under way (location_cache_ is only corrected by the broadcast of acquire).
WriterActive(x) == \E t \in Active : Writes(t) /\ x \in Region(t)
CacheFresh ==
  \A a \in Addr, r \in Ranks : \A x \in cache[a][r] :
     WriterActive(x) \/ x \in full[Leaf[r]]

\* The assertions of collect_child_ownerships: a leaf owns what is collected
\* from it, an inner node finds all of it with its children.
CollectsWhatIsHeld ==
  \A c \in calls : c.op = "collect" =>
     c.region \subseteq (IF c.at \in Leaves THEN full[c.at] ELSE left[c.at] \cup right[c.at])

\* The assertion of collect_child_ownerships: what is collected on the right
\* is sent to a right child of its own.
CollectRightHasTarget ==
  \A c \in calls : (c.op = "collect" /\ c.at \in Inner
                      /\ (c.region \ left[c.at]) \cap right[c.at] # {})
                    => RightChild[c.at] # LeftChild[c.at]

\* What the process variant of a task sees of the data item while it runs.
Sees(t) == [x \in IF pc[t] = "running" THEN Region(t) ELSE {} |-> frag[Here(t)][x]]

OneCopy == INSTANCE OneCopy WITH
  Elems <- Elems, Tasks <- Tasks, Blank <- Blank,
  value <- latest,
  view <- [t \in Tasks |-> Sees(t)],
  writers <- {t \in Tasks : pc[t] = "running" /\ Writes(t)}

\* The fragments of all localities are one copy of the data item to its tasks: from
\* process to finalize a task sees what the last writers left, and no acquisition,
\* migration, location or copy made for other tasks changes what it sees meanwhile.
ImplementsOneCopy == OneCopy!Spec

\* Every task that is spawned is processed or split eventually.
TasksFinish == \A t \in Tasks : pc[t] = "schedule" ~> pc[t] = "done"
=============================================================================
