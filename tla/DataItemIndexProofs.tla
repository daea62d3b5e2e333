-------------------------- MODULE DataItemIndexProofs --------------------------
(***************************************************************************)
(* What holds of the data items for every tree, every set of tasks and     *)
(* every region: the types of the state; who owns what, which the index    *)
(* entries of the overlay tree record; where the data is, which the        *)
(* fragments, the transfers and the location caches have; and that all of  *)
(* this looks like one copy of the data item.                              *)
(***************************************************************************)
EXTENDS DataItemIndex, TLAPS

(***************************************************************************)
(* Type correctness.  Two facts make it inductive: a work item that has    *)
(* not acquired its data yet has a requirement of the program (not an      *)
(* empty one), and acquire asks for ownership of non-empty regions only.   *)
(***************************************************************************)
UnderWay ==
  /\ \A t \in Tasks :
       pc[t] \in {"schedule", "down", "local", "acquire"} => req[t] \in Requirements
  /\ \A t \in Tasks : pc[t] = "own" => missing[t] # {}

TypeInv == TypeOK /\ UnderWay

LEMMA RequirementFacts ==
  \A q \in Requirements :
     /\ q.mode \in Modes /\ q.region \in Regions
     /\ q.split \in BOOLEAN /\ q.remote \in BOOLEAN
BY RequirementsAssumption DEF Requirement, Regions

LEMMA TreeFacts ==
  /\ Root \in Addr
  /\ Leaf \in [Ranks -> Addr]
  /\ Rank \in [Addr -> Ranks]
  /\ \A r \in Ranks : Leaf[r] \in Leaves /\ Leaf[r] \in Addr /\ Rank[Leaf[r]] = r
  /\ \A a \in Addr : a \in Inner <=> a \notin Leaves
  /\ \A a \in Addr : a # Root => Parent[a] \in Addr /\ Parent[a] \in Inner
  /\ \A a \in Inner : LeftChild[a] \in Addr /\ RightChild[a] \in Addr
  /\ Inner \subseteq Addr
BY HierarchyAssumption DEF Leaves, Inner

LEMMA InitTypeInv == Init => TypeInv
BY TreeFacts, ValuesAssumption
   DEF Init, TypeInv, TypeOK, UnderWay, Active, Location, Values, Versions, Stages,
       Nowhere, AtRoot

LEMMA SpawnType ==
  ASSUME TypeInv, NEW t \in Tasks, NEW q \in Requirements, NEW r \in Ranks,
         NEW g \in Addr, NEW p \in ParentGoals(g), spawn(t, q, r, g, p)
  PROVE  TypeInv'
<1>1. p \in Addr
  BY TreeFacts DEF ParentGoals
<1>2. deps' \in [Tasks -> SUBSET Tasks]
  BY DEF TypeInv, TypeOK, spawn, Active
<1>3. TypeOK'
  BY <1>1, <1>2, TreeFacts DEF TypeInv, TypeOK, spawn, entry, Stages
<1>4. UnderWay'
  BY DEF TypeInv, TypeOK, UnderWay, spawn, Active
<1>5. QED
  BY <1>3, <1>4 DEF TypeInv

(***************************************************************************)
(* The hops of a task.                                                     *)
(***************************************************************************)
LEMMA UpdateTypes ==
  ASSUME NEW S, NEW E, NEW f \in [S -> SUBSET E], NEW a \in S, NEW e \in SUBSET E
  PROVE  /\ [f EXCEPT ![a] = @ \cup e] \in [S -> SUBSET E]
         /\ [f EXCEPT ![a] = @ \ e] \in [S -> SUBSET E]
         /\ [f EXCEPT ![a] = e] \in [S -> SUBSET E]
OBVIOUS

LEMMA AllowanceTypes ==
  ASSUME TypeInv, NEW t \in Tasks, NEW a \in Addr
  PROVE  /\ MissingRegions(a, t) \in SUBSET Elems
         /\ add_allowance_left(a, t) \/ add_allowance_right(a, t) =>
              /\ full' \in [Addr -> SUBSET Elems] /\ left' \in [Addr -> SUBSET Elems]
              /\ right' \in [Addr -> SUBSET Elems] /\ allowance' \in [Tasks -> SUBSET Elems]
         /\ add_allowance(a, t) =>
              /\ full' \in [Addr -> SUBSET Elems] /\ left' \in [Addr -> SUBSET Elems]
              /\ right' \in [Addr -> SUBSET Elems] /\ frag' \in [Ranks -> [Elems -> Values]]
<1>1. /\ Region(t) \in SUBSET Elems
      /\ full \in [Addr -> SUBSET Elems] /\ left \in [Addr -> SUBSET Elems]
      /\ right \in [Addr -> SUBSET Elems] /\ allowance \in [Tasks -> SUBSET Elems]
      /\ frag \in [Ranks -> [Elems -> Values]]
  BY RequirementFacts DEF TypeInv, TypeOK, Region, Regions, NoRequirement
<1>2. allowance[t] \in SUBSET Elems
  BY <1>1
<1>3. MissingRegions(a, t) \in SUBSET Elems
  BY <1>1 DEF MissingRegions, get_missing_region, get_managed_unallocated
<1>4. ASSUME NEW f \in SUBSET Elems, NEW m \in SUBSET Elems, NEW o \in SUBSET Elems
      PROVE  Handed(f, allowance[t], Region(t), m, o) \in SUBSET Elems
  BY <1>1 DEF Handed
<1>5. ASSUME add_allowance_left(a, t)
      PROVE  /\ full' \in [Addr -> SUBSET Elems] /\ left' \in [Addr -> SUBSET Elems]
             /\ right' \in [Addr -> SUBSET Elems] /\ allowance' \in [Tasks -> SUBSET Elems]
  <2> DEFINE h == Handed(full[a], allowance[t], Region(t), left[a], right[a])
  <2>1. h \in SUBSET Elems
    BY <1>1, <1>4
  <2>2. CASE Writes(t)
    <3>1. /\ full' = [full EXCEPT ![a] = @ \cup allowance[t]]
          /\ left' = [left EXCEPT ![a] = @ \cup h]
          /\ allowance' = [allowance EXCEPT ![t] = h]
          /\ right' = right
      BY <1>5, <2>2 DEF add_allowance_left
    <3> HIDE DEF h
    <3>2. QED
      BY <3>1, <1>1, <1>2, <2>1, UpdateTypes
  <2>3. CASE ~Writes(t)
    BY <1>1, <1>5, <2>3 DEF add_allowance_left
  <2>4. QED
    BY <2>2, <2>3
<1>6. ASSUME add_allowance_right(a, t)
      PROVE  /\ full' \in [Addr -> SUBSET Elems] /\ left' \in [Addr -> SUBSET Elems]
             /\ right' \in [Addr -> SUBSET Elems] /\ allowance' \in [Tasks -> SUBSET Elems]
  <2> DEFINE h == Handed(full[a], allowance[t], Region(t), right[a], left[a])
  <2>1. h \in SUBSET Elems
    BY <1>1, <1>4
  <2>2. CASE Writes(t)
    <3>1. /\ full' = [full EXCEPT ![a] = @ \cup allowance[t]]
          /\ right' = [right EXCEPT ![a] = @ \cup h]
          /\ allowance' = [allowance EXCEPT ![t] = h]
          /\ left' = left
      BY <1>6, <2>2 DEF add_allowance_right
    <3> HIDE DEF h
    <3>2. QED
      BY <3>1, <1>1, <1>2, <2>1, UpdateTypes
  <2>3. CASE ~Writes(t)
    BY <1>1, <1>6, <2>3 DEF add_allowance_right
  <2>4. QED
    BY <2>2, <2>3
<1>7. ASSUME add_allowance(a, t)
      PROVE  /\ full' \in [Addr -> SUBSET Elems] /\ left' \in [Addr -> SUBSET Elems]
             /\ right' \in [Addr -> SUBSET Elems] /\ frag' \in [Ranks -> [Elems -> Values]]
  <2>1. full' \in [Addr -> SUBSET Elems] /\ left' = left /\ right' = right
    BY <1>1, <1>2, <1>7, UpdateTypes DEF add_allowance
  <2>2. ASSUME NEW r \in Ranks, NEW region, resize_fragment(r, region)
        PROVE  frag' \in [Ranks -> [Elems -> Values]]
    BY <1>1, <2>2 DEF resize_fragment, Values
  <2>3. frag' \in [Ranks -> [Elems -> Values]]
    BY <1>1, <1>7, <2>2, TreeFacts DEF add_allowance
  <2>4. QED
    BY <1>1, <2>1, <2>3
<1>8. QED
  BY <1>3, <1>5, <1>6, <1>7

LEMMA ScheduleType ==
  ASSUME TypeInv, NEW t \in Tasks,
         \/ schedule_here(t) \/ schedule_shortcut(t) \/ schedule_turn(t) \/ schedule_up(t)
         \/ schedule_down_reject(t) \/ schedule_down_stay(t)
         \/ schedule_down_left(t) \/ schedule_down_right(t)
  PROVE  TypeInv'
<1> USE DEF TypeInv, TypeOK, UnderWay, Active, Stages, entry, taskVars, index, MayLeave
<1>1. CASE schedule_here(t)
  BY <1>1, AllowanceTypes DEF schedule_here
<1>2. CASE schedule_shortcut(t)
  BY <1>2 DEF schedule_shortcut
<1>3. CASE schedule_turn(t)
  BY <1>3, AllowanceTypes DEF schedule_turn
<1>4. CASE schedule_up(t)
  BY <1>4, TreeFacts DEF schedule_up
<1>5. CASE schedule_down_reject(t)
  <2>1. at[t] # Root
    BY <1>5, HierarchyAssumption DEF schedule_down_reject, Involved
  <2>2. QED
    BY <1>5, <2>1, TreeFacts DEF schedule_down_reject
<1>6. CASE schedule_down_stay(t)
  BY <1>6 DEF schedule_down_stay
<1>7. CASE schedule_down_left(t)
  BY <1>7, TreeFacts, AllowanceTypes DEF schedule_down_left, Stays
<1>8. CASE schedule_down_right(t)
  BY <1>8, TreeFacts, AllowanceTypes DEF schedule_down_right, Stays
<1>9. QED
  BY <1>1, <1>2, <1>3, <1>4, <1>5, <1>6, <1>7, <1>8

LEMMA LocalType ==
  ASSUME TypeInv, NEW t \in Tasks,
         schedule_local_split(t) \/ schedule_local_descend(t) \/ schedule_local_leaf(t)
  PROVE  TypeInv'
<1> USE DEF TypeInv, TypeOK, UnderWay, Active, Stages, entry, taskVars, index
<1>1. CASE schedule_local_split(t)
  BY <1>1, AllowanceTypes, TreeFacts
     DEF schedule_local_split, Forget, AtRoot, Nowhere, Location
<1>2. CASE schedule_local_descend(t)
  BY <1>2, AllowanceTypes, TreeFacts DEF schedule_local_descend
<1>3. CASE schedule_local_leaf(t)
  BY <1>3, AllowanceTypes, TreeFacts DEF schedule_local_leaf, AtRoot
<1>4. QED
  BY <1>1, <1>2, <1>3

(***************************************************************************)
(* Acquiring ownership.                                                    *)
(***************************************************************************)
LEMMA AcquireForType ==
  ASSUME NEW t \in Tasks, NEW a \in Addr \ {Root}, NEW m \in Regions
  PROVE  AcquireFor(t, Parent[a], a, m) \in IndexCall
BY TreeFacts DEF AcquireFor, IndexCall

LEMMA CollectType ==
  ASSUME NEW t \in Tasks, NEW a \in Addr, NEW m \in Regions
  PROVE  Collect(t, a, m) \in IndexCall
BY DEF Collect, IndexCall

LEMMA CallFacts ==
  ASSUME TypeOK, NEW c \in calls
  PROVE  /\ c.task \in Tasks /\ c.at \in Addr /\ c.child \in Addr
         /\ c.region \in SUBSET Elems /\ c.region # {}
         /\ c.op = "acquire" => c.at \in Inner
         /\ c.op \in {"acquire", "collect"}
BY TreeFacts DEF TypeOK, IndexCall, Regions

LEMMA AcquireType ==
  ASSUME TypeInv, NEW t \in Tasks,
         acquire_owned(t) \/ acquire_missing(t) \/ acquire_ownership(t)
  PROVE  TypeInv'
<1> USE DEF TypeInv, TypeOK, UnderWay, Active, Stages, entry, taskVars, index
<1>1. CASE acquire_owned(t)
  BY <1>1 DEF acquire_owned
<1>2. CASE acquire_missing(t)
  <2> DEFINE m == Region(t) \ full[at[t]]
  <2>1. m \in Regions
    BY <1>2, RequirementFacts DEF acquire_missing, Region, Regions
  <2>2. Here(t) \in Ranks
    BY TreeFacts DEF Here
  <2>3. casts' \subseteq Cast
    <3>1. casts' = casts \cup {[task |-> t, rank |-> r, region |-> m, to |-> Here(t)] : r \in Ranks}
      BY <1>2 DEF acquire_missing
    <3>2. \A r \in Ranks : [task |-> t, rank |-> r, region |-> m, to |-> Here(t)] \in Cast
      BY <2>1, <2>2 DEF Cast
    <3>3. QED
      BY <3>1, <3>2
  <2>4. missing' \in [Tasks -> SUBSET Elems] /\ missing'[t] # {}
    BY <1>2, <2>1 DEF acquire_missing, Regions
  <2>5. TypeOK'
    BY <1>2, <2>3, <2>4 DEF acquire_missing
  <2>6. UnderWay'
    BY <1>2, <2>4 DEF acquire_missing
  <2>7. QED
    BY <2>5, <2>6
<1>3. CASE acquire_ownership(t)
  <2>1. missing[t] \in Regions
    BY <1>3 DEF acquire_ownership, Regions
  <2>2. calls' \subseteq IndexCall
    BY <1>3, <2>1, AcquireForType DEF acquire_ownership
  <2>3. full' \in [Addr -> SUBSET Elems]
    BY <1>3, <2>1, UpdateTypes DEF acquire_ownership
  <2>4. TypeOK'
    BY <1>3, <2>2, <2>3 DEF acquire_ownership
  <2>5. UnderWay'
    BY <1>3 DEF acquire_ownership
  <2>6. QED
    BY <2>4, <2>5
<1>4. QED
  BY <1>1, <1>2, <1>3

LEMMA OwnershipType ==
  ASSUME TypeInv, NEW c,
         acquire_ownership_for(c) \/ collect_child_ownerships(c) \/ collect_leaf_ownership(c)
  PROVE  TypeInv'
<1>1. c \in calls
  BY DEF acquire_ownership_for, collect_child_ownerships, collect_leaf_ownership
<1>2. /\ c.task \in Tasks /\ c.at \in Addr /\ c.region \in SUBSET Elems
      /\ c.op = "acquire" => c.at \in Inner
  BY <1>1, CallFacts DEF TypeInv
<1>3. /\ full \in [Addr -> SUBSET Elems] /\ left \in [Addr -> SUBSET Elems]
      /\ right \in [Addr -> SUBSET Elems] /\ calls \subseteq IndexCall
      /\ info \in [Tasks -> Location]
  BY DEF TypeInv, TypeOK
<1>4. CASE acquire_ownership_for(c)
  <2> DEFINE a == c.at
             fromRight == c.child = RightChild[a]
             part  == c.region \cap (IF fromRight THEN left[a] ELSE right[a])
             rest  == c.region \ part
             other == IF fromRight THEN LeftChild[a] ELSE RightChild[a]
  <2>1. a \in Inner /\ other \in Addr /\ part \in SUBSET Elems /\ rest \in SUBSET Elems
    BY <1>2, <1>4, TreeFacts DEF acquire_ownership_for
  <2>2. /\ left'  = [left EXCEPT ![a] = IF fromRight THEN @ \ part ELSE @ \cup c.region]
        /\ right' = [right EXCEPT ![a] = IF fromRight THEN @ \cup c.region ELSE @ \ part]
        /\ full'  = [full EXCEPT ![a] = @ \ rest]
        /\ calls' = (calls \ {c})
           \cup (IF rest # {} /\ a # Root THEN {AcquireFor(c.task, Parent[a], a, rest)} ELSE {})
           \cup (IF part # {} THEN {Collect(c.task, other, part)} ELSE {})
        /\ UNCHANGED <<cache, frag, latest, pc, taskVars, missing, info, casts, locs, transfers>>
    BY <1>4 DEF acquire_ownership_for
  <2> HIDE DEF a, fromRight, part, rest, other
  <2>3. a \in Addr
    BY <2>1, TreeFacts
  <2>4. full' \in [Addr -> SUBSET Elems]
    BY <1>3, <2>1, <2>2, <2>3, UpdateTypes
  <2>5. left' \in [Addr -> SUBSET Elems] /\ right' \in [Addr -> SUBSET Elems]
    <3>1. CASE fromRight
      BY <1>2, <1>3, <2>1, <2>2, <2>3, <3>1, UpdateTypes
    <3>2. CASE ~fromRight
      BY <1>2, <1>3, <2>1, <2>2, <2>3, <3>2, UpdateTypes
    <3>3. QED
      BY <3>1, <3>2
  <2>6. calls' \subseteq IndexCall
    <3>1. rest # {} /\ a # Root => AcquireFor(c.task, Parent[a], a, rest) \in IndexCall
      BY <1>2, <2>1, <2>3, AcquireForType DEF Regions
    <3>2. part # {} => Collect(c.task, other, part) \in IndexCall
      BY <1>2, <2>1, CollectType DEF Regions
    <3>3. QED
      BY <1>3, <2>2, <3>1, <3>2
  <2>7. QED
    BY <2>2, <2>4, <2>5, <2>6 DEF TypeInv, TypeOK, UnderWay, Active, taskVars
<1>5. CASE collect_child_ownerships(c)
  <2> DEFINE a  == c.at
             lp == c.region \cap left[a]
             rp == (c.region \ lp) \cap right[a]
  <2>1. a \in Inner /\ lp \in SUBSET Elems /\ rp \in SUBSET Elems
    BY <1>2, <1>3, <1>5 DEF collect_child_ownerships
  <2>2. /\ left'  = [left EXCEPT ![a] = @ \ lp]
        /\ right' = [right EXCEPT ![a] = @ \ rp]
        /\ full'  = [full EXCEPT ![a] = @ \ (lp \cup rp)]
        /\ calls' = (calls \ {c})
           \cup (IF lp # {} THEN {Collect(c.task, LeftChild[a], lp)} ELSE {})
           \cup (IF rp # {} THEN {Collect(c.task, RightChild[a], rp)} ELSE {})
        /\ UNCHANGED <<cache, frag, latest, pc, taskVars, missing, info, casts, locs, transfers>>
    BY <1>5 DEF collect_child_ownerships
  <2> HIDE DEF a, lp, rp
  <2>3. a \in Addr /\ LeftChild[a] \in Addr /\ RightChild[a] \in Addr /\ lp \cup rp \in SUBSET Elems
    BY <2>1, TreeFacts
  <2>4. /\ full' \in [Addr -> SUBSET Elems]
        /\ left' \in [Addr -> SUBSET Elems]
        /\ right' \in [Addr -> SUBSET Elems]
    BY <1>3, <2>1, <2>2, <2>3, UpdateTypes
  <2>5. calls' \subseteq IndexCall
    <3>1. /\ lp # {} => Collect(c.task, LeftChild[a], lp) \in IndexCall
          /\ rp # {} => Collect(c.task, RightChild[a], rp) \in IndexCall
      BY <1>2, <2>1, <2>3, CollectType DEF Regions
    <3>2. QED
      BY <1>3, <2>2, <3>1
  <2>6. QED
    BY <2>2, <2>4, <2>5 DEF TypeInv, TypeOK, UnderWay, Active, taskVars
<1>6. CASE collect_leaf_ownership(c)
  <2>1. full' \in [Addr -> SUBSET Elems]
    BY <1>2, <1>3, <1>6, UpdateTypes DEF collect_leaf_ownership
  <2>2. info' \in [Tasks -> Location]
    <3>1. info[c.task] \in [Ranks -> SUBSET Elems]
      BY <1>2, <1>3 DEF Location
    <3>2. [info[c.task] EXCEPT ![Rank[c.at]] = @ \cup c.region] \in Location
      BY <1>2, <3>1, TreeFacts, UpdateTypes DEF Location
    <3>3. info' = info \/ info' = [info EXCEPT ![c.task] =
                                     [info[c.task] EXCEPT ![Rank[c.at]] = @ \cup c.region]]
      BY <1>3, <1>6 DEF collect_leaf_ownership
    <3>4. QED
      BY <1>2, <1>3, <3>2, <3>3
  <2>3. QED
    BY <1>6, <2>1, <2>2 DEF collect_leaf_ownership, TypeInv, TypeOK, UnderWay, Active, taskVars
<1>7. QED
  BY <1>4, <1>5, <1>6

(***************************************************************************)
(* Moving and locating data.                                               *)
(***************************************************************************)
LEMMA TransfersType ==
  ASSUME NEW t \in Tasks, NEW loc \in Location, NEW migrate \in BOOLEAN
  PROVE  Transfers(t, loc, migrate) \subseteq Transfer
<1>1. \A r \in Ranks : loc[r] # {} => loc[r] \in Regions
  BY DEF Location, Regions
<1>2. [x \in Elems |-> Absent] \in [Elems -> Values]
  BY DEF Values
<1>3. QED
  BY <1>1, <1>2 DEF Transfers, Transfer

LEMMA AddPartsType ==
  ASSUME NEW l \in Location, NEW m \in Location
  PROVE  AddParts(l, m) \in Location
BY DEF AddParts, Location

LEMMA UpdateLocationType ==
  ASSUME NEW l \in Location, NEW r \in Ranks, NEW m \in SUBSET Elems
  PROVE  UpdateLocation(l, r, m) \in Location
<1> DEFINE known == m \cap UNION {l[s] : s \in Ranks}
<1>1. known \in SUBSET Elems
  OBVIOUS
<1> HIDE DEF known
<1>2. \A s \in Ranks : (IF s = r THEN (l[s] \ m) \cup known ELSE l[s] \ m) \in SUBSET Elems
  BY <1>1 DEF Location
<1>3. QED
  BY <1>2 DEF UpdateLocation, Location, known

LEMMA FetchType ==
  ASSUME TypeInv, NEW t \in Tasks, acquire_fetch(t) \/ acquire_read(t)
  PROVE  TypeInv'
<1> USE DEF TypeInv, TypeOK, UnderWay, Active, Stages, entry, taskVars
<1>1. CASE acquire_fetch(t)
  <2>1. Transfers(t, info[t], TRUE) \subseteq Transfer
    BY TransfersType
  <2>2. QED
    BY <1>1, <2>1 DEF acquire_fetch
<1>2. CASE acquire_read(t)
  <2>1. Region(t) \in Regions
    BY <1>2, RequirementFacts DEF acquire_read, Region
  <2>2. <<at[t]>> \in Seq(Addr) \ {<<>>}
    OBVIOUS
  <2>3. Activation(t, <<at[t]>>, Region(t)) \in Locate
    BY <2>1, <2>2 DEF Activation, Locate, Nowhere, Location
  <2>4. QED
    BY <1>2, <2>3 DEF acquire_read
<1>3. QED
  BY <1>1, <1>2

LEMMA CallStepType ==
  ASSUME TypeInv, NEW m,
         update_cache(m) \/ data_item_view_save(m) \/ data_item_view_load(m)
  PROVE  TypeInv'
<1>0. /\ casts \subseteq Cast /\ cache \in [Addr -> Location]
      /\ transfers \subseteq Transfer /\ frag \in [Ranks -> [Elems -> Values]]
      /\ at \in [Tasks -> Addr]
  BY DEF TypeInv, TypeOK
<1>1. CASE update_cache(m)
  <2>1. m.to \in Ranks /\ m.region \in SUBSET Elems
    BY <1>0, <1>1 DEF update_cache, Cast, Regions
  <2>2. cache' \in [Addr -> Location]
    BY <1>0, <1>1, <2>1, UpdateLocationType DEF update_cache
  <2>3. QED
    BY <1>1, <2>2 DEF update_cache, TypeInv, TypeOK, UnderWay, Active, entry, taskVars
<1>2. CASE data_item_view_save(m)
  <2> DEFINE covered == m.region \subseteq Covered(m.src)
             data == [x \in Elems |-> IF covered /\ x \in m.region THEN frag[m.src][x] ELSE Absent]
             sent == [m EXCEPT !.stage = "load", !.data = data]
  <2>1. /\ m \in Transfer /\ m.src \in Ranks
    BY <1>0, <1>2 DEF data_item_view_save, Transfer
  <2>2. data \in [Elems -> Values]
    BY <1>0, <2>1 DEF Values
  <2>3. transfers' = (transfers \ {m}) \cup {sent}
    BY <1>2 DEF data_item_view_save
  <2>4. frag' = frag \/ frag' = [frag EXCEPT ![m.src] =
                                   [x \in Elems |-> IF x \in m.region THEN Absent ELSE @[x]]]
    BY <1>2 DEF data_item_view_save
  <2>5. frag' \in [Ranks -> [Elems -> Values]]
    BY <1>0, <2>1, <2>4 DEF Values
  <2> HIDE DEF data
  <2>6. sent \in Transfer
    BY <2>1, <2>2 DEF Transfer
  <2>7. transfers' \subseteq Transfer
    BY <1>0, <2>3, <2>6
  <2>8. QED
    BY <1>2, <2>5, <2>7
       DEF data_item_view_save, TypeInv, TypeOK, UnderWay, Active, entry, taskVars
<1>3. CASE data_item_view_load(m)
  <2>1. m \in Transfer /\ m.task \in Tasks /\ m.data \in [Elems -> Values]
    BY <1>0, <1>3 DEF data_item_view_load, Transfer
  <2>2. Here(m.task) \in Ranks
    BY <1>0, <2>1, TreeFacts DEF Here
  <2>3. frag' = [frag EXCEPT ![Here(m.task)] =
                   [x \in Elems |-> IF m.data[x] # Absent THEN m.data[x] ELSE @[x]]]
    BY <1>3 DEF data_item_view_load
  <2>4. frag' \in [Ranks -> [Elems -> Values]]
    BY <1>0, <2>1, <2>2, <2>3
  <2>5. QED
    BY <1>3, <2>4 DEF data_item_view_load, TypeInv, TypeOK, UnderWay, Active, entry, taskVars
<1>4. QED
  BY <1>1, <1>2, <1>3

LEMMA ActivationFacts ==
  ASSUME TypeOK, NEW f \in locs
  PROVE  /\ f \in Locate /\ f.task \in Tasks /\ Node(f) \in Addr
         /\ f.region \in SUBSET Elems /\ f.local \in Location /\ f.remote \in Location
         /\ f.path \in Seq(Addr) /\ f.path # <<>>
<1>1. /\ f \in Locate /\ f.task \in Tasks /\ f.path \in Seq(Addr) /\ f.path # <<>>
      /\ f.region \in SUBSET Elems /\ f.local \in Location /\ f.remote \in Location
  BY DEF TypeOK, Locate, Regions
<1>2. Node(f) \in Addr
  BY <1>1 DEF Node
<1>3. QED
  BY <1>1, <1>2

LEMMA ActivationType ==
  ASSUME NEW t \in Tasks, NEW p \in Seq(Addr), NEW b \in Addr, NEW m \in SUBSET Elems, m # {}
  PROVE  Activation(t, Append(p, b), m) \in Locate
<1>1. Append(p, b) \in Seq(Addr) \ {<<>>}
  OBVIOUS
<1>2. QED
  BY <1>1 DEF Activation, Locate, Regions, Nowhere, Location

LEMMA LocateType ==
  ASSUME TypeInv, NEW f, NEW hit \in [Elems -> Ranks], locate(f, hit)
  PROVE  TypeInv'
<1> DEFINE a    == Node(f)
           own  == IF a \in Leaves THEN f.region \cap full[a] ELSE {}
           rest == (f.region \ own) \ Cached(a)
           rp   == rest \cap right[a]
           lp   == (rest \ rp) \cap left[a]
           up   == IF a = Root THEN {} ELSE rest \ (rp \cup lp)
           here == [r \in Ranks |-> {x \in (f.region \ own) \cap cache[a][r] : hit[x] = r}
                                     \cup (IF r = Rank[a] THEN own ELSE {})]
           Call(b, m) == IF m = {} THEN {} ELSE {Activation(f.task, Append(f.path, b), m)}
           known == [f EXCEPT !.called = TRUE, !.local = here]
<1>1. f \in locs /\ locs \subseteq Locate
  BY DEF locate, TypeInv, TypeOK
<1>2. /\ f \in Locate /\ f.task \in Tasks /\ a \in Addr /\ f.region \in SUBSET Elems
      /\ f.path \in Seq(Addr)
  BY <1>1, ActivationFacts DEF TypeInv
<1>3. /\ locs' = (locs \ {f}) \cup {known}
           \cup (IF a \in Inner THEN Call(RightChild[a], rp) \cup Call(LeftChild[a], lp) ELSE {})
           \cup (IF a = Root THEN {} ELSE Call(Parent[a], up))
      /\ UNCHANGED <<entry, cache, frag, latest, pc, taskVars, missing, info, calls, casts,
                     transfers>>
  BY DEF locate
<1>4. own \in SUBSET Elems /\ rest \in SUBSET Elems
  BY <1>2
<1>5. here \in Location
  BY <1>2, <1>4 DEF Location
<1>6. rp \in SUBSET Elems /\ lp \in SUBSET Elems /\ up \in SUBSET Elems
  BY <1>4
<1> HIDE DEF a, own, rest, rp, lp, up, here
<1>7. known \in Locate
  BY <1>2, <1>5 DEF Locate
<1>8. ASSUME NEW b \in Addr, NEW m \in SUBSET Elems
      PROVE  Call(b, m) \subseteq Locate
  BY <1>2, <1>8, ActivationType
<1>9. a \in Inner => Call(RightChild[a], rp) \cup Call(LeftChild[a], lp) \subseteq Locate
  BY <1>6, <1>8, TreeFacts
<1>10. a # Root => Call(Parent[a], up) \subseteq Locate
  BY <1>2, <1>6, <1>8, TreeFacts
<1> HIDE DEF Call, known
<1>11. locs' \subseteq Locate
  BY <1>1, <1>3, <1>7, <1>9, <1>10
<1>12. QED
  BY <1>3, <1>11 DEF TypeInv, TypeOK, UnderWay, Active, entry, taskVars

LEMMA LocateReturnType ==
  ASSUME TypeInv, NEW f, locate_return(f)
  PROVE  TypeInv'
<1> DEFINE a      == Node(f)
           answer == AddParts(f.local, f.remote)
           caller == {g \in locs : IsCaller(g, f)}
           updated == {[g EXCEPT !.remote = AddParts(@, answer)] : g \in caller}
<1>1. f \in locs /\ locs \subseteq Locate
  BY DEF locate_return, TypeInv, TypeOK
<1>2. a \in Addr /\ answer \in Location /\ f.remote \in Location /\ f.task \in Tasks
  BY <1>1, ActivationFacts, AddPartsType DEF TypeInv
<1>3. /\ cache' = [cache EXCEPT ![a] = AddParts(@, f.remote)]
      /\ locs' = (locs \ ({f} \cup caller)) \cup updated
      /\ IF caller = {}
         THEN /\ transfers' = transfers \cup Transfers(f.task, answer, FALSE)
              /\ pc' = [pc EXCEPT ![f.task] = "transfer"]
         ELSE UNCHANGED <<transfers, pc>>
      /\ UNCHANGED <<entry, frag, latest, taskVars, missing, info, calls, casts>>
  BY DEF locate_return
<1> HIDE DEF a, answer
<1>4. updated \subseteq Locate
  <2>1. ASSUME NEW g \in locs
        PROVE  [g EXCEPT !.remote = AddParts(@, answer)] \in Locate
    <3>1. g \in Locate /\ AddParts(g.remote, answer) \in Location
      BY <1>1, <1>2, <2>1, ActivationFacts, AddPartsType DEF TypeInv
    <3>2. QED
      BY <3>1 DEF Locate
  <2>2. QED
    BY <2>1
<1>5. cache' \in [Addr -> Location]
  <2>1. cache \in [Addr -> Location]
    BY DEF TypeInv, TypeOK
  <2>2. AddParts(cache[a], f.remote) \in Location
    BY <1>2, <2>1, AddPartsType
  <2>3. QED
    BY <1>2, <1>3, <2>1, <2>2
<1>6. Transfers(f.task, answer, FALSE) \subseteq Transfer
  BY <1>2, TransfersType
<1> HIDE DEF caller, updated
<1>7. locs' \subseteq Locate
  BY <1>1, <1>3, <1>4
<1>8. CASE caller = {}
  <2>1. /\ transfers' = transfers \cup Transfers(f.task, answer, FALSE)
        /\ pc' = [pc EXCEPT ![f.task] = "transfer"]
    BY <1>3, <1>8
  <2>2. TypeOK'
    BY <1>2, <1>3, <1>5, <1>6, <1>7, <2>1 DEF TypeInv, TypeOK, entry, taskVars, Stages
  <2>3. UnderWay'
    BY <1>3, <2>1 DEF TypeInv, TypeOK, UnderWay, Active, taskVars
  <2>4. QED
    BY <2>2, <2>3 DEF TypeInv
<1>9. CASE caller # {}
  BY <1>3, <1>5, <1>7, <1>9 DEF TypeInv, TypeOK, UnderWay, Active, entry, taskVars
<1>10. QED
  BY <1>8, <1>9

(***************************************************************************)
(* Running.                                                                *)
(***************************************************************************)
LEMMA RunType ==
  ASSUME TypeInv, NEW t \in Tasks, process(t) \/ finalize(t)
  PROVE  TypeInv'
<1> USE DEF TypeInv, TypeOK, UnderWay, Active, Stages, entry, taskVars, index
<1>1. CASE process(t)
  BY <1>1 DEF process
<1>2. CASE finalize(t)
  <2>1. latest' \in [Elems -> Versions]
    BY <1>2 DEF finalize, Versions
  <2>2. frag' \in [Ranks -> [Elems -> Values]]
    <3>1. Here(t) \in Ranks
      BY TreeFacts DEF Here
    <3>2. frag' = frag \/ frag' = [frag EXCEPT ![Here(t)] =
                        [x \in Elems |-> IF x \in Region(t) /\ @[x] # Absent THEN t ELSE @[x]]]
      BY <1>2 DEF finalize
    <3>3. [x \in Elems |-> IF x \in Region(t) /\ frag[Here(t)][x] # Absent
                            THEN t ELSE frag[Here(t)][x]] \in [Elems -> Values]
      BY <3>1 DEF Values
    <3>4. QED
      BY <3>1, <3>2, <3>3
  <2>3. QED
    BY <1>2, <2>1, <2>2, TreeFacts DEF finalize, Forget, AtRoot, Nowhere, Location
<1>3. QED
  BY <1>1, <1>2

LEMMA NextType ==
  ASSUME TypeInv, [Next]_vars
  PROVE  TypeInv'
<1>1. CASE UNCHANGED vars
  BY <1>1 DEF vars, TypeInv, TypeOK, UnderWay, Active
<1>2. CASE Terminated
  BY <1>2 DEF Terminated, vars, TypeInv, TypeOK, UnderWay, Active
<1>3. ASSUME NEW t \in Tasks, NEW q \in Requirements, NEW r \in Ranks, NEW g \in Addr,
             NEW p \in ParentGoals(g), spawn(t, q, r, g, p)
      PROVE  TypeInv'
  BY <1>3, SpawnType
<1>4. ASSUME NEW t \in Tasks, TaskStep(t)
      PROVE  TypeInv'
  BY <1>4, ScheduleType, LocalType, AcquireType, FetchType, RunType DEF TaskStep
<1>5. CASE CallStep
  BY <1>5, OwnershipType, CallStepType, LocateType, LocateReturnType DEF CallStep
<1>6. QED
  BY <1>1, <1>2, <1>3, <1>4, <1>5 DEF Next

\* Type correctness: index calls, broadcasts, activations of locate and
\* transfers always name existing virtual nodes and localities and a non-empty
\* region, and only inner nodes are asked to acquire ownership for a child.
THEOREM TypeCorrect == Spec => []TypeOK
<1>1. Spec => []TypeInv
  BY InitTypeInv, NextType, PTL DEF Spec
<1>2. TypeInv => TypeOK
  BY DEF TypeInv
<1>3. QED
  BY <1>1, <1>2, PTL

(***************************************************************************)
(* The two children of a virtual node never share an element.              *)
(***************************************************************************)

\* Only four operations touch left_ and right_.
LEMMA EntryUnchanged ==
  ASSUME Next,
         ~ \E t \in Tasks : \/ schedule_down_left(t) \/ schedule_down_right(t)
                            \/ schedule_local_descend(t),
         ~ \E c \in calls : acquire_ownership_for(c) \/ collect_child_ownerships(c)
  PROVE  left' = left /\ right' = right
<1>1. ASSUME NEW t \in Tasks, TaskStep(t)
      PROVE  left' = left /\ right' = right
  BY <1>1 DEF TaskStep, schedule_here, schedule_shortcut, schedule_turn, schedule_up,
     schedule_down_reject, schedule_down_stay, schedule_local_split, schedule_local_leaf,
     add_allowance, acquire_owned, acquire_missing, acquire_ownership, acquire_fetch,
     acquire_read, process, finalize, entry
<1>2. CASE CallStep
  BY <1>2 DEF CallStep, update_cache, collect_leaf_ownership, data_item_view_save,
     data_item_view_load, locate, locate_return, entry
<1>3. QED
  BY <1>1, <1>2 DEF Next, spawn, Terminated, vars, entry

LEMMA DisjointStep ==
  ASSUME TypeInv, LeftRightDisjoint, [Next]_vars
  PROVE  LeftRightDisjoint'
<1>0. left \in [Addr -> SUBSET Elems] /\ right \in [Addr -> SUBSET Elems]
  BY DEF TypeInv, TypeOK
<1>1. ASSUME NEW t \in Tasks, add_allowance_left(at[t], t) \/ add_allowance_right(at[t], t)
      PROVE  LeftRightDisjoint'
  BY <1>0, <1>1 DEF LeftRightDisjoint, add_allowance_left, add_allowance_right, Handed
<1>2. ASSUME NEW c \in calls, acquire_ownership_for(c)
      PROVE  LeftRightDisjoint'
  <2>1. CASE c.child = RightChild[c.at]
    BY <1>0, <1>2, <2>1 DEF acquire_ownership_for, LeftRightDisjoint
  <2>2. CASE c.child # RightChild[c.at]
    BY <1>0, <1>2, <2>2 DEF acquire_ownership_for, LeftRightDisjoint
  <2>3. QED
    BY <2>1, <2>2
<1>3. ASSUME NEW c \in calls, collect_child_ownerships(c)
      PROVE  LeftRightDisjoint'
  BY <1>0, <1>3 DEF collect_child_ownerships, LeftRightDisjoint
<1>4. CASE left' = left /\ right' = right
  BY <1>4 DEF LeftRightDisjoint
<1>5. CASE UNCHANGED vars
  BY <1>4, <1>5 DEF vars
<1>6. QED
  BY <1>1, <1>2, <1>3, <1>4, <1>5, EntryUnchanged
     DEF schedule_down_left, schedule_down_right, schedule_local_descend

\* The regions delegated to the children of a virtual node never overlap, in
\* whatever order allowances pass down (add_left, add_right) and ownership is
\* acquired and collected at that node.
THEOREM DisjointDelegation == Spec => []LeftRightDisjoint
<1>1. Init => TypeInv /\ LeftRightDisjoint
  BY InitTypeInv DEF Init, LeftRightDisjoint
<1>2. TypeInv /\ LeftRightDisjoint /\ [Next]_vars => (TypeInv /\ LeftRightDisjoint)'
  BY NextType, DisjointStep
<1>3. QED
  BY <1>1, <1>2, PTL DEF Spec

(***************************************************************************)
(* The chain of ownership records, from the root to the leaf that owns an  *)
(* element.  It is kept under the conditions the index entries were        *)
(* written for:                                                            *)
(*   - conflicting tasks are not spawned while the earlier one is active   *)
(*     (with AllowDeps they acquire in any order);                         *)
(*   - every inner node has two children (a child in both roles is asked   *)
(*     to collect from itself);                                            *)
(*   - a task that writes may leave its locality, so that its allowance    *)
(*     comes from the root (a bound one takes its region at the leaf       *)
(*     without a record above it);                                         *)
(*   - a task is split at the root or at a leaf (a region left at an inner *)
(*     node is not found when it is collected).                            *)
(***************************************************************************)
Orderly ==
  /\ ~AllowDeps
  /\ \A a \in Inner : LeftChild[a] # RightChild[a]
  /\ \A q \in Requirements : q.mode = "ReadWrite" => q.remote
  /\ \A t \in Tasks, q \in Requirements : q.split => Targets[t][q] \subseteq Leaves \cup {Root}

Sibling(k) == IF k = RightChild[Parent[k]] THEN LeftChild[Parent[k]] ELSE RightChild[Parent[k]]

\* What a virtual node has to have if its parent recorded it for it.
Kept(a) == IF a \in Leaves THEN full[a] ELSE left[a] \cup right[a]

\* The task brings an allowance for x to a virtual node whose parent has already
\* recorded it.
Bears(t, x) == pc[t] \in {"down", "local"} /\ at[t] # Root /\ x \in allowance[t]

(***************************************************************************)
(* The inductive invariant: first what is known of tasks and calls ...     *)
(***************************************************************************)
TaskInv ==
  /\ \A t \in Tasks : pc[t] \in {"new", "done"} => req[t] = NoRequirement
  /\ \A t \in Tasks :
       pc[t] \in {"acquire", "own", "collect", "transfer", "running"} /\ Writes(t) => at[t] \in Leaves
  /\ \A t \in Tasks : pc[t] \in {"schedule", "down"} => goal[t].own \in Targets[t][req[t]]
  /\ \A t \in Tasks : pc[t] = "local" /\ Writes(t) /\ req[t].split => at[t] \in Leaves \cup {Root}
  /\ \A t \in Tasks : pc[t] = "down" /\ allowance[t] # {} => goal[t].own \in Below[at[t]]
  /\ \A t \in Tasks : allowance[t] # {} => Writes(t) /\ allowance[t] \subseteq Region(t)
  /\ \A t, u \in Tasks : t # u /\ Writes(t) => Region(t) \cap Region(u) = {}

\* A writer owns at its leaf what it has acquired.
AcquiredInv ==
  /\ \A t \in Tasks : pc[t] \in {"own", "collect"} => Writes(t)
  /\ \A t \in Tasks : pc[t] = "own" =>
       missing[t] \subseteq Region(t) /\ Region(t) \subseteq full[at[t]] \cup missing[t]
  /\ \A t \in Tasks : pc[t] \in {"collect", "transfer", "running"} /\ Writes(t) =>
       Region(t) \subseteq full[at[t]]

\* A request for ownership goes up from the leaf of its task, a collection down
\* elsewhere.
CallInv ==
  /\ \A c \in calls : pc[c.task] = "collect" /\ c.region \subseteq Region(c.task) /\ c.child # Root
  /\ \A c \in calls : c.op = "acquire" => c.at = Parent[c.child] /\ at[c.task] \in Below[c.child]
  /\ \A c \in calls : c.op = "collect" => c.at = c.child /\ at[c.task] \notin Below[c.child]

\* Only readers locate.
LocateInv ==
  \A f \in locs : pc[f.task] \in {"locate", "transfer", "running", "done"} /\ ~Writes(f.task)

LeavesPlain == \A a \in Leaves : left[a] = {} /\ right[a] = {}

(***************************************************************************)
(* ... then where an element is recorded.                                  *)
(***************************************************************************)

\* Whoever has x is recorded at all nodes above it, but for those above the
\* node a call for x is made for.
Linked(x) ==
  \A k \in Addr \ {Root} : \A b \in Below[k] : x \in Holds(b) =>
     \/ x \in Side(k)
     \/ \E c \in calls : x \in c.region /\ b \in Below[c.child] /\ Parent[k] \notin Below[c.child]

\* Whoever is recorded for x has it, or will get it by an allowance.
Backed(x) ==
  \A k \in Addr \ {Root} : x \in Side(k) =>
     x \in Kept(k) \/ \E t \in Tasks : Bears(t, x) /\ at[t] = k

\* An allowance is recorded on its path and nobody below has the element yet.
Fresh(x) ==
  \A t \in Tasks : Bears(t, x) =>
     /\ \A k \in Addr \ {Root} : at[t] \in Below[k] => x \in Side(k)
     /\ \A b \in Below[at[t]] : x \notin Holds(b)

\* There is at most one call for x, for a node that has it; nobody collects what
\* is still recorded.
Called(x) ==
  \A c \in calls : x \in c.region =>
     /\ x \in Kept(c.child)
     /\ c.op = "collect" => x \notin Side(c.child)
     /\ \A d \in calls : x \in d.region => d = c

\* No inner node but the root keeps a region for itself.
Delegated(x) == \A a \in Inner \ {Root} : x \in full[a] => x \in Kept(a)

ElementInv(x) == Linked(x) /\ Backed(x) /\ Fresh(x) /\ Called(x) /\ Delegated(x)

OwnershipInv ==
  /\ TypeInv /\ LeftRightDisjoint /\ LeavesPlain
  /\ TaskInv /\ AcquiredInv /\ CallInv /\ LocateInv
  /\ \A x \in Elems : ElementInv(x)

(***************************************************************************)
(* The tree.                                                               *)
(***************************************************************************)
LEMMA PathFacts ==
  /\ \A a \in Addr : a \in Below[a] /\ Below[a] \subseteq Addr
  /\ \A a \in Leaves : Below[a] = {a}
  /\ \A k \in Addr \ {Root} : /\ Parent[k] \in Inner /\ Parent[k] \in Addr /\ Parent[k] \notin Leaves
                              /\ Below[k] \subseteq Below[Parent[k]]
                              /\ \A a \in Below[k] : Parent[k] \notin Below[a]
  /\ Below[Root] = Addr
  /\ \A k \in Addr \ {Root} : Root \notin Below[k]
<1>1. \A a \in Addr : a \in Below[a] /\ Below[a] \subseteq Addr
  BY HierarchyAssumption DEF Inner
<1>2. ASSUME NEW k \in Addr \ {Root}
      PROVE  /\ Parent[k] \in Inner /\ Parent[k] \in Addr /\ Parent[k] \notin Leaves
             /\ Below[k] \subseteq Below[Parent[k]]
             /\ \A a \in Below[k] : Parent[k] \notin Below[a]
  <2>1. Parent[k] \in Inner /\ Parent[k] \in Addr /\ Parent[k] \notin Leaves
    BY HierarchyAssumption DEF Inner
  <2>2. Below[k] \subseteq Below[Parent[k]]
    <3>1. k = LeftChild[Parent[k]] \/ k = RightChild[Parent[k]]
      BY HierarchyAssumption
    <3>2. Below[Parent[k]] = {Parent[k]} \cup Below[LeftChild[Parent[k]]] \cup Below[RightChild[Parent[k]]]
      BY <2>1, HierarchyAssumption
    <3>3. QED
      BY <3>1, <3>2
  <2>3. \A a \in Below[k] : Parent[k] \notin Below[a]
    BY HierarchyAssumption
  <2>4. QED
    BY <2>1, <2>2, <2>3
<1>3. \A k \in Addr \ {Root} : Root \notin Below[k]
  BY HierarchyAssumption
<1>4. QED
  BY <1>1, <1>2, <1>3, HierarchyAssumption

\* A node below both k and c is reached from the parent of k through c or above it.
LEMMA PathsMeet ==
  ASSUME NEW k \in Addr \ {Root}, NEW c \in Addr \ {Root}, NEW b \in Below[k],
         b \in Below[c], Parent[k] \notin Below[c]
  PROVE  k = c \/ Parent[c] \in Below[k]
<1>1. k \in Below[c] \/ c \in Below[k]
  BY SubtreeAssumption
<1>2. CASE k \in Below[c]
  BY <1>2, HierarchyAssumption
<1>3. CASE c \in Below[k]
  BY <1>3, HierarchyAssumption
<1>4. QED
  BY <1>1, <1>2, <1>3

LEMMA SiblingFacts ==
  ASSUME Orderly, NEW k \in Addr \ {Root}
  PROVE  /\ Sibling(k) \in Addr \ {Root} /\ Sibling(k) # k
         /\ Parent[Sibling(k)] = Parent[k] /\ Sibling(Sibling(k)) = k
         /\ Below[k] \cap Below[Sibling(k)] = {}
         /\ Below[Parent[k]] = {Parent[k]} \cup Below[k] \cup Below[Sibling(k)]
         /\ \A j \in Addr \ {Root} : Parent[j] = Parent[k] => j = k \/ j = Sibling(k)
<1>1. Parent[k] \in Inner
  BY PathFacts
<1>2. k \in {LeftChild[Parent[k]], RightChild[Parent[k]]}
  BY HierarchyAssumption
<1>3. LeftChild[Parent[k]] # RightChild[Parent[k]]
  BY <1>1 DEF Orderly
<1>4. /\ Sibling(k) \in Addr \ {Root} /\ Sibling(k) # k
      /\ Parent[Sibling(k)] = Parent[k] /\ Sibling(Sibling(k)) = k
  BY <1>1, <1>2, <1>3, HierarchyAssumption DEF Sibling
<1>5. Below[k] \cap Below[Sibling(k)] = {}
  <2>1. k \notin Below[Sibling(k)] /\ Sibling(k) \notin Below[k]
    BY <1>4, HierarchyAssumption
  <2>2. QED
    BY <1>4, <2>1, SubtreeAssumption
<1>6. Below[Parent[k]] = {Parent[k]} \cup Below[k] \cup Below[Sibling(k)]
  BY <1>1, <1>2, HierarchyAssumption DEF Sibling
<1>7. \A j \in Addr \ {Root} : Parent[j] = Parent[k] => j = k \/ j = Sibling(k)
  BY <1>2, HierarchyAssumption DEF Sibling
<1>8. QED
  BY <1>4, <1>5, <1>6, <1>7

\* The two parts an inner node delegates.
LEMMA SideFacts ==
  ASSUME Orderly, NEW k \in Addr \ {Root}
  PROVE  /\ Side(k) = IF k = RightChild[Parent[k]] THEN right[Parent[k]] ELSE left[Parent[k]]
         /\ Side(Sibling(k)) = IF k = RightChild[Parent[k]] THEN left[Parent[k]] ELSE right[Parent[k]]
         /\ Kept(Parent[k]) = Side(k) \cup Side(Sibling(k))
<1>1. Parent[k] \notin Leaves /\ Parent[k] \in Inner /\ LeftChild[Parent[k]] # RightChild[Parent[k]]
  BY PathFacts DEF Orderly
<1>2. Parent[Sibling(k)] = Parent[k]
  BY SiblingFacts
<1>3. k \in {LeftChild[Parent[k]], RightChild[Parent[k]]}
  BY HierarchyAssumption
<1>4. QED
  BY <1>1, <1>2, <1>3 DEF Side, Kept, Sibling

(***************************************************************************)
(* Whatever leaves the records, the call and the allowances for an element *)
(* alone preserves what is known of it.                                    *)
(***************************************************************************)
LEMMA FrameRecords ==
  ASSUME TypeOK, CallInv, NEW x \in Elems, ElementInv(x),
         \A b \in Addr : (x \in Holds(b)' <=> x \in Holds(b)) /\ (x \in Kept(b)' <=> x \in Kept(b)),
         \A k \in Addr \ {Root} : x \in Side(k)' <=> x \in Side(k),
         \A b \in Addr \ {Root} : x \in full'[b] <=> x \in full[b],
         \A c : (c \in calls' /\ x \in c.region) <=> (c \in calls /\ x \in c.region),
         \A t \in Tasks : (Bears(t, x)' <=> Bears(t, x)) /\ (Bears(t, x) => at'[t] = at[t])
  PROVE  ElementInv(x)'
<1>1. \A b \in Addr : (x \in Holds(b)' <=> x \in Holds(b)) /\ (x \in Kept(b)' <=> x \in Kept(b))
  OBVIOUS
<1>2. \A k \in Addr \ {Root} : x \in Side(k)' <=> x \in Side(k)
  OBVIOUS
<1>3. \A k \in Addr : Below[k] \subseteq Addr
  BY PathFacts
<1>4. Linked(x)'
  BY <1>1, <1>2, <1>3 DEF ElementInv, Linked
<1>5. Backed(x)'
  BY <1>1, <1>2 DEF ElementInv, Backed
<1>6. Fresh(x)'
  <2>1. ASSUME NEW t \in Tasks, Bears(t, x)'
        PROVE  /\ \A k \in Addr \ {Root} : at'[t] \in Below[k] => x \in Side(k)'
               /\ \A b \in Below[at'[t]] : x \notin Holds(b)'
    <3>1. Bears(t, x) /\ at'[t] = at[t]
      BY <2>1
    <3>2. Below[at[t]] \subseteq Addr
      BY <1>3 DEF TypeOK
    <3>3. QED
      BY <3>1, <3>2, <1>1, <1>2 DEF ElementInv, Fresh
  <2>2. QED
    BY <2>1 DEF Fresh
<1>7. Called(x)'
  <2>1. \A c \in calls : c.child \in Addr \ {Root}
    BY CallFacts DEF CallInv
  <2>2. ASSUME NEW c \in calls', x \in c.region
        PROVE  /\ x \in Kept(c.child)'
               /\ c.op = "collect" => x \notin Side(c.child)'
               /\ \A d \in calls' : x \in d.region => d = c
    BY <1>1, <1>2, <2>1, <2>2 DEF ElementInv, Called
  <2>3. QED
    BY <2>2 DEF Called
<1>8. Delegated(x)'
  BY <1>1, PathFacts DEF ElementInv, Delegated, Inner
<1>9. QED
  BY <1>4, <1>5, <1>6, <1>7, <1>8 DEF ElementInv

LEMMA Frame ==
  ASSUME TypeOK, CallInv, NEW x \in Elems, ElementInv(x),
         \A b \in Addr : /\ x \in full'[b] <=> x \in full[b]
                         /\ x \in left'[b] <=> x \in left[b]
                         /\ x \in right'[b] <=> x \in right[b],
         \A c : (c \in calls' /\ x \in c.region) <=> (c \in calls /\ x \in c.region),
         \A t \in Tasks : (Bears(t, x)' <=> Bears(t, x)) /\ (Bears(t, x) => at'[t] = at[t])
  PROVE  ElementInv(x)'
<1>1. \A b \in Addr : (x \in Holds(b)' <=> x \in Holds(b)) /\ (x \in Kept(b)' <=> x \in Kept(b))
  BY DEF Holds, Kept
<1>2. \A k \in Addr \ {Root} : x \in Side(k)' <=> x \in Side(k)
  BY PathFacts DEF Side
<1>3. QED
  BY <1>1, <1>2, FrameRecords

\* Only the writer of an element calls for it or brings an allowance for it.
LEMMA OneActor ==
  ASSUME OwnershipInv, NEW c \in calls, NEW x \in c.region
  PROVE  /\ c.task \in Tasks /\ pc[c.task] = "collect" /\ x \in Elems /\ x \in Region(c.task)
         /\ at[c.task] \in Leaves /\ Writes(c.task)
         /\ \A t \in Tasks : t # c.task => x \notin Region(t)
         /\ \A t \in Tasks : ~Bears(t, x)
<1>1. c.task \in Tasks /\ pc[c.task] = "collect" /\ x \in Elems /\ x \in Region(c.task)
  BY CallFacts DEF OwnershipInv, TypeInv, CallInv
<1>2. at[c.task] \in Leaves /\ Writes(c.task)
  BY <1>1 DEF OwnershipInv, TaskInv, AcquiredInv
<1>3. \A t \in Tasks : t # c.task => x \notin Region(t)
  BY <1>1, <1>2 DEF OwnershipInv, TaskInv
<1>4. \A t \in Tasks : ~Bears(t, x)
  BY <1>1, <1>3 DEF Bears, OwnershipInv, TaskInv
<1>5. QED
  BY <1>1, <1>2, <1>3, <1>4

(***************************************************************************)
(* acquire_ownership_for: the asking child is recorded, its sibling is     *)
(* collected from, or the parent is asked.                                 *)
(***************************************************************************)
AcquireForMoves(c, k, j, a) ==
  LET up   == AcquireFor(c.task, Parent[a], a, c.region \ Side(j))
      down == Collect(c.task, j, c.region \cap Side(j))
  IN  /\ k \in Addr \ {Root} /\ j \in Addr \ {Root} /\ a \in Addr /\ a \in Inner /\ c.at = a
      /\ Side(k)' = Side(k) \cup c.region /\ Side(j)' = Side(j) \ c.region
      /\ \A i \in Addr \ {Root} : i # k /\ i # j => Side(i)' = Side(i)
      /\ \A b \in Addr \ {a} : full'[b] = full[b] /\ left'[b] = left[b] /\ right'[b] = right[b]
      /\ full'[a] = full[a] \ (c.region \ Side(j))
      /\ calls' = (calls \ {c}) \cup (IF c.region \ Side(j) # {} /\ a # Root THEN {up} ELSE {})
                                \cup (IF c.region \cap Side(j) # {} THEN {down} ELSE {})
      /\ UNCHANGED <<pc, at, req, goal, allowance, missing>>

LEMMA AcquireForEffect ==
  ASSUME Orderly, OwnershipInv, NEW c \in calls, acquire_ownership_for(c)
  PROVE  AcquireForMoves(c, c.child, Sibling(c.child), Parent[c.child])
<1> DEFINE k == c.child
           j == Sibling(k)
           a == Parent[k]
<1>1. /\ c.op = "acquire" /\ k \in Addr \ {Root} /\ c.at = a
  BY CallFacts DEF acquire_ownership_for, OwnershipInv, TypeInv, CallInv
<1>2. j \in Addr \ {Root} /\ Parent[j] = a /\ j # k /\ a \in Addr /\ a \in Inner
  BY <1>1, SiblingFacts, PathFacts
<1>3. /\ full \in [Addr -> SUBSET Elems] /\ left \in [Addr -> SUBSET Elems]
      /\ right \in [Addr -> SUBSET Elems] /\ c.region \in SUBSET Elems
  BY CallFacts DEF OwnershipInv, TypeInv, TypeOK
<1>4. /\ Side(k) = IF k = RightChild[a] THEN right[a] ELSE left[a]
      /\ Side(j) = IF k = RightChild[a] THEN left[a] ELSE right[a]
      /\ j = IF k = RightChild[a] THEN LeftChild[a] ELSE RightChild[a]
      /\ (k = RightChild[a]) # (j = RightChild[a])
  BY <1>1, <1>2, SideFacts, SiblingFacts, HierarchyAssumption DEF Sibling, Orderly
<1>5. /\ full'  = [full EXCEPT ![a] = @ \ (c.region \ (c.region \cap Side(j)))]
      /\ left'  = [left EXCEPT ![a] = IF k = RightChild[a] THEN @ \ (c.region \cap Side(j)) ELSE @ \cup c.region]
      /\ right' = [right EXCEPT ![a] = IF k = RightChild[a] THEN @ \cup c.region ELSE @ \ (c.region \cap Side(j))]
  <2>1. CASE k = RightChild[a]
    BY <1>1, <1>4, <2>1 DEF acquire_ownership_for
  <2>2. CASE k # RightChild[a]
    BY <1>1, <1>4, <2>2 DEF acquire_ownership_for
  <2>3. QED
    BY <2>1, <2>2
<1>6. Side(k)' = Side(k) \cup c.region /\ Side(j)' = Side(j) \ c.region
  <2>1. /\ Side(k)' = IF k = RightChild[a] THEN right'[a] ELSE left'[a]
        /\ Side(j)' = IF k = RightChild[a] THEN left'[a] ELSE right'[a]
    BY <1>1, <1>2, <1>4 DEF Side
  <2>2. QED
    BY <1>2, <1>3, <1>4, <1>5, <2>1
<1>7. \A b \in Addr \ {a} : full'[b] = full[b] /\ left'[b] = left[b] /\ right'[b] = right[b]
  BY <1>3, <1>5
<1>8. \A i \in Addr \ {Root} : i # k /\ i # j => Side(i)' = Side(i)
  <2>1. \A i \in Addr \ {Root} : i # k /\ i # j => Parent[i] # a /\ Parent[i] \in Addr
    BY <1>1, SiblingFacts, PathFacts
  <2>2. QED
    BY <1>7, <2>1 DEF Side
<1>9. full'[a] = full[a] \ (c.region \ Side(j))
  BY <1>2, <1>3, <1>5
<1>10. /\ calls' = (calls \ {c})
              \cup (IF c.region \ Side(j) # {} /\ a # Root
                    THEN {AcquireFor(c.task, Parent[a], a, c.region \ Side(j))} ELSE {})
              \cup (IF c.region \cap Side(j) # {}
                    THEN {Collect(c.task, j, c.region \cap Side(j))} ELSE {})
       /\ UNCHANGED <<pc, at, req, goal, allowance, missing>>
  <2>1. c.region \ (c.region \cap Side(j)) = c.region \ Side(j)
    OBVIOUS
  <2>2. /\ (IF c.child = RightChild[c.at] THEN left[c.at] ELSE right[c.at]) = Side(j)
        /\ (IF c.child = RightChild[c.at] THEN LeftChild[c.at] ELSE RightChild[c.at]) = j
    BY <1>1, <1>4
  <2>3. QED
    BY <1>1, <2>1, <2>2 DEF acquire_ownership_for, taskVars
<1>11. QED
  BY <1>1, <1>2, <1>6, <1>7, <1>8, <1>9, <1>10 DEF AcquireForMoves

(***************************************************************************)
(* collect_child_ownerships: what is collected is no longer recorded for   *)
(* the children, who are asked in turn.                                    *)
(***************************************************************************)
CollectMoves(c, a, k, j) ==
  /\ a \in Addr \ {Root} /\ a \in Inner /\ c.at = a
  /\ k \in Addr \ {Root} /\ j \in Addr \ {Root} /\ j = Sibling(k) /\ Parent[k] = a
  /\ Side(k)' = Side(k) \ c.region /\ Side(j)' = Side(j) \ c.region
  /\ \A i \in Addr \ {Root} : i # k /\ i # j => Side(i)' = Side(i)
  /\ \A b \in Addr \ {a} : full'[b] = full[b] /\ left'[b] = left[b] /\ right'[b] = right[b]
  /\ full'[a] = full[a] \ (c.region \cap Kept(a))
  /\ calls' = (calls \ {c})
       \cup (IF c.region \cap Side(k) # {} THEN {Collect(c.task, k, c.region \cap Side(k))} ELSE {})
       \cup (IF c.region \cap Side(j) # {} THEN {Collect(c.task, j, c.region \cap Side(j))} ELSE {})
  /\ UNCHANGED <<pc, at, req, goal, allowance, missing>>

LEMMA CollectEffect ==
  ASSUME Orderly, OwnershipInv, NEW c \in calls, collect_child_ownerships(c)
  PROVE  CollectMoves(c, c.child, LeftChild[c.child], RightChild[c.child])
<1> DEFINE a == c.child
           k == LeftChild[a]
           j == RightChild[a]
<1>1. c.op = "collect" /\ c.at = a /\ a \in Addr \ {Root} /\ a \in Inner
  BY CallFacts DEF collect_child_ownerships, OwnershipInv, TypeInv, CallInv
<1>2. /\ k \in Addr \ {Root} /\ j \in Addr \ {Root} /\ k # j
      /\ Parent[k] = a /\ Parent[j] = a /\ j = Sibling(k)
  BY <1>1, HierarchyAssumption DEF Orderly, Sibling
<1>3. /\ full \in [Addr -> SUBSET Elems] /\ left \in [Addr -> SUBSET Elems]
      /\ right \in [Addr -> SUBSET Elems] /\ c.region \in SUBSET Elems
      /\ left[a] \cap right[a] = {}
  BY <1>1, CallFacts DEF OwnershipInv, TypeInv, TypeOK, LeftRightDisjoint
<1>4. Side(k) = left[a] /\ Side(j) = right[a] /\ Kept(a) = left[a] \cup right[a] /\ a \in Addr
  BY <1>1, <1>2, PathFacts DEF Side, Kept
<1>5. /\ (c.region \ (c.region \cap left[a])) \cap right[a] = c.region \cap Side(j)
      /\ c.region \cap left[a] = c.region \cap Side(k)
      /\ (c.region \cap Side(k)) \cup (c.region \cap Side(j)) = c.region \cap Kept(a)
  BY <1>3, <1>4
<1>6. /\ left'  = [left EXCEPT ![a] = @ \ (c.region \cap Side(k))]
      /\ right' = [right EXCEPT ![a] = @ \ (c.region \cap Side(j))]
      /\ full'  = [full EXCEPT ![a] = @ \ (c.region \cap Kept(a))]
      /\ calls' = (calls \ {c})
              \cup (IF c.region \cap Side(k) # {}
                    THEN {Collect(c.task, k, c.region \cap Side(k))} ELSE {})
              \cup (IF c.region \cap Side(j) # {}
                    THEN {Collect(c.task, j, c.region \cap Side(j))} ELSE {})
      /\ UNCHANGED <<pc, at, req, goal, allowance, missing>>
  BY <1>1, <1>5 DEF collect_child_ownerships, taskVars
<1>7. Side(k)' = Side(k) \ c.region /\ Side(j)' = Side(j) \ c.region
  <2>1. Side(k)' = left'[a] /\ Side(j)' = right'[a]
    BY <1>2 DEF Side
  <2>2. QED
    BY <1>3, <1>4, <1>6, <2>1
<1>8. \A b \in Addr \ {a} : full'[b] = full[b] /\ left'[b] = left[b] /\ right'[b] = right[b]
  BY <1>3, <1>6
<1>9. \A i \in Addr \ {Root} : i # k /\ i # j => Side(i)' = Side(i)
  <2>1. \A i \in Addr \ {Root} : i # k /\ i # j => Parent[i] # a /\ Parent[i] \in Addr
    BY <1>2, SiblingFacts, PathFacts
  <2>2. QED
    BY <1>8, <2>1 DEF Side
<1>10. full'[a] = full[a] \ (c.region \cap Kept(a))
  BY <1>3, <1>4, <1>6
<1>11. QED
  BY <1>1, <1>2, <1>6, <1>7, <1>8, <1>9, <1>10 DEF CollectMoves

LEMMA LeafEffect ==
  ASSUME Orderly, OwnershipInv, NEW c \in calls, collect_leaf_ownership(c)
  PROVE  /\ c.op = "collect" /\ c.child \in Leaves /\ c.child \in Addr \ {Root}
         /\ left' = left /\ right' = right
         /\ \A b \in Addr : full'[b] = IF b = c.child THEN full[b] \ c.region ELSE full[b]
         /\ calls' = calls \ {c}
         /\ UNCHANGED <<pc, at, req, goal, allowance, missing>>
<1>1. c.op = "collect" /\ c.at = c.child /\ c.child \in Leaves /\ c.child \in Addr \ {Root}
  BY CallFacts DEF collect_leaf_ownership, OwnershipInv, TypeInv, CallInv
<1>2. full \in [Addr -> SUBSET Elems]
  BY DEF OwnershipInv, TypeInv, TypeOK
<1>3. QED
  BY <1>1, <1>2 DEF collect_leaf_ownership, taskVars

\* The entry of an inner node in terms of what it records for its children.
LEMMA InnerFacts ==
  ASSUME Orderly, NEW k \in Addr \ {Root}, NEW j, j = Sibling(k), NEW a, a = Parent[k]
  PROVE  /\ Kept(a) = Side(k) \cup Side(j) /\ Kept(a)' = Side(k)' \cup Side(j)'
         /\ Holds(a) = full[a] \cup Kept(a) /\ Holds(a)' = full'[a] \cup Kept(a)'
         /\ IF k = RightChild[a] THEN left[a] = Side(j) /\ left'[a] = Side(j)'
                                 ELSE left[a] = Side(k) /\ left'[a] = Side(k)'
         /\ IF k = RightChild[a] THEN right[a] = Side(k) /\ right'[a] = Side(k)'
                                 ELSE right[a] = Side(j) /\ right'[a] = Side(j)'
<1>1. a \notin Leaves /\ a \in Inner /\ LeftChild[a] # RightChild[a]
  BY PathFacts DEF Orderly
<1>2. Parent[j] = a /\ (k = RightChild[a]) # (j = RightChild[a])
  BY <1>1, SiblingFacts, HierarchyAssumption DEF Sibling
<1>3. /\ Side(k) = IF k = RightChild[a] THEN right[a] ELSE left[a]
      /\ Side(j) = IF k = RightChild[a] THEN left[a] ELSE right[a]
      /\ Side(k)' = IF k = RightChild[a] THEN right'[a] ELSE left'[a]
      /\ Side(j)' = IF k = RightChild[a] THEN left'[a] ELSE right'[a]
  BY <1>2 DEF Side
<1>4. QED
  BY <1>1, <1>3 DEF Kept, Holds

\* A step at one inner node leaves alone the elements it is not about.
LEMMA FrameAt ==
  ASSUME Orderly, OwnershipInv, NEW k \in Addr \ {Root}, NEW j, j = Sibling(k),
         NEW a, a = Parent[k], NEW x \in Elems,
         x \in Side(k)' <=> x \in Side(k), x \in Side(j)' <=> x \in Side(j),
         x \in full'[a] <=> x \in full[a],
         \A b \in Addr \ {a} : full'[b] = full[b] /\ left'[b] = left[b] /\ right'[b] = right[b],
         \A c : (c \in calls' /\ x \in c.region) <=> (c \in calls /\ x \in c.region),
         \A t \in Tasks : (Bears(t, x)' <=> Bears(t, x)) /\ (Bears(t, x) => at'[t] = at[t])
  PROVE  ElementInv(x)'
<1>1. /\ x \in left'[a] <=> x \in left[a]
      /\ x \in right'[a] <=> x \in right[a]
  <2>1. CASE k = RightChild[a]
    BY <2>1, InnerFacts
  <2>2. CASE k # RightChild[a]
    BY <2>2, InnerFacts
  <2>3. QED
    BY <2>1, <2>2
<1>2. \A b \in Addr : /\ x \in full'[b] <=> x \in full[b]
                      /\ x \in left'[b] <=> x \in left[b]
                      /\ x \in right'[b] <=> x \in right[b]
  BY <1>1
<1>3. TypeOK /\ CallInv /\ ElementInv(x)
  BY DEF OwnershipInv, TypeInv
<1>4. QED
  BY <1>2, <1>3, Frame

\* What an element's records look like while a call for it is under way.
LEMMA Unlinked ==
  ASSUME OwnershipInv, NEW c \in calls, NEW x \in c.region
  PROVE  /\ \A k \in Addr \ {Root} : \A b \in Below[k] : x \in Holds(b) =>
              x \in Side(k) \/ (b \in Below[c.child] /\ Parent[k] \notin Below[c.child])
         /\ \A k \in Addr \ {Root} : x \in Side(k) => x \in Kept(k)
         /\ x \in Kept(c.child) /\ (c.op = "collect" => x \notin Side(c.child))
         /\ \A d \in calls : x \in d.region => d = c
         /\ \A t \in Tasks : ~Bears(t, x)
         /\ \A a \in Inner \ {Root} : x \in full[a] => x \in Kept(a)
<1>1. x \in Elems /\ \A t \in Tasks : ~Bears(t, x)
  BY OneActor
<1>2. ElementInv(x)
  BY <1>1 DEF OwnershipInv
<1>3. QED
  BY <1>1, <1>2 DEF ElementInv, Linked, Backed, Called, Delegated

LEMMA AcquireForElement ==
  ASSUME Orderly, OwnershipInv, NEW c \in calls, acquire_ownership_for(c), NEW x \in Elems
  PROVE  ElementInv(x)'
<1> DEFINE k == c.child
           j == Sibling(k)
           a == Parent[k]
           up == AcquireFor(c.task, Parent[a], a, c.region \ Side(j))
           down == Collect(c.task, j, c.region \cap Side(j))
<1>1. /\ k \in Addr \ {Root} /\ j \in Addr \ {Root} /\ a \in Addr /\ a \in Inner
      /\ Side(k)' = Side(k) \cup c.region /\ Side(j)' = Side(j) \ c.region
      /\ \A i \in Addr \ {Root} : i # k /\ i # j => Side(i)' = Side(i)
      /\ \A b \in Addr \ {a} : full'[b] = full[b] /\ left'[b] = left[b] /\ right'[b] = right[b]
      /\ full'[a] = full[a] \ (c.region \ Side(j))
      /\ calls' = (calls \ {c}) \cup (IF c.region \ Side(j) # {} /\ a # Root THEN {up} ELSE {})
                                \cup (IF c.region \cap Side(j) # {} THEN {down} ELSE {})
      /\ UNCHANGED <<pc, at, req, goal, allowance, missing>>
  BY AcquireForEffect DEF AcquireForMoves
<1>2. /\ up.child = a /\ up.op = "acquire" /\ up.region = c.region \ Side(j)
      /\ down.child = j /\ down.op = "collect" /\ down.region = c.region \cap Side(j)
  BY DEF AcquireFor, Collect
<1>3. /\ k # j /\ Parent[j] = a /\ a \notin Below[k] /\ a \notin Below[j]
      /\ Below[k] \subseteq Below[a] /\ k # a /\ j # a
  BY <1>1, SiblingFacts, PathFacts
<1>4. /\ Kept(a) = Side(k) \cup Side(j) /\ Kept(a)' = Kept(a) \cup c.region
      /\ Holds(a) = full[a] \cup Kept(a) /\ Holds(a)' \subseteq Holds(a) \cup c.region
  BY <1>1, InnerFacts
<1>5. \A b \in Addr \ {a} : Kept(b)' = Kept(b) /\ Holds(b)' = Holds(b)
  BY <1>1 DEF Kept, Holds
<1>6. \A t \in Tasks : (Bears(t, x)' <=> Bears(t, x)) /\ at'[t] = at[t]
  BY <1>1 DEF Bears
<1> HIDE DEF k, j, a, up, down
<1>7. CASE x \notin c.region
  <2>1. \A d : (d \in calls' /\ x \in d.region) <=> (d \in calls /\ x \in d.region)
    BY <1>1, <1>2, <1>7
  <2>2. QED
    BY <1>1, <1>6, <1>7, <2>1, FrameAt DEF k, j, a
<1>8. CASE x \in c.region
  <2>1. /\ \A i \in Addr \ {Root} : \A b \in Below[i] : x \in Holds(b) =>
             x \in Side(i) \/ (b \in Below[k] /\ Parent[i] \notin Below[k])
        /\ \A i \in Addr \ {Root} : x \in Side(i) => x \in Kept(i)
        /\ x \in Kept(k)
        /\ \A d \in calls : x \in d.region => d = c
        /\ \A t \in Tasks : ~Bears(t, x)
        /\ \A b \in Inner \ {Root} : x \in full[b] => x \in Kept(b)
    BY <1>8, Unlinked DEF k
  <2>2. ASSUME NEW i \in Addr \ {Root}, NEW b \in Below[i], b \in Below[k], Parent[i] \notin Below[k]
        PROVE  i = k \/ a \in Below[i]
    BY <1>1, <2>2, PathsMeet DEF a
  <2>3. Fresh(x)'
    BY <1>6, <2>1 DEF Fresh
  <2>4. Backed(x)'
    BY <1>1, <1>3, <1>4, <1>5, <1>8, <2>1 DEF Backed
  <2>5. Delegated(x)'
    BY <1>1, <1>4, <1>5, <1>8, <2>1, TreeFacts DEF Delegated
  <2>6. CASE x \in Side(j)
    <3>1. \A d \in calls' : x \in d.region => d = down
      BY <1>1, <1>2, <2>1, <2>6
    <3>2. down \in calls' /\ x \in down.region
      BY <1>1, <1>2, <1>8, <2>6
    <3>3. Called(x)'
      BY <1>1, <1>2, <1>3, <1>5, <1>8, <2>1, <2>6, <3>1 DEF Called
    <3>4. ASSUME NEW i \in Addr \ {Root}, NEW b \in Below[i], x \in Holds(b)'
          PROVE  x \in Side(i)' \/ (b \in Below[j] /\ Parent[i] \notin Below[j])
      <4>1. b \in Addr /\ x \in Holds(b)
        BY <1>4, <1>5, <2>6, <3>4, PathFacts
      <4>2. CASE x \in Side(i)
        BY <1>1, <1>3, <3>4, <4>2
      <4>3. CASE b \in Below[k] /\ Parent[i] \notin Below[k]
        <5>1. CASE i = k
          BY <1>1, <1>8, <5>1
        <5>2. CASE a \in Below[i]
          <6>1. x \in Side(i)
            BY <1>3, <1>4, <2>1, <2>6, <5>2
          <6>2. i # j
            BY <1>3, <5>2
          <6>3. QED
            BY <1>1, <6>1, <6>2
        <5>3. QED
          BY <2>2, <4>3, <5>1, <5>2
      <4>4. QED
        BY <2>1, <4>1, <4>2, <4>3
    <3>5. Linked(x)'
      BY <1>2, <3>2, <3>4 DEF Linked
    <3>6. QED
      BY <2>3, <2>4, <2>5, <3>3, <3>5 DEF ElementInv
  <2>7. CASE x \notin Side(j)
    <3>1. \A d \in calls' : x \in d.region => d = up /\ a # Root
      BY <1>1, <1>2, <2>1, <2>7
    <3>2. a # Root => up \in calls' /\ x \in up.region
      BY <1>1, <1>2, <1>8, <2>7
    <3>3. Called(x)'
      BY <1>2, <1>4, <1>8, <3>1 DEF Called
    <3>4. ASSUME NEW i \in Addr \ {Root}, NEW b \in Below[i], x \in Holds(b)'
          PROVE  x \in Side(i)' \/ (a # Root /\ b \in Below[a] /\ Parent[i] \notin Below[a])
      <4>1. a \in Below[i] => a # Root /\ Parent[i] \notin Below[a]
        BY PathFacts
      <4>2. CASE b = a
        BY <1>1, <4>1, <4>2, PathFacts
      <4>3. CASE b # a
        <5>1. x \in Holds(b)
          BY <1>5, <3>4, <4>3, PathFacts
        <5>2. CASE x \in Side(i)
          BY <1>1, <2>7, <5>2
        <5>3. CASE b \in Below[k] /\ Parent[i] \notin Below[k]
          <6>1. CASE i = k
            BY <1>1, <1>8, <6>1
          <6>2. CASE a \in Below[i]
            BY <1>3, <4>1, <5>3, <6>2
          <6>3. QED
            BY <2>2, <5>3, <6>1, <6>2
        <5>4. QED
          BY <2>1, <5>1, <5>2, <5>3
      <4>4. QED
        BY <4>2, <4>3
    <3>5. Linked(x)'
      BY <1>2, <3>2, <3>4 DEF Linked
    <3>6. QED
      BY <2>3, <2>4, <2>5, <3>3, <3>5 DEF ElementInv
  <2>8. QED
    BY <2>6, <2>7
<1>9. QED
  BY <1>7, <1>8

LEMMA CollectElement ==
  ASSUME Orderly, OwnershipInv, NEW c \in calls, collect_child_ownerships(c), NEW x \in Elems
  PROVE  ElementInv(x)'
<1> DEFINE a == c.child
           k == LeftChild[a]
           j == RightChild[a]
           Asked(m) == Collect(c.task, m, c.region \cap Side(m))
<1>1. /\ a \in Addr \ {Root} /\ a \in Inner
      /\ k \in Addr \ {Root} /\ j \in Addr \ {Root} /\ j = Sibling(k) /\ Parent[k] = a
      /\ Side(k)' = Side(k) \ c.region /\ Side(j)' = Side(j) \ c.region
      /\ \A i \in Addr \ {Root} : i # k /\ i # j => Side(i)' = Side(i)
      /\ \A b \in Addr \ {a} : full'[b] = full[b] /\ left'[b] = left[b] /\ right'[b] = right[b]
      /\ full'[a] = full[a] \ (c.region \cap Kept(a))
      /\ calls' = (calls \ {c}) \cup (IF c.region \cap Side(k) # {} THEN {Asked(k)} ELSE {})
                                \cup (IF c.region \cap Side(j) # {} THEN {Asked(j)} ELSE {})
      /\ UNCHANGED <<pc, at, req, goal, allowance, missing>>
  BY CollectEffect DEF CollectMoves
<1>0. c.op = "collect"
  BY DEF collect_child_ownerships
<1>2. \A m : Asked(m).child = m /\ Asked(m).op = "collect" /\ Asked(m).region = c.region \cap Side(m)
  BY DEF Collect
<1>3. /\ k # j /\ Parent[j] = a /\ k # a /\ j # a
      /\ a \notin Below[k] /\ a \notin Below[j]
      /\ Below[a] = {a} \cup Below[k] \cup Below[j]
  BY <1>1, SiblingFacts, PathFacts
<1>4. /\ Kept(a) = Side(k) \cup Side(j) /\ Kept(a)' = Kept(a) \ c.region
      /\ Holds(a)' = full'[a] \cup Kept(a)'
  BY <1>1, InnerFacts
<1>5. Side(k) \cap Side(j) = {}
  BY <1>1, <1>3 DEF Side, OwnershipInv, LeftRightDisjoint
<1>6. \A b \in Addr \ {a} : Kept(b)' = Kept(b) /\ Holds(b)' = Holds(b)
  BY <1>1 DEF Kept, Holds
<1>7. \A t \in Tasks : (Bears(t, x)' <=> Bears(t, x)) /\ at'[t] = at[t]
  BY <1>1 DEF Bears
<1> HIDE DEF k, j, a, Asked
<1>8. CASE x \notin c.region
  <2>1. \A d : (d \in calls' /\ x \in d.region) <=> (d \in calls /\ x \in d.region)
    BY <1>1, <1>2, <1>8
  <2>2. QED
    BY <1>1, <1>7, <1>8, <2>1, FrameAt
<1>9. CASE x \in c.region
  <2>1. /\ \A i \in Addr \ {Root} : \A b \in Below[i] : x \in Holds(b) =>
             x \in Side(i) \/ (b \in Below[a] /\ Parent[i] \notin Below[a])
        /\ \A i \in Addr \ {Root} : x \in Side(i) => x \in Kept(i)
        /\ x \in Kept(a) /\ x \notin Side(a)
        /\ \A d \in calls : x \in d.region => d = c
        /\ \A t \in Tasks : ~Bears(t, x)
        /\ \A b \in Inner \ {Root} : x \in full[b] => x \in Kept(b)
    BY <1>0, <1>9, Unlinked DEF a
  <2>2. PICK m \in {k, j} : x \in Side(m)
    BY <1>4, <2>1
  <2>3. PICK n \in {k, j} : n # m /\ x \notin Side(n) /\ {m, n} = {k, j}
    BY <1>3, <1>5, <2>2
  <2>4. Fresh(x)'
    BY <1>7, <2>1 DEF Fresh
  <2>5. Backed(x)'
    BY <1>1, <1>6, <1>9, <2>1 DEF Backed
  <2>6. Delegated(x)'
    BY <1>1, <1>6, <1>9, <2>1, TreeFacts DEF Delegated
  <2>7. /\ \A d \in calls' : x \in d.region => d = Asked(m)
        /\ Asked(m) \in calls' /\ x \in Asked(m).region
    BY <1>1, <1>2, <1>9, <2>1, <2>2, <2>3
  <2>8. Called(x)'
    <3>1. x \in Kept(m)' /\ x \notin Side(m)'
      BY <1>1, <1>3, <1>6, <1>9, <2>1, <2>2
    <3>2. QED
      BY <1>2, <2>7, <3>1 DEF Called
  <2>9. ASSUME NEW i \in Addr \ {Root}, NEW b \in Below[i], x \in Holds(b)'
        PROVE  x \in Side(i)' \/ (b \in Below[m] /\ Parent[i] \notin Below[m])
    <3>1. b # a /\ b \in Addr /\ x \in Holds(b)
      <4>1. x \notin Holds(a)'
        BY <1>1, <1>4, <1>9, <2>1
      <4>2. QED
        BY <1>6, <2>9, <4>1, PathFacts
    <3>2. CASE x \in Side(i)
      BY <1>1, <1>3, <2>2, <2>3, <2>9, <3>2
    <3>3. CASE b \in Below[a] /\ Parent[i] \notin Below[a]
      <4>1. b \notin Below[n]
        <5>1. n \in Addr \ {Root} /\ Parent[n] \in Below[a]
          BY <1>1, <1>3, PathFacts
        <5>2. QED
          BY <2>1, <2>3, <3>1, <5>1
      <4>2. QED
        BY <1>3, <2>2, <2>3, <3>1, <3>3, <4>1
    <3>4. QED
      BY <2>1, <3>1, <3>2, <3>3
  <2>10. Linked(x)'
    BY <1>2, <2>7, <2>9 DEF Linked
  <2>11. QED
    BY <2>4, <2>5, <2>6, <2>8, <2>10 DEF ElementInv
<1>10. QED
  BY <1>8, <1>9

LEMMA LeafElement ==
  ASSUME Orderly, OwnershipInv, NEW c \in calls, collect_leaf_ownership(c), NEW x \in Elems
  PROVE  ElementInv(x)'
<1> DEFINE a == c.child
<1>1. /\ a \in Leaves /\ a \in Addr \ {Root} /\ c.op = "collect"
      /\ left' = left /\ right' = right
      /\ \A b \in Addr : full'[b] = IF b = a THEN full[b] \ c.region ELSE full[b]
      /\ calls' = calls \ {c}
      /\ UNCHANGED <<pc, at, req, goal, allowance, missing>>
  BY LeafEffect
<1>2. \A t \in Tasks : (Bears(t, x)' <=> Bears(t, x)) /\ at'[t] = at[t]
  BY <1>1 DEF Bears
<1>3. \A i : Side(i)' = Side(i)
  BY <1>1 DEF Side
<1>4. \A b \in Addr \ {a} : Kept(b)' = Kept(b) /\ Holds(b)' = Holds(b)
  BY <1>1 DEF Kept, Holds
<1>5. Holds(a)' \cap c.region = {} /\ Below[a] = {a}
  BY <1>1, PathFacts DEF OwnershipInv, LeavesPlain, Holds
<1> HIDE DEF a
<1>6. CASE x \notin c.region
  <2>1. \A d : (d \in calls' /\ x \in d.region) <=> (d \in calls /\ x \in d.region)
    BY <1>1, <1>6
  <2>2. TypeOK /\ CallInv /\ ElementInv(x)
    BY DEF OwnershipInv, TypeInv
  <2>3. QED
    BY <1>1, <1>2, <1>6, <2>1, <2>2, Frame
<1>7. CASE x \in c.region
  <2>1. /\ \A i \in Addr \ {Root} : \A b \in Below[i] : x \in Holds(b) =>
             x \in Side(i) \/ (b \in Below[a] /\ Parent[i] \notin Below[a])
        /\ \A i \in Addr \ {Root} : x \in Side(i) => x \in Kept(i)
        /\ x \notin Side(a)
        /\ \A d \in calls : x \in d.region => d = c
        /\ \A t \in Tasks : ~Bears(t, x)
        /\ \A b \in Inner \ {Root} : x \in full[b] => x \in Kept(b)
    BY <1>1, <1>7, Unlinked DEF a
  <2>2. Fresh(x)' /\ Called(x)'
    BY <1>1, <1>2, <2>1 DEF Fresh, Called
  <2>3. Backed(x)'
    BY <1>3, <1>4, <2>1 DEF Backed
  <2>4. Delegated(x)'
    <3>1. \A b \in Inner \ {Root} : b \in Addr /\ b # a
      BY <1>1, TreeFacts
    <3>2. QED
      BY <1>1, <1>4, <2>1, <3>1 DEF Delegated
  <2>5. Linked(x)'
    <3>1. ASSUME NEW i \in Addr \ {Root}, NEW b \in Below[i], x \in Holds(b)'
          PROVE  x \in Side(i)'
      <4>1. b # a /\ b \in Addr
        BY <1>5, <1>7, <3>1, PathFacts
      <4>2. QED
        BY <1>3, <1>4, <1>5, <2>1, <3>1, <4>1
    <3>2. QED
      BY <3>1 DEF Linked
  <2>6. QED
    BY <2>2, <2>3, <2>4, <2>5 DEF ElementInv
<1>8. QED
  BY <1>6, <1>7

(***************************************************************************)
(* The three index calls, complete.                                        *)
(***************************************************************************)
LEMMA TasksUnmoved ==
  ASSUME TaskInv, UNCHANGED <<pc, at, req, goal, allowance>>
  PROVE  TaskInv'
BY DEF TaskInv, Writes, Region

LEMMA AcquireForStep ==
  ASSUME Orderly, OwnershipInv, NEW c \in calls, acquire_ownership_for(c)
  PROVE  LeavesPlain' /\ TaskInv' /\ AcquiredInv' /\ CallInv'
<1> DEFINE k == c.child
           j == Sibling(k)
           a == Parent[k]
           up == AcquireFor(c.task, Parent[a], a, c.region \ Side(j))
           down == Collect(c.task, j, c.region \cap Side(j))
<1>1. /\ k \in Addr \ {Root} /\ j \in Addr \ {Root} /\ a \in Addr /\ a \in Inner
      /\ Side(k)' = Side(k) \cup c.region /\ Side(j)' = Side(j) \ c.region
      /\ \A i \in Addr \ {Root} : i # k /\ i # j => Side(i)' = Side(i)
      /\ \A b \in Addr \ {a} : full'[b] = full[b] /\ left'[b] = left[b] /\ right'[b] = right[b]
      /\ full'[a] = full[a] \ (c.region \ Side(j))
      /\ calls' = (calls \ {c}) \cup (IF c.region \ Side(j) # {} /\ a # Root THEN {up} ELSE {})
                                \cup (IF c.region \cap Side(j) # {} THEN {down} ELSE {})
      /\ UNCHANGED <<pc, at, req, goal, allowance, missing>>
  BY AcquireForEffect DEF AcquireForMoves
<1>2. /\ up.child = a /\ up.op = "acquire" /\ up.region = c.region \ Side(j)
      /\ up.at = Parent[a] /\ up.task = c.task
      /\ down.child = j /\ down.op = "collect" /\ down.region = c.region \cap Side(j)
      /\ down.at = j /\ down.task = c.task
  BY DEF AcquireFor, Collect
<1>3. Below[k] \cap Below[j] = {} /\ Below[k] \subseteq Below[a]
  BY <1>1, SiblingFacts, PathFacts
<1>4. c.op = "acquire"
  BY DEF acquire_ownership_for
<1>5. LeavesPlain /\ TaskInv /\ AcquiredInv /\ CallInv /\ TypeOK
  BY DEF OwnershipInv, TypeInv
<1> HIDE DEF k, j, a, up, down
<1>6. \A b \in Leaves : b \in Addr /\ b # a
  BY <1>1, TreeFacts DEF Leaves
<1>7. LeavesPlain'
  BY <1>1, <1>5, <1>6 DEF LeavesPlain
<1>8. AcquiredInv'
  <2>1. \A t \in Tasks : pc[t] \in {"own", "collect", "transfer", "running"} /\ Writes(t) => full'[at[t]] = full[at[t]]
    BY <1>1, <1>5, <1>6 DEF TaskInv
  <2>2. QED
    BY <1>1, <1>5, <2>1 DEF AcquiredInv, Writes, Region
<1>9. CallInv'
  <2>1. pc[c.task] = "collect" /\ c.region \subseteq Region(c.task) /\ at[c.task] \in Below[k]
    BY <1>4, <1>5 DEF CallInv, k
  <2>3. ASSUME NEW d \in calls'
        PROVE  /\ pc[d.task] = "collect" /\ d.region \subseteq Region(d.task) /\ d.child # Root
               /\ d.op = "acquire" => d.at = Parent[d.child] /\ at[d.task] \in Below[d.child]
               /\ d.op = "collect" => d.at = d.child /\ at[d.task] \notin Below[d.child]
    <3>1. CASE d \in calls
      BY <1>5, <3>1 DEF CallInv
    <3>2. CASE (d = up /\ a # Root) \/ d = down
      BY <1>1, <1>2, <1>3, <2>1, <3>2
    <3>3. QED
      BY <1>1, <2>3, <3>1, <3>2
  <2>4. QED
    BY <1>1, <2>3 DEF CallInv, Region
<1>10. QED
  BY <1>1, <1>5, <1>7, <1>8, <1>9, TasksUnmoved

LEMMA CollectStep ==
  ASSUME Orderly, OwnershipInv, NEW c \in calls, collect_child_ownerships(c)
  PROVE  LeavesPlain' /\ TaskInv' /\ AcquiredInv' /\ CallInv'
<1> DEFINE a == c.child
           k == LeftChild[a]
           j == RightChild[a]
           Asked(m) == Collect(c.task, m, c.region \cap Side(m))
<1>1. /\ a \in Addr \ {Root} /\ a \in Inner
      /\ k \in Addr \ {Root} /\ j \in Addr \ {Root} /\ j = Sibling(k) /\ Parent[k] = a
      /\ Side(k)' = Side(k) \ c.region /\ Side(j)' = Side(j) \ c.region
      /\ \A i \in Addr \ {Root} : i # k /\ i # j => Side(i)' = Side(i)
      /\ \A b \in Addr \ {a} : full'[b] = full[b] /\ left'[b] = left[b] /\ right'[b] = right[b]
      /\ full'[a] = full[a] \ (c.region \cap Kept(a))
      /\ calls' = (calls \ {c}) \cup (IF c.region \cap Side(k) # {} THEN {Asked(k)} ELSE {})
                                \cup (IF c.region \cap Side(j) # {} THEN {Asked(j)} ELSE {})
      /\ UNCHANGED <<pc, at, req, goal, allowance, missing>>
  BY CollectEffect DEF CollectMoves
<1>2. \A m : /\ Asked(m).child = m /\ Asked(m).op = "collect" /\ Asked(m).region = c.region \cap Side(m)
             /\ Asked(m).at = m /\ Asked(m).task = c.task
  BY DEF Collect
<1>3. Below[k] \subseteq Below[a] /\ Below[j] \subseteq Below[a]
  BY <1>1, SiblingFacts
<1>4. c.op = "collect"
  BY DEF collect_child_ownerships
<1>5. LeavesPlain /\ TaskInv /\ AcquiredInv /\ CallInv /\ TypeOK
  BY DEF OwnershipInv, TypeInv
<1> HIDE DEF k, j, a, Asked
<1>6. \A b \in Leaves : b \in Addr /\ b # a
  BY <1>1, TreeFacts DEF Leaves
<1>7. LeavesPlain'
  BY <1>1, <1>5, <1>6 DEF LeavesPlain
<1>8. AcquiredInv'
  <2>1. \A t \in Tasks : pc[t] \in {"own", "collect", "transfer", "running"} /\ Writes(t) => full'[at[t]] = full[at[t]]
    BY <1>1, <1>5, <1>6 DEF TaskInv
  <2>2. QED
    BY <1>1, <1>5, <2>1 DEF AcquiredInv, Writes, Region
<1>9. CallInv'
  <2>1. pc[c.task] = "collect" /\ c.region \subseteq Region(c.task) /\ at[c.task] \notin Below[a]
    BY <1>4, <1>5 DEF CallInv, a
  <2>3. ASSUME NEW d \in calls'
        PROVE  /\ pc[d.task] = "collect" /\ d.region \subseteq Region(d.task) /\ d.child # Root
               /\ d.op = "acquire" => d.at = Parent[d.child] /\ at[d.task] \in Below[d.child]
               /\ d.op = "collect" => d.at = d.child /\ at[d.task] \notin Below[d.child]
    <3>1. CASE d \in calls
      BY <1>5, <3>1 DEF CallInv
    <3>2. CASE d = Asked(k) \/ d = Asked(j)
      BY <1>1, <1>2, <1>3, <2>1, <3>2
    <3>3. QED
      BY <1>1, <2>3, <3>1, <3>2
  <2>4. QED
    BY <1>1, <2>3 DEF CallInv, Region
<1>10. QED
  BY <1>1, <1>5, <1>7, <1>8, <1>9, TasksUnmoved

LEMMA LeafStep ==
  ASSUME Orderly, OwnershipInv, NEW c \in calls, collect_leaf_ownership(c)
  PROVE  LeavesPlain' /\ TaskInv' /\ AcquiredInv' /\ CallInv'
<1> DEFINE a == c.child
<1>1. /\ a \in Leaves /\ a \in Addr \ {Root} /\ c.op = "collect"
      /\ left' = left /\ right' = right
      /\ \A b \in Addr : full'[b] = IF b = a THEN full[b] \ c.region ELSE full[b]
      /\ calls' = calls \ {c}
      /\ UNCHANGED <<pc, at, req, goal, allowance, missing>>
  BY LeafEffect
<1>2. LeavesPlain /\ TaskInv /\ AcquiredInv /\ CallInv /\ TypeOK
  BY DEF OwnershipInv, TypeInv
<1>3. c.task \in Tasks /\ pc[c.task] = "collect" /\ c.region \subseteq Region(c.task)
      /\ at[c.task] # a
  BY <1>1, <1>2, CallFacts, PathFacts DEF CallInv
<1> HIDE DEF a
<1>4. \A t \in Tasks : at[t] = a => Region(t) \cap c.region = {}
  BY <1>2, <1>3 DEF TaskInv, AcquiredInv
<1>5. AcquiredInv'
  <2>1. ASSUME NEW t \in Tasks
        PROVE  Region(t) \cap full[at[t]] \subseteq full'[at[t]]
    BY <1>1, <1>2, <1>4 DEF TypeOK
  <2>2. QED
    BY <1>1, <1>2, <2>1 DEF AcquiredInv, Writes, Region
<1>6. CallInv'
  BY <1>1, <1>2 DEF CallInv, Region
<1>7. QED
  BY <1>1, <1>2, <1>5, <1>6, TasksUnmoved DEF LeavesPlain

(***************************************************************************)
(* A task goes down one level: what its allowance may record there is      *)
(* recorded for the child and handed on.                                   *)
(***************************************************************************)
Given(t, k) == Handed(full[at[t]], allowance[t], Region(t), Side(k), Side(Sibling(k)))

Descends(t, k) ==
  LET a == Parent[k]
  IN  /\ k \in Addr \ {Root} /\ a = at[t] /\ pc[t] \in {"down", "local"}
      /\ at' = [at EXCEPT ![t] = k]
      /\ UNCHANGED <<pc, req, goal, missing, calls>>
      /\ \A b \in Addr \ {a} : full'[b] = full[b] /\ left'[b] = left[b] /\ right'[b] = right[b]
      /\ Side(Sibling(k))' = Side(Sibling(k))
      /\ \A i \in Addr \ {Root} : i # k => Side(i)' = Side(i)
      /\ IF Writes(t)
         THEN /\ full'[a] = full[a] \cup allowance[t] /\ Side(k)' = Side(k) \cup Given(t, k)
              /\ allowance' = [allowance EXCEPT ![t] = Given(t, k)]
         ELSE full' = full /\ Side(k)' = Side(k) /\ UNCHANGED allowance

LEMMA AllowanceDown ==
  ASSUME Orderly, OwnershipInv, NEW t \in Tasks, NEW a \in Inner, a = at[t],
         NEW k, k = LeftChild[a], NEW j, j = RightChild[a], pc[t] \in {"down", "local"},
         UNCHANGED <<pc, req, goal, missing, calls>>
  PROVE  /\ add_allowance_left(a, t) /\ at' = [at EXCEPT ![t] = k] => Descends(t, k)
         /\ add_allowance_right(a, t) /\ at' = [at EXCEPT ![t] = j] => Descends(t, j)
<1>1. /\ a \in Addr /\ k \in Addr \ {Root} /\ j \in Addr \ {Root} /\ k # j
      /\ Parent[k] = a /\ Parent[j] = a /\ j = Sibling(k) /\ k = Sibling(j)
  BY HierarchyAssumption DEF Orderly, Sibling, Inner
<1>2. /\ full \in [Addr -> SUBSET Elems] /\ left \in [Addr -> SUBSET Elems]
      /\ right \in [Addr -> SUBSET Elems] /\ allowance \in [Tasks -> SUBSET Elems]
      /\ at \in [Tasks -> Addr]
  BY DEF OwnershipInv, TypeInv, TypeOK
<1>3. Side(k) = left[a] /\ Side(j) = right[a] /\ Side(k)' = left'[a] /\ Side(j)' = right'[a]
  BY <1>1 DEF Side
<1>4. \A i \in Addr \ {Root} : i # k /\ i # j => Parent[i] # a /\ Parent[i] \in Addr
  BY <1>1, SiblingFacts, PathFacts
<1>5. ASSUME add_allowance_left(a, t), at' = [at EXCEPT ![t] = k]
      PROVE  Descends(t, k)
  <2>2. CASE Writes(t)
    <3>1. /\ full' = [full EXCEPT ![a] = @ \cup allowance[t]]
          /\ left' = [left EXCEPT ![a] = @ \cup Given(t, k)]
          /\ allowance' = [allowance EXCEPT ![t] = Given(t, k)] /\ right' = right
      BY <1>1, <1>3, <1>5, <2>2 DEF add_allowance_left, Given
    <3>2. /\ \A b \in Addr \ {a} : full'[b] = full[b] /\ left'[b] = left[b] /\ right'[b] = right[b]
          /\ full'[a] = full[a] \cup allowance[t]
          /\ Side(k)' = Side(k) \cup Given(t, k) /\ Side(j)' = Side(j)
      BY <1>1, <1>2, <1>3, <3>1
    <3>3. \A i \in Addr \ {Root} : i # k => Side(i)' = Side(i)
      BY <1>4, <3>2 DEF Side
    <3>4. QED
      BY <1>1, <1>5, <2>2, <3>1, <3>2, <3>3 DEF Descends
  <2>3. CASE ~Writes(t)
    <3>1. UNCHANGED <<full, left, right, allowance>>
      BY <1>5, <2>3 DEF add_allowance_left
    <3>2. \A i : Side(i)' = Side(i)
      BY <3>1 DEF Side
    <3>3. QED
      BY <1>1, <1>5, <2>3, <3>1, <3>2 DEF Descends
  <2>4. QED
    BY <2>2, <2>3
<1>6. ASSUME add_allowance_right(a, t), at' = [at EXCEPT ![t] = j]
      PROVE  Descends(t, j)
  <2>2. CASE Writes(t)
    <3>1. /\ full' = [full EXCEPT ![a] = @ \cup allowance[t]]
          /\ right' = [right EXCEPT ![a] = @ \cup Given(t, j)]
          /\ allowance' = [allowance EXCEPT ![t] = Given(t, j)] /\ left' = left
      BY <1>1, <1>3, <1>6, <2>2 DEF add_allowance_right, Given
    <3>2. /\ \A b \in Addr \ {a} : full'[b] = full[b] /\ left'[b] = left[b] /\ right'[b] = right[b]
          /\ full'[a] = full[a] \cup allowance[t]
          /\ Side(j)' = Side(j) \cup Given(t, j) /\ Side(k)' = Side(k)
      BY <1>1, <1>2, <1>3, <3>1
    <3>3. \A i \in Addr \ {Root} : i # j => Side(i)' = Side(i)
      BY <1>4, <3>2 DEF Side
    <3>4. QED
      BY <1>1, <1>6, <2>2, <3>1, <3>2, <3>3 DEF Descends
  <2>3. CASE ~Writes(t)
    <3>1. UNCHANGED <<full, left, right, allowance>>
      BY <1>6, <2>3 DEF add_allowance_right
    <3>2. \A i : Side(i)' = Side(i)
      BY <3>1 DEF Side
    <3>3. QED
      BY <1>1, <1>6, <2>3, <3>1, <3>2 DEF Descends
  <2>4. QED
    BY <2>2, <2>3
<1>7. QED
  BY <1>5, <1>6

LEMMA DescendElement ==
  ASSUME Orderly, OwnershipInv, NEW t \in Tasks, NEW k, Descends(t, k), NEW x \in Elems
  PROVE  ElementInv(x)'
<1> DEFINE a == Parent[k]
           j == Sibling(k)
<1>1. /\ k \in Addr \ {Root} /\ a = at[t] /\ pc[t] \in {"down", "local"}
      /\ at' = [at EXCEPT ![t] = k]
      /\ UNCHANGED <<pc, req, goal, missing, calls>>
      /\ \A b \in Addr \ {a} : full'[b] = full[b] /\ left'[b] = left[b] /\ right'[b] = right[b]
      /\ \A i \in Addr \ {Root} : i # k => Side(i)' = Side(i)
      /\ Writes(t) => /\ full'[a] = full[a] \cup allowance[t] /\ Side(k)' = Side(k) \cup Given(t, k)
                      /\ allowance' = [allowance EXCEPT ![t] = Given(t, k)]
      /\ ~Writes(t) => full' = full /\ Side(k)' = Side(k) /\ UNCHANGED allowance
  BY DEF Descends
<1>2. TypeOK /\ TaskInv /\ CallInv /\ ElementInv(x) /\ LeftRightDisjoint
  BY DEF OwnershipInv, TypeInv
<1>3. /\ j \in Addr \ {Root} /\ j # k /\ Parent[j] = a /\ a \in Addr /\ a \in Inner
      /\ a \notin Below[k] /\ a # k /\ Below[k] \subseteq Addr
  BY <1>1, SiblingFacts, PathFacts
<1>4. /\ Side(j)' = Side(j)
      /\ Kept(a) = Side(k) \cup Side(j) /\ Kept(a)' = Side(k)' \cup Side(j)
      /\ Holds(a) = full[a] \cup Kept(a) /\ Holds(a)' = full'[a] \cup Kept(a)'
  BY <1>1, <1>3, InnerFacts
<1>5. \A b \in Addr \ {a} : Kept(b)' = Kept(b) /\ Holds(b)' = Holds(b)
  BY <1>1 DEF Kept, Holds
<1>6. \A u \in Tasks \ {t} : (Bears(u, x)' <=> Bears(u, x)) /\ at'[u] = at[u]
  BY <1>1, <1>2 DEF Bears, TypeOK
<1>7. at'[t] = k /\ (Writes(t) => (Bears(t, x)' <=> x \in Given(t, k)))
  BY <1>1, <1>2 DEF Bears, TypeOK
<1>8. Bears(t, x) <=> a # Root /\ x \in allowance[t]
  BY <1>1 DEF Bears
<1>9. Given(t, k) = ((Region(t) \ Side(k)) \cap (full[a] \cup allowance[t])) \ Side(j)
  BY <1>1 DEF Given, Handed
<1>10. allowance[t] \subseteq Region(t) /\ (allowance[t] # {} => Writes(t))
  BY <1>2 DEF TaskInv
<1>11. x \in full[a] /\ a # Root => x \in Kept(a)
  BY <1>2, <1>3 DEF ElementInv, Delegated
<1>12. Bears(t, x) => x \notin Holds(a)
  BY <1>1, <1>2, <1>3, PathFacts DEF ElementInv, Fresh
<1> HIDE DEF a, j
<1>13. CASE x \notin Given(t, k)
  <2>1. ~Bears(t, x)' /\ ~Bears(t, x)
    <3>1. CASE Writes(t)
      BY <1>4, <1>7, <1>8, <1>9, <1>10, <1>12, <1>13, <3>1
    <3>2. CASE ~Writes(t)
      BY <1>1, <1>10, <3>2 DEF Bears
    <3>3. QED
      BY <3>1, <3>2
  <2>2. \A u \in Tasks : (Bears(u, x)' <=> Bears(u, x)) /\ (Bears(u, x) => at'[u] = at[u])
    BY <1>6, <2>1
  <2>3. \A i \in Addr \ {Root} : x \in Side(i)' <=> x \in Side(i)
    BY <1>1, <1>13
  <2>4. (x \in Holds(a)' <=> x \in Holds(a)) /\ (x \in Kept(a)' <=> x \in Kept(a))
        /\ (a # Root => (x \in full'[a] <=> x \in full[a]))
    <3>1. x \in Kept(a)' <=> x \in Kept(a)
      BY <1>1, <1>4, <2>3
    <3>2. x \in allowance[t] => x \in Kept(a)
      BY <1>4, <1>9, <1>10, <1>13
    <3>3. a # Root => x \notin allowance[t]
      BY <1>8, <2>1
    <3>4. QED
      BY <1>1, <1>4, <3>1, <3>2, <3>3
  <2>5. /\ \A b \in Addr : (x \in Holds(b)' <=> x \in Holds(b)) /\ (x \in Kept(b)' <=> x \in Kept(b))
        /\ \A b \in Addr \ {Root} : x \in full'[b] <=> x \in full[b]
    BY <1>1, <1>5, <2>4
  <2>6. calls' = calls
    BY <1>1
  <2>7. QED
    BY <1>2, <2>2, <2>3, <2>5, <2>6, FrameRecords
<1>14. CASE x \in Given(t, k) /\ ~Writes(t)
  <2>1. ~Bears(t, x)' /\ ~Bears(t, x)
    BY <1>1, <1>10, <1>14 DEF Bears
  <2>2. \A u \in Tasks : (Bears(u, x)' <=> Bears(u, x)) /\ (Bears(u, x) => at'[u] = at[u])
    BY <1>6, <2>1
  <2>3. \A i \in Addr \ {Root} : Side(i)' = Side(i)
    BY <1>1, <1>14
  <2>4. Kept(a)' = Kept(a) /\ Holds(a)' = Holds(a) /\ full' = full
    BY <1>1, <1>4, <1>14
  <2>5. /\ \A b \in Addr : (x \in Holds(b)' <=> x \in Holds(b)) /\ (x \in Kept(b)' <=> x \in Kept(b))
        /\ \A b \in Addr \ {Root} : x \in full'[b] <=> x \in full[b]
    BY <1>5, <2>4
  <2>6. calls' = calls
    BY <1>1
  <2>7. QED
    BY <1>2, <2>2, <2>3, <2>5, <2>6, FrameRecords
<1>15. CASE x \in Given(t, k) /\ Writes(t)
  <2>1. /\ x \in Region(t) /\ x \notin Side(k) /\ x \notin Side(j) /\ x \notin Kept(a)
        /\ a # Root => Bears(t, x)
        /\ x \in Side(k)' /\ x \in Kept(a)' /\ Bears(t, x)'
    BY <1>1, <1>4, <1>7, <1>8, <1>9, <1>11, <1>15
  <2>2. \A u \in Tasks \ {t} : ~Bears(u, x) /\ ~Bears(u, x)'
    BY <1>2, <1>6, <1>15, <2>1 DEF Bears, TaskInv
  <2>3. \A c \in calls : x \notin c.region
    <3>1. ASSUME NEW c \in calls, x \in c.region PROVE FALSE
      BY <1>1, <1>2, <1>15, <2>1, <3>1, OneActor
    <3>2. QED
      BY <3>1
  <2>4. /\ \A i \in Addr \ {Root} : \A b \in Below[i] : x \in Holds(b) => x \in Side(i)
        /\ \A i \in Addr \ {Root} : x \in Side(i) =>
             x \in Kept(i) \/ (Bears(t, x) /\ i = a)
        /\ \A b \in Inner \ {Root} : x \in full[b] => x \in Kept(b)
        /\ a # Root => \A i \in Addr \ {Root} : a \in Below[i] => x \in Side(i)
    BY <1>1, <1>2, <2>1, <2>2, <2>3 DEF ElementInv, Linked, Backed, Delegated, Fresh
  <2>5. \A b \in Below[k] : x \notin Holds(b) /\ x \notin Holds(b)'
    BY <1>1, <1>3, <1>5, <2>1, <2>4
  <2>6. Linked(x)'
    <3>1. ASSUME NEW i \in Addr \ {Root}, NEW b \in Below[i], x \in Holds(b)'
          PROVE  x \in Side(i)'
      <4>1. CASE b = a
        <5>1. a # Root
          BY <3>1, <4>1, PathFacts
        <5>2. QED
          BY <1>1, <2>1, <2>4, <3>1, <4>1, <5>1
      <4>2. CASE b # a
        <5>1. x \in Holds(b)
          BY <1>5, <3>1, <4>2, PathFacts
        <5>2. QED
          BY <1>1, <2>1, <2>4, <3>1, <5>1
      <4>3. QED
        BY <4>1, <4>2
    <3>2. QED
      BY <3>1 DEF Linked
  <2>7. Backed(x)'
    <3>1. ASSUME NEW i \in Addr \ {Root}, x \in Side(i)'
          PROVE  x \in Kept(i)' \/ (i = k /\ Bears(t, x)' /\ at'[t] = k)
      BY <1>1, <1>5, <1>7, <2>1, <2>4, <3>1
    <3>2. QED
      BY <3>1 DEF Backed
  <2>8. Fresh(x)'
    <3>1. ASSUME NEW i \in Addr \ {Root}, k \in Below[i] PROVE x \in Side(i)'
      <4>1. CASE i = k
        BY <2>1, <4>1
      <4>2. CASE i # k
        <5>1. a \in Below[i] /\ a # Root
          BY <1>1, <3>1, <4>2, HierarchyAssumption DEF a
        <5>2. QED
          BY <1>1, <2>4, <4>2, <5>1
      <4>3. QED
        BY <4>1, <4>2
    <3>2. QED
      BY <1>7, <2>2, <2>5, <3>1 DEF Fresh
  <2>9. Called(x)'
    BY <1>1, <2>3 DEF Called
  <2>10. Delegated(x)'
    BY <1>1, <1>5, <2>1, <2>4, TreeFacts DEF Delegated
  <2>11. QED
    BY <2>6, <2>7, <2>8, <2>9, <2>10 DEF ElementInv
<1>16. QED
  BY <1>13, <1>14, <1>15

(***************************************************************************)
(* A task takes its allowance where it is split or processed.              *)
(***************************************************************************)
Settles(t, a) ==
  /\ a = at[t] /\ pc[t] = "local" /\ (Writes(t) => a \in Leaves \cup {Root})
  /\ full' = IF Writes(t) THEN [full EXCEPT ![a] = @ \cup allowance[t]] ELSE full
  /\ pc'[t] \notin {"down", "local"}
  /\ \A u \in Tasks \ {t} : pc'[u] = pc[u] /\ at'[u] = at[u] /\ allowance'[u] = allowance[u]
  /\ UNCHANGED <<left, right, calls>>

LEMMA SettleElement ==
  ASSUME Orderly, OwnershipInv, NEW t \in Tasks, NEW a \in Addr, Settles(t, a), NEW x \in Elems
  PROVE  ElementInv(x)'
<1>1. /\ a = at[t] /\ pc[t] = "local" /\ (Writes(t) => a \in Leaves \cup {Root})
      /\ full' = IF Writes(t) THEN [full EXCEPT ![a] = @ \cup allowance[t]] ELSE full
      /\ UNCHANGED <<left, right, calls>>
  BY DEF Settles
<1>2. TypeOK /\ TaskInv /\ CallInv /\ ElementInv(x)
  BY DEF OwnershipInv, TypeInv
<1>3. \A u \in Tasks \ {t} : (Bears(u, x)' <=> Bears(u, x)) /\ at'[u] = at[u]
  BY DEF Settles, Bears
<1>4. ~Bears(t, x)'
  BY DEF Settles, Bears
<1>5. Bears(t, x) <=> a # Root /\ x \in allowance[t]
  BY <1>1 DEF Bears
<1>6. allowance[t] \subseteq Region(t) /\ (allowance[t] # {} => Writes(t))
  BY <1>2 DEF TaskInv
<1>7. \A b \in Addr : full'[b] = IF b = a THEN full[a] \cup allowance[t] ELSE full[b]
  BY <1>1, <1>2, <1>6 DEF TypeOK
<1>8. CASE x \notin allowance[t]
  <2>1. \A b \in Addr : x \in full'[b] <=> x \in full[b]
    BY <1>7, <1>8
  <2>2. \A u \in Tasks : (Bears(u, x)' <=> Bears(u, x)) /\ (Bears(u, x) => at'[u] = at[u])
    BY <1>3, <1>4, <1>5, <1>8
  <2>3. QED
    BY <1>1, <1>2, <2>1, <2>2, Frame
<1>9. CASE x \in allowance[t]
  <2>1. Writes(t) /\ x \in Region(t)
    BY <1>6, <1>9
  <2>2. \A u \in Tasks \ {t} : ~Bears(u, x) /\ ~Bears(u, x)'
    BY <1>2, <1>3, <2>1 DEF Bears, TaskInv
  <2>3. \A c \in calls : x \notin c.region
    <3>1. ASSUME NEW c \in calls, x \in c.region PROVE FALSE
      BY <1>1, <2>1, <3>1, OneActor
    <3>2. QED
      BY <3>1
  <2>4. /\ \A i \in Addr \ {Root} : \A b \in Below[i] : x \in Holds(b) => x \in Side(i)
        /\ \A i \in Addr \ {Root} : x \in Side(i) =>
             x \in Kept(i) \/ (Bears(t, x) /\ i = a)
        /\ \A b \in Inner \ {Root} : x \in full[b] => x \in Kept(b)
        /\ a # Root => \A i \in Addr \ {Root} : a \in Below[i] => x \in Side(i)
    BY <1>1, <1>2, <1>5, <1>9, <2>2, <2>3 DEF ElementInv, Linked, Backed, Delegated, Fresh
  <2>5. \A i : Side(i)' = Side(i)
    BY <1>1 DEF Side
  <2>6. \A b \in Addr : b # a => Holds(b)' = Holds(b) /\ Kept(b)' = Kept(b)
    BY <1>1, <1>7 DEF Holds, Kept
  <2>7. a # Root => x \in Kept(a)'
    BY <1>1, <1>7, <1>9, <2>1 DEF Kept
  <2>8. Linked(x)'
    <3>1. ASSUME NEW i \in Addr \ {Root}, NEW b \in Below[i], x \in Holds(b)'
          PROVE  x \in Side(i)
      <4>1. CASE b = a
        BY <2>4, <3>1, <4>1, PathFacts
      <4>2. CASE b # a
        BY <2>4, <2>6, <3>1, <4>2, PathFacts
      <4>3. QED
        BY <4>1, <4>2
    <3>2. QED
      BY <2>5, <3>1 DEF Linked
  <2>9. Backed(x)'
    BY <1>5, <2>4, <2>5, <2>6, <2>7 DEF Backed
  <2>10. Fresh(x)'
    BY <1>4, <2>2 DEF Fresh
  <2>11. Called(x)'
    BY <1>1, <2>3 DEF Called
  <2>12. Delegated(x)'
    BY <1>7, <2>4, <2>6, <2>7, TreeFacts DEF Delegated
  <2>13. QED
    BY <2>8, <2>9, <2>10, <2>11, <2>12 DEF ElementInv
<1>10. QED
  BY <1>8, <1>9

(***************************************************************************)
(* acquire_ownership: the leaf becomes owner of what it misses and asks    *)
(* its parent.                                                             *)
(***************************************************************************)
LEMMA OwnElement ==
  ASSUME Orderly, OwnershipInv, NEW t \in Tasks, acquire_ownership(t), NEW x \in Elems
  PROVE  ElementInv(x)'
<1>0. PICK a \in Addr : a = at[t] /\ a \in Leaves
  BY DEF acquire_ownership, OwnershipInv, TypeInv, TypeOK, TaskInv, AcquiredInv
<1> DEFINE up == AcquireFor(t, Parent[a], a, missing[t])
<1>1. /\ pc[t] = "own" /\ full' = [full EXCEPT ![a] = @ \cup missing[t]]
      /\ calls' = (IF a = Root THEN calls ELSE calls \cup {up})
      /\ pc' = [pc EXCEPT ![t] = "collect"]
      /\ UNCHANGED <<left, right, at, req, allowance>>
  BY <1>0 DEF acquire_ownership, taskVars
<1>2. TypeOK /\ TaskInv /\ CallInv /\ ElementInv(x) /\ LeavesPlain
  BY DEF OwnershipInv, TypeInv
<1>3. Writes(t) /\ missing[t] \subseteq Region(t)
  BY <1>1 DEF OwnershipInv, AcquiredInv
<1>4. up.child = a /\ up.op = "acquire" /\ up.region = missing[t]
  BY DEF AcquireFor
<1>5. \A b \in Addr : full'[b] = IF b = a THEN full[a] \cup missing[t] ELSE full[b]
  BY <1>1, <1>2 DEF TypeOK
<1>6. \A u \in Tasks : (Bears(u, x)' <=> Bears(u, x)) /\ at'[u] = at[u]
  BY <1>1, <1>2 DEF Bears, TypeOK
<1> HIDE DEF up
<1>7. CASE x \notin missing[t]
  <2>1. \A d : (d \in calls' /\ x \in d.region) <=> (d \in calls /\ x \in d.region)
    BY <1>1, <1>4, <1>7
  <2>2. QED
    BY <1>1, <1>2, <1>5, <1>6, <1>7, <2>1, Frame
<1>8. CASE x \in missing[t]
  <2>1. \A u \in Tasks : ~Bears(u, x) /\ ~Bears(u, x)'
    BY <1>1, <1>2, <1>3, <1>6, <1>8 DEF Bears, TaskInv
  <2>2. \A c \in calls : x \notin c.region
    <3>1. ASSUME NEW c \in calls, x \in c.region PROVE FALSE
      BY <1>1, <1>3, <1>8, <3>1, OneActor
    <3>2. QED
      BY <3>1
  <2>3. /\ \A i \in Addr \ {Root} : \A b \in Below[i] : x \in Holds(b) => x \in Side(i)
        /\ \A i \in Addr \ {Root} : x \in Side(i) => x \in Kept(i)
        /\ \A b \in Inner \ {Root} : x \in full[b] => x \in Kept(b)
    BY <1>2, <2>1, <2>2 DEF ElementInv, Linked, Backed, Delegated
  <2>4. \A i : Side(i)' = Side(i)
    BY <1>1 DEF Side
  <2>5. \A b \in Addr : b # a => Holds(b)' = Holds(b) /\ Kept(b)' = Kept(b)
    BY <1>1, <1>5 DEF Holds, Kept
  <2>6. x \in Kept(a)'
    BY <1>0, <1>5, <1>8 DEF Kept
  <2>7. Linked(x)'
    <3>1. ASSUME NEW i \in Addr \ {Root}, NEW b \in Below[i], x \in Holds(b)'
          PROVE  x \in Side(i) \/ (b \in Below[a] /\ Parent[i] \notin Below[a] /\ a # Root)
      <4>1. CASE b = a
        BY <3>1, <4>1, PathFacts
      <4>2. CASE b # a
        BY <2>3, <2>5, <3>1, <4>2, PathFacts
      <4>3. QED
        BY <4>1, <4>2
    <3>2. a # Root => up \in calls' /\ x \in up.region
      BY <1>1, <1>4, <1>8
    <3>3. QED
      BY <1>4, <2>4, <3>1, <3>2 DEF Linked
  <2>8. Backed(x)'
    BY <2>3, <2>4, <2>5, <2>6 DEF Backed
  <2>9. Fresh(x)'
    BY <2>1 DEF Fresh
  <2>10. Called(x)'
    BY <1>1, <1>4, <2>2, <2>6 DEF Called
  <2>11. Delegated(x)'
    BY <1>0, <1>5, <2>3, <2>5, TreeFacts DEF Delegated
  <2>12. QED
    BY <2>7, <2>8, <2>9, <2>10, <2>11 DEF ElementInv
<1>9. QED
  BY <1>7, <1>8

(***************************************************************************)
(* Steps of one task: what is known of the others stays.                   *)
(***************************************************************************)
Alone(t) ==
  \A u \in Tasks \ {t} :
    /\ pc'[u] = pc[u] /\ at'[u] = at[u] /\ req'[u] = req[u] /\ goal'[u] = goal[u]
    /\ allowance'[u] = allowance[u] /\ missing'[u] = missing[u]

\* What TaskInv says of one task, and AcquiredInv.
TaskAt(t) ==
  /\ pc[t] \in {"new", "done"} => req[t] = NoRequirement
  /\ pc[t] \in {"acquire", "own", "collect", "transfer", "running"} /\ Writes(t) => at[t] \in Leaves
  /\ pc[t] \in {"schedule", "down"} => goal[t].own \in Targets[t][req[t]]
  /\ pc[t] = "local" /\ Writes(t) /\ req[t].split => at[t] \in Leaves \cup {Root}
  /\ pc[t] = "down" /\ allowance[t] # {} => goal[t].own \in Below[at[t]]
  /\ allowance[t] # {} => Writes(t) /\ allowance[t] \subseteq Region(t)

AcquiredAt(t) ==
  /\ pc[t] \in {"own", "collect"} => Writes(t)
  /\ pc[t] = "own" => missing[t] \subseteq Region(t) /\ Region(t) \subseteq full[at[t]] \cup missing[t]
  /\ pc[t] \in {"collect", "transfer", "running"} /\ Writes(t) => Region(t) \subseteq full[at[t]]

LEMMA InvAt ==
  /\ TaskInv <=> /\ \A t \in Tasks : TaskAt(t)
                 /\ \A t, u \in Tasks : t # u /\ Writes(t) => Region(t) \cap Region(u) = {}
  /\ AcquiredInv <=> \A t \in Tasks : AcquiredAt(t)
BY DEF TaskInv, TaskAt, AcquiredInv, AcquiredAt

LEMMA OneMoves ==
  ASSUME OwnershipInv, NEW t \in Tasks, Alone(t), TaskAt(t)', AcquiredAt(t)',
         \/ req'[t] = req[t] \/ Region(t)' = {}
         \/ \A u \in Tasks \ {t} : Writes(t)' \/ Writes(u) => Region(u) \cap Region(t)' = {},
         \A a \in Leaves : full[a] \subseteq full'[a]
  PROVE  TaskInv' /\ AcquiredInv'
<1>1. /\ \A u \in Tasks : TaskAt(u)
      /\ \A u, v \in Tasks : u # v /\ Writes(u) => Region(u) \cap Region(v) = {}
      /\ \A u \in Tasks : AcquiredAt(u)
  BY InvAt DEF OwnershipInv
<1>2. \A u \in Tasks \ {t} : /\ Writes(u)' = Writes(u) /\ Region(u)' = Region(u)
  BY DEF Alone, Writes, Region
<1>3. \A u \in Tasks : TaskAt(u)'
  <2>1. ASSUME NEW u \in Tasks \ {t} PROVE TaskAt(u)'
    BY <1>1, <1>2, <2>1 DEF TaskAt, Alone
  <2>2. QED
    BY <2>1
<1>4. \A u \in Tasks : AcquiredAt(u)'
  <2>1. ASSUME NEW u \in Tasks \ {t} PROVE AcquiredAt(u)'
    <3>1. TaskAt(u) /\ AcquiredAt(u)
      BY <1>1
    <3>2. pc[u] \in {"own", "collect", "transfer", "running"} /\ Writes(u) => full[at[u]] \subseteq full'[at'[u]]
      BY <3>1 DEF TaskAt, AcquiredAt, Alone
    <3>3. QED
      BY <1>2, <3>1, <3>2 DEF AcquiredAt, Alone
  <2>2. QED
    BY <2>1
<1>5. \A u, v \in Tasks : u # v /\ Writes(u)' => Region(u)' \cap Region(v)' = {}
  <2>1. CASE req'[t] = req[t]
    <3>1. \A u \in Tasks : Writes(u)' = Writes(u) /\ Region(u)' = Region(u)
      BY <1>2, <2>1 DEF Writes, Region
    <3>2. QED
      BY <1>1, <3>1
  <2>2. CASE Region(t)' = {}
    BY <1>1, <1>2, <2>2
  <2>3. CASE \A u \in Tasks \ {t} : Writes(t)' \/ Writes(u) => Region(u) \cap Region(t)' = {}
    BY <1>1, <1>2, <2>3
  <2>4. QED
    BY <2>1, <2>2, <2>3
<1>6. QED
  BY <1>3, <1>4, <1>5 DEF TaskInv, TaskAt, AcquiredInv, AcquiredAt

LEMMA CallsStay ==
  ASSUME OwnershipInv, NEW t \in Tasks, Alone(t), calls' = calls, \A c \in calls : c.task # t
  PROVE  CallInv'
<1>1. \A c \in calls : c.task \in Tasks \ {t}
  BY CallFacts DEF OwnershipInv, TypeInv
<1>2. QED
  BY <1>1 DEF OwnershipInv, CallInv, Alone, Region

\* Nothing happens to the records, nor to the allowance of the task.
LEMMA RecordsStay ==
  ASSUME OwnershipInv, NEW t \in Tasks, Alone(t), UNCHANGED <<full, left, right, calls>>,
         \A x \in Elems : Bears(t, x)' <=> Bears(t, x),
         at'[t] = at[t] \/ \A x \in Elems : ~Bears(t, x)
  PROVE  LeavesPlain' /\ \A x \in Elems : ElementInv(x)'
<1>1. LeavesPlain'
  BY DEF OwnershipInv, LeavesPlain
<1>2. ASSUME NEW x \in Elems PROVE ElementInv(x)'
  <2>1. TypeOK /\ CallInv /\ ElementInv(x)
    BY DEF OwnershipInv, TypeInv
  <2>2. \A u \in Tasks : (Bears(u, x)' <=> Bears(u, x)) /\ (Bears(u, x) => at'[u] = at[u])
    BY DEF Alone, Bears
  <2>3. QED
    BY <2>1, <2>2, Frame
<1>3. QED
  BY <1>1, <1>2

LEMMA LocatesStay ==
  ASSUME OwnershipInv, NEW t \in Tasks, Alone(t), locs' = locs,
         \/ pc[t] \notin {"locate", "transfer", "running", "done"}
         \/ pc'[t] \in {"locate", "transfer", "running", "done"} /\ (req'[t] = req[t] \/ ~Writes(t)')
  PROVE  LocateInv'
<1>1. \A f \in locs : f.task \in Tasks
  BY DEF OwnershipInv, TypeInv, TypeOK, Locate
<1>2. LocateInv
  BY DEF OwnershipInv
<1>3. ASSUME NEW f \in locs
      PROVE  pc'[f.task] \in {"locate", "transfer", "running", "done"} /\ ~Writes(f.task)'
  <2>1. CASE f.task = t
    BY <1>2, <2>1 DEF LocateInv, Writes
  <2>2. CASE f.task # t
    BY <1>1, <1>2, <2>2 DEF LocateInv, Alone, Writes
  <2>3. QED
    BY <2>1, <2>2
<1>4. QED
  BY <1>3 DEF LocateInv

RecordsInv ==
  /\ LeavesPlain /\ TaskInv /\ AcquiredInv /\ CallInv /\ LocateInv
  /\ \A x \in Elems : ElementInv(x)

\* A step of one task on its way that leaves the records alone.
Quiet(t) ==
  /\ Alone(t) /\ UNCHANGED <<full, left, right, calls, locs>>
  /\ pc[t] \in {"new", "schedule", "down", "local", "acquire", "own"}
  /\ req'[t] = req[t] \/ Region(t)' = {}
  /\ TaskAt(t)' /\ AcquiredAt(t)'
  /\ \A x \in Elems : Bears(t, x)' <=> Bears(t, x)
  /\ at'[t] = at[t] \/ \A x \in Elems : ~Bears(t, x)

LEMMA QuietStep ==
  ASSUME OwnershipInv, NEW t \in Tasks, Quiet(t)
  PROVE  RecordsInv'
<1>0. /\ Alone(t) /\ UNCHANGED <<full, left, right, calls, locs>>
      /\ pc[t] \in {"new", "schedule", "down", "local", "acquire", "own"}
      /\ req'[t] = req[t] \/ Region(t)' = {}
      /\ TaskAt(t)' /\ AcquiredAt(t)'
      /\ \A x \in Elems : Bears(t, x)' <=> Bears(t, x)
      /\ at'[t] = at[t] \/ \A x \in Elems : ~Bears(t, x)
  BY DEF Quiet
<1>1. pc[t] \notin {"collect", "locate", "transfer", "running", "done"}
  BY <1>0
<1>2. TaskInv' /\ AcquiredInv'
  BY <1>0, <1>1, OneMoves
<1>3. \A c \in calls : c.task # t
  BY <1>1 DEF OwnershipInv, CallInv
<1>4. CallInv' /\ LocateInv'
  BY <1>0, <1>1, <1>3, CallsStay, LocatesStay
<1>5. LeavesPlain' /\ \A x \in Elems : ElementInv(x)'
  BY <1>0, <1>1, RecordsStay
<1>6. QED
  BY <1>2, <1>4, <1>5 DEF RecordsInv

\* Only the root has unallocated regions: an inner node below it delegates all
\* of its region.
LEMMA TurnsAtRoot ==
  ASSUME Orderly, OwnershipInv, NEW t \in Tasks, at[t] # Root
  PROVE  ~Unallocated(at[t], t)
<1>1. at[t] \in Addr /\ (at[t] \in Inner <=> at[t] \notin Leaves) /\ full[at[t]] \subseteq Elems
  BY TreeFacts DEF OwnershipInv, TypeInv, TypeOK
<1>2. at[t] \in Inner => full[at[t]] \subseteq left[at[t]] \cup right[at[t]]
  BY <1>1 DEF OwnershipInv, ElementInv, Delegated, Kept
<1>3. QED
  BY <1>1, <1>2 DEF Unallocated, get_managed_unallocated

LEMMA ScheduleStep ==
  ASSUME Orderly, OwnershipInv, TypeInv', NEW t \in Tasks,
         \/ schedule_here(t) \/ schedule_shortcut(t) \/ schedule_turn(t) \/ schedule_up(t)
         \/ schedule_down_reject(t) \/ schedule_down_stay(t)
  PROVE  RecordsInv'
<1> USE DEF entry, index, taskVars, MayLeave
<1>1. TypeOK /\ TypeOK' /\ TaskAt(t) /\ AcquiredAt(t)
  BY InvAt DEF OwnershipInv, TypeInv
<1>2. pc[t] \in {"schedule", "down"} => req[t] \in Requirements
  BY DEF OwnershipInv, TypeInv, UnderWay
<1>3. MissingRegions(at[t], t) \subseteq Region(t) /\ (~Writes(t) => MissingRegions(at[t], t) = {})
  BY DEF MissingRegions, get_missing_region, get_managed_unallocated
<1>4. CASE schedule_here(t)
  <2>1. ~Writes(t)
    BY <1>2, <1>4, RequirementFacts DEF schedule_here, Writes, Orderly
  <2>2. Alone(t) /\ UNCHANGED <<full, left, right, calls, locs>> /\ pc[t] = "schedule" /\ req' = req
        /\ pc'[t] = "local" /\ allowance'[t] = {} /\ at' = at
    BY <1>1, <1>3, <1>4, <2>1 DEF schedule_here, TypeOK, Alone
  <2>3. TaskAt(t)' /\ AcquiredAt(t)' /\ \A x \in Elems : ~Bears(t, x) /\ ~Bears(t, x)'
    BY <2>1, <2>2 DEF TaskAt, AcquiredAt, Bears, Writes
  <2>4. QED
    BY <2>2, <2>3, QuietStep DEF Quiet
<1>5. CASE schedule_shortcut(t)
  <2>1. Alone(t) /\ UNCHANGED <<full, left, right, calls, locs>> /\ pc[t] = "schedule" /\ req' = req
        /\ pc'[t] = "down" /\ allowance'[t] = {} /\ at' = at /\ goal' = goal
    BY <1>1, <1>5 DEF schedule_shortcut, TypeOK, Alone
  <2>2. TaskAt(t)' /\ AcquiredAt(t)' /\ \A x \in Elems : ~Bears(t, x) /\ ~Bears(t, x)'
    BY <1>1, <2>1 DEF TaskAt, AcquiredAt, Bears
  <2>3. QED
    BY <2>1, <2>2, QuietStep DEF Quiet
<1>6. CASE schedule_turn(t)
  <2>1. Alone(t) /\ UNCHANGED <<full, left, right, calls, locs>> /\ pc[t] = "schedule" /\ req' = req
        /\ pc'[t] = "down" /\ allowance'[t] = MissingRegions(at[t], t) /\ at' = at /\ goal' = goal
    BY <1>1, <1>6 DEF schedule_turn, TypeOK, Alone
  <2>2. at[t] = Root
    BY <1>6, TurnsAtRoot DEF schedule_turn
  <2>3. goal[t].own \in Below[Root]
    BY <1>1, PathFacts DEF TypeOK
  <2>4. TaskAt(t)' /\ AcquiredAt(t)' /\ \A x \in Elems : ~Bears(t, x) /\ ~Bears(t, x)'
    BY <1>1, <1>3, <2>1, <2>2, <2>3 DEF TaskAt, AcquiredAt, Bears, Writes, Region
  <2>5. QED
    BY <2>1, <2>4, QuietStep DEF Quiet
<1>7. CASE schedule_up(t)
  <2>1. Alone(t) /\ UNCHANGED <<full, left, right, calls, locs>> /\ pc[t] = "schedule" /\ req' = req
        /\ pc' = pc /\ allowance' = allowance /\ goal' = goal
    BY <1>1, <1>7 DEF schedule_up, TypeOK, Alone
  <2>2. TaskAt(t)' /\ AcquiredAt(t)' /\ \A x \in Elems : ~Bears(t, x) /\ ~Bears(t, x)'
    BY <1>1, <2>1 DEF TaskAt, AcquiredAt, Bears, Writes, Region
  <2>3. QED
    BY <2>1, <2>2, QuietStep DEF Quiet
<1>8. CASE schedule_down_reject(t)
  <2>1. Alone(t) /\ UNCHANGED <<full, left, right, calls, locs>> /\ pc[t] = "down" /\ req' = req
        /\ pc'[t] = "schedule" /\ allowance'[t] = {} /\ goal' = goal
    BY <1>1, <1>8 DEF schedule_down_reject, TypeOK, Alone
  <2>2. allowance[t] = {}
    BY <1>1, <1>8 DEF TaskAt, schedule_down_reject, Involved
  <2>3. TaskAt(t)' /\ AcquiredAt(t)' /\ \A x \in Elems : ~Bears(t, x) /\ ~Bears(t, x)'
    BY <1>1, <2>1, <2>2 DEF TaskAt, AcquiredAt, Bears, Writes, Region
  <2>4. QED
    BY <2>1, <2>3, QuietStep DEF Quiet
<1>9. CASE schedule_down_stay(t)
  <2>1. Alone(t) /\ UNCHANGED <<full, left, right, calls, locs>> /\ pc[t] = "down" /\ req' = req
        /\ pc'[t] = "local" /\ allowance' = allowance /\ goal' = goal /\ at' = at
    BY <1>1, <1>9 DEF schedule_down_stay, TypeOK, Alone
  <2>2. req[t].split => at[t] \in Leaves \cup {Root}
    BY <1>1, <1>2, <1>9, <2>1 DEF schedule_down_stay, Stays, TaskAt, Orderly
  <2>3. TaskAt(t)' /\ AcquiredAt(t)'
    BY <1>1, <2>1, <2>2 DEF TaskAt, AcquiredAt, Writes, Region
  <2>4. \A x \in Elems : Bears(t, x)' <=> Bears(t, x)
    BY <2>1 DEF Bears
  <2>5. QED
    BY <2>1, <2>3, <2>4, QuietStep DEF Quiet
<1>10. QED
  BY <1>4, <1>5, <1>6, <1>7, <1>8, <1>9

(***************************************************************************)
(* The steps that pass an allowance down or use it.                        *)
(***************************************************************************)
LEMMA DescendRecords ==
  ASSUME Orderly, OwnershipInv, NEW t \in Tasks, NEW k, Descends(t, k), locs' = locs,
         pc[t] = "down" => goal[t].own \in Below[k], pc[t] = "local" => ~req[t].split
  PROVE  RecordsInv'
<1>1. /\ k \in Addr \ {Root} /\ pc[t] \in {"down", "local"}
      /\ at' = [at EXCEPT ![t] = k]
      /\ UNCHANGED <<pc, req, goal, missing, calls>>
      /\ \A b \in Addr \ {Parent[k]} : full'[b] = full[b] /\ left'[b] = left[b] /\ right'[b] = right[b]
      /\ Writes(t) => allowance' = [allowance EXCEPT ![t] = Given(t, k)]
      /\ ~Writes(t) => allowance' = allowance
  BY DEF Descends
<1>2. TypeOK /\ TaskAt(t) /\ LeavesPlain
  BY InvAt DEF OwnershipInv, TypeInv
<1>3. allowance' = allowance \/ allowance' = [allowance EXCEPT ![t] = Given(t, k)]
  BY <1>1
<1>4. Alone(t) /\ at'[t] = k
  BY <1>1, <1>2, <1>3 DEF Alone, TypeOK
<1>5. allowance'[t] # {} => Writes(t) /\ allowance'[t] \subseteq Region(t)
  <2>1. Given(t, k) \subseteq Region(t)
    BY DEF Given, Handed
  <2>2. CASE Writes(t)
    BY <1>1, <1>2, <2>1, <2>2 DEF TypeOK
  <2>3. CASE ~Writes(t)
    BY <1>1, <1>2, <2>3 DEF TaskAt
  <2>4. QED
    BY <2>2, <2>3
<1>6. Writes(t)' = Writes(t) /\ Region(t)' = Region(t)
  BY <1>1 DEF Writes, Region
<1>7. TaskAt(t)'
  BY <1>1, <1>2, <1>4, <1>5, <1>6 DEF TaskAt
<1>8. AcquiredAt(t)'
  BY <1>1 DEF AcquiredAt
<1>9. \A a \in Leaves : a \in Addr \ {Parent[k]}
  BY <1>1, PathFacts, TreeFacts DEF Leaves
<1>10. TaskInv' /\ AcquiredInv'
  BY <1>1, <1>4, <1>7, <1>8, <1>9, OneMoves
<1>11. \A c \in calls : c.task # t
  BY <1>1 DEF OwnershipInv, CallInv
<1>12. CallInv' /\ LocateInv'
  BY <1>1, <1>4, <1>11, CallsStay, LocatesStay
<1>13. LeavesPlain'
  BY <1>1, <1>2, <1>9 DEF LeavesPlain
<1>14. \A x \in Elems : ElementInv(x)'
  BY DescendElement
<1>15. QED
  BY <1>10, <1>12, <1>13, <1>14 DEF RecordsInv

LEMMA DescendStep ==
  ASSUME Orderly, OwnershipInv, NEW t \in Tasks,
         schedule_down_left(t) \/ schedule_down_right(t) \/ schedule_local_descend(t)
  PROVE  RecordsInv'
<1>1. PICK a \in Addr : a = at[t]
  BY DEF OwnershipInv, TypeInv, TypeOK
<1>2. a \in Inner
  BY <1>1, TreeFacts DEF schedule_down_left, schedule_down_right, schedule_local_descend, Stays
<1>3. PICK k, j : k = LeftChild[a] /\ j = RightChild[a]
  OBVIOUS
<1>4. /\ pc[t] \in {"down", "local"} /\ UNCHANGED <<pc, req, goal, missing, calls, locs>>
      /\ pc[t] = "local" => ~req[t].split
  BY DEF schedule_down_left, schedule_down_right, schedule_local_descend, index
<1>5. CASE schedule_down_left(t) \/ schedule_local_descend(t)
  <2>1. Descends(t, k)
    BY <1>1, <1>2, <1>3, <1>4, <1>5, AllowanceDown DEF schedule_down_left, schedule_local_descend
  <2>2. pc[t] = "down" => goal[t].own \in Below[k]
    BY <1>1, <1>3, <1>5 DEF schedule_down_left, schedule_local_descend, TargetLeft
  <2>3. QED
    BY <1>4, <2>1, <2>2, DescendRecords
<1>6. CASE schedule_down_right(t)
  <2>1. Descends(t, j)
    BY <1>1, <1>2, <1>3, <1>4, <1>6, AllowanceDown DEF schedule_down_right
  <2>2. goal[t].own \in Below[a] /\ goal[t].own # a /\ goal[t].own \notin Below[k]
    BY <1>1, <1>3, <1>6 DEF schedule_down_right, TargetLeft, Stays, Involved
  <2>3. goal[t].own \in Below[j]
    BY <1>2, <1>3, <2>2, HierarchyAssumption
  <2>4. QED
    BY <1>4, <2>1, <2>3, DescendRecords
<1>7. QED
  BY <1>5, <1>6

LEMMA SettleRecords ==
  ASSUME Orderly, OwnershipInv, NEW t \in Tasks, NEW a \in Addr, Settles(t, a), Alone(t),
         locs' = locs, TaskAt(t)', AcquiredAt(t)', req'[t] = req[t] \/ Region(t)' = {}
  PROVE  RecordsInv'
<1>1. /\ pc[t] = "local" /\ UNCHANGED <<left, right, calls>>
      /\ full' = IF Writes(t) THEN [full EXCEPT ![a] = @ \cup allowance[t]] ELSE full
  BY DEF Settles
<1>2. TypeOK /\ LeavesPlain
  BY DEF OwnershipInv, TypeInv
<1>3. \A b \in Addr : full[b] \subseteq full'[b]
  BY <1>1, <1>2 DEF TypeOK
<1>4. TaskInv' /\ AcquiredInv'
  BY <1>3, TreeFacts, OneMoves DEF Leaves
<1>5. \A c \in calls : c.task # t
  BY <1>1 DEF OwnershipInv, CallInv
<1>6. CallInv' /\ LocateInv'
  BY <1>1, <1>5, CallsStay, LocatesStay
<1>7. LeavesPlain'
  BY <1>1, <1>2 DEF LeavesPlain
<1>8. \A x \in Elems : ElementInv(x)'
  BY SettleElement
<1>9. QED
  BY <1>4, <1>6, <1>7, <1>8 DEF RecordsInv

LEMMA SettleStep ==
  ASSUME Orderly, OwnershipInv, NEW t \in Tasks, schedule_local_split(t) \/ schedule_local_leaf(t)
  PROVE  RecordsInv'
<1>1. TypeOK /\ TaskAt(t)
  BY InvAt DEF OwnershipInv, TypeInv
<1>2. PICK a \in Addr : a = at[t]
  BY <1>1 DEF TypeOK
<1>3. /\ pc[t] = "local" /\ UNCHANGED <<left, right, calls, locs>>
      /\ full' = IF Writes(t) THEN [full EXCEPT ![a] = @ \cup allowance[t]] ELSE full
  BY <1>2 DEF schedule_local_split, schedule_local_leaf, add_allowance, index
<1>4. CASE schedule_local_split(t)
  <2>1. Alone(t) /\ pc'[t] = "done" /\ req'[t] = NoRequirement /\ allowance'[t] = {}
    BY <1>1, <1>4 DEF schedule_local_split, Forget, TypeOK, Alone
  <2>2. Region(t)' = {} /\ ~Writes(t)'
    BY <2>1 DEF Region, Writes, NoRequirement
  <2>3. TaskAt(t)' /\ AcquiredAt(t)'
    BY <2>1, <2>2 DEF TaskAt, AcquiredAt
  <2>4. Writes(t) => a \in Leaves \cup {Root}
    BY <1>1, <1>2, <1>3, <1>4 DEF TaskAt, schedule_local_split
  <2>5. Settles(t, a)
    BY <1>2, <1>3, <2>1, <2>4 DEF Settles, Alone
  <2>6. QED
    BY <1>3, <2>1, <2>2, <2>3, <2>5, SettleRecords
<1>5. CASE schedule_local_leaf(t)
  <2>1. Alone(t) /\ pc'[t] = "acquire" /\ UNCHANGED <<req, at, allowance>>
    BY <1>1, <1>5 DEF schedule_local_leaf, index, TypeOK, Alone
  <2>2. Region(t)' = Region(t) /\ Writes(t)' = Writes(t) /\ at[t] \in Leaves
    BY <1>5, <2>1 DEF Region, Writes, schedule_local_leaf
  <2>3. TaskAt(t)' /\ AcquiredAt(t)'
    BY <1>1, <2>1, <2>2 DEF TaskAt, AcquiredAt
  <2>4. Settles(t, a)
    BY <1>2, <1>3, <2>1, <2>2 DEF Settles, Alone
  <2>5. QED
    BY <1>3, <2>1, <2>3, <2>4, SettleRecords
<1>6. QED
  BY <1>4, <1>5

(***************************************************************************)
(* The steps of acquire and of the process variant.                        *)
(***************************************************************************)
LEMMA AcquireStep ==
  ASSUME OwnershipInv, NEW t \in Tasks, acquire_owned(t) \/ acquire_missing(t)
  PROVE  RecordsInv'
<1>1. TypeOK /\ TaskAt(t)
  BY InvAt DEF OwnershipInv, TypeInv
<1>2. Alone(t) /\ UNCHANGED <<full, left, right, calls, locs, at, req, allowance>>
  BY <1>1 DEF acquire_owned, acquire_missing, entry, taskVars, index, TypeOK, Alone
<1>3. pc[t] = "acquire" /\ pc'[t] \in {"transfer", "own"} /\ Writes(t)
  BY <1>1 DEF acquire_owned, acquire_missing, TypeOK
<1>4. Region(t)' = Region(t) /\ Writes(t)' = Writes(t)
  BY <1>2 DEF Region, Writes
<1>5. TaskAt(t)'
  BY <1>1, <1>2, <1>3, <1>4 DEF TaskAt
<1>6. AcquiredAt(t)'
  <2>1. CASE acquire_owned(t)
    BY <1>1, <1>2, <1>3, <1>4, <2>1 DEF AcquiredAt, acquire_owned, TypeOK
  <2>2. CASE acquire_missing(t)
    <3>1. missing'[t] = Region(t) \ full[at[t]] /\ pc'[t] = "own"
      BY <1>1, <2>2 DEF acquire_missing, TypeOK
    <3>2. QED
      BY <1>2, <1>3, <1>4, <3>1 DEF AcquiredAt
  <2>3. QED
    BY <2>1, <2>2
<1>7. \A x \in Elems : ~Bears(t, x) /\ ~Bears(t, x)'
  BY <1>3 DEF Bears
<1>8. QED
  BY <1>2, <1>3, <1>5, <1>6, <1>7, QuietStep DEF Quiet

\* A step of one task that has no call in flight.
Free(t) ==
  /\ Alone(t) /\ UNCHANGED <<full, left, right, calls>>
  /\ pc[t] \notin {"down", "local"} /\ pc'[t] \notin {"down", "local"}
  /\ \A c \in calls : c.task # t
  /\ req'[t] = req[t] \/ Region(t)' = {}
  /\ TaskAt(t)' /\ AcquiredAt(t)' /\ LocateInv'

LEMMA FreeStep ==
  ASSUME OwnershipInv, NEW t \in Tasks, Free(t)
  PROVE  RecordsInv'
<1>1. /\ Alone(t) /\ UNCHANGED <<full, left, right, calls>>
      /\ \A c \in calls : c.task # t
      /\ req'[t] = req[t] \/ Region(t)' = {}
      /\ TaskAt(t)' /\ AcquiredAt(t)' /\ LocateInv'
      /\ \A x \in Elems : ~Bears(t, x) /\ ~Bears(t, x)'
  BY DEF Free, Bears
<1>2. TaskInv' /\ AcquiredInv'
  BY <1>1, OneMoves
<1>3. CallInv'
  BY <1>1, CallsStay
<1>4. LeavesPlain' /\ \A x \in Elems : ElementInv(x)'
  BY <1>1, RecordsStay
<1>5. QED
  BY <1>1, <1>2, <1>3, <1>4 DEF RecordsInv

LEMMA ReadStep ==
  ASSUME OwnershipInv, NEW t \in Tasks, acquire_read(t)
  PROVE  RecordsInv'
<1>1. TypeOK /\ TaskAt(t) /\ LocateInv
  BY InvAt DEF OwnershipInv, TypeInv
<1>2. /\ Alone(t) /\ UNCHANGED <<full, left, right, calls, at, req, allowance>>
      /\ pc[t] = "acquire" /\ pc'[t] = "locate" /\ ~Writes(t)
      /\ locs' = locs \cup {Activation(t, <<at[t]>>, Region(t))}
  BY <1>1 DEF acquire_read, entry, taskVars, TypeOK, Alone
<1>3. Region(t)' = Region(t) /\ \A u : Writes(u)' = Writes(u)
  BY <1>2 DEF Region, Writes
<1>4. TaskAt(t)' /\ AcquiredAt(t)'
  BY <1>1, <1>2, <1>3 DEF TaskAt, AcquiredAt
<1>5. \A c \in calls : c.task # t
  BY <1>2 DEF OwnershipInv, CallInv
<1>6. LocateInv'
  <2>1. ASSUME NEW f \in locs'
        PROVE  pc'[f.task] \in {"locate", "transfer", "running", "done"} /\ ~Writes(f.task)
    <3>1. CASE f.task = t
      BY <1>2, <3>1
    <3>2. CASE f.task # t
      <4>1. f \in locs
        BY <1>2, <3>2 DEF Activation
      <4>2. f.task \in Tasks
        BY <1>1, <4>1 DEF TypeOK, Locate
      <4>3. QED
        BY <1>1, <1>2, <3>2, <4>1, <4>2 DEF LocateInv, Alone
    <3>3. QED
      BY <3>1, <3>2
  <2>2. QED
    BY <1>3, <2>1 DEF LocateInv
<1>7. QED
  BY <1>2, <1>4, <1>5, <1>6, FreeStep DEF Free

LEMMA LateStep ==
  ASSUME OwnershipInv, NEW t \in Tasks, acquire_fetch(t) \/ process(t) \/ finalize(t)
  PROVE  RecordsInv'
<1>1. TypeOK /\ TaskAt(t) /\ AcquiredAt(t)
  BY InvAt DEF OwnershipInv, TypeInv
<1>2. /\ Alone(t) /\ UNCHANGED <<full, left, right, calls, locs>>
      /\ \/ pc[t] = "collect" /\ pc'[t] = "transfer"
         \/ pc[t] = "transfer" /\ pc'[t] = "running"
         \/ pc[t] = "running" /\ pc'[t] = "done"
      /\ \/ UNCHANGED <<at, req, allowance, missing>> /\ pc'[t] # "done"
         \/ pc'[t] = "done" /\ req'[t] = NoRequirement /\ allowance'[t] = {}
  BY <1>1 DEF acquire_fetch, process, finalize, Forget, entry, taskVars, index, TypeOK, Alone
<1>3. \A c \in calls : c.task # t
  <2>1. CASE acquire_fetch(t)
    BY <2>1 DEF acquire_fetch
  <2>2. CASE process(t) \/ finalize(t)
    BY <2>2 DEF process, finalize, OwnershipInv, CallInv
  <2>3. QED
    BY <2>1, <2>2
<1>4. /\ req'[t] = NoRequirement => Region(t)' = {} /\ ~Writes(t)'
      /\ req' = req => Region(t)' = Region(t) /\ Writes(t)' = Writes(t)
  BY DEF Region, Writes, NoRequirement
<1>5. TaskAt(t)' /\ AcquiredAt(t)'
  <2>1. CASE UNCHANGED <<at, req, allowance, missing>> /\ pc'[t] # "done"
    BY <1>1, <1>2, <1>4, <2>1 DEF TaskAt, AcquiredAt
  <2>2. CASE pc'[t] = "done" /\ req'[t] = NoRequirement /\ allowance'[t] = {}
    BY <1>4, <2>2 DEF TaskAt, AcquiredAt
  <2>3. QED
    BY <1>2, <2>1, <2>2
<1>6. req'[t] = req[t] \/ Region(t)' = {}
  BY <1>2, <1>4
<1>7. LocateInv'
  BY <1>2, <1>4, LocatesStay
<1>8. QED
  BY <1>2, <1>3, <1>5, <1>6, <1>7, FreeStep DEF Free

LEMMA OwnStep ==
  ASSUME Orderly, OwnershipInv, NEW t \in Tasks, acquire_ownership(t)
  PROVE  RecordsInv'
<1>1. TypeOK /\ TaskAt(t) /\ AcquiredAt(t) /\ LeavesPlain /\ CallInv
  BY InvAt DEF OwnershipInv, TypeInv
<1>2. PICK a \in Addr : a = at[t]
  BY <1>1 DEF TypeOK
<1>3. /\ Alone(t) /\ UNCHANGED <<left, right, at, req, allowance, missing, locs>>
      /\ pc[t] = "own" /\ pc'[t] = "collect"
      /\ full' = [full EXCEPT ![a] = @ \cup missing[t]]
      /\ calls' = (IF a = Root THEN calls ELSE calls \cup {AcquireFor(t, Parent[a], a, missing[t])})
  BY <1>1, <1>2 DEF acquire_ownership, taskVars, TypeOK, Alone
<1>4. \A u : Region(u)' = Region(u) /\ Writes(u)' = Writes(u)
  BY <1>3 DEF Region, Writes
<1>5. /\ \A b \in Addr : full[b] \subseteq full'[b]
      /\ full'[a] = full[a] \cup missing[t]
  BY <1>1, <1>3 DEF TypeOK
<1>6. TaskAt(t)' /\ AcquiredAt(t)'
  BY <1>1, <1>2, <1>3, <1>4, <1>5 DEF TaskAt, AcquiredAt
<1>7. TaskInv' /\ AcquiredInv'
  BY <1>3, <1>5, <1>6, TreeFacts, OneMoves DEF Leaves
<1>8. CallInv'
  <2>1. ASSUME NEW c \in calls, c \in calls'
        PROVE  /\ pc'[c.task] = "collect" /\ c.region \subseteq Region(c.task) /\ c.child # Root
               /\ c.op = "acquire" => c.at = Parent[c.child] /\ at[c.task] \in Below[c.child]
               /\ c.op = "collect" => c.at = c.child /\ at[c.task] \notin Below[c.child]
    <3>1. c.task \in Tasks
      BY CallFacts DEF OwnershipInv, TypeInv
    <3>2. QED
      BY <1>1, <1>3, <3>1 DEF CallInv, Alone
  <2>2. ASSUME NEW c, c = AcquireFor(t, Parent[a], a, missing[t]), a # Root
        PROVE  /\ pc'[c.task] = "collect" /\ c.region \subseteq Region(c.task) /\ c.child # Root
               /\ c.op = "acquire" => c.at = Parent[c.child] /\ at[c.task] \in Below[c.child]
               /\ c.op = "collect" => c.at = c.child /\ at[c.task] \notin Below[c.child]
    <3>1. c.task = t /\ c.at = Parent[a] /\ c.child = a /\ c.region = missing[t] /\ c.op = "acquire"
      BY <2>2 DEF AcquireFor
    <3>2. a \in Below[a]
      BY PathFacts
    <3>3. QED
      BY <1>1, <1>2, <1>3, <2>2, <3>1, <3>2 DEF AcquiredAt
  <2>3. QED
    BY <1>3, <1>4, <2>1, <2>2 DEF CallInv
<1>9. LocateInv'
  BY <1>3, LocatesStay
<1>10. LeavesPlain'
  BY <1>1, <1>3 DEF LeavesPlain
<1>11. \A x \in Elems : ElementInv(x)'
  BY OwnElement
<1>12. QED
  BY <1>7, <1>8, <1>9, <1>10, <1>11 DEF RecordsInv

(***************************************************************************)
(* A task is spawned when no task it conflicts with is active: its region  *)
(* is apart from what a writer asks for, or it writes and nobody asks for  *)
(* its region.                                                             *)
(***************************************************************************)
LEMMA SpawnStep ==
  ASSUME Orderly, OwnershipInv, NEW t \in Tasks, NEW q \in Requirements, NEW r \in Ranks,
         NEW g \in Addr, NEW p, spawn(t, q, r, g, p)
  PROVE  RecordsInv'
<1>1. TypeOK /\ TaskInv /\ TaskAt(t)
  BY InvAt DEF OwnershipInv, TypeInv
<1>2. /\ Alone(t) /\ UNCHANGED <<full, left, right, calls, locs, allowance>>
      /\ pc[t] = "new" /\ pc'[t] = "schedule" /\ req'[t] = q
      /\ goal'[t] = [own |-> g, parent |-> p] /\ g \in Targets[t][q]
  BY <1>1 DEF spawn, entry, TypeOK, Alone
<1>3. \A u \in Active : ~Conflict(q, req[u])
  BY DEF spawn, Orderly
<1>4. req[t] = NoRequirement /\ allowance[t] = {}
  BY <1>1, <1>2 DEF TaskAt, Writes, NoRequirement
<1>5. TaskAt(t)' /\ AcquiredAt(t)'
  BY <1>2, <1>4 DEF TaskAt, AcquiredAt
<1>6. Region(t)' = q.region /\ (Writes(t)' <=> q.mode = "ReadWrite")
  BY <1>2 DEF Region, Writes
<1>7. ASSUME NEW u \in Tasks \ {t}, Writes(t)' \/ Writes(u)
      PROVE  Region(u) \cap Region(t)' = {}
  <2>1. CASE u \in Active
    BY <1>3, <1>6, <1>7, <2>1 DEF Conflict, Region, Writes
  <2>2. CASE u \notin Active
    BY <1>1, <2>2 DEF Active, TaskInv, Region, NoRequirement
  <2>3. QED
    BY <2>1, <2>2
<1>8. TaskInv' /\ AcquiredInv'
  BY <1>2, <1>5, <1>7, OneMoves
<1>9. \A c \in calls : c.task # t
  BY <1>2 DEF OwnershipInv, CallInv
<1>10. CallInv' /\ LocateInv'
  BY <1>2, <1>9, CallsStay, LocatesStay
<1>11. \A x \in Elems : ~Bears(t, x) /\ ~Bears(t, x)'
  BY <1>2 DEF Bears
<1>12. LeavesPlain' /\ \A x \in Elems : ElementInv(x)'
  BY <1>2, <1>11, RecordsStay
<1>13. QED
  BY <1>8, <1>10, <1>12 DEF RecordsInv

(***************************************************************************)
(* The steps of calls.                                                     *)
(***************************************************************************)
LEMMA IndexCallStep ==
  ASSUME Orderly, OwnershipInv, NEW c \in calls,
         acquire_ownership_for(c) \/ collect_child_ownerships(c) \/ collect_leaf_ownership(c)
  PROVE  RecordsInv'
<1>1. LocateInv /\ UNCHANGED <<pc, req, locs>>
  BY DEF OwnershipInv, acquire_ownership_for, collect_child_ownerships, collect_leaf_ownership,
         taskVars
<1>2. LocateInv'
  BY <1>1 DEF LocateInv, Writes
<1>3. CASE acquire_ownership_for(c)
  BY <1>2, <1>3, AcquireForStep, AcquireForElement DEF RecordsInv
<1>4. CASE collect_child_ownerships(c)
  BY <1>2, <1>4, CollectStep, CollectElement DEF RecordsInv
<1>5. CASE collect_leaf_ownership(c)
  BY <1>2, <1>5, LeafStep, LeafElement DEF RecordsInv
<1>6. QED
  BY <1>3, <1>4, <1>5

\* Data and caches move, the records stay.
LEMMA PlainStep ==
  ASSUME OwnershipInv, LocateInv',
         UNCHANGED <<full, left, right, calls, pc, at, req, goal, allowance, missing>>
  PROVE  RecordsInv'
<1>1. TypeOK /\ LeavesPlain /\ TaskInv /\ AcquiredInv /\ CallInv /\ \A x \in Elems : ElementInv(x)
  BY DEF OwnershipInv, TypeInv
<1>2. \A u : Region(u)' = Region(u) /\ Writes(u)' = Writes(u)
  BY DEF Region, Writes
<1>3. LeavesPlain' /\ TaskInv' /\ AcquiredInv' /\ CallInv'
  BY <1>1, <1>2 DEF LeavesPlain, TaskInv, AcquiredInv, CallInv
<1>4. ASSUME NEW x \in Elems PROVE ElementInv(x)'
  <2>1. \A u \in Tasks : (Bears(u, x)' <=> Bears(u, x)) /\ at'[u] = at[u]
    BY DEF Bears
  <2>2. QED
    BY <1>1, <2>1, Frame
<1>5. QED
  BY <1>3, <1>4 DEF RecordsInv

\* What no data transfer or broadcast touches.
records == <<full, left, right, calls, pc, at, req, goal, allowance, missing, locs>>

LEMMA DataCallStep ==
  ASSUME OwnershipInv, UNCHANGED records
  PROVE  RecordsInv'
<1>1. UNCHANGED <<full, left, right, calls, pc, at, req, goal, allowance, missing, locs>>
  BY DEF records
<1>2. LocateInv'
  BY <1>1 DEF OwnershipInv, LocateInv, Writes
<1>3. QED
  BY <1>1, <1>2, PlainStep

Locates(f) == locate_return(f) \/ \E hit \in [Elems -> Ranks] : locate(f, hit)

LEMMA LocateStep ==
  ASSUME OwnershipInv, NEW f \in locs, Locates(f)
  PROVE  RecordsInv'
<1>0. (\E hit \in [Elems -> Ranks] : locate(f, hit)) \/ locate_return(f)
  BY DEF Locates
<1>1. TypeOK /\ LocateInv /\ f.task \in Tasks
  BY DEF OwnershipInv, TypeInv, TypeOK, Locate
<1>2. UNCHANGED <<full, left, right, calls, at, req, goal, allowance, missing>>
  BY <1>0 DEF locate, locate_return, entry, taskVars
<1>3. \A u : Writes(u)' = Writes(u)
  BY <1>2 DEF Writes
<1>4. ASSUME NEW g \in locs' PROVE \E h \in locs : g.task = h.task
  <2>1. f \in Locate /\ \A h \in locs : h \in Locate
    BY <1>1 DEF TypeOK
  <2>2. CASE \E hit \in [Elems -> Ranks] : locate(f, hit)
    <3>1. PICK here, called :
            /\ locs' = (locs \ {f}) \cup {[f EXCEPT !.called = TRUE, !.local = here]} \cup called
            /\ \A h \in called : h.task = f.task
      <4>1. PICK hit \in [Elems -> Ranks] : locate(f, hit)
        BY <2>2
      <4> DEFINE a    == Node(f)
                 own  == IF a \in Leaves THEN f.region \cap full[a] ELSE {}
                 rest == (f.region \ own) \ Cached(a)
                 rp   == rest \cap right[a]
                 lp   == (rest \ rp) \cap left[a]
                 up   == IF a = Root THEN {} ELSE rest \ (rp \cup lp)
                 here == [r \in Ranks |-> {x \in (f.region \ own) \cap cache[a][r] : hit[x] = r}
                                           \cup (IF r = Rank[a] THEN own ELSE {})]
                 Call(b, m) == IF m = {} THEN {} ELSE {Activation(f.task, Append(f.path, b), m)}
                 called == (IF a \in Inner THEN Call(RightChild[a], rp) \cup Call(LeftChild[a], lp)
                                           ELSE {})
                           \cup (IF a = Root THEN {} ELSE Call(Parent[a], up))
      <4>2. locs' = (locs \ {f}) \cup {[f EXCEPT !.called = TRUE, !.local = here]}
               \cup (IF a \in Inner THEN Call(RightChild[a], rp) \cup Call(LeftChild[a], lp) ELSE {})
               \cup (IF a = Root THEN {} ELSE Call(Parent[a], up))
        BY <4>1 DEF locate
      <4> HIDE DEF a, own, rest, rp, lp, up, here
      <4>3. \A b, m : \A h \in Call(b, m) : h.task = f.task
        BY DEF Activation
      <4> HIDE DEF Call
      <4>4. \A h \in called : h.task = f.task
        BY <4>3
      <4>5. locs' = (locs \ {f}) \cup {[f EXCEPT !.called = TRUE, !.local = here]} \cup called
        BY <4>2
      <4> HIDE DEF called
      <4>6. QED
        BY <4>4, <4>5
    <3>2. [f EXCEPT !.called = TRUE, !.local = here].task = f.task
      BY <2>1 DEF Locate
    <3>3. QED
      BY <1>4, <3>1, <3>2
  <2>3. CASE locate_return(f)
    <3> DEFINE answer == AddParts(f.local, f.remote)
               caller == {h \in locs : IsCaller(h, f)}
    <3>1. /\ locs' = (locs \ ({f} \cup caller)) \cup {[h EXCEPT !.remote = AddParts(@, answer)] : h \in caller}
          /\ caller \subseteq locs
      BY <2>3 DEF locate_return
    <3> HIDE DEF answer, caller
    <3>2. \A h \in Locate : [h EXCEPT !.remote = AddParts(@, answer)].task = h.task
      BY DEF Locate
    <3>3. QED
      BY <1>4, <2>1, <3>1, <3>2
  <2>4. QED
    BY <1>0, <2>2, <2>3
<1>5. pc' = pc \/ pc' = [pc EXCEPT ![f.task] = "transfer"]
  BY <1>0 DEF locate, locate_return
<1>6. LocateInv'
  BY <1>1, <1>3, <1>4, <1>5 DEF LocateInv, TypeOK, Locate
<1>7. CASE pc' = pc
  BY <1>2, <1>6, <1>7, PlainStep
<1>8. CASE pc' = [pc EXCEPT ![f.task] = "transfer"]
  <2>1. Alone(f.task) /\ pc'[f.task] = "transfer"
    BY <1>1, <1>2, <1>8 DEF Alone, TypeOK
  <2>2. pc[f.task] \in {"locate", "transfer", "running", "done"} /\ ~Writes(f.task)
    BY <1>1 DEF LocateInv
  <2>3. \A c \in calls : c.task # f.task
    BY <2>2 DEF OwnershipInv, CallInv
  <2>4. TaskAt(f.task)' /\ AcquiredAt(f.task)'
    <3>1. TaskAt(f.task)
      BY <1>1, InvAt DEF OwnershipInv
    <3>2. QED
      BY <1>2, <1>3, <2>1, <2>2, <3>1 DEF TaskAt, AcquiredAt, Region
  <2>5. QED
    BY <1>1, <1>2, <1>6, <2>1, <2>2, <2>3, <2>4, FreeStep DEF Free
<1>9. QED
  BY <1>5, <1>7, <1>8

(***************************************************************************)
(* The inductive invariant.                                                *)
(***************************************************************************)
LEMMA OwnershipInit == Init => OwnershipInv
<1> SUFFICES ASSUME Init PROVE OwnershipInv
  OBVIOUS
<1>1. TypeInv
  BY InitTypeInv
<1>2. /\ \A a \in Addr : full[a] = {} /\ left[a] = {} /\ right[a] = {}
      /\ \A t \in Tasks : pc[t] \in {"new", "done"} /\ req[t] = NoRequirement /\ allowance[t] = {}
      /\ calls = {} /\ locs = {}
  BY DEF Init
<1>3. \A t \in Tasks : ~Writes(t) /\ Region(t) = {}
  BY <1>2 DEF Writes, Region, NoRequirement
<1>4. /\ \A a \in Addr : Holds(a) = {}
      /\ \A k \in Addr \ {Root} : Side(k) = {}
  BY <1>2, PathFacts DEF Holds, Side
<1>5. LeftRightDisjoint /\ LeavesPlain
  BY <1>2, TreeFacts DEF LeftRightDisjoint, LeavesPlain, Leaves
<1>6. TaskInv /\ AcquiredInv /\ CallInv /\ LocateInv
  BY <1>2, <1>3 DEF TaskInv, AcquiredInv, CallInv, LocateInv
<1>7. ASSUME NEW x \in Elems PROVE ElementInv(x)
  <2>1. Linked(x) /\ Backed(x)
    BY <1>4, PathFacts DEF Linked, Backed
  <2>2. Fresh(x) /\ Called(x) /\ Delegated(x)
    BY <1>2 DEF Fresh, Bears, Called, Delegated, Inner
  <2>3. QED
    BY <2>1, <2>2 DEF ElementInv
<1>8. QED
  BY <1>1, <1>5, <1>6, <1>7 DEF OwnershipInv

LEMMA OwnershipNext ==
  ASSUME Orderly, OwnershipInv, [Next]_vars
  PROVE  OwnershipInv'
<1>1. TypeInv' /\ LeftRightDisjoint'
  BY NextType, DisjointStep DEF OwnershipInv
<1>2. ASSUME NEW t \in Tasks, TaskStep(t) PROVE RecordsInv'
  <2>1. CASE \/ schedule_here(t) \/ schedule_shortcut(t) \/ schedule_turn(t) \/ schedule_up(t)
             \/ schedule_down_reject(t) \/ schedule_down_stay(t)
    BY <1>1, <2>1, ScheduleStep
  <2>2. CASE schedule_down_left(t) \/ schedule_down_right(t) \/ schedule_local_descend(t)
    BY <2>2, DescendStep
  <2>3. CASE schedule_local_split(t) \/ schedule_local_leaf(t)
    BY <2>3, SettleStep
  <2>4. CASE acquire_owned(t) \/ acquire_missing(t)
    BY <2>4, AcquireStep
  <2>5. CASE acquire_ownership(t)
    BY <2>5, OwnStep
  <2>6. CASE acquire_fetch(t) \/ process(t) \/ finalize(t)
    BY <2>6, LateStep
  <2>7. CASE acquire_read(t)
    BY <2>7, ReadStep
  <2>8. QED
    BY <1>2, <2>1, <2>2, <2>3, <2>4, <2>5, <2>6, <2>7 DEF TaskStep
<1>3. ASSUME CallStep PROVE RecordsInv'
  <2>1. ASSUME NEW c \in casts, update_cache(c)
        PROVE  RecordsInv'
    <3>1. UNCHANGED records
      BY <2>1 DEF update_cache, records, entry, taskVars
    <3>2. QED
      BY <3>1, DataCallStep
  <2>2. ASSUME NEW c \in calls,
               \/ acquire_ownership_for(c) \/ collect_child_ownerships(c) \/ collect_leaf_ownership(c)
        PROVE  RecordsInv'
    BY <2>2, IndexCallStep
  <2>3. ASSUME NEW m \in transfers, data_item_view_save(m) \/ data_item_view_load(m)
        PROVE  RecordsInv'
    <3>1. UNCHANGED records
      BY <2>3 DEF data_item_view_save, data_item_view_load, records, entry, taskVars
    <3>2. QED
      BY <3>1, DataCallStep
  <2>4. ASSUME NEW f \in locs, Locates(f)
        PROVE  RecordsInv'
    BY <2>4, LocateStep
  <2>5. QED
    BY <1>3, <2>1, <2>2, <2>3, <2>4 DEF CallStep, Locates
<1>4. ASSUME NEW t \in Tasks, NEW q \in Requirements, NEW r \in Ranks, NEW g \in Addr,
             NEW p \in ParentGoals(g), spawn(t, q, r, g, p)
      PROVE  RecordsInv'
  BY <1>4, SpawnStep
<1>5. ASSUME UNCHANGED vars
      PROVE  RecordsInv'
  <2>1. UNCHANGED records
    BY <1>5 DEF vars, records
  <2>2. QED
    BY <2>1, DataCallStep
<1>6. RecordsInv'
  <2>1. CASE Next
    BY <1>2, <1>3, <1>4, <1>5, <2>1 DEF Next, Terminated
  <2>2. CASE UNCHANGED vars
    BY <1>5, <2>2
  <2>3. QED
    BY <2>1, <2>2
<1>7. QED
  BY <1>1, <1>6 DEF OwnershipInv, RecordsInv

LEMMA OwnershipHolds == Orderly => (Spec => []OwnershipInv)
<1> SUFFICES ASSUME Orderly PROVE Spec => []OwnershipInv
  OBVIOUS
<1>1. Init => OwnershipInv
  BY OwnershipInit
<1>2. OwnershipInv /\ [Next]_vars => OwnershipInv'
  BY OwnershipNext
<1>3. QED
  BY <1>1, <1>2, PTL DEF Spec

(***************************************************************************)
(* What follows from it.                                                   *)
(***************************************************************************)
LEMMA LinkedInv == OwnershipInv => OwnershipLinked
<1> SUFFICES ASSUME OwnershipInv, NEW a \in Addr \ {Root}, NEW x \in Holds(a), x \notin Side(a)
             PROVE  \E c \in calls : x \in c.region /\ c.child = a
  BY DEF OwnershipLinked
<1>1. x \in Elems
  BY DEF OwnershipInv, TypeInv, TypeOK, Holds
<1>2. a \in Below[a]
  BY PathFacts
<1>3. PICK c \in calls : x \in c.region /\ a \in Below[c.child] /\ Parent[a] \notin Below[c.child]
  BY <1>1, <1>2 DEF OwnershipInv, ElementInv, Linked
<1>4. c.child \in Addr
  BY CallFacts DEF OwnershipInv, TypeInv
<1>5. c.child = a
  BY <1>3, <1>4, HierarchyAssumption
<1>6. QED
  BY <1>3, <1>5

LEMMA CollectsInv == OwnershipInv => CollectsWhatIsHeld
<1> SUFFICES ASSUME OwnershipInv, NEW c \in calls, c.op = "collect", NEW x \in c.region
             PROVE  x \in IF c.at \in Leaves THEN full[c.at] ELSE left[c.at] \cup right[c.at]
  BY DEF CollectsWhatIsHeld
<1>1. x \in Elems
  BY CallFacts DEF OwnershipInv, TypeInv, Regions
<1>2. x \in Kept(c.child) /\ c.at = c.child
  BY <1>1 DEF OwnershipInv, ElementInv, Called, CallInv
<1>3. QED
  BY <1>2 DEF Kept

LEMMA OneOwnerInv == OwnershipInv => OneOwner
<1> SUFFICES ASSUME OwnershipInv, NEW r \in Ranks, NEW s \in Ranks, r # s,
                    NEW x \in full[Leaf[r]] \cap full[Leaf[s]], \A c \in calls : x \notin c.region
             PROVE  FALSE
  BY DEF OneOwner
<1>1. /\ Leaf[r] \in Leaves /\ Leaf[s] \in Leaves /\ Leaf[r] # Leaf[s]
      /\ Leaf[r] \in Addr /\ Leaf[s] \in Addr
  BY TreeFacts
<1>2. x \in Elems /\ x \in Holds(Leaf[r]) /\ x \in Holds(Leaf[s])
  BY <1>1 DEF OwnershipInv, TypeInv, TypeOK, Holds
<1>3. PICK c \in Addr \ {Root}, d \in Addr \ {Root} :
        c # d /\ Parent[c] = Parent[d] /\ Leaf[r] \in Below[c] /\ Leaf[s] \in Below[d]
  BY <1>1, SubtreeAssumption
<1>4. x \in Side(c) /\ x \in Side(d)
  BY <1>2, <1>3 DEF OwnershipInv, ElementInv, Linked
<1>5. Parent[c] \in Addr /\ {c, d} \subseteq {LeftChild[Parent[c]], RightChild[Parent[c]]}
  BY <1>3, HierarchyAssumption, PathFacts
<1>6. x \in left[Parent[c]] \cap right[Parent[c]]
  BY <1>3, <1>4, <1>5 DEF Side
<1>7. QED
  BY <1>5, <1>6 DEF OwnershipInv, LeftRightDisjoint

LEMMA WriterInv == OwnershipInv => WriterOwns
<1> SUFFICES ASSUME OwnershipInv, NEW t \in Tasks, pc[t] = "running", Writes(t),
                    NEW x \in Region(t), NEW r \in Ranks
             PROVE  x \in full[Leaf[r]] <=> r = Here(t)
  BY DEF WriterOwns
<1>1. at[t] \in Leaves /\ x \in full[at[t]]
  BY DEF OwnershipInv, TaskInv, AcquiredInv
<1>2. Here(t) \in Ranks /\ Leaf[Here(t)] = at[t]
  BY <1>1, TreeFacts DEF Here, Leaves
<1>3. ASSUME NEW c \in calls, x \in c.region PROVE FALSE
  <2>1. c.task \in Tasks /\ pc[c.task] = "collect" /\ x \in Region(c.task)
    BY <1>3, CallFacts DEF OwnershipInv, TypeInv, CallInv
  <2>2. QED
    BY <2>1 DEF OwnershipInv, TaskInv
<1>4. QED
  BY <1>1, <1>2, <1>3, OneOwnerInv DEF OneOwner

(***************************************************************************)
(* The theorems.                                                           *)
(***************************************************************************)

\* Whatever a virtual node is in charge of is recorded for it at its parent, or
\* a call of acquire_ownership_for or collect_child_ownerships is under way for
\* it, however the calls of several writers cross in the tree.
THEOREM RecordsLinked == Orderly => (Spec => []OwnershipLinked)
BY OwnershipHolds, LinkedInv, PTL

\* collect_child_ownerships is only asked for what the node or its children
\* have: its assertions never fire.
THEOREM CollectionsServed == Orderly => (Spec => []CollectsWhatIsHeld)
BY OwnershipHolds, CollectsInv, PTL

\* No element has two owning localities but while ownership is being collected.
THEOREM SingleOwner == Orderly => (Spec => []OneOwner)
BY OwnershipHolds, OneOwnerInv, PTL

\* While the process variant of a writer runs, its locality and no other owns
\* its region: acquire had collected it from the whole tree.
THEOREM RunningWriterOwns == Orderly => (Spec => []WriterOwns)
BY OwnershipHolds, WriterInv, PTL

-----------------------------------------------------------------------------
(***************************************************************************)
(* Where the data is, on top of the ownership records.                     *)
(*                                                                         *)
(* The inductive invariant.  A writer that has announced what it misses is *)
(* moving the ownership of it; until its transfers are over, its fragment  *)
(* may hold an old value.                                                  *)
(***************************************************************************)
Moving(t, x)   == pc[t] \in {"own", "collect", "transfer", "running"} /\ Writes(t) /\ x \in missing[t]
Fetching(t, x) == pc[t] \in {"collect", "transfer"} /\ Writes(t) /\ x \in missing[t]

Owner(r, x) == x \in full[Leaf[r]]

\* The stages in which the fragment of its locality covers the region of a task.
Engaged == {"acquire", "own", "collect", "locate", "transfer", "running"}

\* What a task misses and was told belongs to its acquisition; calls and
\* broadcasts are made for what it misses.
StageInv ==
  /\ \A t \in Tasks : pc[t] \notin {"own", "collect", "transfer", "running"} => missing[t] = {}
  /\ \A t \in Tasks : pc[t] \notin {"collect", "transfer", "running"} => info[t] = Nowhere
  /\ \A t \in Tasks : missing[t] \subseteq Region(t)
  /\ \A c \in calls : c.region \subseteq missing[c.task]
  /\ \A c \in casts : /\ pc[c.task] \in {"own", "collect"} /\ Writes(c.task)
                      /\ c.region = missing[c.task] /\ c.to = Here(c.task)

\* A transfer belongs to a task that waits for it; there is one per source.
TransferInv ==
  /\ \A m \in transfers : /\ pc[m.task] = "transfer" /\ m.region \subseteq Region(m.task)
                          /\ m.src # Here(m.task) /\ (m.migrate <=> Writes(m.task))
  /\ \A m, n \in transfers : m.task = n.task /\ m.src = n.src => m = n

\* The activations of locate form one tree of calls per reader.
ActivationInv ==
  /\ \A f \in locs : pc[f.task] = "locate" /\ f.region \subseteq Region(f.task)
  /\ \A f \in locs : \A n \in 1 .. Len(f.path) :
       \E g \in locs : g.task = f.task /\ g.path = SubSeq(f.path, 1, n)
  /\ \A f \in locs : Len(f.path) = 1 => f.region = Region(f.task)
  /\ \A f, g \in locs : f.task = g.task /\ Len(f.path) = 1 /\ Len(g.path) = 1 => f = g

\* An owner has the element, and the last value of it unless it is fetching it;
\* what has been written has an owner.
Stored(x) ==
  /\ \A t \in Tasks : pc[t] \in Engaged /\ x \in Region(t) => frag[Here(t)][x] # Absent
  /\ \A r \in Ranks : Owner(r, x) => frag[r][x] # Absent
  /\ \A r \in Ranks : Owner(r, x) =>
       frag[r][x] = latest[x] \/ \E t \in Tasks : Fetching(t, x) /\ Here(t) = r
  /\ latest[x] = Blank => \A r \in Ranks : frag[r][x] \in {Blank, Absent}
  /\ latest[x] # Blank => \E r \in Ranks : Owner(r, x)

\* While a writer collects x, another locality owns it still or has told that it
\* has the data.
Collected(x) ==
  /\ \A t \in Tasks : pc[t] = "collect" /\ x \in missing[t] =>
       \/ frag[Here(t)][x] = latest[x]
       \/ \E r \in Ranks \ {Here(t)} : Owner(r, x)
       \/ \E r \in Ranks : x \in info[t][r]
  /\ \A t \in Tasks, r \in Ranks : pc[t] = "collect" /\ x \in info[t][r] =>
       r # Here(t) /\ x \in Region(t) /\ frag[r][x] = latest[x] /\ ~Owner(r, x)

\* A task that waits for its transfers has x or is going to get it.
Brought(x) ==
  /\ \A t \in Tasks : pc[t] = "transfer" /\ x \in Region(t) =>
       frag[Here(t)][x] = latest[x] \/ \E m \in transfers : m.task = t /\ x \in m.region
  /\ \A t \in Tasks : pc[t] = "running" /\ x \in Region(t) => frag[Here(t)][x] = latest[x]
  /\ \A m \in transfers : m.stage = "save" /\ x \in m.region =>
       frag[m.src][x] = latest[x] /\ (m.migrate => ~Owner(m.src, x))
  /\ \A m \in transfers : m.stage = "load" =>
       m.data[x] = IF x \in m.region THEN latest[x] ELSE Absent

\* A cached location is right, or a writer is moving x and its broadcast is on
\* its way or has arrived.
Tracked(x) ==
  \A a \in Addr, r \in Ranks : x \in cache[a][r] =>
     /\ \A t \in Tasks : Moving(t, x) =>
          r = Here(t) \/ \E c \in casts : c.task = t /\ c.rank = Rank[a]
     /\ Owner(r, x) \/ \E t \in Tasks : Moving(t, x)

\* What locate has found is there, and it misses no owner.
Located(x) ==
  /\ \A f \in locs, r \in Ranks : x \in f.local[r] \cup f.remote[r] =>
       x \in Region(f.task) /\ Owner(r, x)
  /\ \A f \in locs : f.called /\ x \in f.region /\ (\E r \in Ranks : Owner(r, x)) =>
       \/ \E r \in Ranks : x \in f.local[r] \cup f.remote[r]
       \/ \E g \in Callees(f) : x \in g.region

DataInv(x) == Stored(x) /\ Collected(x) /\ Brought(x) /\ Tracked(x) /\ Located(x)

PlacesInv == StageInv /\ TransferInv /\ ActivationInv /\ \A x \in Elems : DataInv(x)

CoherenceInv == OwnershipInv /\ PlacesInv

(***************************************************************************)
(* What is used all the time.                                              *)
(***************************************************************************)
LEMMA HereFacts ==
  ASSUME TypeOK
  PROVE  /\ \A t \in Tasks : Here(t) \in Ranks
         /\ \A t \in Tasks : at[t] \in Leaves => Leaf[Here(t)] = at[t]
         /\ \A t \in Tasks : Region(t) \subseteq Elems
         /\ \A r \in Ranks, s \in Ranks : Leaf[r] = Leaf[s] => r = s
         /\ Leaves \subseteq Addr
<1>1. \A t \in Tasks : Here(t) \in Ranks
  BY TreeFacts DEF TypeOK, Here
<1>2. ASSUME NEW t \in Tasks, at[t] \in Leaves PROVE Leaf[Here(t)] = at[t]
  BY <1>2, TreeFacts DEF Here, Leaves
<1>3. \A t \in Tasks : Region(t) \subseteq Elems
  BY RequirementFacts DEF TypeOK, Region, Regions, NoRequirement
<1>4. \A r \in Ranks, s \in Ranks : Leaf[r] = Leaf[s] => r = s
  BY TreeFacts
<1>5. Leaves \subseteq Addr
  BY TreeFacts DEF Leaves
<1>6. QED
  BY <1>1, <1>2, <1>3, <1>4, <1>5

LEMMA CallTypes ==
  ASSUME TypeOK
  PROVE  /\ \A c \in calls : c.task \in Tasks /\ c.region \subseteq Elems /\ c.at \in Addr
         /\ \A c \in casts : /\ c.task \in Tasks /\ c.region \subseteq Elems
                             /\ c.rank \in Ranks /\ c.to \in Ranks
         /\ \A m \in transfers : /\ m.task \in Tasks /\ m.src \in Ranks /\ m.region \subseteq Elems
                                 /\ m.stage \in {"save", "load"} /\ m.data \in [Elems -> Values]
         /\ \A f \in locs : f.task \in Tasks
<1>1. \A c \in calls : c.task \in Tasks /\ c.region \subseteq Elems /\ c.at \in Addr
  BY CallFacts DEF Regions
<1>2. \A c \in casts : c \in Cast
  BY DEF TypeOK
<1>3. \A m \in transfers : m \in Transfer
  BY DEF TypeOK
<1>4. \A f \in locs : f \in Locate
  BY DEF TypeOK
<1>5. QED
  BY <1>1, <1>2, <1>3, <1>4 DEF Cast, Transfer, Locate, Regions

LEMMA Basics ==
  ASSUME CoherenceInv
  PROVE  /\ TypeOK /\ OwnershipInv /\ StageInv /\ TransferInv /\ ActivationInv
         /\ \A x \in Elems : Stored(x) /\ Collected(x) /\ Brought(x) /\ Tracked(x) /\ Located(x)
BY DEF CoherenceInv, PlacesInv, DataInv, OwnershipInv, TypeInv

\* A writer has its region for itself.
LEMMA OneWriter ==
  ASSUME OwnershipInv
  PROVE  \A t, u \in Tasks : t # u /\ Writes(t) => Region(t) \cap Region(u) = {}
BY DEF OwnershipInv, TaskInv

\* What locate knows stays right as long as the owners stay.
LEMMA LocatedStays ==
  ASSUME ActivationInv, NEW x, Located(x), locs' = locs,
         \A f \in locs : Region(f.task)' = Region(f.task),
         \A f \in locs, r \in Ranks : x \in Region(f.task) => (Owner(r, x)' <=> Owner(r, x))
  PROVE  Located(x)'
<1>1. \A f \in locs : x \in f.region => x \in Region(f.task)
  BY DEF ActivationInv
<1>2. QED
  BY <1>1 DEF Located, Callees

(***************************************************************************)
(* Steps on the way to the leaf, and the calls between inner nodes: they   *)
(* touch neither data nor the records of a leaf.                           *)
(***************************************************************************)
Apart(t) ==
  \/ pc'[t] = pc[t] /\ at'[t] = at[t] /\ req'[t] = req[t]
  \/ pc[t] \notin Engaged /\ pc'[t] \notin Engaged

Aside ==
  /\ UNCHANGED <<cache, frag, latest, missing, info, casts, locs, transfers>>
  /\ \A a \in Leaves : full'[a] = full[a]
  /\ \A c \in calls' : \E d \in calls : c.task = d.task /\ c.region \subseteq d.region
  /\ \A t \in Tasks : Apart(t)

LEMMA AsideStep ==
  ASSUME CoherenceInv, Aside
  PROVE  PlacesInv'
<1>0. TypeOK /\ StageInv /\ TransferInv /\ ActivationInv
  BY Basics
<1>1. UNCHANGED <<cache, frag, latest, missing, info, casts, locs, transfers>>
  BY DEF Aside
<1>2. \A r \in Ranks : \A x : Owner(r, x)' <=> Owner(r, x)
  BY TreeFacts DEF Aside, Owner
<1>3. \A t \in Tasks : pc[t] \in Engaged \/ pc'[t] \in Engaged =>
        /\ pc'[t] = pc[t] /\ at'[t] = at[t] /\ req'[t] = req[t]
        /\ Here(t)' = Here(t) /\ Region(t)' = Region(t) /\ Writes(t)' = Writes(t)
  BY DEF Aside, Apart, Here, Region, Writes
<1>4. \A t \in Tasks : \A x : /\ Moving(t, x)' <=> Moving(t, x)
                              /\ Fetching(t, x)' <=> Fetching(t, x)
  BY <1>1, <1>3 DEF Moving, Fetching, Engaged
<1>5. StageInv'
  <2>1. \A t \in Tasks : pc[t] \notin Engaged => missing[t] = {} /\ info[t] = Nowhere
    BY <1>0 DEF StageInv, Engaged
  <2>2. \A c \in calls' : c.region \subseteq missing[c.task]
    BY <1>0 DEF Aside, StageInv
  <2>3. \A c \in casts : pc[c.task] \in Engaged /\ c.task \in Tasks
    BY <1>0, CallTypes DEF StageInv, Engaged
  <2>4. \A t \in Tasks :
          /\ pc'[t] \notin {"own", "collect", "transfer", "running"} => missing[t] = {}
          /\ pc'[t] \notin {"collect", "transfer", "running"} => info[t] = Nowhere
          /\ missing[t] \subseteq Region(t)'
    BY <1>0, <1>3, <2>1 DEF StageInv, Engaged
  <2>5. QED
    BY <1>0, <1>1, <1>3, <2>2, <2>3, <2>4 DEF StageInv
<1>6. TransferInv'
  <2>1. \A m \in transfers : m.task \in Tasks /\ pc[m.task] \in Engaged
    BY <1>0, CallTypes DEF TransferInv, Engaged
  <2>2. QED
    BY <1>0, <1>1, <1>3, <2>1 DEF TransferInv
<1>7. ActivationInv'
  <2>1. \A f \in locs : f.task \in Tasks /\ pc[f.task] \in Engaged
    BY <1>0, CallTypes DEF ActivationInv, Engaged
  <2>2. \A f \in locs : pc'[f.task] = "locate" /\ Region(f.task)' = Region(f.task)
    BY <1>0, <1>3, <2>1 DEF ActivationInv
  <2>3. QED
    BY <1>0, <1>1, <2>2 DEF ActivationInv
<1>8. ASSUME NEW x \in Elems PROVE DataInv(x)'
  <2>1. Stored(x) /\ Collected(x) /\ Brought(x) /\ Tracked(x) /\ Located(x)
    BY Basics
  <2>2. Stored(x)'
    BY <1>0, <1>1, <1>2, <1>3, <1>4, <2>1 DEF Stored, Fetching, Engaged
  <2>3. Collected(x)'
    BY <1>0, <1>1, <1>2, <1>3, <2>1 DEF Collected, Engaged
  <2>4. Brought(x)'
    BY <1>0, <1>1, <1>2, <1>3, <2>1, CallTypes DEF Brought, Engaged
  <2>5. Tracked(x)'
    BY <1>1, <1>2, <1>3, <1>4, <2>1 DEF Tracked, Moving, Engaged
  <2>6. Located(x)'
    <3>1. \A f \in locs : Region(f.task)' = Region(f.task)
      BY <1>0, <1>3, CallTypes DEF ActivationInv, Engaged
    <3>2. QED
      BY <1>0, <1>1, <1>2, <2>1, <3>1, LocatedStays
  <2>7. QED
    BY <2>2, <2>3, <2>4, <2>5, <2>6 DEF DataInv
<1>9. QED
  BY <1>5, <1>6, <1>7, <1>8 DEF PlacesInv

LEMMA AsideTask ==
  ASSUME CoherenceInv, NEW t \in Tasks,
         \/ schedule_here(t) \/ schedule_shortcut(t) \/ schedule_turn(t) \/ schedule_up(t)
         \/ schedule_down_reject(t) \/ schedule_down_stay(t)
         \/ schedule_down_left(t) \/ schedule_down_right(t) \/ schedule_local_descend(t)
  PROVE  Aside
<1>0. TypeOK
  BY Basics
<1>1. UNCHANGED <<cache, frag, latest, missing, info, casts, locs, transfers, calls>>
  BY DEF schedule_here, schedule_shortcut, schedule_turn, schedule_up, schedule_down_reject,
         schedule_down_stay, schedule_down_left, schedule_down_right, schedule_local_descend, index
<1>2. pc[t] \in {"schedule", "down", "local"} /\ pc'[t] \in {"schedule", "down", "local"}
  BY <1>0 DEF schedule_here, schedule_shortcut, schedule_turn, schedule_up, schedule_down_reject,
         schedule_down_stay, schedule_down_left, schedule_down_right, schedule_local_descend,
         MayLeave, TypeOK
<1>3. \A u \in Tasks \ {t} : pc'[u] = pc[u] /\ at'[u] = at[u] /\ req'[u] = req[u]
  BY <1>0 DEF schedule_here, schedule_shortcut, schedule_turn, schedule_up, schedule_down_reject,
         schedule_down_stay, schedule_down_left, schedule_down_right, schedule_local_descend,
         taskVars, TypeOK
<1>4. \A a \in Leaves : full'[a] = full[a]
  <2>1. CASE schedule_down_left(t) \/ schedule_down_right(t) \/ schedule_local_descend(t)
    <3>1. at[t] \notin Leaves
      BY <1>0, <2>1, TreeFacts DEF schedule_down_left, schedule_down_right,
         schedule_local_descend, Stays, TypeOK
    <3>2. full' = full \/ full' = [full EXCEPT ![at[t]] = @ \cup allowance[t]]
      BY <2>1 DEF schedule_down_left, schedule_down_right, schedule_local_descend,
         add_allowance_left, add_allowance_right
    <3>3. QED
      BY <3>1, <3>2, <1>0, HereFacts DEF TypeOK
  <2>2. CASE \/ schedule_here(t) \/ schedule_shortcut(t) \/ schedule_turn(t) \/ schedule_up(t)
             \/ schedule_down_reject(t) \/ schedule_down_stay(t)
    BY <2>2 DEF schedule_here, schedule_shortcut, schedule_turn, schedule_up,
         schedule_down_reject, schedule_down_stay, entry
  <2>3. QED
    BY <2>1, <2>2
<1>5. \A u \in Tasks : Apart(u)
  BY <1>2, <1>3 DEF Apart, Engaged
<1>6. QED
  BY <1>1, <1>4, <1>5 DEF Aside

LEMMA AsideSpawn ==
  ASSUME CoherenceInv, NEW t \in Tasks, NEW q \in Requirements, NEW r \in Ranks,
         NEW g \in Addr, NEW p \in ParentGoals(g), spawn(t, q, r, g, p)
  PROVE  Aside
<1>0. TypeOK
  BY Basics
<1>1. /\ UNCHANGED <<full, cache, frag, latest, missing, info, casts, locs, transfers, calls>>
      /\ pc[t] = "new" /\ pc'[t] = "schedule"
      /\ \A u \in Tasks \ {t} : pc'[u] = pc[u] /\ at'[u] = at[u] /\ req'[u] = req[u]
  BY <1>0 DEF spawn, entry, TypeOK
<1>2. \A u \in Tasks : Apart(u)
  BY <1>1 DEF Apart, Engaged
<1>3. QED
  BY <1>1, <1>2 DEF Aside

LEMMA AsideCall ==
  ASSUME CoherenceInv, NEW c \in calls, acquire_ownership_for(c) \/ collect_child_ownerships(c)
  PROVE  Aside
<1>0. TypeOK /\ c.at \in Inner
  <2>1. TypeOK
    BY Basics
  <2>2. QED
    BY <2>1, CallFacts DEF acquire_ownership_for, collect_child_ownerships
<1>1. UNCHANGED <<cache, frag, latest, missing, info, casts, locs, transfers, pc, at, req>>
  BY DEF acquire_ownership_for, collect_child_ownerships, taskVars
<1>2. \A a \in Leaves : full'[a] = full[a]
  <2>1. c.at \notin Leaves
    BY <1>0, TreeFacts
  <2>2. CASE acquire_ownership_for(c)
    BY <1>0, <2>1, <2>2 DEF acquire_ownership_for, TypeOK
  <2>3. CASE collect_child_ownerships(c)
    BY <1>0, <2>1, <2>3 DEF collect_child_ownerships, TypeOK
  <2>4. QED
    BY <2>2, <2>3
<1>3. \A d \in calls' : d \in calls \/ (d.task = c.task /\ d.region \subseteq c.region)
  BY DEF acquire_ownership_for, collect_child_ownerships, AcquireFor, Collect
<1>4. \A u \in Tasks : Apart(u)
  BY <1>1 DEF Apart
<1>5. QED
  BY <1>1, <1>2, <1>3, <1>4 DEF Aside

\* No value is that of an element that is not there.
LEMMA Written ==
  ASSUME TypeOK
  PROVE  \A x \in Elems : latest[x] # Absent /\ latest[x] \in Versions
BY ValuesAssumption DEF TypeOK, Versions

(***************************************************************************)
(* A task arrives: its allowance makes its leaf the owner of elements that *)
(* nobody has owned, and the fragment grows to cover its region.           *)
(***************************************************************************)
LEMMA NobodysYet ==
  ASSUME OwnershipInv, NEW t \in Tasks, pc[t] = "local", at[t] \in Leaves,
         NEW x \in allowance[t], x \notin full[at[t]]
  PROVE  \A r \in Ranks : ~Owner(r, x)
<1> SUFFICES ASSUME NEW r \in Ranks, Owner(r, x)
             PROVE  FALSE
  OBVIOUS
<1>0. TypeOK /\ TaskInv /\ x \in Elems /\ at[t] \in Addr
  BY DEF OwnershipInv, TypeInv, TypeOK
<1>1. Leaf[r] \in Leaves /\ Leaf[r] \in Addr /\ Leaf[r] # at[t] /\ x \in Holds(Leaf[r])
  BY TreeFacts DEF Owner, Holds
<1>2. PICK c \in Addr \ {Root}, d \in Addr \ {Root} :
        c # d /\ Parent[c] = Parent[d] /\ at[t] \in Below[c] /\ Leaf[r] \in Below[d]
  BY <1>1, SubtreeAssumption
<1>3. at[t] # Root
  BY <1>2, PathFacts
<1>4. Bears(t, x)
  BY <1>3 DEF Bears
<1>5. x \in Side(c)
  BY <1>0, <1>2, <1>4 DEF OwnershipInv, ElementInv, Fresh
<1>6. \A k \in calls : x \notin k.region
  BY <1>4, OneActor
<1>7. x \in Side(d)
  BY <1>0, <1>1, <1>2, <1>6 DEF OwnershipInv, ElementInv, Linked
<1>8. Parent[c] \in Addr /\ {c, d} \subseteq {LeftChild[Parent[c]], RightChild[Parent[c]]}
  BY <1>2, HierarchyAssumption, PathFacts
<1>9. x \in left[Parent[c]] \cap right[Parent[c]]
  BY <1>2, <1>5, <1>7, <1>8 DEF Side
<1>10. QED
  BY <1>8, <1>9 DEF OwnershipInv, LeftRightDisjoint

LEMMA ArriveStep ==
  ASSUME CoherenceInv, NEW t \in Tasks, schedule_local_split(t) \/ schedule_local_leaf(t)
  PROVE  PlacesInv'
<1>0. TypeOK /\ OwnershipInv /\ StageInv /\ TransferInv /\ ActivationInv
  BY Basics
<1>1. /\ pc[t] = "local" /\ add_allowance(at[t], t)
      /\ UNCHANGED <<cache, latest, casts, locs, transfers, calls>>
  BY DEF schedule_local_split, schedule_local_leaf, index
<1>2. missing[t] = {} /\ info[t] = Nowhere
  BY <1>0, <1>1 DEF StageInv
<1>3. /\ missing' = missing /\ info' = info
      /\ \A u \in Tasks \ {t} : pc'[u] = pc[u] /\ at'[u] = at[u] /\ req'[u] = req[u]
  <2>1. CASE schedule_local_split(t)
    <3>1. /\ missing' = [missing EXCEPT ![t] = missing[t]]
          /\ info' = [info EXCEPT ![t] = info[t]]
      BY <1>2, <2>1 DEF schedule_local_split, Forget
    <3>2. missing' = missing /\ info' = info
      BY <1>0, <3>1 DEF TypeOK
    <3>3. QED
      BY <1>0, <2>1, <3>2 DEF schedule_local_split, Forget, TypeOK
  <2>2. CASE schedule_local_leaf(t)
    BY <1>0, <2>2 DEF schedule_local_leaf, index, TypeOK
  <2>3. QED
    BY <2>1, <2>2
<1>4. \/ pc'[t] = "done"
      \/ pc'[t] = "acquire" /\ at[t] \in Leaves /\ at'[t] = at[t] /\ req'[t] = req[t]
  BY <1>0 DEF schedule_local_split, schedule_local_leaf, TypeOK
<1>5. \A r \in Ranks, x \in Elems :
        frag'[r][x] = IF at[t] \in Leaves /\ r = Here(t) /\ x \in Region(t) /\ frag[r][x] = Absent
                      THEN Blank ELSE frag[r][x]
  BY <1>0, <1>1, HereFacts DEF add_allowance, resize_fragment, Here, TypeOK
<1>6. \A r \in Ranks, x \in Elems : frag[r][x] # Absent => frag'[r][x] = frag[r][x]
  BY <1>5
<1>7. \A r \in Ranks : \A x : Owner(r, x) => Owner(r, x)'
  BY <1>0, <1>1, HereFacts, TreeFacts DEF add_allowance, Owner, TypeOK
<1>8. \A r \in Ranks : \A x : Owner(r, x)' => 
        Owner(r, x) \/ (Writes(t) /\ at[t] = Leaf[r] /\ x \in allowance[t])
  BY <1>0, <1>1, HereFacts, TreeFacts DEF add_allowance, Owner, TypeOK
<1>9. allowance[t] \subseteq Region(t)
  BY <1>0 DEF OwnershipInv, TaskInv
<1>10. \A u \in Tasks \ {t} : /\ Here(u)' = Here(u) /\ Region(u)' = Region(u)
                              /\ Writes(u)' = Writes(u)
  BY <1>3 DEF Here, Region, Writes
<1>11. \A u \in Tasks : \A x : /\ Moving(u, x)' <=> Moving(u, x)
                               /\ Fetching(u, x)' <=> Fetching(u, x)
                               /\ Fetching(u, x) => u # t
                               /\ Moving(u, x) => u # t
  BY <1>1, <1>3, <1>4, <1>10 DEF Moving, Fetching
<1>12. /\ \A c \in casts : c.task \in Tasks \ {t}
       /\ \A m \in transfers : m.task \in Tasks \ {t}
       /\ \A f \in locs : f.task \in Tasks \ {t}
  BY <1>0, <1>1, CallTypes DEF StageInv, TransferInv, ActivationInv
<1>13. StageInv'
  <2>1. \A u \in Tasks :
          /\ pc'[u] \notin {"own", "collect", "transfer", "running"} => missing[u] = {}
          /\ pc'[u] \notin {"collect", "transfer", "running"} => info[u] = Nowhere
          /\ missing[u] \subseteq Region(u)'
    BY <1>0, <1>2, <1>3, <1>10 DEF StageInv
  <2>2. QED
    BY <1>0, <1>1, <1>3, <1>10, <1>12, <2>1 DEF StageInv
<1>14. TransferInv'
  BY <1>0, <1>1, <1>3, <1>10, <1>12 DEF TransferInv
<1>15. ActivationInv'
  <2>1. \A f \in locs : pc'[f.task] = pc[f.task] /\ Region(f.task)' = Region(f.task)
    BY <1>3, <1>10, <1>12
  <2>2. QED
    BY <1>0, <1>1, <2>1 DEF ActivationInv
<1>16. ASSUME NEW x \in Elems PROVE DataInv(x)'
  <2>1. Stored(x) /\ Collected(x) /\ Brought(x) /\ Tracked(x) /\ Located(x)
    BY Basics
  <2>2. ASSUME NEW u \in Tasks \ {t}, x \in Region(u), NEW r \in Ranks
        PROVE  Owner(r, x)' <=> Owner(r, x)
    BY <1>0, <1>7, <1>8, <1>9, <2>2, OneWriter
  <2>3. latest[x] # Absent /\ latest'[x] = latest[x]
    BY <1>0, <1>1, Written
  <2>4. Stored(x)'
    <3>1. ASSUME NEW u \in Tasks, pc'[u] \in Engaged, x \in Region(u)'
          PROVE  frag'[Here(u)'][x] # Absent
      <4>1. CASE u = t
        <5>1. at[t] \in Leaves /\ Here(t)' = Here(t) /\ Region(t)' = Region(t)
          BY <1>4, <3>1, <4>1 DEF Engaged, Here, Region
        <5>2. QED
          BY <1>0, <1>5, <3>1, <4>1, <5>1, HereFacts, ValuesAssumption
      <4>2. CASE u # t
        BY <1>0, <1>3, <1>6, <1>10, <2>1, <3>1, <4>2, HereFacts DEF Stored
      <4>3. QED
        BY <4>1, <4>2
    <3>2. ASSUME NEW r \in Ranks, Owner(r, x)'
          PROVE  /\ frag'[r][x] # Absent
                 /\ frag'[r][x] = latest[x] \/ \E u \in Tasks : Fetching(u, x)' /\ Here(u)' = r
      <4>1. CASE Owner(r, x)
        BY <1>6, <1>10, <1>11, <2>1, <4>1 DEF Stored
      <4>2. CASE ~Owner(r, x)
        <5>1. at[t] = Leaf[r] /\ x \in allowance[t] /\ at[t] \in Leaves /\ r = Here(t)
          BY <1>0, <1>8, <3>2, <4>2, TreeFacts DEF Here
        <5>2. latest[x] = Blank /\ frag[r][x] \in {Blank, Absent}
          BY <1>0, <1>1, <2>1, <4>2, <5>1, NobodysYet DEF Stored, Owner
        <5>3. frag'[r][x] = Blank
          BY <1>5, <1>9, <5>1, <5>2
        <5>4. QED
          BY <2>3, <5>2, <5>3
      <4>3. QED
        BY <4>1, <4>2
    <3>3. latest[x] = Blank => \A r \in Ranks : frag'[r][x] \in {Blank, Absent}
      BY <1>5, <2>1 DEF Stored
    <3>4. latest[x] # Blank => \E r \in Ranks : Owner(r, x)'
      BY <1>7, <2>1 DEF Stored
    <3>5. QED
      BY <1>1, <2>3, <3>1, <3>2, <3>3, <3>4 DEF Stored
  <2>5. Collected(x)'
    <3>1. ASSUME NEW u \in Tasks, pc'[u] = "collect"
          PROVE  u # t /\ pc[u] = "collect" /\ Here(u)' = Here(u) /\ Region(u)' = Region(u)
      BY <1>3, <1>4, <1>10, <3>1
    <3>2. ASSUME NEW u \in Tasks, pc'[u] = "collect", x \in missing[u]
          PROVE  \/ frag'[Here(u)'][x] = latest[x]
                 \/ \E r \in Ranks \ {Here(u)'} : Owner(r, x)'
                 \/ \E r \in Ranks : x \in info[u][r]
      BY <1>0, <1>6, <1>7, <2>1, <2>3, <3>1, <3>2, HereFacts DEF Collected
    <3>3. ASSUME NEW u \in Tasks, NEW r \in Ranks, pc'[u] = "collect", x \in info[u][r]
          PROVE  r # Here(u)' /\ x \in Region(u)' /\ frag'[r][x] = latest[x] /\ ~Owner(r, x)'
      BY <1>6, <2>1, <2>2, <2>3, <3>1, <3>3 DEF Collected
    <3>4. QED
      BY <1>1, <1>3, <3>2, <3>3 DEF Collected
  <2>6. Brought(x)'
    <3>1. ASSUME NEW u \in Tasks, pc'[u] \in {"transfer", "running"}
          PROVE  u # t /\ pc'[u] = pc[u] /\ Here(u)' = Here(u) /\ Region(u)' = Region(u)
      BY <1>3, <1>4, <1>10, <3>1
    <3>2. ASSUME NEW u \in Tasks, pc'[u] = "transfer", x \in Region(u)'
          PROVE  frag'[Here(u)'][x] = latest[x] \/ \E m \in transfers : m.task = u /\ x \in m.region
      BY <1>0, <1>6, <2>1, <2>3, <3>1, <3>2, HereFacts DEF Brought
    <3>3. ASSUME NEW u \in Tasks, pc'[u] = "running", x \in Region(u)'
          PROVE  frag'[Here(u)'][x] = latest[x]
      BY <1>0, <1>6, <2>1, <2>3, <3>1, <3>3, HereFacts DEF Brought
    <3>4. ASSUME NEW m \in transfers, m.stage = "save", x \in m.region
          PROVE  frag'[m.src][x] = latest[x] /\ (m.migrate => ~Owner(m.src, x)')
      BY <1>0, <1>6, <1>12, <2>1, <2>2, <2>3, <3>4, CallTypes DEF Brought, TransferInv
    <3>5. QED
      BY <1>1, <2>1, <3>2, <3>3, <3>4 DEF Brought
  <2>7. Tracked(x)'
    BY <1>1, <1>7, <1>10, <1>11, <2>1 DEF Tracked
  <2>8. Located(x)'
    <3>1. \A f \in locs, r \in Ranks : x \in Region(f.task) => (Owner(r, x)' <=> Owner(r, x))
      BY <1>12, <2>2
    <3>2. \A f \in locs : Region(f.task)' = Region(f.task)
      BY <1>10, <1>12
    <3>3. QED
      BY <1>0, <1>1, <2>1, <3>1, <3>2, LocatedStays
  <2>9. QED
    BY <2>4, <2>5, <2>6, <2>7, <2>8 DEF DataInv
<1>17. QED
  BY <1>13, <1>14, <1>15, <1>16 DEF PlacesInv

(***************************************************************************)
(* A task acquires its region.                                             *)
(***************************************************************************)
\* A task goes on where it is.
Stands(t) ==
  /\ UNCHANGED <<at, req, frag, latest, info>>
  /\ \A u \in Tasks \ {t} : pc'[u] = pc[u] /\ missing'[u] = missing[u]

LEMMA StandsFacts ==
  ASSUME NEW t \in Tasks, Stands(t)
  PROVE  /\ \A u : Here(u)' = Here(u) /\ Region(u)' = Region(u) /\ Writes(u)' = Writes(u)
         /\ \A u \in Tasks \ {t} : \A x : /\ Moving(u, x)' <=> Moving(u, x)
                                          /\ Fetching(u, x)' <=> Fetching(u, x)
BY DEF Stands, Here, Region, Writes, Moving, Fetching

\* Who moves x writes it, and nobody else uses it.
LEMMA MoverFacts ==
  ASSUME CoherenceInv, NEW t \in Tasks, NEW x, Moving(t, x) \/ Fetching(t, x)
  PROVE  /\ x \in Region(t) /\ Writes(t) /\ Moving(t, x)
         /\ \A u \in Tasks \ {t} : x \notin Region(u) /\ ~Moving(u, x) /\ ~Fetching(u, x)
<1>1. StageInv /\ OwnershipInv
  BY Basics
<1>2. \A u \in Tasks : Moving(u, x) \/ Fetching(u, x) => x \in Region(u) /\ Writes(u) /\ Moving(u, x)
  BY <1>1 DEF StageInv, Moving, Fetching
<1>3. QED
  BY <1>1, <1>2, OneWriter

LEMMA OwnedStep ==
  ASSUME CoherenceInv, NEW t \in Tasks, acquire_owned(t)
  PROVE  PlacesInv'
<1>0. TypeOK /\ OwnershipInv /\ StageInv /\ TransferInv /\ ActivationInv
  BY Basics
<1>1. /\ pc[t] = "acquire" /\ Writes(t) /\ Region(t) \subseteq full[at[t]] /\ pc'[t] = "transfer"
      /\ \A u \in Tasks \ {t} : pc'[u] = pc[u]
      /\ UNCHANGED <<full, cache, frag, latest, missing, info, casts, locs, transfers, calls, at, req>>
  BY <1>0 DEF acquire_owned, entry, taskVars, index, TypeOK
<1>2. Stands(t)
  BY <1>1 DEF Stands
<1>3. missing[t] = {}
  BY <1>0, <1>1 DEF StageInv
<1>4. \A u : Here(u)' = Here(u) /\ Region(u)' = Region(u) /\ Writes(u)' = Writes(u)
  BY <1>2, StandsFacts
<1>5. \A u \in Tasks : \A x : /\ Moving(u, x)' <=> Moving(u, x)
                              /\ Fetching(u, x)' <=> Fetching(u, x)
  BY <1>1, <1>2, <1>3, StandsFacts DEF Moving, Fetching
<1>6. \A r : \A x : Owner(r, x)' <=> Owner(r, x)
  BY <1>1 DEF Owner
<1>7. /\ \A c \in casts : c.task \in Tasks \ {t}
      /\ \A m \in transfers : m.task \in Tasks \ {t}
      /\ \A f \in locs : f.task \in Tasks \ {t}
  BY <1>0, <1>1, CallTypes DEF StageInv, TransferInv, ActivationInv
<1>8. StageInv' /\ TransferInv'
  BY <1>0, <1>1, <1>4, <1>7 DEF StageInv, TransferInv
<1>9. ActivationInv'
  <2>1. \A f \in locs : pc'[f.task] = pc[f.task]
    BY <1>1, <1>7
  <2>2. QED
    BY <1>0, <1>1, <1>4, <2>1 DEF ActivationInv
<1>10. ASSUME NEW x \in Elems PROVE DataInv(x)'
  <2>1. Stored(x) /\ Collected(x) /\ Brought(x) /\ Tracked(x) /\ Located(x)
    BY Basics
  <2>2. x \in Region(t) => frag[Here(t)][x] = latest[x]
    <3>1. SUFFICES ASSUME x \in Region(t) PROVE frag[Here(t)][x] = latest[x]
      OBVIOUS
    <3>2. Here(t) \in Ranks /\ Owner(Here(t), x)
      BY <1>0, <1>1, <3>1, HereFacts DEF Owner, OwnershipInv, TaskInv
    <3>3. \A u \in Tasks : ~Fetching(u, x)
      <4>1. ~Fetching(t, x)
        BY <1>1 DEF Fetching
      <4>2. QED
        BY <3>1, <4>1, MoverFacts
    <3>4. QED
      BY <2>1, <3>2, <3>3 DEF Stored
  <2>3. Stored(x)'
    <3>1. \A u \in Tasks : pc'[u] \in Engaged => pc[u] \in Engaged
      BY <1>1 DEF Engaged
    <3>2. QED
      BY <1>1, <1>4, <1>5, <1>6, <2>1, <3>1 DEF Stored
  <2>4. Collected(x)' /\ Brought(x)'
    BY <1>1, <1>4, <1>6, <2>1, <2>2 DEF Collected, Brought
  <2>5. Tracked(x)' /\ Located(x)'
    BY <1>1, <1>4, <1>5, <1>6, <2>1 DEF Tracked, Located, Callees
  <2>6. QED
    BY <2>3, <2>4, <2>5 DEF DataInv
<1>11. QED
  BY <1>8, <1>9, <1>10 DEF PlacesInv

LEMMA ProcessStep ==
  ASSUME CoherenceInv, NEW t \in Tasks, process(t)
  PROVE  PlacesInv'
<1>0. TypeOK /\ OwnershipInv /\ StageInv /\ TransferInv /\ ActivationInv
  BY Basics
<1>1. /\ pc[t] = "transfer" /\ pc'[t] = "running"
      /\ \A m \in transfers : m.task # t
      /\ \A u \in Tasks \ {t} : pc'[u] = pc[u]
      /\ UNCHANGED <<full, cache, frag, latest, missing, info, casts, locs, transfers, calls, at, req>>
  BY <1>0 DEF process, entry, taskVars, index, TypeOK
<1>2. Stands(t)
  BY <1>1 DEF Stands
<1>4. \A u : Here(u)' = Here(u) /\ Region(u)' = Region(u) /\ Writes(u)' = Writes(u)
  BY <1>2, StandsFacts
<1>5. \A u \in Tasks : \A x : /\ Moving(u, x)' <=> Moving(u, x)
                              /\ u # t => (Fetching(u, x)' <=> Fetching(u, x))
  BY <1>1, <1>2, <1>4, StandsFacts DEF Moving
<1>6. \A r : \A x : Owner(r, x)' <=> Owner(r, x)
  BY <1>1 DEF Owner
<1>7. /\ \A c \in casts : c.task \in Tasks \ {t}
      /\ \A m \in transfers : m.task \in Tasks \ {t}
      /\ \A f \in locs : f.task \in Tasks \ {t}
  BY <1>0, <1>1, CallTypes DEF StageInv, ActivationInv
<1>8. StageInv' /\ TransferInv'
  BY <1>0, <1>1, <1>4, <1>7 DEF StageInv, TransferInv
<1>9. ActivationInv'
  <2>1. \A f \in locs : pc'[f.task] = pc[f.task]
    BY <1>1, <1>7
  <2>2. QED
    BY <1>0, <1>1, <1>4, <2>1 DEF ActivationInv
<1>10. ASSUME NEW x \in Elems PROVE DataInv(x)'
  <2>1. Stored(x) /\ Collected(x) /\ Brought(x) /\ Tracked(x) /\ Located(x)
    BY Basics
  <2>2. x \in Region(t) => frag[Here(t)][x] = latest[x]
    BY <1>1, <2>1 DEF Brought
  <2>3. Stored(x)'
    <3>1. \A u \in Tasks : pc'[u] \in Engaged => pc[u] \in Engaged
      BY <1>1 DEF Engaged
    <3>2. Fetching(t, x) => frag[Here(t)][x] = latest[x]
      BY <2>2, MoverFacts
    <3>3. QED
      BY <1>1, <1>4, <1>5, <1>6, <2>1, <3>1, <3>2 DEF Stored
  <2>4. Collected(x)' /\ Brought(x)'
    BY <1>1, <1>4, <1>6, <2>1, <2>2 DEF Collected, Brought
  <2>5. Tracked(x)' /\ Located(x)'
    BY <1>1, <1>4, <1>5, <1>6, <2>1 DEF Tracked, Located, Callees
  <2>6. QED
    BY <2>3, <2>4, <2>5 DEF DataInv
<1>11. QED
  BY <1>8, <1>9, <1>10 DEF PlacesInv

LEMMA MissingStep ==
  ASSUME CoherenceInv, NEW t \in Tasks, acquire_missing(t)
  PROVE  PlacesInv'
<1>0. TypeOK /\ OwnershipInv /\ StageInv /\ TransferInv /\ ActivationInv
  BY Basics
<1>1. /\ pc[t] = "acquire" /\ Writes(t) /\ pc'[t] = "own"
      /\ missing'[t] = Region(t) \ full[at[t]]
      /\ \A u \in Tasks \ {t} : pc'[u] = pc[u] /\ missing'[u] = missing[u]
      /\ casts' = casts \cup {[task |-> t, rank |-> r, region |-> missing'[t], to |-> Here(t)] : r \in Ranks}
      /\ UNCHANGED <<full, cache, frag, latest, info, locs, transfers, calls, at, req>>
  BY <1>0 DEF acquire_missing, entry, taskVars, TypeOK
<1>2. Stands(t)
  BY <1>1 DEF Stands
<1>3. missing[t] = {} /\ info[t] = Nowhere
  BY <1>0, <1>1 DEF StageInv
<1>4. \A u : Here(u)' = Here(u) /\ Region(u)' = Region(u) /\ Writes(u)' = Writes(u)
  BY <1>2, StandsFacts
<1>5. \A u \in Tasks : \A x : /\ Moving(u, x) => Moving(u, x)'
                              /\ u # t => (Moving(u, x)' <=> Moving(u, x))
                              /\ Fetching(u, x)' <=> Fetching(u, x)
  BY <1>1, <1>2, <1>3, StandsFacts DEF Moving, Fetching
<1>6. \A r : \A x : Owner(r, x)' <=> Owner(r, x)
  BY <1>1 DEF Owner
<1>7. /\ \A c \in casts : c.task \in Tasks \ {t}
      /\ \A c \in calls : c.task \in Tasks \ {t}
      /\ \A m \in transfers : m.task \in Tasks \ {t}
      /\ \A f \in locs : f.task \in Tasks \ {t}
  BY <1>0, <1>1, CallTypes DEF StageInv, TransferInv, ActivationInv, OwnershipInv, CallInv
<1>8. StageInv'
  <2>1. \A u \in Tasks :
          /\ pc'[u] \notin {"own", "collect", "transfer", "running"} => missing'[u] = {}
          /\ pc'[u] \notin {"collect", "transfer", "running"} => info[u] = Nowhere
          /\ missing'[u] \subseteq Region(u)'
    BY <1>0, <1>1, <1>3, <1>4 DEF StageInv
  <2>2. \A c \in casts' : /\ pc'[c.task] \in {"own", "collect"} /\ Writes(c.task)'
                          /\ c.region = missing'[c.task] /\ c.to = Here(c.task)'
    <3>1. ASSUME NEW c \in casts
          PROVE  /\ pc'[c.task] \in {"own", "collect"} /\ Writes(c.task)'
                 /\ c.region = missing'[c.task] /\ c.to = Here(c.task)'
      BY <1>0, <1>1, <1>4, <1>7 DEF StageInv
    <3>2. ASSUME NEW c \in casts' \ casts
          PROVE  c.task = t /\ c.region = missing'[t] /\ c.to = Here(t)
      BY <1>1, <3>2
    <3>3. QED
      BY <1>1, <1>4, <3>1, <3>2
  <2>3. QED
    BY <1>0, <1>1, <1>7, <2>1, <2>2 DEF StageInv
<1>9. TransferInv' /\ ActivationInv'
  <2>1. TransferInv'
    BY <1>0, <1>1, <1>4, <1>7 DEF TransferInv
  <2>2. \A f \in locs : pc'[f.task] = pc[f.task]
    BY <1>1, <1>7
  <2>3. QED
    BY <1>0, <1>1, <1>4, <2>1, <2>2 DEF ActivationInv
<1>10. ASSUME NEW x \in Elems PROVE DataInv(x)'
  <2>1. Stored(x) /\ Collected(x) /\ Brought(x) /\ Tracked(x) /\ Located(x)
    BY Basics
  <2>2. Stored(x)'
    <3>1. \A u \in Tasks : pc'[u] \in Engaged => pc[u] \in Engaged
      BY <1>1 DEF Engaged
    <3>2. QED
      BY <1>1, <1>4, <1>5, <1>6, <2>1, <3>1 DEF Stored
  <2>3. Collected(x)' /\ Brought(x)'
    BY <1>1, <1>4, <1>6, <2>1 DEF Collected, Brought
  <2>4. Located(x)'
    BY <1>0, <1>1, <1>4, <1>6, <2>1, LocatedStays
  <2>5. Tracked(x)'
    <3>1. ASSUME NEW a \in Addr, NEW r \in Ranks, x \in cache[a][r], NEW u \in Tasks, Moving(u, x)'
          PROVE  r = Here(u)' \/ \E c \in casts' : c.task = u /\ c.rank = Rank[a]
      <4>1. CASE u = t
        <5>1. Rank[a] \in Ranks
          BY TreeFacts
        <5>2. PICK c : c = [task |-> t, rank |-> Rank[a], region |-> missing'[t], to |-> Here(t)]
          OBVIOUS
        <5>3. c \in casts'
          BY <1>1, <5>1, <5>2
        <5>4. c.task = t /\ c.rank = Rank[a]
          BY <5>2
        <5>5. QED
          BY <4>1, <5>3, <5>4
      <4>2. CASE u # t
        BY <1>1, <1>4, <1>5, <2>1, <3>1, <4>2 DEF Tracked
      <4>3. QED
        BY <4>1, <4>2
    <3>2. QED
      BY <1>1, <1>5, <1>6, <2>1, <3>1 DEF Tracked
  <2>6. QED
    BY <2>2, <2>3, <2>4, <2>5 DEF DataInv
<1>11. QED
  BY <1>8, <1>9, <1>10 DEF PlacesInv

LEMMA GainStep ==
  ASSUME CoherenceInv, NEW t \in Tasks, acquire_ownership(t)
  PROVE  PlacesInv'
<1>0. TypeOK /\ OwnershipInv /\ StageInv /\ TransferInv /\ ActivationInv
  BY Basics
<1>1. /\ pc[t] = "own" /\ pc'[t] = "collect"
      /\ full' = [full EXCEPT ![at[t]] = @ \cup missing[t]]
      /\ \A u \in Tasks \ {t} : pc'[u] = pc[u]
      /\ \A c \in calls' : c \in calls \/ (c.task = t /\ c.region = missing[t])
      /\ UNCHANGED <<cache, frag, latest, missing, info, casts, locs, transfers, at, req>>
  BY <1>0 DEF acquire_ownership, AcquireFor, taskVars, TypeOK
<1>2. Stands(t)
  BY <1>1 DEF Stands
<1>3. /\ Writes(t) /\ missing[t] \subseteq Region(t) /\ info[t] = Nowhere /\ at[t] \in Leaves
      /\ Here(t) \in Ranks /\ Leaf[Here(t)] = at[t]
  BY <1>0, <1>1, HereFacts DEF StageInv, OwnershipInv, AcquiredInv, TaskInv
<1>4. \A u : Here(u)' = Here(u) /\ Region(u)' = Region(u) /\ Writes(u)' = Writes(u)
  BY <1>2, StandsFacts
<1>5. \A u \in Tasks : \A x : /\ Moving(u, x)' <=> Moving(u, x)
                              /\ Fetching(u, x) => Fetching(u, x)'
  BY <1>1, <1>2, <1>4, StandsFacts DEF Moving, Fetching
<1>6. \A r \in Ranks : \A x : Owner(r, x)' <=> Owner(r, x) \/ (r = Here(t) /\ x \in missing[t])
  BY <1>0, <1>1, <1>3, TreeFacts, HereFacts DEF Owner, TypeOK
<1>7. /\ \A c \in casts : c.task \in Tasks
      /\ \A m \in transfers : m.task \in Tasks \ {t} /\ m.src \in Ranks
      /\ \A f \in locs : f.task \in Tasks \ {t}
  BY <1>0, <1>1, CallTypes DEF StageInv, TransferInv, ActivationInv
<1>8. StageInv'
  BY <1>0, <1>1, <1>4, <1>7 DEF StageInv
<1>9. TransferInv' /\ ActivationInv'
  <2>1. TransferInv'
    BY <1>0, <1>1, <1>4, <1>7 DEF TransferInv
  <2>2. \A f \in locs : pc'[f.task] = pc[f.task]
    BY <1>1, <1>7
  <2>3. QED
    BY <1>0, <1>1, <1>4, <2>1, <2>2 DEF ActivationInv
<1>10. ASSUME NEW x \in Elems PROVE DataInv(x)'
  <2>1. Stored(x) /\ Collected(x) /\ Brought(x) /\ Tracked(x) /\ Located(x)
    BY Basics
  <2>2. \A u \in Tasks \ {t} : \A r \in Ranks : x \in Region(u) => (Owner(r, x)' <=> Owner(r, x))
    BY <1>0, <1>3, <1>6, OneWriter
  <2>3. Stored(x)'
    <3>1. \A u \in Tasks : pc'[u] \in Engaged => pc[u] \in Engaged
      BY <1>1 DEF Engaged
    <3>2. x \in missing[t] => Fetching(t, x)' /\ frag[Here(t)][x] # Absent
      BY <1>1, <1>3, <1>4, <2>1 DEF Fetching, Stored, Engaged
    <3>3. ASSUME NEW r \in Ranks, Owner(r, x)'
          PROVE  /\ frag[r][x] # Absent
                 /\ frag[r][x] = latest[x] \/ \E u \in Tasks : Fetching(u, x)' /\ Here(u)' = r
      BY <1>4, <1>5, <1>6, <2>1, <3>2, <3>3 DEF Stored
    <3>4. latest[x] # Blank => \E r \in Ranks : Owner(r, x)'
      BY <1>6, <2>1 DEF Stored
    <3>5. QED
      BY <1>1, <1>4, <2>1, <3>1, <3>3, <3>4 DEF Stored
  <2>4. Collected(x)'
    <3>1. ASSUME x \in missing[t]
          PROVE  frag[Here(t)][x] = latest[x] \/ \E r \in Ranks \ {Here(t)} : Owner(r, x)
      <4>1. \A u \in Tasks : ~(Fetching(u, x) /\ Here(u) = Here(t))
        <5>1. ~Fetching(t, x) /\ Moving(t, x)
          BY <1>1, <1>3, <3>1 DEF Fetching, Moving
        <5>2. QED
          BY <5>1, MoverFacts
      <4>2. Owner(Here(t), x) => frag[Here(t)][x] = latest[x]
        BY <1>3, <2>1, <4>1 DEF Stored
      <4>3. frag[Here(t)][x] # Absent
        BY <1>1, <1>3, <2>1, <3>1 DEF Stored, Engaged
      <4>4. latest[x] = Blank => frag[Here(t)][x] = latest[x]
        BY <1>3, <2>1, <4>3 DEF Stored
      <4>5. QED
        BY <2>1, <4>2, <4>4 DEF Stored
    <3>2. ASSUME NEW u \in Tasks, pc'[u] = "collect", x \in missing[u]
          PROVE  \/ frag[Here(u)][x] = latest[x]
                 \/ \E r \in Ranks \ {Here(u)} : Owner(r, x)'
                 \/ \E r \in Ranks : x \in info[u][r]
      BY <1>1, <1>6, <2>1, <3>1, <3>2 DEF Collected
    <3>3. ASSUME NEW u \in Tasks, NEW r \in Ranks, pc'[u] = "collect", x \in info[u][r]
          PROVE  r # Here(u) /\ x \in Region(u) /\ frag[r][x] = latest[x] /\ ~Owner(r, x)'
      <4>1. u # t
        BY <1>3, <3>3 DEF Nowhere
      <4>2. QED
        BY <1>1, <2>1, <2>2, <3>3, <4>1 DEF Collected
    <3>4. QED
      BY <1>1, <1>4, <3>2, <3>3 DEF Collected
  <2>5. Brought(x)'
    <3>1. ASSUME NEW m \in transfers, m.stage = "save", x \in m.region
          PROVE  frag[m.src][x] = latest[x] /\ (m.migrate => ~Owner(m.src, x)')
      BY <1>0, <1>7, <2>1, <2>2, <3>1 DEF Brought, TransferInv
    <3>2. QED
      BY <1>1, <1>4, <2>1, <3>1 DEF Brought
  <2>6. Tracked(x)'
    BY <1>1, <1>4, <1>5, <1>6, <2>1 DEF Tracked
  <2>7. Located(x)'
    <3>1. \A f \in locs, r \in Ranks : x \in Region(f.task) => (Owner(r, x)' <=> Owner(r, x))
      BY <1>7, <2>2
    <3>2. QED
      BY <1>0, <1>1, <1>4, <2>1, <3>1, LocatedStays
  <2>8. QED
    BY <2>3, <2>4, <2>5, <2>6, <2>7 DEF DataInv
<1>11. QED
  BY <1>8, <1>9, <1>10 DEF PlacesInv

\* The transfers of a task: one from every other locality that has a part.
LEMMA TransfersFacts ==
  ASSUME NEW t \in Tasks, NEW loc \in Location, NEW migrate \in BOOLEAN
  PROVE  /\ \A m \in Transfers(t, loc, migrate) :
              /\ m.task = t /\ m.src \in Ranks \ {Here(t)} /\ m.region = loc[m.src]
              /\ m.stage = "save"
         /\ \A m, n \in Transfers(t, loc, migrate) : m.src = n.src => m = n
<1> DEFINE T(r) == [task |-> t, src |-> r, region |-> loc[r], migrate |-> migrate,
                    stage |-> "save", data |-> [x \in Elems |-> Absent]]
<1>1. \A m \in Transfers(t, loc, migrate) : \E r \in Ranks \ {Here(t)} : m = T(r)
  BY DEF Transfers
<1>2. \A r : /\ T(r).task = t /\ T(r).src = r /\ T(r).region = loc[r]
             /\ T(r).stage = "save"
  OBVIOUS
<1> HIDE DEF T
<1>3. QED
  BY <1>1, <1>2

LEMMA FetchStep ==
  ASSUME CoherenceInv, NEW t \in Tasks, acquire_fetch(t)
  PROVE  PlacesInv'
<1>0. TypeOK /\ OwnershipInv /\ StageInv /\ TransferInv /\ ActivationInv
  BY Basics
<1>1. /\ pc[t] = "collect" /\ pc'[t] = "transfer"
      /\ \A c \in calls : c.task # t
      /\ \A c \in casts : c.task # t
      /\ \A u \in Tasks \ {t} : pc'[u] = pc[u]
      /\ transfers' = transfers \cup Transfers(t, info[t], TRUE)
      /\ UNCHANGED <<full, cache, frag, latest, missing, info, casts, locs, calls, at, req>>
  BY <1>0 DEF acquire_fetch, entry, taskVars, TypeOK
<1>2. Stands(t)
  BY <1>1 DEF Stands
<1>3. /\ Writes(t) /\ missing[t] \subseteq Region(t) /\ Region(t) \subseteq full[at[t]] /\ at[t] \in Leaves
      /\ Here(t) \in Ranks /\ Leaf[Here(t)] = at[t]
  BY <1>0, <1>1, HereFacts DEF StageInv, OwnershipInv, AcquiredInv, TaskInv
<1>4. \A u : Here(u)' = Here(u) /\ Region(u)' = Region(u) /\ Writes(u)' = Writes(u)
  BY <1>2, StandsFacts
<1>5. \A u \in Tasks : \A x : /\ Moving(u, x)' <=> Moving(u, x)
                              /\ Fetching(u, x)' <=> Fetching(u, x)
  BY <1>1, <1>2, <1>4, StandsFacts DEF Moving, Fetching
<1>6. \A r : \A x : Owner(r, x)' <=> Owner(r, x)
  BY <1>1 DEF Owner
<1>7. /\ \A c \in casts : c.task \in Tasks \ {t}
      /\ \A m \in transfers : m.task \in Tasks \ {t} /\ m.src \in Ranks
      /\ \A f \in locs : f.task \in Tasks \ {t}
  BY <1>0, <1>1, CallTypes DEF TransferInv, ActivationInv
<1>8. /\ \A m \in Transfers(t, info[t], TRUE) :
           /\ m.task = t /\ m.src \in Ranks \ {Here(t)} /\ m.region = info[t][m.src] /\ m.migrate = TRUE
           /\ m.stage = "save"
      /\ \A m, n \in Transfers(t, info[t], TRUE) : m.src = n.src => m = n
      /\ \A r \in Ranks \ {Here(t)} : info[t][r] # {} => \E m \in Transfers(t, info[t], TRUE) : m.src = r
  <2>1. info[t] \in Location
    BY <1>0 DEF TypeOK
  <2>2. \A m \in Transfers(t, info[t], TRUE) : m.migrate = TRUE
    BY DEF Transfers
  <2>3. \A m \in Transfers(t, info[t], TRUE) :
           m.task = t /\ m.src \in Ranks \ {Here(t)} /\ m.region = info[t][m.src] /\ m.stage = "save"
    BY <2>1, TransfersFacts
  <2>4. \A m, n \in Transfers(t, info[t], TRUE) : m.src = n.src => m = n
    BY <2>1, TransfersFacts
  <2>5. ASSUME NEW r \in Ranks \ {Here(t)}, info[t][r] # {}
        PROVE  \E m \in Transfers(t, info[t], TRUE) : m.src = r
    <3>1. PICK m : m = [task |-> t, src |-> r, region |-> info[t][r], migrate |-> TRUE,
                        stage |-> "save", data |-> [x \in Elems |-> Absent]]
      OBVIOUS
    <3>2. m \in Transfers(t, info[t], TRUE)
      BY <2>5, <3>1 DEF Transfers
    <3>3. QED
      BY <3>1, <3>2
  <2>6. QED
    BY <2>2, <2>3, <2>4, <2>5, Zenon
<1>9. \A r \in Ranks : info[t][r] \subseteq Elems
  BY <1>0 DEF TypeOK, Location
<1>10. ASSUME NEW x \in Elems, NEW r \in Ranks, x \in info[t][r]
       PROVE  /\ r # Here(t) /\ x \in Region(t) /\ frag[r][x] = latest[x] /\ ~Owner(r, x)
              /\ \E m \in transfers' : m.task = t /\ x \in m.region
  <2>1. r # Here(t) /\ x \in Region(t) /\ frag[r][x] = latest[x] /\ ~Owner(r, x)
    BY <1>1, <1>10, Basics DEF Collected
  <2>2. PICK m \in Transfers(t, info[t], TRUE) : m.src = r
    BY <1>8, <1>10, <2>1
  <2>3. QED
    BY <1>1, <1>8, <1>10, <2>1, <2>2
<1>11. StageInv'
  BY <1>0, <1>1, <1>4, <1>7 DEF StageInv
<1>12. TransferInv'
  <2>1. \A m \in Transfers(t, info[t], TRUE) : m.region \subseteq Region(t)
    BY <1>8, <1>9, <1>10
  <2>2. \A m \in transfers' : /\ pc'[m.task] = "transfer" /\ m.region \subseteq Region(m.task)'
                              /\ m.src # Here(m.task)' /\ (m.migrate <=> Writes(m.task)')
    <3>1. ASSUME NEW m \in transfers
          PROVE  /\ pc'[m.task] = "transfer" /\ m.region \subseteq Region(m.task)'
                 /\ m.src # Here(m.task)' /\ (m.migrate <=> Writes(m.task)')
      BY <1>0, <1>1, <1>4, <1>7 DEF TransferInv
    <3>2. pc'[t] = "transfer" /\ Writes(t)' /\ Region(t)' = Region(t) /\ Here(t)' = Here(t)
      BY <1>1, <1>3, <1>4
    <3>3. ASSUME NEW m \in Transfers(t, info[t], TRUE)
          PROVE  /\ pc'[m.task] = "transfer" /\ m.region \subseteq Region(m.task)'
                 /\ m.src # Here(m.task)' /\ (m.migrate <=> Writes(m.task)')
      <4>1. pc'[m.task] = "transfer" /\ m.region \subseteq Region(m.task)' /\ m.src # Here(m.task)'
        <5>1. m.task = t /\ m.src # Here(t) /\ m.region \subseteq Region(t)
          BY <1>8, <2>1, <3>3, Zenon
        <5>2. QED
          BY <3>2, <5>1
      <4>2. m.migrate /\ Writes(m.task)'
        BY <1>8, <3>2, <3>3, Zenon
      <4>3. QED
        BY <4>1, <4>2, Zenon
    <3>4. QED
      BY <1>1, <3>1, <3>3
  <2>3. ASSUME NEW m \in transfers', NEW n \in transfers', m.task = n.task, m.src = n.src
        PROVE  m = n
    <3>1. CASE m.task = t
      BY <1>1, <1>7, <1>8, <2>3, <3>1
    <3>2. CASE m.task # t
      BY <1>0, <1>1, <1>8, <2>3, <3>2 DEF TransferInv
    <3>3. QED
      BY <3>1, <3>2
  <2>4. QED
    BY <2>2, <2>3 DEF TransferInv
<1>13. ActivationInv'
  <2>1. \A f \in locs : pc'[f.task] = pc[f.task]
    BY <1>1, <1>7
  <2>2. QED
    BY <1>0, <1>1, <1>4, <2>1 DEF ActivationInv
<1>14. ASSUME NEW x \in Elems PROVE DataInv(x)'
  <2>1. Stored(x) /\ Collected(x) /\ Brought(x) /\ Tracked(x) /\ Located(x)
    BY Basics
  <2>2. Stored(x)'
    <3>1. \A u \in Tasks : pc'[u] \in Engaged => pc[u] \in Engaged
      BY <1>1 DEF Engaged
    <3>2. QED
      BY <1>1, <1>4, <1>5, <1>6, <2>1, <3>1 DEF Stored
  <2>3. Collected(x)'
    BY <1>1, <1>4, <1>6, <2>1 DEF Collected
  <2>4. Brought(x)'
    <3>1. ASSUME x \in Region(t)
          PROVE  frag[Here(t)][x] = latest[x] \/ \E m \in transfers' : m.task = t /\ x \in m.region
      <4>1. Owner(Here(t), x)
        BY <1>3, <3>1 DEF Owner
      <4>2. CASE x \in missing[t]
        <5>1. \A r \in Ranks \ {Here(t)} : ~Owner(r, x)
          <6>1. \A c \in calls : x \notin c.region
            BY <1>0, <1>1, <3>1, OneActor
          <6>2. QED
            BY <1>0, <1>3, <4>1, <6>1, OneOwnerInv DEF OneOwner, Owner
        <5>2. QED
          BY <1>1, <1>10, <2>1, <4>2, <5>1 DEF Collected
      <4>3. CASE x \notin missing[t]
        <5>1. \A u \in Tasks : ~Fetching(u, x)
          BY <3>1, <4>3, MoverFacts DEF Fetching
        <5>2. QED
          BY <1>3, <2>1, <4>1, <5>1 DEF Stored
      <4>4. QED
        BY <4>2, <4>3
    <3>2. ASSUME NEW u \in Tasks, pc'[u] = "transfer", x \in Region(u)
          PROVE  frag[Here(u)][x] = latest[x] \/ \E m \in transfers' : m.task = u /\ x \in m.region
      BY <1>1, <2>1, <3>1, <3>2 DEF Brought
    <3>3. ASSUME NEW u \in Tasks, pc'[u] = "running", x \in Region(u)
          PROVE  frag[Here(u)][x] = latest[x]
      BY <1>1, <2>1, <3>3 DEF Brought
    <3>4. ASSUME NEW m \in Transfers(t, info[t], TRUE)
          PROVE  /\ m.stage # "load"
                 /\ x \in m.region => frag[m.src][x] = latest[x] /\ ~Owner(m.src, x)
      BY <1>8, <1>10, <3>4
    <3>5. QED
      BY <1>1, <1>4, <1>6, <2>1, <3>2, <3>3, <3>4 DEF Brought
  <2>5. Tracked(x)' /\ Located(x)'
    BY <1>1, <1>4, <1>5, <1>6, <2>1 DEF Tracked, Located, Callees
  <2>6. QED
    BY <2>2, <2>3, <2>4, <2>5 DEF DataInv
<1>15. QED
  BY <1>11, <1>12, <1>13, <1>14 DEF PlacesInv

(***************************************************************************)
(* A task has run: the last value of its region is its own.                *)
(***************************************************************************)
LEMMA FinalizeStep ==
  ASSUME CoherenceInv, NEW t \in Tasks, finalize(t)
  PROVE  PlacesInv'
<1>0. TypeOK /\ OwnershipInv /\ StageInv /\ TransferInv /\ ActivationInv
  BY Basics
<1>1. /\ pc[t] = "running" /\ pc'[t] = "done" /\ missing'[t] = {} /\ info'[t] = Nowhere
      /\ Region(t)' = {}
      /\ \A u \in Tasks \ {t} : /\ pc'[u] = pc[u] /\ at'[u] = at[u] /\ req'[u] = req[u]
                                /\ missing'[u] = missing[u] /\ info'[u] = info[u]
      /\ UNCHANGED <<full, cache, casts, locs, transfers, calls>>
  BY <1>0 DEF finalize, Forget, entry, Region, NoRequirement, TypeOK
<1>2. \A u \in Tasks \ {t} : Here(u)' = Here(u) /\ Region(u)' = Region(u) /\ Writes(u)' = Writes(u)
  BY <1>1 DEF Here, Region, Writes
<1>3. \A u \in Tasks \ {t} : \A x : /\ Moving(u, x)' <=> Moving(u, x)
                                    /\ Fetching(u, x)' <=> Fetching(u, x)
  BY <1>1, <1>2 DEF Moving, Fetching
<1>4. \A x : ~Moving(t, x)' /\ ~Fetching(t, x) /\ ~Fetching(t, x)'
  BY <1>1 DEF Moving, Fetching
<1>5. \A r : \A x : Owner(r, x)' <=> Owner(r, x)
  BY <1>1 DEF Owner
<1>6. /\ \A c \in casts : c.task \in Tasks \ {t}
      /\ \A c \in calls : c.task \in Tasks \ {t}
      /\ \A m \in transfers : m.task \in Tasks \ {t} /\ m.src \in Ranks
      /\ \A f \in locs : f.task \in Tasks \ {t}
  BY <1>0, <1>1, CallTypes DEF StageInv, TransferInv, ActivationInv, OwnershipInv, CallInv
<1>7. Writes(t) => /\ at[t] \in Leaves /\ Leaf[Here(t)] = at[t] /\ Region(t) \subseteq full[at[t]]
                   /\ Here(t) \in Ranks
  BY <1>0, <1>1, HereFacts DEF OwnershipInv, AcquiredInv, TaskInv
<1>8. StageInv'
  BY <1>0, <1>1, <1>2, <1>6 DEF StageInv
<1>9. TransferInv'
  BY <1>0, <1>1, <1>2, <1>6 DEF TransferInv
<1>10. ActivationInv'
  <2>1. \A f \in locs : pc'[f.task] = pc[f.task] /\ Region(f.task)' = Region(f.task)
    BY <1>1, <1>2, <1>6
  <2>2. QED
    BY <1>0, <1>1, <2>1 DEF ActivationInv
<1>11. ASSUME NEW x \in Elems PROVE DataInv(x)'
  <2>1. Stored(x) /\ Collected(x) /\ Brought(x) /\ Tracked(x) /\ Located(x)
    BY Basics
  <2>2. CASE ~(Writes(t) /\ x \in Region(t))
    <3>1. latest'[x] = latest[x] /\ \A r \in Ranks : frag'[r][x] = frag[r][x]
      <4>1. CASE Writes(t)
        <5>1. /\ latest' = [y \in Elems |-> IF y \in Region(t) THEN t ELSE latest[y]]
              /\ frag' = [frag EXCEPT ![Here(t)] =
                            [y \in Elems |-> IF y \in Region(t) /\ @[y] # Absent THEN t ELSE @[y]]]
          BY <4>1 DEF finalize
        <5>2. frag \in [Ranks -> [Elems -> Values]] /\ x \notin Region(t)
          BY <1>0, <2>2, <4>1 DEF TypeOK
        <5>3. QED
          BY <5>1, <5>2
      <4>2. CASE ~Writes(t)
        BY <4>2 DEF finalize
      <4>3. QED
        BY <4>1, <4>2
    <3>2. Moving(t, x) => FALSE
      BY <2>2, MoverFacts
    <3>3. Stored(x)'
      <4>1. \A u \in Tasks : pc'[u] \in Engaged => u # t
        BY <1>1 DEF Engaged
      <4>2. \A u \in Tasks : pc'[u] \in Engaged /\ x \in Region(u)' => frag[Here(u)'][x] # Absent /\ Here(u)' \in Ranks
        BY <1>0, <1>1, <1>2, <2>1, <4>1, HereFacts DEF Stored
      <4>3. \A r \in Ranks : Owner(r, x) =>
              frag[r][x] = latest[x] \/ \E u \in Tasks : Fetching(u, x)' /\ Here(u)' = r
        BY <1>2, <1>3, <1>4, <2>1 DEF Stored
      <4>4. QED
        BY <1>5, <2>1, <3>1, <4>2, <4>3 DEF Stored
    <3>4. Collected(x)'
      <4>1. \A u \in Tasks : pc'[u] = "collect" =>
              /\ u # t /\ pc[u] = "collect" /\ missing'[u] = missing[u] /\ info'[u] = info[u]
              /\ Here(u)' = Here(u) /\ Region(u)' = Region(u) /\ Here(u) \in Ranks
        BY <1>0, <1>1, <1>2, HereFacts
      <4>2. QED
        BY <1>5, <2>1, <3>1, <4>1 DEF Collected
    <3>5. Brought(x)'
      <4>1. \A u \in Tasks : pc'[u] \in {"transfer", "running"} =>
              /\ u # t /\ pc'[u] = pc[u]
              /\ Here(u)' = Here(u) /\ Region(u)' = Region(u) /\ Here(u) \in Ranks
        BY <1>0, <1>1, <1>2, HereFacts
      <4>2. QED
        BY <1>1, <1>5, <1>6, <2>1, <3>1, <4>1 DEF Brought
    <3>6. Tracked(x)'
      BY <1>1, <1>2, <1>3, <1>4, <1>5, <2>1, <3>2 DEF Tracked
    <3>7. Located(x)'
      <4>1. \A f \in locs : Region(f.task)' = Region(f.task)
        BY <1>2, <1>6
      <4>2. QED
        BY <1>0, <1>1, <1>5, <2>1, <4>1, LocatedStays
    <3>8. QED
      BY <3>3, <3>4, <3>5, <3>6, <3>7 DEF DataInv
  <2>3. CASE Writes(t) /\ x \in Region(t)
    <3>1. latest'[x] = t /\ frag'[Here(t)][x] = t /\ t # Blank /\ t # Absent
      <4>1. frag[Here(t)][x] # Absent
        BY <1>1, <2>1, <2>3 DEF Stored, Engaged
      <4>2. QED
        BY <1>0, <1>7, <2>3, <4>1, ValuesAssumption DEF finalize, TypeOK
    <3>2. \A u \in Tasks \ {t} : x \notin Region(u)
      BY <1>0, <2>3, OneWriter
    <3>3. \A u \in Tasks \ {t} : x \notin missing[u] /\ ~Moving(u, x)
      BY <1>0, <3>2 DEF StageInv, Moving
    <3>4. \A r \in Ranks : Owner(r, x) <=> r = Here(t)
      BY <1>0, <1>1, <2>3, WriterInv DEF WriterOwns, Owner
    <3>5. \A m \in transfers : x \notin m.region
      BY <1>0, <1>6, <3>2 DEF TransferInv
    <3>6. Stored(x)'
      <4>1. \A u \in Tasks : x \notin Region(u)'
        BY <1>1, <1>2, <3>2
      <4>2. QED
        BY <1>5, <1>7, <2>3, <3>1, <3>4, <4>1 DEF Stored
    <3>7. Collected(x)'
      <4>1. \A u \in Tasks : pc'[u] = "collect" => u # t /\ pc[u] = "collect" /\ x \notin missing'[u]
        BY <1>1, <3>3
      <4>2. ASSUME NEW u \in Tasks, NEW r \in Ranks, pc'[u] = "collect", x \in info'[u][r]
            PROVE  FALSE
        BY <1>1, <2>1, <3>2, <4>1, <4>2 DEF Collected
      <4>3. QED
        BY <4>1, <4>2 DEF Collected
    <3>8. Brought(x)'
      <4>1. \A u \in Tasks : x \notin Region(u)'
        BY <1>1, <1>2, <3>2
      <4>2. QED
        BY <1>1, <2>1, <3>5, <4>1 DEF Brought
    <3>9. Tracked(x)'
      <4>1. ASSUME NEW a \in Addr, NEW r \in Ranks, x \in cache[a][r]
            PROVE  Owner(r, x)
        <5>1. Moving(t, x) => r = Here(t)
          BY <1>6, <2>1, <4>1 DEF Tracked
        <5>2. QED
          BY <2>1, <3>3, <3>4, <4>1, <5>1 DEF Tracked
      <4>2. \A u \in Tasks : ~Moving(u, x)'
        BY <1>3, <1>4, <3>3
      <4>3. QED
        BY <1>1, <1>5, <4>1, <4>2 DEF Tracked
    <3>10. Located(x)'
      <4>1. \A f \in locs : Region(f.task)' = Region(f.task)
        BY <1>2, <1>6
      <4>2. QED
        BY <1>0, <1>1, <1>5, <2>1, <4>1, LocatedStays
    <3>11. QED
      BY <3>6, <3>7, <3>8, <3>9, <3>10 DEF DataInv
  <2>4. QED
    BY <2>2, <2>3
<1>12. QED
  BY <1>8, <1>9, <1>10, <1>11 DEF PlacesInv

(***************************************************************************)
(* The broadcast of a coming change of location.                           *)
(***************************************************************************)
LEMMA UpdateFacts ==
  ASSUME NEW loc \in Location, NEW to \in Ranks, NEW region \in SUBSET Elems, NEW x, NEW r \in Ranks,
         x \in UpdateLocation(loc, to, region)[r]
  PROVE  /\ x \in region => r = to
         /\ x \notin region => x \in loc[r]
         /\ \E s \in Ranks : x \in loc[s]
<1> DEFINE known == region \cap UNION {loc[s] : s \in Ranks}
<1>1. known \subseteq region /\ \A y \in known : \E s \in Ranks : y \in loc[s]
  OBVIOUS
<1>2. UpdateLocation(loc, to, region)[r] = IF r = to THEN (loc[r] \ region) \cup known ELSE loc[r] \ region
  BY DEF UpdateLocation
<1> HIDE DEF known
<1>3. QED
  BY <1>1, <1>2

LEMMA UpdateStep ==
  ASSUME CoherenceInv, NEW c \in casts, update_cache(c)
  PROVE  PlacesInv'
<1>0. TypeOK /\ OwnershipInv /\ StageInv /\ TransferInv /\ ActivationInv
  BY Basics
<1>1. /\ casts' = casts \ {c}
      /\ cache' = [a \in Addr |-> IF Rank[a] = c.rank
                                  THEN UpdateLocation(cache[a], c.to, c.region)
                                  ELSE cache[a]]
      /\ UNCHANGED <<full, frag, latest, missing, info, locs, transfers, calls, pc, at, req>>
  BY DEF update_cache, entry, taskVars
<1>2. /\ \A u : Here(u)' = Here(u) /\ Region(u)' = Region(u) /\ Writes(u)' = Writes(u)
      /\ \A u, x : (Moving(u, x)' <=> Moving(u, x)) /\ (Fetching(u, x)' <=> Fetching(u, x))
      /\ \A r, x : Owner(r, x)' <=> Owner(r, x)
  BY <1>1 DEF Here, Region, Writes, Moving, Fetching, Owner
<1>3. /\ c.task \in Tasks /\ c.region \subseteq Elems /\ c.to \in Ranks
      /\ pc[c.task] \in {"own", "collect"} /\ Writes(c.task)
      /\ c.region = missing[c.task] /\ c.to = Here(c.task)
  BY <1>0, CallTypes DEF StageInv
<1>4. StageInv' /\ TransferInv' /\ ActivationInv'
  BY <1>0, <1>1, <1>2 DEF StageInv, TransferInv, ActivationInv
<1>5. ASSUME NEW x \in Elems PROVE DataInv(x)'
  <2>1. Stored(x) /\ Collected(x) /\ Brought(x) /\ Tracked(x) /\ Located(x)
    BY Basics
  <2>2. Stored(x)' /\ Collected(x)' /\ Brought(x)' /\ Located(x)'
    BY <1>1, <1>2, <2>1 DEF Stored, Collected, Brought, Located, Callees
  <2>3. x \in c.region => Moving(c.task, x)
    BY <1>3 DEF Moving
  <2>4. ASSUME NEW a \in Addr, NEW r \in Ranks, x \in cache'[a][r]
        PROVE  /\ \A t \in Tasks : Moving(t, x) =>
                    r = Here(t) \/ \E d \in casts' : d.task = t /\ d.rank = Rank[a]
               /\ Owner(r, x) \/ \E t \in Tasks : Moving(t, x)
    <3>1. CASE x \in c.region
      <4>1. CASE Rank[a] = c.rank
        <5>1. r = Here(c.task)
          <6>1. x \in UpdateLocation(cache[a], c.to, c.region)[r] /\ cache[a] \in Location
            BY <1>0, <1>1, <2>4, <4>1 DEF TypeOK
          <6>2. QED
            BY <1>3, <3>1, <6>1, UpdateFacts
        <5>2. QED
          BY <1>3, <2>3, <3>1, <5>1, MoverFacts
      <4>2. CASE Rank[a] # c.rank
        <5>1. x \in cache[a][r]
          BY <1>1, <2>4, <4>2
        <5>2. QED
          BY <1>1, <1>3, <2>1, <4>2, <5>1 DEF Tracked
      <4>3. QED
        BY <4>1, <4>2
    <3>2. CASE x \notin c.region
      <4>1. x \in cache[a][r]
        <5>1. CASE Rank[a] = c.rank
          <6>1. x \in UpdateLocation(cache[a], c.to, c.region)[r] /\ cache[a] \in Location
            BY <1>0, <1>1, <2>4, <5>1 DEF TypeOK
          <6>2. QED
            BY <1>3, <3>2, <6>1, UpdateFacts
        <5>2. CASE Rank[a] # c.rank
          BY <1>1, <2>4, <5>2
        <5>3. QED
          BY <5>1, <5>2
      <4>2. \A t \in Tasks : Moving(t, x) => t # c.task
        BY <1>3, <3>2 DEF Moving
      <4>3. QED
        BY <1>1, <2>1, <4>1, <4>2 DEF Tracked
    <3>3. QED
      BY <3>1, <3>2
  <2>5. Tracked(x)'
    BY <1>2, <2>4 DEF Tracked
  <2>6. QED
    BY <2>2, <2>5 DEF DataInv
<1>6. QED
  BY <1>4, <1>5 DEF PlacesInv

(***************************************************************************)
(* A leaf gives its elements up.                                           *)
(***************************************************************************)
LEMMA GiveUpStep ==
  ASSUME CoherenceInv, NEW c \in calls, collect_leaf_ownership(c)
  PROVE  PlacesInv'
<1>0. TypeOK /\ OwnershipInv /\ StageInv /\ TransferInv /\ ActivationInv
  BY Basics
<1> DEFINE s == Rank[c.at]
           w == c.task
<1>1. /\ c.op = "collect" /\ c.at \in Leaves
      /\ full' = [full EXCEPT ![c.at] = @ \ c.region]
      /\ info' = IF c.region \subseteq Covered(s)
                 THEN [info EXCEPT ![w][s] = @ \cup c.region] ELSE info
      /\ calls' = calls \ {c}
      /\ UNCHANGED <<cache, frag, latest, pc, at, req, missing, casts, locs, transfers>>
  BY DEF collect_leaf_ownership, taskVars
<1>2. /\ w \in Tasks /\ c.region \subseteq Elems /\ pc[w] = "collect" /\ c.region \subseteq missing[w]
      /\ s \in Ranks /\ Leaf[s] = c.at /\ at[w] # c.at /\ Writes(w) /\ at[w] \in Leaves
      /\ c.region \subseteq full[c.at] /\ c.region \subseteq Region(w)
      /\ Region(w) \subseteq full[at[w]] /\ Here(w) \in Ranks /\ Leaf[Here(w)] = at[w]
  <2>1. w \in Tasks /\ c.region \subseteq Elems /\ c.at \in Addr
    BY <1>0, CallTypes
  <2>2. pc[w] = "collect" /\ c.region \subseteq missing[w] /\ c.region \subseteq Region(w)
    BY <1>0, <2>1 DEF StageInv, OwnershipInv, CallInv
  <2>3. Writes(w) /\ at[w] \in Leaves /\ Region(w) \subseteq full[at[w]]
    BY <1>0, <2>1, <2>2 DEF OwnershipInv, AcquiredInv, TaskInv
  <2>4. s \in Ranks /\ Leaf[s] = c.at
    BY <1>1, <2>1, TreeFacts DEF Leaves
  <2>5. at[w] # c.at
    BY <1>0, <1>1, <2>1, PathFacts DEF OwnershipInv, CallInv
  <2>6. c.region \subseteq full[c.at]
    BY <1>0, <1>1, CollectsInv DEF CollectsWhatIsHeld
  <2>7. QED
    BY <1>0, <2>1, <2>2, <2>3, <2>4, <2>5, <2>6, HereFacts
<1>3. s # Here(w)
  BY <1>2
<1> HIDE DEF s, w
<1>4. /\ \A u : Here(u)' = Here(u) /\ Region(u)' = Region(u) /\ Writes(u)' = Writes(u)
      /\ \A u, x : (Moving(u, x)' <=> Moving(u, x)) /\ (Fetching(u, x)' <=> Fetching(u, x))
  BY <1>1 DEF Here, Region, Writes, Moving, Fetching
<1>5. \A r \in Ranks : \A x : Owner(r, x)' <=> Owner(r, x) /\ ~(r = s /\ x \in c.region)
  BY <1>0, <1>1, <1>2, TreeFacts, HereFacts DEF Owner, TypeOK
<1>6. ASSUME NEW x \in c.region
      PROVE  /\ x \in Elems /\ x \in Region(w) /\ Owner(s, x) /\ Owner(Here(w), x) /\ Moving(w, x)
             /\ frag[s][x] = latest[x] /\ frag[s][x] # Absent
  <2>1. x \in Elems /\ Owner(s, x) /\ Owner(Here(w), x) /\ Moving(w, x) /\ x \in Region(w)
    BY <1>2, <1>6 DEF Owner, Moving
  <2>2. \A u \in Tasks : ~(Fetching(u, x) /\ Here(u) = s)
    BY <1>2, <1>3, <2>1, MoverFacts
  <2>3. Stored(x)
    BY <2>1, Basics
  <2>4. QED
    BY <1>2, <2>1, <2>2, <2>3 DEF Stored
<1>7. info' = [info EXCEPT ![w][s] = @ \cup c.region]
  <2>1. c.region \subseteq Covered(s)
    BY <1>2, <1>6 DEF Covered
  <2>2. QED
    BY <1>1, <2>1
<1>8. \A u \in Tasks, r \in Ranks : info'[u][r] = IF u = w /\ r = s THEN info[w][s] \cup c.region
                                                  ELSE info[u][r]
  BY <1>0, <1>2, <1>7 DEF TypeOK, Location
<1>9. \A u \in Tasks : u # w => info'[u] = info[u]
  BY <1>0, <1>2, <1>7 DEF TypeOK
<1>10. StageInv' /\ TransferInv' /\ ActivationInv'
  BY <1>0, <1>1, <1>2, <1>4, <1>9 DEF StageInv, TransferInv, ActivationInv
<1>11. ASSUME NEW x \in Elems PROVE DataInv(x)'
  <2>1. Stored(x) /\ Collected(x) /\ Brought(x) /\ Tracked(x) /\ Located(x)
    BY Basics
  <2>2. Stored(x)'
    <3>1. latest[x] # Blank => \E r \in Ranks : Owner(r, x)'
      BY <1>2, <1>3, <1>5, <1>6, <2>1 DEF Stored
    <3>2. QED
      BY <1>1, <1>4, <1>5, <2>1, <3>1 DEF Stored
  <2>3. Collected(x)'
    <3>1. ASSUME NEW u \in Tasks, pc[u] = "collect", x \in missing[u]
          PROVE  \/ frag[Here(u)][x] = latest[x]
                 \/ \E r \in Ranks \ {Here(u)} : Owner(r, x)'
                 \/ \E r \in Ranks : x \in info'[u][r]
      <4>1. CASE x \in c.region
        <5>1. u = w
          <6>1. x \in Region(u) /\ x \in Region(w)
            BY <1>0, <1>6, <3>1, <4>1 DEF StageInv
          <6>2. QED
            BY <1>0, <1>2, <6>1, OneWriter
        <5>2. x \in info'[u][s]
          BY <1>2, <1>8, <4>1, <5>1
        <5>3. QED
          BY <1>2, <5>2
      <4>2. CASE x \notin c.region
        BY <1>5, <1>8, <2>1, <3>1, <4>2 DEF Collected
      <4>3. QED
        BY <4>1, <4>2
    <3>2. ASSUME NEW u \in Tasks, NEW r \in Ranks, pc[u] = "collect", x \in info'[u][r]
          PROVE  r # Here(u) /\ x \in Region(u) /\ frag[r][x] = latest[x] /\ ~Owner(r, x)'
      <4>1. CASE x \in info[u][r]
        BY <1>5, <2>1, <3>2, <4>1 DEF Collected
      <4>2. CASE x \notin info[u][r]
        <5>1. u = w /\ r = s /\ x \in c.region
          BY <1>8, <3>2, <4>2
        <5>2. QED
          BY <1>2, <1>3, <1>5, <1>6, <5>1
      <4>3. QED
        BY <4>1, <4>2
    <3>3. QED
      BY <1>1, <1>4, <3>1, <3>2 DEF Collected
  <2>4. Brought(x)'
    <3>1. \A m \in transfers : m.src \in Ranks
      BY <1>0, CallTypes
    <3>2. QED
      BY <1>1, <1>4, <1>5, <2>1, <3>1 DEF Brought
  <2>5. Tracked(x)'
    BY <1>1, <1>2, <1>4, <1>5, <1>6, <2>1 DEF Tracked
  <2>6. Located(x)'
    <3>1. \A f \in locs : f.task \in Tasks /\ f.task # w
      BY <1>0, <1>2, CallTypes DEF ActivationInv
    <3>2. \A f \in locs, r \in Ranks : x \in Region(f.task) => (Owner(r, x)' <=> Owner(r, x))
      BY <1>0, <1>2, <1>5, <3>1, OneWriter
    <3>3. QED
      BY <1>0, <1>1, <1>4, <2>1, <3>2, LocatedStays
  <2>7. QED
    BY <2>2, <2>3, <2>4, <2>5, <2>6 DEF DataInv
<1>12. QED
  BY <1>10, <1>11 DEF PlacesInv

(***************************************************************************)
(* The data moves.                                                         *)
(***************************************************************************)
LEMMA SaveStep ==
  ASSUME CoherenceInv, NEW m \in transfers, data_item_view_save(m)
  PROVE  PlacesInv'
<1>0. TypeOK /\ OwnershipInv /\ StageInv /\ TransferInv /\ ActivationInv
  BY Basics
<1>1. /\ m.task \in Tasks /\ m.src \in Ranks /\ m.region \subseteq Elems /\ m \in Transfer
      /\ pc[m.task] = "transfer" /\ m.region \subseteq Region(m.task)
      /\ m.src # Here(m.task) /\ (m.migrate <=> Writes(m.task))
  BY <1>0, CallTypes DEF TransferInv, TypeOK
<1>2. m.stage = "save"
  BY DEF data_item_view_save
<1>3. \A x \in m.region : /\ frag[m.src][x] = latest[x] /\ frag[m.src][x] # Absent
                          /\ m.migrate => ~Owner(m.src, x)
  BY <1>0, <1>1, <1>2, Basics, Written DEF Brought
<1>4. m.region \subseteq Covered(m.src)
  BY <1>1, <1>3 DEF Covered
<1>5. PICK n : n = [m EXCEPT !.stage = "load",
                             !.data = [x \in Elems |-> IF x \in m.region THEN frag[m.src][x] ELSE Absent]]
  OBVIOUS
<1>6. /\ n.task = m.task /\ n.src = m.src /\ n.region = m.region /\ n.migrate = m.migrate
      /\ n.stage = "load"
      /\ n.data = [x \in Elems |-> IF x \in m.region THEN frag[m.src][x] ELSE Absent]
  BY <1>1, <1>5 DEF Transfer
<1>7. /\ transfers' = (transfers \ {m}) \cup {n}
      /\ frag' = IF m.migrate
                 THEN [frag EXCEPT ![m.src] = [x \in Elems |-> IF x \in m.region THEN Absent ELSE @[x]]]
                 ELSE frag
      /\ UNCHANGED <<full, cache, latest, missing, info, casts, locs, calls, pc, at, req>>
  BY <1>4, <1>5 DEF data_item_view_save, entry, taskVars
<1>8. \A r \in Ranks, x \in Elems :
        frag'[r][x] = IF m.migrate /\ r = m.src /\ x \in m.region THEN Absent ELSE frag[r][x]
  BY <1>0, <1>1, <1>7 DEF TypeOK
<1>9. /\ \A u : Here(u)' = Here(u) /\ Region(u)' = Region(u) /\ Writes(u)' = Writes(u)
      /\ \A u, x : (Moving(u, x)' <=> Moving(u, x)) /\ (Fetching(u, x)' <=> Fetching(u, x))
      /\ \A r, x : Owner(r, x)' <=> Owner(r, x)
  BY <1>7 DEF Here, Region, Writes, Moving, Fetching, Owner
<1>10. StageInv' /\ ActivationInv'
  BY <1>0, <1>7, <1>9 DEF StageInv, ActivationInv
<1>11. TransferInv'
  <2>1. \A k \in transfers' : \E l \in transfers : /\ k.task = l.task /\ k.src = l.src /\ k.region = l.region
                                                   /\ k.migrate = l.migrate
    BY <1>6, <1>7
  <2>2. \A k, l \in transfers' : k.task = l.task /\ k.src = l.src => k = l
    BY <1>0, <1>6, <1>7 DEF TransferInv
  <2>3. \A k \in transfers' : /\ pc'[k.task] = "transfer" /\ k.region \subseteq Region(k.task)'
                              /\ k.src # Here(k.task)' /\ (k.migrate <=> Writes(k.task)')
    BY <1>0, <1>1, <1>6, <1>7, <1>9 DEF TransferInv
  <2>4. QED
    BY <2>2, <2>3 DEF TransferInv
<1>12. ASSUME NEW x \in Elems PROVE DataInv(x)'
  <2>1. Stored(x) /\ Collected(x) /\ Brought(x) /\ Tracked(x) /\ Located(x)
    BY Basics
  \* Nobody else uses what migrates.
  <2>2. ASSUME NEW u \in Tasks, x \in Region(u), NEW r \in Ranks, r # m.src \/ u # m.task
        PROVE  frag'[r][x] = frag[r][x]
    BY <1>0, <1>1, <1>8, <2>2, OneWriter
  <2>3. ASSUME NEW u \in Tasks, x \in Region(u)
        PROVE  Here(u) \in Ranks /\ frag'[Here(u)][x] = frag[Here(u)][x]
    BY <1>0, <1>1, <2>2, <2>3, HereFacts
  <2>4. ASSUME NEW r \in Ranks, Owner(r, x)
        PROVE  frag'[r][x] = frag[r][x]
    BY <1>3, <1>8, <2>4
  <2>5. Stored(x)'
    BY <1>7, <1>8, <1>9, <2>1, <2>3, <2>4 DEF Stored
  <2>6. Collected(x)'
    <3>1. \A u \in Tasks : x \in missing[u] => x \in Region(u)
      BY <1>0 DEF StageInv
    <3>2. \A u \in Tasks, r \in Ranks : pc[u] = "collect" /\ x \in Region(u) => frag'[r][x] = frag[r][x]
      BY <1>1, <2>2
    <3>3. QED
      BY <1>7, <1>9, <2>1, <2>3, <3>1, <3>2 DEF Collected
  <2>7. Brought(x)'
    <3>1. ASSUME NEW u \in Tasks, pc[u] = "transfer", x \in Region(u)
          PROVE  frag'[Here(u)][x] = latest[x] \/ \E k \in transfers' : k.task = u /\ x \in k.region
      <4>1. CASE frag[Here(u)][x] = latest[x]
        BY <2>3, <3>1, <4>1
      <4>2. CASE \E k \in transfers : k.task = u /\ x \in k.region
        BY <1>6, <1>7, <4>2
      <4>3. QED
        BY <2>1, <3>1, <4>1, <4>2 DEF Brought
    <3>2. ASSUME NEW u \in Tasks, pc[u] = "running", x \in Region(u)
          PROVE  frag'[Here(u)][x] = latest[x]
      BY <2>1, <2>3, <3>2 DEF Brought
    <3>3. ASSUME NEW k \in transfers', k.stage = "save", x \in k.region
          PROVE  frag'[k.src][x] = latest[x] /\ (k.migrate => ~Owner(k.src, x))
      <4>1. k \in transfers /\ k # m
        BY <1>6, <1>7, <3>3
      <4>2. frag[k.src][x] = latest[x] /\ (k.migrate => ~Owner(k.src, x))
        BY <2>1, <3>3, <4>1 DEF Brought
      <4>3. k.task \in Tasks /\ k.src \in Ranks /\ x \in Region(k.task)
        BY <1>0, <3>3, <4>1, CallTypes DEF TransferInv
      <4>4. k.src # m.src \/ k.task # m.task
        BY <1>0, <4>1 DEF TransferInv
      <4>5. QED
        BY <2>2, <4>2, <4>3, <4>4
    <3>4. ASSUME NEW k \in transfers', k.stage = "load"
          PROVE  k.data[x] = IF x \in k.region THEN latest[x] ELSE Absent
      <4>1. CASE k = n
        BY <1>3, <1>6, <4>1
      <4>2. CASE k # n
        BY <1>7, <2>1, <3>4, <4>2 DEF Brought
      <4>3. QED
        BY <4>1, <4>2
    <3>5. QED
      BY <1>7, <1>9, <3>1, <3>2, <3>3, <3>4 DEF Brought
  <2>8. Tracked(x)' /\ Located(x)'
    BY <1>7, <1>9, <2>1 DEF Tracked, Located, Callees
  <2>9. QED
    BY <2>5, <2>6, <2>7, <2>8 DEF DataInv
<1>13. QED
  BY <1>10, <1>11, <1>12 DEF PlacesInv

LEMMA LoadStep ==
  ASSUME CoherenceInv, NEW m \in transfers, data_item_view_load(m)
  PROVE  PlacesInv'
<1>0. TypeOK /\ OwnershipInv /\ StageInv /\ TransferInv /\ ActivationInv
  BY Basics
<1>1. /\ m.task \in Tasks /\ m.region \subseteq Elems /\ Here(m.task) \in Ranks /\ m.stage = "load"
  BY <1>0, CallTypes, HereFacts DEF data_item_view_load
<1>2. /\ transfers' = transfers \ {m}
      /\ frag' = [frag EXCEPT ![Here(m.task)] =
                    [x \in Elems |-> IF m.data[x] # Absent THEN m.data[x] ELSE @[x]]]
      /\ UNCHANGED <<full, cache, latest, missing, info, casts, locs, calls, pc, at, req>>
  BY DEF data_item_view_load, entry, taskVars
<1>3. \A x \in Elems : m.data[x] = IF x \in m.region THEN latest[x] ELSE Absent
  BY <1>1, Basics DEF Brought
<1>4. \A r \in Ranks, x \in Elems :
        frag'[r][x] = IF r = Here(m.task) /\ x \in m.region THEN latest[x] ELSE frag[r][x]
  BY <1>0, <1>1, <1>2, <1>3, Written DEF TypeOK
<1>5. /\ \A u : Here(u)' = Here(u) /\ Region(u)' = Region(u) /\ Writes(u)' = Writes(u)
      /\ \A u, x : (Moving(u, x)' <=> Moving(u, x)) /\ (Fetching(u, x)' <=> Fetching(u, x))
      /\ \A r, x : Owner(r, x)' <=> Owner(r, x)
  BY <1>2 DEF Here, Region, Writes, Moving, Fetching, Owner
<1>6. StageInv' /\ TransferInv' /\ ActivationInv'
  BY <1>0, <1>2, <1>5 DEF StageInv, TransferInv, ActivationInv
<1>7. ASSUME NEW x \in Elems PROVE DataInv(x)'
  <2>1. Stored(x) /\ Collected(x) /\ Brought(x) /\ Tracked(x) /\ Located(x)
    BY Basics
  <2>2. /\ \A r \in Ranks : frag'[r][x] = latest[x] \/ frag'[r][x] = frag[r][x]
        /\ latest[x] # Absent /\ latest'[x] = latest[x]
        /\ \A u \in Tasks : Here(u) \in Ranks
        /\ \A k \in transfers : k.src \in Ranks
    BY <1>0, <1>2, <1>4, HereFacts, CallTypes, Written
  <2>3. Stored(x)'
    <3>1. \A u \in Tasks : pc[u] \in Engaged /\ x \in Region(u) => frag'[Here(u)][x] # Absent
      BY <2>1, <2>2 DEF Stored
    <3>2. \A r \in Ranks : Owner(r, x) =>
            /\ frag'[r][x] # Absent
            /\ frag'[r][x] = latest[x] \/ \E t \in Tasks : Fetching(t, x) /\ Here(t) = r
      BY <2>1, <2>2 DEF Stored
    <3>3. latest[x] = Blank => \A r \in Ranks : frag'[r][x] \in {Blank, Absent}
      BY <2>1, <2>2 DEF Stored
    <3>4. QED
      BY <1>2, <1>5, <2>1, <3>1, <3>2, <3>3 DEF Stored
  <2>4. Collected(x)'
    BY <1>2, <1>5, <2>1, <2>2 DEF Collected
  <2>5. Brought(x)'
    <3>1. ASSUME NEW u \in Tasks, pc[u] = "transfer", x \in Region(u)
          PROVE  frag'[Here(u)][x] = latest[x] \/ \E k \in transfers' : k.task = u /\ x \in k.region
      <4>1. CASE frag[Here(u)][x] = latest[x]
        BY <2>2, <4>1
      <4>2. CASE m.task = u /\ x \in m.region
        BY <1>1, <1>4, <4>2
      <4>3. CASE \E k \in transfers : k # m /\ k.task = u /\ x \in k.region
        BY <1>2, <4>3
      <4>4. QED
        BY <2>1, <3>1, <4>1, <4>2, <4>3 DEF Brought
    <3>2. QED
      BY <1>2, <1>5, <2>1, <2>2, <3>1 DEF Brought
  <2>6. Tracked(x)' /\ Located(x)'
    BY <1>2, <1>5, <2>1 DEF Tracked, Located, Callees
  <2>7. QED
    BY <2>3, <2>4, <2>5, <2>6 DEF DataInv
<1>8. QED
  BY <1>6, <1>7 DEF PlacesInv

(***************************************************************************)
(* locate: the activations of a reader.                                    *)
(***************************************************************************)
\* A reader that locates its region keeps writers away from it.
LEMMA ReaderFacts ==
  ASSUME CoherenceInv, NEW t \in Tasks, pc[t] = "locate", ~Writes(t), NEW x \in Region(t)
  PROVE  /\ x \in Elems
         /\ \A u \in Tasks : ~Moving(u, x) /\ ~Fetching(u, x)
         /\ \A c \in calls : x \notin c.region
         /\ \A r \in Ranks : Owner(r, x) => frag[r][x] = latest[x]
<1>1. OwnershipInv /\ TypeOK
  BY Basics
<1>2. x \in Elems
  BY <1>1, HereFacts
<1>3. \A u \in Tasks : Writes(u) => x \notin Region(u)
  BY <1>1, OneWriter
<1>4. \A u \in Tasks : ~Moving(u, x) /\ ~Fetching(u, x)
  BY <1>3, MoverFacts
<1>5. \A c \in calls : x \notin c.region
  BY <1>1, <1>3, OneActor
<1>6. \A r \in Ranks : Owner(r, x) => frag[r][x] = latest[x]
  BY <1>2, <1>4, Basics DEF Stored
<1>7. QED
  BY <1>2, <1>4, <1>5, <1>6

LEMMA LocsFacts ==
  ASSUME CoherenceInv, NEW f \in locs
  PROVE  /\ f.task \in Tasks /\ pc[f.task] = "locate" /\ ~Writes(f.task)
         /\ f.region \subseteq Region(f.task)
         /\ f.path \in Seq(Addr) /\ Len(f.path) \in Nat /\ Len(f.path) >= 1 /\ Node(f) \in Addr
<1>1. TypeOK /\ ActivationInv /\ LocateInv
  BY Basics DEF OwnershipInv
<1>2. f.path \in Seq(Addr) /\ f.path # <<>> /\ f.task \in Tasks /\ Node(f) \in Addr
  BY <1>1, ActivationFacts
<1>3. QED
  BY <1>1, <1>2 DEF ActivationInv, LocateInv

LEMMA PathAppend ==
  ASSUME NEW p \in Seq(Addr), NEW b \in Addr
  PROVE  /\ Append(p, b) \in Seq(Addr) /\ Len(Append(p, b)) = Len(p) + 1
         /\ SubSeq(Append(p, b), 1, Len(p)) = p
         /\ \A n \in 1 .. Len(p) : SubSeq(Append(p, b), 1, n) = SubSeq(p, 1, n)
         /\ SubSeq(Append(p, b), 1, Len(p) + 1) = Append(p, b)
OBVIOUS

\* The beginnings of a path.
LEMMA PathPrefix ==
  ASSUME NEW p \in Seq(Addr), NEW n \in 1 .. Len(p)
  PROVE  /\ SubSeq(p, 1, n) \in Seq(Addr) /\ Len(SubSeq(p, 1, n)) = n
         /\ \A k \in 1 .. n : SubSeq(SubSeq(p, 1, n), 1, k) = SubSeq(p, 1, k)
         /\ SubSeq(p, 1, Len(p)) = p
OBVIOUS

LEMMA ReadingStep ==
  ASSUME CoherenceInv, NEW t \in Tasks, acquire_read(t)
  PROVE  PlacesInv'
<1>0. TypeOK /\ OwnershipInv /\ StageInv /\ TransferInv /\ ActivationInv
  BY Basics
<1>1. PICK g : g = Activation(t, <<at[t]>>, Region(t))
  OBVIOUS
<1>2. /\ pc[t] = "acquire" /\ pc'[t] = "locate" /\ locs' = locs \cup {g}
      /\ \A u \in Tasks \ {t} : pc'[u] = pc[u]
      /\ UNCHANGED <<full, cache, frag, latest, missing, info, casts, transfers, calls, at, req>>
  BY <1>0, <1>1 DEF acquire_read, entry, taskVars, TypeOK
<1>3. /\ g.task = t /\ g.path = <<at[t]>> /\ g.region = Region(t) /\ g.called = FALSE
      /\ g.local = Nowhere /\ g.remote = Nowhere
  BY <1>1 DEF Activation
<1>4. Stands(t)
  BY <1>2 DEF Stands
<1>5. /\ \A u : Here(u)' = Here(u) /\ Region(u)' = Region(u) /\ Writes(u)' = Writes(u)
      /\ \A u \in Tasks \ {t} : \A x : /\ Moving(u, x)' <=> Moving(u, x)
                                       /\ Fetching(u, x)' <=> Fetching(u, x)
  BY <1>4, StandsFacts
<1>6. \A u \in Tasks : \A x : /\ Moving(u, x)' <=> Moving(u, x)
                              /\ Fetching(u, x)' <=> Fetching(u, x)
  BY <1>2, <1>5 DEF Moving, Fetching
<1>7. \A r : \A x : Owner(r, x)' <=> Owner(r, x)
  BY <1>2 DEF Owner
<1>8. /\ \A c \in casts : c.task \in Tasks \ {t}
      /\ \A m \in transfers : m.task \in Tasks \ {t}
      /\ \A f \in locs : f.task \in Tasks \ {t}
  BY <1>0, <1>2, CallTypes DEF StageInv, TransferInv, ActivationInv
<1>9. StageInv' /\ TransferInv'
  BY <1>0, <1>2, <1>5, <1>8 DEF StageInv, TransferInv
<1>10. ActivationInv'
  <2>1. Len(g.path) = 1 /\ g.path \in Seq(Addr) /\ \A n \in 1 .. Len(g.path) : g.path = SubSeq(g.path, 1, n)
    BY <1>0, <1>3 DEF TypeOK
  <2>2. \A f \in locs : pc'[f.task] = "locate" /\ f.region \subseteq Region(f.task)
    BY <1>0, <1>2, <1>8 DEF ActivationInv
  <2>3. \A f \in locs' : \A n \in 1 .. Len(f.path) :
          \E h \in locs' : h.task = f.task /\ h.path = SubSeq(f.path, 1, n)
    BY <1>0, <1>2, <2>1 DEF ActivationInv
  <2>4. \A f \in locs' : pc'[f.task] = "locate" /\ f.region \subseteq Region(f.task)
    BY <1>2, <1>3, <2>2
  <2>5. \A f \in locs' : Len(f.path) = 1 => f.region = Region(f.task)
    BY <1>0, <1>2, <1>3 DEF ActivationInv
  <2>6. \A f, h \in locs' : f.task = h.task /\ Len(f.path) = 1 /\ Len(h.path) = 1 => f = h
    BY <1>0, <1>2, <1>3, <1>8 DEF ActivationInv
  <2>7. QED
    BY <1>5, <2>3, <2>4, <2>5, <2>6 DEF ActivationInv
<1>11. ASSUME NEW x \in Elems PROVE DataInv(x)'
  <2>1. Stored(x) /\ Collected(x) /\ Brought(x) /\ Tracked(x) /\ Located(x)
    BY Basics
  <2>2. Stored(x)'
    <3>1. \A u \in Tasks : pc'[u] \in Engaged => pc[u] \in Engaged
      BY <1>2 DEF Engaged
    <3>2. QED
      BY <1>2, <1>5, <1>6, <1>7, <2>1, <3>1 DEF Stored
  <2>3. Collected(x)' /\ Brought(x)'
    BY <1>2, <1>5, <1>7, <2>1 DEF Collected, Brought
  <2>4. Tracked(x)'
    BY <1>2, <1>5, <1>6, <1>7, <2>1 DEF Tracked
  <2>5. Located(x)'
    <3>1. \A f \in locs', r \in Ranks : x \in f.local[r] \cup f.remote[r] => f \in locs
      BY <1>2, <1>3 DEF Nowhere
    <3>2. \A f \in locs' : f.called => f \in locs
      BY <1>2, <1>3
    <3>3. \A f \in locs : \A h \in Callees(f) : h \in Callees(f)'
      BY <1>2 DEF Callees
    <3>4. QED
      BY <1>5, <1>7, <2>1, <3>1, <3>2, <3>3 DEF Located
  <2>6. QED
    BY <2>2, <2>3, <2>4, <2>5 DEF DataInv
<1>12. QED
  BY <1>9, <1>10, <1>11 DEF PlacesInv

\* What the critical section of locate does: it notes what the node or its cache
\* knows, and asks further nodes for the rest, if there is anyone to ask.
Spreads(f, here, asked) ==
  /\ locs' = (locs \ {f}) \cup {[f EXCEPT !.called = TRUE, !.local = here]} \cup asked
  /\ \A g \in asked : /\ g.task = f.task /\ g.region \subseteq f.region
                      /\ g.local = Nowhere /\ g.remote = Nowhere /\ g.called = FALSE
                      /\ \E b \in Addr : g.path = Append(f.path, b)
  /\ \A r \in Ranks : \A x \in here[r] :
       /\ x \in f.region
       /\ \/ x \in cache[Node(f)][r]
          \/ Node(f) \in Leaves /\ r = Rank[Node(f)] /\ x \in full[Node(f)]
  /\ \A x \in f.region :
       \/ \E r \in Ranks : x \in here[r]
       \/ \E g \in asked : x \in g.region
       \/ /\ Node(f) = Root
          /\ Node(f) \in Leaves => x \notin full[Node(f)]
          /\ Node(f) \in Inner => x \notin left[Node(f)] \cup right[Node(f)]

LEMMA LocateSpreads ==
  ASSUME CoherenceInv, NEW f \in locs, NEW hit \in [Elems -> Ranks], locate(f, hit)
  PROVE  \E here, asked : Spreads(f, here, asked)
<1> DEFINE a    == Node(f)
           own  == IF a \in Leaves THEN f.region \cap full[a] ELSE {}
           rest == (f.region \ own) \ Cached(a)
           rp   == rest \cap right[a]
           lp   == (rest \ rp) \cap left[a]
           up   == IF a = Root THEN {} ELSE rest \ (rp \cup lp)
           here == [r \in Ranks |-> {x \in (f.region \ own) \cap cache[a][r] : hit[x] = r}
                                     \cup (IF r = Rank[a] THEN own ELSE {})]
           Call(b, m) == IF m = {} THEN {} ELSE {Activation(f.task, Append(f.path, b), m)}
           down  == IF a \in Inner THEN Call(RightChild[a], rp) \cup Call(LeftChild[a], lp) ELSE {}
           above == IF a = Root THEN {} ELSE Call(Parent[a], up)
           known == [f EXCEPT !.called = TRUE, !.local = here]
<1>1. /\ \A x \in (f.region \ own) \cap Cached(a) : x \in cache[a][hit[x]]
      /\ locs' = (locs \ {f}) \cup {known} \cup down \cup above
  BY DEF locate
<1>2. TypeOK /\ LeavesPlain /\ a \in Addr /\ f.region \subseteq Elems /\ Rank[a] \in Ranks
  <2>1. TypeOK /\ LeavesPlain
    BY Basics DEF OwnershipInv
  <2>2. QED
    BY <2>1, ActivationFacts, TreeFacts
<1>3. /\ own \subseteq f.region /\ rest \subseteq f.region /\ rp \subseteq rest /\ lp \subseteq rest
      /\ up \subseteq rest
      /\ own \subseteq full[a] /\ (a \notin Leaves => own = {})
      /\ a \in Leaves => f.region \cap full[a] \subseteq own
      /\ \A x \in f.region : x \in own \/ x \in rest \/ x \in (f.region \ own) \cap Cached(a)
      /\ \A x \in rest : a # Root => x \in rp \cup lp \cup up
      /\ a \in Leaves => rp = {} /\ lp = {}
      /\ rest \cap (left[a] \cup right[a]) \subseteq rp \cup lp
      /\ a \in Leaves => rest \cap full[a] = {}
  BY <1>2 DEF LeavesPlain
<1>4. \A r \in Ranks : here[r] = {x \in (f.region \ own) \cap cache[a][r] : hit[x] = r}
                                    \cup (IF r = Rank[a] THEN own ELSE {})
  OBVIOUS
<1>5. /\ \A r \in Ranks : \A x \in here[r] : x \in f.region /\ (x \in cache[a][r] \/ (r = Rank[a] /\ x \in own))
      /\ \A x \in own : x \in here[Rank[a]]
      /\ \A x \in (f.region \ own) \cap Cached(a) : hit[x] \in Ranks /\ x \in here[hit[x]]
  BY <1>1, <1>2, <1>3, <1>4
<1>6. ASSUME NEW b \in Addr, NEW m \in SUBSET f.region
      PROVE  /\ \A g \in Call(b, m) : /\ g.task = f.task /\ g.region \subseteq f.region
                                      /\ g.local = Nowhere /\ g.remote = Nowhere /\ g.called = FALSE
                                      /\ g.path = Append(f.path, b)
             /\ \A x \in m : \E g \in Call(b, m) : x \in g.region
  <2>1. CASE m = {}
    BY <2>1
  <2>2. CASE m # {}
    <3>1. PICK g : g = Activation(f.task, Append(f.path, b), m)
      OBVIOUS
    <3>2. /\ g.task = f.task /\ g.region = m /\ g.local = Nowhere /\ g.remote = Nowhere
          /\ g.called = FALSE /\ g.path = Append(f.path, b)
      BY <3>1 DEF Activation
    <3>3. Call(b, m) = {g}
      BY <2>2, <3>1
    <3> HIDE DEF Call
    <3>4. QED
      BY <3>2, <3>3
  <2>3. QED
    BY <2>1, <2>2
<1>7. /\ a \in Inner => RightChild[a] \in Addr /\ LeftChild[a] \in Addr
      /\ a # Root => Parent[a] \in Addr
      /\ a \in Inner <=> a \notin Leaves
  BY <1>2, TreeFacts
<1> HIDE DEF a, own, rest, rp, lp, up, here, Call, known
<1>8. \A g \in down \cup above : /\ g.task = f.task /\ g.region \subseteq f.region
                                 /\ g.local = Nowhere /\ g.remote = Nowhere /\ g.called = FALSE
                                 /\ \E b \in Addr : g.path = Append(f.path, b)
  <2>1. ASSUME NEW g \in above
        PROVE  /\ g.task = f.task /\ g.region \subseteq f.region
               /\ g.local = Nowhere /\ g.remote = Nowhere /\ g.called = FALSE
               /\ \E b \in Addr : g.path = Append(f.path, b)
    <3>1. a # Root /\ g \in Call(Parent[a], up)
      BY <2>1
    <3>2. Parent[a] \in Addr /\ up \in SUBSET f.region
      BY <1>3, <1>7, <3>1
    <3>3. QED
      BY <1>6, <3>1, <3>2
  <2>2. ASSUME NEW g \in down
        PROVE  /\ g.task = f.task /\ g.region \subseteq f.region
               /\ g.local = Nowhere /\ g.remote = Nowhere /\ g.called = FALSE
               /\ \E b \in Addr : g.path = Append(f.path, b)
    <3>1. a \in Inner /\ g \in Call(RightChild[a], rp) \cup Call(LeftChild[a], lp)
      BY <2>2
    <3>2. /\ RightChild[a] \in Addr /\ rp \in SUBSET f.region
          /\ LeftChild[a] \in Addr /\ lp \in SUBSET f.region
      BY <1>3, <1>7, <3>1
    <3>3. QED
      BY <1>6, <3>1, <3>2
  <2>3. QED
    BY <2>1, <2>2
<1>9. /\ a # Root => \A x \in up : \E g \in above : x \in g.region
      /\ a \in Inner => \A x \in rp \cup lp : \E g \in down : x \in g.region
  <2>1. a # Root => \A x \in up : \E g \in above : x \in g.region
    BY <1>3, <1>6, <1>7
  <2>2. ASSUME a \in Inner
        PROVE  \A x \in rp \cup lp : \E g \in down : x \in g.region
    <3>1. \A x \in rp : \E g \in Call(RightChild[a], rp) : x \in g.region
      BY <1>3, <1>6, <1>7, <2>2
    <3>2. \A x \in lp : \E g \in Call(LeftChild[a], lp) : x \in g.region
      BY <1>3, <1>6, <1>7, <2>2
    <3>3. QED
      BY <2>2, <3>1, <3>2
  <2>3. QED
    BY <2>1, <2>2
<1>10. ASSUME NEW x \in f.region
       PROVE  \/ \E r \in Ranks : x \in here[r]
              \/ \E g \in down \cup above : x \in g.region
              \/ /\ a = Root
                 /\ a \in Leaves => x \notin full[a]
                 /\ a \in Inner => x \notin left[a] \cup right[a]
  <2>1. CASE x \in own \/ x \in (f.region \ own) \cap Cached(a)
    BY <1>2, <1>5, <2>1
  <2>2. CASE x \in rest /\ x \in rp \cup lp
    BY <1>3, <1>7, <1>9, <2>2
  <2>3. CASE x \in rest /\ x \notin rp \cup lp /\ a # Root
    BY <1>3, <1>9, <2>3
  <2>4. CASE x \in rest /\ x \notin rp \cup lp /\ a = Root
    BY <1>3, <2>4
  <2>5. QED
    BY <1>3, <1>10, <2>1, <2>2, <2>3, <2>4
<1> HIDE DEF down, above
<1>11. Spreads(f, here, down \cup above)
  <2>1. locs' = (locs \ {f}) \cup {known} \cup (down \cup above)
    BY <1>1
  <2>2. \A r \in Ranks : \A x \in here[r] :
           /\ x \in f.region
           /\ \/ x \in cache[a][r]
              \/ a \in Leaves /\ r = Rank[a] /\ x \in full[a]
    BY <1>3, <1>5
  <2>3. QED
    BY <1>8, <1>10, <2>1, <2>2 DEF Spreads, a, known
<1>12. QED
  BY <1>11

\* Whoever owns x is recorded below the root.
LEMMA RootKnows ==
  ASSUME CoherenceInv, NEW x \in Elems, NEW r \in Ranks, Owner(r, x), \A c \in calls : x \notin c.region
  PROVE  /\ Root \in Leaves => x \in full[Root]
         /\ Root \in Inner => x \in left[Root] \cup right[Root]
<1>1. OwnershipInv /\ Leaf[r] \in Addr /\ x \in Holds(Leaf[r]) /\ Leaf[r] \in Leaves /\ Root \in Addr
  BY Basics, TreeFacts DEF Owner, Holds
<1>2. CASE Root \in Leaves
  <2>1. Addr = {Root}
    BY <1>2, PathFacts
  <2>2. QED
    BY <1>1, <1>2, <2>1, TreeFacts DEF Owner
<1>3. CASE Root \in Inner
  <2>1. Below[Root] = {Root} \cup Below[LeftChild[Root]] \cup Below[RightChild[Root]] /\ Below[Root] = Addr
    BY <1>3, HierarchyAssumption
  <2>2. Leaf[r] # Root
    BY <1>1, <1>3, TreeFacts
  <2>3. PICK k \in {LeftChild[Root], RightChild[Root]} : Leaf[r] \in Below[k]
    BY <1>1, <2>1, <2>2
  <2>4. k \in Addr \ {Root} /\ Parent[k] = Root
    BY <1>3, HierarchyAssumption
  <2>5. x \in Side(k)
    BY <1>1, <2>3, <2>4 DEF OwnershipInv, ElementInv, Linked
  <2>6. QED
    BY <1>1, <1>3, <2>4, <2>5, TreeFacts DEF Side
<1>4. QED
  BY <1>2, <1>3

LEMMA SpreadStep ==
  ASSUME CoherenceInv, NEW f \in locs, NEW here, NEW asked, Spreads(f, here, asked), ~f.called,
         UNCHANGED <<full, cache, frag, latest, missing, info, casts, transfers, calls, pc, at, req>>
  PROVE  PlacesInv'
<1>0. TypeOK /\ OwnershipInv /\ StageInv /\ TransferInv /\ ActivationInv
  BY Basics
<1>1. PICK k : k = [f EXCEPT !.called = TRUE, !.local = here]
  OBVIOUS
<1>2. f \in Locate
  BY <1>0 DEF TypeOK
<1>3. /\ k.task = f.task /\ k.path = f.path /\ k.region = f.region /\ k.remote = f.remote
      /\ k.called = TRUE /\ k.local = here
  BY <1>1, <1>2 DEF Locate
<1>4. locs' = (locs \ {f}) \cup {k} \cup asked
  BY <1>1 DEF Spreads
<1>5. \A g \in asked : /\ g.task = f.task /\ g.region \subseteq f.region
                       /\ g.local = Nowhere /\ g.remote = Nowhere /\ g.called = FALSE
                       /\ \E b \in Addr : g.path = Append(f.path, b)
  BY DEF Spreads
<1>6. /\ f.task \in Tasks /\ pc[f.task] = "locate" /\ ~Writes(f.task)
      /\ f.region \subseteq Region(f.task)
      /\ f.path \in Seq(Addr) /\ Len(f.path) \in Nat /\ Len(f.path) >= 1 /\ Node(f) \in Addr
  BY LocsFacts
<1>7. \A g \in asked : /\ Len(g.path) = Len(f.path) + 1 /\ SubSeq(g.path, 1, Len(f.path)) = f.path
                       /\ \A n \in 1 .. Len(f.path) : SubSeq(g.path, 1, n) = SubSeq(f.path, 1, n)
                       /\ SubSeq(g.path, 1, Len(f.path) + 1) = g.path
  BY <1>5, <1>6, PathAppend
<1>8. /\ \A u : Here(u)' = Here(u) /\ Region(u)' = Region(u) /\ Writes(u)' = Writes(u)
      /\ \A u, x : (Moving(u, x)' <=> Moving(u, x)) /\ (Fetching(u, x)' <=> Fetching(u, x))
      /\ \A r, x : Owner(r, x)' <=> Owner(r, x)
  BY DEF Here, Region, Writes, Moving, Fetching, Owner
<1>9. StageInv' /\ TransferInv'
  BY <1>0, <1>8 DEF StageInv, TransferInv
<1>10. ActivationInv'
  <2>1. \A g \in locs' : pc[g.task] = "locate" /\ g.region \subseteq Region(g.task)
    BY <1>0, <1>3, <1>4, <1>5, <1>6 DEF ActivationInv
  <2>2. \A g \in locs : \E h \in locs' : h.task = g.task /\ h.path = g.path
    BY <1>3, <1>4
  <2>3. \A g \in locs : \A n \in 1 .. Len(g.path) :
          \E h \in locs' : h.task = g.task /\ h.path = SubSeq(g.path, 1, n)
    BY <1>0, <2>2 DEF ActivationInv
  <2>4. ASSUME NEW g \in asked, NEW n \in 1 .. Len(g.path)
        PROVE  \E h \in locs' : h.task = g.task /\ h.path = SubSeq(g.path, 1, n)
    <3>1. CASE n = Len(f.path) + 1
      BY <1>4, <1>7, <3>1
    <3>2. CASE n # Len(f.path) + 1
      <4>1. n \in 1 .. Len(f.path)
        BY <1>6, <1>7, <3>2
      <4>2. PICK h \in locs' : h.task = f.task /\ h.path = SubSeq(f.path, 1, n)
        BY <2>3, <4>1
      <4>3. QED
        BY <1>5, <1>7, <4>1, <4>2
    <3>3. QED
      BY <3>1, <3>2
  <2>5. \A g \in locs' : \A n \in 1 .. Len(g.path) :
          \E h \in locs' : h.task = g.task /\ h.path = SubSeq(g.path, 1, n)
    BY <1>3, <1>4, <2>3, <2>4
  <2>6. \A g \in asked : Len(g.path) # 1
    BY <1>6, <1>7
  <2>7. \A g \in locs' : Len(g.path) = 1 => g.region = Region(g.task)
    BY <1>0, <1>3, <1>4, <2>6 DEF ActivationInv
  <2>8. ASSUME NEW g \in locs', NEW h \in locs', g.task = h.task, Len(g.path) = 1, Len(h.path) = 1
        PROVE  g = h
    <3>1. g \in (locs \ {f}) \cup {k} /\ h \in (locs \ {f}) \cup {k}
      BY <1>4, <2>6, <2>8
    <3>2. QED
      BY <1>0, <1>3, <2>8, <3>1 DEF ActivationInv
  <2>9. QED
    BY <1>8, <2>1, <2>5, <2>7, <2>8 DEF ActivationInv
<1>11. ASSUME NEW x \in Elems PROVE DataInv(x)'
  <2>1. Stored(x) /\ Collected(x) /\ Brought(x) /\ Tracked(x) /\ Located(x)
    BY Basics
  <2>2. Stored(x)' /\ Collected(x)' /\ Brought(x)' /\ Tracked(x)'
    BY <1>8, <2>1 DEF Stored, Collected, Brought, Tracked
  <2>3. ASSUME NEW r \in Ranks, x \in here[r]
        PROVE  x \in Region(f.task) /\ Owner(r, x)
    <3>1. x \in f.region /\ (x \in cache[Node(f)][r]
                             \/ (Node(f) \in Leaves /\ r = Rank[Node(f)] /\ x \in full[Node(f)]))
      BY <2>3 DEF Spreads
    <3>2. x \in Region(f.task) /\ \A u \in Tasks : ~Moving(u, x)
      BY <1>6, <3>1, ReaderFacts
    <3>3. CASE x \in cache[Node(f)][r]
      BY <1>6, <2>1, <3>2, <3>3 DEF Tracked
    <3>4. CASE Node(f) \in Leaves /\ r = Rank[Node(f)] /\ x \in full[Node(f)]
      BY <3>2, <3>4, TreeFacts DEF Owner, Leaves
    <3>5. QED
      BY <3>1, <3>2, <3>3, <3>4
  <2>4. \A g \in locs', r \in Ranks : x \in g.local[r] \cup g.remote[r] =>
          x \in Region(g.task) /\ Owner(r, x)
    <3>1. \A g \in asked, r \in Ranks : x \notin g.local[r] \cup g.remote[r]
      BY <1>5 DEF Nowhere
    <3>2. QED
      BY <1>3, <1>4, <2>1, <2>3, <3>1 DEF Located
  <2>5. ASSUME NEW g \in locs', g.called, x \in g.region, NEW r \in Ranks, Owner(r, x)
        PROVE  \/ \E s \in Ranks : x \in g.local[s] \cup g.remote[s]
               \/ \E h \in Callees(g)' : x \in h.region
    <3>1. CASE g = k
      <4>1. x \in f.region
        BY <1>3, <2>5, <3>1
      <4>2. \A c \in calls : x \notin c.region
        BY <1>6, <4>1, ReaderFacts
      <4>3. /\ Root \in Leaves => x \in full[Root]
            /\ Root \in Inner => x \in left[Root] \cup right[Root]
            /\ Root \in Leaves \/ Root \in Inner
        BY <2>5, <4>2, RootKnows, TreeFacts
      <4>4. (\E s \in Ranks : x \in here[s]) \/ \E h \in asked : x \in h.region
        BY <4>1, <4>3 DEF Spreads
      <4>5. \A h \in asked : h \in Callees(g)'
        BY <1>3, <1>4, <1>5, <1>7, <3>1 DEF Callees
      <4>6. QED
        BY <1>3, <3>1, <4>4, <4>5
    <3>2. CASE g # k
      <4>1. g \in locs
        BY <1>4, <1>5, <2>5, <3>2
      <4>2. CASE \E s \in Ranks : x \in g.local[s] \cup g.remote[s]
        BY <4>2
      <4>3. CASE \E h \in Callees(g) : x \in h.region
        <5>1. PICK h \in Callees(g) : x \in h.region
          BY <4>3
        <5>2. h \in locs /\ h.task = g.task /\ Len(h.path) = Len(g.path) + 1
              /\ SubSeq(h.path, 1, Len(g.path)) = g.path
          BY DEF Callees
        <5>3. CASE h = f
          <6>1. k \in Callees(g)'
            BY <1>3, <1>4, <5>2, <5>3 DEF Callees
          <6>2. QED
            BY <1>3, <5>1, <5>3, <6>1
        <5>4. CASE h # f
          <6>1. h \in Callees(g)'
            BY <1>4, <5>2, <5>4 DEF Callees
          <6>2. QED
            BY <5>1, <6>1
        <5>5. QED
          BY <5>3, <5>4
      <4>4. QED
        BY <2>1, <2>5, <4>1, <4>2, <4>3 DEF Located
    <3>3. QED
      BY <3>1, <3>2
  <2>6. Located(x)'
    BY <1>8, <2>4, <2>5 DEF Located
  <2>7. QED
    BY <2>2, <2>6 DEF DataInv
<1>12. QED
  BY <1>9, <1>10, <1>11 DEF PlacesInv

\* An activation that has got all its answers is the last one of its branch.
LEMMA NoDeeper ==
  ASSUME CoherenceInv, NEW f \in locs, Callees(f) = {}, NEW k \in locs, k.task = f.task,
         Len(k.path) > Len(f.path)
  PROVE  SubSeq(k.path, 1, Len(f.path)) # f.path
<1> SUFFICES ASSUME SubSeq(k.path, 1, Len(f.path)) = f.path PROVE FALSE
  OBVIOUS
<1>1. /\ k.path \in Seq(Addr) /\ Len(k.path) \in Nat /\ Len(f.path) \in Nat /\ Len(f.path) >= 1
  BY LocsFacts
<1>2. PICK n : n = Len(f.path) + 1
  OBVIOUS
<1>3. n \in 1 .. Len(k.path) /\ Len(f.path) \in 1 .. n
  BY <1>1, <1>2
<1>4. PICK g \in locs : g.task = k.task /\ g.path = SubSeq(k.path, 1, n)
  BY <1>3, Basics DEF ActivationInv
<1>5. Len(g.path) = n /\ SubSeq(g.path, 1, Len(f.path)) = SubSeq(k.path, 1, Len(f.path))
  BY <1>1, <1>3, <1>4, PathPrefix
<1>6. g \in Callees(f)
  BY <1>2, <1>4, <1>5 DEF Callees
<1>7. QED
  BY <1>6

\* What an activation answers is right, and when all its callees have answered it
\* is all there is to know.
LEMMA AnswerFacts ==
  ASSUME CoherenceInv, NEW f \in locs
  PROVE  /\ AddParts(f.local, f.remote) \in Location
         /\ \A r \in Ranks : \A x \in AddParts(f.local, f.remote)[r] :
              x \in Elems /\ x \in Region(f.task) /\ Owner(r, x) /\ frag[r][x] = latest[x]
         /\ \A r \in Ranks : AddParts(f.local, f.remote)[r] = f.local[r] \cup f.remote[r]
         /\ f.called /\ Callees(f) = {} =>
              \A x \in f.region : (\E r \in Ranks : Owner(r, x)) =>
                \E r \in Ranks : x \in AddParts(f.local, f.remote)[r]
<1>1. f \in Locate
  BY Basics DEF TypeOK
<1>2. f.local \in Location /\ f.remote \in Location /\ f.region \subseteq Elems
  BY <1>1 DEF Locate, Regions
<1>3. AddParts(f.local, f.remote) \in Location
  BY <1>2, AddPartsType
<1>4. \A r \in Ranks : AddParts(f.local, f.remote)[r] = f.local[r] \cup f.remote[r]
  BY DEF AddParts
<1>5. \A r \in Ranks : f.local[r] \cup f.remote[r] \subseteq Elems
  BY <1>2 DEF Location
<1>6. ASSUME NEW r \in Ranks, NEW x \in f.local[r] \cup f.remote[r]
      PROVE  x \in Elems /\ x \in Region(f.task) /\ Owner(r, x) /\ frag[r][x] = latest[x]
  <2>1. x \in Elems /\ x \in Region(f.task) /\ Owner(r, x)
    BY <1>5, <1>6, Basics DEF Located
  <2>2. QED
    BY <2>1, LocsFacts, ReaderFacts
<1>7. ASSUME f.called, Callees(f) = {}, NEW x \in f.region, NEW r \in Ranks, Owner(r, x)
      PROVE  \E s \in Ranks : x \in f.local[s] \cup f.remote[s]
  BY <1>2, <1>7, Basics DEF Located
<1>8. QED
  BY <1>3, <1>4, <1>6, <1>7

\* The answers that an activation caches are those of the owners.
LEMMA CachedStep ==
  ASSUME CoherenceInv, NEW f \in locs, NEW x \in Elems,
         cache' = [cache EXCEPT ![Node(f)] = AddParts(@, f.remote)],
         UNCHANGED <<full, casts, at>>,
         \A u \in Tasks : Moving(u, x)' <=> Moving(u, x)
  PROVE  Tracked(x)'
<1>1. /\ \A u : Here(u)' = Here(u)
      /\ \A r : Owner(r, x)' <=> Owner(r, x)
  BY DEF Here, Owner
<1>2. ASSUME NEW a \in Addr, NEW r \in Ranks, x \in cache'[a][r]
      PROVE  x \in cache[a][r] \/ x \in f.remote[r]
  BY <1>2, Basics DEF TypeOK, AddParts
<1>3. ASSUME NEW r \in Ranks, x \in f.remote[r]
      PROVE  Owner(r, x) /\ \A u \in Tasks : ~Moving(u, x)
  <2>1. x \in Region(f.task) /\ Owner(r, x)
    BY <1>3, Basics DEF Located
  <2>2. QED
    BY <2>1, LocsFacts, ReaderFacts
<1>4. QED
  BY <1>1, <1>2, <1>3, Basics DEF Tracked

\* The first activation of a task has no caller: it answers the task.
Outermost(f) == {g \in locs : IsCaller(g, f)} = {}

\* An answer reaches the caller.
LEMMA AnswerStep ==
  ASSUME CoherenceInv, NEW f \in locs, locate_return(f), ~Outermost(f)
  PROVE  PlacesInv'
<1> DEFINE C     == {g \in locs : IsCaller(g, f)}
           ans   == AddParts(f.local, f.remote)
           Up(g) == IF g \in C THEN [g EXCEPT !.remote = AddParts(@, ans)] ELSE g
<1>0. TypeOK /\ OwnershipInv /\ StageInv /\ TransferInv /\ ActivationInv
  BY Basics
<1>1. /\ f.called /\ Callees(f) = {}
      /\ locs' = (locs \ ({f} \cup C)) \cup {[g EXCEPT !.remote = AddParts(@, ans)] : g \in C}
      /\ cache' = [cache EXCEPT ![Node(f)] = AddParts(@, f.remote)]
      /\ UNCHANGED <<full, frag, latest, missing, info, casts, transfers, calls, pc, at, req>>
  BY DEF locate_return, entry, taskVars, Outermost
<1>2. C \subseteq locs /\ f \notin C
  BY LocsFacts DEF IsCaller
<1>3. \A g \in locs : /\ Up(g).task = g.task /\ Up(g).path = g.path /\ Up(g).region = g.region
                      /\ Up(g).called = g.called /\ Up(g).local = g.local
                      /\ Up(g).remote = IF g \in C THEN AddParts(g.remote, ans) ELSE g.remote
  <2>1. \A g \in locs : g \in Locate
    BY <1>0 DEF TypeOK
  <2>2. QED
    BY <2>1 DEF Locate
<1>4. \A g \in locs, r \in Ranks : /\ g \in C => Up(g).remote[r] = g.remote[r] \cup ans[r]
                                   /\ g \notin C => Up(g).remote[r] = g.remote[r]
  BY <1>3 DEF AddParts
<1>5. locs' = {Up(g) : g \in locs \ {f}}
  BY <1>1, <1>2
<1>6. \A g \in C : g.task = f.task /\ IsCaller(g, f)
  BY DEF IsCaller
<1>7. /\ \A r \in Ranks : ans[r] = f.local[r] \cup f.remote[r]
      /\ \A r \in Ranks : \A x \in ans[r] : x \in Region(f.task) /\ Owner(r, x)
      /\ \A x \in f.region : (\E r \in Ranks : Owner(r, x)) => \E r \in Ranks : x \in ans[r]
  BY <1>1, AnswerFacts
<1>8. \A g \in locs : IsCaller(g, f) => g \in C
  OBVIOUS
<1> HIDE DEF C, ans, Up
<1>9. /\ \A u : Here(u)' = Here(u) /\ Region(u)' = Region(u) /\ Writes(u)' = Writes(u)
      /\ \A u, x : (Moving(u, x)' <=> Moving(u, x)) /\ (Fetching(u, x)' <=> Fetching(u, x))
      /\ \A r, x : Owner(r, x)' <=> Owner(r, x)
  BY <1>1 DEF Here, Region, Writes, Moving, Fetching, Owner
<1>10. StageInv' /\ TransferInv'
  BY <1>0, <1>1, <1>9 DEF StageInv, TransferInv
<1>11. ActivationInv'
  <2>1. \A k \in locs' : pc[k.task] = "locate" /\ k.region \subseteq Region(k.task)
    BY <1>0, <1>3, <1>5 DEF ActivationInv
  <2>2. ASSUME NEW g \in locs, g # f, NEW n \in 1 .. Len(g.path)
        PROVE  \E h \in locs \ {f} : h.task = g.task /\ h.path = SubSeq(g.path, 1, n)
    <3>1. PICK h \in locs : h.task = g.task /\ h.path = SubSeq(g.path, 1, n)
      BY <1>0 DEF ActivationInv
    <3>2. CASE h # f
      BY <3>1, <3>2
    <3>3. CASE h = f
      <4>1. g.path \in Seq(Addr) /\ Len(g.path) \in Nat
        BY LocsFacts
      <4>2. Len(f.path) = n
        BY <3>1, <3>3, <4>1, PathPrefix
      <4>3. ~(Len(g.path) > n)
        BY <1>1, <3>1, <3>3, <4>2, NoDeeper
      <4>4. n = Len(g.path)
        BY <4>1, <4>3
      <4>5. g.path = SubSeq(g.path, 1, n)
        BY <4>1, <4>4, PathPrefix
      <4>6. QED
        BY <2>2, <4>5
    <3>4. QED
      BY <3>2, <3>3
  <2>3. ASSUME NEW k \in locs', NEW n \in 1 .. Len(k.path)
        PROVE  \E h \in locs' : h.task = k.task /\ h.path = SubSeq(k.path, 1, n)
    <3>1. PICK g \in locs \ {f} : k = Up(g)
      BY <1>5
    <3>2. PICK h \in locs \ {f} : h.task = g.task /\ h.path = SubSeq(g.path, 1, n)
      BY <1>3, <2>2, <2>3, <3>1
    <3>3. Up(h) \in locs'
      BY <1>5
    <3>4. QED
      BY <1>3, <3>1, <3>2, <3>3
  <2>4. \A k \in locs' : Len(k.path) = 1 => k.region = Region(k.task)
    BY <1>0, <1>3, <1>5 DEF ActivationInv
  <2>5. ASSUME NEW k \in locs', NEW l \in locs', k.task = l.task, Len(k.path) = 1, Len(l.path) = 1
        PROVE  k = l
    <3>1. PICK g \in locs \ {f}, h \in locs \ {f} : k = Up(g) /\ l = Up(h)
      BY <1>5
    <3>2. g = h
      BY <1>0, <1>3, <2>5, <3>1 DEF ActivationInv
    <3>3. QED
      BY <3>1, <3>2
  <2>6. QED
    BY <1>1, <1>9, <2>1, <2>3, <2>4, <2>5 DEF ActivationInv
<1>12. ASSUME NEW x \in Elems PROVE DataInv(x)'
  <2>1. Stored(x) /\ Collected(x) /\ Brought(x) /\ Tracked(x) /\ Located(x)
    BY Basics
  <2>2. Stored(x)' /\ Collected(x)' /\ Brought(x)'
    BY <1>1, <1>9, <2>1 DEF Stored, Collected, Brought
  <2>3. Tracked(x)'
    BY <1>1, <1>9, CachedStep
  <2>4. ASSUME NEW k \in locs', NEW r \in Ranks, x \in k.local[r] \cup k.remote[r]
        PROVE  x \in Region(k.task) /\ Owner(r, x)
    <3>1. PICK g \in locs \ {f} : k = Up(g)
      BY <1>5
    <3>2. x \in g.local[r] \cup g.remote[r] \/ (g \in C /\ x \in ans[r])
      BY <1>3, <1>4, <2>4, <3>1
    <3>3. QED
      BY <1>3, <1>6, <1>7, <2>1, <3>1, <3>2 DEF Located
  <2>5. ASSUME NEW k \in locs', k.called, x \in k.region, NEW r \in Ranks, Owner(r, x)
        PROVE  \/ \E s \in Ranks : x \in k.local[s] \cup k.remote[s]
               \/ \E h \in Callees(k)' : x \in h.region
    <3>1. PICK g \in locs \ {f} : k = Up(g)
      BY <1>5
    <3>2. g.called /\ x \in g.region /\ k.task = g.task /\ k.path = g.path /\ k.local = g.local
      BY <1>3, <2>5, <3>1
    <3>3. CASE \E s \in Ranks : x \in g.local[s] \cup g.remote[s]
      BY <1>4, <3>1, <3>2, <3>3
    <3>4. CASE \E h \in Callees(g) : x \in h.region
      <4>1. PICK h \in Callees(g) : x \in h.region
        BY <3>4
      <4>2. h \in locs /\ h.task = g.task /\ Len(h.path) = Len(g.path) + 1
            /\ SubSeq(h.path, 1, Len(g.path)) = g.path
        BY DEF Callees
      <4>3. CASE h = f
        <5>1. IsCaller(g, f)
          BY <4>2, <4>3 DEF IsCaller
        <5>2. g \in C
          BY <1>8, <5>1
        <5>3. PICK s \in Ranks : x \in ans[s]
          BY <1>7, <2>5, <4>1, <4>3
        <5>4. QED
          BY <1>4, <3>1, <5>2, <5>3
      <4>4. CASE h # f
        <5>1. Up(h) \in locs' /\ Up(h).task = h.task /\ Up(h).path = h.path /\ Up(h).region = h.region
          BY <1>3, <1>5, <4>2, <4>4
        <5>2. Up(h) \in Callees(k)'
          BY <3>2, <4>2, <5>1 DEF Callees
        <5>3. QED
          BY <4>1, <5>1, <5>2
      <4>5. QED
        BY <4>3, <4>4
    <3>5. QED
      BY <2>1, <2>5, <3>2, <3>3, <3>4 DEF Located
  <2>6. Located(x)'
    BY <1>9, <2>4, <2>5 DEF Located
  <2>7. QED
    BY <2>2, <2>3, <2>6 DEF DataInv
<1>13. QED
  BY <1>10, <1>11, <1>12 DEF PlacesInv

\* Lengths of paths.
LEMMA LengthFacts ==
  ASSUME NEW l \in Nat, l >= 1
  PROVE  /\ 1 \in 1 .. l
         /\ l # 1 => \E n \in 1 .. l : l = n + 1
         /\ ~(l > 1) => l = 1
<1>1. l # 1 => l - 1 \in 1 .. l /\ l = (l - 1) + 1
  OBVIOUS
<1>2. QED
  BY <1>1

\* An outermost activation is the only one of its task once all its callees have
\* answered.
LEMMA LastActivation ==
  ASSUME CoherenceInv, NEW f \in locs, Callees(f) = {}, Outermost(f)
  PROVE  f.region = Region(f.task) /\ \A k \in locs : k.task = f.task => k = f
<1>0. ActivationInv
  BY Basics
<1>1. \A k \in locs : k.path \in Seq(Addr)
  BY LocsFacts
<1>2. \A k \in locs : Len(k.path) \in Nat /\ Len(k.path) >= 1
  BY LocsFacts
<1>3. ASSUME Len(f.path) # 1 PROVE FALSE
  <2>1. PICK n \in 1 .. Len(f.path) : Len(f.path) = n + 1
    BY <1>2, <1>3, LengthFacts
  <2>2. PICK g \in locs : g.task = f.task /\ g.path = SubSeq(f.path, 1, n)
    BY <1>0, <2>1 DEF ActivationInv
  <2>3. Len(g.path) = n
    BY <1>1, <2>1, <2>2, PathPrefix
  <2>4. IsCaller(g, f)
    BY <2>1, <2>2, <2>3 DEF IsCaller
  <2>5. QED
    BY <2>4 DEF Outermost
<1>4. ASSUME NEW k \in locs, k.task = f.task PROVE k = f
  <2>1. 1 \in 1 .. Len(k.path)
    BY <1>2, LengthFacts
  <2>2. PICK g \in locs : g.task = k.task /\ g.path = SubSeq(k.path, 1, 1)
    BY <1>0, <2>1 DEF ActivationInv
  <2>3. Len(g.path) = 1
    BY <1>1, <2>1, <2>2, PathPrefix
  <2>4. g = f
    BY <1>0, <1>3, <1>4, <2>2, <2>3 DEF ActivationInv
  <2>5. ~(Len(k.path) > 1)
    BY <1>3, <1>4, <2>2, <2>4, NoDeeper
  <2>6. Len(k.path) = 1
    BY <1>2, <2>5, LengthFacts
  <2>7. QED
    BY <1>0, <1>3, <1>4, <2>6 DEF ActivationInv
<1>5. QED
  BY <1>0, <1>3, <1>4 DEF ActivationInv

\* The first activation answers the task: its transfers are started.
LEMMA LocatedStep ==
  ASSUME CoherenceInv, NEW f \in locs, locate_return(f), Outermost(f)
  PROVE  PlacesInv'
<1>0. TypeOK /\ OwnershipInv /\ StageInv /\ TransferInv /\ ActivationInv
  BY Basics
<1>1. PICK t, ans : t = f.task /\ ans = AddParts(f.local, f.remote)
  OBVIOUS
<1>2. /\ f.called /\ Callees(f) = {} /\ locs' = locs \ {f}
      /\ cache' = [cache EXCEPT ![Node(f)] = AddParts(@, f.remote)]
      /\ transfers' = transfers \cup Transfers(t, ans, FALSE)
      /\ pc' = [pc EXCEPT ![t] = "transfer"]
      /\ UNCHANGED <<full, frag, latest, missing, info, casts, calls, at, req>>
  BY <1>1 DEF locate_return, entry, taskVars, Outermost
<1>3. t \in Tasks /\ pc[t] = "locate" /\ ~Writes(t) /\ Here(t) \in Ranks
  BY <1>0, <1>1, LocsFacts, HereFacts
<1>4. pc'[t] = "transfer" /\ \A u \in Tasks \ {t} : pc'[u] = pc[u]
  BY <1>0, <1>2, <1>3 DEF TypeOK
<1>5. Stands(t)
  BY <1>2, <1>4 DEF Stands
<1>6. \A u : Here(u)' = Here(u) /\ Region(u)' = Region(u) /\ Writes(u)' = Writes(u)
  BY <1>3, <1>5, StandsFacts
<1>7. \A u \in Tasks : \A x : /\ Moving(u, x)' <=> Moving(u, x)
                              /\ Fetching(u, x)' <=> Fetching(u, x)
  <2>1. \A x : ~Moving(t, x) /\ ~Fetching(t, x) /\ ~Moving(t, x)' /\ ~Fetching(t, x)'
    BY <1>3, <1>6 DEF Moving, Fetching
  <2>2. QED
    BY <1>3, <1>5, <2>1, StandsFacts
<1>8. \A r : \A x : Owner(r, x)' <=> Owner(r, x)
  BY <1>2 DEF Owner
<1>9. f.region = Region(t) /\ \A k \in locs : k.task = t => k = f
  BY <1>1, <1>2, LastActivation
<1>10. /\ \A c \in casts : c.task \in Tasks \ {t}
       /\ \A m \in transfers : m.task \in Tasks \ {t} /\ m.src \in Ranks
       /\ \A k \in locs' : k \in locs /\ k.task \in Tasks \ {t}
  BY <1>0, <1>2, <1>3, <1>9, CallTypes DEF StageInv, TransferInv
<1>11. /\ ans \in Location
       /\ \A r \in Ranks : \A x \in ans[r] : x \in Elems /\ x \in Region(t) /\ Owner(r, x) /\ frag[r][x] = latest[x]
       /\ \A x \in Region(t) : (\E r \in Ranks : Owner(r, x)) => \E r \in Ranks : x \in ans[r]
  BY <1>1, <1>2, <1>9, AnswerFacts
<1>12. /\ \A m \in Transfers(t, ans, FALSE) :
            m.task = t /\ m.src \in Ranks \ {Here(t)} /\ m.region = ans[m.src] /\ m.stage = "save"
       /\ \A m, n \in Transfers(t, ans, FALSE) : m.src = n.src => m = n
  BY <1>3, <1>11, TransfersFacts
<1>13. \A m \in Transfers(t, ans, FALSE) : m.migrate = FALSE
  BY DEF Transfers
<1>14. ASSUME NEW r \in Ranks \ {Here(t)}, ans[r] # {}
       PROVE  \E m \in Transfers(t, ans, FALSE) : m.src = r
  <2>1. PICK m : m = [task |-> t, src |-> r, region |-> ans[r], migrate |-> FALSE,
                      stage |-> "save", data |-> [x \in Elems |-> Absent]]
    OBVIOUS
  <2>2. m \in Transfers(t, ans, FALSE)
    BY <1>14, <2>1 DEF Transfers
  <2>3. QED
    BY <2>1, <2>2
<1>15. StageInv'
  BY <1>0, <1>2, <1>3, <1>4, <1>6, <1>10 DEF StageInv
<1>16. TransferInv'
  <2>1. ASSUME NEW m \in transfers
        PROVE  /\ pc'[m.task] = "transfer" /\ m.region \subseteq Region(m.task)'
               /\ m.src # Here(m.task)' /\ (m.migrate <=> Writes(m.task)')
    BY <1>0, <1>4, <1>6, <1>10 DEF TransferInv
  <2>2. ASSUME NEW m \in Transfers(t, ans, FALSE)
        PROVE  /\ pc'[m.task] = "transfer" /\ m.region \subseteq Region(m.task)'
               /\ m.src # Here(m.task)' /\ (m.migrate <=> Writes(m.task)')
    <3>1. m.task = t /\ m.src \in Ranks /\ m.src # Here(t) /\ m.region = ans[m.src]
      BY <1>12
    <3>2. m.region \subseteq Region(t)
      BY <1>11, <3>1
    <3>3. pc'[m.task] = "transfer" /\ m.region \subseteq Region(m.task)' /\ m.src # Here(m.task)'
      BY <1>4, <1>6, <3>1, <3>2
    <3>4. ~m.migrate /\ ~Writes(m.task)'
      BY <1>3, <1>6, <1>13, <3>1, Zenon
    <3>5. QED
      BY <3>3, <3>4, Zenon
  <2>3. ASSUME NEW m \in transfers', NEW n \in transfers', m.task = n.task, m.src = n.src
        PROVE  m = n
    <3>1. CASE m.task = t
      BY <1>2, <1>10, <1>12, <2>3, <3>1
    <3>2. CASE m.task # t
      BY <1>0, <1>2, <1>12, <2>3, <3>2 DEF TransferInv
    <3>3. QED
      BY <3>1, <3>2
  <2>4. \A m \in transfers' : /\ pc'[m.task] = "transfer" /\ m.region \subseteq Region(m.task)'
                              /\ m.src # Here(m.task)' /\ (m.migrate <=> Writes(m.task)')
    BY <1>2, <2>1, <2>2
  <2>5. QED
    BY <2>3, <2>4 DEF TransferInv
<1>17. ActivationInv'
  <2>1. \A k \in locs' : pc'[k.task] = "locate" /\ k.region \subseteq Region(k.task)
    BY <1>0, <1>4, <1>10 DEF ActivationInv
  <2>2. \A k \in locs' : \A n \in 1 .. Len(k.path) :
          \E g \in locs' : g.task = k.task /\ g.path = SubSeq(k.path, 1, n)
    BY <1>0, <1>1, <1>2, <1>10 DEF ActivationInv
  <2>3. /\ \A k \in locs' : Len(k.path) = 1 => k.region = Region(k.task)
        /\ \A k, g \in locs' : k.task = g.task /\ Len(k.path) = 1 /\ Len(g.path) = 1 => k = g
    BY <1>0, <1>10 DEF ActivationInv
  <2>4. QED
    BY <1>6, <2>1, <2>2, <2>3 DEF ActivationInv
<1>18. ASSUME NEW x \in Elems PROVE DataInv(x)'
  <2>1. Stored(x) /\ Collected(x) /\ Brought(x) /\ Tracked(x) /\ Located(x)
    BY Basics
  <2>2. Stored(x)'
    <3>1. \A u \in Tasks : pc'[u] \in Engaged => pc[u] \in Engaged
      BY <1>3, <1>4 DEF Engaged
    <3>2. QED
      BY <1>2, <1>6, <1>7, <1>8, <2>1, <3>1 DEF Stored
  <2>3. Collected(x)'
    <3>1. \A u \in Tasks : pc'[u] = "collect" => pc[u] = "collect"
      BY <1>4
    <3>2. QED
      BY <1>2, <1>6, <1>8, <2>1, <3>1 DEF Collected
  <2>4. Brought(x)'
    <3>1. ASSUME x \in Region(t)
          PROVE  frag[Here(t)][x] = latest[x] \/ \E m \in transfers' : m.task = t /\ x \in m.region
      <4>1. CASE \E r \in Ranks : Owner(r, x)
        <5>1. PICK r \in Ranks : x \in ans[r]
          BY <1>11, <3>1, <4>1
        <5>2. CASE r = Here(t)
          BY <1>11, <5>1, <5>2
        <5>3. CASE r # Here(t)
          <6>1. PICK m \in Transfers(t, ans, FALSE) : m.src = r
            BY <1>14, <5>1, <5>3
          <6>2. QED
            BY <1>2, <1>12, <5>1, <6>1
        <5>4. QED
          BY <5>2, <5>3
      <4>2. CASE ~\E r \in Ranks : Owner(r, x)
        <5>1. frag[Here(t)][x] # Absent /\ latest[x] = Blank
          BY <1>3, <2>1, <3>1, <4>2 DEF Stored, Engaged
        <5>2. QED
          BY <1>3, <2>1, <5>1 DEF Stored
      <4>3. QED
        BY <4>1, <4>2
    <3>2. ASSUME NEW u \in Tasks, pc'[u] = "transfer", x \in Region(u)
          PROVE  frag[Here(u)][x] = latest[x] \/ \E m \in transfers' : m.task = u /\ x \in m.region
      BY <1>2, <1>4, <2>1, <3>1, <3>2 DEF Brought
    <3>3. ASSUME NEW u \in Tasks, pc'[u] = "running", x \in Region(u)
          PROVE  frag[Here(u)][x] = latest[x]
      BY <1>4, <2>1, <3>3 DEF Brought
    <3>4. ASSUME NEW m \in Transfers(t, ans, FALSE), x \in m.region
          PROVE  frag[m.src][x] = latest[x]
      BY <1>11, <1>12, <3>4
    <3>5. ASSUME NEW m \in transfers', m.stage = "save", x \in m.region
          PROVE  frag[m.src][x] = latest[x] /\ (m.migrate => ~Owner(m.src, x))
      <4>1. CASE m \in transfers
        BY <2>1, <3>5, <4>1 DEF Brought
      <4>2. CASE m \in Transfers(t, ans, FALSE)
        <5>1. ~m.migrate
          BY <1>13, <4>2, Zenon
        <5>2. frag[m.src][x] = latest[x]
          BY <3>4, <3>5, <4>2
        <5>3. QED
          BY <5>1, <5>2, Zenon
      <4>3. QED
        BY <1>2, <4>1, <4>2
    <3>6. \A m \in transfers' : m.stage = "load" =>
            m.data[x] = IF x \in m.region THEN latest[x] ELSE Absent
      <4>1. \A m \in Transfers(t, ans, FALSE) : m.stage # "load"
        BY <1>12
      <4>2. QED
        BY <1>2, <2>1, <4>1 DEF Brought
    <3>7. QED
      BY <1>2, <1>6, <1>8, <3>2, <3>3, <3>5, <3>6 DEF Brought
  <2>5. Tracked(x)'
    BY <1>2, <1>7, CachedStep
  <2>6. Located(x)'
    <3>1. \A k \in locs' : \A h \in Callees(k) : h \in Callees(k)'
      BY <1>1, <1>2, <1>10 DEF Callees
    <3>2. QED
      BY <1>6, <1>8, <1>10, <2>1, <3>1 DEF Located
  <2>7. QED
    BY <2>2, <2>3, <2>4, <2>5, <2>6 DEF DataInv
<1>19. QED
  BY <1>15, <1>16, <1>17, <1>18 DEF PlacesInv

LEMMA ReturnStep ==
  ASSUME CoherenceInv, NEW f \in locs, locate_return(f)
  PROVE  PlacesInv'
BY AnswerStep, LocatedStep

(***************************************************************************)
(* The invariant holds.                                                    *)
(***************************************************************************)
LEMMA CoherenceInit == Init => CoherenceInv
<1> SUFFICES ASSUME Init PROVE CoherenceInv
  OBVIOUS
<1>1. OwnershipInv
  BY OwnershipInit
<1>2. /\ \A a \in Addr : full[a] = {} /\ cache[a] = Nowhere
      /\ \A r \in Ranks, x \in Elems : frag[r][x] = Absent
      /\ \A x \in Elems : latest[x] = Blank
      /\ \A t \in Tasks : /\ pc[t] \in {"new", "done"} /\ req[t] = NoRequirement
                          /\ missing[t] = {} /\ info[t] = Nowhere
      /\ calls = {} /\ casts = {} /\ locs = {} /\ transfers = {}
  BY DEF Init
<1>3. \A t \in Tasks : Region(t) = {}
  BY <1>2 DEF Region, NoRequirement
<1>4. \A r \in Ranks : \A x : ~Owner(r, x)
  BY <1>2, TreeFacts DEF Owner
<1>5. StageInv /\ TransferInv /\ ActivationInv
  BY <1>2 DEF StageInv, TransferInv, ActivationInv
<1>6. ASSUME NEW x \in Elems PROVE DataInv(x)
  <2>1. Stored(x)
    BY <1>2, <1>3, <1>4 DEF Stored
  <2>2. Collected(x) /\ Brought(x)
    BY <1>2 DEF Collected, Brought
  <2>3. Tracked(x)
    BY <1>2 DEF Tracked, Nowhere
  <2>4. Located(x)
    BY <1>2 DEF Located
  <2>5. QED
    BY <2>1, <2>2, <2>3, <2>4 DEF DataInv
<1>7. QED
  BY <1>1, <1>5, <1>6 DEF CoherenceInv, PlacesInv

LEMMA CoherenceNext ==
  ASSUME Orderly, CoherenceInv, [Next]_vars
  PROVE  CoherenceInv'
<1>1. OwnershipInv'
  BY OwnershipNext, Basics
<1>2. ASSUME NEW t \in Tasks, TaskStep(t) PROVE PlacesInv'
  <2>1. CASE \/ schedule_here(t) \/ schedule_shortcut(t) \/ schedule_turn(t) \/ schedule_up(t)
             \/ schedule_down_reject(t) \/ schedule_down_stay(t)
             \/ schedule_down_left(t) \/ schedule_down_right(t) \/ schedule_local_descend(t)
    BY <2>1, AsideTask, AsideStep
  <2>2. CASE schedule_local_split(t) \/ schedule_local_leaf(t)
    BY <2>2, ArriveStep
  <2>3. CASE acquire_owned(t)
    BY <2>3, OwnedStep
  <2>4. CASE acquire_missing(t)
    BY <2>4, MissingStep
  <2>5. CASE acquire_ownership(t)
    BY <2>5, GainStep
  <2>6. CASE acquire_fetch(t)
    BY <2>6, FetchStep
  <2>7. CASE acquire_read(t)
    BY <2>7, ReadingStep
  <2>8. CASE process(t)
    BY <2>8, ProcessStep
  <2>9. CASE finalize(t)
    BY <2>9, FinalizeStep
  <2>10. QED
    BY <1>2, <2>1, <2>2, <2>3, <2>4, <2>5, <2>6, <2>7, <2>8, <2>9 DEF TaskStep
<1>3. ASSUME CallStep PROVE PlacesInv'
  <2>1. ASSUME NEW c \in casts, update_cache(c)
        PROVE  PlacesInv'
    BY <2>1, UpdateStep
  <2>2. ASSUME NEW c \in calls, acquire_ownership_for(c) \/ collect_child_ownerships(c)
        PROVE  PlacesInv'
    BY <2>2, AsideCall, AsideStep
  <2>3. ASSUME NEW c \in calls, collect_leaf_ownership(c)
        PROVE  PlacesInv'
    BY <2>3, GiveUpStep
  <2>4. ASSUME NEW m \in transfers, data_item_view_save(m)
        PROVE  PlacesInv'
    BY <2>4, SaveStep
  <2>5. ASSUME NEW m \in transfers, data_item_view_load(m)
        PROVE  PlacesInv'
    BY <2>5, LoadStep
  <2>6. ASSUME NEW f \in locs, NEW hit \in [Elems -> Ranks], locate(f, hit)
        PROVE  PlacesInv'
    <3>1. /\ ~f.called
          /\ UNCHANGED <<full, cache, frag, latest, missing, info, casts, transfers, calls, pc, at, req>>
      BY <2>6 DEF locate, entry, taskVars
    <3>2. PICK here, asked : Spreads(f, here, asked)
      BY <2>6, LocateSpreads
    <3>3. QED
      BY <3>1, <3>2, SpreadStep
  <2>7. ASSUME NEW f \in locs, locate_return(f)
        PROVE  PlacesInv'
    BY <2>7, ReturnStep
  <2>8. QED
    BY <1>3, <2>1, <2>2, <2>3, <2>4, <2>5, <2>6, <2>7 DEF CallStep
<1>4. ASSUME NEW t \in Tasks, NEW q \in Requirements, NEW r \in Ranks, NEW g \in Addr,
             NEW p \in ParentGoals(g), spawn(t, q, r, g, p)
      PROVE  PlacesInv'
  BY <1>4, AsideSpawn, AsideStep
<1>5. ASSUME UNCHANGED vars
      PROVE  PlacesInv'
  <2>1. Aside
    BY <1>5 DEF vars, Aside, Apart
  <2>2. QED
    BY <2>1, AsideStep
<1>6. PlacesInv'
  <2>1. CASE Next
    BY <1>2, <1>3, <1>4, <1>5, <2>1 DEF Next, Terminated
  <2>2. CASE UNCHANGED vars
    BY <1>5, <2>2
  <2>3. QED
    BY <2>1, <2>2
<1>7. QED
  BY <1>1, <1>6 DEF CoherenceInv

LEMMA CoherenceHolds == Orderly => (Spec => []CoherenceInv)
<1> SUFFICES ASSUME Orderly PROVE Spec => []CoherenceInv
  OBVIOUS
<1>1. Init => CoherenceInv
  BY CoherenceInit
<1>2. CoherenceInv /\ [Next]_vars => CoherenceInv'
  BY CoherenceNext
<1>3. QED
  BY <1>1, <1>2, PTL DEF Spec

(***************************************************************************)
(* What follows from it.                                                   *)
(***************************************************************************)
LEMMA LatestInv == CoherenceInv => RunsOnLatest
<1> SUFFICES ASSUME CoherenceInv, NEW t \in Tasks, pc[t] = "running", NEW x \in Region(t)
             PROVE  frag[Here(t)][x] = latest[x]
  BY DEF RunsOnLatest
<1>1. x \in Elems
  BY Basics, HereFacts
<1>2. QED
  BY <1>1, Basics DEF Brought

LEMMA KeptInv == CoherenceInv => NothingLost
<1> SUFFICES ASSUME CoherenceInv, NEW x \in Elems, latest[x] # Blank
             PROVE  \/ \E r \in Ranks : frag[r][x] = latest[x]
                    \/ \E m \in transfers : m.data[x] = latest[x]
  BY DEF NothingLost
<1>1. Stored(x) /\ Collected(x) /\ Brought(x)
  BY Basics
<1>2. \A t \in Tasks : Here(t) \in Ranks
  BY Basics, HereFacts
<1>3. \A t, u \in Tasks : Fetching(t, x) /\ Fetching(u, x) => t = u
  BY MoverFacts
<1>4. PICK r \in Ranks : Owner(r, x)
  BY <1>1 DEF Stored
<1>5. ASSUME NEW t \in Tasks, Fetching(t, x), Here(t) = r,
             \A s \in Ranks : frag[s][x] # latest[x]
      PROVE  \E m \in transfers : m.data[x] = latest[x]
  <2>1. x \in Region(t) /\ x \in missing[t]
    BY <1>5, MoverFacts DEF Fetching
  <2>2. CASE pc[t] = "transfer"
    <3>1. PICK m \in transfers : m.task = t /\ x \in m.region
      BY <1>1, <1>2, <1>5, <2>1, <2>2 DEF Brought
    <3>2. m.stage \in {"save", "load"} /\ m.src \in Ranks
      BY Basics, CallTypes
    <3>3. QED
      BY <1>1, <1>5, <3>1, <3>2 DEF Brought
  <2>3. CASE pc[t] = "collect"
    <3>1. ASSUME NEW s \in Ranks \ {Here(t)}, Owner(s, x)
          PROVE  FALSE
      <4>1. PICK u \in Tasks : Fetching(u, x) /\ Here(u) = s
        BY <1>1, <1>5, <3>1 DEF Stored
      <4>2. QED
        BY <1>3, <1>5, <3>1, <4>1
    <3>2. PICK s \in Ranks : x \in info[t][s]
      BY <1>1, <1>2, <1>5, <2>1, <2>3, <3>1 DEF Collected
    <3>3. QED
      BY <1>1, <1>5, <2>3, <3>2 DEF Collected
  <2>4. QED
    BY <1>5, <2>2, <2>3 DEF Fetching
<1>6. QED
  BY <1>1, <1>4, <1>5 DEF Stored

LEMMA FreshInv == CoherenceInv => CacheFresh
<1> SUFFICES ASSUME CoherenceInv, NEW a \in Addr, NEW r \in Ranks, NEW x \in cache[a][r]
             PROVE  WriterActive(x) \/ x \in full[Leaf[r]]
  BY DEF CacheFresh
<1>1. x \in Elems
  BY Basics DEF TypeOK, Location
<1>2. CASE Owner(r, x)
  BY <1>2 DEF Owner
<1>3. CASE \E t \in Tasks : Moving(t, x)
  <2>1. PICK t \in Tasks : Moving(t, x)
    BY <1>3
  <2>2. x \in Region(t) /\ Writes(t)
    BY <2>1, MoverFacts
  <2>3. QED
    BY <2>1, <2>2 DEF WriterActive, Active, Moving
<1>4. QED
  BY <1>1, <1>2, <1>3, Basics DEF Tracked

(***************************************************************************)
(* One copy.  process and finalize are the start and the finish of a task, *)
(* every other step leaves what the running tasks see alone: it is the     *)
(* latest values of their regions before the step and after it.            *)
(***************************************************************************)

\* A task that is spawned and not done has a requirement of the program.
Asked == \A t \in Tasks : pc[t] \notin {"new", "done"} => req[t] \in Requirements

CopyInv == CoherenceInv /\ Asked

\* No task is started or finished, and t does its next step or none.
Proceeds(t) ==
  \/ pc'[t] = pc[t] /\ req'[t] = req[t]
  \/ pc[t] = "new" /\ pc'[t] = "schedule" /\ req'[t] \in Requirements
  \/ pc[t] \notin {"new", "running"} /\ pc'[t] = "done"
  \/ pc[t] \notin {"new", "done", "running"} /\ pc'[t] \notin {"new", "done", "running"} /\ req'[t] = req[t]

LEMMA OthersProceed ==
  ASSUME CoherenceInv, Next, ~ \E t \in Tasks : process(t) \/ finalize(t)
  PROVE  latest' = latest /\ \A t \in Tasks : Proceeds(t)
<1>0. pc \in [Tasks -> Stages] /\ req \in [Tasks -> Requirements \cup {NoRequirement}]
  BY Basics DEF TypeOK
<1>1. ASSUME NEW t \in Tasks, TaskStep(t)
      PROVE  latest' = latest /\ \A u \in Tasks : Proceeds(u)
  <2>1. \/ schedule_here(t) \/ schedule_shortcut(t) \/ schedule_turn(t) \/ schedule_up(t)
        \/ schedule_down_reject(t) \/ schedule_down_stay(t)
        \/ schedule_down_left(t) \/ schedule_down_right(t)
        \/ schedule_local_split(t) \/ schedule_local_descend(t) \/ schedule_local_leaf(t)
        \/ acquire_owned(t) \/ acquire_missing(t) \/ acquire_ownership(t) \/ acquire_fetch(t)
        \/ acquire_read(t)
    BY <1>1 DEF TaskStep
  <2>2. latest' = latest
    BY <2>1 DEF schedule_here, schedule_shortcut, schedule_turn, schedule_up,
       schedule_down_reject, schedule_down_stay, schedule_down_left, schedule_down_right,
       schedule_local_split, schedule_local_descend, schedule_local_leaf, acquire_owned,
       acquire_missing, acquire_ownership, acquire_fetch, acquire_read, index
  <2>3. CASE schedule_local_split(t)
    BY <1>0, <2>2, <2>3 DEF schedule_local_split, Forget, Proceeds
  <2>4. CASE ~schedule_local_split(t)
    <3>1. /\ pc[t] \in {"schedule", "down", "local", "acquire", "own", "collect"} /\ req' = req
          /\ \/ pc' = pc
             \/ \E c \in {"schedule", "down", "local", "acquire", "own", "collect", "locate", "transfer"} :
                  pc' = [pc EXCEPT ![t] = c]
      BY <2>1, <2>4 DEF schedule_here, schedule_shortcut, schedule_turn, schedule_up, MayLeave,
         schedule_down_reject, schedule_down_stay, schedule_down_left, schedule_down_right,
         schedule_local_descend, schedule_local_leaf, acquire_owned,
         acquire_missing, acquire_ownership, acquire_fetch, acquire_read, taskVars
    <3>2. QED
      BY <1>0, <2>2, <3>1 DEF Proceeds
  <2>5. QED
    BY <2>3, <2>4
<1>2. ASSUME CallStep
      PROVE  latest' = latest /\ \A u \in Tasks : Proceeds(u)
  <2>1. CASE latest' = latest /\ pc' = pc /\ req' = req
    BY <2>1 DEF Proceeds
  <2>2. ASSUME NEW f \in locs, locate_return(f)
        PROVE  latest' = latest /\ \A u \in Tasks : Proceeds(u)
    <3>1. pc[f.task] = "locate" /\ f.task \in Tasks
      BY Basics, CallTypes DEF ActivationInv
    <3>2. /\ latest' = latest /\ req' = req
          /\ pc' = pc \/ pc' = [pc EXCEPT ![f.task] = "transfer"]
      BY <2>2 DEF locate_return, taskVars
    <3>3. QED
      BY <1>0, <3>1, <3>2 DEF Proceeds
  <2>3. QED
    BY <1>2, <2>1, <2>2 DEF CallStep, update_cache, acquire_ownership_for, collect_child_ownerships,
       collect_leaf_ownership, data_item_view_save, data_item_view_load, locate, taskVars
<1>3. ASSUME NEW t \in Tasks, NEW q \in Requirements, NEW r \in Ranks, NEW g \in Addr,
             NEW p \in ParentGoals(g), spawn(t, q, r, g, p)
      PROVE  latest' = latest /\ \A u \in Tasks : Proceeds(u)
  BY <1>0, <1>3 DEF spawn, Proceeds
<1>4. CASE UNCHANGED vars
  BY <1>4 DEF vars, Proceeds
<1>5. QED
  BY <1>1, <1>2, <1>3, <1>4 DEF Next, Terminated

LEMMA AskedStep ==
  ASSUME CopyInv, [Next]_vars
  PROVE  Asked'
<1>0. CoherenceInv /\ Asked /\ pc \in [Tasks -> Stages] /\ req \in [Tasks -> Requirements \cup {NoRequirement}]
  BY Basics DEF CopyInv, TypeOK
<1>1. CASE Next /\ ~ \E t \in Tasks : process(t) \/ finalize(t)
  <2>1. \A t \in Tasks : Proceeds(t)
    BY <1>0, <1>1, OthersProceed
  <2>2. QED
    BY <1>0, <2>1 DEF Asked, Proceeds
<1>2. ASSUME NEW t \in Tasks, process(t)
      PROVE  Asked'
  BY <1>0, <1>2 DEF process, Asked, taskVars
<1>3. ASSUME NEW t \in Tasks, finalize(t)
      PROVE  Asked'
  BY <1>0, <1>3 DEF finalize, Forget, Asked
<1>4. CASE UNCHANGED vars
  BY <1>0, <1>4 DEF vars, Asked
<1>5. QED
  BY <1>1, <1>2, <1>3, <1>4

\* A running task sees the latest values of its region.
View == [t \in Tasks |-> Sees(t)]
LatestView == [t \in Tasks |-> [x \in IF pc[t] = "running" THEN Region(t) ELSE {} |-> latest[x]]]

LEMMA ViewIsLatest == CoherenceInv => View = LatestView
BY LatestInv DEF RunsOnLatest, View, LatestView, Sees

RunningWriters == {t \in Tasks : pc[t] = "running" /\ Writes(t)}

LEMMA CopyStep ==
  ASSUME CopyInv, View = LatestView, View' = LatestView', [Next]_vars
  PROVE  [OneCopy!Next]_(OneCopy!vars)
<1>0. CoherenceInv /\ Asked /\ TypeOK
  BY Basics DEF CopyInv
<1>2. latest' = latest /\ View' = View /\ RunningWriters' = RunningWriters
      => OneCopy!vars' = OneCopy!vars
  BY DEF OneCopy!vars, View, RunningWriters
<1>3. \A t \in Tasks : OneCopy!Seen(t) = IF pc[t] = "running" THEN Region(t) ELSE {}
  BY DEF OneCopy!Seen, Sees
<1>4. /\ pc \in [Tasks -> Stages] /\ latest \in [Elems -> Versions]
      /\ \A t \in Tasks : Region(t) \subseteq Elems
      /\ \A t, u \in Tasks : t # u /\ Writes(t) => Region(t) \cap Region(u) = {}
  BY <1>0, HereFacts, OneWriter, Basics DEF TypeOK
<1>5. \A t \in Tasks : pc[t] \notin {"new", "done"} => Region(t) \in (SUBSET Elems) \ {{}}
  BY <1>0, RequirementFacts DEF Asked, Region, Regions
<1>6. CASE latest' = latest /\ \A t \in Tasks : Proceeds(t)
  <2>1. \A t \in Tasks : (pc'[t] = "running" <=> pc[t] = "running") /\ (pc[t] = "running" => req'[t] = req[t])
    BY <1>6 DEF Proceeds
  <2>2. LatestView' = LatestView
    BY <1>6, <2>1 DEF LatestView, Region
  <2>3. RunningWriters' = RunningWriters
    BY <2>1 DEF RunningWriters, Writes
  <2>4. QED
    BY <1>2, <1>6, <2>2, <2>3
<1>7. ASSUME NEW t \in Tasks, NEW w \in BOOLEAN, w <=> Writes(t), process(t)
      PROVE  OneCopy!Start(t, Region(t), w)
  <2>1. pc[t] = "transfer" /\ pc' = [pc EXCEPT ![t] = "running"] /\ latest' = latest /\ req' = req
    BY <1>7 DEF process, index, taskVars
  <2>2. OneCopy!Seen(t) = {}
    BY <1>3, <2>1
  <2>3. OneCopy!InConflict(Region(t), w) = {}
    <3>1. ASSUME NEW u \in Tasks, OneCopy!Seen(u) \cap Region(t) # {}, w \/ u \in RunningWriters
          PROVE  FALSE
      BY <1>3, <1>4, <1>7, <2>1, <3>1 DEF RunningWriters
    <3>2. QED
      BY <3>1 DEF OneCopy!InConflict, RunningWriters
  <2>4. View' = [View EXCEPT ![t] = [x \in Region(t) |-> latest[x]]]
    <3>1. LatestView' = [u \in Tasks |-> [x \in IF u = t THEN Region(t) ELSE
                                              IF pc[u] = "running" THEN Region(u) ELSE {} |-> latest[x]]]
      BY <1>4, <2>1 DEF LatestView, Region
    <3>2. QED
      BY <3>1 DEF LatestView
  <2>5. RunningWriters' = IF w THEN RunningWriters \cup {t} ELSE RunningWriters
    BY <1>4, <1>7, <2>1 DEF RunningWriters, Writes
  <2>6. QED
    BY <2>1, <2>2, <2>3, <2>4, <2>5 DEF OneCopy!Start, View, RunningWriters
<1>8. ASSUME NEW t \in Tasks, finalize(t)
      PROVE  OneCopy!Finish(t)
  <2>1. /\ pc[t] = "running" /\ pc' = [pc EXCEPT ![t] = "done"]
        /\ req' = [req EXCEPT ![t] = NoRequirement]
    BY <1>8 DEF finalize, Forget
  <2>2. OneCopy!Seen(t) = Region(t) /\ Region(t) # {}
    BY <1>3, <1>5, <2>1
  <2>3. latest' = [x \in Elems |-> IF t \in RunningWriters /\ x \in Region(t) THEN t ELSE latest[x]]
    BY <1>4, <1>8, <2>1 DEF finalize, RunningWriters
  <2>4. View' = [View EXCEPT ![t] = [x \in {} |-> Blank]]
    <3>1. ASSUME NEW u \in Tasks, u # t
          PROVE  LatestView'[u] = LatestView[u]
      <4>1. \A x \in Region(u) : pc[u] = "running" => latest'[x] = latest[x]
        BY <1>4, <2>3, <3>1 DEF RunningWriters
      <4>2. QED
        BY <1>4, <2>1, <3>1, <4>1 DEF LatestView, Region
    <3>2. LatestView'[t] = [x \in {} |-> Blank]
      BY <1>4, <2>1 DEF LatestView
    <3>3. QED
      BY <3>1, <3>2 DEF LatestView
  <2>5. RunningWriters' = RunningWriters \ {t}
    BY <1>4, <2>1 DEF RunningWriters, Writes
  <2>6. QED
    BY <2>2, <2>3, <2>4, <2>5 DEF OneCopy!Finish, View, RunningWriters
<1>9. QED
  <2>1. CASE UNCHANGED vars
    BY <1>6, <2>1 DEF vars, Proceeds
  <2>2. ASSUME NEW t \in Tasks, process(t)
        PROVE  OneCopy!Next
    <3>1. Region(t) \in (SUBSET Elems) \ {{}}
      BY <1>5, <2>2 DEF process
    <3>2. PICK w \in BOOLEAN : w <=> Writes(t)
      BY Zenon
    <3>3. OneCopy!Start(t, Region(t), w)
      BY <1>7, <2>2, <3>2
    <3>4. QED
      BY <3>1, <3>3, Zenon DEF OneCopy!Next
  <2>3. ASSUME NEW t \in Tasks, finalize(t)
        PROVE  OneCopy!Next
    BY <1>8, <2>3 DEF OneCopy!Next
  <2>4. QED
    BY <1>0, <1>6, <2>1, <2>2, <2>3, OthersProceed

(***************************************************************************)
(* The theorems.                                                           *)
(***************************************************************************)

\* The fragments, transfers and ownership records implement one copy of the data item:
\* process starts a task on the latest values of its region beside no conflicting one,
\* and no other handler changes what it sees until finalize.
THEOREM IndexImplementsOneCopy == Orderly => (Spec => ImplementsOneCopy)
<1> SUFFICES ASSUME Orderly PROVE Spec => ImplementsOneCopy
  OBVIOUS
<1>1. Init => OneCopy!Init
  BY ValuesAssumption DEF Init, OneCopy!Init, Sees
<1>2. Init => CopyInv
  BY CoherenceInit DEF Init, CopyInv, Asked
<1>3. CopyInv /\ [Next]_vars => CopyInv'
  BY CoherenceNext, AskedStep DEF CopyInv
<1>4. CopyInv => View = LatestView
  BY ViewIsLatest DEF CopyInv
<1>5. CopyInv /\ View = LatestView /\ (View = LatestView)' /\ [Next]_vars => [OneCopy!Next]_(OneCopy!vars)
  BY CopyStep
<1>6. QED
  BY <1>1, <1>2, <1>3, <1>4, <1>5, PTL DEF Spec, ImplementsOneCopy, OneCopy!Spec

\* When process runs the variant of a task, acquire has brought the last written
\* values of its whole region to its locality: by migration with the ownership
\* for a writer, by locate and copies from the owners for a reader.
THEOREM LatestValues == Orderly => (Spec => []RunsOnLatest)
BY CoherenceHolds, LatestInv, PTL

\* A value that was written stays in a fragment or in a transfer, although
\* collect_child_ownerships takes the ownership away before data_item_view moves
\* the data and removes it at the source.
THEOREM NoValueLost == Orderly => (Spec => []NothingLost)
BY CoherenceHolds, KeptInv, PTL

\* A location that locate has cached is that of the owner, unless a writer that
\* acquires the element is active: the broadcast of update_cache reaches every
\* locality before its acquisition is over.
THEOREM CacheIsFresh == Orderly => (Spec => []CacheFresh)
BY CoherenceHolds, FreshInv, PTL

=============================================================================
