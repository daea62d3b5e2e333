---------------------------- MODULE WorkItemsProofs ----------------------------
(***************************************************************************)
(* The chain of loops for every number of loops, every depth they are      *)
(* split to and every set of localities, where the work items that may be  *)
(* sent away wait for the future of their dependencies.                    *)
(***************************************************************************)
EXTENDS WorkItems, SequenceTheorems, TLAPS

\* The work items that may be sent away are those of runtime::after.  For the
\* handles in a closure it is not true that a piece runs after its neighbours.
OnlyAfterMoves == Movable \subseteq {"after"}

-----------------------------------------------------------------------------
(* Tasks and their names.                                                  *)

\* t and everything below it.
Below(t) ==
  {u \in Tasks : /\ u[1] = t[1] /\ Len(t[2]) <= Len(u[2])
                 /\ \A i \in 1 .. Len(t[2]) : u[2][i] = t[2][i]}

\* What every work item of a loop waits for: the result of the loop before it.
Before(t) == Result(Root(t[1] - 1))

LEMMA LoopFacts ==
  /\ Len(LoopDepth) \in Nat \ {0} /\ Loops = 1 .. Len(LoopDepth)
  /\ \A k \in Loops : LoopDepth[k] \in Nat
<1>1. LoopDepth \in Seq(Nat) /\ LoopDepth # <<>>
  BY WorkItemsAssumption
<1>2. QED
  BY <1>1 DEF Loops

LEMMA PathFacts ==
  ASSUME NEW d \in Nat, NEW p
  PROVE  p \in Paths(d) <=> p \in Seq({0, 1}) /\ Len(p) <= d
<1>1. ASSUME p \in Paths(d) PROVE p \in Seq({0, 1}) /\ Len(p) <= d
  <2>1. PICK n \in 0 .. d : p \in [1 .. n -> {0, 1}]
    BY <1>1 DEF Paths
  <2>2. n \in Nat
    BY <2>1
  <2>3. p \in Seq({0, 1})
    BY <2>1, <2>2, SeqDef
  <2>4. Len(p) = n
    BY <2>1, <2>2, <2>3, LenProperties
  <2>5. QED
    BY <2>1, <2>3, <2>4
<1>2. ASSUME p \in Seq({0, 1}), Len(p) <= d PROVE p \in Paths(d)
  <2>1. Len(p) \in 0 .. d /\ p \in [1 .. Len(p) -> {0, 1}]
    BY <1>2, LenProperties
  <2>2. QED
    BY <2>1 DEF Paths
<1>3. QED
  BY <1>1, <1>2

LEMMA TaskFacts ==
  ASSUME NEW t \in Tasks
  PROVE  /\ t[1] \in Loops /\ t[1] \in Nat /\ t[2] \in Seq({0, 1}) /\ t = <<t[1], t[2]>>
         /\ Len(t[2]) \in Nat /\ Len(t[2]) <= LoopDepth[t[1]] /\ LoopDepth[t[1]] \in Nat
<1>1. PICK k \in Loops : t \in {k} \X Paths(LoopDepth[k])
  BY DEF Tasks
<1>2. t = <<k, t[2]>> /\ t[2] \in Paths(LoopDepth[k]) /\ LoopDepth[k] \in Nat /\ k \in Nat
  BY <1>1, LoopFacts
<1>3. t[2] \in Seq({0, 1}) /\ Len(t[2]) <= LoopDepth[k]
  BY <1>2, PathFacts
<1>4. QED
  BY <1>2, <1>3, LenProperties

LEMMA TaskOf ==
  ASSUME NEW k \in Loops, NEW p \in Seq({0, 1}), Len(p) <= LoopDepth[k]
  PROVE  <<k, p>> \in Tasks
<1>1. p \in Paths(LoopDepth[k])
  BY LoopFacts, PathFacts
<1>2. QED
  BY <1>1 DEF Tasks

LEMMA RootFacts ==
  ASSUME NEW k \in Loops
  PROVE  Root(k) \in Tasks /\ Root(k)[1] = k /\ \A u \in Tasks : u[1] = k => u \in Below(Root(k))
<1>1. <<>> \in Seq({0, 1}) /\ Len(<<>>) = 0 /\ Len(<<>>) <= LoopDepth[k]
  BY LoopFacts
<1>2. Root(k) \in Tasks
  <2>1. <<k, <<>> >> \in Tasks
    BY <1>1, TaskOf
  <2>2. QED
    BY <2>1 DEF Root
<1>3. Root(k)[1] = k /\ Root(k)[2] = <<>>
  BY DEF Root
<1>4. ASSUME NEW u \in Tasks, u[1] = k PROVE u \in Below(Root(k))
  <2>1. Len(Root(k)[2]) = 0
    BY <1>1, <1>3
  <2>2. Len(u[2]) \in Nat
    BY TaskFacts
  <2>3. QED
    BY <1>3, <1>4, <2>1, <2>2 DEF Below
<1>5. QED
  BY <1>2, <1>3, <1>4

LEMMA ChildFacts ==
  ASSUME NEW t \in Tasks \ Pieces, NEW s \in {0, 1}
  PROVE  /\ Child(t, s) \in Tasks /\ Child(t, s)[1] = t[1]
         /\ Child(t, s)[2] = Append(t[2], s) /\ Len(Child(t, s)[2]) = Len(t[2]) + 1
         /\ \A i \in 1 .. Len(t[2]) : Child(t, s)[2][i] = t[2][i]
         /\ Child(t, s)[2][Len(t[2]) + 1] = s
<1>1. /\ t[1] \in Loops /\ t[2] \in Seq({0, 1}) /\ Len(t[2]) \in Nat
      /\ LoopDepth[t[1]] \in Nat
  BY TaskFacts
<1>2. Len(t[2]) < LoopDepth[t[1]]
  BY DEF Pieces, DoSplit
<1>3. /\ Append(t[2], s) \in Seq({0, 1}) /\ Len(Append(t[2], s)) = Len(t[2]) + 1
      /\ \A i \in 1 .. Len(t[2]) : Append(t[2], s)[i] = t[2][i]
      /\ Append(t[2], s)[Len(t[2]) + 1] = s
  BY <1>1, AppendProperties
<1>4. <<t[1], Append(t[2], s)>> \in Tasks
  <2>1. Len(Append(t[2], s)) <= LoopDepth[t[1]]
    BY <1>1, <1>2, <1>3
  <2>2. QED
    BY <1>1, <1>3, <2>1, TaskOf
<1>5. Child(t, s) \in Tasks /\ Child(t, s)[1] = t[1] /\ Child(t, s)[2] = Append(t[2], s)
  BY <1>4 DEF Child
<1>6. QED
  BY <1>3, <1>5

\* Every task has one parent at most, a root none.
LEMMA Parents ==
  ASSUME NEW t \in Tasks \ Pieces, NEW s \in {0, 1}
  PROVE  /\ Child(t, s) # t /\ \A k : Child(t, s) # Root(k)
         /\ Child(t, 0) # Child(t, 1)
         /\ \A u \in Tasks \ Pieces, r \in {0, 1} : Child(u, r) = Child(t, s) => u = t /\ r = s
<1>1. Len(t[2]) \in Nat /\ t[2] \in Seq({0, 1}) /\ t = <<t[1], t[2]>>
  BY TaskFacts
<1>2. Child(t, s)[2] = Append(t[2], s) /\ Len(Child(t, s)[2]) = Len(t[2]) + 1 /\ Child(t, s)[1] = t[1]
  BY ChildFacts
<1>3. Child(t, s) # t
  BY <1>1, <1>2
<1>4. ASSUME NEW k PROVE Child(t, s) # Root(k)
  <2>1. Root(k)[2] = <<>> /\ Len(<<>>) = 0
    BY DEF Root
  <2>2. QED
    BY <1>1, <1>2, <2>1
<1>5. ASSUME NEW u \in Tasks \ Pieces, NEW r \in {0, 1}, Child(u, r) = Child(t, s) PROVE u = t /\ r = s
  <2>1. u[2] \in Seq({0, 1}) /\ u = <<u[1], u[2]>> /\ Child(u, r)[1] = u[1] /\ Child(u, r)[2] = Append(u[2], r)
    BY TaskFacts, ChildFacts
  <2>2. Append(u[2], r) = Append(t[2], s) /\ u[1] = t[1]
    BY <1>2, <1>5, <2>1
  <2>3. u[2] = t[2] /\ r = s
    BY <1>1, <2>1, <2>2, AppendInjective
  <2>4. QED
    BY <1>1, <2>1, <2>2, <2>3
<1>6. QED
  BY <1>3, <1>4, <1>5

LEMMA BelowFacts ==
  ASSUME NEW t \in Tasks
  PROVE  /\ t \in Pieces => Below(t) = {t}
         /\ t \notin Pieces => Below(t) \subseteq {t} \cup Below(Child(t, 0)) \cup Below(Child(t, 1))
<1>1. t[2] \in Seq({0, 1}) /\ Len(t[2]) \in Nat /\ t = <<t[1], t[2]>>
  BY TaskFacts
<1>2. ASSUME NEW u \in Below(t)
      PROVE  /\ u \in Tasks /\ u[1] = t[1] /\ u[2] \in Seq({0, 1}) /\ Len(u[2]) \in Nat
             /\ Len(t[2]) <= Len(u[2]) /\ \A i \in 1 .. Len(t[2]) : u[2][i] = t[2][i]
             /\ Len(u[2]) = Len(t[2]) => u = t
  <2>1. u \in Tasks /\ u[1] = t[1] /\ Len(t[2]) <= Len(u[2]) /\ \A i \in 1 .. Len(t[2]) : u[2][i] = t[2][i]
    BY DEF Below
  <2>2. u[2] \in Seq({0, 1}) /\ Len(u[2]) \in Nat /\ u = <<u[1], u[2]>>
    BY <2>1, TaskFacts
  <2>3. ASSUME Len(u[2]) = Len(t[2]) PROVE u[2] = t[2]
    BY <1>1, <2>1, <2>2, <2>3, SeqEqual
  <2>4. QED
    BY <1>1, <2>1, <2>2, <2>3
<1>3. ASSUME t \in Pieces PROVE Below(t) = {t}
  <2>1. \A u \in Below(t) : Len(u[2]) = Len(t[2])
    <3>1. ~(Len(t[2]) < LoopDepth[t[1]])
      BY <1>3 DEF Pieces, DoSplit
    <3>2. \A u \in Below(t) : Len(u[2]) <= LoopDepth[t[1]] /\ LoopDepth[t[1]] \in Nat
      BY <1>2, TaskFacts
    <3>3. QED
      BY <1>1, <1>2, <3>1, <3>2
  <2>2. t \in Below(t)
    BY <1>1 DEF Below
  <2>3. QED
    BY <1>2, <2>1, <2>2
<1>4. ASSUME t \notin Pieces, NEW u \in Below(t), u # t
      PROVE  u \in Below(Child(t, 0)) \/ u \in Below(Child(t, 1))
  <2>1. Len(u[2]) >= Len(t[2]) + 1 /\ Len(u[2]) \in Nat
    BY <1>1, <1>2, <1>4
  <2>2. PICK s \in {0, 1} : u[2][Len(t[2]) + 1] = s
    <3>1. Len(t[2]) + 1 \in 1 .. Len(u[2])
      BY <1>1, <2>1
    <3>2. u[2][Len(t[2]) + 1] \in {0, 1}
      BY <1>2, <3>1, ElementOfSeq
    <3>3. QED
      BY <3>2
  <2>3. \A i \in 1 .. Len(t[2]) + 1 : u[2][i] = Child(t, s)[2][i]
    <3>1. \A i \in 1 .. Len(t[2]) + 1 : i \in 1 .. Len(t[2]) \/ i = Len(t[2]) + 1
      BY <1>1
    <3>2. QED
      BY <1>2, <1>4, <2>2, <3>1, ChildFacts
  <2>4. u \in Below(Child(t, s))
    BY <1>2, <1>4, <2>1, <2>3, ChildFacts DEF Below
  <2>5. QED
    BY <2>2, <2>4
<1>5. QED
  BY <1>3, <1>4

LEMMA Names ==
  /\ \A t, u : Result(t) = Result(u) => t = u
  /\ \A t : Result(t) \notin Lookups
  /\ \A t \in Tasks : Result(t) # Ready
<1>1. \A t, u : Result(t) = Result(u) => t = u
  BY DEF Result
<1>2. \A t : Result(t) \notin Lookups
  BY DEF Result, Lookups, Asked
<1>3. ASSUME NEW t \in Tasks PROVE t # Root(0)
  <2>1. t[1] # 0
    BY LoopFacts, TaskFacts
  <2>2. Root(0)[1] = 0
    BY DEF Root
  <2>3. QED
    BY <2>1, <2>2
<1>4. QED
  BY <1>1, <1>2, <1>3 DEF Ready

-----------------------------------------------------------------------------
(* Handles and new work items.                                             *)

LEMMA StateFacts ==
  /\ \A t \in Tasks : Result(t) \in SharedStates
  /\ Ready \in SharedStates /\ Lookups \subseteq SharedStates
  /\ \A k \in Loops : Result(Root(k - 1)) \in SharedStates
  /\ NoHandles \in Handles
<1>1. /\ \A t \in Tasks : Result(t) \in SharedStates
      /\ Ready \in SharedStates /\ Lookups \subseteq SharedStates
  BY DEF SharedStates
<1>2. ASSUME NEW k \in Loops PROVE Result(Root(k - 1)) \in SharedStates
  <2>1. CASE k = 1
    BY <1>1, <2>1 DEF Ready
  <2>2. CASE k # 1
    <3>1. k - 1 \in Loops
      BY <2>2, LoopFacts
    <3>2. QED
      BY <1>1, <3>1, RootFacts
  <2>3. QED
    BY <2>1, <2>2
<1>3. NoHandles \in Handles
  BY <1>1 DEF NoHandles, Handles, Local, Treeture
<1>4. QED
  BY <1>1, <1>2, <1>3

LEMMA ChildHandle ==
  ASSUME NEW h \in Treeture, NEW s \in SharedStates
  PROVE  /\ GetChild(h, s) \in Treeture
         /\ ~h.remote => GetChild(h, s).state = h.state /\ ~GetChild(h, s).remote
<1>1. CASE h.fixed_children
  BY <1>1 DEF GetChild
<1>2. CASE ~h.fixed_children /\ ~h.remote
  BY <1>2 DEF GetChild, Treeture
<1>3. CASE ~h.fixed_children /\ h.remote
  BY <1>3 DEF GetChild, Treeture, Local
<1>4. QED
  BY <1>1, <1>2, <1>3

LEMMA RefinedHandles ==
  ASSUME NEW t \in Tasks \ Pieces, deps[t] \in Handles
  PROVE  /\ LeftHandles(Refined(t)) \in Handles /\ RightHandles(Refined(t)) \in Handles
         /\ ~deps[t].dc.remote =>
              /\ LeftHandles(Refined(t)).dc.state = deps[t].dc.state
              /\ RightHandles(Refined(t)).dc.state = deps[t].dc.state
              /\ ~LeftHandles(Refined(t)).dc.remote /\ ~RightHandles(Refined(t)).dc.remote
         /\ \A x \in {t} \X Asked : x \in Lookups
<1>1. deps[t].dl \in Treeture /\ deps[t].dc \in Treeture /\ deps[t].dr \in Treeture
  BY DEF Handles
<1>2. \A x \in {t} \X Asked : x \in Lookups
  BY DEF Lookups
<1>3. /\ <<t, "dlr">> \in SharedStates /\ <<t, "dcl">> \in SharedStates
      /\ <<t, "dcr">> \in SharedStates /\ <<t, "drl">> \in SharedStates
  BY <1>2, StateFacts DEF Asked
<1>4. /\ GetChild(deps[t].dl, <<t, "dlr">>) \in Treeture
      /\ GetChild(deps[t].dc, <<t, "dcl">>) \in Treeture
      /\ GetChild(deps[t].dc, <<t, "dcr">>) \in Treeture
      /\ GetChild(deps[t].dr, <<t, "drl">>) \in Treeture
      /\ ~deps[t].dc.remote =>
           /\ GetChild(deps[t].dc, <<t, "dcl">>).state = deps[t].dc.state
           /\ GetChild(deps[t].dc, <<t, "dcr">>).state = deps[t].dc.state
           /\ ~GetChild(deps[t].dc, <<t, "dcl">>).remote /\ ~GetChild(deps[t].dc, <<t, "dcr">>).remote
  BY <1>1, <1>3, ChildHandle
<1>5. QED
  BY <1>2, <1>4 DEF Refined, LeftHandles, RightHandles, Handles

LEMMA UpdateFacts ==
  ASSUME NEW S, NEW T, NEW f \in [S -> T], NEW g, DOMAIN g \subseteq S, \A x \in DOMAIN g : g[x] \in T
  PROVE  /\ Update(f, g) \in [S -> T]
         /\ \A x \in S : Update(f, g)[x] = IF x \in DOMAIN g THEN g[x] ELSE f[x]
BY DEF Update

LEMMA SpawnFacts ==
  ASSUME TypeOK, NEW l \in Localities, NEW hs, DOMAIN hs \subseteq Tasks,
         \A t \in DOMAIN hs : hs[t] \in Handles, Spawn(l, hs)
  PROVE  /\ at' \in [Tasks -> Localities] /\ home' \in [Tasks -> Localities]
         /\ deps' \in [Tasks -> Handles] /\ dep_' \in [Tasks -> SUBSET SharedStates]
         /\ \A t \in Tasks : deps'[t] = IF t \in DOMAIN hs THEN hs[t] ELSE deps[t]
         /\ \A t \in Tasks : dep_'[t] = IF t \in DOMAIN hs THEN After(t[1], hs[t]) ELSE dep_[t]
<1>1. /\ at \in [Tasks -> Localities] /\ home \in [Tasks -> Localities]
      /\ deps \in [Tasks -> Handles] /\ dep_ \in [Tasks -> SUBSET SharedStates]
  BY DEF TypeOK
<1>2. \A t \in DOMAIN hs : After(t[1], hs[t]) \in SUBSET SharedStates
  BY DEF After, States, Handles, Treeture
<1> DEFINE where == [t \in DOMAIN hs |-> l]
           what == [t \in DOMAIN hs |-> After(t[1], hs[t])]
<1>3. at' = Update(at, where) /\ home' = Update(home, where) /\ deps' = Update(deps, hs) /\ dep_' = Update(dep_, what)
  BY DEF Spawn
<1>4. /\ DOMAIN where = DOMAIN hs /\ \A t \in DOMAIN hs : where[t] \in Localities
      /\ DOMAIN what = DOMAIN hs
      /\ \A t \in DOMAIN hs : what[t] = After(t[1], hs[t]) /\ what[t] \in SUBSET SharedStates
  BY <1>2
<1> HIDE DEF where, what
<1>5. at' \in [Tasks -> Localities] /\ home' \in [Tasks -> Localities]
  BY <1>1, <1>3, <1>4, UpdateFacts
<1>6. /\ deps' \in [Tasks -> Handles]
      /\ \A t \in Tasks : deps'[t] = IF t \in DOMAIN hs THEN hs[t] ELSE deps[t]
  <2>1. /\ Update(deps, hs) \in [Tasks -> Handles]
        /\ \A t \in Tasks : Update(deps, hs)[t] = IF t \in DOMAIN hs THEN hs[t] ELSE deps[t]
    BY <1>1, UpdateFacts
  <2>2. QED
    BY <1>3, <2>1
<1>7. /\ dep_' \in [Tasks -> SUBSET SharedStates]
      /\ \A t \in Tasks : dep_'[t] = IF t \in DOMAIN hs THEN what[t] ELSE dep_[t]
  <2>1. /\ Update(dep_, what) \in [Tasks -> SUBSET SharedStates]
        /\ \A t \in Tasks : Update(dep_, what)[t] = IF t \in DOMAIN what THEN what[t] ELSE dep_[t]
    <3> DEFINE T == SUBSET SharedStates
    <3>1. dep_ \in [Tasks -> T] /\ DOMAIN what \subseteq Tasks /\ \A t \in DOMAIN what : what[t] \in T
      BY <1>1, <1>4
    <3> HIDE DEF T
    <3>2. /\ Update(dep_, what) \in [Tasks -> T]
          /\ \A t \in Tasks : Update(dep_, what)[t] = IF t \in DOMAIN what THEN what[t] ELSE dep_[t]
      BY <3>1, UpdateFacts
    <3>3. QED
      BY <3>2 DEF T
  <2>2. QED
    BY <1>3, <1>4, <2>1
<1>8. QED
  BY <1>4, <1>5, <1>6, <1>7

-----------------------------------------------------------------------------
(* The invariant.                                                          *)

\* The tree of a loop grows from its root.
GrowthInv ==
  /\ \A k \in Loops : k > spawned => pc[Root(k)] = "none"
  /\ \A t \in Tasks \ Pieces : pc[t] \in {"none", "scheduled"} =>
       pc[Child(t, 0)] = "none" /\ pc[Child(t, 1)] = "none"
  /\ \A t \in Pieces : pc[t] # "split"

\* A result is there when everything below has one.
ResultInv ==
  /\ Ready \in value
  /\ \A t \in Tasks : Result(t) \in value =>
       pc[t] = "done" /\ t \notin setting /\ \A u \in Below(t) : Result(u) \in value
  /\ \A t \in setting :
       /\ pc[t] = "done"
       /\ t \notin Pieces => Result(Child(t, 0)) \in value /\ Result(Child(t, 1)) \in value

\* A work item that has not run waits for the whole loop before it, unless that
\* is over already, and it always has a handle on it and not just its id.
WaitInv ==
  /\ \A t \in Tasks : pc[t] # "none" =>
       \/ Before(t) \in value
       \/ /\ pc[t] # "done"
          /\ deps[t].dc.state = Before(t) /\ ~deps[t].dc.remote
          /\ kind[t[1]] = "after" => Before(t) \in dep_[t]
  /\ \A k \in Loops : Result(Root(k)) \in value => \A j \in 1 .. k : Result(Root(j)) \in value
  /\ finished => Result(Root(Len(LoopDepth))) \in value

OrderInv == TypeOK /\ GrowthInv /\ ResultInv /\ WaitInv

LEMMA InitOrder == Init => OrderInv
<1> SUFFICES ASSUME Init PROVE OrderInv
  OBVIOUS
<1>1. TypeOK
  <2>1. /\ deps \in [Tasks -> Handles] /\ dep_ \in [Tasks -> SUBSET SharedStates]
        /\ at \in [Tasks -> Localities] /\ home \in [Tasks -> Localities]
        /\ pc \in [Tasks -> {"none", "scheduled", "split", "done"}]
    BY StateFacts, WorkItemsAssumption DEF Init
  <2>2. value \subseteq SharedStates /\ setting \subseteq Tasks /\ asking \subseteq Lookups
    BY StateFacts DEF Init
  <2>3. spawned \in 0 .. Len(LoopDepth) /\ kind \in [Loops -> Kinds]
    BY LoopFacts DEF Init
  <2>4. finished \in BOOLEAN
    BY DEF Init
  <2>5. QED
    BY <2>1, <2>2, <2>3, <2>4 DEF TypeOK
<1>2. \A t \in Tasks : pc[t] = "none" /\ Result(t) \notin value
  BY Names DEF Init
<1>3. GrowthInv
  BY <1>2, RootFacts, ChildFacts DEF GrowthInv, Pieces
<1>4. ResultInv
  BY <1>2 DEF Init, ResultInv
<1>5. WaitInv
  BY <1>2, RootFacts DEF Init, WaitInv
<1>6. QED
  BY <1>1, <1>3, <1>4, <1>5 DEF OrderInv

-----------------------------------------------------------------------------
(* Results.                                                                *)

\* The result of t becomes available.
LEMMA Resolving ==
  ASSUME OrderInv, NEW t \in Tasks, value' = value \cup {Result(t)}, setting' = setting \ {t},
         pc' = [pc EXCEPT ![t] = "done"], UNCHANGED <<kind, finished, deps, dep_>>,
         t \notin Pieces => Result(Child(t, 0)) \in value /\ Result(Child(t, 1)) \in value,
         Before(t) \in value
  PROVE  ResultInv' /\ WaitInv'
<1>0. TypeOK /\ ResultInv /\ WaitInv /\ pc \in [Tasks -> {"none", "scheduled", "split", "done"}]
  BY DEF OrderInv, TypeOK
<1>1. \A u \in Tasks : Result(u) \in value' <=> Result(u) \in value \/ u = t
  BY Names
<1>2. pc'[t] = "done" /\ \A u \in Tasks : u # t => pc'[u] = pc[u]
  BY <1>0
<1>3. \A u \in Below(t) : Result(u) \in value'
  <2>1. CASE t \in Pieces
    BY <1>1, <2>1, BelowFacts
  <2>2. CASE t \notin Pieces
    <3>1. Child(t, 0) \in Tasks /\ Child(t, 1) \in Tasks
      BY <2>2, ChildFacts
    <3>2. \A u \in Below(Child(t, 0)) \cup Below(Child(t, 1)) : Result(u) \in value
      BY <1>0, <2>2, <3>1 DEF ResultInv
    <3>3. QED
      BY <1>1, <2>2, <3>2, BelowFacts
  <2>3. QED
    BY <2>1, <2>2
<1>4. ResultInv'
  <2>1. Ready \in value'
    BY <1>0 DEF ResultInv
  <2>2. ASSUME NEW u \in Tasks, Result(u) \in value'
        PROVE  pc'[u] = "done" /\ u \notin setting' /\ \A v \in Below(u) : Result(v) \in value'
    <3>1. CASE u = t
      BY <1>2, <1>3, <3>1
    <3>2. CASE u # t
      BY <1>0, <1>1, <1>2, <2>2, <3>2 DEF ResultInv
    <3>3. QED
      BY <3>1, <3>2
  <2>3. \A u \in setting' :
          /\ pc'[u] = "done"
          /\ u \notin Pieces => Result(Child(u, 0)) \in value' /\ Result(Child(u, 1)) \in value'
    BY <1>0, <1>2 DEF ResultInv, TypeOK
  <2>4. QED
    BY <2>1, <2>2, <2>3 DEF ResultInv
<1>5. \A k \in Loops : Result(Root(k)) \in value' => \A j \in 1 .. k : Result(Root(j)) \in value'
  <2>1. ASSUME NEW k \in Loops, Root(k) = t, NEW j \in 1 .. k
        PROVE  Result(Root(j)) \in value'
    <3>1. Before(t) = Result(Root(k - 1)) /\ k \in Nat
      BY <2>1, RootFacts, LoopFacts DEF Before
    <3>2. CASE j = k
      BY <2>1, <3>2
    <3>3. CASE j # k
      <4>1. k - 1 \in Loops /\ j \in 1 .. k - 1
        BY <3>1, <3>3, LoopFacts
      <4>2. QED
        BY <1>0, <3>1, <4>1 DEF WaitInv
    <3>4. QED
      BY <3>2, <3>3
  <2>2. ASSUME NEW k \in Loops, Result(Root(k)) \in value
        PROVE  \A j \in 1 .. k : Result(Root(j)) \in value'
    BY <1>0, <2>2 DEF WaitInv
  <2>3. QED
    BY <1>1, <2>1, <2>2, RootFacts
<1>6. \A u \in Tasks : pc'[u] # "none" =>
        \/ Before(u) \in value'
        \/ /\ pc'[u] # "done"
           /\ deps'[u].dc.state = Before(u) /\ ~deps'[u].dc.remote
           /\ kind'[u[1]] = "after" => Before(u) \in dep_'[u]
  BY <1>0, <1>2 DEF WaitInv
<1>7. finished' => Result(Root(Len(LoopDepth))) \in value'
  BY <1>0 DEF WaitInv
<1>8. WaitInv'
  BY <1>5, <1>6, <1>7 DEF WaitInv, Before
<1>9. QED
  BY <1>4, <1>8

\* The tree stays as it is when a work item that is there gets another state.
LEMMA Grown ==
  ASSUME OrderInv, NEW t \in Tasks, pc[t] # "none", pc' = [pc EXCEPT ![t] = "done"], UNCHANGED spawned
  PROVE  GrowthInv'
<1>0. GrowthInv /\ pc \in [Tasks -> {"none", "scheduled", "split", "done"}]
  BY DEF OrderInv, TypeOK
<1>1. pc'[t] = "done" /\ \A u \in Tasks : u # t => pc'[u] = pc[u]
  BY <1>0
<1>2. \A k \in Loops : k > spawned' => pc'[Root(k)] = "none"
  BY <1>0, <1>1, RootFacts DEF GrowthInv
<1>3. ASSUME NEW u \in Tasks \ Pieces, pc'[u] \in {"none", "scheduled"}
      PROVE  pc'[Child(u, 0)] = "none" /\ pc'[Child(u, 1)] = "none"
  <2>1. pc[Child(u, 0)] = "none" /\ pc[Child(u, 1)] = "none"
    BY <1>0, <1>1, <1>3 DEF GrowthInv
  <2>2. Child(u, 0) \in Tasks /\ Child(u, 1) \in Tasks
    BY ChildFacts
  <2>3. QED
    BY <1>1, <2>1, <2>2
<1>4. \A u \in Pieces : pc'[u] # "split"
  BY <1>0, <1>1 DEF GrowthInv, Pieces
<1>5. QED
  BY <1>2, <1>3, <1>4 DEF GrowthInv

\* A work item has run, or everything it was split into.
LEMMA Finishing ==
  ASSUME OrderInv, NEW t \in Tasks, pc[t] \in {"scheduled", "split"}, pc' = [pc EXCEPT ![t] = "done"],
         t \notin Pieces => Result(Child(t, 0)) \in value /\ Result(Child(t, 1)) \in value,
         Before(t) \in value, SetValue(t),
         UNCHANGED <<kind, spawned, finished, at, home, deps, dep_, asking>>
  PROVE  OrderInv'
<1>0. TypeOK /\ ResultInv /\ WaitInv /\ pc \in [Tasks -> {"none", "scheduled", "split", "done"}]
  BY DEF OrderInv, TypeOK
<1>1. GrowthInv'
  BY Grown
<1>2. t \notin setting /\ Result(t) \notin value
  BY <1>0 DEF ResultInv
<1>3. TypeOK'
  <2>1. pc' \in [Tasks -> {"none", "scheduled", "split", "done"}]
    BY <1>0
  <2>2. value' \subseteq SharedStates /\ setting' \subseteq Tasks
    BY <1>0, StateFacts DEF SetValue, TypeOK
  <2>3. QED
    BY <1>0, <2>1, <2>2 DEF TypeOK
<1>4. CASE at[t] = home[t]
  <2>1. value' = value \cup {Result(t)} /\ setting' = setting \ {t}
    BY <1>2, <1>4 DEF SetValue
  <2>2. ResultInv' /\ WaitInv'
    BY <2>1, Resolving
  <2>3. QED
    BY <1>1, <1>3, <2>2 DEF OrderInv
<1>5. CASE at[t] # home[t]
  <2>1. value' = value /\ setting' = setting \cup {t}
    BY <1>5 DEF SetValue
  <2>2. pc'[t] = "done" /\ \A u \in Tasks : u # t => pc'[u] = pc[u]
    BY <1>0
  <2>3. ResultInv'
    <3>1. Ready \in value'
      BY <1>0, <2>1 DEF ResultInv
    <3>2. \A u \in Tasks : Result(u) \in value' =>
            pc'[u] = "done" /\ u \notin setting' /\ \A v \in Below(u) : Result(v) \in value'
      BY <1>0, <1>2, <2>1, <2>2 DEF ResultInv
    <3>3. \A u \in setting' :
            /\ pc'[u] = "done"
            /\ u \notin Pieces => Result(Child(u, 0)) \in value' /\ Result(Child(u, 1)) \in value'
      BY <1>0, <2>1, <2>2 DEF ResultInv, TypeOK
    <3>4. QED
      BY <3>1, <3>2, <3>3 DEF ResultInv
  <2>4. WaitInv'
    <3>1. \A u \in Tasks : pc'[u] # "none" =>
            \/ Before(u) \in value'
            \/ /\ pc'[u] # "done"
               /\ deps'[u].dc.state = Before(u) /\ ~deps'[u].dc.remote
               /\ kind'[u[1]] = "after" => Before(u) \in dep_'[u]
      BY <1>0, <2>1, <2>2 DEF WaitInv
    <3>2. QED
      BY <1>0, <2>1, <3>1 DEF WaitInv, Before
  <2>5. QED
    BY <1>1, <1>3, <2>3, <2>4 DEF OrderInv
<1>6. QED
  BY <1>4, <1>5

LEMMA ProcessOrder ==
  ASSUME OrderInv, NEW t \in Tasks, Process(t)
  PROVE  OrderInv' /\ Before(t) \in value
<1>0. /\ TypeOK /\ WaitInv /\ deps[t] \in Handles /\ kind[t[1]] \in {"closure", "after"}
      /\ pc[t] = "scheduled" /\ t \in Pieces
  BY TaskFacts, WorkItemsAssumption DEF OrderInv, TypeOK, Process, Pieces
<1>1. Before(t) \in value
  <2>1. CASE Before(t) \in value
    BY <2>1
  <2>2. CASE deps[t].dc.state = Before(t) /\ (kind[t[1]] = "after" => Before(t) \in dep_[t])
    BY <1>0, <2>2 DEF Process, ProcessDeps, States
  <2>3. QED
    BY <1>0, <2>1, <2>2 DEF WaitInv
<1>2. QED
  BY <1>0, <1>1, Finishing DEF Process

LEMMA CompleteOrder ==
  ASSUME OrderInv, NEW t \in Tasks, Complete(t)
  PROVE  OrderInv' /\ t \notin Pieces
<1>0. /\ TypeOK /\ WaitInv /\ GrowthInv /\ ResultInv
      /\ pc[t] = "split" /\ Result(Child(t, 0)) \in value /\ Result(Child(t, 1)) \in value
  BY DEF OrderInv, Complete
<1>1. t \notin Pieces
  BY <1>0 DEF GrowthInv
<1>2. Child(t, 0) \in Tasks /\ Child(t, 0)[1] = t[1]
  BY <1>1, ChildFacts
<1>3. Before(t) \in value
  <2>1. pc[Child(t, 0)] = "done"
    BY <1>0, <1>2 DEF ResultInv
  <2>2. Before(Child(t, 0)) \in value
    BY <1>0, <1>2, <2>1 DEF WaitInv
  <2>3. QED
    BY <1>2, <2>2 DEF Before
<1>4. QED
  BY <1>0, <1>1, <1>3, Finishing DEF Complete

\* The call of set_value reaches the home of the treeture.
LEMMA DeliverOrder ==
  ASSUME OrderInv, NEW t \in Tasks, Deliver(t)
  PROVE  OrderInv'
<1>0. /\ TypeOK /\ WaitInv /\ GrowthInv /\ ResultInv /\ t \in setting
      /\ pc \in [Tasks -> {"none", "scheduled", "split", "done"}]
  BY DEF OrderInv, Deliver, TypeOK
<1>1. pc[t] = "done" /\ (t \notin Pieces => Result(Child(t, 0)) \in value /\ Result(Child(t, 1)) \in value)
  BY <1>0 DEF ResultInv
<1>2. pc' = [pc EXCEPT ![t] = "done"]
  BY <1>0, <1>1 DEF Deliver
<1>3. Before(t) \in value
  BY <1>0, <1>1 DEF WaitInv
<1>4. ResultInv' /\ WaitInv'
  BY <1>1, <1>2, <1>3, Resolving DEF Deliver
<1>5. GrowthInv'
  BY <1>1, <1>2, Grown DEF Deliver
<1>6. TypeOK'
  BY <1>0, StateFacts DEF Deliver, TypeOK
<1>7. QED
  BY <1>4, <1>5, <1>6 DEF OrderInv

-----------------------------------------------------------------------------
(* Work items that come, go and split.                                     *)

LEMMA ResultFrame ==
  ASSUME TypeOK, ResultInv, \A t \in Tasks : pc[t] = "done" => pc'[t] = "done",
         value \subseteq value', \A t \in Tasks : Result(t) \in value' => Result(t) \in value,
         setting' = setting
  PROVE  ResultInv'
<1>1. setting \subseteq Tasks
  BY DEF TypeOK
<1>2. QED
  BY <1>1 DEF ResultInv

LEMMA SpawnOrder ==
  ASSUME OrderInv, SpawnLoop
  PROVE  OrderInv'
<1>0. /\ TypeOK /\ WaitInv /\ GrowthInv /\ ResultInv
      /\ pc \in [Tasks -> {"none", "scheduled", "split", "done"}] /\ kind \in [Loops -> Kinds]
  BY DEF OrderInv, TypeOK
<1>1. PICK k : k = spawned + 1
  OBVIOUS
<1> DEFINE h == [NoHandles EXCEPT !.dc = Local(Result(Root(spawned)))]
           hs == [t \in {Root(k)} |-> h]
<1>2. /\ k \in Loops /\ spawned' = k /\ pc' = [pc EXCEPT ![Root(k)] = "scheduled"] /\ Spawn(Main, hs)
      /\ kind' = kind /\ finished' = finished /\ value' = value /\ setting' = setting /\ asking' = asking
  BY <1>1 DEF SpawnLoop
<1>3. Root(k) \in Tasks /\ Root(k)[1] = k /\ spawned = k - 1 /\ k \in Nat /\ k \in 1 .. Len(LoopDepth)
  BY <1>0, <1>1, <1>2, RootFacts, LoopFacts DEF TypeOK
<1>4. /\ h \in Handles /\ h.dc.state = Before(Root(k)) /\ ~h.dc.remote
  <2>1. Result(Root(k - 1)) \in SharedStates /\ NoHandles \in Handles
    BY <1>2, StateFacts
  <2>2. Local(Result(Root(k - 1))) \in Treeture
    BY <2>1 DEF Local, Treeture
  <2>3. h \in Handles /\ h.dc = Local(Result(Root(k - 1)))
    BY <1>3, <2>1, <2>2 DEF Handles
  <2>4. Before(Root(k)) = Result(Root(k - 1))
    BY <1>3 DEF Before
  <2>5. QED
    BY <2>3, <2>4 DEF Local
<1> HIDE DEF h
<1>5. DOMAIN hs = {Root(k)} /\ hs[Root(k)] = h
  OBVIOUS
<1> HIDE DEF hs
<1>6. /\ at' \in [Tasks -> Localities] /\ home' \in [Tasks -> Localities]
      /\ deps' \in [Tasks -> Handles] /\ dep_' \in [Tasks -> SUBSET SharedStates]
      /\ \A t \in Tasks : deps'[t] = IF t = Root(k) THEN h ELSE deps[t]
      /\ \A t \in Tasks : dep_'[t] = IF t = Root(k) THEN After(k, h) ELSE dep_[t]
  <2>1. /\ DOMAIN hs \subseteq Tasks /\ \A t \in DOMAIN hs : hs[t] \in Handles /\ t = Root(k) /\ hs[t] = h /\ t[1] = k
        /\ \A t : t \in DOMAIN hs <=> t = Root(k)
    BY <1>3, <1>4, <1>5
  <2>2. Main \in Localities
    BY WorkItemsAssumption
  <2>3. /\ at' \in [Tasks -> Localities] /\ home' \in [Tasks -> Localities]
        /\ deps' \in [Tasks -> Handles] /\ dep_' \in [Tasks -> SUBSET SharedStates]
        /\ \A t \in Tasks : deps'[t] = IF t \in DOMAIN hs THEN hs[t] ELSE deps[t]
        /\ \A t \in Tasks : dep_'[t] = IF t \in DOMAIN hs THEN After(t[1], hs[t]) ELSE dep_[t]
    BY <1>0, <1>2, <2>1, <2>2, SpawnFacts
  <2>4. QED
    BY <2>1, <2>3
<1>7. pc[Root(k)] = "none" /\ pc'[Root(k)] = "scheduled" /\ \A t \in Tasks : t # Root(k) => pc'[t] = pc[t]
  BY <1>0, <1>2, <1>3 DEF GrowthInv
<1>8. TypeOK'
  <2>1. pc' \in [Tasks -> {"none", "scheduled", "split", "done"}] /\ spawned' \in 0 .. Len(LoopDepth)
    BY <1>0, <1>2, <1>3
  <2>2. QED
    BY <1>0, <1>2, <1>6, <2>1 DEF TypeOK
<1>9. GrowthInv'
  <2>1. \A j \in Loops : j > spawned' => pc'[Root(j)] = "none"
    <3>1. \A j \in Loops : j > k => j > spawned /\ Root(j) # Root(k) /\ Root(j) \in Tasks
      BY <1>3, RootFacts, LoopFacts
    <3>2. QED
      BY <1>0, <1>2, <1>7, <3>1 DEF GrowthInv
  <2>2. ASSUME NEW u \in Tasks \ Pieces, pc'[u] \in {"none", "scheduled"}
        PROVE  pc'[Child(u, 0)] = "none" /\ pc'[Child(u, 1)] = "none"
    <3>1. pc[u] \in {"none", "scheduled"}
      BY <1>7, <2>2
    <3>2. pc[Child(u, 0)] = "none" /\ pc[Child(u, 1)] = "none"
      BY <1>0, <3>1 DEF GrowthInv
    <3>3. Child(u, 0) \in Tasks /\ Child(u, 1) \in Tasks /\ Child(u, 0) # Root(k) /\ Child(u, 1) # Root(k)
      BY ChildFacts, Parents
    <3>4. QED
      BY <1>7, <3>2, <3>3
  <2>3. \A u \in Pieces : pc'[u] # "split"
    BY <1>0, <1>7 DEF GrowthInv, Pieces
  <2>4. QED
    BY <2>1, <2>2, <2>3 DEF GrowthInv
<1>10. ResultInv'
  BY <1>0, <1>2, <1>7, ResultFrame
<1>11. WaitInv'
  <2>1. ASSUME NEW t \in Tasks, pc'[t] # "none"
        PROVE  \/ Before(t) \in value'
               \/ /\ pc'[t] # "done"
                  /\ deps'[t].dc.state = Before(t) /\ ~deps'[t].dc.remote
                  /\ kind'[t[1]] = "after" => Before(t) \in dep_'[t]
    <3>1. CASE t = Root(k)
      <4>1. kind[k] = "after" => h.dc.state \in After(k, h)
        BY DEF After, States
      <4>2. QED
        BY <1>2, <1>3, <1>4, <1>6, <1>7, <3>1, <4>1
    <3>2. CASE t # Root(k)
      BY <1>0, <1>2, <1>6, <1>7, <2>1, <3>2 DEF WaitInv
    <3>3. QED
      BY <3>1, <3>2
  <2>2. QED
    BY <1>0, <1>2, <2>1 DEF WaitInv, Before
<1>12. QED
  BY <1>8, <1>9, <1>10, <1>11 DEF OrderInv

LEMMA SplitOrder ==
  ASSUME OrderInv, NEW t \in Tasks, Split(t)
  PROVE  OrderInv' /\ t \notin Pieces /\ \A u \in Tasks : pc'[u] = "done" <=> pc[u] = "done"
<1>0. /\ TypeOK /\ WaitInv /\ GrowthInv /\ ResultInv /\ at[t] \in Localities /\ deps[t] \in Handles
      /\ pc \in [Tasks -> {"none", "scheduled", "split", "done"}] /\ pc[t] = "scheduled"
  BY DEF OrderInv, TypeOK, Split
<1>1. t \in Tasks \ Pieces
  BY DEF Split, Pieces
<1>2. PICK left, right : left = Child(t, 0) /\ right = Child(t, 1)
  OBVIOUS
<1>3. PICK lh, rh : lh = LeftHandles(Refined(t)) /\ rh = RightHandles(Refined(t))
  OBVIOUS
<1> DEFINE hs == [c \in {left, right} |-> IF c = left THEN lh ELSE rh]
<1>4. /\ pc' = [pc EXCEPT ![t] = "split", ![left] = "scheduled", ![right] = "scheduled"]
      /\ Spawn(at[t], hs)
      /\ asking' = asking \cup {x \in {t} \X Asked : Refined(t)[x[2]].state = x}
      /\ kind' = kind /\ spawned' = spawned /\ finished' = finished /\ value' = value /\ setting' = setting
  BY <1>2, <1>3 DEF Split
<1>5. /\ left \in Tasks /\ right \in Tasks /\ left[1] = t[1] /\ right[1] = t[1]
      /\ left # t /\ right # t /\ left # right /\ \A k : left # Root(k) /\ right # Root(k)
      /\ \A u \in Tasks \ Pieces, s \in {0, 1} : Child(u, s) = left \/ Child(u, s) = right => u = t
  BY <1>1, <1>2, ChildFacts, Parents
<1>6. /\ lh \in Handles /\ rh \in Handles
      /\ ~deps[t].dc.remote => /\ lh.dc.state = deps[t].dc.state /\ rh.dc.state = deps[t].dc.state
                              /\ ~lh.dc.remote /\ ~rh.dc.remote
      /\ \A x \in {t} \X Asked : x \in Lookups
  BY <1>0, <1>1, <1>3, RefinedHandles
<1>7. DOMAIN hs = {left, right} /\ hs[left] = lh /\ hs[right] = rh
  BY <1>5
<1> HIDE DEF hs
<1>8. /\ at' \in [Tasks -> Localities] /\ home' \in [Tasks -> Localities]
      /\ deps' \in [Tasks -> Handles] /\ dep_' \in [Tasks -> SUBSET SharedStates]
      /\ deps'[left] = lh /\ deps'[right] = rh
      /\ dep_'[left] = After(t[1], lh) /\ dep_'[right] = After(t[1], rh)
      /\ \A u \in Tasks : u # left /\ u # right => deps'[u] = deps[u] /\ dep_'[u] = dep_[u]
  <2>1. DOMAIN hs \subseteq Tasks /\ \A c \in DOMAIN hs : hs[c] \in Handles
    BY <1>5, <1>6, <1>7
  <2>2. /\ at' \in [Tasks -> Localities] /\ home' \in [Tasks -> Localities]
        /\ deps' \in [Tasks -> Handles] /\ dep_' \in [Tasks -> SUBSET SharedStates]
        /\ \A u \in Tasks : deps'[u] = IF u \in DOMAIN hs THEN hs[u] ELSE deps[u]
        /\ \A u \in Tasks : dep_'[u] = IF u \in DOMAIN hs THEN After(u[1], hs[u]) ELSE dep_[u]
    BY <1>0, <1>4, <2>1, SpawnFacts
  <2>3. QED
    BY <1>5, <1>7, <2>2
<1>9. pc[left] = "none" /\ pc[right] = "none"
  BY <1>0, <1>1, <1>2 DEF GrowthInv
<1>10. /\ pc'[t] = "split" /\ pc'[left] = "scheduled" /\ pc'[right] = "scheduled"
       /\ \A u \in Tasks : u # t /\ u # left /\ u # right => pc'[u] = pc[u]
       /\ pc' \in [Tasks -> {"none", "scheduled", "split", "done"}]
  BY <1>0, <1>4, <1>5
<1>11. \A u \in Tasks : pc'[u] = "done" <=> pc[u] = "done"
  BY <1>0, <1>9, <1>10
<1>12. TypeOK'
  <2>1. asking' \subseteq Lookups
    BY <1>0, <1>4, <1>6 DEF TypeOK
  <2>2. QED
    BY <1>0, <1>4, <1>8, <1>10, <2>1 DEF TypeOK
<1>13. GrowthInv'
  <2>1. \A j \in Loops : j > spawned' => pc'[Root(j)] = "none"
    <3>1. \A j \in Loops : j > spawned => pc[Root(j)] = "none" /\ Root(j) \in Tasks
      BY <1>0, RootFacts DEF GrowthInv
    <3>2. QED
      BY <1>0, <1>4, <1>5, <1>10, <3>1
  <2>2. ASSUME NEW u \in Tasks \ Pieces, pc'[u] \in {"none", "scheduled"}
        PROVE  pc'[Child(u, 0)] = "none" /\ pc'[Child(u, 1)] = "none"
    <3>1. u # t /\ pc[u] \in {"none", "scheduled"}
      BY <1>9, <1>10, <2>2
    <3>2. pc[Child(u, 0)] = "none" /\ pc[Child(u, 1)] = "none"
      BY <1>0, <3>1 DEF GrowthInv
    <3>3. Child(u, 0) \in Tasks /\ Child(u, 1) \in Tasks
      BY ChildFacts
    <3>4. \A s \in {0, 1} : Child(u, s) # left /\ Child(u, s) # right
      BY <1>5, <3>1
    <3>5. Child(u, 0) # t /\ Child(u, 1) # t
      BY <1>0, <3>2
    <3>6. QED
      BY <1>10, <3>2, <3>3, <3>4, <3>5
  <2>3. \A u \in Pieces : pc'[u] # "split"
    BY <1>0, <1>1, <1>10 DEF GrowthInv, Pieces
  <2>4. QED
    BY <2>1, <2>2, <2>3 DEF GrowthInv
<1>14. ResultInv'
  BY <1>0, <1>4, <1>11, ResultFrame
<1>15. WaitInv'
  <2>1. \/ Before(t) \in value
        \/ /\ deps[t].dc.state = Before(t) /\ ~deps[t].dc.remote
    BY <1>0 DEF WaitInv
  <2>2. Before(left) = Before(t) /\ Before(right) = Before(t)
    BY <1>5 DEF Before
  <2>3. ASSUME NEW u \in Tasks, pc'[u] # "none"
        PROVE  \/ Before(u) \in value'
               \/ /\ pc'[u] # "done"
                  /\ deps'[u].dc.state = Before(u) /\ ~deps'[u].dc.remote
                  /\ kind'[u[1]] = "after" => Before(u) \in dep_'[u]
    <3>1. CASE u = left
      <4>1. kind[t[1]] = "after" => lh.dc.state \in After(t[1], lh)
        BY DEF After, States
      <4>2. QED
        BY <1>4, <1>5, <1>6, <1>8, <1>10, <2>1, <2>2, <3>1, <4>1
    <3>2. CASE u = right
      <4>1. kind[t[1]] = "after" => rh.dc.state \in After(t[1], rh)
        BY DEF After, States
      <4>2. QED
        BY <1>4, <1>5, <1>6, <1>8, <1>10, <2>1, <2>2, <3>2, <4>1
    <3>3. CASE u # left /\ u # right
      <4>1. pc[u] # "none"
        BY <1>0, <1>10, <2>3, <3>3
      <4>2. QED
        BY <1>0, <1>4, <1>8, <1>11, <3>3, <4>1 DEF WaitInv
    <3>4. QED
      BY <3>1, <3>2, <3>3
  <2>4. QED
    BY <1>0, <1>4, <2>3 DEF WaitInv, Before
<1>16. QED
  BY <1>1, <1>11, <1>12, <1>13, <1>14, <1>15 DEF OrderInv

LEMMA SendOrder ==
  ASSUME OnlyAfterMoves, OrderInv, NEW t \in Tasks, NEW l \in Localities, Send(t, l)
  PROVE  OrderInv'
<1>0. TypeOK /\ WaitInv /\ GrowthInv /\ ResultInv
  BY DEF OrderInv
<1>1. /\ kind[t[1]] = "after" /\ dep_[t] \subseteq value /\ pc[t] = "scheduled" /\ pc' = pc
      /\ value' = value /\ setting' = setting /\ kind' = kind /\ dep_' = dep_ /\ finished' = finished
      /\ spawned' = spawned /\ deps' = [deps EXCEPT ![t] = Load(@)]
  BY DEF OnlyAfterMoves, Send
<1>2. Before(t) \in value
  BY <1>0, <1>1 DEF WaitInv
<1>3. deps' \in [Tasks -> Handles] /\ \A u \in Tasks : u # t => deps'[u] = deps[u]
  <2>1. \A h \in Handles : Load(h) \in Handles
    BY DEF Load, Handles, Treeture
  <2>2. deps \in [Tasks -> Handles]
    BY <1>0 DEF TypeOK
  <2>3. QED
    BY <1>1, <2>1, <2>2
<1>4. TypeOK'
  <2>1. at' \in [Tasks -> Localities]
    BY <1>0 DEF TypeOK, Send
  <2>2. QED
    BY <1>0, <1>1, <1>3, <2>1 DEF TypeOK, Send
<1>5. GrowthInv' /\ ResultInv'
  BY <1>0, <1>1 DEF GrowthInv, ResultInv
<1>6. WaitInv'
  <2>1. ASSUME NEW u \in Tasks, pc'[u] # "none"
        PROVE  \/ Before(u) \in value'
               \/ /\ pc'[u] # "done"
                  /\ deps'[u].dc.state = Before(u) /\ ~deps'[u].dc.remote
                  /\ kind'[u[1]] = "after" => Before(u) \in dep_'[u]
    BY <1>0, <1>1, <1>2, <1>3, <2>1 DEF WaitInv
  <2>2. QED
    BY <1>0, <1>1, <2>1 DEF WaitInv, Before
<1>7. QED
  BY <1>4, <1>5, <1>6 DEF OrderInv

LEMMA WaitOrder ==
  ASSUME OrderInv, Wait
  PROVE  OrderInv'
<1>0. TypeOK /\ WaitInv /\ GrowthInv /\ ResultInv
  BY DEF OrderInv
<1>1. TypeOK' /\ GrowthInv' /\ ResultInv'
  BY <1>0 DEF Wait, TypeOK, GrowthInv, ResultInv
<1>2. WaitInv'
  BY <1>0 DEF Wait, WaitInv, Before
<1>3. QED
  BY <1>1, <1>2 DEF OrderInv

LEMMA AnswerOrder ==
  ASSUME OrderInv, NEW x \in Lookups, Answer(x)
  PROVE  OrderInv' /\ \A t \in Tasks : Result(t) \in value' <=> Result(t) \in value
<1>0. TypeOK /\ WaitInv /\ GrowthInv /\ ResultInv
  BY DEF OrderInv
<1>1. value' = value \cup {x} /\ UNCHANGED <<kind, spawned, finished, pc, at, home, deps, dep_, setting>>
  BY DEF Answer
<1>2. \A t : Result(t) \in value' <=> Result(t) \in value
  BY <1>1, Names
<1>3. TypeOK' /\ GrowthInv'
  BY <1>0, <1>1, StateFacts DEF Answer, TypeOK, GrowthInv
<1>4. ResultInv'
  BY <1>0, <1>1, <1>2, ResultFrame
<1>5. WaitInv'
  <2>1. \A k : Result(Root(k)) \in value' <=> Result(Root(k)) \in value
    BY <1>2
  <2>2. QED
    BY <1>0, <1>1, <2>1 DEF WaitInv, Before
<1>6. QED
  BY <1>2, <1>3, <1>4, <1>5 DEF OrderInv

LEMMA NextOrder == OnlyAfterMoves /\ OrderInv /\ [Next]_vars => OrderInv'
<1> SUFFICES ASSUME OnlyAfterMoves, OrderInv, [Next]_vars PROVE OrderInv'
  OBVIOUS
<1>1. CASE UNCHANGED vars
  BY <1>1 DEF vars, OrderInv, TypeOK, GrowthInv, ResultInv, WaitInv, Before
<1>2. CASE SpawnLoop \/ Wait
  BY <1>2, SpawnOrder, WaitOrder
<1>3. CASE \E t \in Tasks : Split(t) \/ Process(t) \/ Complete(t) \/ Deliver(t)
  BY <1>3, SplitOrder, ProcessOrder, CompleteOrder, DeliverOrder
<1>4. CASE \E x \in Lookups : Answer(x)
  BY <1>4, AnswerOrder
<1>5. CASE \E t \in Tasks, l \in Localities : Send(t, l)
  BY <1>5, SendOrder
<1>6. QED
  BY <1>1, <1>2, <1>3, <1>4, <1>5 DEF Next, Work

LEMMA Order == ASSUME OnlyAfterMoves PROVE Spec => []OrderInv
<1>1. Init => OrderInv
  BY InitOrder
<1>2. OrderInv /\ [Next]_vars => OrderInv'
  BY NextOrder
<1>3. QED
  BY <1>1, <1>2, PTL DEF Spec

-----------------------------------------------------------------------------
(* The theorems.                                                           *)

\* When the program's wait for the last loop returns (~pfor_loop_handle), every
\* work item of every loop has run, none is left, and no call of set_value is on
\* its way, wherever the work items were sent.
THEOREM NothingLeftAfterWait == ASSUME OnlyAfterMoves PROVE Spec => []NothingAfterWait
<1>1. ASSUME OrderInv, finished PROVE setting = {} /\ \A t \in Tasks : pc[t] = "done"
  <2>0. TypeOK /\ WaitInv /\ ResultInv
    BY <1>1 DEF OrderInv
  <2>1. \A k \in Loops : Result(Root(k)) \in value
    <3>1. Len(LoopDepth) \in Loops /\ Loops = 1 .. Len(LoopDepth)
      BY LoopFacts
    <3>2. QED
      BY <1>1, <2>0, <3>1 DEF WaitInv
  <2>2. ASSUME NEW t \in Tasks PROVE pc[t] = "done" /\ t \notin setting
    <3>1. t[1] \in Loops
      BY TaskFacts
    <3>2. t \in Below(Root(t[1])) /\ Root(t[1]) \in Tasks
      BY <3>1, RootFacts
    <3>3. Result(t) \in value
      BY <2>0, <2>1, <3>1, <3>2 DEF ResultInv
    <3>4. QED
      BY <2>0, <3>3 DEF ResultInv
  <2>3. QED
    BY <2>0, <2>2 DEF TypeOK
<1>2. OrderInv => NothingAfterWait
  BY <1>1 DEF NothingAfterWait
<1>3. QED
  BY <1>2, Order, PTL

\* What a piece needs has run once the loop before it is over.
LEMMA NeedsRan ==
  ASSUME OrderInv, NEW p \in Pieces, Before(p) \in value
  PROVE  Needs[p] \subseteq Ran
<1>1. ASSUME NEW q \in Needs[p] PROVE q \in Ran
  <2>1. q \in Pieces /\ q \in Tasks /\ q[1] = p[1] - 1
    BY <1>1 DEF Needs, Pieces
  <2>2. q[1] \in Loops
    BY <2>1, TaskFacts
  <2>3. Root(q[1]) \in Tasks /\ q \in Below(Root(q[1])) /\ Before(p) = Result(Root(q[1]))
    BY <2>1, <2>2, RootFacts DEF Before
  <2>4. pc[q] = "done"
    BY <2>1, <2>3 DEF OrderInv, ResultInv
  <2>5. QED
    BY <2>1, <2>4 DEF Ran
<1>2. QED
  BY <1>1

\* The tasks whose result is available.
Resolved == {t \in Tasks : Result(t) \in value}

LEMMA StepImplements ==
  ASSUME OnlyAfterMoves, OrderInv, [Next]_vars
  PROVE  [LoopOrder!Next]_(LoopOrder!vars)
<1>0. TypeOK /\ ResultInv /\ GrowthInv /\ pc \in [Tasks -> {"none", "scheduled", "split", "done"}]
  BY DEF OrderInv, TypeOK
<1>1. /\ \A p : LoopOrder!Run(p) <=> /\ p \notin Ran /\ Needs[p] \subseteq Ran
                                    /\ Ran' = Ran \cup {p}
                                    /\ Resolved' \in {Resolved, Resolved \cup {p}}
      /\ \A t : LoopOrder!Resolve(t) <=> /\ t \notin Resolved
                                        /\ (IF t \in Pieces THEN t \in Ran ELSE Halves[t] \subseteq Resolved)
                                        /\ Resolved' = Resolved \cup {t}
                                        /\ Ran' = Ran
  BY DEF LoopOrder!Run, LoopOrder!Resolve, Resolved
<1>2. (\E p \in Pieces : LoopOrder!Run(p)) \/ (\E t \in Tasks : LoopOrder!Resolve(t)) => LoopOrder!Next
  BY DEF LoopOrder!Next
<1>3. \A t \in Tasks \ Pieces : Halves[t] = {Child(t, 0), Child(t, 1)} /\ Halves[t] \subseteq Tasks
  BY ChildFacts DEF Halves
<1>4. Pieces \subseteq Tasks /\ Ran = {p \in Pieces : pc[p] = "done"} /\ Ran' = {p \in Pieces : pc'[p] = "done"}
  BY DEF Pieces, Ran
<1>5. Resolved = {t \in Tasks : Result(t) \in value} /\ Resolved' = {t \in Tasks : Result(t) \in value'}
  BY DEF Resolved
<1>6. CASE Ran' = Ran /\ Resolved' = Resolved
  BY <1>6 DEF LoopOrder!vars, Resolved
<1>7. ASSUME NEW t \in Tasks, Process(t) PROVE LoopOrder!Next
  <2>1. t \in Pieces /\ pc[t] = "scheduled" /\ pc' = [pc EXCEPT ![t] = "done"] /\ SetValue(t)
    BY <1>7 DEF Process, Pieces
  <2>2. t \notin Ran /\ Ran' = Ran \cup {t}
    BY <1>0, <1>4, <2>1
  <2>3. Needs[t] \subseteq Ran
    BY <1>7, <2>1, ProcessOrder, NeedsRan
  <2>4. Resolved' \in {Resolved, Resolved \cup {t}}
    <3>1. CASE value' = value
      BY <1>5, <3>1
    <3>2. CASE value' = value \cup {Result(t)}
      BY <1>5, <3>2, Names
    <3>3. QED
      BY <2>1, <3>1, <3>2 DEF SetValue
  <2>5. QED
    BY <1>1, <1>2, <2>1, <2>2, <2>3, <2>4
<1>8. ASSUME NEW t \in Tasks, Complete(t) PROVE LoopOrder!Next \/ (Ran' = Ran /\ Resolved' = Resolved)
  <2>1. /\ t \notin Pieces /\ pc[t] = "split" /\ pc' = [pc EXCEPT ![t] = "done"] /\ SetValue(t)
        /\ Result(Child(t, 0)) \in value /\ Result(Child(t, 1)) \in value
    BY <1>8, CompleteOrder DEF Complete
  <2>2. Ran' = Ran
    BY <1>0, <1>4, <2>1
  <2>3. t \notin Resolved /\ Halves[t] \subseteq Resolved
    BY <1>0, <1>3, <1>5, <2>1 DEF ResultInv
  <2>4. CASE value' = value
    BY <1>5, <2>2, <2>4
  <2>5. CASE value' = value \cup {Result(t)}
    <3>1. Resolved' = Resolved \cup {t}
      BY <1>5, <2>5, Names
    <3>2. QED
      BY <1>1, <1>2, <2>1, <2>2, <2>3, <3>1
  <2>6. QED
    BY <2>1, <2>4, <2>5 DEF SetValue
<1>9. ASSUME NEW t \in Tasks, Deliver(t) PROVE LoopOrder!Next
  <2>1. /\ t \in setting /\ value' = value \cup {Result(t)} /\ pc' = pc
    BY <1>9 DEF Deliver
  <2>2. /\ pc[t] = "done" /\ Result(t) \notin value
        /\ t \notin Pieces => Result(Child(t, 0)) \in value /\ Result(Child(t, 1)) \in value
    BY <1>0, <2>1 DEF ResultInv
  <2>3. Ran' = Ran /\ Resolved' = Resolved \cup {t} /\ t \notin Resolved
    BY <1>4, <1>5, <2>1, <2>2, Names
  <2>4. IF t \in Pieces THEN t \in Ran ELSE Halves[t] \subseteq Resolved
    BY <1>3, <1>4, <1>5, <2>2
  <2>5. QED
    BY <1>1, <1>2, <2>3, <2>4
<1>10. ASSUME NEW t \in Tasks, Split(t) PROVE Ran' = Ran /\ Resolved' = Resolved
  <2>1. value' = value /\ \A u \in Tasks : pc'[u] = "done" <=> pc[u] = "done"
    BY <1>10, SplitOrder DEF Split
  <2>2. QED
    BY <1>4, <1>5, <2>1
<1>11. ASSUME NEW x \in Lookups, Answer(x) PROVE Ran' = Ran /\ Resolved' = Resolved
  <2>1. pc' = pc /\ \A t \in Tasks : Result(t) \in value' <=> Result(t) \in value
    BY <1>11, AnswerOrder DEF Answer
  <2>2. QED
    BY <1>4, <1>5, <2>1
<1>12. ASSUME SpawnLoop PROVE Ran' = Ran /\ Resolved' = Resolved
  <2>1. /\ value' = value /\ spawned + 1 \in Loops
        /\ pc' = [pc EXCEPT ![Root(spawned + 1)] = "scheduled"]
    BY <1>12 DEF SpawnLoop
  <2>2. pc[Root(spawned + 1)] = "none"
    <3>1. spawned + 1 > spawned
      BY <1>0 DEF TypeOK
    <3>2. QED
      BY <1>0, <2>1, <3>1 DEF GrowthInv
  <2>3. QED
    BY <1>0, <1>4, <1>5, <2>1, <2>2
<1>13. CASE UNCHANGED <<pc, value>>
  BY <1>4, <1>5, <1>6, <1>13
<1>14. QED
  BY <1>6, <1>7, <1>8, <1>9, <1>10, <1>11, <1>12, <1>13 DEF Next, Work, Wait, Send, vars

\* The runtime implements the order its program asks for: a piece runs once, after
\* its neighbours in the loop before it, and a result is available only after
\* everything below it has run, however many loops there are, however they are
\* split and whichever localities the work items are sent to.
THEOREM RuntimeKeepsLoopOrder == ASSUME OnlyAfterMoves PROVE Spec => ImplementsLoopOrder
<1>1. Init => LoopOrder!Init
  <2>1. ASSUME Init PROVE Ran = {} /\ {t \in Tasks : Result(t) \in value} = {}
    <3>1. \A t \in Tasks : Result(t) \notin value /\ pc[t] # "done"
      BY <2>1, Names DEF Init
    <3>2. QED
      BY <3>1 DEF Ran, Pieces
  <2>2. QED
    BY <2>1 DEF LoopOrder!Init
<1>2. OrderInv /\ [Next]_vars => [LoopOrder!Next]_(LoopOrder!vars)
  BY StepImplements
<1>3. Spec => []OrderInv
  BY Order
<1>4. Spec => LoopOrder!Spec
  BY <1>1, <1>2, <1>3, PTL DEF Spec, LoopOrder!Spec
<1>5. QED
  BY <1>4 DEF ImplementsLoopOrder
=============================================================================
