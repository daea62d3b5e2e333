------------------------------ MODULE WorkItems ------------------------------
(***************************************************************************)
(* Work items and treetures: the life of the tasks of a chain of parallel  *)
(* loops, each loop synchronised with its neighbours in the loop before    *)
(* it.  A work item is spawned with a treeture for its result and handles  *)
(* on the treetures it depends on, may be serialised to another locality   *)
(* (its treetures become ids of remote objects there), is split into two   *)
(* children with refined handles or processed once its dependencies are    *)
(* ready, and sets its treeture, by a message when the treeture lives      *)
(* elsewhere.                                                              *)
(*                                                                         *)
(* A treeture object is a reference to a shared state.  States are named   *)
(* by the task whose result they hold, or by the look-up of a child handle *)
(* that created them; make_ready_treeture is the result of a loop 0.       *)
(***************************************************************************)
EXTENDS Integers, Sequences, FiniteSets, Folds, SequencesExt

CONSTANTS
  Localities, Main,   \* the localities and the one that runs the program
  LoopDepth,          \* <<d1, .. dn>>: the tasks of loop k are split d_k times
  Kinds,              \* the kinds of synchronisation the program may use
  Movable             \* the kinds whose work items can be serialised

ASSUME WorkItemsAssumption ==
  /\ Main \in Localities
  /\ LoopDepth \in Seq(Nat) /\ LoopDepth # <<>>
  /\ Kinds \subseteq {"closure", "after"} /\ Movable \subseteq Kinds

Loops == DOMAIN LoopDepth

\* task_id: the loop's root id and the path of left (0) and right (1) turns.
Paths(d) == UNION {[1..n -> {0, 1}] : n \in 0..d}
Tasks == UNION {{k} \X Paths(LoopDepth[k]) : k \in Loops}
Root(k) == <<k, <<>> >>
Child(t, side) == <<t[1], Append(t[2], side)>>

\* scheduler::do_split: whatever can be split and is above the cut-off.
DoSplit(t) == Len(t[2]) < LoopDepth[t[1]]
Pieces == {t \in Tasks : ~DoSplit(t)}

\* The shared states: results of tasks, and the ones a look-up creates.
Result(t) == <<t, "result">>
Ready == Result(Root(0))
Asked == {"dlr", "dcl", "dcr", "drl"}
Lookups == (Tasks \ Pieces) \X Asked
SharedStates == {Result(t) : t \in Tasks} \cup Lookups \cup {Ready}

\* A treeture object: the state, whether only its id is known here, and
\* whether it stands for its own children.
Treeture == [state : SharedStates, remote : BOOLEAN,
             fixed_children : BOOLEAN]
Local(s) == [state |-> s, remote |-> FALSE, fixed_children |-> FALSE]
\* In the closure: handles on the left, own and right part of the loop before.
Handles == [dl : Treeture, dc : Treeture, dr : Treeture]
NoHandles == [dl |-> Local(Ready), dc |-> Local(Ready), dr |-> Local(Ready)]

VARIABLES
  kind,      \* how each loop waits for the one before it
  spawned,   \* main: how many loops it has spawned
  finished,  \* main: it has waited for the last loop
  pc,        \* "none", "scheduled", "split" or "done", for every task
  at,        \* the locality the work item is at
  home,      \* the locality its treeture's shared state is at
  deps,      \* the handles in its closure
  dep_,      \* the states its dependency future waits for
  value,     \* the shared states that have been given a value
  setting,   \* set_value calls on the way to another locality
  asking     \* get_left_child and get_right_child calls on the way

vars == <<kind, spawned, finished, pc, at, home, deps, dep_, value, setting, asking>>

TypeOK ==
  /\ kind \in [Loops -> Kinds]
  /\ spawned \in 0..Len(LoopDepth) /\ finished \in BOOLEAN
  /\ pc \in [Tasks -> {"none", "scheduled", "split", "done"}]
  /\ at \in [Tasks -> Localities] /\ home \in [Tasks -> Localities]
  /\ deps \in [Tasks -> Handles]
  /\ dep_ \in [Tasks -> SUBSET SharedStates]
  /\ value \subseteq SharedStates
  /\ setting \subseteq Tasks /\ asking \subseteq Lookups

Init ==
  /\ kind \in [Loops -> Kinds]
  /\ spawned = 0 /\ finished = FALSE
  /\ pc = [t \in Tasks |-> "none"]
  /\ at = [t \in Tasks |-> Main] /\ home = [t \in Tasks |-> Main]
  /\ deps = [t \in Tasks |-> NoHandles]
  /\ dep_ = [t \in Tasks |-> {}]
  /\ value = {Ready}
  /\ setting = {} /\ asking = {}

------------------------------------------------------------------------------
(* Spawning.                                                               *)

States(h) == {h.dl.state, h.dc.state, h.dr.state}

\* runtime::after: a future of the handles' results; none for a loop that
\* keeps its dependencies in the closure (process_variant::deps).
After(k, h) == IF kind[k] = "after" THEN States(h) ELSE {}

\* f, changed to g where g is defined.
Update(f, g) == [t \in DOMAIN f |-> IF t \in DOMAIN g THEN g[t] ELSE f[t]]

\* detail::spawn for every task of the domain of hs, at locality l: a new work
\* item with a fresh local treeture, handed to the scheduler.
Spawn(l, hs) ==
  LET new == DOMAIN hs
  IN /\ at' = Update(at, [t \in new |-> l])
     /\ home' = Update(home, [t \in new |-> l])
     /\ deps' = Update(deps, hs)
     /\ dep_' = Update(dep_, [t \in new |-> After(t[1], hs[t])])

\* pfor_neighbor_sync: the program spawns the next loop with a handle on the
\* whole loop before it (spawn_first, task_id::create_root).
SpawnLoop ==
  LET k == spawned + 1
      last == Local(Result(Root(spawned)))
  IN /\ k \in Loops
     /\ spawned' = k
     /\ pc' = [pc EXCEPT ![Root(k)] = "scheduled"]
     /\ Spawn(Main, [t \in {Root(k)} |-> [NoHandles EXCEPT !.dc = last]])
     /\ UNCHANGED <<kind, finished, value, setting, asking>>

\* ~pfor_loop_handle: at the end the program waits for the last loop.
Wait ==
  /\ spawned = Len(LoopDepth) /\ ~finished
  /\ Result(Root(spawned)) \in value
  /\ finished' = TRUE
  /\ UNCHANGED <<kind, spawned, pc, at, home, deps, dep_, value, setting, asking>>

------------------------------------------------------------------------------
(* Serialisation.                                                          *)

\* treeture::save and load: the id of a global object for the shared state
\* arrives, never the state.
Load(h) == [f \in DOMAIN h |-> [h[f] EXCEPT !.remote = TRUE]]

\* The scheduler sends a work item to another locality.  The parcel leaves once
\* the future dep_ in it is ready; the treetures in the closure are sent as ids.
Send(t, l) ==
  /\ pc[t] = "scheduled" /\ kind[t[1]] \in Movable
  /\ at[t] = home[t] /\ l # at[t]     \* one hop; further hops change nothing more
  /\ dep_[t] \subseteq value
  /\ at' = [at EXCEPT ![t] = l]
  /\ deps' = [deps EXCEPT ![t] = Load(@)]
  /\ UNCHANGED <<kind, spawned, finished, pc, home, dep_, value, setting, asking>>

------------------------------------------------------------------------------
(* Splitting.                                                              *)

\* treeture::get_left_child / get_right_child of handle h, the look-up named s.
\* set_children does nothing, so no state has children: a local treeture
\* stands for its own children.  The child of a remote one is asked for, and
\* the treeture made of the pending answer is ready when the answer is.
GetChild(h, s) ==
  CASE h.fixed_children -> h
    [] ~h.fixed_children /\ ~h.remote -> [h EXCEPT !.fixed_children = TRUE]
    [] OTHER -> Local(s)

Refined(t) ==
  [dlr |-> GetChild(deps[t].dl, <<t, "dlr">>), dcl |-> GetChild(deps[t].dc, <<t, "dcl">>),
   dcr |-> GetChild(deps[t].dc, <<t, "dcr">>), drl |-> GetChild(deps[t].dr, <<t, "drl">>)]

LeftHandles(r) == [dl |-> r.dlr, dc |-> r.dcl, dr |-> r.dcr]
RightHandles(r) == [dl |-> r.dcl, dc |-> r.dcr, dr |-> r.drl]

\* do_split: refine the handles, spawn both halves here (create_child: left,
\* then right) and leave the rest to the completion of their results.  It does
\* not wait for dep_.
Split(t) ==
  LET r == Refined(t)
      left == Child(t, 0)
      right == Child(t, 1)
  IN /\ pc[t] = "scheduled" /\ DoSplit(t)
     /\ pc' = [pc EXCEPT ![t] = "split", ![left] = "scheduled", ![right] = "scheduled"]
     /\ Spawn(at[t], [c \in {left, right} |-> IF c = left THEN LeftHandles(r) ELSE RightHandles(r)])
     /\ asking' = asking \cup {x \in {t} \X Asked : r[x[2]].state = x}
     /\ UNCHANGED <<kind, spawned, finished, value, setting>>

\* treeture_lco answers a look-up: the treeture at the asking locality is set.
\* (treeture_task::get_left_child returns an empty treeture, which is dropped.)
Answer(x) ==
  /\ x \in asking
  /\ asking' = asking \ {x}
  /\ value' = value \cup {x}
  /\ UNCHANGED <<kind, spawned, finished, pc, at, home, deps, dep_, setting>>

------------------------------------------------------------------------------
(* Results.                                                                *)

\* treeture::set_value of a task's result: at once where the shared state is,
\* otherwise by a call of treeture_lco::set_value at its home.
\* Mutant of SetValue: no call is sent to the home of the shared state.
SetValue_LocalOnly(t) ==
  /\ value' = IF at[t] = home[t] THEN value \cup {Result(t)} ELSE value
  /\ UNCHANGED setting

SetValue(t) ==
  IF at[t] = home[t]
  THEN value' = value \cup {Result(t)} /\ UNCHANGED setting
  ELSE setting' = setting \cup {t} /\ UNCHANGED value

\* process, get_deps, do_process and finalize: the work item waits for its
\* dependency future and for the handles its variant names, then runs.
\* Mutant of ProcessDeps: the dependency future is not waited for.
ProcessDeps_ClosureOnly(t) == IF kind[t[1]] = "closure" THEN States(deps[t]) ELSE {}

ProcessDeps(t) ==
  dep_[t] \cup (IF kind[t[1]] = "closure" THEN States(deps[t]) ELSE {})

Process(t) ==
  /\ pc[t] = "scheduled" /\ ~DoSplit(t)
  /\ ProcessDeps(t) \subseteq value
  /\ pc' = [pc EXCEPT ![t] = "done"]
  /\ SetValue(t)
  /\ UNCHANGED <<kind, spawned, finished, at, home, deps, dep_, asking>>

\* finalize after a split: the callback on when_all of the children's results.
\* Mutant of Complete: only the left child is waited for.
Complete_LeftOnly(t) ==
  /\ pc[t] = "split"
  /\ Result(Child(t, 0)) \in value
  /\ pc' = [pc EXCEPT ![t] = "done"]
  /\ SetValue(t)
  /\ UNCHANGED <<kind, spawned, finished, at, home, deps, dep_, asking>>

Complete(t) ==
  /\ pc[t] = "split"
  /\ {Result(Child(t, 0)), Result(Child(t, 1))} \subseteq value
  /\ pc' = [pc EXCEPT ![t] = "done"]
  /\ SetValue(t)
  /\ UNCHANGED <<kind, spawned, finished, at, home, deps, dep_, asking>>

\* treeture_lco::set_value.
Deliver(t) ==
  /\ t \in setting
  /\ setting' = setting \ {t}
  /\ value' = value \cup {Result(t)}
  /\ UNCHANGED <<kind, spawned, finished, pc, at, home, deps, dep_, asking>>

------------------------------------------------------------------------------
Work ==
  \/ SpawnLoop \/ Wait
  \/ \E t \in Tasks : Split(t) \/ Process(t) \/ Complete(t) \/ Deliver(t)
  \/ \E x \in Lookups : Answer(x)

Next == Work \/ (\E t \in Tasks, l \in Localities : Send(t, l))

\* Some worker thread always takes a step when one is possible; no task has to be
\* sent anywhere.
Spec == Init /\ [][Next]_vars /\ WF_vars(Work)

------------------------------------------------------------------------------
(* Properties.                                                             *)

\* The iterations of a task, in units of the finest loop.
Finest == CHOOSE d \in Range(LoopDepth) : \A e \in Range(LoopDepth) : e <= d
Width(t) == 2^(Finest - Len(t[2]))
First(t) == Width(t) * FoldLeft(LAMBDA n, b : 2 * n + b, 0, t[2])

\* The pieces of the loop before that hold an iteration of p or next to it.
Needs ==
  [p \in Pieces |->
    {q \in Pieces : /\ q[1] = p[1] - 1
                    /\ First(q) <= First(p) + Width(p)
                    /\ First(p) <= First(q) + Width(q)}]

Ran == {p \in Pieces : pc[p] = "done"}

Halves == [t \in Tasks \ Pieces |-> {Child(t, 0), Child(t, 1)}]

LoopOrder == INSTANCE LoopOrder WITH
  Tasks <- Tasks, Pieces <- Pieces, Needs <- Needs,
  Children <- Halves,
  ran <- Ran, resolved <- {t \in Tasks : Result(t) \in value}

\* The runtime implements the order its program asks for: a piece runs after its
\* neighbours in the loop before it (finalize sets its treeture afterwards), once,
\* and a result is available only after everything below it has run, whichever
\* localities the work items were sent to.
ImplementsLoopOrder == LoopOrder!Spec

\* The synchronisation alone: a piece of a loop has run only if the pieces of the
\* loop before it that it reads have.
NeighboursRanBefore == \A p \in Ran : Needs[p] \subseteq Ran

\* The program's wait at the end (~pfor_loop_handle) returns: no work item waits
\* for a treeture that is never set, no set_value call stays unanswered.
WaitReturns == <>finished

\* When the wait returns no call is on its way and no work item of any loop is
\* left: nothing runs once the program goes on to stop the scheduler.
NothingAfterWait == finished => setting = {} /\ \A t \in Tasks : pc[t] = "done"
==============================================================================
