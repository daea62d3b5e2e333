------------------------------ MODULE LoopOrder ------------------------------
(***************************************************************************)
(* What a chain of parallel loops promises its program, whatever the       *)
(* runtime does to run it: a piece of a loop runs once, after the pieces   *)
(* of the loop before it that it needs; the result of a task is there once *)
(* the task has run or the results of all its subtasks are.  WorkItems is  *)
(* shown to implement it.                                                  *)
(***************************************************************************)
CONSTANTS
  Tasks,         \* the work items of all loops
  Pieces,        \* the ones that are processed, the others are split
  Needs,         \* [Pieces -> SUBSET Pieces]
  Children       \* [Tasks \ Pieces -> SUBSET Tasks]

VARIABLES
  ran,           \* the pieces whose body has been executed
  resolved       \* the tasks whose result is available

vars == <<ran, resolved>>

Init == ran = {} /\ resolved = {}

\* The body runs; its result may be available at once or later.
Run(p) ==
  /\ p \notin ran /\ Needs[p] \subseteq ran
  /\ ran' = ran \cup {p}
  /\ resolved' \in {resolved, resolved \cup {p}}

Resolve(t) ==
  /\ t \notin resolved
  /\ IF t \in Pieces THEN t \in ran ELSE Children[t] \subseteq resolved
  /\ resolved' = resolved \cup {t}
  /\ UNCHANGED ran

Next == (\E p \in Pieces : Run(p)) \/ (\E t \in Tasks : Resolve(t))

Spec == Init /\ [][Next]_vars
==============================================================================
