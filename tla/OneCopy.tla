------------------------------- MODULE OneCopy -------------------------------
(***************************************************************************)
(* What a data item promises the tasks that use it, wherever its fragments *)
(* are and however they move: that there is one copy of it.  A task sees   *)
(* of its region what the last writers left when it starts, and nothing    *)
(* else until it is over; no conflicting task runs beside it; what it has  *)
(* written is there for all once it is over.  DataItemIndex is shown to    *)
(* implement it.                                                           *)
(***************************************************************************)
CONSTANTS
  Elems,      \* the elements of the data item
  Tasks,      \* the tasks; a writer leaves its name as the value
  Blank       \* the value of an element nobody has written

VARIABLES
  value,      \* the data item
  view,       \* what a running task sees: a function on its region (empty: it is not running)
  writers     \* the running tasks that write

vars == <<value, view, writers>>

Seen(t) == DOMAIN view[t]

Init ==
  /\ value = [x \in Elems |-> Blank]
  /\ view = [t \in Tasks |-> [x \in {} |-> Blank]]
  /\ writers = {}

\* The running tasks that t must not run beside if it writes (or reads) `region'.
InConflict(region, writes) == {u \in Tasks : Seen(u) \cap region # {} /\ (writes \/ u \in writers)}

Start(t, region, writes) ==
  /\ Seen(t) = {} /\ InConflict(region, writes) = {}
  /\ view' = [view EXCEPT ![t] = [x \in region |-> value[x]]]
  /\ writers' = IF writes THEN writers \cup {t} ELSE writers
  /\ UNCHANGED value

Finish(t) ==
  /\ Seen(t) # {}
  /\ value' = [x \in Elems |-> IF t \in writers /\ x \in Seen(t) THEN t ELSE value[x]]
  /\ view' = [view EXCEPT ![t] = [x \in {} |-> Blank]]
  /\ writers' = writers \ {t}

Next ==
  \E t \in Tasks :
    \/ \E region \in (SUBSET Elems) \ {{}}, writes \in BOOLEAN : Start(t, region, writes)
    \/ Finish(t)

Spec == Init /\ [][Next]_vars
==============================================================================
