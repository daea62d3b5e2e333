---------------------------- MODULE PolicyChange ----------------------------
(***************************************************************************)
(* The data item index under a scheduling policy that changes.  The policy *)
(* is asked anew at every hop of a task, under the lock of the scheduler   *)
(* service of the virtual node, and set_policy, toggle_node and            *)
(* update_policy replace it between two hops: the target of a task that is *)
(* still on its way becomes another one.                                   *)
(***************************************************************************)
EXTENDS DataItemIndex

CONSTANTS
  MaxChanges,   \* how often a task meets a new policy that matters for it
  Retargeted    \* the tasks that do

ASSUME PolicyChangeAssumption == MaxChanges \in Nat /\ Retargeted \subseteq Tasks

\* The tasks whose next hop asks the policy.
OnItsWay(t) == pc[t] \in {"schedule", "down"} /\ req[t].remote

\* How often t has met one, for the bound: noted beside its target.
Changes(t) == IF "changes" \in DOMAIN goal[t] THEN goal[t].changes ELSE 0

set_policy(t, g, p) ==
  /\ OnItsWay(t) /\ t \in Retargeted /\ Changes(t) < MaxChanges
  /\ g \in Targets[t][req[t]] \ {goal[t].own}
  /\ goal' = [goal EXCEPT ![t] = [own |-> g, parent |-> p, changes |-> Changes(t) + 1]]
  /\ UNCHANGED <<entry, frag, pc, at, req, deps, allowance, index>>

PolicyNext ==
  \/ Next
  \/ \E t \in Tasks, g \in Addr : \E p \in ParentGoals(g) : set_policy(t, g, p)

PolicySpec == Init /\ [][PolicyNext]_vars /\ Fairness
=============================================================================
