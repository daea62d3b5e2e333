------------------------- MODULE MCSchedulerService -------------------------
(***************************************************************************)
(* Instances of SchedulerService for TLC.                                  *)
(***************************************************************************)
EXTENDS SchedulerService

\* A mapping with an idle locality; toggling node 0 gives one that is not in order.
SomeMappings == { [i \in TaskIds |-> IF i < NumTasks \div 2 THEN 0 ELSE N - 1] }
=============================================================================
