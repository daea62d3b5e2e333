---------------------------- MODULE MCIndexLive ----------------------------
(***************************************************************************)
(* Two kinds of program.  The tasks of the first are of any kind, split at *)
(* the root or at a leaf, under a fixed policy; those of the second write  *)
(* or are split, at any inner node, and the policy for them changes.       *)
(***************************************************************************)
EXTENDS MCDataItemIndex, PolicyChange

CONSTANTS t1, t2, w1, w2

MCTasks == {t1, t2, w1, w2}
Writers == {w1, w2}
LivePrograms == {{t1, t2}, Writers}

LiveTargets ==
  [t \in MCTasks |-> [q \in All |->
     CASE t \in Writers /\ q.mode = "ReadOnly" -> {}
       [] t \in Writers /\ q.split             -> MCInner
       [] t \in Writers /\ q.mode = "ReadWrite" /\ ~q.split -> {<<1, 0>>, <<2, 1>>}
       [] t \notin Writers /\ q.split          -> RootAndLeaves
       [] t \notin Writers /\ ~q.split         -> SomeNodes]]
=============================================================================
