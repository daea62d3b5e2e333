-------------------------- MODULE MCDataItemIndex --------------------------
(***************************************************************************)
(* Instances of DataItemIndex on the overlay trees of module Hierarchy.    *)
(***************************************************************************)
EXTENDS DataItemIndex, TLC

CONSTANT N   \* the number of localities

H == INSTANCE Hierarchy

MCRanks == 0 .. N - 1
MCAddr  == H!Addresses(N)
MCRoot  == H!getRootOfNetworkSize(N)
MCInner == {a \in MCAddr : ~H!isLeaf(a)}
MCLeaf  == [r \in MCRanks |-> <<r, 0>>]
MCRank  == [a \in MCAddr |-> H!getRank(a)]
MCParent     == [a \in MCAddr \ {MCRoot} |-> H!getParent(a)]
MCLeftChild  == [a \in MCInner |-> H!getLeftChild(a)]
MCRightChild == [a \in MCInner |-> H!ServiceRight(a, N)]
MCBelow == [a \in MCAddr |-> H!Subtree(a, N)]

\* Writers and readers of any region.
Processes == [mode : {"ReadOnly", "ReadWrite"}, region : Regions, split : {FALSE}, remote : {TRUE}]
\* Tasks that are split, and a reader that must stay on its locality.
Splits == [mode : {"ReadWrite"}, region : Regions, split : {TRUE}, remote : {TRUE}]
Locals == [mode : {"ReadOnly"}, region : Regions, split : {FALSE}, remote : {FALSE}]

All == Processes \cup Splits \cup Locals

\* One task of every kind, with overlapping regions.
Whole  == [region : {Elems}, mode : {"ReadWrite"}, split : BOOLEAN, remote : {TRUE}]
Single == [region : {{x} : x \in Elems}, mode : {"ReadOnly", "ReadWrite"}, split : {FALSE}, remote : {TRUE}]
Mixed  == Whole \cup Single

\* Splitting at the root or at a leaf leaves no unallocated region behind in
\* between.
MCLeaves == {<<r, 0>> : r \in MCRanks}
RootAndLeaves == {MCRoot} \cup MCLeaves

\* Targets on both sides of the root and of its left child.
SomeNodes == {<<0, 0>>, <<1, 0>>, <<2, 0>>, <<2, 1>>}

\* The targets of the runs.
TwoTargets  == [t \in Tasks |-> [q \in Mixed |-> IF q.split THEN RootAndLeaves ELSE MCAddr]]
FourTargets == [t \in Tasks |-> [q \in Processes |-> SomeNodes]]

AllTasks == {Tasks}

Symmetry == Permutations(Tasks) \cup Permutations(Elems)
=============================================================================
