CONSTANTS
  N = 4
  Addr <- MCAddr
  Root <- MCRoot
  Leaf <- MCLeaf
  Rank <- MCRank
  Parent <- MCParent
  LeftChild <- MCLeftChild
  RightChild <- MCRightChild
  Below <- MCBelow
  Elems = {x}
  t1 = t1
  t2 = t2
  w1 = w1
  w2 = w2
  Tasks <- MCTasks
  Requirements <- All
  Targets <- LiveTargets
  Programs <- LivePrograms
  Retargeted <- Writers
  AllowDeps = FALSE
  Blank = Blank
  Absent = Absent
  MaxChanges = 1
SPECIFICATION PolicySpec
PROPERTIES
  TasksFinish
