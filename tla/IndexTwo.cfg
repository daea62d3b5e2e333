CONSTANTS
  N = 2
  Addr <- MCAddr
  Root <- MCRoot
  Leaf <- MCLeaf
  Rank <- MCRank
  Parent <- MCParent
  LeftChild <- MCLeftChild
  RightChild <- MCRightChild
  Below <- MCBelow
  Elems = {x, y}
  Tasks = {t1, t2, t3}
  Requirements <- Mixed
  Targets <- TwoTargets
  Programs <- AllTasks
  AllowDeps = FALSE
  Blank = Blank
  Absent = Absent
SYMMETRY Symmetry
SPECIFICATION Spec
PROPERTY
  ImplementsOneCopy
INVARIANTS
  RunsOnLatest
  NothingLost
  CacheFresh
