CONSTANTS
  N = 4
  Addr <- MCAddr
  Root <- MCRoot
  Leaf <- MCLeaf
  Rank <- MCRank
  Parent <- MCParent
  LeftChild <- MCLeftChild
  RightChild <- MCRightChild
  Below <- MCBelow
  Elems = {x}
  Tasks = {t1, t2, t3}
  Requirements <- Processes
  Targets <- FourTargets
  Programs <- AllTasks
  AllowDeps = FALSE
  Blank = Blank
  Absent = Absent
SYMMETRY Symmetry
SPECIFICATION Spec
INVARIANTS
  TypeOK
  LeftRightDisjoint
  OwnershipLinked
  OneOwner
  WriterOwns
  CollectsWhatIsHeld
