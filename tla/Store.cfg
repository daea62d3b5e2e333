CONSTANTS
  N = 4
  CreateAt = {0}
  MaxItems = 2
  r0 = r0
  r1 = r1
  r2 = r2
  u1 = u1
  u2 = u2
  Refs <- MCRefs
  Home <- MCHome
  Users <- MCUsers
  Where <- MCWhere
SPECIFICATION FairSpec
INVARIANTS
  HintsLive
  AnswersAreStored
PROPERTIES
  CallsReturn
