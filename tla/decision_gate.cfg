SPECIFICATION Spec
CONSTANTS
  PredicateBound = 2
  JoinBound = 1
  MaxPredicates = 3
CHECK_DEADLOCK FALSE
INVARIANTS
  TypeOK
  OnlyGroundedSql
  ExecuteLeavesNothingUnresolved
  HandoffFollowsDecision
  MissingEvidenceIsOffered
  ReasonHasItsSlot
