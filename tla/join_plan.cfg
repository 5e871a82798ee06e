CONSTANTS
  noentity = noentity
  Entities <- MCEntities
  Names <- MCNames
  EntityRank <- Rank
  FieldRank <- MCFieldRank
  Tasks <- MCTasks
  NoEntity = noentity
SPECIFICATION Spec
INVARIANTS
  TypeOK
  ShortestPaths
  RefusedWithCause
  NoUselessJoin
PROPERTY ImplementsJoinTree
