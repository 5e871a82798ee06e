CONSTANTS
  unnamed = unnamed
  nofile = nofile
  nograph = nograph
  Tables <- MCTables
  Entities <- MCEntities
  FieldNames <- MCFieldNames
  Unnamed = unnamed
  CanonOf <- MCCanonOf
  Databases <- MCDatabases
  ReferenceNames <- MCReferenceNames
  Generic <- MCGeneric
  Words <- MCWords
  Claims <- MCClaims
  Files <- MCFiles
  NoFile = nofile
  NoGraph = nograph
  MaxChanges = 2
SPECIFICATION Spec
INVARIANTS
  TypeOK
  Grounded
  AliasesLeadToClaimants
  FailuresLeaveNoTrace
  NothingLost
PROPERTY ImplementsSemanticGraph
