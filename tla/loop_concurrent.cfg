SPECIFICATION Spec
CONSTANTS
  ta = ta tb = tb tc = tc s1 = s1 s2 = s2 h1 = h1 h2 = h2 t1 = t1 f1 = f1 f2 = f2 f3 = f3 v1 = v1
  Blank = Blank NoKey = NoKey Empty = Empty NoFile = NoFile Torn = Torn NoEntry = NoEntry
  Schemas = {s1, s2}
  Hashes = {h1, h2}
  Terms = {t1}
  FieldNames = {f1, f2, f3}
  Names = {f1, f2, f3, v1}
  Values = {v1}
  FieldsOf <- MCFieldsOf
  JoinsOf <- MCJoinsOf
  HashOf <- MCHashOf
  Tables = {ta, tb, tc}
  TableOf <- MCTableOf
  TablesOf <- MCTablesOf
  HandWritten <- MCSoundMemory
  FirstMemory <- MCFirstSoundMemory
  FreeTargets <- NoFreeTargets
  Queriers = {q1}
  Resolvers = {r1, r2}
  Slots = {"projection"}
  MaxExtracts = 1
  MaxApprovals = 2
  MaxCrashes = 0
SYMMETRY Symmetry
INVARIANTS
  TypeOK
  OnlyApprovedMemory
  AnswersUseFreshMemory
  DriftDetected
