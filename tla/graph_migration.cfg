SPECIFICATION Spec
CONSTANTS
  o1 = o1 o2 = o2 o3 = o3 r1 = r1 r2 = r2
  NoTable = NoTable
  Openers = {o1, o2, o3}
  Rows = {r1, r2}
SYMMETRY Symmetry
INVARIANTS
  TypeOK
  OpensWhole
  RowsSurvive
