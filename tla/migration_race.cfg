SPECIFICATION ReadableSpec
CONSTANTS
  o1 = o1 o2 = o2 o3 = o3 r1 = r1 r2 = r2
  NoTable = NoTable
  Openers = {o1, o2}
  Rows = {r1, r2}
INVARIANT NoRowIsLost
