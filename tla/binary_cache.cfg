SPECIFICATION Spec
CONSTANTS
  c1 = c1 c2 = c2 p1 = p1 p2 = p2 good = good same = same short = short
  d1 = d1 d2 = d2 z1 = z1 z2 = z2
  Callers = {c1, c2}
  Pids = {p1, p2}
  PidOf <- OwnPid
  Bodies = {good, same, short}
  Sizes = {z1, z2}
  Digests = {d1, d2}
  SizeOf <- MCSizeOf
  DigestOf <- MCDigestOf
  Assets <- MCAssets
  Files = {1, 2, 3, 4, 5}
  NoSize = NoSize Binary = Binary Absent = Absent Truncated = Truncated
  NoBody = NoBody NoAsset = NoAsset
  MaxRedirects = 5
  MaxCrashes = 2
INVARIANTS
  TypeOK
  CachedIsVerified
  ReturnedCanBeLaunched
  TempIsTransient
PROPERTIES
  CacheReplacedWhole
  EveryCallSettles
