\* Files under all operations, in each of five settings.
SPECIFICATION FairSpec
CONSTANTS
  p = p
  q = q
  c = c
  d = d
  Workers = {w1, w2}
  Paths = {p, q}
  Contents = {c, d}
  Ids = {i1, i2, i3, i4, i5, i6}
  None = None
  Settings <- MCSettings
INVARIANTS StoresAgree NoFileLost
PROPERTIES ImplementsFileMap DeletedRowsPurged
\* Without requests the system rests.
CHECK_DEADLOCK FALSE
