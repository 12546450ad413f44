\* A file that is read in every way while it is written.
SPECIFICATION FairSpec
CONSTANTS
  i1 = i1
  i2 = i2
  r1 = r1
  r2 = r2
  long = long
  short = short
  AllInstances = {i1, i2}
  AllRequests = {r1, r2}
  Versions = {long, short}
  Size <- Sizes
  Chunk = 2
  MaxBlock = 2
  Linked = Linked
  None = None
  Settings <- All
INVARIANTS ServedIntact NoGapsOrRepeats NoTempLeft
PROPERTIES DownloadsEnd SessionsExpire
\* Without requests nothing has to happen.
CHECK_DEADLOCK FALSE
