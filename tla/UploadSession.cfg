\* A session in each of three settings.
SPECIFICATION Spec
SYMMETRY RequestSymmetry
VIEW View
CONSTANTS
  AllInstances = {i1, i2}
  Home = i1
  Other = i2
  Requests = {r1, r2}
  Objects = {o1, o2, o3}
  None = None
  Settings <- Sound
INVARIANTS CommittedIntact IncrementalHashExact ProgressCovered NoSlotLeak
\* The session is over once it has left the map and the store.
CHECK_DEADLOCK FALSE
