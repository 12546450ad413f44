\* A multipart upload in each of five settings.
SPECIFICATION Spec
SYMMETRY Symmetry
CONSTANTS
  r1 = r1
  r2 = r2
  r3 = r3
  AllRequests = {r1, r2, r3}
  Settings <- MCSettings
  None = None
INVARIANTS TypeOK CoverageExact CommittedIntact NoSlotLeak
\* The session is over once it has left the map.
CHECK_DEADLOCK FALSE
