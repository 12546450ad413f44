\* The front end in each of four settings.
SPECIFICATION FairSpec
CONSTANTS
  Requests = {r1, r2}
  None = None
  Settings <- MCSettings
INVARIANTS TokensExact MetadataBounded AuditedAtExit
PROPERTIES ShutdownEnds
\* The process is over after its shutdown.
CHECK_DEADLOCK FALSE
