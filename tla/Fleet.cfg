\* Instances that start together, crash and are started again.
SPECIFICATION FairSpec
CONSTANTS
  i1 = i1
  i2 = i2
  i3 = i3
  h1 = h1
  h2 = h2
  h3 = h3
  AllInstances = {i1, i2, i3}
  Hosts = {h1, h2, h3}
  Versions = {1, 2}
  Statements <- StatementCounts
  Interval = 1
  MaxDelay = 1
  MaxFaults = 2
  Settings <- All
INVARIANTS SchemaComplete OwnTempOnly ServingFound
PROPERTIES FleetStarts
\* A fleet that has started, without discovery, has nothing more to do.
CHECK_DEADLOCK FALSE
