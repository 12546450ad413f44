\* A batch of two makes the channel hold eight; eleven entries overflow it
\* while a batch is being written, and two Close calls race.
SPECIFICATION FairSpec
CONSTANTS
  BatchSize = 2
  MaxEntries = 11
  Closers = {k1, k2}
INVARIANTS NothingLostOrReordered CloseFlushesAll
PROPERTIES EveryEntryHandled CloseReturns
\* Once closed, with every entry submitted, the writer is at rest.
CHECK_DEADLOCK FALSE
