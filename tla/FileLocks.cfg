\* Three goroutines and the cleaner on one path.
SPECIFICATION FairSpec
CONSTANTS
  Workers = {w1, w2, w3}
  Mutexes = {m1, m2, m3, m4, m5}
  NoMutex = NoMutex
INVARIANTS SoundUntilRemoved
PROPERTIES WaiterServed
\* The process may die of a fatal error once an entry was removed.
CHECK_DEADLOCK FALSE
