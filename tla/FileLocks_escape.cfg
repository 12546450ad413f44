\* The cleaner deletes the entry of a mutex that a goroutine is about to lock.
SPECIFICATION Spec
CONSTANTS
  Workers = {w1, w2}
  Mutexes = {m1, m2, m3, m4}
  NoMutex = NoMutex
INVARIANTS NoLockEscape
CHECK_DEADLOCK FALSE
