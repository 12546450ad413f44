\* Two operations that renew, on Redis, with crashes, lost answers and renewals that run
\* late: the steps of the clock are the renewal interval, a third of the TTL.
SPECIFICATION FairSpec
CONSTANTS
  Clients = {c1, c2}
  Tokens = {t1, t2, t3}
  NoToken = NoToken
  TTL = 3
  MinInterval = 1
  MaxDelay = 1
  RetryCount = 2
  Backend = "redis"
  Reliable = TRUE
  Renewal <- AllRenewing
INVARIANTS RenewedHolderKeepsLock
PROPERTIES ImplementsMutex OnlyOwnerTouchesLiveLock OrphanedLockExpires AcquireEnds
