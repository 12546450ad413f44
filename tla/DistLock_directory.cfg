\* lockDirectory: the renewal runs under a context that ends when the lock
\* has been taken.
SPECIFICATION Spec
CONSTANTS
  Clients = {c1, c2}
  Tokens = {t1, t2, t3}
  NoToken = NoToken
  TTL = 6
  MinInterval = 1
  MaxDelay = 2
  RetryCount = 1
  Backend = "redis"
  Reliable = TRUE
  Renewal <- AllScoped
INVARIANTS DirectoryLockKept
