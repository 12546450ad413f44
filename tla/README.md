# Verification of fssvrgo

TLA+ models of the distributed file server in `src/`, checked with TLC on small
instances, with proofs checked by TLAPS for every value of the constants.
`PROJECT.json` lists the runs, the source lines behind every definition
(`map`), a mutant for every checked property, the hazards and the theorems.

    tlc -config FileStore.cfg MCFileStore      # one run
    tlapm DistLock_proofs.tla                  # one proof module

## 1. Inventory

| Part | Source | State | Operations | Hard behaviours |
|---|---|---|---|---|
| Distributed lock | `internal/distributed/lock.go` | key -> token, expiry (Redis or a local map) | Lock, Unlock, Extend, AcquireLock, AcquireLockWithRenewal | TTL against renewal, lost answers, crashes |
| Audit writer | `internal/database/audit_writer.go` | channel, pending, batch, mutex | Submit, loop, flush, Close | overflow, two Close calls, drain |
| File locks | `internal/service/filemanager/manager.go` | sync.Map of mutexes | lockFile, unlockFile, CleanFileLocks | cleaner against waiters |
| Upload sessions | `internal/service/transfer/service.go` | session map, temp file, session store, slots | CreateUploadSession, UploadChunk, CompleteUpload, AbortUpload, expiry | chunk order, resume on another instance, crash |
| Multipart | `internal/service/transfer/multipart.go` | covered ranges, counter, temp file | UploadPartData, Complete, Abort, expiry | parallel overlapping parts, late writes |
| File manager | `internal/service/filemanager/manager.go`, `internal/database/metadata.go` | objects, rows | upload, delete, rename, download | two stores, each call may fail |
| Cleanup | `internal/database/cleanup.go` | list of deleted rows | tick | stale list |
| Directory manager | `internal/service/directory/manager.go` | rows of a tree, objects | create, delete, recursive delete, rename | overlapping trees, batches, crash |
| HTTP and gRPC server | `internal/api/`, `cmd/fsserver/main.go` | semaphore, cache, audit queue, phase of shutdown | every route and method, signal, deadline | panics, hung handlers, stale cache |
| Downloads | `internal/api/`, `internal/service/transfer/service.go`, `internal/distributed/session.go`, `internal/crypto/crypto.go`, `internal/storage/` | the file under its name and the files readers have open, temp files, download sessions in memory and in the session store | whole, streamed, range and gRPC downloads, CreateDownloadSession, DownloadChunk, CompleteDownload, AbortDownload, expiry | no reader takes a lock: the file is replaced, overwritten or removed under it |
| Start of a fleet | `cmd/fsserver/main.go`, `internal/database/migration.go`, `internal/discovery/discovery.go`, `internal/storage/minio.go` | schema, bucket, temp directories, leases in etcd | the steps of main, migrations, Register, keepalive | instances that start together and crash |
| Not modelled | file list, consistency manager, configuration store, configuration, logging, metrics | | | see section 7 |

A request enters through HTTP or gRPC (`Server`), is written to the audit
writer (`AuditWriter`), and calls the file manager (`FileStore`), the directory
manager (`Directory`) or the transfer service (`UploadSession`, `Multipart`).
Those take the in-process lock of the path (`FileLocks`) and the distributed
one (`DistLock`), then change storage and database one after the other. Reads
take no lock (`Downloads`). The cleanup purges what was soft-deleted. All of it
runs on instances that share database, storage, Redis and etcd (`Fleet`).

## 2. Modules

| Module | Models | State and actions |
|---|---|---|
| `Mutex` | abstract: at most one operation inside | `inside`; Acquire, Release |
| `DistLock` | one lock key, both backends | the entry and its time left, and per client its phase, token, renewal and timer; one action per call, answer, failure and clock tick |
| `AuditWriter` | audit_writer.go | `ch`, `pending`, `batch`, `mu`, the loop and each Close as a small program |
| `FileLocks` | the lock map of one path | current entry, mutexes, each goroutine between load, lock, work and unlock; the cleaner |
| `UploadSession` | one sequential upload | temp file content by chunk, session objects per instance, the session store, counters of slots, requests as small programs |
| `Multipart` | one multipart upload | content by byte, `coveredRanges` as the code keeps them, the history `late` of bytes that landed after the close, requests as small programs |
| `FileMap` | abstract: what clients see, a map from path to content | Put, Delete, Rename |
| `FileStore` | file manager, its rows and the cleanup | `object`, `row`, `lock`; each storage or database call is a step of a worker |
| `Directory` | directory manager, uploads and the cleanup on a tree | `row`, `object`, `phys`, `lock`, snapshots, the history `strays`; steps of two requests |
| `Server` | middleware, handlers, cache, audit queue, shutdown | `sem`, `cache`, `queue`, `rows`, `phase`, the statements under way `stmts`, per request its place in the chain |
| `Downloads` | every way to read one file while it is written | `object`, `row`, the writer at work, per request what it has open and has read, `temp`, `mem` and `store` for the session |
| `Fleet` | main up to "started successfully" on several instances | `applied`, `recorded`, `bucket`, `dirs`, `lease`, per instance the step of main it is at; the history `warned` of starts in which a call on temp directories failed |

`MC*` modules give the settings for TLC; `*_proofs` modules hold the proofs.

**Settings.** Deployment, faults and client behaviour are the fields of a record
variable `setting` that Init takes from the constant `Settings` and no action
changes. One run then covers several configurations, and a property says for
which of them it holds. They are:

- `UploadSession`: *Verified* (one instance, two chunks in any order, repeated
  or damaged, with a declared hash, abort and expiry), *Encrypted* (two
  instances, overlapping requests, writes that fail half-way), *Resuming* (three
  chunks, two instances that crash, no hash, the client goes on from the
  reported progress).
- `Multipart`: *Parts* (five bytes, all overlapping parts), *Unverified* (no hash,
  failures), *Verified* (hash, damaged parts), *Encrypted* (two requests), *Empty*
  (a file of no bytes). In all of them a write may outlast the closing of the file.
- `FileStore`: *Calm*, *Failing* (every failure of an upload but that of the
  lookup, and crashes), *Racing* (renames onto paths in use), *Purging* and
  *FailingPurge* (uploads of a deleted file during the cleanup).
- `Directory`: *Calm*, *Failing* (commits fail, crashes, cleanup),
  *Mismatching* (storage calls fail), *Uploading* (uploads, recursive deletes and
  the cleanup, with failures and crashes), *Crossing* (an upload to a name that a
  rename brings a file to), on the tree `/a`, `/b`, each with a file `x` and a
  directory `s` that holds a file `x`.
- `Server`: *Caching* (Redis), *InMemory*, *Changing* (calls that change the row
  compete for one slot), *Stopping* (a shutdown at any time).
- `Downloads`: *Replaced* and *InPlace* (how uploads write the file), *Sealed*
  (encryption, both kinds of upload), *Shared* (a session on two crashing
  instances), *Volume* (the same with `storage.temp_dir` set), *Paired* and *Single*
  (sessions without Redis), *FullDisk*.
- `Fleet`: *Apart* (two instances on hosts of their own, MinIO, service
  discovery), *Together* (three, two of them on one host, local storage).

## 3. What the runs show

Passing runs:

- `distlock` (Redis, two clients that renew, three tokens, TTL 3, interval 1,
  renewals up to 1 late, crashes and lost answers): an operation that renews owns
  its lock until it ends (`RenewedHolderKeepsLock`), the renewing operations
  implement `Mutex`, a live lock is only touched by its owner, an orphaned one
  expires, AcquireLock ends. The local backend, renewals that fail and clients
  that do not renew are covered by the proofs (section 6).
- `audit_writer` (batch 2, capacity 8, eleven entries, two Close calls): accepted
  entries are neither lost nor reordered, Close handles all that were accepted
  before the first Close, every entry is handled, Close returns. "Handled" is
  written or logged as failed: the code logs and passes over a failing row.
- `file_locks` (three goroutines, five mutexes): exclusion until an entry is
  removed, although unlockFile looks the mutex up again; waiters are served.
- `upload_session`: what a successful CompleteUpload stored is complete and has
  the declared hash; a valid incremental hash is that of a prefix of the file;
  reported progress is in the temp file; no slot stays taken.
- `multipart`: the ranges are sorted and disjoint, and exactly the bytes
  recorded; a committed file has no hole and, when a hash was declared, is the
  content it was declared for, but for the bytes of a part that landed after the
  file was closed; an ended session holds no slot.
- `file_store`: the rows are a map of files whatever fails (`ImplementsFileMap`);
  storage and database agree between operations when nothing fails; uploads lose
  no file; deleted rows are purged.
- `directory`: live files have their objects, no live file lies below a deleted
  directory, nor a directory once every delete has come to its end, no object is
  without a row but that of an upload which crashed, or wrote between the
  cleanup's Remove and its DELETE; each for the operations its comment names.
- `server`: the semaphore counts exactly the requests inside, cached metadata is
  stale for a bounded time, answered requests are audited at exit unless the
  deadline passed, the shutdown ends if the database answers.
- `downloads`: a whole download is one version of the file although nobody holds
  a lock (with encryption always, because the tag of a mixture is wrong; without
  it when uploads replace the file as a whole); streams and ranges deliver the
  blocks of the offsets asked for; decrypted temp files and sessions go away
  (with `storage.temp_dir` set, not those of a run that crashed); every download
  ends.
- `fleet`: no instance serves before the whole schema is there, although the
  migrations take no lock; an instance alone on its host leaves no temp directory
  of an earlier run, unless a call on them failed in its start; an instance that serves can be found; all instances serve in
  the end, although the loser of a race exits.

Runs that show a disagreement of the code with its documentation:

- `distlock_directory`: `lockDirectory` says that the lock "is acquired with
  renewal" (`directory/manager.go:54-57`), but its deferred `cancel` ends the
  renewal when it returns (`:63`).
- `file_locks_escape`: `CleanFileLocks` says that a successful TryLock makes the
  removal safe (`filemanager/manager.go:403-404`); it unlocks before it removes.

Four more, that follow from the models without a run of their own (`findings`):

- concurrent renames "on the same directory" are said to be serialized
  (`directory/manager.go:41-43`); a rename locks the old path only (`:328`), so a
  rename of the new path can overtake its objects and leave live files without
  them;
- an upload of an existing file "overwrites and updates" (`docs/design.md:64`);
  when the lookup of its row fails (`filemanager/manager.go:110`) the file loses
  its content;
- "any instance can resume" a download session (`docs/requirements.md:70`); a
  restored session of an encrypted file delivers parts of the ciphertext
  (`transfer/service.go:667`);
- on shutdown, with a slow database, "remaining entries are logged-and-dropped"
  (`http/server.go:1418-1419`); the last flush ignores the deadline
  (`audit_writer.go:178`) and waits for every row.

## 4. Bounds and abstractions

- Two requests (three in most settings of `Multipart`, three goroutines in
  `FileLocks`) are enough for every race the code
  has: the state they share is protected by one lock or by none.
- Contents are model values; a chunk, a part or an object is *good*, *bad*,
  *hole* or *torn*. A hash is equal when the contents are. Encryption makes a
  copy and may fail.
- Storage and database calls are atomic and may fail where the setting says so.
  A crash (`crash`) ends a worker or an instance between two calls.
- Time is a counter only where the code depends on it: the lock's TTL and ticker
  (`DistLock`) and the cache's TTL (`Server`). Elsewhere expiry and timeouts may
  happen at any time.
- Counters bounded in guards: `MaxEntries` (audit entries), `maxSize` and
  `maxDrops` (bytes counted and releases of an upload), `maxVersions` (changes of
  a row), `gens` (incarnations of a row), `Ids`, `Tokens` and `Mutexes` (fresh
  values), `MaxBlock` (offsets that clients ask for), `MaxFaults` (crashes and
  failed calls during the start). The code writes progress every 8 chunks;
  `persistEvery` is 1 or 2, and in `Downloads` any chunk may be the eighth.
- A file of `Downloads` has three blocks or one, so that it shrinks and grows; a
  ciphertext has one block more than its content. `Fleet` has two migrations of
  two statements and one, as many as it takes for a crash between two statements,
  between the last one and the record, and between two versions.
- A keepalive of `Fleet` is less than two intervals late. The etcd client renews
  every third of the lease, which is an interval.
- The TTL of a cache entry is at least 1 in `Server`. The configuration also
  accepts 0 (`config.go:345`), with which entries do not expire, and then
  `MetadataBounded` promises nothing.
- `FileStore`, `Directory` and `UploadSession` assume that a distributed lock does
  not expire under its holder. `DistLock` shows when that holds: for operations
  that renew, not for DeleteFile, RenameFile and UploadChunk beyond one TTL, and
  not for directory operations.
- Completions of one encrypted upload do not overlap in `UploadSession`: they
  would share the file with the suffix `.enc`.
- Symmetry is used for requests and tokens, in runs without liveness properties.
  `UploadSession` has a view that leaves out session values nobody refers to.
- Deadlock is not checked where the system may stop for good; the cfg says why.

## 5. Fairness

| Module | Assumed | Why |
|---|---|---|
| `DistLock` | the clock, attempts of AcquireLock, Unlock and the renewal go on; an operation may work for ever | they are loops and calls with timeouts |
| `AuditWriter` | the loop and its ticker, INSERTs, the last steps of a Close | a goroutine that is never blocked for good; no Close is required to time out |
| `FileLocks` | strong fairness of taking the mutex, weak fairness of the rest | sync.Mutex is starvation free; operations end |
| `FileStore` | workers, the ageing of deleted rows and the cleanup | goroutines are scheduled, the ticker fires |
| `Server` | the main goroutine, and the database's answers to statements and to the last flush | the shutdown has no timeout for them; handlers may hang |
| `Downloads` | requests and writers run to their end, time passes, the cleanup ticker ticks; no request has to arrive | handlers have no loop that waits, the cleanup is a ticker |
| `Fleet` | every instance takes its next step, and is started again when it has ended; crashes are bounded | processes are scheduled and have a supervisor |

## 6. Proofs

Each proof module extends the module it is about and shows an inductive
invariant action by action; the theorems follow from it.

- `DistLock_proofs`, for any clients, tokens, TTL, renewal interval and delay, on
  both backends. `LockInv` says that tokens tell clients apart and, when renewals
  do not fail, that a renewing client owns the entry with at least
  `timer + TTL - Interval - MaxDelay` left. The timing is needed because owning
  the entry is not inductive by itself: a step of the clock could end it. It uses
  the assumption `RenewalFits`: interval and two delays (a late start and a late
  Extend) fit into the TTL. Results: `TypeCorrect`, `RenewedLockIsKept`,
  `MutexImplemented` (refinement of `Mutex`), and, without assumptions on timing
  or failures, `LiveLockSafe`. The module also holds the proofs about the
  in-process locks (`F`, an instance of `FileLocks`), for any number of goroutines.
  `LocksInv` says that until an entry is removed all goroutines have loaded the
  same mutex and it is locked for one of them or for the cleaner. Results:
  `FileTypeCorrect`, `LocksSound`.
- `AuditWriter_proofs`, for every batch size, number of entries and number of
  Close calls. `AuditInv` adds who holds the mutex and a batch, and where the
  entries accepted before the first Close are. Results: `TypeCorrect`,
  `NothingLost`, `CloseFlushes`.
- `UploadSession_proofs`, for any number of instances, requests and chunks.
  `UploadInv` adds to the types how many slots an instance may hold, and where the
  hash and the file may differ: at the chunk of a request between its write and
  its hash. Only the session as created has a hasher, which is why the invariant
  also says that nobody uses another value of the session while it is in the map.
  Results: `TypeCorrect`, `SlotsReleased`, `HashFollowsFile`. Two more results
  rest on it:
  - `ProgressBacked`, from `TurnsInv` (chunks and completions take turns) and
    `ProgressInv`: one chunk is under way, the one after those its session counts,
    and every counter, in a session, in the store or on its way from one to the
    other, is covered by the temp file;
  - `CommittedFilesIntact`, from `CommitInv` (one completion at most takes the temp
    file away) and `IntactInv` (what a completion has checked is whole and stays
    so until it is stored). Why the check can be believed differs between the
    three cases of `Trusted`, and each has an invariant: `UndamagedInv` (no chunk
    is damaged, so every valid hash is that of the file), `AloneInv` (one
    instance, chunks and completions take turns: the hash is that of the file
    whenever a completion runs, and after a success no session is open),
    `InOrderInv` (no hash, but a client that fills the file in order).
- `Multipart_proofs`, for files of any size and any number of requests.
  `MultipartInv` adds to the types that the ranges cover exactly what was recorded
  (`CoverInv`), that who has passed the check of the coverage works on a whole file
  (`HoleInv`), that one completion at most commits (`CommitInv`), that verified
  bytes stay but for late ones (`HashInv`), and whose the slot is (`SlotInv`).
  What the fold of `addCoveredRange` returns is shown for every list of ranges
  with the least number at which a claim would fail. Results:
  `TypeCorrect`, `CoverageIsExact`, `CommittedFileIntact`, `SlotGivenBack`.
- `FileStore_proofs`, for any number of requests, paths, contents and ids, with
  every failure. `StoreInv` says that a request at work holds the lock of its path
  and that the row it has read is there as it was, or not at all: without it an
  Update by id could change another file. Results: `TypeCorrect`,
  `FileMapImplemented` (refinement of `FileMap`), `UploadsLoseNothing`, and
  `BothStoresAgree`. The last one needs `CalmInv`: each path is used by one request
  at most, as its path or as the target of its rename; the stores agree on the
  paths that nobody uses; on the others they differ as the step of the request
  says; and what the cleanup has on its list is still a deleted row that nobody
  uses.
- `Server_proofs`, for any number of requests, tokens and versions. `ServerInv`
  adds where the audit entries of answered requests are, and how long a version in
  the cache or in the hands of a handler has been superseded. Results:
  `TypeCorrect`, `NoTokenLeaks`, `StaleMetadataBounded`, `ShutdownAudits`.
- `Downloads_proofs`, for any number of instances and requests and files of any
  size. `DownloadInv` says what a request has open and has read at every step: a
  prefix of one version when files are replaced as a whole, and always the blocks
  that follow its offset. Results: `TypeCorrect`, `DownloadsIntact`,
  `BlocksInPlace`. `TempFilesOwned` has an invariant of its own. `TempInv` says at
  which steps a request owns which temp file, that a decrypted file of a session
  is owned by the session in memory, that files of crashed runs are there only
  with `storage.temp_dir`, and that who restores or drops a session has
  no file of it on its instance. For this `CreateInv` is needed: the session is
  made once, and until it is in memory nobody can restore or end it.
- `Fleet_proofs`, for any number of instances, hosts, migrations and statements.
  `FleetInv` says that the statements an instance has executed are applied, that
  what is missing from its list of pending versions is recorded, that a sweeping
  instance has all directories of its earlier runs on its list or has `warned`, and
  that a lease has exactly `LeaseTTL - beat` left. Results: `MigrationsComplete`, `TempDirectoriesExact`,
  `ServingRegistered`.

The constants are arbitrary but for named assumptions, which TLC evaluates in the
runs: sizes and intervals are positive, `RenewalFits` and the delay of a keepalive
(`FleetConstants`), the names of instances, requests, "session" and "crashed" are distinct,
and the value `None` for "nothing there" is none of the values it is compared with.

Every safety property of these nine components that a run checks is proved. Only
model-checked are:

- all liveness properties: the prover handles neither fairness nor ENABLED;
- `Directory`: its properties hold under conditions on the tree and the renames
  (`OneRename`) that came out of the attempt to prove them, see section 7.

Conditions that came out of the proofs, because the property fails without them:
`Trusted` and `~Overlap` in `CommittedIntact` and `ProgressCovered` (a chunk under
way beside a completion writes after the check, and a completion that failed
leaves a closed session whose chunks are still counted), and those of `Directory`.

## 7. Limits, observations and plan

Where a property excludes a behaviour, the code does not promise it, or keeps it
only under a condition. The hazards in `PROJECT.json` give the lines. The main
ones: a chunk of an unencrypted upload that is in flight during the completion; a
repeated and a missing chunk without a declared hash; a part sent again makes the
counter pass the size; a part whose write is under way when CompleteMultipartUpload
closes the file lands after the hash was verified, since `os.File.Close` does not
wait for it (`multipart.go:223`); a deletion whose second half failed; the object at the new
name of a rename; the cleanup's list against an upload of the same path; a storage
move that fails after the rename was committed (`directory/manager.go:394-399`
leaves it to a cleanup that does not look for it); an upload into a directory that
is being deleted, or that crosses the cleanup's purge of its path
(`cleanup.go:66-72`), after which an object has no row.

The end of a shutdown depends on the database: the last flush of the audit writer
(`audit_writer.go:101-106`) and the closing of the database (`db.go:117-124`) wait
without a timeout.

Two properties of `Directory` were first stated for all renames and all trees,
which the small tree of the run satisfies. The argument for any tree does not go
through, and TLC confirms why on other instances: with a rename back from `/b` to
`/a`, two renames that overlap leave a live file without its object; and in a tree
one level deeper a recursive delete that stops between two batches of directories
leaves a live directory below a deleted one, since the query has no ORDER BY
(`directory/manager.go:245`). As stated now they hold there too.

Of downloads and the start of a fleet: a file that is overwritten in place, without encryption, can be
served as a mixture of two versions; the gRPC download delivers the stored bytes,
encrypted ones included; a decrypted file stays when writing it failed half-way
(`transfer/service.go:631`); the cleanup of temp directories goes by a prefix and
removes those of a live instance on the same host (`main.go:184`); when it fails
that is only logged or ignored, and the directories stay; it does not look into a
configured `storage.temp_dir`, where the files of a crashed run stay for good; an instance
whose keepalive came too late goes on serving unregistered
(`discovery.go:86-89`), and main never deregisters.

Not modelled:

- the file list: read-only SQL, no state between pages (pages are cut by OFFSET
  from an order with ties, so a client that walks them may see changes as gaps);
- the consistency manager: main creates and stops it, no operation calls it, and
  replication to a peer is a log line;
- the life of tokens, the etcd configuration store, Discover and Watch (unused by
  the server), configuration, logging, metrics and generated protocol code;
- Rename of MinIO in its two calls (copy, then remove), the LRU of the memory
  cache, the path locks of the storage backends (CleanPathLocks repeats the
  pattern of CleanFileLocks).

Next: encryption of an upload in steps, with the `.enc` file that two completions
share; a composition of `FileStore` with a lock that expires; Rename of MinIO;
proofs of the invariants of `Directory`.
