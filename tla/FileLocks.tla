----------------------------- MODULE FileLocks -----------------------------
(***************************************************************************)
(* The per-path mutexes of internal/service/filemanager/manager.go for one *)
(* path: the sync.Map fileLocks, lockFile, unlockFile (which looks the     *)
(* path up again), and the periodic CleanFileLocks that drops the entries  *)
(* of files that do not exist.                                             *)
(***************************************************************************)
EXTENDS Naturals

CONSTANTS
  Workers,   \* goroutines running UploadFile, DeleteFile or RenameFile on the path
  Mutexes,   \* sync.Mutex objects
  NoMutex

ASSUME LockMapConstants == NoMutex \notin Mutexes

VARIABLES
  map,       \* the mutex fileLocks holds for the path
  locked,    \* the mutexes that are locked
  pc,        \* where each worker is
  val,       \* the worker's local variable: the mutex it loaded
  exists,    \* whether the file exists in the database
  cleaner,   \* where CleanFileLocks is
  seen,      \* the mutex the cleaner looks at
  removed,   \* history: the cleaner has deleted an entry
  fatal      \* the runtime died of "unlock of unlocked mutex"

vars == <<map, locked, pc, val, exists, cleaner, seen, removed, fatal>>

Init ==
  /\ map = NoMutex /\ locked = {}
  /\ pc = [w \in Workers |-> "idle"] /\ val = [w \in Workers |-> NoMutex]
  /\ exists \in BOOLEAN
  /\ cleaner = "idle" /\ seen = NoMutex
  /\ removed = FALSE /\ fatal = FALSE

(* A newly allocated mutex is one nobody refers to; a mutex that nobody    *)
(* refers to any more is collected, locked or not.                         *)
Unreferenced == Mutexes \ ({map, seen} \cup {val[w] : w \in Workers})

(* mu.Unlock() of a mutex that is not locked ends the process. *)
MutexUnlock(m) ==
  /\ locked' = locked \ {m}
  /\ fatal' = (m \notin locked)

(* Mutant: Store instead of LoadOrStore. *)
StoreFresh(w) ==
  /\ ~fatal /\ pc[w] = "idle" /\ Unreferenced # {}
  /\ LET m == CHOOSE x \in Unreferenced : TRUE IN
       map' = m /\ val' = [val EXCEPT ![w] = m] /\ locked' = locked \ {m}
  /\ pc' = [pc EXCEPT ![w] = "locking"]
  /\ UNCHANGED <<exists, cleaner, seen, removed, fatal>>

(* lockFile: LoadOrStore ... *)
LoadOrStore(w) ==
  /\ ~fatal /\ pc[w] = "idle"
  /\ IF map # NoMutex
       THEN val' = [val EXCEPT ![w] = map] /\ UNCHANGED <<map, locked>>
       ELSE /\ Unreferenced # {}
            /\ LET m == CHOOSE x \in Unreferenced : TRUE IN
                 /\ map' = m /\ val' = [val EXCEPT ![w] = m]
                 /\ locked' = locked \ {m}
  /\ pc' = [pc EXCEPT ![w] = "locking"]
  /\ UNCHANGED <<exists, cleaner, seen, removed, fatal>>

(* ... and mu.Lock(). *)
LockFile(w) ==
  /\ ~fatal /\ pc[w] = "locking" /\ val[w] \notin locked
  /\ locked' = locked \cup {val[w]}
  /\ pc' = [pc EXCEPT ![w] = "holding"]
  /\ UNCHANGED <<map, val, exists, cleaner, seen, removed, fatal>>

(* The operation creates or deletes the file, or fails. *)
Operate(w) ==
  /\ ~fatal /\ pc[w] = "holding"
  /\ exists' \in BOOLEAN
  /\ pc' = [pc EXCEPT ![w] = "done"]
  /\ UNCHANGED <<map, locked, val, cleaner, seen, removed, fatal>>

(* unlockFile: the mutex is loaded from the map again ... *)
LoadForUnlock(w) ==
  /\ ~fatal /\ pc[w] = "done"
  /\ pc' = [pc EXCEPT ![w] = IF map = NoMutex THEN "idle" ELSE "unlocking"]
  /\ val' = [val EXCEPT ![w] = map]
  /\ UNCHANGED <<map, locked, exists, cleaner, seen, removed, fatal>>

(* ... and unlocked. *)
UnlockFile(w) ==
  /\ ~fatal /\ pc[w] = "unlocking"
  /\ MutexUnlock(val[w])
  /\ pc' = [pc EXCEPT ![w] = "idle"]
  /\ val' = [val EXCEPT ![w] = NoMutex]
  /\ UNCHANGED <<map, exists, cleaner, seen, removed>>

(* CleanFileLocks: TryLock; a locked mutex is skipped. *)
CleanTryLock ==
  /\ ~fatal /\ cleaner = "idle" /\ map # NoMutex /\ map \notin locked
  /\ seen' = map /\ locked' = locked \cup {map}
  /\ cleaner' = "unlocking"
  /\ UNCHANGED <<map, pc, val, exists, removed, fatal>>

(* Mutant: the probe keeps the mutex. *)
CleanKeepLocked ==
  /\ ~fatal /\ cleaner = "unlocking" /\ cleaner' = "checking"
  /\ UNCHANGED <<map, locked, pc, val, exists, seen, removed, fatal>>

CleanUnlock ==
  /\ ~fatal /\ cleaner = "unlocking"
  /\ MutexUnlock(seen)
  /\ cleaner' = "checking"
  /\ UNCHANGED <<map, pc, val, exists, seen, removed>>

(* fm.Exists also answers false when the query fails. *)
CleanCheck ==
  /\ ~fatal /\ cleaner = "checking"
  /\ \/ exists /\ cleaner' = "idle" /\ seen' = NoMutex
     \/ cleaner' = "deleting" /\ UNCHANGED seen
  /\ UNCHANGED <<map, locked, pc, val, exists, removed, fatal>>

CleanDelete ==
  /\ ~fatal /\ cleaner = "deleting"
  /\ map' = NoMutex /\ removed' = TRUE
  /\ cleaner' = "idle" /\ seen' = NoMutex
  /\ UNCHANGED <<locked, pc, val, exists, fatal>>

WorkerStep(w) ==
  LoadOrStore(w) \/ LockFile(w) \/ Operate(w) \/ LoadForUnlock(w) \/ UnlockFile(w)
CleanStep == CleanTryLock \/ CleanUnlock \/ CleanCheck \/ CleanDelete

Next == CleanStep \/ \E w \in Workers : WorkerStep(w)

Spec == Init /\ [][Next]_vars

(* sync.Mutex is starvation free, and operations end. *)
FairSpec ==
  /\ Spec
  /\ \A w \in Workers :
       /\ SF_vars(LockFile(w))
       /\ WF_vars(Operate(w) \/ LoadForUnlock(w) \/ UnlockFile(w))
  /\ WF_vars(CleanUnlock)

-----------------------------------------------------------------------------
(* The variables keep their types: what is locked is always a mutex of the *)
(* map's (fileLocks, manager.go).                                          *)
TypeOK ==
  /\ map \in Mutexes \cup {NoMutex} /\ seen \in Mutexes \cup {NoMutex}
  /\ locked \subseteq Mutexes
  /\ pc \in [Workers -> {"idle", "locking", "holding", "done", "unlocking"}]
  /\ val \in [Workers -> Mutexes \cup {NoMutex}]
  /\ cleaner \in {"idle", "unlocking", "checking", "deleting"}
  /\ exists \in BOOLEAN /\ removed \in BOOLEAN /\ fatal \in BOOLEAN

Inside == {w \in Workers : pc[w] \in {"holding", "done", "unlocking"}}

(***************************************************************************)
(* The comment of CleanFileLocks (manager.go:403-404): when TryLock        *)
(* succeeds no goroutine holds the lock and the entry can be deleted       *)
(* safely; skipping the others avoids lock escape.  So never are two       *)
(* goroutines between lockFile and the end of unlockFile.                  *)
(***************************************************************************)
NoLockEscape == \A v, w \in Inside : v = w

(***************************************************************************)
(* As long as CleanFileLocks has not removed an entry, lockFile and        *)
(* unlockFile exclude each other and unlock only what they locked, even    *)
(* though unlockFile looks the mutex up again, and even while the cleaner  *)
(* probes the mutex with TryLock.                                          *)
(***************************************************************************)
SoundUntilRemoved == ~removed => NoLockEscape /\ ~fatal

(***************************************************************************)
(* A goroutine that waits for the file's mutex gets it, as long as the     *)
(* cleaner removes nothing.                                                *)
(***************************************************************************)
WaiterServed ==
  \A w \in Workers : pc[w] = "locking" ~> (pc[w] = "holding" \/ removed)
=============================================================================
