--------------------------- MODULE UploadSession ---------------------------
(***************************************************************************)
(* One sequential upload session of internal/service/transfer/service.go:  *)
(* UploadChunk with its incremental hash, CompleteUpload up to the write   *)
(* to storage and the metadata, AbortUpload, the expiry of                 *)
(* CleanupExpiredSessions, and the restoring of a session from the session *)
(* store, on one instance or on several that share the store and the temp  *)
(* directory (SetTempDir).                                                 *)
(*                                                                         *)
(* The file has N chunks.  A chunk's content is "good" (what the client    *)
(* means to upload) or "bad" (damaged on its way); a chunk never written   *)
(* is a hole of the pre-allocated file.  The declared hash is that of the  *)
(* all-good content, and hashes do not collide.                            *)
(***************************************************************************)
EXTENDS Integers, Sequences

CONSTANTS
  AllInstances,  \* server processes
  Home,          \* the one that created the session
  Requests,      \* handler goroutines
  Objects,       \* in-memory UploadSession values
  Settings,      \* deployments and clients, see below
  None

VARIABLES
  setting,  \* the deployment and its client; never changes
  temp,     \* content of the temp file's inode
  where,    \* its name: "temp" path, "stored" (renamed into storage) or "gone"
  copy,     \* content of the stored object when it was copied or encrypted
  row,      \* the file has a metadata row
  session,  \* the UploadSession values
  map,      \* uploadSessions of each instance
  count,    \* sessionCount of each instance
  store,    \* UploadedSize in the session store, None without an entry
  lock,     \* holder of the distributed lock "upload:<id>"
  flock,    \* holder of the distributed lock "file:<path>"
  pc, at, kind, val, arg, snap,  \* per request: program counter and locals
  done      \* some CompleteUpload returned success

vars == <<setting, temp, where, copy, row, session, map, count, store, lock, flock,
          pc, at, kind, val, arg, snap, done>>
files == <<temp, where, copy, row>>
locks == <<lock, flock>>
locals == <<at, kind, val, arg, snap>>

Instances == setting.instances        \* those that share the store and the temp directory
N == setting.n                        \* TotalSize, in chunks
PersistEvery == setting.persistEvery  \* the store is updated every so many chunks (8)
Data == setting.data                  \* what a chunk may contain
HashGiven == setting.hashGiven        \* the client declared a hash
Encrypt == setting.encrypt            \* encryption at rest is enabled
Kinds == setting.kinds                \* the requests and events that occur, see Next
FailedWrites == setting.failedWrites  \* effects of a WriteAt that fails: "lost", "partial"
Client == setting.client              \* "free", or "resuming": one chunk at a time, from the reported progress
Overlap == setting.overlap            \* a chunk may be in flight when CompleteUpload runs
MaxSize == setting.maxSize            \* bound: no chunk is sent to a session that counts more
MaxDrops == setting.maxDrops          \* bound: other requests go to instances whose count exceeds -maxDrops

Setting ==
  [instances : SUBSET AllInstances, n : Nat \ {0}, persistEvery : Nat \ {0},
   data : {{"good"}, {"good", "bad"}}, hashGiven : BOOLEAN, encrypt : BOOLEAN,
   kinds : SUBSET {"chunk", "complete", "abort", "cleanup", "crash"},
   failedWrites : SUBSET {"lost", "partial"}, client : {"free", "resuming"},
   overlap : BOOLEAN, maxSize : Nat, maxDrops : Nat]

ASSUME UploadConstants ==
  /\ Settings \subseteq Setting
  /\ \A x \in Settings : Home \in x.instances /\ None \notin [0 .. x.n - 1 -> {"hole"} \cup x.data]
  /\ Objects # {} /\ None \notin Objects /\ None \notin Requests

Chunks == 0 .. N - 1
Content == [Chunks -> {"hole"} \cup Data]
Good == [k \in Chunks |-> "good"]

NewSession(size, hasher, open) ==
  [size |-> size, chunks |-> 0, hasher |-> hasher, valid |-> hasher,
   hashed |-> <<>>, open |-> open, closed |-> FALSE]

(* CreateUploadSession has run on Home; storing the session may have failed. *)
Init ==
  /\ setting \in Settings
  /\ temp = [k \in Chunks |-> "hole"] /\ where = "temp" /\ copy = None
  /\ row \in BOOLEAN
  /\ LET first == CHOOSE o \in Objects : TRUE IN
       /\ session = [o \in Objects |-> NewSession(0, HashGiven, TRUE)]
       /\ map = [i \in Instances |-> IF i = Home THEN first ELSE None]
  /\ count = [i \in Instances |-> IF i = Home THEN 1 ELSE 0]
  /\ store \in {0, None}
  /\ lock = None /\ flock = None
  /\ pc = [r \in Requests |-> "idle"]
  /\ at = [r \in Requests |-> Home] /\ kind = [r \in Requests |-> "none"]
  /\ val = [r \in Requests |-> None] /\ arg = [r \in Requests |-> <<0, "good">>]
  /\ snap = [r \in Requests |-> None]
  /\ done = FALSE

Goto(r, label) == pc' = [pc EXCEPT ![r] = label] /\ UNCHANGED setting
Object(r) == session[val[r]]
InFlight(k) == \E r \in Requests : pc[r] # "idle" /\ kind[r] = k

(* The request is over; it forgets its locals. *)
Return(r) ==
  /\ Goto(r, "idle")
  /\ val' = [val EXCEPT ![r] = None] /\ snap' = [snap EXCEPT ![r] = None]
  /\ arg' = [arg EXCEPT ![r] = <<0, "good">>] /\ kind' = [kind EXCEPT ![r] = "none"]
  /\ at' = [at EXCEPT ![r] = Home]

(* Mutant: the slot is not released. *)
DropKeepsSlot(r) == map' = [map EXCEPT ![at[r]] = None] /\ UNCHANGED count

(* uploadSessions.Delete(sessionID) and releaseSessionSlot(). *)
Drop(r) ==
  /\ map' = [map EXCEPT ![at[r]] = None]
  /\ count' = [count EXCEPT ![at[r]] = @ - 1]

(* os.Remove of the temp path *)
RemoveTemp == where' = IF where = "temp" THEN "gone" ELSE where

-----------------------------------------------------------------------------
(* What the client of the session sends.  A resuming client asks for the   *)
(* progress (GetUploadSession) and goes on from there.  Completions may    *)
(* overlap, but for encrypted ones, which would share the ".enc" file.     *)
Progress(i) == IF map[i] # None THEN session[map[i]].size ELSE store

MaySend(k, i, c) ==
  /\ k \in {"chunk", "complete"} /\ ~Overlap => ~InFlight("chunk")
  /\ (k = "chunk" /\ ~Overlap) \/ (k = "complete" /\ Encrypt) => ~InFlight("complete")
  /\ k = "chunk" /\ Client = "resuming" => ~InFlight("chunk") /\ c = Progress(i)
  /\ IF k = "chunk" THEN Progress(i) \in 0 .. MaxSize ELSE count[i] > -MaxDrops

(* A request arrives and loads the session; a chunk or a completion that   *)
(* misses reads it from the session store.                                 *)
Start(r, k, i, c, d) ==
  /\ pc[r] = "idle" /\ MaySend(k, i, c)
  /\ \/ map[i] # None /\ Goto(r, k) /\ val' = [val EXCEPT ![r] = map[i]] /\ UNCHANGED snap
     \/ /\ map[i] = None /\ k \in {"chunk", "complete"} /\ store # None
        /\ Goto(r, "restore") /\ snap' = [snap EXCEPT ![r] = store] /\ UNCHANGED val
  /\ at' = [at EXCEPT ![r] = i] /\ kind' = [kind EXCEPT ![r] = k]
  /\ arg' = [arg EXCEPT ![r] = <<c, d>>]
  /\ UNCHANGED <<files, session, map, count, store, locks, done>>

Unreferenced == Objects \ ({map[i] : i \in Instances} \cup {val[r] : r \in Requests})

(* The restored copy has no hasher; LoadOrStore keeps the first copy. *)
Restore(r) ==
  /\ pc[r] = "restore" /\ Goto(r, kind[r])
  /\ IF map[at[r]] # None
       THEN val' = [val EXCEPT ![r] = map[at[r]]] /\ UNCHANGED <<map, session>>
       ELSE /\ Unreferenced # {}
            /\ LET o == CHOOSE x \in Unreferenced : TRUE IN
                 /\ session' = [session EXCEPT ![o] = NewSession(snap[r], FALSE, where = "temp")]
                 /\ map' = [map EXCEPT ![at[r]] = o]
                 /\ val' = [val EXCEPT ![r] = o]
  /\ snap' = [snap EXCEPT ![r] = None]
  /\ UNCHANGED <<files, count, store, locks, at, kind, arg, done>>

-----------------------------------------------------------------------------
(* UploadChunk: the distributed lock of the session, or an error. *)
ChunkLock(r) ==
  /\ pc[r] = "chunk"
  /\ \/ lock = None /\ lock' = r /\ Goto(r, "check") /\ UNCHANGED locals
     \/ lock # None /\ Return(r) /\ UNCHANGED lock
  /\ UNCHANGED <<files, session, map, count, store, flock, done>>

(* Closed session, or an offset beyond the file: an error. *)
ChunkCheck(r) ==
  /\ pc[r] = "check"
  /\ IF Object(r).closed \/ arg[r][1] + 1 > N
       THEN Return(r) /\ lock' = None
       ELSE Goto(r, "write") /\ UNCHANGED <<lock, locals>>
  /\ UNCHANGED <<files, session, map, count, store, flock, done>>

(* A session whose handle is closed has its temp file opened by path. *)
ChunkOpen(r) ==
  /\ pc[r] = "write" /\ ~Object(r).open
  /\ IF where = "temp" THEN Goto(r, "opened") /\ UNCHANGED <<lock, locals>>
                       ELSE Return(r) /\ lock' = None
  /\ UNCHANGED <<files, session, map, count, store, flock, done>>

Written(r) == [temp EXCEPT ![arg[r][1]] = arg[r][2]]

(* WriteAt, through the session's handle or the one just opened; a handle  *)
(* writes to its inode wherever that has been moved.                       *)
ChunkWrite(r) ==
  /\ pc[r] = "opened" \/ (pc[r] = "write" /\ Object(r).open)
  /\ \/ temp' = Written(r) /\ Goto(r, "hash") /\ UNCHANGED <<lock, locals>>
     \/ /\ \E e \in FailedWrites : temp' = IF e = "lost" THEN temp ELSE Written(r)
        /\ Return(r) /\ lock' = None
  /\ UNCHANGED <<where, copy, row, session, map, count, store, flock, done>>

(* Mutant: the order of the chunks is not looked at. *)
HashedAnyOrder(s, k, d) == IF s.hasher /\ s.valid THEN [s EXCEPT !.hashed = Append(@, d)] ELSE s

(* The hash follows the file as long as chunks come in order. *)
Hashed(s, k, d) ==
  IF ~(s.hasher /\ s.valid) THEN s
  ELSE IF k = Len(s.hashed) THEN [s EXCEPT !.hashed = Append(@, d)]
  ELSE [s EXCEPT !.valid = FALSE]

ChunkHash(r) ==
  /\ pc[r] = "hash" /\ Goto(r, "count")
  /\ session' = [session EXCEPT ![val[r]] = Hashed(@, arg[r][1], arg[r][2])]
  /\ UNCHANGED <<files, map, count, store, locks, locals, done>>

(* UploadedSize and chunkCount; every PersistEvery chunks the store. *)
ChunkCount(r) ==
  /\ pc[r] = "count"
  /\ session' = [session EXCEPT ![val[r]].size = @ + 1,
                                ![val[r]].chunks = (@ + 1) % PersistEvery]
  /\ IF session'[val[r]].chunks = 0
       THEN Goto(r, "persist") /\ UNCHANGED <<lock, locals>>
       ELSE Return(r) /\ lock' = None
  /\ UNCHANGED <<files, map, count, store, flock, done>>

(* Mutant: the chunk after this one is reported too. *)
PersistAhead(r) ==
  /\ pc[r] = "persist"
  /\ store' \in {store, Object(r).size + 1}
  /\ Return(r) /\ lock' = None
  /\ UNCHANGED <<files, session, map, count, flock, done>>

ChunkPersist(r) ==
  /\ pc[r] = "persist"
  /\ store' \in {store, Object(r).size}
  /\ Return(r) /\ lock' = None
  /\ UNCHANGED <<files, session, map, count, flock, done>>

-----------------------------------------------------------------------------
(* CompleteUpload: the counter must match, then the session is closed. *)
CompleteCheck(r) ==
  /\ pc[r] = "complete"
  /\ IF Object(r).size # N
       THEN Return(r) /\ UNCHANGED session
       ELSE /\ session' = [session EXCEPT ![val[r]].closed = TRUE]
            /\ Goto(r, "close") /\ UNCHANGED locals
  /\ UNCHANGED <<files, map, count, store, locks, done>>

(* tempFileMu is free: no chunk of this session value is writing. *)
TempFileMuFree(o) == \A q \in Requests : ~(pc[q] = "opened" /\ val[q] = o)

(* Sync and Close; Sync fails: the temp file is removed; Close fails: not. *)
CompleteClose(r) ==
  /\ pc[r] = "close" /\ TempFileMuFree(val[r])
  /\ session' = [session EXCEPT ![val[r]].open = FALSE]
  /\ \/ Goto(r, "verify") /\ UNCHANGED <<where, map, count, locals>>
     \/ Object(r).open /\ Drop(r) /\ Return(r) /\ (RemoveTemp \/ UNCHANGED where)
  /\ UNCHANGED <<temp, copy, row, store, locks, done>>

(* Mutant: without a valid incremental hash nothing is read again. *)
ComputedOnTheWay(s) ==
  IF s.hasher /\ s.valid THEN [k \in Chunks |-> IF k < Len(s.hashed) THEN s.hashed[k + 1] ELSE "hole"]
  ELSE Good

(* The content whose hash is compared: what was hashed on the way, or the  *)
(* file read again; None when there is no file to read.                    *)
Computed(s) ==
  IF s.hasher /\ s.valid THEN [k \in Chunks |-> IF k < Len(s.hashed) THEN s.hashed[k + 1] ELSE "hole"]
  ELSE IF where = "temp" THEN temp ELSE None

CompleteVerify(r) ==
  /\ pc[r] = "verify"
  /\ IF HashGiven => Computed(Object(r)) = Good
       THEN Goto(r, IF Encrypt THEN "encrypt" ELSE "lock") /\ UNCHANGED <<where, map, count, locals>>
       ELSE RemoveTemp /\ Drop(r) /\ Return(r)
  /\ UNCHANGED <<temp, copy, row, session, store, locks, done>>

(* EncryptFile to a second temp file; the plain one is removed either way. *)
CompleteEncrypt(r) ==
  /\ pc[r] = "encrypt" /\ RemoveTemp
  /\ \/ where = "temp" /\ snap' = [snap EXCEPT ![r] = temp] /\ Goto(r, "lock")
        /\ UNCHANGED <<map, count, at, kind, val, arg>>
     \/ Drop(r) /\ Return(r)
  /\ UNCHANGED <<temp, copy, row, session, store, locks, done>>

(* The lock of the file; without it the temp file is removed. *)
CompleteLock(r) ==
  /\ pc[r] = "lock"
  /\ \/ flock = None /\ flock' = r /\ Goto(r, "move") /\ UNCHANGED <<where, map, count, locals>>
     \/ RemoveTemp /\ Drop(r) /\ Return(r) /\ UNCHANGED flock
  /\ UNCHANGED <<temp, copy, row, session, store, lock, done>>

(* storage.WriteFromTempFile of LocalStorage: a rename, or, when that      *)
(* fails, a copy, which may fail after it has written.                     *)
WriteFromTempFile(r) ==
  {[ok |-> FALSE, where |-> where, copy |-> copy]}
    \cup (IF Encrypt THEN {[ok |-> b, where |-> where, copy |-> snap[r]] : b \in BOOLEAN}
          ELSE IF where = "temp" THEN {[ok |-> TRUE, where |-> "stored", copy |-> None],
                                       [ok |-> TRUE, where |-> "gone", copy |-> temp],
                                       [ok |-> FALSE, where |-> where, copy |-> temp]}
          ELSE {})

(* On an error the temp file is removed. *)
CompleteMove(r) ==
  /\ pc[r] = "move"
  /\ \E w \in WriteFromTempFile(r) :
       /\ copy' = w.copy
       /\ IF w.ok THEN where' = w.where /\ Goto(r, "meta") /\ UNCHANGED <<map, count, flock, locals>>
                  ELSE RemoveTemp /\ Drop(r) /\ Return(r) /\ flock' = None
  /\ UNCHANGED <<temp, row, session, store, lock, done>>

(* The metadata row is updated or created.  A failed Update leaves the     *)
(* object; a failed Create, which also follows when the lookup of an       *)
(* existing row fails, removes it again.                                   *)
CompleteMeta(r) ==
  /\ pc[r] = "meta"
  /\ \/ row' = TRUE /\ Goto(r, "finish") /\ UNCHANGED <<where, copy, map, count, flock, locals>>
     \/ row /\ Drop(r) /\ Return(r) /\ flock' = None /\ UNCHANGED <<where, copy, row>>
     \/ /\ copy' = None /\ where' = IF where = "stored" THEN "gone" ELSE where
        /\ Drop(r) /\ Return(r) /\ flock' = None /\ UNCHANGED row
  /\ UNCHANGED <<temp, session, store, lock, done>>

CompleteFinish(r) ==
  /\ pc[r] = "finish"
  /\ Drop(r) /\ RemoveTemp /\ Goto(r, "unstore") /\ done' = TRUE
  /\ UNCHANGED <<temp, copy, row, session, store, locks, locals>>

-----------------------------------------------------------------------------
(* AbortUpload and the expiry of CleanupExpiredSessions close the session, *)
(* and then drop it and remove the temp file, in different order.          *)
AbortClose(r) ==
  /\ pc[r] \in {"abort", "cleanup"} /\ TempFileMuFree(val[r])
  /\ session' = [session EXCEPT ![val[r]].closed = TRUE, ![val[r]].open = FALSE]
  /\ Goto(r, IF kind[r] = "abort" THEN "drop" ELSE "remove")
  /\ UNCHANGED <<files, map, count, store, locks, locals, done>>

AbortDrop(r) ==
  /\ pc[r] = "drop" /\ Drop(r)
  /\ Goto(r, IF kind[r] = "abort" THEN "remove" ELSE "unstore")
  /\ UNCHANGED <<files, session, store, locks, locals, done>>

AbortRemove(r) ==
  /\ pc[r] = "remove" /\ RemoveTemp
  /\ Goto(r, IF kind[r] = "abort" THEN "unstore" ELSE "drop")
  /\ UNCHANGED <<temp, copy, row, session, map, count, store, locks, locals, done>>

(* sessionStore.Delete, which may fail, ends all three. *)
Unstore(r) ==
  /\ pc[r] = "unstore"
  /\ store' \in {store, None}
  /\ Return(r) /\ flock' = IF flock = r THEN None ELSE flock
  /\ UNCHANGED <<files, session, map, count, lock, done>>

(* The process dies: its memory is lost, its locks expire.  A session in   *)
(* the store and its temp file survive.                                    *)
Crash(i) ==
  LET mine == {r \in Requests : pc[r] # "idle" /\ at[r] = i}
      keep(f, none) == [r \in Requests |-> IF r \in mine THEN none ELSE f[r]] IN
  /\ "crash" \in Kinds
  /\ map' = [map EXCEPT ![i] = None] /\ count' = [count EXCEPT ![i] = 0]
  /\ pc' = keep(pc, "idle") /\ at' = keep(at, Home) /\ kind' = keep(kind, "none")
  /\ val' = keep(val, None) /\ arg' = keep(arg, <<0, "good">>) /\ snap' = keep(snap, None)
  /\ lock' = (IF lock \in mine THEN None ELSE lock)
  /\ flock' = (IF flock \in mine THEN None ELSE flock)
  /\ UNCHANGED <<setting, files, session, store, done>>

ChunkStep(r) ==
  ChunkLock(r) \/ ChunkCheck(r) \/ ChunkOpen(r) \/ ChunkWrite(r) \/ ChunkHash(r)
  \/ ChunkCount(r) \/ ChunkPersist(r)
CompleteStep(r) ==
  CompleteCheck(r) \/ CompleteClose(r) \/ CompleteVerify(r) \/ CompleteEncrypt(r)
  \/ CompleteLock(r) \/ CompleteMove(r) \/ CompleteMeta(r) \/ CompleteFinish(r)
AbortStep(r) == AbortClose(r) \/ AbortDrop(r) \/ AbortRemove(r)

Next ==
  \/ \E r \in Requests :
       \/ \E i \in Instances, c \in 0 .. N, d \in Data : "chunk" \in Kinds /\ Start(r, "chunk", i, c, d)
       \/ \E i \in Instances, k \in Kinds \ {"chunk", "crash"} : Start(r, k, i, 0, "good")
       \/ Restore(r) \/ ChunkStep(r) \/ CompleteStep(r) \/ AbortStep(r) \/ Unstore(r)
  \/ \E i \in Instances : Crash(i)

Spec == Init /\ [][Next]_vars

-----------------------------------------------------------------------------
SessionValue ==
  [size : Nat, chunks : 0 .. PersistEvery - 1, hasher : BOOLEAN, valid : BOOLEAN, hashed : Seq(Data),
   open : BOOLEAN, closed : BOOLEAN]

Label == {"idle", "restore", "chunk", "check", "write", "opened", "hash", "count", "persist", "complete",
          "close", "verify", "encrypt", "lock", "move", "meta", "finish", "abort", "cleanup", "drop",
          "remove", "unstore"}

(* The variables keep their types; the incremental hash never covers more  *)
(* than the file (UploadSession, service.go).                              *)
TypeOK ==
  /\ setting \in Settings
  /\ temp \in Content /\ where \in {"temp", "stored", "gone"}
  /\ copy \in Content \cup {None} /\ row \in BOOLEAN
  /\ session \in [Objects -> SessionValue] /\ \A o \in Objects : Len(session[o].hashed) <= N
  /\ map \in [Instances -> Objects \cup {None}] /\ count \in [Instances -> Int]
  /\ store \in Nat \cup {None}
  /\ lock \in Requests \cup {None} /\ flock \in Requests \cup {None}
  /\ pc \in [Requests -> Label] /\ at \in [Requests -> Instances]
  /\ kind \in [Requests -> Label \cup {"none"}] /\ val \in [Requests -> Objects \cup {None}]
  /\ arg \in [Requests -> (0 .. N) \X Data]
  /\ \A r \in Requests : snap[r] # None => IF pc[r] = "restore" THEN snap[r] \in Nat ELSE snap[r] \in Content
  /\ done \in BOOLEAN

(* What a reader of the file finds in storage. *)
Stored == IF where = "stored" THEN temp ELSE copy

(* When CompleteUpload can vouch for what it stores: a hash was declared,  *)
(* and no chunk is damaged, or chunks and completions take turns on one    *)
(* instance, whose failed writes leave nothing behind; or, without a hash, *)
(* the client fills the file in order, one request at a time.              *)
Trusted ==
  \/ HashGiven /\ Data = {"good"}
  \/ HashGiven /\ Instances = {Home} /\ ~Overlap /\ "partial" \notin FailedWrites
  \/ ~HashGiven /\ Client = "resuming" /\ ~Overlap

(***************************************************************************)
(* A successful CompleteUpload stored a file without holes, and "When the  *)
(* client supplied a hash the computed hash MUST match, otherwise the      *)
(* upload is rejected" (service.go:395-398): it then is the content the    *)
(* client declared, and stays it.                                          *)
(***************************************************************************)
CommittedIntact ==
  Trusted /\ done => /\ Stored # None /\ \A k \in Chunks : Stored[k] # "hole"
                     /\ HashGiven => Stored = Good

(***************************************************************************)
(* On one instance whose failed writes leave nothing behind: while no      *)
(* chunk is between its write and its hash, a valid incremental hash is    *)
(* the hash of the first chunks of the file, in whatever order chunks came.*)
(***************************************************************************)
IncrementalHashExact ==
  Instances = {Home} /\ "partial" \notin FailedWrites =>
    LET s == session[map[Home]] IN
      map[Home] # None /\ s.hasher /\ s.valid /\ (\A r \in Requests : pc[r] # "hash")
        => \A k \in 1 .. Len(s.hashed) : s.hashed[k] = temp[k - 1]

(***************************************************************************)
(* The progress reported to a client that resumes, from memory or after a  *)
(* restart from the store, never exceeds what is in the temp file, as long *)
(* as the client has no completion under way while it sends chunks.        *)
(***************************************************************************)
ProgressCovered ==
  Client = "resuming" /\ ~Overlap /\ where = "temp" =>
    \A i \in Instances : Progress(i) # None =>
      \A k \in Chunks : k < Progress(i) => temp[k] # "hole"

(***************************************************************************)
(* ISSUES.md #9: every way a session ends releases its slot: an instance   *)
(* holds no slot for a session that is no longer in its map.               *)
(***************************************************************************)
NoSlotLeak == \A i \in Instances : map[i] = None => count[i] <= 0
=============================================================================
