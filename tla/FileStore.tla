----------------------------- MODULE FileStore -----------------------------
(***************************************************************************)
(* Files as the service keeps them: an object in storage and a row of the  *)
(* files table, changed one after the other by UploadFile,                 *)
(* UploadFileFromReader (CompleteUpload ends the same way), DeleteFile and *)
(* RenameFile of internal/service/filemanager/manager.go under the lock of *)
(* the path, and by CleanupService of internal/database/cleanup.go, which  *)
(* takes no lock.  internal/database/metadata.go gives the meaning of the  *)
(* statements: path is UNIQUE, soft-deleted rows included, Update and      *)
(* Remove go by id, and Create gives a soft-deleted row of the path a new  *)
(* id.                                                                     *)
(*                                                                         *)
(* A content is its own hash.  The mutex and the distributed lock of a     *)
(* path are one lock here: FileLocks and DistLock tell when they exclude.  *)
(***************************************************************************)
EXTENDS Naturals

CONSTANTS
  Workers,        \* requests, on any instance
  Paths, Contents,
  Ids,            \* UUIDs of rows
  Settings,       \* what clients send and what fails, see below
  None

VARIABLES
  setting,  \* never changes
  object,   \* storage: the content under each path
  row,      \* files table, by its UNIQUE path
  lock,     \* holder of the lock of each path
  pc, op,   \* per worker: program counter and arguments
  meta,     \* per worker: the row it has read
  list,     \* CleanupService: the deleted rows still to remove
  purging   \* ... the one whose object is removed

vars == <<setting, object, row, lock, pc, op, meta, list, purging>>
cleanup == <<list, purging>>

Kinds == setting.kinds                  \* the requests that occur
Faults == setting.faults                \* calls that may fail, and "crash"
SharedTargets == setting.sharedTargets  \* a rename's new path may be in use by others
Reuploads == setting.reuploads          \* the cleanup may meet a path in use

Setting ==
  [kinds : SUBSET {"upload", "stream", "delete", "rename"},
   faults : SUBSET {"query", "write", "create", "update", "remove", "move", "crash"},
   paths : SUBSET Paths, contents : SUBSET Contents,
   sharedTargets : BOOLEAN, reuploads : BOOLEAN]

Row == [id : Ids, hash : Contents, deleted : BOOLEAN, old : BOOLEAN]

Sent == [kind : {"upload", "stream", "delete", "rename"}, path : Paths, target : Paths, data : Contents]

ASSUME StoreConstants ==
  Settings \subseteq Setting /\ None \notin Contents \cup Ids \cup Workers \cup Row \cup Sent \cup {"torn"}

Op == [kind : Kinds, path : setting.paths, target : setting.paths, data : setting.contents]
Live(p) == row[p] # None /\ ~row[p].deleted

Init ==
  /\ setting \in Settings
  /\ object = [p \in Paths |-> None] /\ row = [p \in Paths |-> None]
  /\ lock = [p \in Paths |-> None]
  /\ pc = [w \in Workers |-> "idle"] /\ op = [w \in Workers |-> None]
  /\ meta = [w \in Workers |-> None]
  /\ list = {} /\ purging = None

Path(w) == op[w].path
Goto(w, label) == pc' = [pc EXCEPT ![w] = label] /\ UNCHANGED setting

(* The deferred unlocks *)
Return(w) ==
  /\ Goto(w, "idle")
  /\ lock' = [lock EXCEPT ![Path(w)] = IF @ = w THEN None ELSE @]
  /\ op' = [op EXCEPT ![w] = None] /\ meta' = [meta EXCEPT ![w] = None]

Continue(w, label) == Goto(w, label) /\ UNCHANGED <<lock, op, meta>>

-----------------------------------------------------------------------------
(* The statements of FileMetadataService *)

(* GetByPath and Exists see live rows; a query that fails is taken for "no row". *)
Found(p) == {IF Live(p) THEN row[p] ELSE None} \cup (IF "query" \in Faults THEN {None} ELSE {})

HasId(p, id) == row[p] # None /\ row[p].id = id

(* UPDATE files SET path, hash, is_deleted = FALSE WHERE id: the new path must be free. *)
Conflict(id, q) == \E p \in Paths : HasId(p, id) /\ p # q /\ row[q] # None

Updated(id, q, hash) ==
  IF \E p \in Paths : HasId(p, id)
    THEN [x \in Paths |-> IF x = q THEN [id |-> id, hash |-> hash, deleted |-> FALSE, old |-> FALSE]
                          ELSE IF HasId(x, id) THEN None ELSE row[x]]
    ELSE row

(* UPDATE files SET is_deleted = TRUE WHERE id *)
SoftDeleted(id) ==
  [p \in Paths |-> IF HasId(p, id) THEN [row[p] EXCEPT !.deleted = TRUE, !.old = FALSE] ELSE row[p]]

(* DELETE FROM files WHERE id *)
Purged(id) == [p \in Paths |-> IF HasId(p, id) THEN None ELSE row[p]]

UsedIds ==
  {row[p].id : p \in {x \in Paths : row[x] # None}}
    \cup {meta[w].id : w \in {x \in Workers : meta[x] # None}}
    \cup {x[1] : x \in list} \cup (IF purging = None THEN {} ELSE {purging[1]})

(* A UUID is new: Ids, a bound, is large enough for that. *)
NewRow(w) ==
  [id |-> CHOOSE i \in Ids \ UsedIds : TRUE, hash |-> op[w].data, deleted |-> FALSE, old |-> FALSE]

-----------------------------------------------------------------------------
(* The calls of LocalStorage, each under the mutex of its path (local.go).  *)

(* Write and WriteFromReader truncate the file before they write: one that *)
(* fails leaves the old content or a part of the new.                      *)
Stored(p, content) == [object EXCEPT ![p] = content]
Interrupted(p) == {[object EXCEPT ![p] = content] : content \in {object[p], "torn"}}

Removed(p) == [object EXCEPT ![p] = None]
Moved(p, q) == [object EXCEPT ![q] = object[p], ![p] = None]

-----------------------------------------------------------------------------
Targeted(q) == \E w \in Workers : op[w] # None /\ op[w].kind = "rename" /\ op[w].target = q
BeingPurged(p) == \E x \in list \cup ({purging} \ {None}) : x[2] = p

(* What the clients send. *)
MaySend(o) ==
  /\ o.kind = "rename" <=> o.target # o.path
  /\ SharedTargets \/ (~Targeted(o.path) /\ (o.kind = "rename" => lock[o.target] = None
                                                                 /\ ~Targeted(o.target)))
  /\ Reuploads \/ (~BeingPurged(o.path) /\ ~BeingPurged(o.target))

(* lockFile, distLockFile: the operation starts once it has the locks of its path. *)
Begin(w, o) ==
  /\ pc[w] = "idle" /\ MaySend(o) /\ lock[o.path] = None
  /\ lock' = [lock EXCEPT ![o.path] = w]
  /\ op' = [op EXCEPT ![w] = o]
  /\ Goto(w, IF o.kind = "stream" THEN "write" ELSE "lookup")
  /\ UNCHANGED <<object, row, meta, cleanup>>

(* GetByPath: UploadFile before its write, UploadFileFromReader after;     *)
(* DeleteFile and RenameFile give up without a row.                        *)
Lookup(w) ==
  /\ pc[w] = "lookup"
  /\ \E m \in Found(Path(w)) :
       IF m = None /\ op[w].kind \in {"delete", "rename"}
         THEN Return(w)
         ELSE /\ meta' = [meta EXCEPT ![w] = m]
              /\ Goto(w, CASE op[w].kind = "upload" -> "write"
                           [] op[w].kind = "stream" -> "record"
                           [] op[w].kind = "delete" -> "remove"
                           [] op[w].kind = "rename" -> "target")
              /\ UNCHANGED <<lock, op>>
  /\ UNCHANGED <<object, row, cleanup>>

(* storage.Write or WriteFromReader *)
Write(w) ==
  /\ pc[w] = "write"
  /\ \/ /\ object' = Stored(Path(w), op[w].data)
        /\ Continue(w, IF op[w].kind = "upload" THEN "record" ELSE "lookup")
     \/ /\ "write" \in Faults
        /\ object' \in Interrupted(Path(w))
        /\ Return(w)
  /\ UNCHANGED <<row, cleanup>>

(* Mutant: an Update that fails removes the object too. *)
RecordUndoing(w) ==
  /\ pc[w] = "record"
  /\ \/ /\ meta[w] # None
        /\ \/ row' = Updated(meta[w].id, Path(w), op[w].data) /\ Return(w)
           \/ "update" \in Faults /\ Continue(w, "undo") /\ UNCHANGED row
     \/ meta[w] = None /\ UNCHANGED row /\ Continue(w, "insert")
  /\ UNCHANGED <<object, cleanup>>

(* Update of the row found, else the first statement of Create. *)
Record(w) ==
  /\ pc[w] = "record"
  /\ \/ /\ meta[w] # None /\ Return(w)
        /\ \/ row' = Updated(meta[w].id, Path(w), op[w].data)
           \/ "update" \in Faults /\ UNCHANGED row
     \/ /\ meta[w] = None /\ UNCHANGED row
        /\ \/ Continue(w, IF row[Path(w)] # None /\ row[Path(w)].deleted THEN "restore" ELSE "insert")
           \/ "query" \in Faults /\ Continue(w, "insert")
  /\ UNCHANGED <<object, cleanup>>

(* Create restores the soft-deleted row of the path, if it is still there. *)
Restore(w) ==
  /\ pc[w] = "restore"
  /\ \/ /\ row' = [row EXCEPT ![Path(w)] = IF @ = None THEN None ELSE NewRow(w)]
        /\ Ids \ UsedIds # {} /\ Return(w)
     \/ "create" \in Faults /\ Continue(w, "undo") /\ UNCHANGED row
  /\ UNCHANGED <<object, cleanup>>

Insert(w) ==
  /\ pc[w] = "insert"
  /\ \/ /\ row[Path(w)] = None /\ row' = [row EXCEPT ![Path(w)] = NewRow(w)]
        /\ Ids \ UsedIds # {} /\ Return(w)
     \/ /\ row[Path(w)] # None \/ "create" \in Faults
        /\ Continue(w, "undo") /\ UNCHANGED row
  /\ UNCHANGED <<object, cleanup>>

(* Create failed: storage.Remove *)
Undo(w) ==
  /\ pc[w] = "undo" /\ Return(w)
  /\ \/ object' = Removed(Path(w))
     \/ "remove" \in Faults /\ UNCHANGED object
  /\ UNCHANGED <<row, cleanup>>

-----------------------------------------------------------------------------
(* DeleteFile: the object first, which must exist, ... *)
DeleteObject(w) ==
  /\ pc[w] = "remove"
  /\ \/ /\ object[Path(w)] # None /\ object' = Removed(Path(w))
        /\ Continue(w, "unrecord")
     \/ /\ object[Path(w)] = None \/ "remove" \in Faults
        /\ Return(w) /\ UNCHANGED object
  /\ UNCHANGED <<row, cleanup>>

(* ... then the row. *)
DeleteRow(w) ==
  /\ pc[w] = "unrecord" /\ Return(w)
  /\ \/ row' = SoftDeleted(meta[w].id)
     \/ "update" \in Faults /\ UNCHANGED row
  /\ UNCHANGED <<object, cleanup>>

(* RenameFile: the new path has no file, *)
RenameCheck(w) ==
  /\ pc[w] = "target"
  /\ \E m \in Found(op[w].target) : IF m = None THEN Continue(w, "move") ELSE Return(w)
  /\ UNCHANGED <<object, row, cleanup>>

(* storage.Rename, *)
RenameObject(w) ==
  /\ pc[w] = "move"
  /\ \/ /\ object[Path(w)] # None /\ object' = Moved(Path(w), op[w].target)
        /\ Continue(w, "repath")
     \/ /\ object[Path(w)] = None \/ "move" \in Faults
        /\ Return(w) /\ UNCHANGED object
  /\ UNCHANGED <<row, cleanup>>

(* Mutant: the row gets another content's hash. *)
RenameRowRehashed(w) ==
  /\ pc[w] = "repath" /\ ~Conflict(meta[w].id, op[w].target)
  /\ row' = Updated(meta[w].id, op[w].target, op[w].data)
  /\ Return(w) /\ UNCHANGED <<object, cleanup>>

(* Update of the row as it was read, which a row of the new path refuses, *)
RenameRow(w) ==
  /\ pc[w] = "repath"
  /\ \/ /\ ~Conflict(meta[w].id, op[w].target)
        /\ row' = Updated(meta[w].id, op[w].target, meta[w].hash)
        /\ Return(w)
     \/ /\ Conflict(meta[w].id, op[w].target) \/ "update" \in Faults
        /\ Continue(w, "rollback") /\ UNCHANGED row
  /\ UNCHANGED <<object, cleanup>>

(* Mutant: the object stays under the new path. *)
NoRollback(w) == pc[w] = "rollback" /\ Return(w) /\ UNCHANGED <<object, row, cleanup>>

(* and the rename back when it failed. *)
RenameRollback(w) ==
  /\ pc[w] = "rollback" /\ Return(w)
  /\ \/ object[op[w].target] # None /\ object' = Moved(op[w].target, Path(w))
     \/ (object[op[w].target] = None \/ "move" \in Faults) /\ UNCHANGED object
  /\ UNCHANGED <<row, cleanup>>

(* The instance of the request stops; its lock runs out. *)
Crash(w) ==
  /\ "crash" \in Faults /\ pc[w] # "idle" /\ Return(w)
  /\ UNCHANGED <<object, row, cleanup>>

-----------------------------------------------------------------------------
(* The retention time of a deleted row passes. *)
Age(p) ==
  /\ row[p] # None /\ row[p].deleted /\ ~row[p].old
  /\ row' = [row EXCEPT ![p].old = TRUE]
  /\ UNCHANGED <<setting, object, lock, pc, op, meta, cleanup>>

Deleted == {p \in Paths : row[p] # None /\ row[p].deleted /\ row[p].old}

(* getDeletedFiles *)
CleanList ==
  /\ list = {} /\ purging = None
  /\ Reuploads \/ \A p \in Deleted : lock[p] = None /\ ~Targeted(p)
  /\ list' = {<<row[p].id, p>> : p \in Deleted}
  /\ UNCHANGED <<setting, object, row, lock, pc, op, meta, purging>>

(* Mutant: a missing object is an error. *)
CleanObjectStrict(x) ==
  /\ purging = None /\ x \in list /\ list' = list \ {x}
  /\ purging' = (IF object[x[2]] # None THEN x ELSE None)
  /\ object' = Removed(x[2])
  /\ UNCHANGED <<setting, row, lock, pc, op, meta>>

(* store.Remove; a missing object is no error *)
CleanObject(x) ==
  /\ purging = None /\ x \in list /\ list' = list \ {x}
  /\ \/ object' = Removed(x[2]) /\ purging' = x
     \/ "remove" \in Faults /\ UNCHANGED <<object, purging>>
  /\ UNCHANGED <<setting, row, lock, pc, op, meta>>

(* permanentlyDeleteFile *)
CleanRow ==
  /\ purging # None /\ purging' = None
  /\ \/ row' = Purged(purging[1])
     \/ "update" \in Faults /\ UNCHANGED row
  /\ UNCHANGED <<setting, object, lock, pc, op, meta, list>>

-----------------------------------------------------------------------------
Work(w) ==
  \/ Lookup(w) \/ Write(w) \/ Record(w) \/ Restore(w) \/ Insert(w) \/ Undo(w)
  \/ DeleteObject(w) \/ DeleteRow(w)
  \/ RenameCheck(w) \/ RenameObject(w) \/ RenameRow(w) \/ RenameRollback(w)

Clean == CleanList \/ (\E x \in list : CleanObject(x)) \/ CleanRow

Next ==
  \/ \E w \in Workers : (\E o \in Op : Begin(w, o)) \/ Work(w) \/ Crash(w)
  \/ \E p \in Paths : Age(p)
  \/ Clean

Spec == Init /\ [][Next]_vars

(* Requests run to their end, time passes, and the cleanup ticker ticks. *)
FairSpec ==
  /\ Spec /\ WF_vars(Clean)
  /\ \A w \in Workers : WF_vars(Work(w))
  /\ \A p \in Paths : WF_vars(Age(p))

-----------------------------------------------------------------------------
Label == {"idle", "lookup", "write", "record", "restore", "insert", "undo", "remove", "unrecord",
          "target", "move", "repath", "rollback"}

(* The variables keep their types, and no two rows share an id. *)
TypeOK ==
  /\ setting \in Settings
  /\ object \in [Paths -> Contents \cup {None, "torn"}]
  /\ row \in [Paths -> Row \cup {None}]
  /\ \A p, q \in Paths : row[p] # None /\ row[q] # None /\ p # q => row[p].id # row[q].id
  /\ lock \in [Paths -> Workers \cup {None}]
  /\ pc \in [Workers -> Label]
  /\ op \in [Workers -> Op \cup {None}] /\ meta \in [Workers -> Row \cup {None}]
  /\ list \subseteq Ids \X Paths /\ purging \in (Ids \X Paths) \cup {None}

(* No request and no cleanup is at work on the path. *)
Quiet(p) == lock[p] = None /\ ~Targeted(p) /\ ~BeingPurged(p)

(***************************************************************************)
(* Between operations the two stores agree: a path has an object exactly   *)
(* when it has a live row, and the row has the object's hash.  UploadFile, *)
(* UploadFileFromReader, DeleteFile, RenameFile and the cleanup all change *)
(* both, one after the other; nothing fails, and no request uses the new   *)
(* name of a rename or a path that is being purged.                        *)
(***************************************************************************)
StoresAgree ==
  Faults = {} /\ ~SharedTargets /\ ~Reuploads =>
    \A p \in Paths : Quiet(p) => IF Live(p) THEN object[p] = row[p].hash ELSE object[p] = None

Lost(p) == Quiet(p) /\ Live(p) /\ object[p] = None

(***************************************************************************)
(* Uploads lose no file, whatever call fails (but the lookup of the row)   *)
(* and wherever an instance stops: between operations a live row has an    *)
(* object.                                                                 *)
(***************************************************************************)
NoFileLost ==
  Kinds \subseteq {"upload", "stream"} /\ "query" \notin Faults => \A p \in Paths : ~Lost(p)

(***************************************************************************)
(* Clients see a map of files: the live rows change as whole uploads,      *)
(* deletions and renames do, and no rename replaces a file, whatever fails *)
(* and however requests and cleanup interleave.                            *)
(***************************************************************************)
Files == [p \in Paths |-> IF Live(p) THEN row[p].hash ELSE None]
Map == INSTANCE FileMap WITH files <- Files
ImplementsFileMap == Map!Spec

(***************************************************************************)
(* "CleanupService physically deletes the records" (TECH_STACK.md:67):     *)
(* every deleted row is purged, unless the file comes back, although       *)
(* clients keep deleting and uploading it.                                 *)
(***************************************************************************)
DeletedRowsPurged ==
  \A p \in Paths :
    (Reuploads /\ Faults = {} /\ row[p] # None /\ row[p].deleted) ~> (row[p] = None \/ Live(p))
=============================================================================
