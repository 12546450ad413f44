----------------------------- MODULE Directory -----------------------------
(***************************************************************************)
(* DirectoryManager of internal/service/directory/manager.go over a local  *)
(* storage: CreateDirectory, DeleteDirectory and RenameDirectory, each     *)
(* under the distributed lock "dir:<path>" of its own path, with uploads   *)
(* of files beside them, which take only "file:<path>", and with the       *)
(* cleanup service.                                                        *)
(*                                                                         *)
(* A path is a sequence of names; the tables files and directories are one *)
(* function of the path, which is UNIQUE in each.  A row's id is <<p, n>>, *)
(* where p is the path the row was made for.                               *)
(***************************************************************************)
EXTENDS Naturals, Sequences, SequencesExt

CONSTANTS
  Requests,
  FilePaths, DirPaths,
  Settings,    \* what clients send and what fails, see below
  None

Paths == FilePaths \cup DirPaths

VARIABLES
  setting,    \* never changes
  row,        \* the tables
  object,     \* storage: the files there
  phys,       \* storage: the directories there
  lock,       \* holder of the lock of each path
  pc, op,     \* per request: program counter and arguments
  snap,       \* per request: the rows it has read, <<id, path>>
  todo,       \* per request: those whose storage is still to change
  list, purging, \* the cleanup: rows to purge, and the one whose object is gone
  strays      \* history: files whose upload crashed, or wrote while the cleanup purged them

vars == <<setting, row, object, phys, lock, pc, op, snap, todo, list, purging, strays>>
storage == <<object, phys>>
cleanup == <<list, purging, strays>>

Kinds == setting.kinds      \* the requests that occur, and "cleanup"
Renames == setting.renames  \* pairs <<oldPath, newPath>> of sibling directories
Faults == setting.faults    \* "remove", "move": a storage call may fail; "commit"; "crash"
Batch == setting.batch      \* rows per deletion batch (500)
Gens == setting.gens        \* bound: distinct rows made for a path

Setting ==
  [kinds : SUBSET {"create", "delete", "rdelete", "rename", "upload", "cleanup"},
   faults : SUBSET {"remove", "move", "commit", "crash"},
   renames : SUBSET (DirPaths \X DirPaths),
   uploads : SUBSET FilePaths,                             \* the files that clients upload
   trees : SUBSET [Paths -> {"live", "deleted", "none"}],  \* the tables at first
   batch : Nat \ {0}, gens : Nat \ {0}]

ASSUME DirectoryConstants ==
  Settings \subseteq Setting /\ FilePaths \cap DirPaths = {} /\ None \notin Requests

Live(p) == row[p] # None /\ ~row[p].deleted
Under(p, d) == IsStrictPrefix(d, p)
Parents(p) == {d \in DirPaths : IsStrictPrefix(d, p)}
Renamed(p, old, new) == new \o SubSeq(p, Len(old) + 1, Len(p))
Entry(p) == <<row[p].id, p>>

(* Live files have their objects, live directories exist. *)
Init ==
  /\ setting \in Settings
  /\ \E t \in setting.trees : row = [p \in Paths |-> IF t[p] = "none" THEN None
                                           ELSE [id |-> <<p, 0>>, deleted |-> t[p] = "deleted"]]
  /\ object = {f \in FilePaths : Live(f)}
  /\ phys = {d \in DirPaths : Live(d)}
  /\ lock = [p \in Paths |-> None]
  /\ pc = [r \in Requests |-> "idle"] /\ op = [r \in Requests |-> None]
  /\ snap = [r \in Requests |-> {}] /\ todo = [r \in Requests |-> {}]
  /\ list = {} /\ purging = None /\ strays = {}

UsedIds ==
  {row[p].id : p \in {x \in Paths : row[x] # None}} \cup {e[1] : e \in list}
    \cup UNION {{e[1] : e \in snap[r] \cup todo[r]} : r \in Requests}
    \cup (IF purging = None THEN {} ELSE {purging[1]})

FreshIds(p) == ({p} \X (0 .. Gens - 1)) \ UsedIds
Fresh(p) == [id |-> CHOOSE i \in FreshIds(p) : TRUE, deleted |-> FALSE]

HasId(p, id) == row[p] # None /\ row[p].id = id

(* UPDATE ... SET is_deleted = TRUE WHERE id, for each of a set of rows *)
SoftDeleted(entries) ==
  [p \in Paths |-> IF \E e \in entries : HasId(p, e[1]) THEN [row[p] EXCEPT !.deleted = TRUE] ELSE row[p]]

(* storage.CreateDirectory is MkdirAll, RemoveDirectory is RemoveAll, and   *)
(* Rename of a directory needs an empty target.                             *)
Made(d) == phys \cup {d} \cup Parents(d)
WithoutTree(set, d) == {p \in set : p # d /\ ~Under(p, d)}
MovedTree(set, old, new) ==
  WithoutTree(set, old) \cup {Renamed(p, old, new) : p \in {x \in set : x = old \/ Under(x, old)}}
EmptyTree(d) == \A p \in object \cup phys : ~Under(p, d)

-----------------------------------------------------------------------------
Path(r) == op[r].path
Goto(r, label) == pc' = [pc EXCEPT ![r] = label] /\ UNCHANGED setting
Stay == UNCHANGED <<lock, op>>
Return(r) ==
  /\ Goto(r, "idle") /\ op' = [op EXCEPT ![r] = None]
  /\ lock' = [lock EXCEPT ![Path(r)] = None]
  /\ snap' = [snap EXCEPT ![r] = {}] /\ todo' = [todo EXCEPT ![r] = {}]

(* The request waits for the lock of its path (or fails without effect). *)
Begin(r, k, p, q) ==
  /\ pc[r] = "idle" /\ k \in Kinds /\ lock[p] = None
  /\ Goto(r, k) /\ op' = [op EXCEPT ![r] = [kind |-> k, path |-> p, target |-> q]]
  /\ lock' = [lock EXCEPT ![p] = r]
  /\ UNCHANGED <<row, storage, snap, todo, cleanup>>

(* CreateDirectory: unless there is a live row, *)
CreateCheck(r) ==
  /\ pc[r] = "create"
  /\ IF Live(Path(r)) THEN Return(r) ELSE Goto(r, "select") /\ Stay /\ UNCHANGED <<snap, todo>>
  /\ UNCHANGED <<row, storage, cleanup>>

(* Create of either table: a deleted row of the path is looked for, *)
CreateSelect(r) ==
  /\ pc[r] = "select"
  /\ Goto(r, IF row[Path(r)] # None /\ row[Path(r)].deleted THEN "restore" ELSE "insert")
  /\ Stay /\ UNCHANGED <<row, storage, snap, todo, cleanup>>

Created(r) ==
  IF op[r].kind = "create" THEN Goto(r, "mkdir") /\ Stay /\ UNCHANGED <<snap, todo>> ELSE Return(r)

(* and updated WHERE path, which is no error when the row is gone by now, *)
CreateRestore(r) ==
  /\ pc[r] = "restore" /\ Created(r) /\ FreshIds(Path(r)) # {}
  /\ row' = [row EXCEPT ![Path(r)] = IF @ = None THEN None ELSE Fresh(Path(r))]
  /\ UNCHANGED <<storage, cleanup>>

(* or else one inserted, which fails when the path has got a row by now. *)
CreateInsert(r) ==
  /\ pc[r] = "insert"
  /\ IF row[Path(r)] = None
       THEN Created(r) /\ FreshIds(Path(r)) # {} /\ row' = [row EXCEPT ![Path(r)] = Fresh(Path(r))]
       ELSE /\ UNCHANGED row
            /\ IF op[r].kind = "create" THEN Return(r)
                                       ELSE Goto(r, "undo") /\ Stay /\ UNCHANGED <<snap, todo>>
  /\ UNCHANGED <<storage, cleanup>>

(* CreateDirectory makes the directory in storage at last, best effort. *)
CreateMarker(r) ==
  /\ pc[r] = "mkdir" /\ Return(r)
  /\ phys' \in {phys, Made(Path(r))}
  /\ UNCHANGED <<row, object, cleanup>>

-----------------------------------------------------------------------------
(* DeleteDirectory, not recursive: no live file below, no live directory, *)
DeleteCheck(r) ==
  /\ \/ /\ pc[r] = "delete"
        /\ IF Live(Path(r)) /\ \A f \in FilePaths : Live(f) => ~Under(f, Path(r))
             THEN Goto(r, "subdirs") /\ Stay /\ UNCHANGED <<snap, todo>>
             ELSE Return(r)
     \/ /\ pc[r] = "subdirs"
        /\ IF \A d \in DirPaths : Live(d) => ~Under(d, Path(r))
             THEN Goto(r, "own") /\ Stay /\ UNCHANGED <<snap, todo>>
             ELSE Return(r)
  /\ UNCHANGED <<row, storage, cleanup>>

(* then its own row, found by path *)
DeleteFind(r) ==
  /\ pc[r] = "own"
  /\ IF Live(Path(r)) THEN Goto(r, "ownrow") /\ snap' = [snap EXCEPT ![r] = {Entry(Path(r))}]
                          /\ Stay /\ UNCHANGED todo
                     ELSE Return(r)
  /\ UNCHANGED <<row, storage, cleanup>>

(* and deleted by id. *)
DeleteOwn(r) ==
  /\ pc[r] = "ownrow" /\ Return(r)
  /\ row' = SoftDeleted(snap[r])
  /\ UNCHANGED <<storage, cleanup>>

(* Mutant: directories go before their files. *)
DeleteDirsFirst(r) ==
  /\ pc[r] = "rdelete" /\ Live(Path(r)) /\ Goto(r, "dirs") /\ Stay
  /\ UNCHANGED <<row, storage, snap, todo, cleanup>>

(* Recursive: the directory exists, *)
DeleteStart(r) ==
  /\ pc[r] = "rdelete"
  /\ IF Live(Path(r)) THEN Goto(r, "files") /\ Stay /\ UNCHANGED <<snap, todo>> ELSE Return(r)
  /\ UNCHANGED <<row, storage, cleanup>>

LiveBelow(set, d) == {Entry(p) : p \in {x \in set : Live(x) /\ Under(x, d)}}

Batches(all) ==
  {b \in SUBSET all : Cardinality(b) = IF Cardinality(all) < Batch THEN Cardinality(all) ELSE Batch}

(* the next batch of live files below, until there is none; then of directories, *)
DeleteQuery(r) ==
  /\ pc[r] \in {"files", "dirs"}
  /\ \E b \in Batches(LiveBelow(IF pc[r] = "files" THEN FilePaths ELSE DirPaths, Path(r))) :
       IF b = {} THEN Goto(r, IF pc[r] = "files" THEN "dirs" ELSE "own") /\ UNCHANGED snap
                 ELSE Goto(r, "batch") /\ snap' = [snap EXCEPT ![r] = b]
  /\ Stay /\ UNCHANGED <<row, storage, todo, cleanup>>

(* soft-deleted in one transaction, *)
DeleteBatch(r) ==
  /\ pc[r] = "batch"
  /\ \/ /\ row' = SoftDeleted(snap[r]) /\ Goto(r, "reap") /\ Stay
        /\ todo' = [todo EXCEPT ![r] = snap[r]] /\ snap' = [snap EXCEPT ![r] = {}]
     \/ "commit" \in Faults /\ Return(r) /\ UNCHANGED row
  /\ UNCHANGED <<storage, cleanup>>

(* and removed from storage one by one, best effort. *)
DeleteReap(r, e) ==
  /\ pc[r] = "reap" /\ e \in todo[r] /\ todo' = [todo EXCEPT ![r] = @ \ {e}]
  /\ \/ IF e[2] \in FilePaths
          THEN object' = object \ {e[2]} /\ UNCHANGED phys
          ELSE object' = WithoutTree(object, e[2]) /\ phys' = WithoutTree(phys, e[2])
     \/ "remove" \in Faults /\ UNCHANGED storage
  /\ Goto(r, IF todo'[r] # {} THEN "reap" ELSE IF e[2] \in FilePaths THEN "files" ELSE "dirs")
  /\ Stay /\ UNCHANGED <<row, snap, cleanup>>

-----------------------------------------------------------------------------
(* RenameDirectory: the directory exists, the new one does not, *)
RenameCheck(r) ==
  /\ pc[r] = "rename"
  /\ IF Live(Path(r)) /\ ~Live(op[r].target)
       THEN Goto(r, "snapfiles") /\ snap' = [snap EXCEPT ![r] = {Entry(Path(r))}]
            /\ Stay /\ UNCHANGED todo
       ELSE Return(r)
  /\ UNCHANGED <<row, storage, cleanup>>

(* the children are read, files and then directories, *)
RenameSnapshot(r) ==
  /\ pc[r] \in {"snapfiles", "snapdirs"}
  /\ snap' = [snap EXCEPT ![r] = @ \cup LiveBelow(IF pc[r] = "snapfiles" THEN FilePaths ELSE DirPaths, Path(r))]
  /\ Goto(r, IF pc[r] = "snapfiles" THEN "snapdirs" ELSE "commit")
  /\ Stay /\ UNCHANGED <<row, storage, todo, cleanup>>

NewPath(r, e) == Renamed(e[2], Path(r), op[r].target)

(* A row of another id already has one of the new paths. *)
Conflict(r) ==
  \E e \in snap[r], p \in Paths : HasId(p, e[1]) /\ p # NewPath(r, e)
    /\ row[NewPath(r, e)] # None /\ ~\E x \in snap[r] : HasId(NewPath(r, e), x[1])

(* Mutant: the old paths keep their rows. *)
RenameCopies(r) ==
  /\ pc[r] = "commit" /\ ~Conflict(r) /\ Goto(r, "move") /\ Stay
  /\ row' = [p \in Paths |-> IF \E e \in snap[r] : NewPath(r, e) = p
                             THEN [row[Path(r)] EXCEPT !.id = (CHOOSE e \in snap[r] : NewPath(r, e) = p)[1]]
                             ELSE row[p]]
  /\ todo' = [todo EXCEPT ![r] = {e \in snap[r] : e[2] \in FilePaths}]
  /\ snap' = [snap EXCEPT ![r] = {}] /\ UNCHANGED <<storage, cleanup>>

(* all paths change in one transaction, *)
RenameCommit(r) ==
  LET found(p) == {e \in snap[r] : NewPath(r, e) = p /\ \E x \in Paths : HasId(x, e[1])} IN
  /\ pc[r] = "commit"
  /\ \/ /\ ~Conflict(r)
        /\ row' = [p \in Paths |->
             IF found(p) # {}
               THEN row[CHOOSE x \in Paths : \E e \in found(p) : HasId(x, e[1])]
             ELSE IF \E e \in snap[r] : HasId(p, e[1]) THEN None ELSE row[p]]
        /\ todo' = [todo EXCEPT ![r] = {e \in snap[r] : e[2] \in FilePaths}]
        /\ snap' = [snap EXCEPT ![r] = {}] /\ Goto(r, "move") /\ Stay
     \/ (Conflict(r) \/ "commit" \in Faults) /\ Return(r) /\ UNCHANGED row
  /\ UNCHANGED <<storage, cleanup>>

(* Mutant: only the files directly in the directory move. *)
RenameObjectFlat(r, e) ==
  /\ pc[r] = "move" /\ e \in todo[r] /\ todo' = [todo EXCEPT ![r] = @ \ {e}]
  /\ phys' = phys \cup Parents(NewPath(r, e))
  /\ object' = IF Len(e[2]) = Len(Path(r)) + 1 THEN (object \ {e[2]}) \cup {NewPath(r, e)} ELSE object
  /\ Stay /\ UNCHANGED <<setting, row, pc, snap, cleanup>>

(* the objects follow one by one, best effort, *)
RenameObject(r, e) ==
  /\ pc[r] = "move" /\ e \in todo[r] /\ todo' = [todo EXCEPT ![r] = @ \ {e}]
  /\ \/ /\ phys' = phys \cup Parents(NewPath(r, e))
        /\ object' = IF e[2] \in object THEN (object \ {e[2]}) \cup {NewPath(r, e)} ELSE object
     \/ "move" \in Faults /\ UNCHANGED storage
  /\ Stay /\ UNCHANGED <<setting, row, pc, snap, cleanup>>

(* and at last the directory itself, if nothing has made the new one yet. *)
RenameDir(r) ==
  /\ pc[r] = "move" /\ todo[r] = {} /\ Return(r)
  /\ IF Path(r) \in phys /\ EmptyTree(op[r].target)
       THEN /\ object' = MovedTree(object, Path(r), op[r].target)
            /\ phys' = MovedTree(phys, Path(r), op[r].target)
       ELSE UNCHANGED storage
  /\ UNCHANGED <<row, cleanup>>

-----------------------------------------------------------------------------
(* UploadFileFromReader (FileStore has its failures): the object, *)
UploadWrite(r) ==
  /\ pc[r] = "upload" /\ Goto(r, "lookup") /\ Stay
  /\ object' = object \cup {Path(r)} /\ phys' = phys \cup Parents(Path(r))
  /\ strays' = strays \cup {f \in {Path(r)} : purging # None /\ purging[2] = f}
  /\ UNCHANGED <<row, snap, todo, list, purging>>

(* then its live row, looked up by path *)
UploadLookup(r) ==
  /\ pc[r] = "lookup"
  /\ IF Live(Path(r)) THEN Goto(r, "update") /\ snap' = [snap EXCEPT ![r] = {Entry(Path(r))}]
                      ELSE Goto(r, "select") /\ UNCHANGED snap
  /\ Stay /\ UNCHANGED <<row, storage, todo, cleanup>>

(* and set by id, path and is_deleted = FALSE included; without one, Create. *)
UploadUpdate(r) ==
  LET moved == {p \in Paths : \E e \in snap[r] : HasId(p, e[1])} IN
  /\ pc[r] = "update" /\ Return(r)
  /\ row' = IF moved = {} \/ (Path(r) \notin moved /\ row[Path(r)] # None)
              THEN row
              ELSE [p \in Paths |-> IF p = Path(r) THEN [row[CHOOSE x \in moved : TRUE] EXCEPT !.deleted = FALSE]
                                    ELSE IF p \in moved THEN None ELSE row[p]]
  /\ UNCHANGED <<storage, cleanup>>

(* Create has failed. *)
UploadUndo(r) ==
  /\ pc[r] = "undo" /\ Return(r)
  /\ \/ object' = object \ {Path(r)}
     \/ "remove" \in Faults /\ UNCHANGED object
  /\ UNCHANGED <<row, phys, cleanup>>

(* The instance stops; its locks run out. *)
Crash(r) ==
  /\ "crash" \in Faults /\ pc[r] # "idle" /\ Return(r)
  /\ strays' = strays \cup {f \in {Path(r)} : op[r].kind = "upload"}
  /\ UNCHANGED <<row, storage, list, purging>>

(* CleanupService, once the retention time has passed *)
CleanList ==
  /\ "cleanup" \in Kinds /\ list = {} /\ purging = None
  /\ list' = {Entry(f) : f \in {x \in FilePaths : row[x] # None /\ row[x].deleted}}
  /\ UNCHANGED <<setting, row, storage, lock, pc, op, snap, todo, purging, strays>>

(* Mutant: only the row is purged. *)
CleanKeepsObject(e) ==
  /\ purging = None /\ e \in list /\ list' = list \ {e} /\ purging' = e
  /\ UNCHANGED <<setting, row, storage, lock, pc, op, snap, todo, strays>>

(* removes the objects of the rows, each of which it keeps when that fails, *)
CleanObject(e) ==
  /\ purging = None /\ e \in list /\ list' = list \ {e}
  /\ \/ object' = object \ {e[2]} /\ purging' = e
     \/ "remove" \in Faults /\ UNCHANGED <<object, purging>>
  /\ UNCHANGED <<setting, row, phys, lock, pc, op, snap, todo, strays>>

(* and then the rows. *)
CleanRow ==
  /\ purging # None /\ purging' = None
  /\ row' = [p \in Paths |-> IF HasId(p, purging[1]) THEN None ELSE row[p]]
  /\ UNCHANGED <<setting, storage, lock, pc, op, snap, todo, list, strays>>

CleanDir(d) ==
  /\ "cleanup" \in Kinds /\ row[d] # None /\ row[d].deleted /\ row' = [row EXCEPT ![d] = None]
  /\ UNCHANGED <<setting, storage, lock, pc, op, snap, todo, cleanup>>

Step(r) ==
  \/ CreateCheck(r) \/ CreateSelect(r) \/ CreateRestore(r) \/ CreateInsert(r) \/ CreateMarker(r)
  \/ DeleteCheck(r) \/ DeleteFind(r) \/ DeleteOwn(r) \/ DeleteStart(r) \/ DeleteQuery(r) \/ DeleteBatch(r)
  \/ \E e \in todo[r] : DeleteReap(r, e) \/ RenameObject(r, e)
  \/ RenameCheck(r) \/ RenameSnapshot(r) \/ RenameCommit(r) \/ RenameDir(r)
  \/ UploadWrite(r) \/ UploadLookup(r) \/ UploadUpdate(r) \/ UploadUndo(r)

Clean == CleanList \/ (\E e \in list : CleanObject(e)) \/ CleanRow \/ \E d \in DirPaths : CleanDir(d)

Next ==
  \/ \E r \in Requests :
       \/ \E k \in Kinds \cap {"create", "delete", "rdelete"}, d \in DirPaths : Begin(r, k, d, d)
       \/ \E x \in Renames : Begin(r, "rename", x[1], x[2])
       \/ \E f \in setting.uploads : Begin(r, "upload", f, f)
       \/ Step(r) \/ Crash(r)
  \/ Clean

Spec == Init /\ [][Next]_vars

-----------------------------------------------------------------------------
Row == [id : Paths \X (0 .. Gens - 1), deleted : BOOLEAN]

(* The variables keep their types, and no two rows share an id. *)
TypeOK ==
  /\ setting \in Settings
  /\ row \in [Paths -> Row \cup {None}]
  /\ \A p, q \in Paths : row[p] # None /\ row[q] # None /\ row[p].id = row[q].id => p = q
  /\ object \cup strays \subseteq FilePaths /\ phys \subseteq DirPaths
  /\ lock \in [Paths -> Requests \cup {None}]
  /\ \A r \in Requests : snap[r] \cup todo[r] \subseteq (Paths \X (0 .. Gens - 1)) \X Paths

AtRest == (\A r \in Requests : pc[r] = "idle") /\ list = {} /\ purging = None

(* At most one rename occurs, and to a name where nothing was. *)
OneRename ==
  /\ Cardinality(Renames) <= 1
  /\ \A x \in Renames, t \in setting.trees, p \in Paths : p = x[2] \/ Under(p, x[2]) => t[p] # "live"

(***************************************************************************)
(* When nothing is under way every live file has its object, although      *)
(* operations on nested and on sibling directories overlap: moving rows    *)
(* without their objects "would break downloads (DB points at new path,    *)
(* object still at old path)" (manager.go:317-318).  A rename locks the    *)
(* old path only, so a second one, of the new path, can overtake the       *)
(* objects of the first.                                                   *)
(***************************************************************************)
FilesHaveObjects ==
  Kinds \cap {"upload", "cleanup"} = {} /\ Faults = {} /\ OneRename /\ AtRest =>
    \A f \in FilePaths : Live(f) => f \in object

(***************************************************************************)
(* The recursive delete takes the files before the directories, in         *)
(* batches, and the rename moves a tree in one transaction.  So no live    *)
(* file ever lies below a deleted directory, even after a crash or while   *)
(* operations on several directories of the tree overlap.  The batches of  *)
(* directories come in no order (manager.go:245), so of those the same is  *)
(* true only at rest and when every delete came to its end.                *)
(***************************************************************************)
TreeConnected ==
  Kinds \cap {"create", "delete", "upload"} = {} /\ OneRename =>
    /\ \A f \in FilePaths : Live(f) => \A d \in Parents(f) : Live(d)
    /\ AtRest /\ Faults \cap {"commit", "crash"} = {} =>
         \A d \in DirPaths : Live(d) => \A e \in Parents(d) : Live(e)

(***************************************************************************)
(* DeleteDirectory: a failed removal "leaves an orphan object that the     *)
(* cleanup service can reap later" (manager.go:233-234).  The cleanup goes *)
(* by the rows and keeps the row of an object it could not remove, so no   *)
(* object may be without one after crashes and failures.  The exceptions   *)
(* are uploads: one that crashes between its object and its row, and one   *)
(* that writes between the cleanup's Remove and its DELETE                 *)
(* (cleanup.go:66-72), which purges the row that this upload restores or a *)
(* slower one has just revived.                                            *)
(***************************************************************************)
OrphansReapable ==
  "rename" \notin Kinds /\ AtRest => \A f \in object \ strays : row[f] # None
=============================================================================
