---------------------------- MODULE MCFileStore ----------------------------
(* Settings of FileStore for TLC. *)
EXTENDS FileStore

CONSTANTS p, q, c, d

(* Every operation; nothing fails and nobody uses a rename's new name. *)
Calm ==
  [kinds |-> {"upload", "stream", "delete", "rename"}, faults |-> {}, paths |-> {p, q},
   contents |-> {c, d}, sharedTargets |-> FALSE, reuploads |-> FALSE]

(* Uploads of one file, with every failure of theirs but that of the lookup. *)
Failing ==
  [kinds |-> {"upload", "stream"}, faults |-> {"write", "create", "update", "remove", "crash"},
   paths |-> {p}, contents |-> {c, d}, sharedTargets |-> FALSE, reuploads |-> FALSE]

(* Renames onto paths that others upload or rename, with failures. *)
Racing ==
  [kinds |-> {"upload", "rename"}, faults |-> {"query", "update", "move"}, paths |-> {p, q},
   contents |-> {c}, sharedTargets |-> TRUE, reuploads |-> TRUE]

(* A file deleted and uploaded again while the cleanup runs. *)
Purging ==
  [kinds |-> {"upload", "stream", "delete"}, faults |-> {}, paths |-> {p}, contents |-> {c, d},
   sharedTargets |-> FALSE, reuploads |-> TRUE]

(* As Purging, with failures of the cleanup too. *)
FailingPurge == [Purging EXCEPT !.contents = {c}, !.faults = {"remove", "update"}]

MCSettings == {Calm, Failing, Racing, Purging, FailingPurge}
=============================================================================
