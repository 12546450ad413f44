----------------------------- MODULE MCDownloads -----------------------------
(***************************************************************************)
(* Settings of Downloads for TLC.                                          *)
(***************************************************************************)
EXTENDS Downloads, TLC

CONSTANTS i1, i2, r1, r2, long, short

(* A replacement may be shorter or longer than what it replaces. *)
Sizes == [v \in Versions |-> IF v = long THEN 3 ELSE 1]

Base ==
  [instances |-> {i1}, requests |-> {r1}, kinds |-> {"whole", "stream", "range", "grpc"},
   writes |-> {"replace", "delete"}, encrypted |-> FALSE, backend |-> "redis",
   tempdir |-> FALSE, faults |-> {}]

(* Uploads that replace the file as a whole, and those that write into it. *)
Replaced == Base
InPlace == [Base EXCEPT !.writes = {"inplace", "delete"}, !.faults = {"disk"}]

(* With encryption, both kinds of upload at a time *)
Sealed ==
  [Base EXCEPT !.kinds = {"whole", "grpc"}, !.writes = {"inplace", "replace", "delete"},
               !.encrypted = TRUE]

(* A download session that is used on two instances, which crash *)
Shared ==
  [Base EXCEPT !.instances = {i1, i2}, !.kinds = {"create", "chunk", "end"}, !.writes = {},
               !.encrypted = TRUE, !.faults = {"crash"}]

(* ... with their temp files in the directory of storage.temp_dir *)
Volume == [Shared EXCEPT !.kinds = {"whole", "create", "end"}, !.tempdir = TRUE]

(* ... by two clients on one instance, without Redis; with and without encryption *)
Paired ==
  [Base EXCEPT !.requests = {r1, r2}, !.kinds = {"create", "chunk", "end"}, !.writes = {},
               !.encrypted = TRUE, !.backend = "memory", !.faults = {"store"}]
Single ==
  [Paired EXCEPT !.requests = {r1}, !.writes = {"replace", "delete"}, !.encrypted = FALSE]

(* Temp files that cannot be written *)
FullDisk ==
  [Base EXCEPT !.kinds = {"whole", "create", "end"}, !.writes = {}, !.encrypted = TRUE,
               !.faults = {"disk", "crash"}]

All == {Replaced, InPlace, Sealed, Shared, Volume, Paired, Single, FullDisk}
=============================================================================
