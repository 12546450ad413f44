------------------------------ MODULE MCServer ------------------------------
(***************************************************************************)
(* Settings of Server for TLC.                                             *)
(***************************************************************************)
EXTENDS Server

(* Metadata is read and cached in Redis while the row changes. *)
Caching ==
  [slots |-> 2, cache |-> "redis", ttl |-> 2, capacity |-> 1, batch |-> 1, rowsFail |-> FALSE,
   kinds |-> {"metadata", "grpc"}, maxDelay |-> 1, maxVersions |-> 3, maxEntries |-> 0]

(* The same with the memory cache. *)
InMemory == [Caching EXCEPT !.cache = "memory"]

(* Two calls for one slot, HTTP and gRPC, that change the row or panic. *)
Changing ==
  [slots |-> 1, cache |-> "none", ttl |-> 1, capacity |-> 1, batch |-> 1, rowsFail |-> FALSE,
   kinds |-> {"change", "grpc", "panic"}, maxDelay |-> 0, maxVersions |-> 3, maxEntries |-> 2]

(* Audited calls and gRPC calls, and a shutdown at any time. *)
Stopping ==
  [Changing EXCEPT !.kinds = {"session", "grpc", "panic", "stop"}, !.rowsFail = TRUE,
                   !.maxVersions = 1, !.maxEntries = 3]

MCSettings == {Caching, InMemory, Changing, Stopping}
=============================================================================
