--------------------------- MODULE MCUploadSession ---------------------------
(***************************************************************************)
(* Settings of UploadSession for TLC.  Requests are interchangeable.  The  *)
(* view ignores what is left of session values nobody refers to: Restore   *)
(* overwrites them before they are used again.                             *)
(***************************************************************************)
EXTENDS UploadSession, TLC

CONSTANT Other   \* the second instance

(* One instance; chunks in any order, repeated or damaged, with a declared *)
(* hash; the client completes when no chunk is in flight.                  *)
Verified ==
  [instances |-> {Home}, n |-> 2, persistEvery |-> 2, data |-> {"good", "bad"},
   hashGiven |-> TRUE, encrypt |-> FALSE, kinds |-> {"chunk", "complete", "abort", "cleanup"},
   failedWrites |-> {"lost"}, client |-> "free", overlap |-> FALSE, maxSize |-> 2, maxDrops |-> 0]

(* Two instances that share the temp directory, requests in any order and  *)
(* at any time, with encryption and a declared hash; Home completes.       *)
Encrypted ==
  [instances |-> {Home, Other}, n |-> 2, persistEvery |-> 1, data |-> {"good"},
   hashGiven |-> TRUE, encrypt |-> TRUE, kinds |-> {"chunk", "complete"},
   failedWrites |-> {"partial"}, client |-> "free", overlap |-> TRUE, maxSize |-> 1, maxDrops |-> 0]

(* A client that resumes from the reported progress, without a hash, on    *)
(* two instances that crash.                                               *)
Resuming ==
  [instances |-> {Home, Other}, n |-> 3, persistEvery |-> 2, data |-> {"good"},
   hashGiven |-> FALSE, encrypt |-> FALSE, kinds |-> {"chunk", "complete", "crash"},
   failedWrites |-> {"partial"}, client |-> "resuming", overlap |-> FALSE, maxSize |-> 2, maxDrops |-> 1]

Sound == {Verified, Encrypted, Resuming}

RequestSymmetry == Permutations(Requests)

Collected == [o \in Objects \ Unreferenced |-> session[o]]
View == <<setting, temp, where, copy, row, Collected, map, count, store, lock, flock,
          pc, at, kind, val, arg, snap, done>>
=============================================================================
