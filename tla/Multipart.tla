----------------------------- MODULE Multipart -----------------------------
(***************************************************************************)
(* One multipart upload of internal/service/transfer/multipart.go: parts   *)
(* written in parallel to a pre-allocated temp file, the list of covered   *)
(* byte ranges, CompleteMultipartUpload, AbortMultipartUpload and the      *)
(* expiry of CleanupExpiredSessions.  Parts overlap, come twice, fail or   *)
(* arrive damaged.                                                         *)
(***************************************************************************)
EXTENDS Integers, Sequences

CONSTANTS
  AllRequests,  \* handler goroutines
  Settings,     \* deployments and clients, see below
  None

VARIABLES
  setting,       \* the deployment and its clients; never changes
  temp, where,   \* the temp file: content, and "temp", "stored" (renamed) or "gone"
  enc,           \* content of the encrypted temp file
  copy,          \* the stored object, when it was not renamed
  session,       \* [covered, size, closed, open, active, inMap]
  count,         \* sessionCount
  flock,         \* holder of the distributed lock "file:<path>"
  pc, kind, arg, \* per request: program counter, request, part <<range, data>>
  written,       \* bytes recorded as covered
  late,          \* history: bytes on which a WriteAt landed after the file was closed
  done           \* a CompleteMultipartUpload returned success

vars == <<setting, temp, where, enc, copy, session, count, flock, pc, kind, arg, written, late, done>>
files == <<temp, where, enc, copy>>

Requests == setting.requests      \* those that occur
N == setting.n                    \* TotalSize, in bytes
Data == setting.data              \* what a byte may be: "good" as the client means it, or "bad"
HashGiven == setting.hashGiven    \* the client declared a hash
Encrypt == setting.encrypt        \* encryption at rest is enabled
Kinds == setting.kinds            \* the requests and events that occur
Failures == setting.failures      \* steps may fail
MaxSize == setting.maxSize        \* bound: no part is sent once so many bytes are counted

Setting ==
  [requests : SUBSET AllRequests, n : Nat, data : {{"good"}, {"good", "bad"}}, hashGiven : BOOLEAN,
   encrypt : BOOLEAN, kinds : SUBSET {"part", "complete", "abort", "cleanup"},
   failures : BOOLEAN, maxSize : Nat]

ASSUME MultipartConstants ==
  /\ Settings \subseteq Setting /\ None \notin AllRequests
  /\ \A s \in Settings : None \notin [0 .. s.n - 1 -> {"hole"} \cup s.data]

Bytes == 0 .. N - 1
Content == [Bytes -> {"hole"} \cup Data]
Good == [b \in Bytes |-> "good"]
Ranges == {r \in [start : 0 .. N, end : 0 .. N] : r.start < r.end}

-----------------------------------------------------------------------------
(* Mutants: neighbours are kept apart; overlaps shrink. *)
MergeApart(acc, r) ==
  IF r.end <= acc.start THEN [acc EXCEPT !.merged = Append(@, r)]
  ELSE IF r.start >= acc.end
    THEN [acc EXCEPT !.merged = (IF acc.inserted THEN @
                                 ELSE Append(@, [start |-> acc.start, end |-> acc.end])) \o <<r>>,
                     !.inserted = TRUE]
  ELSE [acc EXCEPT !.start = IF r.start < @ THEN r.start ELSE @,
                   !.end = IF r.end > @ THEN r.end ELSE @]

MergeShrinking(acc, r) ==
  IF r.end < acc.start \/ r.start > acc.end THEN [acc EXCEPT !.merged = Append(@, r)]
  ELSE [acc EXCEPT !.start = IF r.start > @ THEN r.start ELSE @,
                   !.end = IF r.end < @ THEN r.end ELSE @]

(* addCoveredRange: one pass over the sorted ranges; "acc" holds the loop's *)
(* variables.                                                               *)
Merge(acc, r) ==
  IF r.end < acc.start THEN [acc EXCEPT !.merged = Append(@, r)]
  ELSE IF r.start > acc.end
    THEN [acc EXCEPT !.merged = (IF acc.inserted THEN @
                                 ELSE Append(@, [start |-> acc.start, end |-> acc.end])) \o <<r>>,
                     !.inserted = TRUE]
  ELSE [acc EXCEPT !.start = IF r.start < @ THEN r.start ELSE @,
                   !.end = IF r.end > @ THEN r.end ELSE @]

AfterRange(covered, start, end) ==
  LET after[i \in 0 .. Len(covered)] ==
        IF i = 0 THEN [merged |-> <<>>, inserted |-> FALSE, start |-> start, end |-> end]
                 ELSE Merge(after[i - 1], covered[i]) IN
  after

addCoveredRange(covered, start, end) ==
  LET last == AfterRange(covered, start, end)[Len(covered)] IN
  IF start >= end THEN covered
  ELSE IF last.inserted THEN last.merged
  ELSE Append(last.merged, [start |-> last.start, end |-> last.end])

isFullyCovered(covered) ==
  IF covered = <<>> THEN N = 0
  ELSE /\ covered[1].start = 0 /\ covered[Len(covered)].end = N
       /\ \A i \in 2 .. Len(covered) : covered[i].start = covered[i - 1].end

-----------------------------------------------------------------------------
NoArg == <<[start |-> 0, end |-> 0], "good">>

(* CreateMultipartUpload has run. *)
Init ==
  /\ setting \in Settings
  /\ temp = [b \in Bytes |-> "hole"] /\ where = "temp" /\ enc = None /\ copy = None
  /\ session = [covered |-> <<>>, size |-> 0, closed |-> FALSE, open |-> TRUE,
                active |-> TRUE, inMap |-> TRUE]
  /\ count = 1 /\ flock = None
  /\ pc = [r \in Requests |-> "idle"] /\ kind = [r \in Requests |-> "none"]
  /\ arg = [r \in Requests |-> NoArg]
  /\ written = {} /\ late = {} /\ done = FALSE

Goto(r, label) == pc' = [pc EXCEPT ![r] = label] /\ UNCHANGED <<setting, kind, arg>>
Return(r) ==
  /\ UNCHANGED setting
  /\ pc' = [pc EXCEPT ![r] = "idle"] /\ kind' = [kind EXCEPT ![r] = "none"]
  /\ arg' = [arg EXCEPT ![r] = NoArg]

(* Mutant: the slot is not released. *)
DropKeepsSlot == session' = [session EXCEPT !.inMap = FALSE] /\ UNCHANGED count

(* multipartSessions.Delete and releaseSessionSlot *)
Drop == session' = [session EXCEPT !.inMap = FALSE] /\ count' = count - 1
RemoveTemp == where' = IF where = "temp" THEN "gone" ELSE where

(* A request loads the session. *)
Start(r, k, a) ==
  /\ pc[r] = "idle" /\ k \in Kinds /\ session.inMap
  /\ k = "part" => session.size <= MaxSize
  /\ pc' = [pc EXCEPT ![r] = k] /\ kind' = [kind EXCEPT ![r] = k]
  /\ arg' = [arg EXCEPT ![r] = a]
  /\ UNCHANGED <<setting, files, session, count, flock, written, late, done>>

-----------------------------------------------------------------------------
(* UploadPartData: an open, active session, *)
PartCheck(r) ==
  /\ pc[r] = "part"
  /\ IF session.closed \/ ~session.active \/ arg[r][1].end > N THEN Return(r) ELSE Goto(r, "write")
  /\ UNCHANGED <<files, session, count, flock, written, late, done>>

Part(r) == {b \in Bytes : arg[r][1].start <= b /\ b < arg[r][1].end}
Written(r) == [b \in Bytes |-> IF b \in Part(r) THEN arg[r][2] ELSE temp[b]]

(* WriteAt fails on a closed file, *)
PartEnter(r) ==
  /\ pc[r] = "write"
  /\ IF session.open THEN Goto(r, "land") ELSE Return(r)
  /\ UNCHANGED <<files, session, count, flock, written, late, done>>

(* writes to the inode, or fails, perhaps in part.  Close does not wait    *)
(* for it, so it may land in a file that is closed, verified or stored;    *)
PartWrite(r) ==
  /\ pc[r] = "land"
  /\ \/ temp' = Written(r) /\ Goto(r, "record")
     \/ Failures /\ Return(r) /\ temp' \in {temp, Written(r)}
  /\ late' = IF session.open \/ temp' = temp THEN late ELSE late \cup Part(r)
  /\ UNCHANGED <<where, enc, copy, session, count, flock, written, done>>

(* then the range is merged under partsMu *)
PartRecord(r) ==
  /\ pc[r] = "record" /\ Goto(r, "count")
  /\ session' = [session EXCEPT !.covered = addCoveredRange(@, arg[r][1].start, arg[r][1].end)]
  /\ written' = written \cup Part(r)
  /\ UNCHANGED <<files, count, flock, late, done>>

(* and the bytes are counted. *)
PartCount(r) ==
  /\ pc[r] = "count" /\ Return(r)
  /\ session' = [session EXCEPT !.size = @ + arg[r][1].end - arg[r][1].start]
  /\ UNCHANGED <<files, count, flock, written, late, done>>

-----------------------------------------------------------------------------
(* CompleteMultipartUpload: the counter, *)
CompleteCheck(r) ==
  /\ pc[r] = "complete"
  /\ IF session.size # N THEN Return(r) ELSE Goto(r, "coverage")
  /\ UNCHANGED <<files, session, count, flock, written, late, done>>

(* the coverage (every part is "completed" once it is listed), *)
CompleteCoverage(r) ==
  /\ pc[r] = "coverage"
  /\ IF isFullyCovered(session.covered)
       THEN Goto(r, "close") /\ session' = [session EXCEPT !.closed = TRUE]
       ELSE Return(r) /\ UNCHANGED session
  /\ UNCHANGED <<files, count, flock, written, late, done>>

Fail(r) == Drop /\ RemoveTemp /\ Return(r)

(* Mutant: the file is hashed and stored before it is closed. *)
CompleteStaysOpen(r) ==
  /\ pc[r] = "close"
  /\ Goto(r, IF HashGiven THEN "verify" ELSE IF Encrypt THEN "encrypt" ELSE "lock")
  /\ UNCHANGED <<files, session, count, flock, written, late, done>>

(* Sync and Close, which fail when the file is closed already, *)
CompleteClose(r) ==
  /\ pc[r] = "close"
  /\ \/ /\ session.open /\ session' = [session EXCEPT !.open = FALSE]
        /\ Goto(r, IF HashGiven THEN "verify" ELSE IF Encrypt THEN "encrypt" ELSE "lock")
        /\ UNCHANGED <<where, count>>
     \/ /\ Failures \/ ~session.open
        /\ session' = [session EXCEPT !.open = FALSE, !.inMap = FALSE]
        /\ count' = count - 1 /\ RemoveTemp /\ Return(r)
  /\ UNCHANGED <<temp, enc, copy, flock, written, late, done>>

(* SHA256File of the closed file, *)
CompleteVerify(r) ==
  /\ pc[r] = "verify"
  /\ \/ /\ where = "temp" /\ temp = Good
        /\ Goto(r, IF Encrypt THEN "encrypt" ELSE "lock") /\ UNCHANGED <<where, session, count>>
     \/ (Failures \/ where # "temp" \/ temp # Good) /\ Fail(r)
  /\ UNCHANGED <<temp, enc, copy, flock, written, late, done>>

(* EncryptFile to a second file; the plain one is removed either way, *)
CompleteEncrypt(r) ==
  /\ pc[r] = "encrypt" /\ RemoveTemp
  /\ \/ where = "temp" /\ enc' = temp /\ Goto(r, "lock") /\ UNCHANGED <<session, count>>
     \/ (where # "temp" \/ Failures) /\ Drop /\ Return(r) /\ UNCHANGED enc
  /\ UNCHANGED <<temp, copy, flock, written, late, done>>

RemoveStorageTemp == IF Encrypt THEN enc' = None /\ UNCHANGED where ELSE RemoveTemp /\ UNCHANGED enc

(* the lock of the file, *)
CompleteLock(r) ==
  /\ pc[r] = "lock"
  /\ \/ flock = None /\ flock' = r /\ Goto(r, "move") /\ UNCHANGED <<where, enc, session, count>>
     \/ Failures /\ RemoveStorageTemp /\ Drop /\ Return(r) /\ UNCHANGED flock
  /\ UNCHANGED <<temp, copy, written, late, done>>

(* storage.WriteFromTempFile of LocalStorage: a rename, or, when that      *)
(* fails, a copy, which may fail after it has written,                     *)
WriteFromTempFile ==
  {[ok |-> FALSE, where |-> where, copy |-> copy]}
    \cup (IF Encrypt THEN {[ok |-> b, where |-> where, copy |-> enc] : b \in {enc # None, FALSE}}
          ELSE IF where = "temp" THEN {[ok |-> TRUE, where |-> "stored", copy |-> None],
                                       [ok |-> TRUE, where |-> "gone", copy |-> temp],
                                       [ok |-> FALSE, where |-> where, copy |-> temp]}
          ELSE {})

CompleteMove(r) ==
  /\ pc[r] = "move"
  /\ \E w \in WriteFromTempFile :
       /\ copy' = w.copy
       /\ \/ w.ok /\ where' = w.where /\ (enc' = None) /\ Goto(r, "meta")
             /\ UNCHANGED <<session, count, flock>>
          \/ ~w.ok /\ RemoveStorageTemp /\ Drop /\ Return(r) /\ flock' = None
  /\ UNCHANGED <<temp, written, late, done>>

(* the row (a failed Create removes the object), *)
CompleteMeta(r) ==
  /\ pc[r] = "meta"
  /\ \/ Goto(r, "finish") /\ UNCHANGED <<files, session, count, flock>>
     \/ /\ Failures /\ Drop /\ Return(r) /\ flock' = None
        /\ \/ UNCHANGED files
           \/ copy' = None /\ where' = "gone" /\ UNCHANGED <<temp, enc>>
  /\ UNCHANGED <<written, late, done>>

(* and the session is over. *)
CompleteFinish(r) ==
  /\ pc[r] = "finish" /\ Return(r) /\ flock' = None /\ done' = TRUE
  /\ session' = [session EXCEPT !.active = FALSE, !.inMap = FALSE]
  /\ count' = count - 1
  /\ RemoveStorageTemp
  /\ UNCHANGED <<temp, copy, written, late>>

-----------------------------------------------------------------------------
(* AbortMultipartUpload and the expiry: closed, the file closed, then      *)
(* dropped and removed, in different order.                                *)
EndClose(r) ==
  /\ pc[r] \in {"abort", "cleanup"}
  /\ session' = [session EXCEPT !.closed = TRUE, !.open = FALSE, !.active = FALSE]
  /\ Goto(r, IF kind[r] = "abort" THEN "drop" ELSE "remove")
  /\ UNCHANGED <<files, count, flock, written, late, done>>

EndDrop(r) ==
  /\ pc[r] = "drop" /\ Drop
  /\ IF kind[r] = "abort" THEN Goto(r, "remove") ELSE Return(r)
  /\ UNCHANGED <<files, flock, written, late, done>>

EndRemove(r) ==
  /\ pc[r] = "remove" /\ RemoveTemp
  /\ IF kind[r] = "cleanup" THEN Goto(r, "drop") ELSE Return(r)
  /\ UNCHANGED <<temp, enc, copy, session, count, flock, written, late, done>>

PartStep(r) == PartCheck(r) \/ PartEnter(r) \/ PartWrite(r) \/ PartRecord(r) \/ PartCount(r)
CompleteStep(r) ==
  \/ CompleteCheck(r) \/ CompleteCoverage(r) \/ CompleteClose(r) \/ CompleteVerify(r)
  \/ CompleteEncrypt(r) \/ CompleteLock(r) \/ CompleteMove(r) \/ CompleteMeta(r) \/ CompleteFinish(r)
EndStep(r) == EndClose(r) \/ EndDrop(r) \/ EndRemove(r)

Next == \E r \in Requests :
  \/ \E g \in Ranges, d \in Data : Start(r, "part", <<g, d>>)
  \/ \E k \in Kinds \ {"part"} : Start(r, k, NoArg)
  \/ PartStep(r) \/ CompleteStep(r) \/ EndStep(r)

Spec == Init /\ [][Next]_vars

-----------------------------------------------------------------------------
Session == [covered : Seq(Ranges), size : Nat, closed : BOOLEAN, open : BOOLEAN, active : BOOLEAN,
            inMap : BOOLEAN]

(* The variables keep their types. *)
TypeOK ==
  /\ setting \in Settings
  /\ temp \in Content /\ where \in {"temp", "stored", "gone"}
  /\ {enc, copy} \subseteq Content \cup {None}
  /\ session \in Session
  /\ count \in Int /\ flock \in Requests \cup {None} /\ {written, late} \subseteq SUBSET Bytes

Covered == {b \in Bytes : \E i \in DOMAIN session.covered :
                            session.covered[i].start <= b /\ b < session.covered[i].end}

(***************************************************************************)
(* coveredRanges is "sorted, non-overlapping" (with a gap between          *)
(* neighbours), and holds exactly the bytes that were recorded, in         *)
(* whatever order overlapping parts came (addCoveredRange); isFullyCovered *)
(* "returns true if the covered ranges completely cover [0, TotalSize)     *)
(* with no gaps", and only then.                                           *)
(***************************************************************************)
CoverageExact ==
  /\ Covered = written
  /\ \A i \in 1 .. Len(session.covered) - 1 : session.covered[i].end < session.covered[i + 1].start
  /\ isFullyCovered(session.covered) <=> written = Bytes

Stored == IF where = "stored" THEN temp ELSE copy

(***************************************************************************)
(* CompleteMultipartUpload verifies "that every byte in [0, TotalSize) was *)
(* actually written": a file it committed has no hole, whatever parts were *)
(* repeated, failed, or still on their way; and it has the declared hash,  *)
(* but for the bytes on which a part landed that was under way when the    *)
(* file was closed.                                                        *)
(***************************************************************************)
CommittedIntact ==
  done => /\ Stored # None /\ \A b \in Bytes : Stored[b] # "hole"
          /\ HashGiven => \A b \in Bytes \ late : Stored[b] = "good"

(***************************************************************************)
(* A session that has left the map holds no slot.                          *)
(***************************************************************************)
NoSlotLeak == ~session.inMap => count <= 0 \/ \E r \in Requests : pc[r] = "drop"
=============================================================================
