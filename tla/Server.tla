------------------------------- MODULE Server -------------------------------
(***************************************************************************)
(* The front end of one process and its shutdown: the middleware chain and *)
(* the handlers of internal/api/http/server.go, each a service call, its   *)
(* audit entry and its answer; the metadata cache of handleGetMetadata;    *)
(* the calls of internal/api/grpc/server.go, which take no slot and leave  *)
(* no audit entry; and the end of cmd/fsserver/main.go.                    *)
(*                                                                         *)
(* The services are represented by what a call does to the metadata row of *)
(* one path, and the audit writer by the two guarantees that the module    *)
(* AuditWriter checks: entries are written in the background, and a Close  *)
(* that waits for the loop writes all that was submitted before it.  Calls *)
(* to the database have no timeout: each is a statement that begins and,   *)
(* if the database answers, ends.                                          *)
(***************************************************************************)
EXTENDS Integers, FiniteSets

CONSTANTS
  Requests,  \* calls that can be in flight
  Settings,  \* deployments and workloads, see below
  None

VARIABLES
  setting,   \* never changes
  phase,     \* of main: "serving", "drainingTLS", "draining", "flushing" and "writing"
             \* (the audit entries), "stopping" (gRPC), "closing" (the database) or "exited"
  expired,   \* the shutdown context is past its deadline
  sem,       \* tokens in concurrencySem
  pc,        \* per call: where it is
  stmts,     \* the calls that wait for the database
  seen,      \* per call: version read by handleGetMetadata
  wait,      \* per call: time since that read
  file,      \* the path's metadata row: its version and whether it is there
  old,       \* per version: time since it was superseded, 0 before that
  cache,     \* the path's cache entry: version and time left, or None
  served,    \* how long superseded was the metadata of the latest answer
  queue, inflight, rows, lost,  \* audit entries submitted, being written, written, and dropped or failed
  acked,     \* audit entries of the calls that were answered with success
  entry      \* per call: its audit entry

vars == <<setting, phase, expired, sem, pc, stmts, seen, wait, file, old, cache, served,
          queue, inflight, rows, lost, acked, entry>>
main == <<phase, expired>>
metadata == <<file, old, cache, served, seen, wait>>
audit == <<queue, inflight, rows, lost, acked, entry>>

Slots == setting.slots              \* workers*4
Cache == setting.cache              \* "none", "memory" or "redis"
TTL == setting.ttl                  \* of a cache entry
Capacity == setting.capacity        \* of the audit writer's channel
Batch == setting.batch              \* entries it collects before it writes them
RowsFail == setting.rowsFail        \* writing an audit row may fail
Kinds == setting.kinds              \* what happens: "change", "metadata", "session", "grpc", "panic", "stop"
MaxDelay == setting.maxDelay        \* bound: time from handleGetMetadata's query to its answer
MaxVersions == setting.maxVersions  \* bound on changes of the row
MaxEntries == setting.maxEntries    \* bound on audit entries

Setting ==
  [slots : Nat \ {0}, cache : {"none", "memory", "redis"}, ttl : Nat \ {0},
   capacity : Nat \ {0}, batch : Nat \ {0}, rowsFail : BOOLEAN,
   kinds : SUBSET {"change", "metadata", "session", "grpc", "panic", "stop"},
   maxDelay : Nat, maxVersions : Nat \ {0}, maxEntries : Nat]

ASSUME ServerConstants == Settings \subseteq Setting /\ IsFiniteSet(Requests) /\ None \notin Nat

Versions == 1 .. MaxVersions
Entries == 1 .. MaxEntries

(* The calls that hold a token of concurrencySem. *)
Inside == {r \in Requests : pc[r] \in {"auth", "handler", "load", "fill", "undo", "audit", "ok", "error"}}

Init ==
  /\ setting \in Settings
  /\ phase = "serving" /\ expired = FALSE /\ sem = 0
  /\ pc = [r \in Requests |-> "idle"] /\ stmts = {}
  /\ seen = [r \in Requests |-> None] /\ wait = [r \in Requests |-> 0]
  /\ file = [version |-> 1, there |-> TRUE] /\ old = [v \in Versions |-> 0]
  /\ cache = None /\ served = 0
  /\ queue = {} /\ inflight = {} /\ rows = {} /\ lost = {} /\ acked = {}
  /\ entry = [r \in Requests |-> None]

Goto(r, label) == pc' = [pc EXCEPT ![r] = label] /\ UNCHANGED <<setting, stmts>>

-----------------------------------------------------------------------------
(* The middleware chain.  A full semaphore answers 503 at once.  The HTTP  *)
(* server still takes calls while the HTTPS server shuts down.             *)
concurrencyMiddleware(r) ==
  /\ pc[r] = "idle" /\ phase \in {"serving", "drainingTLS"}
  /\ IF sem < Slots THEN sem' = sem + 1 /\ Goto(r, "auth")
                    ELSE Goto(r, "busy") /\ UNCHANGED sem
  /\ UNCHANGED <<main, metadata, audit>>

(* A call without a valid key or token, or of a client with too many       *)
(* failures, ends here; a health probe passes.                             *)
authMiddleware(r) ==
  /\ pc[r] = "auth" /\ (Goto(r, "handler") \/ Goto(r, "error"))
  /\ UNCHANGED <<sem, main, metadata, audit>>

(* The role does not permit the route. *)
requirePermission(r) ==
  /\ pc[r] = "handler" /\ Goto(r, "error")
  /\ UNCHANGED <<sem, main, metadata, audit>>

(* Mutant: the token is only given back by calls that succeed. *)
AnswerKeepsToken(r) ==
  /\ pc[r] \in {"busy", "ok", "error"} /\ Goto(r, "idle")
  /\ sem' = IF pc[r] = "ok" THEN sem - 1 ELSE sem
  /\ acked' = IF pc[r] = "ok" THEN acked \cup ({entry[r]} \ {None}) ELSE acked
  /\ entry' = [entry EXCEPT ![r] = None]
  /\ UNCHANGED <<main, metadata, queue, inflight, rows, lost>>

(* The answer is sent; the deferred receive gives the token back. *)
Answer(r) ==
  /\ pc[r] \in {"busy", "ok", "error"} /\ Goto(r, "idle")
  /\ sem' = IF pc[r] = "busy" THEN sem ELSE sem - 1
  /\ acked' = IF pc[r] = "ok" THEN acked \cup ({entry[r]} \ {None}) ELSE acked
  /\ entry' = [entry EXCEPT ![r] = None]
  /\ UNCHANGED <<main, metadata, queue, inflight, rows, lost>>

(* A handler panics; gin.Recovery answers 500 after the deferred calls. *)
Panic(r) ==
  /\ "panic" \in Kinds /\ r \in Inside /\ Goto(r, "idle") /\ sem' = sem - 1
  /\ seen' = [seen EXCEPT ![r] = None] /\ wait' = [wait EXCEPT ![r] = 0]
  /\ entry' = [entry EXCEPT ![r] = None]
  /\ UNCHANGED <<main, file, old, cache, served, queue, inflight, rows, lost, acked>>

-----------------------------------------------------------------------------
(* What a service call may do to the row. *)
Changed(effect) ==
  IF effect = "none" THEN UNCHANGED file
  ELSE /\ file.version < MaxVersions
       /\ file' = [version |-> file.version + 1, there |-> effect = "write"]

(* A handler checks its input, calls its service and, if that succeeds,    *)
(* audits the operation; an error of the service may come after it took    *)
(* effect.                                                                 *)
Handler(r, kind, effects, audited) ==
  /\ pc[r] = "handler" /\ kind \in Kinds
  /\ \/ Goto(r, "error") /\ UNCHANGED file
     \/ \E e \in effects : Changed(e) /\ Goto(r, "error")
     \/ \E e \in effects : Changed(e) /\ Goto(r, IF audited THEN "audit" ELSE "ok")
  /\ UNCHANGED <<sem, main, old, cache, served, seen, wait, audit>>

(* A stream found to be too long is deleted again, if that succeeds. *)
handleUpload(r) ==
  \/ Handler(r, "change", {"write"}, TRUE)
  \/ /\ pc[r] = "handler" /\ "change" \in Kinds /\ Changed("write") /\ Goto(r, "undo")
     /\ UNCHANGED <<sem, main, old, cache, served, seen, wait, audit>>
  \/ /\ pc[r] = "undo" /\ (Changed("remove") \/ Changed("none")) /\ Goto(r, "error")
     /\ UNCHANGED <<sem, main, old, cache, served, seen, wait, audit>>
handleDownload(r) == Handler(r, "session", {"none"}, FALSE)
handleList(r) == Handler(r, "session", {"none"}, FALSE)
handleDelete(r) == Handler(r, "change", {"remove"}, TRUE)
handleRename(r) == Handler(r, "change", {"write", "remove"}, TRUE)
handleCreateDirectory(r) == Handler(r, "session", {"none"}, TRUE)
handleDeleteDirectory(r) == Handler(r, "change", {"none", "remove"}, TRUE)
handleRenameDirectory(r) == Handler(r, "change", {"write", "remove"}, TRUE)
handleCreateUploadSession(r) == Handler(r, "session", {"none"}, TRUE)
handleUploadChunk(r) == Handler(r, "session", {"none"}, FALSE)
handleCompleteUpload(r) == Handler(r, "change", {"write"}, TRUE)
handleAbortUpload(r) == Handler(r, "session", {"none"}, FALSE)
handleCreateMultipartUpload(r) == Handler(r, "session", {"none"}, TRUE)
handleUploadPart(r) == Handler(r, "session", {"none"}, FALSE)
handleCompleteMultipartUpload(r) == Handler(r, "change", {"write"}, TRUE)
handleAbortMultipartUpload(r) == Handler(r, "session", {"none"}, FALSE)
handleCreateApiKey(r) == Handler(r, "session", {"none"}, TRUE)
handleUpdateApiKey(r) == Handler(r, "session", {"none"}, TRUE)
handleDeleteApiKey(r) == Handler(r, "session", {"none"}, TRUE)
handleGenerateToken(r) == Handler(r, "session", {"none"}, TRUE)
handleRefreshToken(r) == Handler(r, "session", {"none"}, FALSE)

HandlerStep(r) ==
  \/ handleUpload(r) \/ handleDownload(r) \/ handleList(r) \/ handleDelete(r) \/ handleRename(r)
  \/ handleCreateDirectory(r) \/ handleDeleteDirectory(r) \/ handleRenameDirectory(r)
  \/ handleCreateUploadSession(r) \/ handleUploadChunk(r) \/ handleCompleteUpload(r)
  \/ handleAbortUpload(r) \/ handleCreateMultipartUpload(r) \/ handleUploadPart(r)
  \/ handleCompleteMultipartUpload(r) \/ handleAbortMultipartUpload(r)
  \/ handleCreateApiKey(r) \/ handleUpdateApiKey(r) \/ handleDeleteApiKey(r)
  \/ handleGenerateToken(r) \/ handleRefreshToken(r)

(* Submit: the entry is queued, or dropped when the channel is full. *)
auditLog(r) ==
  LET e == Cardinality(queue \cup inflight \cup rows \cup lost) + 1 IN
  /\ pc[r] = "audit" /\ e \in Entries /\ Goto(r, "ok")
  /\ entry' = [entry EXCEPT ![r] = e]
  /\ \/ Cardinality(queue) < Capacity + Batch /\ queue' = queue \cup {e} /\ UNCHANGED lost
     \/ Cardinality(queue) >= Capacity /\ lost' = lost \cup {e} /\ UNCHANGED queue
  /\ UNCHANGED <<sem, main, metadata, inflight, rows, acked>>

-----------------------------------------------------------------------------
(* A gRPC call: no semaphore, no audit entry; the server takes calls until *)
(* it is stopped, after the HTTP server.  One that the interceptors refuse *)
(* ends as a method without effect.                                        *)
GrpcStart(r) ==
  /\ pc[r] = "idle" /\ "grpc" \in Kinds /\ phase \notin {"stopping", "closing", "exited"}
  /\ Goto(r, "grpc")
  /\ UNCHANGED <<sem, main, metadata, audit>>

(* A method fails without effect, or has its effect and succeeds or fails. *)
Method(r, effects) ==
  /\ pc[r] = "grpc" /\ Goto(r, "idle")
  /\ \E e \in effects \cup {"none"} : Changed(e)
  /\ UNCHANGED <<sem, main, old, cache, served, seen, wait, audit>>

UploadFile(r) == Method(r, {"write"})
DownloadFile(r) == Method(r, {})
ListFiles(r) == Method(r, {})
DeleteFile(r) == Method(r, {"remove"})
RenameFile(r) == Method(r, {"write", "remove"})
CreateDirectory(r) == Method(r, {})
GetMetadata(r) == Method(r, {})
DeleteDirectory(r) == Method(r, {"remove"})
RenameDirectory(r) == Method(r, {"write", "remove"})

GrpcCall(r) ==
  \/ UploadFile(r) \/ DownloadFile(r) \/ ListFiles(r) \/ DeleteFile(r) \/ RenameFile(r)
  \/ CreateDirectory(r) \/ GetMetadata(r) \/ DeleteDirectory(r) \/ RenameDirectory(r)

-----------------------------------------------------------------------------
(* Mutant: the entry is used whatever its age. *)
HitForever == Cache = "redis" /\ cache # None

(* A cached answer is used if it is there, not expired and a               *)
(* map[string]interface{}: what Redis decodes is; the gin.H that the       *)
(* memory cache hands back is not.                                         *)
Hit == Cache = "redis" /\ cache # None /\ cache.left > 0

MetadataCache(r) ==
  /\ pc[r] = "handler" /\ "metadata" \in Kinds
  /\ IF Hit THEN served' = old[cache.version] /\ Goto(r, "ok")
            ELSE Goto(r, "load") /\ UNCHANGED served
  /\ UNCHANGED <<sem, main, file, old, cache, seen, wait, audit>>

(* The query; without a row the directory is looked up, which is never     *)
(* cached, or the path is not found.                                       *)
MetadataLoad(r) ==
  /\ pc[r] = "load"
  /\ IF file.there THEN /\ seen' = [seen EXCEPT ![r] = file.version]
                        /\ wait' = [wait EXCEPT ![r] = 0] /\ Goto(r, "fill")
                   ELSE (Goto(r, "ok") \/ Goto(r, "error")) /\ UNCHANGED <<seen, wait>>
  /\ UNCHANGED <<sem, main, file, old, cache, served, audit>>

(* The row is cached (Redis may fail silently) and answered. *)
MetadataFill(r) ==
  /\ pc[r] = "fill" /\ Goto(r, "ok")
  /\ served' = old[seen[r]]
  /\ \/ Cache # "none" /\ cache' = [version |-> seen[r], left |-> TTL]
     \/ Cache # "memory" /\ UNCHANGED cache
  /\ seen' = [seen EXCEPT ![r] = None] /\ wait' = [wait EXCEPT ![r] = 0]
  /\ UNCHANGED <<sem, main, file, old, audit>>

(* Time passes, if no call would take longer than MaxDelay. *)
Tick ==
  /\ "metadata" \in Kinds /\ phase # "exited"
  /\ \A r \in Requests : pc[r] = "fill" => wait[r] < MaxDelay
  /\ wait' = [r \in Requests |-> IF pc[r] = "fill" THEN wait[r] + 1 ELSE 0]
  /\ old' = [v \in Versions |-> IF v < file.version /\ old[v] <= TTL + MaxDelay THEN old[v] + 1 ELSE old[v]]
  /\ cache' = (IF cache = None \/ cache.left = 0 THEN cache ELSE [cache EXCEPT !.left = @ - 1])
  /\ UNCHANGED <<setting, sem, pc, stmts, main, file, served, seen, audit>>

-----------------------------------------------------------------------------
(* A call of the service waits for the database.  Statements that begin    *)
(* while main closes the database are left out: they fail, or hold the     *)
(* closing of their one prepared statement up as those before them do.     *)
StatementBegin(r) ==
  /\ pc[r] \in {"auth", "handler", "load", "undo", "grpc"} /\ r \notin stmts
  /\ phase \notin {"closing", "exited"} /\ "stop" \in Kinds
  /\ stmts' = stmts \cup {r}
  /\ UNCHANGED <<setting, sem, pc, main, metadata, audit>>

StatementEnd(r) ==
  /\ r \in stmts /\ phase # "exited" /\ stmts' = stmts \ {r}
  /\ UNCHANGED <<setting, sem, pc, main, metadata, audit>>

(* The audit writer's goroutine writes a batch of what it has collected, *)
(* until Close cancels its context.                                       *)
AuditFlush ==
  /\ phase \in {"serving", "drainingTLS", "draining"} /\ inflight = {}
  /\ \E b \in SUBSET queue :
       b # {} /\ Cardinality(b) <= Batch /\ inflight' = b /\ queue' = queue \ b
  /\ UNCHANGED <<setting, sem, pc, stmts, main, metadata, rows, lost, acked, entry>>

(* writeBatch ends, in the background or as the last flush of Close. *)
AuditWritten ==
  /\ inflight # {} /\ phase # "exited" /\ inflight' = {}
  /\ \E bad \in SUBSET (IF RowsFail THEN inflight ELSE {}) :
       rows' = rows \cup (inflight \ bad) /\ lost' = lost \cup bad
  /\ phase' = IF phase = "writing" THEN "stopping" ELSE phase
  /\ UNCHANGED <<setting, expired, sem, pc, stmts, metadata, queue, acked, entry>>

-----------------------------------------------------------------------------
(* main reaches its next phase. *)
Phase(p) == phase' = p /\ UNCHANGED <<setting, expired, sem, pc, stmts, metadata>>

(* A signal, or a server that could not listen: main starts the shutdown   *)
(* and its 10s deadline.                                                   *)
Signal == phase = "serving" /\ "stop" \in Kinds /\ Phase("drainingTLS") /\ UNCHANGED audit

Deadline ==
  /\ phase \in {"drainingTLS", "draining", "flushing"} /\ ~expired /\ expired' = TRUE
  /\ UNCHANGED <<setting, phase, sem, pc, stmts, metadata, audit>>

(* The HTTPS server, if there is one, is down; its calls are not told from *)
(* the others, so this may be at any time.                                 *)
DrainedTLS == phase = "drainingTLS" /\ Phase("draining") /\ UNCHANGED audit

(* Mutant: the audit writer is closed without waiting for the handlers. *)
DrainedAtOnce == phase = "draining" /\ Phase("flushing") /\ UNCHANGED audit

(* Shutdown of the HTTP server returns: no call is left, or the deadline. *)
Drained ==
  /\ phase = "draining" /\ Phase("flushing") /\ UNCHANGED audit
  /\ expired \/ (Inside = {} /\ \A r \in Requests : pc[r] # "busy")

(* Close of the audit writer: the loop has ended its batch and the rest is *)
(* written, which no deadline bounds, or the deadline comes first.         *)
AuditClose ==
  /\ phase = "flushing"
  /\ \/ /\ inflight = {} /\ inflight' = queue /\ queue' = {}
        /\ Phase(IF queue = {} THEN "stopping" ELSE "writing")
     \/ expired /\ Phase("stopping") /\ UNCHANGED <<queue, inflight>>
  /\ UNCHANGED <<rows, lost, acked, entry>>

(* Mutant: a graceful stop without a timer. *)
GrpcStopPatient ==
  /\ phase = "stopping" /\ (\A r \in Requests : pc[r] # "grpc") /\ Phase("closing") /\ UNCHANGED audit

(* Stop: GracefulStop, or after its own 10s a forced one. *)
GrpcStop == phase = "stopping" /\ Phase("closing") /\ UNCHANGED audit

(* The deferred Close waits for the statements that run; main returns and  *)
(* what still runs is cut off.                                             *)
DatabaseClose ==
  /\ phase = "closing" /\ stmts = {} /\ inflight = {} /\ Phase("exited") /\ UNCHANGED audit

MainStep == Deadline \/ DrainedTLS \/ Drained \/ AuditClose \/ GrpcStop \/ DatabaseClose

CallStep(r) ==
  \/ concurrencyMiddleware(r) \/ authMiddleware(r) \/ requirePermission(r)
  \/ HandlerStep(r) \/ auditLog(r) \/ Answer(r) \/ Panic(r)
  \/ MetadataCache(r) \/ MetadataLoad(r) \/ MetadataFill(r)
  \/ GrpcStart(r) \/ GrpcCall(r)

Next ==
  \/ phase # "exited" /\ \E r \in Requests \ stmts : CallStep(r)
  \/ \E r \in Requests : StatementBegin(r) \/ StatementEnd(r)
  \/ Tick \/ AuditFlush \/ AuditWritten \/ Signal \/ MainStep

Spec == Init /\ [][Next]_vars

(* The timers and the goroutine of main run, and the database answers every *)
(* statement in the end; a handler may hang.                                *)
FairSpec ==
  /\ Spec /\ WF_vars(MainStep)
  /\ WF_vars(AuditWritten) /\ \A r \in Requests : WF_vars(StatementEnd(r))

-----------------------------------------------------------------------------
(* The variables keep their types; no more entries wait for the audit      *)
(* writer than its channel and one batch hold (Submit drops the rest).     *)
TypeOK ==
  /\ setting \in Settings
  /\ phase \in {"serving", "drainingTLS", "draining", "flushing", "writing", "stopping", "closing", "exited"}
  /\ expired \in BOOLEAN /\ stmts \subseteq Requests
  /\ sem \in 0 .. Slots
  /\ pc \in [Requests -> {"idle", "busy", "auth", "handler", "load", "fill", "undo", "audit", "ok", "error", "grpc"}]
  /\ seen \in [Requests -> Versions \cup {None}] /\ wait \in [Requests -> 0 .. MaxDelay]
  /\ file \in [version : Versions, there : BOOLEAN]
  /\ cache \in [version : Versions, left : 0 .. TTL] \cup {None}
  /\ queue \cup inflight \cup rows \cup lost \cup acked \subseteq Entries
  /\ Cardinality(queue) <= Capacity + Batch

(***************************************************************************)
(* concurrencyMiddleware: a token is held by exactly the calls that were   *)
(* let in, however they end, so that overload never lasts: no 503 is due   *)
(* to a call that is over.                                                 *)
(***************************************************************************)
TokensExact == sem = Cardinality(Inside)

(***************************************************************************)
(* handleGetMetadata: no change invalidates the cache, and a slow handler  *)
(* may store a row that has changed since it was read; still, no answer    *)
(* describes a row superseded for longer than the TTL and the delay of the *)
(* handler that cached it.                                                 *)
(***************************************************************************)
MetadataBounded == served <= MaxDelay + (IF Cache = "redis" THEN TTL - 1 ELSE 0)

(***************************************************************************)
(* Shutdown: "Flush the audit writer so pending audit entries are          *)
(* persisted before the process exits" (server.go:1417): unless the        *)
(* deadline passed, every operation a client was told of has its row when  *)
(* the process is gone, or its entry was dropped or failed.                *)
(***************************************************************************)
AuditedAtExit == phase = "exited" /\ ~expired => acked \subseteq rows \cup lost

(***************************************************************************)
(* A shutdown ends, although HTTP and gRPC calls hang ("forced to stop",   *)
(* design.md:53), if the database answers: neither the last flush of the   *)
(* audit writer (audit_writer.go:101-106) nor the closing of the database  *)
(* (db.go:117-124) has a timeout.                                          *)
(***************************************************************************)
ShutdownEnds == phase # "serving" ~> phase = "exited"
=============================================================================
