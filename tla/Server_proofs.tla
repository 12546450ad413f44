---------------------------- MODULE Server_proofs ----------------------------
(***************************************************************************)
(* Proofs about Server: for any finite set of calls, any number of slots,  *)
(* any capacity of the audit writer, any TTL of the cache and any delay of *)
(* a handler.                                                              *)
(***************************************************************************)
EXTENDS Server, FiniteSetTheorems, TLAPS

(* Types of the state that the properties need beside TypeOK *)
TypeInv ==
  /\ TypeOK
  /\ old \in [Versions -> Nat] /\ served \in Nat
  /\ entry \in [Requests -> Entries \cup {None}]

(* The audit entries that were submitted *)
Submitted == queue \cup inflight \cup rows \cup lost

(* The phases in which the HTTP servers, and then the audit writer, are down *)
ServersDown == {"flushing", "writing", "stopping", "closing", "exited"}
WriterDown == ServersDown \ {"flushing"}

(***************************************************************************)
(* The audit entries: those of answered calls, and of calls about to be    *)
(* answered, are somewhere; once the HTTP servers have drained in time     *)
(* nothing is inside, and once the writer has closed nothing is queued.    *)
(* The process does not end before the last batch.                         *)
(***************************************************************************)
AuditInv ==
  /\ acked \subseteq Submitted
  /\ \A r \in Requests : entry[r] # None => entry[r] \in Submitted
  /\ phase \in ServersDown /\ ~expired => Inside = {}
  /\ phase \in WriterDown /\ ~expired => queue = {}
  /\ phase = "exited" => inflight = {}

(***************************************************************************)
(* The age of metadata: a version that a handler has read is superseded    *)
(* for no longer than the handler has waited, and one in the cache for no  *)
(* longer than that delay and the time the entry is there.                 *)
(***************************************************************************)
AgeInv ==
  /\ \A v \in Versions : v >= file.version => old[v] = 0
  /\ \A r \in Requests : pc[r] = "fill" => seen[r] \in Versions /\ old[seen[r]] <= wait[r]
  /\ cache # None /\ cache.left > 0 => old[cache.version] <= MaxDelay + TTL - cache.left

ServerInv == TypeInv /\ TokensExact /\ AuditInv /\ AgeInv /\ MetadataBounded

(* What a service does to the row *)
FileStep ==
  \/ file' = file
  \/ /\ file.version < MaxVersions
     /\ \E there \in BOOLEAN : file' = [version |-> file.version + 1, there |-> there]

LEMMA ChangedStep == \A e : Changed(e) => FileStep
BY Zenon DEF Changed, FileStep

(***************************************************************************)
(* What every handler does: it has its effect on the row and goes on to    *)
(* its audit entry, its answer or its error.                               *)
(***************************************************************************)
LEMMA HandlerEffect ==
  ASSUME NEW r \in Requests, HandlerStep(r)
  PROVE  /\ pc[r] \in {"handler", "undo"} /\ FileStep
         /\ \E label \in {"error", "undo", "audit", "ok"} : pc' = [pc EXCEPT ![r] = label]
         /\ UNCHANGED <<setting, stmts, sem, main, old, cache, served, seen, wait, audit>>
<1>1. ASSUME NEW k, NEW es, NEW b \in BOOLEAN, Handler(r, k, es, b)
      PROVE  /\ pc[r] \in {"handler", "undo"} /\ FileStep
             /\ \E label \in {"error", "undo", "audit", "ok"} : pc' = [pc EXCEPT ![r] = label]
             /\ UNCHANGED <<setting, stmts, sem, main, old, cache, served, seen, wait, audit>>
  <2>1. FileStep
    BY <1>1, ChangedStep, Zenon DEF Handler, FileStep
  <2> QED BY <1>1, <2>1, Zenon DEF Handler, Goto
<1>2. ASSUME pc[r] \in {"handler", "undo"}, \E e : Changed(e), \E l \in {"error", "undo"} : Goto(r, l),
             UNCHANGED <<sem, main, old, cache, served, seen, wait, audit>>
      PROVE  /\ pc[r] \in {"handler", "undo"} /\ FileStep
             /\ \E label \in {"error", "undo", "audit", "ok"} : pc' = [pc EXCEPT ![r] = label]
             /\ UNCHANGED <<setting, stmts, sem, main, old, cache, served, seen, wait, audit>>
  BY <1>2, ChangedStep, Zenon DEF Goto
<1> QED
  BY <1>1, <1>2, Zenon DEF HandlerStep, handleUpload, handleDownload, handleList, handleDelete, handleRename,
       handleCreateDirectory, handleDeleteDirectory, handleRenameDirectory,
       handleCreateUploadSession, handleUploadChunk, handleCompleteUpload, handleAbortUpload,
       handleCreateMultipartUpload, handleUploadPart, handleCompleteMultipartUpload,
       handleAbortMultipartUpload, handleCreateApiKey, handleUpdateApiKey, handleDeleteApiKey,
       handleGenerateToken, handleRefreshToken

(***************************************************************************)
(* What every gRPC method does                                             *)
(***************************************************************************)
LEMMA MethodEffect ==
  ASSUME NEW r \in Requests, GrpcCall(r)
  PROVE  /\ pc[r] = "grpc" /\ FileStep /\ pc' = [pc EXCEPT ![r] = "idle"]
         /\ UNCHANGED <<setting, stmts, sem, main, old, cache, served, seen, wait, audit>>
<1>1. ASSUME NEW es, Method(r, es)
      PROVE  /\ pc[r] = "grpc" /\ FileStep /\ pc' = [pc EXCEPT ![r] = "idle"]
             /\ UNCHANGED <<setting, stmts, sem, main, old, cache, served, seen, wait, audit>>
  <2>1. FileStep
    BY <1>1, ChangedStep, Zenon DEF Method
  <2> QED BY <1>1, <2>1, Zenon DEF Method, Goto
<1> QED
  BY <1>1, Zenon DEF GrpcCall, UploadFile, DownloadFile, ListFiles, DeleteFile, RenameFile,
       CreateDirectory, GetMetadata, DeleteDirectory, RenameDirectory

(***************************************************************************)
(* No action changes the setting.                                          *)
(***************************************************************************)
LEMMA SettingFixed == [Next]_vars => setting' = setting
<1>1. ASSUME NEW r \in Requests, CallStep(r) PROVE setting' = setting
  <2>1. CASE HandlerStep(r)
    BY <2>1, HandlerEffect, Zenon
  <2>2. CASE GrpcCall(r)
    BY <2>2, MethodEffect, Zenon
  <2> QED
    BY <1>1, <2>1, <2>2, Zenon DEF CallStep, concurrencyMiddleware, authMiddleware, requirePermission,
      auditLog, Answer, Panic, MetadataCache, MetadataLoad, MetadataFill, GrpcStart, Goto
<1> QED
  BY <1>1, Zenon DEF Next, vars, Tick, StatementBegin, StatementEnd, AuditFlush, AuditWritten, Signal,
     MainStep, Deadline, DrainedTLS, Drained, AuditClose, GrpcStop, DatabaseClose, Phase

(***************************************************************************)
(* A call that moves enters, stays or leaves.                              *)
(***************************************************************************)
Label == {"idle", "busy", "auth", "handler", "load", "fill", "undo", "audit", "ok", "error", "grpc"}
InLabel == {"auth", "handler", "load", "fill", "undo", "audit", "ok", "error"}
PhaseName == {"serving", "drainingTLS", "draining", "flushing", "writing", "stopping", "closing", "exited"}

LEMMA InsideMove ==
  ASSUME pc \in [Requests -> Label], NEW r \in Requests, NEW label, pc' = [pc EXCEPT ![r] = label]
  PROVE  Inside' = IF label \in InLabel THEN Inside \cup {r} ELSE Inside \ {r}
BY Zenon DEF Inside, InLabel

LEMMA InsideCount ==
  ASSUME NEW r \in Requests
  PROVE  /\ IsFiniteSet(Inside) /\ Cardinality(Inside) \in Nat
         /\ r \notin Inside => Cardinality(Inside \cup {r}) = Cardinality(Inside) + 1
         /\ r \in Inside => Cardinality(Inside \ {r}) = Cardinality(Inside) - 1
                            /\ Cardinality(Inside) >= 1
<1>1. IsFiniteSet(Inside)
  BY ServerConstants, FS_Subset, Zenon DEF Inside
<1>2. Cardinality(Inside) \in Nat /\ Cardinality(Inside \ {r}) \in Nat
  BY <1>1, FS_CardinalityType, FS_RemoveElement, Zenon
<1>3. r \in Inside => Cardinality(Inside \ {r}) = Cardinality(Inside) - 1
  BY <1>1, FS_RemoveElement, Zenon
<1>4. r \notin Inside => Cardinality(Inside \cup {r}) = Cardinality(Inside) + 1
  BY <1>1, FS_AddElement, Zenon
<1> QED BY <1>1, <1>2, <1>3, <1>4

(***************************************************************************)
(* A full semaphore is as full as its calls.                               *)
(***************************************************************************)
LEMMA TokenStep == TypeInv /\ TokensExact /\ [Next]_vars => TokensExact' /\ sem' \in 0 .. Slots'
<1> SUFFICES ASSUME TypeInv, TokensExact, [Next]_vars PROVE TokensExact' /\ sem' \in 0 .. Slots'
  BY Zenon
<1>0. setting' = setting /\ Slots' = Slots /\ Slots \in Nat
  BY SettingFixed, ServerConstants, Zenon DEF TypeInv, TypeOK, Slots, Setting
<1>a. pc \in [Requests -> Label] /\ sem \in 0 .. Slots /\ sem = Cardinality(Inside)
  BY Zenon DEF TypeInv, TypeOK, TokensExact, Label
<1>b. ASSUME pc' = pc, sem' = sem PROVE TokensExact' /\ sem' \in 0 .. Slots'
  <2>1. Inside' = Inside
    BY <1>b, Zenon DEF Inside
  <2> QED BY <1>0, <1>a, <1>b, <2>1, Zenon DEF TokensExact
<1>c. ASSUME NEW r \in Requests, NEW label, pc' = [pc EXCEPT ![r] = label], sem' = sem,
             label \in InLabel <=> r \in Inside
      PROVE  TokensExact' /\ sem' \in 0 .. Slots'
  <2>1. Inside' = Inside
    BY <1>a, <1>c, InsideMove, ZenonT(30)
  <2> QED BY <1>0, <1>a, <1>c, <2>1, Zenon DEF TokensExact
<1>d. ASSUME NEW r \in Requests, NEW label, pc' = [pc EXCEPT ![r] = label], sem' = sem - 1,
             label \notin InLabel, r \in Inside
      PROVE  TokensExact' /\ sem' \in 0 .. Slots'
  <2>1. Inside' = Inside \ {r}
    BY <1>a, <1>d, InsideMove, Zenon
  <2>2. Cardinality(Inside') = Cardinality(Inside) - 1 /\ Cardinality(Inside) >= 1
    BY <2>1, <1>d, InsideCount, Zenon
  <2> QED BY <1>0, <1>a, <1>d, <2>2 DEF TokensExact
<1>1. ASSUME NEW r \in Requests, CallStep(r) PROVE TokensExact' /\ sem' \in 0 .. Slots'
  <2>1. CASE concurrencyMiddleware(r)
    <3>1. r \notin Inside
      BY <2>1, Zenon DEF concurrencyMiddleware, Inside
    <3>2. CASE sem < Slots
      <4>1. pc' = [pc EXCEPT ![r] = "auth"] /\ sem' = sem + 1
        BY <2>1, <3>2, Zenon DEF concurrencyMiddleware, Goto
      <4>2. Inside' = Inside \cup {r}
        BY <1>a, <4>1, InsideMove, Zenon DEF InLabel
      <4>3. Cardinality(Inside') = Cardinality(Inside) + 1
        BY <3>1, <4>2, InsideCount, Zenon
      <4> QED BY <1>0, <1>a, <3>2, <4>1, <4>3 DEF TokensExact
    <3>3. CASE ~(sem < Slots)
      <4>1. pc' = [pc EXCEPT ![r] = "busy"] /\ sem' = sem
        BY <2>1, <3>3, Zenon DEF concurrencyMiddleware, Goto
      <4> QED BY <1>c, <3>1, <4>1, Zenon DEF InLabel
    <3> QED BY <3>2, <3>3, Zenon
  <2>2. CASE authMiddleware(r) \/ requirePermission(r) \/ auditLog(r) \/ MetadataCache(r)
             \/ MetadataLoad(r) \/ MetadataFill(r)
    <3>1. r \in Inside /\ sem' = sem /\ \E label \in InLabel : pc' = [pc EXCEPT ![r] = label]
      BY <2>2, Zenon DEF authMiddleware, requirePermission, auditLog, MetadataCache, MetadataLoad,
                  MetadataFill, Goto, Inside, InLabel
    <3> QED BY <1>c, <3>1, Zenon
  <2>3. CASE HandlerStep(r)
    <3>1. r \in Inside /\ sem' = sem /\ \E label \in InLabel : pc' = [pc EXCEPT ![r] = label]
      BY <2>3, HandlerEffect, Zenon DEF Inside, InLabel
    <3> QED BY <1>c, <3>1, Zenon
  <2>4. CASE Answer(r)
    <3>1. pc' = [pc EXCEPT ![r] = "idle"] /\ pc[r] \in {"busy", "ok", "error"}
          /\ sem' = IF pc[r] = "busy" THEN sem ELSE sem - 1
      BY <2>4, Zenon DEF Answer, Goto
    <3>2. pc[r] # "busy" => r \in Inside
      BY <3>1, Zenon DEF Inside
    <3>3. pc[r] = "busy" => r \notin Inside
      BY Zenon DEF Inside
    <3> QED BY <1>c, <1>d, <3>1, <3>2, <3>3, Zenon DEF InLabel
  <2>5. CASE Panic(r)
    BY <1>d, <2>5, Zenon DEF Panic, Goto, InLabel
  <2>6. CASE GrpcStart(r) \/ GrpcCall(r)
    <3>1. r \notin Inside /\ sem' = sem /\ \E label \in {"idle", "grpc"} : pc' = [pc EXCEPT ![r] = label]
      BY <2>6, MethodEffect, Zenon DEF GrpcStart, Goto, Inside
    <3> QED BY <1>c, <3>1, Zenon DEF InLabel
  <2> QED BY <1>1, <2>1, <2>2, <2>3, <2>4, <2>5, <2>6, Zenon DEF CallStep
<1>2. CASE UNCHANGED vars
  BY <1>b, <1>2, Zenon DEF vars
<1> QED
  BY <1>1, <1>b, <1>2, Zenon DEF Next, Tick, StatementBegin, StatementEnd, AuditFlush, AuditWritten,
     Signal, MainStep, Deadline, DrainedTLS, Drained, AuditClose, GrpcStop, DatabaseClose, Phase

(***************************************************************************)
(* The bounds of the setting                                               *)
(***************************************************************************)
LEMMA Bounds ==
  ASSUME setting \in Settings
  PROVE  /\ Slots \in Nat /\ TTL \in Nat \ {0} /\ Capacity \in Nat /\ Batch \in Nat
         /\ MaxDelay \in Nat /\ MaxVersions \in Nat \ {0} /\ MaxEntries \in Nat
         /\ None \notin Nat
BY ServerConstants, Zenon DEF Setting, Slots, TTL, Capacity, Batch, MaxDelay, MaxVersions, MaxEntries

(***************************************************************************)
(* An entry more in a queue that has room                                  *)
(***************************************************************************)
LEMMA QueueCount ==
  ASSUME MaxEntries \in Nat, queue \subseteq Entries, NEW e, NEW c \in Nat, Cardinality(queue) < c
  PROVE  Cardinality(queue \cup {e}) <= c
<1>1. IsFiniteSet(Entries)
  BY FS_Interval DEF Entries
<1>2. IsFiniteSet(queue) /\ Cardinality(queue) \in Nat
  BY <1>1, FS_Subset, FS_CardinalityType, Zenon
<1>3. Cardinality(queue \cup {e}) \in {Cardinality(queue), Cardinality(queue) + 1}
  BY <1>2, FS_AddElement, Zenon
<1> QED BY <1>2, <1>3

(***************************************************************************)
(* Every action keeps the types.                                           *)
(***************************************************************************)
LEMMA TypeStep == ServerInv /\ [Next]_vars => TypeInv'
<1> SUFFICES ASSUME ServerInv, [Next]_vars PROVE TypeInv'
  BY Zenon
<1>0. setting' = setting /\ setting \in Settings
  BY SettingFixed, Zenon DEF ServerInv, TypeInv, TypeOK
<1>a. sem' \in 0 .. Slots'
  BY TokenStep, Zenon DEF ServerInv
<1>b. /\ Slots' = Slots /\ Versions' = Versions /\ Entries' = Entries /\ TTL' = TTL
      /\ Capacity' = Capacity /\ Batch' = Batch /\ MaxDelay' = MaxDelay
  BY <1>0, Zenon DEF Slots, Versions, Entries, TTL, Capacity, Batch, MaxDelay, MaxVersions, MaxEntries
<1>c. /\ phase \in PhaseName /\ expired \in BOOLEAN /\ stmts \subseteq Requests
      /\ pc \in [Requests -> Label]
      /\ seen \in [Requests -> Versions \cup {None}] /\ wait \in [Requests -> 0 .. MaxDelay]
      /\ file \in [version : Versions, there : BOOLEAN]
      /\ cache \in [version : Versions, left : 0 .. TTL] \cup {None}
      /\ queue \cup inflight \cup rows \cup lost \cup acked \subseteq Entries
      /\ Cardinality(queue) <= Capacity + Batch
      /\ old \in [Versions -> Nat] /\ served \in Nat
      /\ entry \in [Requests -> Entries \cup {None}]
  BY Zenon DEF ServerInv, TypeInv, TypeOK, Label, PhaseName
<1>d. SUFFICES
      /\ phase' \in PhaseName /\ expired' \in BOOLEAN /\ stmts' \subseteq Requests
      /\ pc' \in [Requests -> Label]
      /\ seen' \in [Requests -> Versions \cup {None}] /\ wait' \in [Requests -> 0 .. MaxDelay]
      /\ file' \in [version : Versions, there : BOOLEAN]
      /\ cache' \in [version : Versions, left : 0 .. TTL] \cup {None}
      /\ queue' \cup inflight' \cup rows' \cup lost' \cup acked' \subseteq Entries
      /\ Cardinality(queue') <= Capacity + Batch
      /\ old' \in [Versions -> Nat] /\ served' \in Nat
      /\ entry' \in [Requests -> Entries \cup {None}]
  BY <1>0, <1>a, <1>b, Zenon DEF TypeInv, TypeOK, Label, PhaseName
<1>e. FileStep => file' \in [version : Versions, there : BOOLEAN]
  BY <1>0, <1>c, Bounds, SMTT(30) DEF FileStep, Versions
<1> USE <1>c DEF main, metadata, audit, Label, PhaseName
<1>1. ASSUME NEW r \in Requests, CallStep(r) PROVE <1>d!1
  <2>1. CASE concurrencyMiddleware(r) \/ authMiddleware(r) \/ requirePermission(r) \/ GrpcStart(r)
    BY <2>1 DEF concurrencyMiddleware, authMiddleware, requirePermission, GrpcStart, Goto
  <2>2. CASE HandlerStep(r)
    BY <2>2, <1>e, HandlerEffect
  <2>3. CASE GrpcCall(r)
    BY <2>3, <1>e, MethodEffect, Zenon
  <2>4. CASE auditLog(r)
    <3>1. PICK e \in Entries :
            /\ pc' = [pc EXCEPT ![r] = "ok"] /\ entry' = [entry EXCEPT ![r] = e]
            /\ \/ Cardinality(queue) < Capacity + Batch /\ queue' = queue \cup {e} /\ UNCHANGED lost
               \/ lost' = lost \cup {e} /\ UNCHANGED queue
            /\ UNCHANGED <<sem, stmts, main, metadata, inflight, rows, acked>>
      BY <2>4, Zenon DEF auditLog, Goto
    <3>2. Cardinality(queue') <= Capacity + Batch
      <4>1. MaxEntries \in Nat /\ Capacity + Batch \in Nat /\ queue \subseteq Entries
        BY <1>0, Bounds
      <4>2. CASE queue' = queue
        BY <4>2, Zenon
      <4>3. CASE Cardinality(queue) < Capacity + Batch /\ queue' = queue \cup {e}
        BY <4>1, <4>3, QueueCount, Zenon
      <4> QED BY <3>1, <4>2, <4>3, Zenon
    <3> QED BY <3>1, <3>2
  <2>5. CASE Answer(r) \/ Panic(r)
    BY <2>5, <1>0, Bounds DEF Answer, Panic, Goto
  <2>6. CASE MetadataCache(r)
    BY <2>6 DEF MetadataCache, Hit, Goto
  <2>7. CASE MetadataLoad(r)
    BY <2>7, <1>0, Bounds DEF MetadataLoad, Goto
  <2>8. CASE MetadataFill(r)
    <3>1. seen[r] \in Versions
      BY <2>8, Zenon DEF ServerInv, AgeInv, MetadataFill
    <3> QED BY <2>8, <3>1, <1>0, Bounds DEF MetadataFill, Goto
  <2> QED BY <1>1, <2>1, <2>2, <2>3, <2>4, <2>5, <2>6, <2>7, <2>8, Zenon DEF CallStep
<1>2. CASE Tick
  <2>1. wait' \in [Requests -> 0 .. MaxDelay]
    BY <1>2, <1>0, Bounds DEF Tick
  <2>2. old' \in [Versions -> Nat]
    BY <1>2 DEF Tick
  <2>3. cache' \in [version : Versions, left : 0 .. TTL] \cup {None}
    BY <1>2, <1>0, Bounds DEF Tick
  <2> QED BY <1>2, <2>1, <2>2, <2>3, Zenon DEF Tick
<1>3. CASE AuditFlush \/ AuditWritten \/ AuditClose
  <2>1. queue' \subseteq queue
    BY <1>3, Zenon DEF AuditFlush, AuditWritten, AuditClose
  <2>2. Cardinality(queue') <= Capacity + Batch
    <3>0. IsFiniteSet(Entries)
      BY <1>0, Bounds, FS_Interval DEF Entries
    <3>1. IsFiniteSet(queue)
      BY <3>0, FS_Subset, Zenon
    <3>2. /\ Cardinality(queue') <= Cardinality(queue) /\ Cardinality(queue') \in Nat
          /\ Cardinality(queue) \in Nat
      BY <2>1, <3>1, FS_Subset, FS_CardinalityType, Zenon
    <3> QED BY <3>2, <1>0, Bounds
  <2>3. CASE AuditFlush
    <3>1. /\ inflight' \subseteq queue
          /\ UNCHANGED <<phase, expired, stmts, pc, seen, wait, file, cache, rows, lost, acked, old, served, entry>>
      BY <2>3, Zenon DEF AuditFlush
    <3>2. queue' \cup inflight' \cup rows' \cup lost' \cup acked' \subseteq Entries
      BY <2>1, <3>1, Zenon
    <3> QED BY <2>2, <3>1, <3>2, Zenon
  <2>4. CASE AuditWritten
    BY <2>4, <2>2, Zenon DEF AuditWritten
  <2>5. CASE AuditClose
    BY <2>5, <2>2, Zenon DEF AuditClose, Phase
  <2> QED BY <1>3, <2>3, <2>4, <2>5, Zenon
<1>4. CASE Signal \/ Deadline \/ DrainedTLS \/ Drained \/ GrpcStop \/ DatabaseClose
  BY <1>4, Zenon DEF Signal, Deadline, DrainedTLS, Drained, GrpcStop, DatabaseClose, Phase
<1>6. ASSUME NEW r \in Requests, StatementBegin(r) \/ StatementEnd(r) PROVE <1>d!1
  BY <1>6, Zenon DEF StatementBegin, StatementEnd
<1>5. CASE UNCHANGED vars
  BY <1>5, Zenon DEF vars
<1> QED BY <1>1, <1>2, <1>3, <1>4, <1>5, <1>6, Zenon DEF Next, MainStep

(***************************************************************************)
(* The audit entries of answered calls stay somewhere, and a shutdown in   *)
(* time leaves nothing behind.                                             *)
(***************************************************************************)
LEMMA AuditStep == TypeInv /\ AuditInv /\ [Next]_vars => AuditInv'
<1> SUFFICES ASSUME TypeInv, AuditInv, [Next]_vars PROVE AuditInv'
  BY Zenon
<1>a. pc \in [Requests -> Label] /\ entry \in [Requests -> Entries \cup {None}]
  BY Zenon DEF TypeInv, TypeOK, Label
<1>b. ASSUME UNCHANGED <<phase, expired, queue, inflight, rows, lost, acked, entry>>, Inside' \subseteq Inside
      PROVE  AuditInv'
  BY <1>b, Zenon DEF AuditInv, Submitted
<1>c. ASSUME NEW r \in Requests, r \in Inside, NEW label, pc' = [pc EXCEPT ![r] = label]
      PROVE  Inside' \subseteq Inside
  BY <1>a, <1>c, InsideMove, Zenon
<1>d. ASSUME NEW r \in Requests, NEW label \in {"idle", "grpc"}, pc' = [pc EXCEPT ![r] = label]
      PROVE  Inside' \subseteq Inside
  <2>1. label \notin InLabel
    BY Zenon DEF InLabel
  <2> QED BY <1>a, <1>d, <2>1, InsideMove, Zenon
<1>1. ASSUME NEW r \in Requests, CallStep(r) PROVE AuditInv'
  <2>1. CASE concurrencyMiddleware(r)
    <3>1. phase \in {"serving", "drainingTLS"} /\ UNCHANGED <<phase, expired, queue, inflight, rows, lost, acked, entry>>
      BY <2>1, Zenon DEF concurrencyMiddleware, main, audit
    <3> QED BY <3>1, Zenon DEF AuditInv, Submitted, ServersDown, WriterDown
  <2>2. CASE authMiddleware(r) \/ requirePermission(r) \/ MetadataCache(r) \/ MetadataLoad(r)
             \/ MetadataFill(r)
    <3>1. r \in Inside /\ (\E label : pc' = [pc EXCEPT ![r] = label])
          /\ UNCHANGED <<phase, expired, queue, inflight, rows, lost, acked, entry>>
      BY <2>2, Zenon DEF authMiddleware, requirePermission, MetadataCache, MetadataLoad,
                  MetadataFill, Goto, Inside, main, audit
    <3> QED BY <1>b, <1>c, <3>1, Zenon
  <2>3. CASE HandlerStep(r)
    <3>1. r \in Inside /\ (\E label : pc' = [pc EXCEPT ![r] = label])
          /\ UNCHANGED <<phase, expired, queue, inflight, rows, lost, acked, entry>>
      BY <2>3, HandlerEffect, Zenon DEF Inside, main, audit
    <3> QED BY <1>b, <1>c, <3>1, Zenon
  <2>4. CASE auditLog(r)
    <3>1. r \in Inside /\ pc' = [pc EXCEPT ![r] = "ok"]
      BY <2>4, Zenon DEF auditLog, Goto, Inside
    <3>2. Inside' \subseteq Inside
      BY <1>c, <3>1, Zenon
    <3>3. PICK e \in Entries :
            /\ entry' = [entry EXCEPT ![r] = e]
            /\ \/ Cardinality(queue) < Capacity + Batch /\ queue' = queue \cup {e} /\ UNCHANGED lost
               \/ lost' = lost \cup {e} /\ UNCHANGED queue
            /\ UNCHANGED <<main, inflight, rows, acked>>
      BY <2>4, Zenon DEF auditLog
    <3>4. ~(phase \in ServersDown /\ ~expired) /\ WriterDown \subseteq ServersDown
      BY <3>1, Zenon DEF AuditInv, WriterDown
    <3> QED BY <1>a, <3>2, <3>3, <3>4, Zenon DEF AuditInv, Submitted, main
  <2>5. CASE Answer(r)
    <3>1. /\ pc' = [pc EXCEPT ![r] = "idle"] /\ entry' = [entry EXCEPT ![r] = None]
          /\ acked' \subseteq acked \cup ({entry[r]} \ {None})
          /\ UNCHANGED <<phase, expired, queue, inflight, rows, lost>>
      BY <2>5, Zenon DEF Answer, Goto, main
    <3>2. Inside' \subseteq Inside
      BY <1>d, <3>1, Zenon
    <3> QED BY <1>a, <3>1, <3>2, Zenon DEF AuditInv, Submitted
  <2>6. CASE Panic(r)
    <3>1. /\ pc' = [pc EXCEPT ![r] = "idle"] /\ entry' = [entry EXCEPT ![r] = None]
          /\ UNCHANGED <<phase, expired, queue, inflight, rows, lost, acked>>
      BY <2>6, Zenon DEF Panic, Goto, main
    <3>2. Inside' \subseteq Inside
      BY <1>d, <3>1, Zenon
    <3> QED BY <1>a, <3>1, <3>2, Zenon DEF AuditInv, Submitted
  <2>7. CASE GrpcStart(r) \/ GrpcCall(r)
    <3>1. (\E label \in {"idle", "grpc"} : pc' = [pc EXCEPT ![r] = label])
          /\ UNCHANGED <<phase, expired, queue, inflight, rows, lost, acked, entry>>
      BY <2>7, MethodEffect, Zenon DEF GrpcStart, Goto, main, audit
    <3>2. Inside' \subseteq Inside
      BY <1>d, <3>1, Zenon
    <3> QED BY <1>b, <3>1, <3>2, Zenon
  <2> QED BY <1>1, <2>1, <2>2, <2>3, <2>4, <2>5, <2>6, <2>7 DEF CallStep
<1>2. CASE Tick \/ UNCHANGED vars
  <2>1. Inside' = Inside /\ UNCHANGED <<phase, expired, queue, inflight, rows, lost, acked, entry>>
    BY <1>2, Zenon DEF Tick, vars, Inside, main, audit
  <2> QED BY <1>b, <2>1, Zenon
<1>4. ASSUME NEW r \in Requests, StatementBegin(r) \/ StatementEnd(r) PROVE AuditInv'
  <2>1. Inside' = Inside /\ UNCHANGED <<phase, expired, queue, inflight, rows, lost, acked, entry>>
    BY <1>4, Zenon DEF StatementBegin, StatementEnd, Inside, main, audit
  <2> QED BY <1>b, <2>1, Zenon
<1>3. CASE AuditFlush \/ AuditWritten \/ AuditClose \/ Signal \/ Deadline \/ DrainedTLS \/ Drained
           \/ GrpcStop \/ DatabaseClose
  <2> USE <1>3 DEF AuditFlush, AuditWritten, AuditClose, Signal, Deadline, DrainedTLS, Drained, GrpcStop,
        DatabaseClose, Phase, main, audit
  <2>1. Inside' = Inside /\ UNCHANGED <<acked, entry>>
    BY Zenon DEF Inside
  <2>2. Submitted \subseteq Submitted'
    BY Zenon DEF Submitted
  <2>3. phase' \in ServersDown /\ ~expired' => Inside = {}
    BY Zenon DEF AuditInv, ServersDown, WriterDown
  <2>4. phase' \in WriterDown /\ ~expired' => queue' = {}
    BY Zenon DEF AuditInv, ServersDown, WriterDown
  <2>5. phase' = "exited" => inflight' = {}
    BY Zenon DEF AuditInv
  <2> QED BY <2>1, <2>2, <2>3, <2>4, <2>5, Zenon DEF AuditInv
<1> QED BY <1>1, <1>2, <1>3, <1>4, Zenon DEF Next, MainStep

(***************************************************************************)
(* Metadata ages with the handler that has read it and with the cache.     *)
(***************************************************************************)
LEMMA AgeStep == TypeInv /\ AgeInv /\ MetadataBounded /\ [Next]_vars => AgeInv' /\ MetadataBounded'
<1> SUFFICES ASSUME TypeInv, AgeInv, MetadataBounded, [Next]_vars PROVE AgeInv' /\ MetadataBounded'
  BY Zenon
<1>0. setting' = setting /\ setting \in Settings
  BY SettingFixed, Zenon DEF TypeInv, TypeOK
<1>a. TTL' = TTL /\ Cache' = Cache /\ MaxDelay' = MaxDelay /\ Versions' = Versions
  BY <1>0, Zenon DEF TTL, Cache, MaxDelay, Versions, MaxVersions
<1>b. TTL \in Nat \ {0} /\ MaxDelay \in Nat /\ MaxVersions \in Nat /\ None \notin Nat
  BY <1>0, Bounds, Zenon
<1>c. /\ pc \in [Requests -> Label] /\ file.version \in Versions
      /\ seen \in [Requests -> Versions \cup {None}] /\ wait \in [Requests -> 0 .. MaxDelay]
      /\ cache # None => cache \in [version : Versions, left : 0 .. TTL]
      /\ old \in [Versions -> Nat] /\ served \in Nat
  BY Zenon DEF TypeInv, TypeOK, Label
<1>d. ASSUME served' = served PROVE MetadataBounded'
  BY <1>a, <1>d, Zenon DEF MetadataBounded
<1>e. ASSUME UNCHANGED <<old, cache, seen, wait>>, FileStep,
             \A r \in Requests : pc'[r] = "fill" => pc[r] = "fill"
      PROVE  AgeInv'
  <2>1. \A v \in Versions : v >= file'.version => old[v] = 0
    BY <1>b, <1>c, <1>e DEF FileStep, AgeInv, Versions
  <2> QED BY <1>a, <1>e, <2>1, Zenon DEF AgeInv
<1>1. ASSUME NEW r \in Requests, CallStep(r) PROVE AgeInv' /\ MetadataBounded'
  <2>1. CASE concurrencyMiddleware(r) \/ authMiddleware(r) \/ requirePermission(r) \/ auditLog(r)
             \/ Answer(r) \/ GrpcStart(r)
    <3>1. /\ UNCHANGED <<old, cache, seen, wait, served, file>>
          /\ \E label \in Label \ {"fill"} : pc' = [pc EXCEPT ![r] = label]
      BY <2>1, Zenon DEF concurrencyMiddleware, authMiddleware, requirePermission, auditLog, Answer,
                  GrpcStart, Goto, metadata, Label
    <3> QED BY <1>c, <1>d, <1>e, <3>1, Zenon DEF FileStep
  <2>2. CASE HandlerStep(r)
    <3>1. /\ UNCHANGED <<old, cache, seen, wait, served>> /\ FileStep
          /\ \E label \in {"error", "undo", "audit", "ok"} : pc' = [pc EXCEPT ![r] = label]
      BY <2>2, HandlerEffect, Zenon
    <3> QED BY <1>c, <1>d, <1>e, <3>1, Zenon
  <2>3. CASE GrpcCall(r)
    <3>1. /\ UNCHANGED <<old, cache, seen, wait, served>> /\ FileStep
          /\ pc' = [pc EXCEPT ![r] = "idle"]
      BY <2>3, MethodEffect, Zenon
    <3> QED BY <1>c, <1>d, <1>e, <3>1, Zenon
  <2>4. CASE Panic(r)
    <3>1. /\ UNCHANGED <<old, cache, served, file>> /\ pc' = [pc EXCEPT ![r] = "idle"]
          /\ seen' = [seen EXCEPT ![r] = None] /\ wait' = [wait EXCEPT ![r] = 0]
      BY <2>4, Zenon DEF Panic, Goto
    <3> QED BY <1>a, <1>c, <1>d, <3>1, Zenon DEF AgeInv
  <2>5. CASE MetadataCache(r)
    <3>1. UNCHANGED <<old, cache, seen, wait, file>>
          /\ \E label \in {"ok", "load"} : pc' = [pc EXCEPT ![r] = label]
      BY <2>5 DEF MetadataCache, Goto
    <3>2. CASE Hit
      <4>1. Cache = "redis" /\ cache # None /\ cache.left > 0 /\ served' = old[cache.version]
        BY <2>5, <3>2, Zenon DEF MetadataCache, Hit
      <4>2. old[cache.version] <= MaxDelay + TTL - cache.left
        BY <4>1 DEF AgeInv
      <4>3. old[cache.version] <= MaxDelay + (TTL - 1)
        BY <1>b, <1>c, <4>1, <4>2
      <4> QED BY <1>a, <1>c, <1>e, <3>1, <4>1, <4>3, Zenon DEF MetadataBounded, FileStep
    <3>3. CASE ~Hit
      BY <1>c, <1>d, <1>e, <2>5, <3>1, <3>3, Zenon DEF MetadataCache, FileStep
    <3> QED BY <3>2, <3>3, Zenon
  <2>6. CASE MetadataLoad(r)
    <3>1. UNCHANGED <<old, cache, served, file>>
      BY <2>6, Zenon DEF MetadataLoad
    <3>2. CASE file.there
      <4>1. seen' = [seen EXCEPT ![r] = file.version] /\ wait' = [wait EXCEPT ![r] = 0]
            /\ pc' = [pc EXCEPT ![r] = "fill"]
        BY <2>6, <3>2, Zenon DEF MetadataLoad, Goto
      <4>2. old[file.version] = 0
        BY <1>c DEF AgeInv, Versions
      <4> QED BY <1>a, <1>c, <1>d, <3>1, <4>1, <4>2 DEF AgeInv
    <3>3. CASE ~file.there
      <4>1. UNCHANGED <<seen, wait>> /\ \E label \in {"ok", "error"} : pc' = [pc EXCEPT ![r] = label]
        BY <2>6, <3>3, Zenon DEF MetadataLoad, Goto
      <4> QED BY <1>c, <1>d, <1>e, <3>1, <4>1, Zenon DEF FileStep
    <3> QED BY <3>2, <3>3, Zenon
  <2>7. CASE MetadataFill(r)
    <3>1. seen[r] \in Versions /\ old[seen[r]] <= wait[r] /\ wait[r] <= MaxDelay /\ old[seen[r]] \in Nat
      BY <1>c, <2>7 DEF MetadataFill, AgeInv
    <3>2. /\ pc' = [pc EXCEPT ![r] = "ok"] /\ UNCHANGED <<old, file>> /\ served' = old[seen[r]]
          /\ cache' = [version |-> seen[r], left |-> TTL] \/ cache' = cache
          /\ seen' = [seen EXCEPT ![r] = None] /\ wait' = [wait EXCEPT ![r] = 0]
      BY <2>7, Zenon DEF MetadataFill, Goto
    <3>3. MetadataBounded'
      BY <1>a, <1>b, <1>c, <3>1, <3>2 DEF MetadataBounded
    <3>4. cache' # None /\ cache'.left > 0 => old[cache'.version] <= MaxDelay + TTL - cache'.left
      BY <1>b, <1>c, <3>1, <3>2 DEF AgeInv
    <3> QED BY <1>a, <1>c, <3>2, <3>3, <3>4, Zenon DEF AgeInv
  <2> QED BY <1>1, <2>1, <2>2, <2>3, <2>4, <2>5, <2>6, <2>7, Zenon DEF CallStep
<1>2. CASE Tick
  <2>1. UNCHANGED <<pc, file, served, seen>>
    BY <1>2, Zenon DEF Tick
  <2>2. \A v \in Versions : old'[v] \in {old[v], old[v] + 1} /\ (v >= file.version => old'[v] = old[v])
    BY <1>2, <1>b, <1>c DEF Tick, Versions
  <2>3. \A r \in Requests : pc[r] = "fill" => wait'[r] = wait[r] + 1
    BY <1>2, <1>c, Zenon DEF Tick
  <2>4. cache' # None /\ cache'.left > 0 =>
          cache # None /\ cache'.version = cache.version /\ cache'.left = cache.left - 1
                        /\ cache.left \in 0 .. TTL /\ cache.version \in Versions
    BY <1>2, <1>b, <1>c DEF Tick
  <2>5. \A v \in Versions : v >= file'.version => old'[v] = 0
    BY <2>1, <2>2, Zenon DEF AgeInv
  <2>6. \A r \in Requests : pc[r] = "fill" => seen[r] \in Versions /\ old'[seen[r]] <= wait'[r]
    BY <1>c, <2>2, <2>3 DEF AgeInv
  <2>7. cache' # None /\ cache'.left > 0 => old'[cache'.version] <= MaxDelay + TTL - cache'.left
    <3> SUFFICES ASSUME cache' # None, cache'.left > 0
                 PROVE  old'[cache'.version] <= MaxDelay + TTL - cache'.left
      BY Zenon
    <3>1. old[cache.version] \in Nat /\ old[cache.version] <= MaxDelay + TTL - cache.left
      BY <1>b, <1>c, <2>4 DEF AgeInv
    <3> QED BY <1>b, <2>2, <2>4, <3>1
  <2> QED BY <1>a, <1>d, <2>1, <2>5, <2>6, <2>7, Zenon DEF AgeInv
<1>3. CASE AuditFlush \/ AuditWritten \/ AuditClose \/ Signal \/ Deadline \/ DrainedTLS \/ Drained
           \/ GrpcStop \/ DatabaseClose \/ UNCHANGED vars \/ \E r \in Requests : StatementBegin(r) \/ StatementEnd(r)
  <2>1. UNCHANGED <<pc, file, old, cache, served, seen, wait>>
    BY <1>3, Zenon DEF AuditFlush, AuditWritten, AuditClose, Signal, Deadline, DrainedTLS, Drained, GrpcStop,
       DatabaseClose, StatementBegin, StatementEnd, Phase, vars, metadata
  <2> QED BY <1>d, <1>e, <2>1, Zenon DEF FileStep
<1> QED BY <1>1, <1>2, <1>3, Zenon DEF Next, MainStep

-----------------------------------------------------------------------------
LEMMA InitHolds == Init => ServerInv
<1> SUFFICES ASSUME Init PROVE ServerInv
  BY Zenon
<1>1. /\ Slots \in Nat /\ TTL \in Nat \ {0} /\ Capacity \in Nat /\ Batch \in Nat /\ MaxDelay \in Nat
      /\ MaxVersions \in Nat \ {0} /\ MaxEntries \in Nat
  BY Bounds, Zenon DEF Init
<1>2. Inside = {}
  BY Zenon DEF Init, Inside
<1>3. Cardinality({}) = 0
  BY FS_EmptySet, Zenon
<1>4. TypeInv
  <2>1. sem \in 0 .. Slots /\ Cardinality(queue) <= Capacity + Batch
    BY <1>1, <1>3 DEF Init
  <2>2. file \in [version : Versions, there : BOOLEAN] /\ wait \in [Requests -> 0 .. MaxDelay]
        /\ old \in [Versions -> Nat]
    BY <1>1 DEF Init, Versions
  <2> QED BY <2>1, <2>2, Zenon DEF Init, TypeInv, TypeOK
<1>5. TokensExact /\ AuditInv
  BY <1>2, <1>3, Zenon DEF Init, TokensExact, AuditInv, ServersDown, WriterDown
<1>6. AgeInv /\ MetadataBounded
  BY <1>1 DEF Init, AgeInv, MetadataBounded, Versions
<1> QED BY <1>4, <1>5, <1>6, Zenon DEF ServerInv

(***************************************************************************)
(* The inductive invariant: types, exact tokens, where the audit entries   *)
(* are, and how old metadata may be.                                       *)
(***************************************************************************)
THEOREM ServerInvariant == Spec => []ServerInv
<1>1. ServerInv /\ [Next]_vars => ServerInv'
  BY TypeStep, TokenStep, AuditStep, AgeStep, Zenon DEF ServerInv
<1> QED BY InitHolds, <1>1, PTL DEF Spec

(***************************************************************************)
(* The variables keep their types: the semaphore never exceeds its slots,  *)
(* nor the waiting audit entries the writer's channel and one batch.       *)
(***************************************************************************)
THEOREM TypeCorrect == Spec => []TypeOK
<1>1. ServerInv => TypeOK
  BY DEF ServerInv, TypeInv
<1> QED BY ServerInvariant, <1>1, PTL

(***************************************************************************)
(* The tokens of concurrencySem are those of the calls inside, whichever   *)
(* way calls end: TokensExact for any number of slots and calls.           *)
(***************************************************************************)
THEOREM NoTokenLeaks == Spec => []TokensExact
<1>1. ServerInv => TokensExact
  BY Zenon DEF ServerInv
<1> QED BY ServerInvariant, <1>1, PTL

(***************************************************************************)
(* No answer of handleGetMetadata is older than the TTL and the delay of   *)
(* the handler that filled the cache.                                      *)
(***************************************************************************)
THEOREM StaleMetadataBounded == Spec => []MetadataBounded
<1>1. ServerInv => MetadataBounded
  BY Zenon DEF ServerInv
<1> QED BY ServerInvariant, <1>1, PTL

(***************************************************************************)
(* A shutdown within its deadline leaves a row, or a counted loss, for     *)
(* every operation that was answered with success.                         *)
(***************************************************************************)
THEOREM ShutdownAudits == Spec => []AuditedAtExit
<1>1. ServerInv => AuditedAtExit
  BY Zenon DEF ServerInv, AuditInv, Submitted, ServersDown, WriterDown, AuditedAtExit
<1> QED BY ServerInvariant, <1>1, PTL
=============================================================================
