----------------------------- MODULE Downloads -----------------------------
(***************************************************************************)
(* Every way to read one file while it is written: the HTTP handlers       *)
(* (handleDownload, handleEncryptedDownload, handleRangeDownload), the     *)
(* gRPC stream DownloadFile, and the download sessions of                  *)
(* internal/service/transfer/service.go with their session store           *)
(* (internal/distributed/session.go).  None of them takes the lock of the  *)
(* path; the writers do, so one of them is at work at a time.              *)
(*                                                                         *)
(* A file is a sequence of blocks <<version, number, form>>.  A reader     *)
(* that has opened it sees what is written into it; when the name gets     *)
(* another file (os.Rename, a PutObject) the reader keeps the earlier one, *)
(* which nobody writes any more.                                           *)
(***************************************************************************)
EXTENDS Integers, Sequences, FiniteSets

CONSTANTS
  AllInstances, AllRequests,
  Versions,  \* the contents that are uploaded
  Size,      \* the number of blocks of each
  Chunk,     \* ChunkSize of DownloadFile, in blocks
  MaxBlock,  \* bound: clients ask for no block after it
  Settings,
  Linked,    \* of an open file: it is still the one under the name
  None

VARIABLES
  setting,  \* never changes
  object,   \* storage: the blocks under the path, None without an object
  row,      \* files table: the Size of the live row
  writer,   \* the upload or deletion at work
  pc, at, req,      \* per goroutine: program counter, instance and request
  size, file, got,  \* ... the size it was told, the file it has open, the blocks it has read
  temp,     \* temp files <<instance, owner, extension>>, of a request, the session or a crashed run
  created,  \* CreateDownloadSession has drawn its id
  old,      \* ... longer than maxAgeSeconds ago
  closed,   \* the session's decrypted file has been closed
  mem,      \* downloadSessions of each instance
  store     \* the session store

vars == <<setting, object, row, writer, pc, at, req, size, file, got,
          temp, created, old, closed, mem, store>>
objects == <<object, row, writer>>
locals == <<at, req, size, file, got>>
session == <<created, old, closed, mem, store>>

Instances == setting.instances
Requests == setting.requests
Kinds == setting.kinds          \* the requests that occur
Writes == setting.writes        \* how the file is written
Encrypted == setting.encrypted  \* encryption at rest is enabled
Backend == setting.backend      \* of the session store: "redis" or "memory"
TempDir == setting.tempdir      \* storage.temp_dir is set
Faults == setting.faults        \* "disk": a temp file, "store": a Set, and "crash"

Setting ==
  [instances : SUBSET AllInstances, requests : SUBSET AllRequests,
   kinds : SUBSET {"whole", "stream", "range", "grpc", "create", "chunk", "end"},
   writes : SUBSET {"inplace", "replace", "delete"}, encrypted : BOOLEAN,
   backend : {"redis", "memory"}, tempdir : BOOLEAN, faults : SUBSET {"disk", "store", "crash"}]

(* The contents of files *)
Block == Versions \X Nat \X {"plain", "cipher"}
Data == Seq(Block)

ASSUME DownloadConstants ==
  /\ Settings \subseteq Setting
  /\ Size \in [Versions -> Nat \ {0}] /\ Chunk \in Nat \ {0} /\ MaxBlock \in Nat \ {0}
  /\ AllInstances \cap AllRequests = {} /\ AllRequests \cap {"session", "crashed"} = {}
  /\ Linked \notin Data \cup {None} /\ None \notin Data /\ None \notin [dec : Data \cup {None}, size : Nat]

(* The cleanup thread of an instance is a goroutine like those of requests. *)
Goroutines == Requests \cup Instances

Plain(v) == [k \in 1 .. Size[v] |-> <<v, k, "plain">>]

(* Encrypt: nonce and tag make the ciphertext longer than the content. *)
Stored(v) == IF Encrypted THEN [k \in 1 .. Size[v] + 1 |-> <<v, k, "cipher">>] ELSE Plain(v)

(* Mutant: each block for itself, as a mode without authentication would. *)
DecryptedUnauthenticated(data) ==
  {[k \in 1 .. n |-> <<data[k][1], data[k][2], "plain">>] : n \in {Len(data) - 1} \ {-1}}

(* Decrypt: AES-GCM authenticates the whole ciphertext. *)
Decrypted(data) == {Plain(v) : v \in {w \in Versions : data = Stored(w)}}

Blocks(data, from, count) ==
  SubSeq(data, from + 1, IF from + count < Len(data) THEN from + count ELSE Len(data))

Request == [kind : {"whole", "stream", "range", "grpc", "create", "chunk", "end", "expire"},
            from : 0 .. MaxBlock, count : 0 .. MaxBlock]
NoRequest == [kind |-> "whole", from |-> 0, count |-> 0]

Init ==
  /\ setting \in Settings
  /\ \E v \in Versions : object = Stored(v) /\ row = Len(Stored(v))
  /\ writer = None
  /\ pc = [g \in Goroutines |-> "idle"]
  /\ at = [g \in Goroutines |-> None]
  /\ req = [g \in Goroutines |-> NoRequest]
  /\ size = [g \in Goroutines |-> 0] /\ file = [g \in Goroutines |-> None]
  /\ got = [g \in Goroutines |-> <<>>]
  /\ temp = {}
  /\ created = FALSE /\ old = FALSE /\ closed = FALSE
  /\ mem = [i \in Instances |-> None] /\ store = None

Goto(g, label) == pc' = [pc EXCEPT ![g] = label] /\ UNCHANGED setting

(* A request ends: with an answer, which the client keeps, or without. *)
Forget(g) ==
  /\ at' = [at EXCEPT ![g] = None] /\ size' = [size EXCEPT ![g] = 0]
  /\ file' = [file EXCEPT ![g] = None]
Done(g) == Goto(g, "ok") /\ Forget(g) /\ UNCHANGED <<req, got>>
Leave(g) ==
  /\ Goto(g, "idle") /\ Forget(g)
  /\ req' = [req EXCEPT ![g] = NoRequest] /\ got' = [got EXCEPT ![g] = <<>>]
Finished(g) == pc[g] \in {"idle", "ok"}

-----------------------------------------------------------------------------
(* The writers: UploadFile, CompleteUpload, DeleteFile, storage first. *)

(* The name gets another file, or none: open readers keep the one they have. *)
Relink(new) ==
  /\ object' = new
  /\ file' = [g \in Goroutines |-> IF file[g] = Linked THEN object ELSE file[g]]

(* LocalStorage.Write and WriteFromReader open the file with O_TRUNC ... *)
Truncate(v) ==
  /\ writer = None /\ "inplace" \in Writes
  /\ object' = <<>>
  /\ writer' = [step |-> "fill", version |-> v, size |-> Len(Stored(v))]
  /\ UNCHANGED <<setting, row, pc, locals, temp, session>>

(* ... and fill it; an error leaves it as it is. *)
Fill ==
  /\ writer # None /\ writer.step = "fill"
  /\ LET data == Stored(writer.version)  n == Len(object) IN
       IF n < Len(data)
         THEN object' = Append(object, data[n + 1]) /\ UNCHANGED writer
         ELSE writer' = [writer EXCEPT !.step = "row"] /\ UNCHANGED object
  /\ UNCHANGED <<setting, row, pc, locals, temp, session>>

FillFails ==
  /\ writer # None /\ writer.step = "fill" /\ "disk" \in Faults
  /\ writer' = None
  /\ UNCHANGED <<setting, object, row, pc, locals, temp, session>>

(* WriteFromTempFile renames the temp file; an object store puts whole     *)
(* objects.  CompleteUpload records the size before encryption.            *)
Replace(v) ==
  /\ writer = None /\ "replace" \in Writes
  /\ Relink(Stored(v))
  /\ \E n \in {Size[v], Len(Stored(v))} : writer' = [step |-> "row", version |-> v, size |-> n]
  /\ UNCHANGED <<setting, row, pc, at, req, size, got, temp, session>>

(* DeleteFile: storage.Remove *)
Unlink ==
  /\ writer = None /\ "delete" \in Writes /\ object # None
  /\ Relink(None)
  /\ writer' = [step |-> "row", version |-> None, size |-> None]
  /\ UNCHANGED <<setting, row, pc, at, req, size, got, temp, session>>

(* Create, Update or Remove of the row *)
WriteRow ==
  /\ writer # None /\ writer.step = "row"
  /\ row' = writer.size /\ writer' = None
  /\ UNCHANGED <<setting, object, pc, locals, temp, session>>

Write == Fill \/ WriteRow

-----------------------------------------------------------------------------
(* Reading *)

Enc(g) == <<at[g], g, "enc">>
Dec(g) == <<at[g], IF req[g].kind = "create" THEN "session" ELSE g, "dec">>

(* GetFileMetadata: a request goes on with the size of the row. *)
Arrive(g, i, x, label) ==
  \/ /\ row # None /\ Goto(g, label)
     /\ at' = [at EXCEPT ![g] = i] /\ req' = [req EXCEPT ![g] = x]
     /\ got' = [got EXCEPT ![g] = <<>>] /\ size' = [size EXCEPT ![g] = row]
     /\ UNCHANGED file
  \/ row = None /\ Leave(g)

(* A request for the file arrives, and the handler branches.  With         *)
(* encryption a range is cut from the decrypted file, as a download is.    *)
Begin(g, i, x) ==
  /\ g \in Requests /\ Finished(g)
  /\ x.kind \in Kinds \cap {"whole", "stream", "range", "grpc"}
  /\ x.kind # "range" => x.count = 0 /\ (x.kind # "grpc" => x.from = 0)
  /\ x.kind = "range" => ~Encrypted
  /\ Arrive(g, i, x, IF x.kind \in {"range", "grpc"} THEN x.kind
                     ELSE IF Encrypted THEN "temp" ELSE "open")
  /\ UNCHANGED <<objects, temp, session>>

(* handleEncryptedDownload and CreateDownloadSession: os.Create of ".enc" *)
CreateTemp(g) ==
  /\ pc[g] = "temp"
  /\ \/ temp' = temp \cup {Enc(g)} /\ Goto(g, "open") /\ UNCHANGED locals
     \/ "disk" \in Faults /\ Leave(g) /\ UNCHANGED temp
  /\ UNCHANGED <<objects, session>>

(* Read, OpenReader.  ServeContent asks the open file for its size. *)
Open(g) ==
  /\ pc[g] = "open"
  /\ IF object = None
       THEN temp' = temp \ {Enc(g)} /\ Leave(g)
       ELSE /\ file' = [file EXCEPT ![g] = Linked] /\ Goto(g, "read")
            /\ size' = [size EXCEPT ![g] = IF req[g].kind = "stream" THEN Len(object) ELSE @]
            /\ UNCHANGED <<at, req, got, temp>>
  /\ UNCHANGED <<objects, session>>

Opened(g) == IF file[g] = Linked THEN object ELSE file[g]

AtEnd(g) ==
  \/ Len(got[g]) >= Len(Opened(g))
  \/ req[g].kind = "stream" /\ ~Encrypted /\ Len(got[g]) = size[g]

(* The next block of the open file; what was sent must have the length of  *)
(* the Content-Length.                                                     *)
ReadBlock(g) ==
  /\ pc[g] = "read"
  /\ \/ /\ ~AtEnd(g)
        /\ got' = [got EXCEPT ![g] = Append(@, Opened(g)[Len(@) + 1])]
        /\ UNCHANGED <<setting, pc, at, req, size, file>>
     \/ /\ AtEnd(g) /\ Encrypted /\ Goto(g, "decrypt")
        /\ file' = [file EXCEPT ![g] = None] /\ UNCHANGED <<at, req, size, got>>
     \/ AtEnd(g) /\ ~Encrypted /\ IF Len(got[g]) = size[g] THEN Done(g) ELSE Leave(g)
  /\ UNCHANGED <<objects, temp, session>>

(* The copy to ".enc" fails. *)
CopyFails(g) ==
  /\ pc[g] = "read" /\ Encrypted /\ "disk" \in Faults
  /\ temp' = temp \ {Enc(g)} /\ Leave(g)
  /\ UNCHANGED <<objects, session>>

(* DecryptFileStreaming to ".dec".  The handler removes both temp files in *)
(* any case; the session only ".enc", also when writing ".dec" failed.     *)
Decrypt(g) ==
  /\ pc[g] = "decrypt"
  /\ \/ \E data \in Decrypted(got[g]) :
          /\ got' = [got EXCEPT ![g] = data] /\ size' = [size EXCEPT ![g] = Len(data)]
          /\ temp' = (IF req[g].kind = "create" THEN temp \ {Enc(g)} ELSE temp) \cup {Dec(g)}
          /\ Goto(g, IF req[g].kind = "create" THEN "keep" ELSE "serve")
          /\ UNCHANGED <<at, req, file>>
     \/ Decrypted(got[g]) = {} /\ temp' = temp \ {Enc(g)} /\ Leave(g)
     \/ /\ Decrypted(got[g]) # {} /\ "disk" \in Faults
        /\ temp' = (temp \ {Enc(g)}) \cup (IF req[g].kind = "create" THEN {Dec(g)} ELSE {})
        /\ Leave(g)
  /\ UNCHANGED <<objects, session>>

(* ServeContent from ".dec", and the deferred cleanup *)
Serve(g) ==
  /\ pc[g] = "serve" /\ Done(g)
  /\ temp' = temp \ {Enc(g), Dec(g)}
  /\ UNCHANGED <<objects, session>>

(* handleRangeDownload: one ReadAt, of the range checked against the row *)
ReadRange(g) ==
  /\ pc[g] = "range"
  /\ IF req[g].count = 0 \/ req[g].from + req[g].count > size[g] \/ object = None
       THEN Leave(g)
       ELSE /\ Goto(g, "ok") /\ Forget(g) /\ UNCHANGED req
            /\ got' = [got EXCEPT ![g] = Blocks(object, req[g].from, req[g].count)]
  /\ UNCHANGED <<objects, temp, session>>

(* Mutants: the offset advances by the chunk size; an empty read is retried. *)
SendChunkSkipping(g) ==
  /\ pc[g] = "grpc"
  /\ LET offset == req[g].from + Len(got[g])
         data == IF object = None THEN <<>> ELSE Blocks(object, offset, Chunk) IN
       IF offset >= size[g] \/ data = <<>>
         THEN Done(g)
         ELSE /\ got' = [got EXCEPT ![g] = @ \o data]
              /\ req' = [req EXCEPT ![g].from = @ + Chunk - Len(data)]
              /\ UNCHANGED <<setting, pc, at, size, file>>
  /\ UNCHANGED <<objects, temp, session>>
SendChunkPolling(g) ==
  /\ pc[g] = "grpc"
  /\ LET offset == req[g].from + Len(got[g])
         data == IF object = None THEN <<>> ELSE Blocks(object, offset, Chunk) IN
       IF offset >= size[g]
         THEN Done(g)
         ELSE got' = [got EXCEPT ![g] = @ \o data] /\ UNCHANGED <<setting, pc, at, req, size, file>>
  /\ UNCHANGED <<objects, temp, session>>

(* DownloadFile: chunk by chunk, each of whatever is under the name by     *)
(* then.  After the end of a file ReadAt returns nothing, which ends the   *)
(* stream, after that of an object an error.                               *)
SendChunk(g) ==
  /\ pc[g] = "grpc"
  /\ LET offset == req[g].from + Len(got[g])
         data == Blocks(object, offset, Chunk) IN
       \/ offset >= size[g] /\ Done(g)
       \/ offset < size[g] /\ (object # None => data = <<>>) /\ Leave(g)
       \/ offset < size[g] /\ object # None /\ data = <<>> /\ Done(g)
       \/ /\ offset < size[g] /\ object # None /\ data # <<>>
          /\ got' = [got EXCEPT ![g] = @ \o data]
          /\ UNCHANGED <<setting, pc, at, req, size, file>>
  /\ UNCHANGED <<objects, temp, session>>

-----------------------------------------------------------------------------
(* Download sessions; the model follows the one that is created. *)

NewSession(dec, n) == [dec |-> dec, size |-> n]

(* CreateDownloadSession *)
CreateSession(g, i) ==
  /\ g \in Requests /\ Finished(g) /\ "create" \in Kinds /\ ~created
  /\ created' = TRUE
  /\ Arrive(g, i, [NoRequest EXCEPT !.kind = "create"], IF Encrypted THEN "temp" ELSE "keep")
  /\ UNCHANGED <<objects, temp, old, closed, mem, store>>

(* downloadSessions.Store *)
KeepSession(g) ==
  /\ pc[g] = "keep" /\ Goto(g, "persist")
  /\ mem' = [mem EXCEPT ![at[g]] = NewSession(IF Encrypted THEN got[g] ELSE None, size[g])]
  /\ UNCHANGED <<objects, locals, temp, created, old, closed, store>>

(* sessionStore.Set; a failure is only logged. *)
Persist(g) ==
  /\ pc[g] = "persist" /\ IF req[g].kind = "chunk" THEN Done(g) ELSE Leave(g)
  /\ \/ store' = [size |-> size[g], stale |-> FALSE]
     \/ "store" \in Faults /\ UNCHANGED store
  /\ UNCHANGED <<objects, temp, created, old, closed, mem>>

(* DownloadChunk: the session from memory, else from the session store *)
BeginChunk(g, i, from) ==
  /\ g \in Requests /\ Finished(g) /\ "chunk" \in Kinds
  /\ created /\ \A h \in Requests : req[h].kind = "create" => Finished(h)
  /\ at' = [at EXCEPT ![g] = i]
  /\ req' = [req EXCEPT ![g] = [kind |-> "chunk", from |-> from, count |-> 1]]
  /\ got' = [got EXCEPT ![g] = <<>>]
  /\ \/ /\ mem[i] # None /\ file' = [file EXCEPT ![g] = mem[i].dec]
        /\ size' = [size EXCEPT ![g] = mem[i].size] /\ Goto(g, "chunk")
     \/ mem[i] = None /\ Goto(g, "restore") /\ UNCHANGED <<file, size>>
  /\ UNCHANGED <<objects, temp, session>>

(* sessionStore.Get and downloadSessions.Store: the decrypted file is not  *)
(* part of what is stored.                                                 *)
RestoreSession(g) ==
  /\ pc[g] = "restore"
  /\ \/ store = None /\ Leave(g) /\ UNCHANGED mem
     \/ store # None /\ store.stale /\ Goto(g, "forget") /\ UNCHANGED <<locals, mem>>
     \/ /\ store # None /\ ~store.stale /\ Goto(g, "chunk")
        /\ mem' = [mem EXCEPT ![at[g]] = NewSession(None, store.size)]
        /\ size' = [size EXCEPT ![g] = store.size]
        /\ UNCHANGED <<at, req, file, got>>
  /\ UNCHANGED <<objects, temp, created, old, closed, store>>

(* MemorySessionStore.Get deletes an expired entry under a second lock,    *)
(* whatever it has become.                                                 *)
ForgetStale(g) ==
  /\ pc[g] = "forget" /\ Leave(g) /\ store' = None
  /\ UNCHANGED <<objects, temp, created, old, closed, mem>>

(* The data of the decrypted file, else of the object; every eighth chunk  *)
(* updates the session store.                                              *)
ReadChunk(g) ==
  /\ pc[g] = "chunk"
  /\ LET readable == IF file[g] # None THEN ~closed ELSE object # None
         data == IF file[g] # None THEN file[g] ELSE object IN
       \/ (req[g].from >= size[g] \/ ~readable) /\ Leave(g)
       \/ /\ req[g].from < size[g] /\ readable
          /\ got' = [got EXCEPT ![g] = Blocks(data, req[g].from, req[g].count)]
          /\ \/ Goto(g, "ok") /\ Forget(g) /\ UNCHANGED req
             \/ Goto(g, "persist") /\ file' = [file EXCEPT ![g] = None] /\ UNCHANGED <<at, req, size>>
  /\ UNCHANGED <<objects, temp, session>>

(* Mutant: CleanupExpiredSessions passes over the sessions that were restored. *)
EndOwnSession(g, i) ==
  /\ Finished(g) /\ mem[i] # None
  /\ IF g \in Requests THEN "end" \in Kinds ELSE g = i /\ old /\ mem[i].dec # None
  /\ at' = [at EXCEPT ![g] = i]
  /\ req' = [req EXCEPT ![g] = [NoRequest EXCEPT !.kind = IF g \in Requests THEN "end" ELSE "expire"]]
  /\ file' = [file EXCEPT ![g] = mem[i].dec] /\ got' = [got EXCEPT ![g] = <<>>]
  /\ Goto(g, "close")
  /\ UNCHANGED <<objects, size, temp, session>>

(* CompleteDownload and AbortDownload; CleanupExpiredSessions for a session *)
(* whose CreatedAt is too long ago                                          *)
EndSession(g, i) ==
  /\ Finished(g) /\ mem[i] # None
  /\ IF g \in Requests THEN "end" \in Kinds ELSE g = i /\ old
  /\ at' = [at EXCEPT ![g] = i]
  /\ req' = [req EXCEPT ![g] = [NoRequest EXCEPT !.kind = IF g \in Requests THEN "end" ELSE "expire"]]
  /\ file' = [file EXCEPT ![g] = mem[i].dec] /\ got' = [got EXCEPT ![g] = <<>>]
  /\ Goto(g, "close")
  /\ UNCHANGED <<objects, size, temp, session>>

(* Mutant: the decrypted file is closed and left there. *)
CloseKeepsFile(g) ==
  /\ pc[g] = "close" /\ Goto(g, "drop")
  /\ file' = [file EXCEPT ![g] = None] /\ closed' = (closed \/ file[g] # None)
  /\ UNCHANGED <<objects, at, req, size, got, temp, created, old, mem, store>>

(* decryptedFile.Close and os.Remove of ".dec" *)
CloseSession(g) ==
  /\ pc[g] = "close" /\ Goto(g, "drop")
  /\ file' = [file EXCEPT ![g] = None]
  /\ closed' = (closed \/ file[g] # None)
  /\ temp' = IF file[g] # None THEN temp \ {<<at[g], "session", "dec">>} ELSE temp
  /\ UNCHANGED <<objects, at, req, size, got, created, old, mem, store>>

(* downloadSessions.Delete *)
DropSession(g) ==
  /\ pc[g] = "drop" /\ Goto(g, "unstore") /\ mem' = [mem EXCEPT ![at[g]] = None]
  /\ UNCHANGED <<objects, locals, temp, created, old, closed, store>>

(* sessionStore.Delete *)
UnstoreSession(g) ==
  /\ pc[g] = "unstore" /\ Leave(g) /\ store' = None
  /\ UNCHANGED <<objects, temp, created, old, closed, mem>>

-----------------------------------------------------------------------------
(* Two hours pass; an entry of the store lives at least as long. *)
Age ==
  /\ created /\ ~old /\ old' = TRUE
  /\ UNCHANGED <<setting, objects, pc, locals, temp, created, closed, mem, store>>

(* Redis drops an expired entry; the memory store keeps it until it is read. *)
ExpireEntry ==
  /\ old /\ store # None /\ ~store.stale
  /\ store' = IF Backend = "redis" THEN None ELSE [store EXCEPT !.stale = TRUE]
  /\ UNCHANGED <<setting, objects, pc, locals, temp, created, old, closed, mem>>

(* An instance dies and is started again.  The sweep of main finds the     *)
(* temp directories that earlier runs made in os.TempDir(), not the one    *)
(* that storage.temp_dir names, and goes on when it cannot remove them;    *)
(* nobody knows the names of the files that stay.                          *)
Restart(i) ==
  /\ "crash" \in Faults
  /\ LET lost == {g \in Goroutines : at[g] = i}
         Reset(f, x) == [g \in Goroutines |-> IF g \in lost THEN x ELSE f[g]] IN
       /\ mem[i] # None \/ lost # {}
       /\ pc' = Reset(pc, "idle") /\ at' = Reset(at, None) /\ req' = Reset(req, NoRequest)
       /\ size' = Reset(size, 0) /\ file' = Reset(file, None) /\ got' = Reset(got, <<>>)
  /\ LET own == {t \in temp : t[1] = i} IN
       \/ ~TempDir /\ temp' = temp \ own
       \/ /\ TempDir \/ "disk" \in Faults
          /\ temp' = (temp \ own) \cup {<<i, "crashed", t[3]>> : t \in own}
  /\ mem' = [mem EXCEPT ![i] = None]
  /\ store' = IF Backend = "memory" THEN None ELSE store
  /\ UNCHANGED <<setting, objects, created, old, closed>>

Work(g) ==
  \/ CreateTemp(g) \/ Open(g) \/ ReadBlock(g) \/ CopyFails(g) \/ Decrypt(g) \/ Serve(g)
  \/ ReadRange(g) \/ SendChunk(g)
  \/ KeepSession(g) \/ Persist(g) \/ RestoreSession(g) \/ ForgetStale(g) \/ ReadChunk(g)
  \/ CloseSession(g) \/ DropSession(g) \/ UnstoreSession(g)

Next ==
  \/ \E v \in Versions : Truncate(v) \/ Replace(v)
  \/ Unlink \/ Write \/ FillFails
  \/ \E g \in Goroutines : Work(g)
  \/ \E g \in Goroutines, i \in Instances :
       \/ \E x \in Request : Begin(g, i, x)
       \/ CreateSession(g, i) \/ EndSession(g, i)
       \/ \E from \in 0 .. MaxBlock : BeginChunk(g, i, from)
  \/ Age \/ ExpireEntry
  \/ \E i \in Instances : Restart(i)

Spec == Init /\ [][Next]_vars

(* Requests run to their end, time passes, and the cleanup ticker ticks. *)
FairSpec ==
  /\ Spec /\ WF_vars(Write) /\ WF_vars(Age)
  /\ \A g \in AllRequests : WF_vars(g \in Requests /\ Work(g))
  /\ \A i \in AllInstances : WF_vars(i \in Instances /\ (Work(i) \/ EndSession(i, i)))

-----------------------------------------------------------------------------
Label == {"idle", "temp", "open", "read", "decrypt", "serve", "range", "grpc", "keep", "persist",
          "restore", "forget", "chunk", "close", "drop", "unstore", "ok"}

(* The variables keep their types. *)
TypeOK ==
  /\ setting \in Settings
  /\ object \in Data \cup {None} /\ row \in Nat \cup {None}
  /\ writer \in [step : {"fill", "row"}, version : Versions \cup {None}, size : Nat \cup {None}] \cup {None}
  /\ pc \in [Goroutines -> Label] /\ at \in [Goroutines -> Instances \cup {None}]
  /\ req \in [Goroutines -> Request] /\ size \in [Goroutines -> Nat]
  /\ file \in [Goroutines -> Data \cup {None, Linked}] /\ got \in [Goroutines -> Data]
  /\ temp \subseteq Instances \X (Requests \cup {"session", "crashed"}) \X {"enc", "dec"}
  /\ created \in BOOLEAN /\ old \in BOOLEAN /\ closed \in BOOLEAN
  /\ mem \in [Instances -> [dec : Data \cup {None}, size : Nat] \cup {None}]
  /\ store \in [size : Nat, stale : BOOLEAN] \cup {None}

(* The goroutine has answered a request of one of the kinds. *)
Answered(g, kinds) == pc[g] = "ok" /\ req[g].kind \in kinds

(***************************************************************************)
(* A client that downloads a file gets one version of it, from its first   *)
(* block to its last, whatever is uploaded meanwhile: always with          *)
(* encryption, whose tag a mixture fails, else when uploads replace the    *)
(* file as a whole (WriteFromTempFile on one file system, object storage). *)
(***************************************************************************)
ServedIntact ==
  \A g \in Requests :
    Answered(g, {"whole", "stream"}) /\ (Encrypted \/ "inplace" \notin Writes)
      => \E v \in Versions : got[g] = Plain(v)

(***************************************************************************)
(* The blocks a stream or a range delivers are those of the offsets asked  *)
(* for, in order and without gaps, even when the file shrinks and grows    *)
(* between two chunks.                                                     *)
(***************************************************************************)
NoGapsOrRepeats ==
  \A g \in Requests : \A k \in 1 .. Len(got[g]) : got[g][k][2] = req[g].from + k

(***************************************************************************)
(* Decrypted content does not stay on the disk: when no write to it and no *)
(* removal fails, a temp file belongs to a request at work, to a session   *)
(* that its instance still has or, only with storage.temp_dir, to a run    *)
(* that crashed.                                                           *)
(***************************************************************************)
NoTempLeft ==
  "disk" \notin Faults =>
    \A t \in temp :
      \/ \E g \in Requests : ~Finished(g) /\ t \in {Enc(g), Dec(g)}
      \/ t[2] = "session" /\ mem[t[1]] # None /\ mem[t[1]].dec # None
      \/ t[2] = "crashed" /\ TempDir

(* Every download ends, also when the file shrinks under it. *)
DownloadsEnd ==
  \A g \in AllRequests : (g \in Requests /\ ~Finished(g)) ~> (g \in Requests => Finished(g))

(***************************************************************************)
(* CleanupExpiredSessions: no session stays in the memory of an instance,  *)
(* although clients go on reading and so restore it.                       *)
(***************************************************************************)
SessionsExpire ==
  \A i \in AllInstances : (i \in Instances /\ mem[i] # None) ~> (i \in Instances => mem[i] = None)
=============================================================================
