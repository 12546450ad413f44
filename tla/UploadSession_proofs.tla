------------------------ MODULE UploadSession_proofs ------------------------
(***************************************************************************)
(* Proofs about UploadSession: for any number of instances, requests and   *)
(* chunks, and any client.                                                 *)
(***************************************************************************)
EXTENDS UploadSession, TLAPS

(* What is used of sequences, here the contents that have been hashed. *)
LEMMA LenProperties ==
  ASSUME NEW S, NEW s \in Seq(S)
  PROVE  Len(s) \in Nat
OBVIOUS

LEMMA ElementOfSeq ==
  ASSUME NEW S, NEW s \in Seq(S), NEW n \in 1 .. Len(s)
  PROVE  s[n] \in S
OBVIOUS

LEMMA AppendProperties ==
  ASSUME NEW S, NEW s \in Seq(S), NEW e \in S
  PROVE  /\ Append(s, e) \in Seq(S) /\ Len(Append(s, e)) = Len(s) + 1
         /\ \A i \in 1 .. Len(s) : Append(s, e)[i] = s[i]
         /\ Append(s, e)[Len(s) + 1] = e
OBVIOUS

(* The steps of UploadChunk that hold the lock of the session. *)
Locked == {"check", "write", "opened", "hash", "count", "persist"}

(* Where a request is tells which of its locals are set, and what a chunk  *)
(* that was written left in the temp file.                                 *)
Local(r) ==
  /\ pc[r] \notin {"idle", "restore"} => val[r] \in Objects
  /\ pc[r] = "restore" => snap[r] \in Nat /\ kind[r] \in {"chunk", "complete"}
  /\ pc[r] \notin {"restore", "lock", "move"} => snap[r] = None \/ snap[r] \in Content
  /\ pc[r] \in {"lock", "move"} => IF Encrypt THEN snap[r] \in Content ELSE snap[r] = None \/ snap[r] \in Content
  /\ pc[r] \in {"write", "opened", "hash"} => arg[r][1] + 1 <= N
  /\ pc[r] \in Locked => lock = r
  /\ pc[r] = "hash" => temp[arg[r][1]] = arg[r][2]

LocalsTyped ==
  /\ pc \in [Requests -> Label] /\ at \in [Requests -> Instances]
  /\ kind \in [Requests -> Label \cup {"none"}] /\ val \in [Requests -> Objects \cup {None}]
  /\ arg \in [Requests -> (0 .. N) \X Data] /\ snap \in [Requests -> Nat \cup Content \cup {None}]

SharedTyped ==
  /\ temp \in Content /\ where \in {"temp", "stored", "gone"}
  /\ copy \in Content \cup {None} /\ row \in BOOLEAN
  /\ store \in Nat \cup {None} /\ done \in BOOLEAN
  /\ lock \in Requests \cup {None} /\ flock \in Requests \cup {None}

MemoryTyped ==
  /\ session \in [Objects -> SessionValue] /\ \A o \in Objects : Len(session[o].hashed) <= N
  /\ map \in [Instances -> Objects \cup {None}] /\ count \in [Instances -> Int]

TypeInv ==
  /\ setting \in Settings /\ LocalsTyped /\ SharedTyped /\ MemoryTyped
  /\ \A r \in Requests : Local(r)

(* A session that has left the map of an instance holds no slot of it; one *)
(* in the map holds at most one (a restored one holds none).               *)
SlotInv == \A i \in Instances : count[i] <= IF map[i] = None THEN 0 ELSE 1

(* Only the session as created has a hasher: while it is in the map no     *)
(* other value of the session is in use.  Where its hash and the file      *)
(* differ, the chunk just written has still to be hashed.                  *)
HashInv ==
  Instances = {Home} /\ "partial" \notin FailedWrites /\ map[Home] # None /\ session[map[Home]].hasher =>
    /\ \A r \in Requests : val[r] \in {None, map[Home]}
    /\ session[map[Home]].valid =>
         \A k \in 1 .. Len(session[map[Home]].hashed) :
           \/ session[map[Home]].hashed[k] = temp[k - 1]
           \/ \E r \in Requests : pc[r] = "hash" /\ arg[r][1] = k - 1

UploadInv == TypeInv /\ SlotInv /\ HashInv

-----------------------------------------------------------------------------
LEMMA SettingTypes ==
  ASSUME setting \in Settings
  PROVE  /\ N \in Nat \ {0} /\ PersistEvery \in Nat \ {0} /\ Home \in Instances
         /\ "good" \in Data /\ Data \subseteq {"good", "bad"} /\ Kinds \subseteq {"chunk", "complete", "abort", "cleanup", "crash"}
         /\ <<0, "good">> \in (0 .. N) \X Data
<1>1. setting \in Setting /\ Home \in setting.instances
  BY UploadConstants, Zenon
<1>2. /\ setting.n \in Nat \ {0} /\ setting.persistEvery \in Nat \ {0}
      /\ setting.data \in {{"good"}, {"good", "bad"}}
      /\ setting.kinds \subseteq {"chunk", "complete", "abort", "cleanup", "crash"}
  BY <1>1, Zenon DEF Setting
<1>3. /\ N \in Nat \ {0} /\ PersistEvery \in Nat \ {0} /\ Home \in Instances /\ "good" \in Data
      /\ Data \subseteq {"good", "bad"} /\ Kinds \subseteq {"chunk", "complete", "abort", "cleanup", "crash"}
  BY <1>1, <1>2, Zenon DEF N, PersistEvery, Instances, Data, Kinds
<1>4. 0 \in 0 .. N
  BY <1>3
<1> QED BY <1>3, <1>4, Zenon

(***************************************************************************)
(* No action changes the setting.                                          *)
(***************************************************************************)
LEMMA SettingFixed == [Next]_vars => setting' = setting
<1>1. ASSUME NEW r, ChunkStep(r) PROVE setting' = setting
  BY <1>1, Zenon DEF ChunkStep, ChunkLock, ChunkCheck, ChunkOpen, ChunkWrite, ChunkHash, ChunkCount, ChunkPersist,
       Goto, Return
<1>2. ASSUME NEW r, CompleteStep(r) PROVE setting' = setting
  BY <1>2, Zenon DEF CompleteStep, CompleteCheck, CompleteClose, CompleteVerify, CompleteEncrypt, CompleteLock,
       CompleteMove, CompleteMeta, CompleteFinish, Goto, Return
<1>3. ASSUME NEW r, Restore(r) \/ AbortStep(r) \/ Unstore(r) PROVE setting' = setting
  BY <1>3, Zenon DEF Restore, AbortStep, AbortClose, AbortDrop, AbortRemove, Unstore, Goto, Return
<1>4. ASSUME NEW r, NEW k, NEW i, NEW c, NEW d, Start(r, k, i, c, d) PROVE setting' = setting
  BY <1>4, Zenon DEF Start, Goto
<1>5. ASSUME NEW i, Crash(i) PROVE setting' = setting
  BY <1>5, Zenon DEF Crash
<1> QED BY <1>1, <1>2, <1>3, <1>4, <1>5, Zenon DEF Next, vars

LEMMA SettingFrame ==
  ASSUME setting' = setting
  PROVE  /\ N' = N /\ PersistEvery' = PersistEvery /\ Instances' = Instances /\ Data' = Data
         /\ Encrypt' = Encrypt /\ FailedWrites' = FailedWrites /\ Content' = Content /\ SessionValue' = SessionValue
BY Zenon DEF N, PersistEvery, Instances, Data, Encrypt, FailedWrites, Content, Chunks, SessionValue

-----------------------------------------------------------------------------
OnlyLocalsOf(r) ==
  \A h \in Requests \ {r} :
    /\ pc'[h] = pc[h] /\ at'[h] = at[h] /\ kind'[h] = kind[h] /\ val'[h] = val[h]
    /\ arg'[h] = arg[h] /\ snap'[h] = snap[h]

(***************************************************************************)
(* What a request leaves that returns, or goes on with its locals          *)
(***************************************************************************)
LEMMA ReturnEffect ==
  ASSUME setting \in Settings, setting' = setting, LocalsTyped, NEW r \in Requests, Return(r)
  PROVE  /\ LocalsTyped' /\ OnlyLocalsOf(r) /\ pc'[r] = "idle" /\ val'[r] = None /\ snap'[r] = None
         /\ Local(r)'
<1>1. /\ LocalsTyped' /\ OnlyLocalsOf(r) /\ pc'[r] = "idle" /\ val'[r] = None /\ snap'[r] = None
  BY SettingTypes, SettingFrame DEF LocalsTyped, OnlyLocalsOf, Return, Goto, Label
<1> QED BY <1>1, Zenon DEF Local, Locked

LEMMA GotoEffect ==
  ASSUME setting' = setting, LocalsTyped, NEW r \in Requests, NEW label \in Label, Goto(r, label),
         UNCHANGED locals
  PROVE  /\ LocalsTyped' /\ OnlyLocalsOf(r) /\ pc'[r] = label
         /\ at'[r] = at[r] /\ kind'[r] = kind[r] /\ val'[r] = val[r] /\ arg'[r] = arg[r] /\ snap'[r] = snap[r]
BY SettingFrame, Zenon DEF LocalsTyped, OnlyLocalsOf, Goto, locals

(***************************************************************************)
(* The lock of the session keeps other chunks out, so a step of r does not *)
(* touch what the others rely on.                                          *)
(***************************************************************************)
LEMMA OthersKept ==
  ASSUME setting' = setting, \A h \in Requests : Local(h), NEW r \in Requests, OnlyLocalsOf(r),
         Local(r)', None \notin Requests,
         lock' = lock \/ lock = r \/ lock = None, temp' = temp \/ pc[r] \in Locked
  PROVE  \A h \in Requests : Local(h)'
<1> SUFFICES ASSUME NEW h \in Requests \ {r} PROVE Local(h)'
  BY Zenon
<1>1. /\ pc'[h] = pc[h] /\ kind'[h] = kind[h] /\ val'[h] = val[h] /\ arg'[h] = arg[h] /\ snap'[h] = snap[h]
      /\ N' = N /\ Encrypt' = Encrypt /\ Content' = Content
  BY SettingFrame, Zenon DEF OnlyLocalsOf
<1>2. pc[h] \in Locked => lock' = h /\ temp' = temp
  <2> HAVE pc[h] \in Locked
  <2>1. lock = h /\ h # r /\ h # None
    BY Zenon DEF Local
  <2> QED BY <2>1, Zenon DEF Local
<1>3. pc[h] = "hash" => pc[h] \in Locked
  BY Zenon DEF Locked
<1>4. Local(h)
  BY Zenon
<1> QED BY <1>1, <1>2, <1>3, <1>4 DEF Local, Locked

-----------------------------------------------------------------------------
(***************************************************************************)
(* A session stays a session when one of its fields is set.                *)
(***************************************************************************)
Kept(s, t) == t.hasher = s.hasher /\ t.valid = s.valid /\ t.hashed = s.hashed

LEMMA Updated ==
  ASSUME MemoryTyped, NEW o \in Objects, NEW s \in SessionValue, Len(s.hashed) <= N,
         setting' = setting, session' = [session EXCEPT ![o] = s]
  PROVE  /\ session' \in [Objects -> SessionValue'] /\ \A x \in Objects : Len(session'[x].hashed) <= N'
         /\ session'[o] = s /\ \A x \in Objects \ {o} : session'[x] = session[x]
BY SettingFrame, Zenon DEF MemoryTyped

LEMMA FieldSet ==
  ASSUME setting \in Settings, NEW s \in SessionValue, NEW b \in BOOLEAN
  PROVE  /\ [s EXCEPT !.closed = b] \in SessionValue /\ Kept(s, [s EXCEPT !.closed = b])
         /\ [s EXCEPT !.open = b] \in SessionValue /\ Kept(s, [s EXCEPT !.open = b])
         /\ [s EXCEPT !.closed = TRUE, !.open = FALSE] \in SessionValue
         /\ Kept(s, [s EXCEPT !.closed = TRUE, !.open = FALSE])
         /\ [s EXCEPT !.valid = FALSE] \in SessionValue
         /\ \A n \in Nat, c \in 0 .. PersistEvery - 1 :
              /\ [s EXCEPT !.size = n, !.chunks = c] \in SessionValue
              /\ Kept(s, [s EXCEPT !.size = n, !.chunks = c])
BY Zenon DEF SessionValue, Kept

LEMMA HashedEffect ==
  ASSUME setting \in Settings, NEW s \in SessionValue, Len(s.hashed) <= N, NEW k \in 0 .. N, k + 1 <= N, NEW d \in Data
  PROVE  /\ Hashed(s, k, d) \in SessionValue /\ Len(Hashed(s, k, d).hashed) <= N
         /\ Hashed(s, k, d).hasher = s.hasher
         /\ s.hasher /\ Hashed(s, k, d).valid =>
              s.valid /\ k = Len(s.hashed) /\ Hashed(s, k, d).hashed = Append(s.hashed, d)
<1>1. s.hashed \in Seq(Data) /\ s.hasher \in BOOLEAN /\ s.valid \in BOOLEAN /\ Len(s.hashed) \in Nat
  BY LenProperties, Zenon DEF SessionValue
<1>2. CASE ~(s.hasher /\ s.valid)
  BY <1>1, <1>2, Zenon DEF Hashed
<1>3. CASE s.hasher /\ s.valid /\ k = Len(s.hashed)
  <2>1. Hashed(s, k, d) = [s EXCEPT !.hashed = Append(s.hashed, d)]
    BY <1>3, Zenon DEF Hashed
  <2>2. Append(s.hashed, d) \in Seq(Data) /\ Len(Append(s.hashed, d)) = Len(s.hashed) + 1
    BY <1>1, AppendProperties
  <2>3. [s EXCEPT !.hashed = Append(s.hashed, d)] \in SessionValue
    BY <2>2, Zenon DEF SessionValue
  <2>4. Hashed(s, k, d).hashed = Append(s.hashed, d) /\ Hashed(s, k, d).hasher = s.hasher
    BY <2>1, Zenon DEF SessionValue
  <2> QED BY <1>1, <1>3, <2>1, <2>2, <2>3, <2>4, Zenon
<1>4. CASE s.hasher /\ s.valid /\ k # Len(s.hashed)
  <2>1. Hashed(s, k, d) = [s EXCEPT !.valid = FALSE]
    BY <1>4, Zenon DEF Hashed
  <2>2. /\ [s EXCEPT !.valid = FALSE].hashed = s.hashed /\ [s EXCEPT !.valid = FALSE].hasher = s.hasher
        /\ [s EXCEPT !.valid = FALSE].valid = FALSE
    BY Zenon DEF SessionValue
  <2> QED BY <2>1, <2>2, FieldSet, Zenon
<1> QED BY <1>2, <1>3, <1>4, Zenon

LEMMA NewSessionTyped ==
  ASSUME setting \in Settings, NEW n \in Nat, NEW b \in BOOLEAN, NEW open \in BOOLEAN
  PROVE  /\ NewSession(n, b, open) \in SessionValue /\ NewSession(n, b, open).hasher = b
         /\ Len(NewSession(n, b, open).hashed) <= N
<1>1. 0 \in 0 .. PersistEvery - 1 /\ <<>> \in Seq(Data) /\ Len(<<>>) <= N
  BY SettingTypes
<1>2. NewSession(n, b, open).hashed = <<>>
  BY Zenon DEF NewSession
<1> QED BY <1>1, <1>2, Zenon DEF NewSession, SessionValue

(***************************************************************************)
(* What the steps do to the session values: all but Restore and ChunkHash  *)
(* leave the hash alone.                                                   *)
(***************************************************************************)
SessionsKept ==
  /\ session' \in [Objects -> SessionValue'] /\ \A o \in Objects : Len(session'[o].hashed) <= N'
  /\ \A o \in Objects : Kept(session[o], session'[o])

LEMMA SessionFrame ==
  ASSUME setting' = setting, MemoryTyped, UNCHANGED session
  PROVE  SessionsKept
BY SettingFrame, Zenon DEF SessionsKept, MemoryTyped, Kept

LEMMA SessionUpdate ==
  ASSUME setting' = setting, MemoryTyped, NEW o \in Objects, NEW s \in SessionValue, Kept(session[o], s),
         session' = [session EXCEPT ![o] = s]
  PROVE  SessionsKept
<1>1. Len(s.hashed) <= N
  BY Zenon DEF Kept, MemoryTyped
<1> QED BY <1>1, Updated, Zenon DEF SessionsKept, Kept

LEMMA SessionSteps ==
  ASSUME TypeInv, setting' = setting, NEW r \in Requests,
         ChunkCount(r) \/ CompleteCheck(r) \/ CompleteClose(r) \/ AbortClose(r)
  PROVE  SessionsKept
<1> DEFINE o == val[r]
<1>1. o \in Objects /\ session[o] \in SessionValue /\ setting \in Settings /\ MemoryTyped
  <2>1. pc[r] \notin {"idle", "restore"}
    BY DEF ChunkCount, CompleteCheck, CompleteClose, AbortClose
  <2> QED BY <2>1, Zenon DEF TypeInv, Local, MemoryTyped
<1>2. CASE ChunkCount(r)
  <2> DEFINE s == [session[o] EXCEPT !.size = @ + 1, !.chunks = (@ + 1) % PersistEvery]
  <2>1. session[o].size + 1 \in Nat /\ session[o].chunks + 1 \in Nat
    <3>1. session[o].size \in Nat /\ session[o].chunks \in 0 .. PersistEvery - 1
      BY <1>1, Zenon DEF SessionValue
    <3>2. PersistEvery \in Nat
      BY <1>1, SettingTypes, Zenon
    <3> QED BY <3>1, <3>2
  <2>2. (session[o].chunks + 1) % PersistEvery \in 0 .. PersistEvery - 1
    BY <1>1, <2>1, SettingTypes
  <2>3. s \in SessionValue /\ Kept(session[o], s)
    BY <1>1, <2>1, <2>2, FieldSet, Zenon
  <2>4. session' = [session EXCEPT ![o] = s]
    BY <1>2, Zenon DEF ChunkCount
  <2> HIDE DEF s, o
  <2> QED BY <1>1, <2>3, <2>4, SessionUpdate, Zenon
<1>3. CASE CompleteCheck(r)
  <2>1. CASE UNCHANGED session
    BY <1>1, <2>1, SessionFrame, Zenon
  <2>2. CASE session' = [session EXCEPT ![o].closed = TRUE]
    <3>1. session' = [session EXCEPT ![o] = [session[o] EXCEPT !.closed = TRUE]]
      BY <2>2, Zenon
    <3> HIDE DEF o
    <3> QED BY <1>1, <3>1, FieldSet, SessionUpdate, Zenon
  <2> QED BY <1>3, <2>1, <2>2, Zenon DEF CompleteCheck
<1>4. CASE CompleteClose(r)
  <2>1. session' = [session EXCEPT ![o] = [session[o] EXCEPT !.open = FALSE]]
    BY <1>4, Zenon DEF CompleteClose
  <2> HIDE DEF o
  <2> QED BY <1>1, <2>1, FieldSet, SessionUpdate, Zenon
<1>5. CASE AbortClose(r)
  <2>1. session' = [session EXCEPT ![o] = [session[o] EXCEPT !.closed = TRUE, !.open = FALSE]]
    BY <1>5, Zenon DEF AbortClose
  <2> HIDE DEF o
  <2> QED BY <1>1, <2>1, FieldSet, SessionUpdate, Zenon
<1> QED BY <1>2, <1>3, <1>4, <1>5, Zenon

-----------------------------------------------------------------------------
(* The map and the counters keep their types and the slots are released. *)
SlotsKept ==
  /\ map' \in [Instances' -> Objects \cup {None}] /\ count' \in [Instances' -> Int]
  /\ SlotInv'

LEMMA DropEffect ==
  ASSUME setting' = setting, LocalsTyped, MemoryTyped, SlotInv, NEW r \in Requests, Drop(r)
  PROVE  SlotsKept /\ \A i \in Instances : map'[i] \in {None, map[i]}
<1>1. at[r] \in Instances
  BY Zenon DEF LocalsTyped
<1>2. map' \in [Instances' -> Objects \cup {None}] /\ count' \in [Instances' -> Int]
  <2>1. map' \in [Instances -> Objects \cup {None}]
    BY <1>1, Zenon DEF MemoryTyped, Drop
  <2>2. count[at[r]] - 1 \in Int
    BY <1>1 DEF MemoryTyped
  <2>3. count' \in [Instances -> Int]
    BY <1>1, <2>2, Zenon DEF MemoryTyped, Drop
  <2> QED BY <2>1, <2>3, SettingFrame, Zenon
<1>3. \A i \in Instances : map'[i] = IF i = at[r] THEN None ELSE map[i]
  BY <1>1, Zenon DEF MemoryTyped, Drop
<1>4. \A i \in Instances : count[i] \in Int /\ count'[i] = IF i = at[r] THEN count[i] - 1 ELSE count[i]
  BY <1>1, Zenon DEF MemoryTyped, Drop
<1>5. SlotInv'
  <2> SUFFICES ASSUME NEW i \in Instances PROVE count'[i] <= IF map'[i] = None THEN 0 ELSE 1
    BY SettingFrame, Zenon DEF SlotInv
  <2>1. count[i] <= IF map[i] = None THEN 0 ELSE 1
    BY Zenon DEF SlotInv
  <2> QED BY <1>3, <1>4, <2>1
<1> QED BY <1>2, <1>3, <1>5, Zenon DEF SlotsKept

LEMMA SlotsFrame ==
  ASSUME setting' = setting, MemoryTyped, SlotInv, UNCHANGED <<map, count>>
  PROVE  SlotsKept
BY SettingFrame, Zenon DEF SlotsKept, SlotInv, MemoryTyped

-----------------------------------------------------------------------------
(* A step of r that returns or goes on without touching the temp file. *)
LocalsKept(r) ==
  /\ LocalsTyped' /\ OnlyLocalsOf(r) /\ Local(r)'
  /\ val'[r] \in {None, val[r], map[at'[r]]} /\ pc[r] # "hash" /\ pc'[r] # "hash"

LEMMA ReturnKept ==
  ASSUME TypeInv, setting' = setting, NEW r \in Requests, pc[r] # "hash", Return(r)
  PROVE  LocalsKept(r)
BY ReturnEffect, Zenon DEF LocalsKept, TypeInv

LEMMA GotoKept ==
  ASSUME TypeInv, setting' = setting, NEW r \in Requests, pc[r] \notin {"idle", "restore", "hash"},
         NEW label \in Label, Goto(r, label), UNCHANGED locals,
         label \notin {"idle", "restore", "hash"},
         label \in {"lock", "move"} /\ Encrypt => snap[r] \in Content,
         label \in {"write", "opened"} => arg[r][1] + 1 <= N,
         label \in Locked => lock' = r
  PROVE  LocalsKept(r)
<1>1. /\ LocalsTyped' /\ OnlyLocalsOf(r) /\ pc'[r] = label
      /\ kind'[r] = kind[r] /\ val'[r] = val[r] /\ arg'[r] = arg[r] /\ snap'[r] = snap[r]
  BY GotoEffect, Zenon DEF TypeInv
<1>2. val[r] \in Objects /\ (snap[r] = None \/ snap[r] \in Content)
  <2>1. Local(r) /\ pc[r] \notin {"idle", "restore"}
    BY Zenon DEF TypeInv
  <2> QED BY <2>1, Zenon DEF Local
<1>3. Local(r)'
  BY <1>1, <1>2, SettingFrame DEF Local, Locked
<1> QED BY <1>1, <1>3, Zenon DEF LocalsKept

(* What such a step does to the shared state *)
Quiet(r) ==
  /\ LocalsKept(r) /\ SharedTyped' /\ SessionsKept /\ SlotsKept
  /\ lock' = lock \/ lock = r \/ lock = None
  /\ temp' = temp /\ \A i \in Instances : map'[i] \in {None, map[i]}

LEMMA QuietChunk ==
  ASSUME TypeInv, SlotInv, setting' = setting, NEW r \in Requests,
         ChunkLock(r) \/ ChunkCheck(r) \/ ChunkOpen(r) \/ ChunkCount(r) \/ ChunkPersist(r)
  PROVE  Quiet(r)
<1> USE DEF Label, Locked
<1>0. /\ setting \in Settings /\ LocalsTyped /\ SharedTyped /\ MemoryTyped /\ Local(r) /\ None \notin Requests
      /\ pc[r] \in Locked => lock = r
  BY UploadConstants, Zenon DEF TypeInv, Local
<1>1. pc[r] \in {"chunk", "check", "write", "count", "persist"}
  BY Zenon DEF ChunkLock, ChunkCheck, ChunkOpen, ChunkCount, ChunkPersist
<1>2. UNCHANGED <<map, count, temp, where, copy, row, flock, done>>
  BY Zenon DEF ChunkLock, ChunkCheck, ChunkOpen, ChunkCount, ChunkPersist, files
<1>3. SlotsKept /\ \A i \in Instances : map'[i] \in {None, map[i]}
  BY <1>0, <1>2, SlotsFrame, Zenon
<1>4. SessionsKept
  <2>1. CASE ChunkCount(r)
    BY <2>1, SessionSteps, Zenon
  <2>2. CASE ~ChunkCount(r)
    BY <1>0, <2>2, SessionFrame, Zenon DEF ChunkLock, ChunkCheck, ChunkOpen, ChunkPersist
  <2> QED BY <2>1, <2>2, Zenon
<1>5. store' \in Nat \cup {None}
  <2>1. CASE ChunkPersist(r)
    <3>1. val[r] \in Objects
      BY <2>1, <1>0, Zenon DEF ChunkPersist, Local
    <3>2. session[val[r]].size \in Nat
      BY <1>0, <3>1 DEF MemoryTyped, SessionValue
    <3> QED BY <1>0, <2>1, <3>2, Zenon DEF ChunkPersist, Object, SharedTyped
  <2>2. CASE ~ChunkPersist(r)
    BY <1>0, <2>2, Zenon DEF ChunkLock, ChunkCheck, ChunkOpen, ChunkCount, SharedTyped
  <2> QED BY <2>1, <2>2
<1>6. LocalsKept(r) /\ lock' \in {lock, r, None} /\ (lock' = lock \/ lock = r \/ lock = None)
  <2>1. CASE ChunkLock(r)
    <3>1. CASE lock' = r /\ Goto(r, "check") /\ UNCHANGED locals
      BY <1>1, <2>1, <3>1, GotoKept, Zenon DEF ChunkLock
    <3>2. CASE Return(r) /\ UNCHANGED lock
      BY <1>1, <3>2, ReturnKept, Zenon
    <3> QED BY <2>1, <3>1, <3>2 DEF ChunkLock
  <2>2. CASE ChunkCheck(r)
    <3>1. CASE Goto(r, "write") /\ UNCHANGED <<lock, locals>> /\ ~(arg[r][1] + 1 > N)
      <4>1. arg[r][1] \in 0 .. N /\ N \in Nat
        BY <1>0, SettingTypes, Zenon DEF LocalsTyped
      <4>2. arg[r][1] + 1 <= N
        BY <3>1, <4>1
      <4> QED BY <1>0, <1>1, <2>2, <3>1, <4>2, GotoKept, Zenon DEF ChunkCheck
    <3>2. CASE Return(r) /\ lock' = None
      BY <1>0, <1>1, <2>2, <3>2, ReturnKept, Zenon DEF ChunkCheck
    <3> QED BY <2>2, <3>1, <3>2 DEF ChunkCheck
  <2>3. CASE ChunkOpen(r)
    <3>1. CASE Goto(r, "opened") /\ UNCHANGED <<lock, locals>>
      <4>1. arg[r][1] + 1 <= N
        BY <1>0, <2>3, Zenon DEF ChunkOpen, Local
      <4> QED BY <1>0, <1>1, <2>3, <3>1, <4>1, GotoKept, Zenon DEF ChunkOpen
    <3>2. CASE Return(r) /\ lock' = None
      BY <1>0, <1>1, <2>3, <3>2, ReturnKept DEF ChunkOpen
    <3> QED BY <2>3, <3>1, <3>2, Zenon DEF ChunkOpen
  <2>4. CASE ChunkCount(r)
    <3>1. CASE Goto(r, "persist") /\ UNCHANGED <<lock, locals>>
      BY <1>0, <1>1, <2>4, <3>1, GotoKept, Zenon DEF ChunkCount
    <3>2. CASE Return(r) /\ lock' = None
      BY <1>0, <1>1, <2>4, <3>2, ReturnKept DEF ChunkCount
    <3> QED BY <2>4, <3>1, <3>2, Zenon DEF ChunkCount
  <2>5. CASE ChunkPersist(r)
    BY <1>0, <1>1, <2>5, ReturnKept, Zenon DEF ChunkPersist
  <2> QED BY <2>1, <2>2, <2>3, <2>4, <2>5, Zenon
<1>7. SharedTyped'
  BY <1>0, <1>2, <1>5, <1>6, SettingFrame DEF SharedTyped
<1> QED BY <1>2, <1>3, <1>4, <1>6, <1>7, Zenon DEF Quiet
LEMMA QuietComplete ==
  ASSUME TypeInv, SlotInv, setting' = setting, NEW r \in Requests, CompleteStep(r)
  PROVE  Quiet(r)
<1> USE DEF Label, Locked
<1>0. /\ setting \in Settings /\ LocalsTyped /\ SharedTyped /\ MemoryTyped /\ Local(r)
  BY Zenon DEF TypeInv
<1>1. pc[r] \in {"complete", "close", "verify", "encrypt", "lock", "move", "meta", "finish"}
  BY Zenon DEF CompleteStep, CompleteCheck, CompleteClose, CompleteVerify, CompleteEncrypt, CompleteLock,
       CompleteMove, CompleteMeta, CompleteFinish
<1>2. UNCHANGED <<temp, store, lock>>
  BY Zenon DEF CompleteStep, CompleteCheck, CompleteClose, CompleteVerify, CompleteEncrypt, CompleteLock,
       CompleteMove, CompleteMeta, CompleteFinish, files, locks
<1>3. SlotsKept /\ \A i \in Instances : map'[i] \in {None, map[i]}
  <2>1. CASE Drop(r)
    BY <1>0, <2>1, DropEffect
  <2>2. CASE UNCHANGED <<map, count>>
    BY <1>0, <2>2, SlotsFrame, Zenon
  <2> QED
    BY <2>1, <2>2, Zenon DEF CompleteStep, CompleteCheck, CompleteClose, CompleteVerify, CompleteEncrypt, CompleteLock,
       CompleteMove, CompleteMeta, CompleteFinish
<1>4. SessionsKept
  <2>1. CASE CompleteCheck(r) \/ CompleteClose(r)
    BY <2>1, SessionSteps
  <2>2. CASE UNCHANGED session
    BY <1>0, <2>2, SessionFrame, Zenon
  <2> QED
    BY <2>1, <2>2, Zenon DEF CompleteStep, CompleteVerify, CompleteEncrypt, CompleteLock, CompleteMove, CompleteMeta,
       CompleteFinish
<1>5. /\ where' \in {"temp", "stored", "gone"} /\ row' \in BOOLEAN /\ done' \in BOOLEAN
      /\ flock' \in Requests \cup {None}
  <2>1. where' \in {"temp", "stored", "gone"}
    BY <1>0 DEF CompleteStep, CompleteCheck, CompleteClose, CompleteVerify, CompleteEncrypt, CompleteLock,
       CompleteMove, CompleteMeta, CompleteFinish, files, RemoveTemp, WriteFromTempFile, SharedTyped
  <2>2. flock' \in Requests \cup {None}
    BY <1>0, Zenon DEF CompleteStep, CompleteCheck, CompleteClose, CompleteVerify, CompleteEncrypt, CompleteLock,
       CompleteMove, CompleteMeta, CompleteFinish, locks, SharedTyped
  <2>3. row' \in {row, TRUE} /\ done' \in {done, TRUE}
    BY Zenon DEF CompleteStep, CompleteCheck, CompleteClose, CompleteVerify, CompleteEncrypt, CompleteLock,
       CompleteMove, CompleteMeta, CompleteFinish, files
  <2> QED BY <1>0, <2>1, <2>2, <2>3, Zenon DEF SharedTyped
<1>6. copy' \in Content \cup {None}
  <2>1. CASE CompleteMove(r)
    <3>1. Encrypt => snap[r] \in Content
      BY <1>0, <2>1, Zenon DEF CompleteMove, Local
    <3>2. PICK w \in WriteFromTempFile(r) : copy' = w.copy
      BY <2>1, Zenon DEF CompleteMove
    <3>3. w.copy \in {copy, None, temp} \cup (IF Encrypt THEN {snap[r]} ELSE {})
      BY <3>2 DEF WriteFromTempFile
    <3> QED BY <1>0, <3>1, <3>2, <3>3, Zenon DEF SharedTyped
  <2>2. CASE ~CompleteMove(r)
    BY <1>0, <2>2 DEF CompleteStep, CompleteCheck, CompleteClose, CompleteVerify, CompleteEncrypt, CompleteLock,
       CompleteMeta, CompleteFinish, files, SharedTyped
  <2> QED BY <2>1, <2>2, Zenon
<1>7. LocalsKept(r)
  <2>1. CASE Return(r)
    BY <1>1, <2>1, ReturnKept, Zenon
  <2>2. CASE CompleteEncrypt(r) /\ ~Return(r)
    <3>1. /\ pc[r] = "encrypt" /\ Goto(r, "lock") /\ snap' = [snap EXCEPT ![r] = temp]
          /\ UNCHANGED <<at, kind, val, arg>>
      BY <2>2, Zenon DEF CompleteEncrypt
    <3>2. LocalsTyped' /\ OnlyLocalsOf(r) /\ pc'[r] = "lock" /\ val'[r] = val[r] /\ snap'[r] = temp
      BY <1>0, <3>1, SettingFrame, Zenon DEF LocalsTyped, OnlyLocalsOf, Goto, SharedTyped
    <3>3. val[r] \in Objects /\ temp \in Content
      BY <1>0, <3>1, Zenon DEF Local, SharedTyped
    <3>4. Local(r)'
      BY <3>2, <3>3, SettingFrame, Zenon DEF Local
    <3> QED BY <3>1, <3>2, <3>4, Zenon DEF LocalsKept
  <2>3. CASE CompleteVerify(r) /\ ~Return(r)
    <3>1. CASE Encrypt
      BY <1>1, <2>3, <3>1, GotoKept, Zenon DEF CompleteVerify
    <3>2. CASE ~Encrypt
      BY <1>1, <2>3, <3>2, GotoKept, Zenon DEF CompleteVerify
    <3> QED BY <3>1, <3>2
  <2>4. CASE CompleteLock(r) /\ ~Return(r)
    <3>1. Encrypt => snap[r] \in Content
      BY <1>0, <2>4, Zenon DEF CompleteLock, Local
    <3> QED BY <1>1, <2>4, <3>1, GotoKept, Zenon DEF CompleteLock
  <2>5. CASE CompleteCheck(r) /\ ~Return(r)
    BY <1>1, <2>5, GotoKept, Zenon DEF CompleteCheck
  <2>6. CASE CompleteClose(r) /\ ~Return(r)
    BY <1>1, <2>6, GotoKept, Zenon DEF CompleteClose
  <2>7. CASE CompleteMove(r) /\ ~Return(r)
    BY <1>1, <2>7, GotoKept, Zenon DEF CompleteMove
  <2>8. CASE CompleteMeta(r) /\ ~Return(r)
    BY <1>1, <2>8, GotoKept, Zenon DEF CompleteMeta
  <2>9. CASE CompleteFinish(r) /\ ~Return(r)
    BY <1>1, <2>9, GotoKept DEF CompleteFinish
  <2> QED BY <2>1, <2>2, <2>3, <2>4, <2>5, <2>6, <2>7, <2>8, <2>9, Zenon DEF CompleteStep
<1>8. SharedTyped'
  BY <1>0, <1>2, <1>5, <1>6, SettingFrame, Zenon DEF SharedTyped
<1> QED BY <1>2, <1>3, <1>4, <1>7, <1>8, Zenon DEF Quiet

LEMMA QuietAbort ==
  ASSUME TypeInv, SlotInv, setting' = setting, NEW r \in Requests, AbortStep(r) \/ Unstore(r)
  PROVE  Quiet(r)
<1> USE DEF Label, Locked
<1>0. /\ setting \in Settings /\ LocalsTyped /\ SharedTyped /\ MemoryTyped
  BY Zenon DEF TypeInv
<1>1. pc[r] \in {"abort", "cleanup", "drop", "remove", "unstore"}
  BY Zenon DEF AbortStep, AbortClose, AbortDrop, AbortRemove, Unstore
<1>2. UNCHANGED <<temp, copy, row, lock, done>>
  BY Zenon DEF AbortStep, AbortClose, AbortDrop, AbortRemove, Unstore, files, locks
<1>3. SlotsKept /\ \A i \in Instances : map'[i] \in {None, map[i]}
  <2>1. CASE Drop(r)
    BY <1>0, <2>1, DropEffect, Zenon
  <2>2. CASE UNCHANGED <<map, count>>
    BY <1>0, <2>2, SlotsFrame, Zenon
  <2> QED BY <2>1, <2>2, Zenon DEF AbortStep, AbortClose, AbortDrop, AbortRemove, Unstore
<1>4. SessionsKept
  <2>1. CASE AbortClose(r)
    BY <2>1, SessionSteps, Zenon
  <2>2. CASE UNCHANGED session
    BY <1>0, <2>2, SessionFrame, Zenon
  <2> QED BY <2>1, <2>2, Zenon DEF AbortStep, AbortDrop, AbortRemove, Unstore
<1>5. /\ where' \in {"temp", "stored", "gone"} /\ store' \in Nat \cup {None}
      /\ flock' \in Requests \cup {None}
  BY <1>0, Zenon DEF AbortStep, AbortClose, AbortDrop, AbortRemove, Unstore, files, locks, RemoveTemp, SharedTyped
<1>6. LocalsKept(r)
  <2>1. CASE Return(r)
    BY <1>1, <2>1, ReturnKept, Zenon
  <2>2. CASE AbortStep(r)
    <3>1. PICK label \in {"drop", "remove", "unstore"} : Goto(r, label) /\ UNCHANGED locals
      BY <2>2, Zenon DEF AbortStep, AbortClose, AbortDrop, AbortRemove
    <3> QED BY <1>1, <3>1, GotoKept, Zenon
  <2> QED BY <2>1, <2>2, Zenon DEF Unstore
<1>7. SharedTyped'
  BY <1>0, <1>2, <1>5, SettingFrame, Zenon DEF SharedTyped
<1> QED BY <1>2, <1>3, <1>4, <1>6, <1>7, Zenon DEF Quiet
LEMMA QuietStart ==
  ASSUME TypeInv, SlotInv, setting' = setting, NEW r \in Requests, NEW i \in Instances,
         NEW k \in Kinds \ {"crash"}, NEW c \in 0 .. N, NEW d \in Data, Start(r, k, i, c, d)
  PROVE  Quiet(r)
<1>0. /\ setting \in Settings /\ LocalsTyped /\ SharedTyped /\ MemoryTyped /\ Local(r)
      /\ k \in {"chunk", "complete", "abort", "cleanup"}
  BY SettingTypes, Zenon DEF TypeInv
<1>1. /\ pc[r] = "idle" /\ UNCHANGED <<temp, where, copy, row, session, map, count, store, lock, flock, done>>
      /\ at' = [at EXCEPT ![r] = i] /\ kind' = [kind EXCEPT ![r] = k] /\ arg' = [arg EXCEPT ![r] = <<c, d>>]
  BY Zenon DEF Start, files, locks
<1>2. SlotsKept /\ SessionsKept
  BY <1>0, <1>1, SlotsFrame, SessionFrame, Zenon
<1>3. SharedTyped'
  BY <1>0, <1>1, SettingFrame, Zenon DEF SharedTyped
<1>4. at'[r] = i /\ kind'[r] = k
  BY <1>0, <1>1, Zenon DEF LocalsTyped
<1>5. LocalsKept(r)
  <2>1. CASE map[i] # None /\ Goto(r, k) /\ val' = [val EXCEPT ![r] = map[i]] /\ UNCHANGED snap
    <3>1. map[i] \in Objects
      BY <1>0, <2>1, Zenon DEF MemoryTyped
    <3>2. LocalsTyped' /\ OnlyLocalsOf(r) /\ pc'[r] = k /\ val'[r] = map[i] /\ snap'[r] = snap[r]
      BY <1>0, <1>1, <2>1, <3>1, SettingFrame DEF LocalsTyped, OnlyLocalsOf, Goto, Label
    <3>3. snap[r] = None \/ snap[r] \in Content
      BY <1>0, <1>1, Zenon DEF Local
    <3>4. Local(r)'
      BY <1>0, <3>1, <3>2, <3>3, SettingFrame, Zenon DEF Local, Locked
    <3> QED BY <1>0, <1>1, <1>4, <3>2, <3>4, Zenon DEF LocalsKept
  <2>2. CASE k \in {"chunk", "complete"} /\ store # None /\ Goto(r, "restore")
             /\ snap' = [snap EXCEPT ![r] = store] /\ UNCHANGED val
    <3>1. store \in Nat
      BY <1>0, <2>2, Zenon DEF SharedTyped
    <3>2. LocalsTyped' /\ OnlyLocalsOf(r) /\ pc'[r] = "restore" /\ val'[r] = val[r] /\ snap'[r] = store
      BY <1>0, <1>1, <2>2, <3>1, SettingFrame DEF LocalsTyped, OnlyLocalsOf, Goto, Label
    <3>3. Local(r)'
      BY <1>4, <2>2, <3>1, <3>2, SettingFrame, Zenon DEF Local, Locked
    <3> QED BY <1>1, <3>2, <3>3, Zenon DEF LocalsKept
  <2> QED BY <2>1, <2>2, Zenon DEF Start
<1> QED BY <1>1, <1>2, <1>3, <1>5, Zenon DEF Quiet

(***************************************************************************)
(* A quiet step preserves the whole invariant.                             *)
(***************************************************************************)
LEMMA QuietStep ==
  ASSUME UploadInv, setting' = setting, NEW r \in Requests, Quiet(r)
  PROVE  UploadInv'
<1>0. TypeInv /\ LocalsTyped /\ MemoryTyped /\ None \notin Requests
  BY UploadConstants, Zenon DEF UploadInv, TypeInv
<1>1. TypeInv' /\ SlotInv'
  <2>1. \A h \in Requests : Local(h)'
    BY <1>0, OthersKept, Zenon DEF Quiet, LocalsKept, TypeInv
  <2>2. MemoryTyped'
    BY Zenon DEF Quiet, SessionsKept, SlotsKept, MemoryTyped
  <2> QED BY <1>0, <2>1, <2>2, Zenon DEF Quiet, LocalsKept, TypeInv, SlotsKept
<1>2. HashInv'
  <2> SUFFICES ASSUME Instances' = {Home}, "partial" \notin FailedWrites', map'[Home] # None,
                      session'[map'[Home]].hasher
               PROVE  /\ \A q \in Requests : val'[q] \in {None, map'[Home]}
                      /\ session'[map'[Home]].valid =>
                           \A k \in 1 .. Len(session'[map'[Home]].hashed) :
                             \/ session'[map'[Home]].hashed[k] = temp'[k - 1]
                             \/ \E q \in Requests : pc'[q] = "hash" /\ arg'[q][1] = k - 1
    BY Zenon DEF HashInv
  <2> DEFINE o == map[Home]
  <2>1. Instances = {Home} /\ "partial" \notin FailedWrites
    BY SettingFrame, Zenon
  <2>2. map'[Home] = o /\ o \in Objects
    BY <1>0, <2>1, Zenon DEF Quiet, MemoryTyped
  <2>3. Kept(session[o], session'[o])
    BY <2>2, Zenon DEF Quiet, SessionsKept
  <2>4. HashInv /\ session[o].hasher
    BY <2>2, <2>3, Zenon DEF Kept, UploadInv
  <2>5. at'[r] = Home
    <3>1. at' \in [Requests -> Instances']
      BY Zenon DEF Quiet, LocalsKept, LocalsTyped
    <3> QED BY <3>1, Zenon
  <2>6. \A q \in Requests : val'[q] \in {None, o}
    <3>1. \A q \in Requests : val[q] \in {None, o}
      BY <2>1, <2>2, <2>4, Zenon DEF HashInv
    <3> QED BY <2>5, <3>1, Zenon DEF Quiet, LocalsKept, OnlyLocalsOf
  <2>7. ASSUME session'[o].valid, NEW k \in 1 .. Len(session'[o].hashed)
        PROVE  \/ session'[o].hashed[k] = temp'[k - 1]
               \/ \E q \in Requests : pc'[q] = "hash" /\ arg'[q][1] = k - 1
    <3>1. session[o].valid /\ session'[o].hashed = session[o].hashed
      BY <2>3, <2>7, Zenon DEF Kept
    <3>2. \/ session[o].hashed[k] = temp[k - 1]
          \/ \E q \in Requests : pc[q] = "hash" /\ arg[q][1] = k - 1
      BY <2>1, <2>2, <2>4, <2>7, <3>1, Zenon DEF HashInv
    <3>3. \A q \in Requests : pc[q] = "hash" => pc'[q] = "hash" /\ arg'[q] = arg[q]
      BY Zenon DEF Quiet, LocalsKept, OnlyLocalsOf
    <3> QED BY <3>1, <3>2, <3>3 DEF Quiet
  <2> QED BY <2>2, <2>6, <2>7, Zenon
<1> QED BY <1>1, <1>2, Zenon DEF UploadInv
-----------------------------------------------------------------------------
(***************************************************************************)
(* A restored session has no hasher.                                       *)
(***************************************************************************)
LEMMA RestoreStep ==
  ASSUME UploadInv, setting' = setting, NEW r \in Requests, Restore(r)
  PROVE  UploadInv'
<1>0. /\ TypeInv /\ SlotInv /\ setting \in Settings /\ LocalsTyped /\ SharedTyped /\ MemoryTyped /\ Local(r)
      /\ None \notin Requests /\ None \notin Objects
  BY UploadConstants, Zenon DEF UploadInv, TypeInv
<1>1. /\ pc[r] = "restore" /\ Goto(r, kind[r]) /\ snap' = [snap EXCEPT ![r] = None]
      /\ UNCHANGED <<temp, where, copy, row, count, store, lock, flock, at, kind, arg, done>>
  BY Zenon DEF Restore, files, locks
<1>2. snap[r] \in Nat /\ kind[r] \in {"chunk", "complete"} /\ at[r] \in Instances
  BY <1>0, <1>1, Zenon DEF Local, LocalsTyped
<1>3. SharedTyped'
  BY <1>0, <1>1, SettingFrame, Zenon DEF SharedTyped
<1>4. ASSUME NEW o \in Objects, val' = [val EXCEPT ![r] = o]
      PROVE  LocalsTyped' /\ OnlyLocalsOf(r) /\ Local(r)' /\ val'[r] = o /\ pc'[r] # "hash"
  <2>1. LocalsTyped' /\ OnlyLocalsOf(r) /\ pc'[r] = kind[r] /\ snap'[r] = None /\ val'[r] = o
    BY <1>0, <1>1, <1>2, <1>4, SettingFrame, Zenon DEF LocalsTyped, OnlyLocalsOf, Goto, Label
  <2>2. Local(r)'
    BY <1>2, <2>1, Zenon DEF Local, Locked
  <2> QED BY <1>2, <2>1, <2>2
<1>5. CASE map[at[r]] # None
  <2>1. val' = [val EXCEPT ![r] = map[at[r]]] /\ UNCHANGED <<map, session>>
    BY <1>5, Zenon DEF Restore
  <2>2. map[at[r]] \in Objects
    BY <1>0, <1>2, <1>5, Zenon DEF MemoryTyped
  <2>3. LocalsKept(r)
    BY <1>1, <1>4, <2>1, <2>2, Zenon DEF LocalsKept
  <2>4. SessionsKept /\ SlotsKept
    BY <1>0, <1>1, <2>1, SessionFrame, SlotsFrame, Zenon
  <2>5. Quiet(r)
    BY <1>1, <1>3, <2>1, <2>3, <2>4, Zenon DEF Quiet
  <2> QED BY <2>5, QuietStep, Zenon
<1>6. CASE map[at[r]] = None
  <2>1. PICK o \in Objects :
          /\ session' = [session EXCEPT ![o] = NewSession(snap[r], FALSE, where = "temp")]
          /\ map' = [map EXCEPT ![at[r]] = o] /\ val' = [val EXCEPT ![r] = o]
    <3>1. (CHOOSE x \in Unreferenced : TRUE) \in Objects
      <4>1. Unreferenced # {} /\ Unreferenced \subseteq Objects
        BY <1>6, Zenon DEF Restore, Unreferenced
      <4> QED BY <4>1, Zenon
    <3> QED BY <1>6, <3>1, Zenon DEF Restore
  <2>2. /\ NewSession(snap[r], FALSE, where = "temp") \in SessionValue
        /\ NewSession(snap[r], FALSE, where = "temp").hasher = FALSE
        /\ Len(NewSession(snap[r], FALSE, where = "temp").hashed) <= N
    <3>1. (where = "temp") \in BOOLEAN /\ FALSE \in BOOLEAN
      BY Zenon
    <3> QED BY <1>0, <1>2, <3>1, NewSessionTyped, Zenon
  <2>3. /\ session' \in [Objects -> SessionValue'] /\ \A x \in Objects : Len(session'[x].hashed) <= N'
        /\ session'[o].hasher = FALSE
    BY <1>0, <2>1, <2>2, Updated, Zenon
  <2>4. /\ map' \in [Instances' -> Objects \cup {None}]
        /\ \A i \in Instances : map'[i] = IF i = at[r] THEN o ELSE map[i]
    BY <1>0, <1>2, <2>1, SettingFrame, Zenon DEF MemoryTyped
  <2>5. SlotInv'
    <3> SUFFICES ASSUME NEW i \in Instances PROVE count[i] <= IF map'[i] = None THEN 0 ELSE 1
      BY <1>1, SettingFrame, Zenon DEF SlotInv
    <3>1. count[i] \in Int /\ count[i] <= IF map[i] = None THEN 0 ELSE 1
      BY <1>0, Zenon DEF SlotInv, MemoryTyped
    <3>2. i = at[r] => map[i] = None /\ map'[i] # None
      BY <1>0, <1>6, <2>4, Zenon
    <3>3. i # at[r] => map'[i] = map[i]
      BY <2>4, Zenon
    <3> QED BY <3>1, <3>2, <3>3
  <2>6. MemoryTyped'
    BY <1>0, <1>1, <2>3, <2>4, SettingFrame, Zenon DEF MemoryTyped
  <2>7. LocalsTyped' /\ OnlyLocalsOf(r) /\ Local(r)'
    BY <1>4, <2>1, Zenon
  <2>8. \A h \in Requests : Local(h)'
    BY <1>0, <1>1, <2>7, OthersKept, Zenon DEF TypeInv
  <2>9. HashInv'
    <3>1. Instances' = {Home} => map'[Home] = o
      BY <1>2, <2>4, SettingFrame, Zenon
    <3> QED BY <2>3, <3>1, Zenon DEF HashInv
  <2> QED BY <1>0, <1>3, <2>5, <2>6, <2>7, <2>8, <2>9 DEF UploadInv, TypeInv
<1> QED BY <1>5, <1>6, Zenon

(***************************************************************************)
(* A chunk that is written and not yet hashed                              *)
(***************************************************************************)
LEMMA ChunkWriteStep ==
  ASSUME UploadInv, setting' = setting, NEW r \in Requests, ChunkWrite(r)
  PROVE  UploadInv'
<1>0. /\ TypeInv /\ SlotInv /\ setting \in Settings /\ LocalsTyped /\ SharedTyped /\ MemoryTyped /\ Local(r)
      /\ None \notin Requests /\ HashInv
  BY UploadConstants, Zenon DEF UploadInv, TypeInv
<1>1. /\ pc[r] \in {"write", "opened"} /\ UNCHANGED <<where, copy, row, session, map, count, store, flock, done>>
  BY Zenon DEF ChunkWrite
<1>2. lock = r /\ val[r] \in Objects /\ arg[r][1] \in Chunks /\ arg[r][2] \in Data
  <2>1. lock = r /\ val[r] \in Objects /\ arg[r][1] + 1 <= N
    BY <1>0, <1>1, Zenon DEF Local, Locked
  <2>2. arg[r][1] \in 0 .. N /\ arg[r][2] \in Data /\ N \in Nat
    BY <1>0, SettingTypes, Zenon DEF LocalsTyped
  <2> QED BY <2>1, <2>2 DEF Chunks
<1>3. Written(r) \in Content /\ Written(r)[arg[r][1]] = arg[r][2]
      /\ \A k \in Chunks : k # arg[r][1] => Written(r)[k] = temp[k]
  BY <1>0, <1>2, Zenon DEF Written, Content, SharedTyped
<1>4. SessionsKept /\ SlotsKept
  BY <1>0, <1>1, SessionFrame, SlotsFrame
<1>5. CASE temp' = Written(r) /\ Goto(r, "hash") /\ UNCHANGED <<lock, locals>>
  <2>1. /\ LocalsTyped' /\ OnlyLocalsOf(r) /\ pc'[r] = "hash"
        /\ val'[r] = val[r] /\ arg'[r] = arg[r] /\ snap'[r] = snap[r]
    BY <1>0, <1>5, GotoEffect, Zenon DEF Label
  <2>2. snap[r] = None \/ snap[r] \in Content
    BY <1>0, <1>1 DEF Local
  <2>3. arg[r][1] + 1 <= N
    BY <1>0, <1>1, Zenon DEF Local
  <2>4. Local(r)'
    BY <1>2, <1>3, <1>5, <2>1, <2>2, <2>3, SettingFrame, Zenon DEF Local
  <2>5. pc[r] \in Locked
    BY <1>1 DEF Locked
  <2>6. \A h \in Requests : Local(h)'
    BY <1>0, <1>5, <2>1, <2>4, <2>5, OthersKept, Zenon DEF TypeInv
  <2>7. SharedTyped'
    BY <1>0, <1>1, <1>3, <1>5, SettingFrame, Zenon DEF SharedTyped
  <2>8. MemoryTyped' /\ SlotInv'
    BY <1>4, Zenon DEF SessionsKept, SlotsKept, MemoryTyped
  <2>9. HashInv'
    <3> SUFFICES ASSUME Instances = {Home}, "partial" \notin FailedWrites, map[Home] # None,
                        session[map[Home]].hasher
                 PROVE  /\ \A q \in Requests : val'[q] \in {None, map[Home]}
                        /\ session[map[Home]].valid =>
                             \A k \in 1 .. Len(session[map[Home]].hashed) :
                               \/ session[map[Home]].hashed[k] = temp'[k - 1]
                               \/ \E q \in Requests : pc'[q] = "hash" /\ arg'[q][1] = k - 1
      BY <1>1, SettingFrame, Zenon DEF HashInv
    <3>1. \A q \in Requests : val'[q] \in {None, map[Home]}
      BY <1>0, <1>5, Zenon DEF HashInv, locals
    <3>2. ASSUME session[map[Home]].valid, NEW k \in 1 .. Len(session[map[Home]].hashed)
          PROVE  \/ session[map[Home]].hashed[k] = temp'[k - 1]
                 \/ \E q \in Requests : pc'[q] = "hash" /\ arg'[q][1] = k - 1
      <4>1. k - 1 \in Chunks
        <5>1. map[Home] \in Objects
          BY <1>0, Zenon DEF MemoryTyped
        <5>2. session[map[Home]].hashed \in Seq(Data) /\ Len(session[map[Home]].hashed) <= N /\ N \in Nat
          BY <1>0, <5>1, SettingTypes, Zenon DEF MemoryTyped, SessionValue
        <5>3. Len(session[map[Home]].hashed) \in Nat
          BY <5>2, LenProperties, Zenon
        <5> QED BY <5>2, <5>3 DEF Chunks
      <4>2. CASE arg[r][1] = k - 1
        BY <2>1, <4>2, Zenon
      <4>3. CASE arg[r][1] # k - 1
        <5>1. temp'[k - 1] = temp[k - 1]
          BY <1>3, <1>5, <4>1, <4>3, Zenon
        <5>2. \A q \in Requests : pc[q] = "hash" => pc'[q] = "hash" /\ arg'[q] = arg[q]
          BY <2>1, Zenon DEF OnlyLocalsOf
        <5>3. \/ session[map[Home]].hashed[k] = temp[k - 1]
              \/ \E q \in Requests : pc[q] = "hash" /\ arg[q][1] = k - 1
          BY <1>0, <3>2, Zenon DEF HashInv
        <5> QED BY <5>1, <5>2, <5>3
      <4> QED BY <4>2, <4>3, Zenon
    <3> QED BY <3>1, <3>2, Zenon
  <2> QED BY <1>0, <2>1, <2>6, <2>7, <2>8, <2>9, Zenon DEF UploadInv, TypeInv
<1>6. CASE (\E e \in FailedWrites : temp' = IF e = "lost" THEN temp ELSE Written(r)) /\ Return(r) /\ lock' = None
  <2>1. LocalsTyped' /\ OnlyLocalsOf(r) /\ Local(r)' /\ LocalsKept(r) /\ val'[r] = None /\ pc'[r] = "idle"
    BY <1>0, <1>1, <1>6, ReturnEffect, ReturnKept, Zenon
  <2>2. PICK e \in FailedWrites : temp' = IF e = "lost" THEN temp ELSE Written(r)
    BY <1>6
  <2>3. SharedTyped'
    BY <1>0, <1>1, <1>3, <1>6, <2>2, SettingFrame, Zenon DEF SharedTyped
  <2>4. CASE e = "lost"
    <3>1. Quiet(r)
      BY <1>1, <1>2, <1>4, <2>1, <2>2, <2>3, <2>4 DEF Quiet
    <3> QED BY <3>1, QuietStep, Zenon
  <2>5. CASE e # "lost"
    <3>1. e = "partial"
      <4>1. setting \in Setting
        BY <1>0, UploadConstants
      <4>2. FailedWrites \subseteq {"lost", "partial"}
        BY <4>1, Zenon DEF Setting, FailedWrites
      <4> QED BY <2>5, <4>2, Zenon
    <3>2. HashInv'
      BY <2>2, <3>1, SettingFrame, Zenon DEF HashInv
    <3>3. pc[r] \in Locked
      BY <1>1 DEF Locked
    <3>4. \A h \in Requests : Local(h)'
      BY <1>0, <1>2, <2>1, <3>3, OthersKept, Zenon DEF TypeInv
    <3>5. MemoryTyped' /\ SlotInv'
      BY <1>4, Zenon DEF SessionsKept, SlotsKept, MemoryTyped
    <3> QED BY <1>0, <2>1, <2>3, <3>2, <3>4, <3>5, Zenon DEF UploadInv, TypeInv
  <2> QED BY <2>4, <2>5, Zenon
<1> QED BY <1>5, <1>6, Zenon DEF ChunkWrite
(***************************************************************************)
(* The chunk in the file is appended to the hash, or ends it.              *)
(***************************************************************************)
LEMMA ChunkHashStep ==
  ASSUME UploadInv, setting' = setting, NEW r \in Requests, ChunkHash(r)
  PROVE  UploadInv'
<1>0. /\ TypeInv /\ SlotInv /\ setting \in Settings /\ LocalsTyped /\ SharedTyped /\ MemoryTyped /\ Local(r)
      /\ None \notin Requests /\ HashInv
  BY UploadConstants DEF UploadInv, TypeInv
<1> DEFINE o == val[r]
           c == arg[r][1]
           d == arg[r][2]
           t == Hashed(session[o], c, d)
<1>1. /\ pc[r] = "hash" /\ Goto(r, "count") /\ UNCHANGED <<locals, lock>>
      /\ UNCHANGED <<temp, where, copy, row, map, count, store, flock, done>>
      /\ session' = [session EXCEPT ![o] = t]
  BY Zenon DEF ChunkHash, files, locks
<1>2. /\ o \in Objects /\ c + 1 <= N /\ lock = r /\ temp[c] = d /\ c \in 0 .. N /\ d \in Data
      /\ snap[r] = None \/ snap[r] \in Content
  <2>1. o \in Objects /\ c + 1 <= N /\ lock = r /\ temp[c] = d /\ (snap[r] = None \/ snap[r] \in Content)
    BY <1>0, <1>1, Zenon DEF Local, Locked
  <2>2. c \in 0 .. N /\ d \in Data
    BY <1>0, Zenon DEF LocalsTyped
  <2> QED BY <2>1, <2>2, Zenon
<1>3. session[o] \in SessionValue /\ Len(session[o].hashed) <= N /\ session[o].hashed \in Seq(Data)
  BY <1>0, <1>2, Zenon DEF MemoryTyped, SessionValue
<1> HIDE DEF o, c, d
<1>4. /\ t \in SessionValue /\ Len(t.hashed) <= N /\ t.hasher = session[o].hasher
      /\ session[o].hasher /\ t.valid =>
           session[o].valid /\ c = Len(session[o].hashed) /\ t.hashed = Append(session[o].hashed, d)
  BY <1>0, <1>2, <1>3, HashedEffect, ZenonT(30)
<1> HIDE DEF t
<1>5. /\ session' \in [Objects -> SessionValue'] /\ \A x \in Objects : Len(session'[x].hashed) <= N'
      /\ session'[o] = t
  BY <1>0, <1>1, <1>2, <1>4, Updated, Zenon
<1>6. /\ LocalsTyped' /\ OnlyLocalsOf(r) /\ pc'[r] = "count"
      /\ val'[r] = val[r] /\ arg'[r] = arg[r] /\ snap'[r] = snap[r]
  BY <1>0, <1>1, GotoEffect, Zenon DEF Label
<1>7. Local(r)'
  BY <1>1, <1>2, <1>6, SettingFrame, Zenon DEF Local, o
<1>8. \A h \in Requests : Local(h)'
  BY <1>0, <1>1, <1>6, <1>7, OthersKept, Zenon DEF TypeInv
<1>9. SharedTyped' /\ MemoryTyped' /\ SlotInv'
  <2>1. SharedTyped'
    BY <1>0, <1>1, SettingFrame DEF SharedTyped
  <2>2. SlotsKept
    BY <1>0, <1>1, SlotsFrame, Zenon
  <2> QED BY <1>5, <2>1, <2>2, Zenon DEF SlotsKept, MemoryTyped
<1>10. HashInv'
  <2> SUFFICES ASSUME Instances = {Home}, "partial" \notin FailedWrites, map[Home] # None,
                      session'[map[Home]].hasher
               PROVE  /\ \A q \in Requests : val'[q] \in {None, map[Home]}
                      /\ session'[map[Home]].valid =>
                           \A k \in 1 .. Len(session'[map[Home]].hashed) :
                             \/ session'[map[Home]].hashed[k] = temp[k - 1]
                             \/ \E q \in Requests : pc'[q] = "hash" /\ arg'[q][1] = k - 1
    BY <1>1, SettingFrame DEF HashInv
  <2>0. Home \in Instances /\ map[Home] \in Objects
    BY <1>0, Zenon DEF MemoryTyped
  <2>1. session[map[Home]].hasher
    BY <1>1, <1>4, <1>5, <2>0, Zenon DEF MemoryTyped
  <2>2. \A q \in Requests : val[q] \in {None, map[Home]}
    BY <1>0, <2>1, Zenon DEF HashInv
  <2>3. \A q \in Requests : val'[q] \in {None, map[Home]}
    BY <1>1, <2>2, Zenon DEF locals
  <2>4. o = map[Home]
    <3>1. o \in {None, map[Home]} /\ None \notin Objects
      BY <2>2, UploadConstants DEF o
    <3> QED BY <1>2, <3>1, Zenon
  <2>5. ASSUME t.valid, NEW k \in 1 .. Len(t.hashed)
        PROVE  t.hashed[k] = temp[k - 1]
    <3>1. session[o].valid /\ c = Len(session[o].hashed) /\ t.hashed = Append(session[o].hashed, d)
      BY <1>4, <2>1, <2>4, <2>5, Zenon
    <3>2. /\ Len(t.hashed) = Len(session[o].hashed) + 1 /\ Len(session[o].hashed) \in Nat
          /\ t.hashed[Len(session[o].hashed) + 1] = d
          /\ \A j \in 1 .. Len(session[o].hashed) : t.hashed[j] = session[o].hashed[j]
      BY <1>2, <1>3, <3>1, AppendProperties, LenProperties
    <3>3. CASE k = Len(session[o].hashed) + 1
      <4>1. k - 1 = c
        BY <3>1, <3>2, <3>3
      <4> QED BY <1>2, <3>2, <3>3, <4>1, Zenon
    <3>4. CASE k # Len(session[o].hashed) + 1
      <4>1. k \in 1 .. Len(session[o].hashed)
        BY <2>5, <3>2, <3>4
      <4>2. \/ session[o].hashed[k] = temp[k - 1]
            \/ \E q \in Requests : pc[q] = "hash" /\ arg[q][1] = k - 1
        BY <1>0, <2>1, <2>4, <3>1, <4>1, Zenon DEF HashInv
      <4>3. \A q \in Requests : pc[q] = "hash" => q = r
        BY <1>0, <1>2 DEF TypeInv, Local, Locked
      <4>4. c # k - 1
        BY <3>1, <3>2, <4>1
      <4> QED BY <3>2, <4>1, <4>2, <4>3, <4>4, Zenon DEF c
    <3> QED BY <3>3, <3>4, Zenon
  <2> QED BY <1>5, <2>3, <2>4, <2>5, Zenon
<1> QED BY <1>0, <1>6, <1>8, <1>9, <1>10 DEF UploadInv, TypeInv

(***************************************************************************)
(* A crash empties the map of the instance.                                *)
(***************************************************************************)
LEMMA CrashStep ==
  ASSUME UploadInv, setting' = setting, NEW i \in Instances, Crash(i)
  PROVE  UploadInv'
<1>0. /\ TypeInv /\ SlotInv /\ setting \in Settings /\ LocalsTyped /\ SharedTyped /\ MemoryTyped
      /\ None \notin Requests
  BY UploadConstants, Zenon DEF UploadInv, TypeInv
<1> DEFINE mine == {r \in Requests : pc[r] # "idle" /\ at[r] = i}
<1>1. /\ map' = [map EXCEPT ![i] = None] /\ count' = [count EXCEPT ![i] = 0]
      /\ UNCHANGED <<temp, where, copy, row, session, store, done>>
      /\ lock' = (IF lock \in mine THEN None ELSE lock) /\ flock' = (IF flock \in mine THEN None ELSE flock)
  BY Zenon DEF Crash, files
<1>2. /\ pc' = [r \in Requests |-> IF r \in mine THEN "idle" ELSE pc[r]]
      /\ at' = [r \in Requests |-> IF r \in mine THEN Home ELSE at[r]]
      /\ kind' = [r \in Requests |-> IF r \in mine THEN "none" ELSE kind[r]]
      /\ val' = [r \in Requests |-> IF r \in mine THEN None ELSE val[r]]
      /\ arg' = [r \in Requests |-> IF r \in mine THEN <<0, "good">> ELSE arg[r]]
      /\ snap' = [r \in Requests |-> IF r \in mine THEN None ELSE snap[r]]
  BY Zenon DEF Crash
<1> HIDE DEF mine
<1>3. LocalsTyped'
  BY <1>0, <1>2, SettingTypes, SettingFrame DEF LocalsTyped, Label
<1>4. SharedTyped'
  BY <1>0, <1>1, SettingFrame, Zenon DEF SharedTyped
<1>5. MemoryTyped'
  <2>1. map' \in [Instances -> Objects \cup {None}]
    BY <1>0, <1>1, Zenon DEF MemoryTyped
  <2>2. count' \in [Instances -> Int]
    BY <1>0, <1>1 DEF MemoryTyped
  <2>3. SessionsKept
    BY <1>0, <1>1, SessionFrame, Zenon
  <2> QED BY <2>1, <2>2, <2>3, SettingFrame, Zenon DEF MemoryTyped, SessionsKept
<1>6. SlotInv'
  <2> SUFFICES ASSUME NEW j \in Instances PROVE count'[j] <= IF map'[j] = None THEN 0 ELSE 1
    BY SettingFrame, Zenon DEF SlotInv
  <2>1. count[j] \in Int /\ count[j] <= IF map[j] = None THEN 0 ELSE 1
    BY <1>0, Zenon DEF SlotInv, MemoryTyped
  <2>2. CASE j = i
    BY <1>0, <1>1, <2>2 DEF MemoryTyped
  <2>3. CASE j # i
    <3>1. count'[j] = count[j] /\ map'[j] = map[j]
      BY <1>0, <1>1, <2>3, Zenon DEF MemoryTyped
    <3> QED BY <2>1, <3>1, Zenon
  <2> QED BY <2>2, <2>3, Zenon
<1>7. ASSUME NEW h \in Requests PROVE Local(h)'
  <2>1. CASE h \in mine
    BY <1>2, <2>1, Zenon DEF Local, Locked
  <2>2. CASE h \notin mine
    <3>1. /\ pc'[h] = pc[h] /\ kind'[h] = kind[h] /\ val'[h] = val[h] /\ arg'[h] = arg[h] /\ snap'[h] = snap[h]
          /\ lock = h => lock' = lock
      BY <1>1, <1>2, <2>2, Zenon
    <3>2. Local(h)
      BY <1>0, Zenon DEF TypeInv
    <3> QED BY <1>1, <3>1, <3>2, SettingFrame DEF Local
  <2> QED BY <2>1, <2>2, Zenon
<1>8. HashInv'
  <2>1. Instances' = {Home} => map'[Home] = None
    BY <1>0, <1>1, SettingFrame, Zenon DEF MemoryTyped
  <2> QED BY <2>1, Zenon DEF HashInv
<1> QED BY <1>0, <1>3, <1>4, <1>5, <1>6, <1>7, <1>8, Zenon DEF UploadInv, TypeInv
-----------------------------------------------------------------------------
LEMMA InitHolds == Init => UploadInv
<1> SUFFICES ASSUME Init PROVE UploadInv
  BY Zenon
<1> DEFINE first == CHOOSE o \in Objects : TRUE
<1>0. first \in Objects /\ setting \in Settings
  BY UploadConstants, Zenon DEF Init
<1>1. /\ temp = [k \in Chunks |-> "hole"] /\ where = "temp" /\ copy = None /\ row \in BOOLEAN
      /\ session = [o \in Objects |-> NewSession(0, HashGiven, TRUE)]
      /\ map = [i \in Instances |-> IF i = Home THEN first ELSE None]
      /\ count = [i \in Instances |-> IF i = Home THEN 1 ELSE 0]
      /\ store \in {0, None} /\ lock = None /\ flock = None /\ done = FALSE
  BY Zenon DEF Init
<1>2. /\ pc = [r \in Requests |-> "idle"] /\ at = [r \in Requests |-> Home]
      /\ kind = [r \in Requests |-> "none"] /\ val = [r \in Requests |-> None]
      /\ arg = [r \in Requests |-> <<0, "good">>] /\ snap = [r \in Requests |-> None]
  BY Zenon DEF Init
<1> HIDE DEF first
<1>3. LocalsTyped
  BY <1>0, <1>2, SettingTypes, Zenon DEF LocalsTyped, Label
<1>4. SharedTyped
  <2>1. [k \in Chunks |-> "hole"] \in Content
    BY Zenon DEF Content
  <2>2. temp \in Content /\ where \in {"temp", "stored", "gone"} /\ copy \in Content \cup {None}
    BY <1>1, <2>1, Zenon
  <2>3. row \in BOOLEAN /\ done \in BOOLEAN
    BY <1>1, Zenon
  <2>4. store \in Nat \cup {None} /\ lock \in Requests \cup {None} /\ flock \in Requests \cup {None}
    BY <1>1
  <2> QED BY <2>2, <2>3, <2>4, Zenon DEF SharedTyped
<1>5. HashGiven \in BOOLEAN
  <2>1. setting \in Setting
    BY <1>0, UploadConstants, Zenon
  <2> QED BY <2>1, Zenon DEF HashGiven, Setting
<1>6. NewSession(0, HashGiven, TRUE) \in SessionValue /\ Len(NewSession(0, HashGiven, TRUE).hashed) <= N
  BY <1>0, <1>5, NewSessionTyped, Zenon
<1>7. MemoryTyped
  <2>1. map \in [Instances -> Objects \cup {None}]
    BY <1>0, <1>1, Zenon
  <2>2. count \in [Instances -> Int]
    BY <1>1
  <2> QED BY <1>1, <1>6, <2>1, <2>2, Zenon DEF MemoryTyped
<1>8. \A r \in Requests : Local(r)
  BY <1>2, Zenon DEF Local, Locked
<1>9. SlotInv
  <2>1. None \notin Objects
    BY UploadConstants, Zenon
  <2> QED BY <1>0, <1>1, <2>1 DEF SlotInv
<1>10. HashInv
  <2>1. ASSUME NEW o \in Objects PROVE session[o].hashed = <<>>
    BY <1>1, Zenon DEF NewSession
  <2>2. Len(<<>>) = 0
    BY Zenon
  <2>3. Instances = {Home} /\ map[Home] # None => map[Home] \in Objects
    BY <1>7 DEF MemoryTyped
  <2>4. \A k : k \notin 1 .. 0
    OBVIOUS
  <2> QED BY <1>2, <2>1, <2>2, <2>3, <2>4, Zenon DEF HashInv
<1> QED BY <1>0, <1>3, <1>4, <1>7, <1>8, <1>9, <1>10, Zenon DEF UploadInv, TypeInv

LEMMA NextHolds == UploadInv /\ [Next]_vars => UploadInv'
<1> SUFFICES ASSUME UploadInv, [Next]_vars PROVE UploadInv'
  BY Zenon
<1>0. setting' = setting /\ TypeInv /\ SlotInv /\ setting \in Settings
  BY SettingFixed, Zenon DEF UploadInv, TypeInv
<1>1. ASSUME NEW r \in Requests, NEW i \in Instances, NEW c \in 0 .. N, NEW d \in Data,
             "chunk" \in Kinds, Start(r, "chunk", i, c, d)
      PROVE  UploadInv'
  BY <1>0, <1>1, QuietStart, QuietStep
<1>2. ASSUME NEW r \in Requests, NEW i \in Instances, NEW k \in Kinds \ {"chunk", "crash"},
             Start(r, k, i, 0, "good")
      PROVE  UploadInv'
  <2>1. 0 \in 0 .. N /\ "good" \in Data
    BY <1>0, SettingTypes, Zenon
  <2> QED BY <1>0, <1>2, <2>1, QuietStart, QuietStep
<1>3. ASSUME NEW r \in Requests, ChunkStep(r) PROVE UploadInv'
  BY <1>0, <1>3, QuietChunk, QuietStep, ChunkWriteStep, ChunkHashStep DEF ChunkStep
<1>4. ASSUME NEW r \in Requests, CompleteStep(r) PROVE UploadInv'
  BY <1>0, <1>4, QuietComplete, QuietStep
<1>5. ASSUME NEW r \in Requests, AbortStep(r) \/ Unstore(r) PROVE UploadInv'
  BY <1>0, <1>5, QuietAbort, QuietStep, Zenon
<1>6. ASSUME NEW r \in Requests, Restore(r) PROVE UploadInv'
  BY <1>0, <1>6, RestoreStep
<1>7. ASSUME NEW i \in Instances, Crash(i) PROVE UploadInv'
  BY <1>0, <1>7, CrashStep, Zenon
<1>8. ASSUME UNCHANGED vars PROVE UploadInv'
  <2>1. TypeInv'
    BY <1>0, <1>8, SettingFrame
      DEF vars, TypeInv, LocalsTyped, SharedTyped, MemoryTyped, Local
  <2>2. SlotInv'
    BY <1>0, <1>8, SettingFrame, Zenon DEF vars, SlotInv
  <2>3. HashInv'
    BY <1>8, SettingFrame, Zenon DEF vars, HashInv, UploadInv
  <2> QED BY <2>1, <2>2, <2>3, Zenon DEF UploadInv
<1> QED BY <1>1, <1>2, <1>3, <1>4, <1>5, <1>6, <1>7, <1>8, Zenon DEF Next

(***************************************************************************)
(* The inductive invariant of an upload session                            *)
(***************************************************************************)
THEOREM UploadInvariant == Spec => []UploadInv
BY InitHolds, NextHolds, PTL DEF Spec

(***************************************************************************)
(* Type correctness of the UploadSession model                             *)
(***************************************************************************)
THEOREM TypeCorrect == Spec => []TypeOK
<1>1. UploadInv => TypeOK
  <2> SUFFICES ASSUME UploadInv PROVE TypeOK
    BY Zenon
  <2>1. setting \in Settings /\ LocalsTyped /\ SharedTyped /\ MemoryTyped /\ \A r \in Requests : Local(r)
    BY DEF UploadInv, TypeInv
  <2>2. \A r \in Requests : snap[r] # None =>
          IF pc[r] = "restore" THEN snap[r] \in Nat ELSE snap[r] \in Content
    BY <2>1, Zenon DEF Local
  <2> QED BY <2>1, <2>2, Zenon DEF TypeOK, LocalsTyped, SharedTyped, MemoryTyped
<1> QED BY <1>1, UploadInvariant, PTL

(***************************************************************************)
(* Every way a session ends releases its slot, on any number of instances: *)
(* releaseSessionSlot is called once for each session that leaves the map. *)
(***************************************************************************)
THEOREM SlotsReleased == Spec => []NoSlotLeak
<1>1. UploadInv => NoSlotLeak
  BY Zenon DEF UploadInv, SlotInv, NoSlotLeak
<1> QED BY <1>1, UploadInvariant, PTL

(***************************************************************************)
(* On one instance the incremental hash of UploadChunk is that of the      *)
(* first chunks of the temp file, for files of any size, chunks in any     *)
(* order, repeated and concurrent.                                         *)
(***************************************************************************)
THEOREM HashFollowsFile == Spec => []IncrementalHashExact
<1>1. UploadInv => IncrementalHashExact
  BY Zenon DEF UploadInv, HashInv, IncrementalHashExact
<1> QED BY <1>1, UploadInvariant, PTL

-----------------------------------------------------------------------------
(***************************************************************************)
(* The file and its progress.  Which request a label belongs to, and that  *)
(* chunks and completions take turns where the client keeps them apart.    *)
(***************************************************************************)
Closing == {"close", "verify", "encrypt", "lock", "move", "meta", "finish"}
Completion == {"complete"} \cup Closing

Chunking(r) == pc[r] # "idle" /\ kind[r] = "chunk"
Completing(r) == pc[r] # "idle" /\ kind[r] = "complete"

TurnsInv ==
  /\ \A r \in Requests : /\ pc[r] \in {"chunk"} \cup Locked => kind[r] = "chunk"
                         /\ pc[r] \in Completion => kind[r] = "complete"
  /\ ~Overlap => \A q, r \in Requests : ~(Chunking(q) /\ Completing(r))

(* The first n chunks have been written. *)
Covered(n) == \A k \in Chunks : k < n => temp[k] # "hole"

(* A resuming client has one chunk under way, the one after those that its *)
(* session counts, and every counter is covered by the file.               *)
Resumes == Client = "resuming" /\ ~Overlap
ChunkNext(r) ==
  /\ pc[r] = "restore" => Covered(snap[r]) /\ (kind[r] = "chunk" => snap[r] = arg[r][1] /\ map[at[r]] = None)
  /\ pc[r] \in {"chunk", "check", "write", "opened", "hash", "count"} => session[val[r]].size = arg[r][1]
  /\ pc[r] = "count" => arg[r][1] \in Chunks /\ temp[arg[r][1]] # "hole"
ProgressInv ==
  Resumes =>
    /\ \A q, r \in Requests : Chunking(q) /\ Chunking(r) => q = r
    /\ \A o \in Objects : Covered(session[o].size)
    /\ store # None => Covered(store)
    /\ \A r \in Requests : ChunkNext(r)

(* One completion at most ever takes the temp file away and goes on. *)
Past(r) == pc[r] \in {"meta", "finish"} \/ (Encrypt /\ pc[r] \in {"lock", "move"})
CommitInv ==
  /\ \A r \in Requests : Past(r) => where # "temp" /\ ~done
  /\ \A q, r \in Requests : Past(q) /\ Past(r) => q = r
  /\ done => where # "temp"
  /\ Encrypt => where # "stored"

(* What the stored file must be, and when a hash computed on the way tells it *)
Whole(c) == c # None /\ (\A k \in Chunks : c[k] # "hole") /\ (HashGiven => c = Good)
HashTrue(s) == s.hasher /\ s.valid => \A k \in 1 .. Len(s.hashed) : s.hashed[k] = temp[k - 1]

(* The three cases of Trusted *)
Undamaged == HashGiven /\ Data = {"good"}
Alone == HashGiven /\ Instances = {Home} /\ ~Overlap /\ "partial" \notin FailedWrites
InOrder == ~HashGiven /\ Client = "resuming" /\ ~Overlap

(* A completion that has passed its check, and what it has checked by then *)
Checked(r) == pc[r] = "encrypt" \/ (~Encrypt /\ pc[r] \in {"lock", "move"})
IntactInv ==
  Trusted =>
    /\ \A r \in Requests : Checked(r) => Whole(temp)
    /\ \A r \in Requests : Encrypt /\ pc[r] \in {"lock", "move"} => Whole(snap[r])
    /\ done \/ (\E r \in Requests : pc[r] \in {"meta", "finish"}) => Whole(Stored)

(* After a success nothing reaches the temp file through a session any more. *)
Sealed ==
  /\ map[Home] # None => ~session[map[Home]].open
  /\ \A r \in Requests : /\ pc[r] \notin {"opened", "hash", "count", "persist"}
                         /\ pc[r] \in {"chunk", "check", "write"} => ~session[val[r]].open

(* Why the check can be trusted, in each of the three cases *)
UndamagedInv == Undamaged => \A o \in Objects : HashTrue(session[o])
AloneInv ==
  Alone =>
    /\ \A r \in Requests : pc[r] \in {"complete", "close", "verify"} => HashTrue(session[val[r]])
    /\ done => Sealed
InOrderInv == InOrder => \A r \in Requests : pc[r] \in {"close", "verify"} => Whole(temp)

(* A request that is under way goes on with the same arguments, or is over. *)
Advance(r) ==
  /\ pc[r] # "idle" /\ OnlyLocalsOf(r) /\ pc' \in [Requests -> Label]
  /\ \/ pc'[r] = "idle"
     \/ /\ kind'[r] = kind[r] /\ arg'[r] = arg[r] /\ at'[r] = at[r]
        /\ pc[r] # "restore" => val'[r] = val[r]

(* A request that returns is over. *)
LEMMA ReturnAdvances ==
  ASSUME TypeInv, setting' = setting, NEW r \in Requests, pc[r] # "idle", Return(r)
  PROVE  Advance(r)
BY ReturnEffect, Zenon DEF Advance, TypeInv, LocalsTyped

(* A request that goes on keeps its locals. *)
LEMMA GotoAdvances ==
  ASSUME TypeInv, setting' = setting, NEW r \in Requests, pc[r] # "idle", NEW label \in Label, Goto(r, label),
         UNCHANGED locals
  PROVE  Advance(r) /\ pc'[r] = label /\ snap'[r] = snap[r]
BY GotoEffect, Zenon DEF Advance, TypeInv, LocalsTyped

(* The steps of UploadChunk lead to its end or on under the lock. *)
LEMMA ChunkAdvances ==
  ASSUME TypeInv, setting' = setting, NEW r \in Requests, ChunkStep(r)
  PROVE  Advance(r) /\ pc[r] \in {"chunk"} \cup Locked /\ pc'[r] \in {"idle"} \cup Locked
<1>1. pc[r] \in {"chunk"} \cup Locked /\ pc[r] # "idle"
  BY Zenon DEF ChunkStep, ChunkLock, ChunkCheck, ChunkOpen, ChunkWrite, ChunkHash, ChunkCount, ChunkPersist, Locked
<1>2. Return(r) \/ \E label \in Locked : Goto(r, label) /\ UNCHANGED locals
  BY Zenon DEF ChunkStep, ChunkLock, ChunkCheck, ChunkOpen, ChunkWrite, ChunkHash, ChunkCount, ChunkPersist, Locked
<1>3. CASE Return(r)
  BY <1>1, <1>3, ReturnAdvances, ReturnEffect, Zenon DEF TypeInv
<1>4. ASSUME NEW label \in Locked, Goto(r, label), UNCHANGED locals
      PROVE  Advance(r) /\ pc'[r] \in Locked
  <2>1. label \in Label
    BY Zenon DEF Locked, Label
  <2> QED BY <1>1, <1>4, <2>1, GotoAdvances, Zenon
<1> QED BY <1>1, <1>2, <1>3, <1>4, Zenon

(* The steps of CompleteUpload lead to its end or on. *)
LEMMA CompleteAdvances ==
  ASSUME TypeInv, setting' = setting, NEW r \in Requests, CompleteStep(r)
  PROVE  Advance(r) /\ pc[r] \in Completion /\ pc'[r] \in {"idle", "unstore"} \cup Closing
<1>1. pc[r] \in Completion /\ pc[r] # "idle"
  BY Zenon DEF CompleteStep, CompleteCheck, CompleteClose, CompleteVerify, CompleteEncrypt, CompleteLock,
       CompleteMove, CompleteMeta, CompleteFinish, Completion, Closing
<1>2. \/ Return(r)
      \/ CompleteEncrypt(r) /\ ~Return(r)
      \/ \E label \in Closing : Goto(r, label) /\ UNCHANGED locals
      \/ Goto(r, "unstore") /\ UNCHANGED locals
  <2>1. CASE CompleteCheck(r) \/ CompleteClose(r)
    BY <2>1, Zenon DEF CompleteCheck, CompleteClose, Completion, Closing
  <2>2. CASE CompleteVerify(r)
    BY <2>2, Zenon DEF CompleteVerify, Completion, Closing
  <2>3. CASE CompleteLock(r) \/ CompleteMove(r)
    BY <2>3, Zenon DEF CompleteLock, CompleteMove, Completion, Closing
  <2>4. CASE CompleteMeta(r) \/ CompleteFinish(r)
    BY <2>4, Zenon DEF CompleteMeta, CompleteFinish, Completion, Closing
  <2> QED BY <2>1, <2>2, <2>3, <2>4, Zenon DEF CompleteStep
<1>3. CASE Return(r)
  BY <1>1, <1>3, ReturnAdvances, ReturnEffect, Zenon DEF TypeInv
<1>4. ASSUME NEW label \in {"unstore"} \cup Closing, Goto(r, label), UNCHANGED locals
      PROVE  Advance(r) /\ pc'[r] = label
  <2>1. label \in Label
    BY Zenon DEF Closing, Label
  <2> QED BY <1>1, <1>4, <2>1, GotoAdvances, Zenon
<1>5. CASE CompleteEncrypt(r) /\ ~Return(r)
  <2>1. Goto(r, "lock") /\ snap' = [snap EXCEPT ![r] = temp] /\ UNCHANGED <<at, kind, val, arg>>
    BY <1>5, Zenon DEF CompleteEncrypt
  <2>2. pc' \in [Requests -> Label] /\ pc'[r] = "lock" /\ OnlyLocalsOf(r)
    BY <2>1, Zenon DEF Goto, OnlyLocalsOf, Label, TypeInv, LocalsTyped
  <2> QED BY <1>1, <2>1, <2>2, Zenon DEF Advance, Completion, Closing
<1> QED BY <1>1, <1>2, <1>3, <1>4, <1>5, Zenon

(* Those of AbortUpload and of the expiry *)
LEMMA AbortAdvances ==
  ASSUME TypeInv, setting' = setting, NEW r \in Requests, AbortStep(r) \/ Unstore(r)
  PROVE  /\ Advance(r) /\ pc[r] \in {"abort", "cleanup", "drop", "remove", "unstore"}
         /\ pc'[r] \in {"idle", "drop", "remove", "unstore"}
<1>1. pc[r] \in {"abort", "cleanup", "drop", "remove", "unstore"} /\ pc[r] # "idle"
  BY Zenon DEF AbortStep, AbortClose, AbortDrop, AbortRemove, Unstore
<1>2. Return(r) \/ \E label \in {"drop", "remove", "unstore"} : Goto(r, label) /\ UNCHANGED locals
  BY Zenon DEF AbortStep, AbortClose, AbortDrop, AbortRemove, Unstore
<1>3. CASE Return(r)
  BY <1>1, <1>3, ReturnAdvances, ReturnEffect, Zenon DEF TypeInv
<1>4. ASSUME NEW label \in {"drop", "remove", "unstore"}, Goto(r, label), UNCHANGED locals
      PROVE  Advance(r) /\ pc'[r] = label
  <2>1. label \in Label
    BY Zenon DEF Label
  <2> QED BY <1>1, <1>4, <2>1, GotoAdvances, Zenon
<1> QED BY <1>1, <1>2, <1>3, <1>4, Zenon

(* The session value that a request restores is nobody's, or that of the map. *)
LEMMA RestoreAdvances ==
  ASSUME TypeInv, setting' = setting, NEW r \in Requests, Restore(r)
  PROVE  /\ Advance(r) /\ pc[r] = "restore" /\ kind[r] \in {"chunk", "complete"} /\ pc'[r] = kind[r]
         /\ \/ map[at[r]] # None /\ val'[r] = map[at[r]] /\ UNCHANGED <<map, session>>
            \/ /\ map[at[r]] = None /\ map' = [map EXCEPT ![at[r]] = val'[r]]
               /\ val'[r] \in Unreferenced
               /\ session' = [session EXCEPT ![val'[r]] = NewSession(snap[r], FALSE, where = "temp")]
<1>1. pc[r] = "restore" /\ Goto(r, kind[r]) /\ UNCHANGED <<at, kind, arg>> /\ snap' = [snap EXCEPT ![r] = None]
  BY Zenon DEF Restore
<1>2. kind[r] \in {"chunk", "complete"}
  BY <1>1, Zenon DEF TypeInv, Local
<1>3. pc' \in [Requests -> Label] /\ pc'[r] = kind[r]
  BY <1>1, <1>2, Zenon DEF Goto, Label, TypeInv, LocalsTyped
<1>4. ASSUME NEW o, val' = [val EXCEPT ![r] = o] PROVE Advance(r) /\ val'[r] = o
  <2>1. val'[r] = o /\ OnlyLocalsOf(r)
    BY <1>1, <1>4, Zenon DEF Goto, OnlyLocalsOf, TypeInv, LocalsTyped
  <2> QED BY <1>1, <1>2, <1>3, <2>1, Zenon DEF Advance
<1>5. CASE map[at[r]] # None
  BY <1>1, <1>2, <1>3, <1>4, <1>5, Zenon DEF Restore
<1>6. CASE map[at[r]] = None
  <2> DEFINE o == CHOOSE x \in Unreferenced : TRUE
  <2>1. /\ Unreferenced # {} /\ map' = [map EXCEPT ![at[r]] = o] /\ val' = [val EXCEPT ![r] = o]
        /\ session' = [session EXCEPT ![o] = NewSession(snap[r], FALSE, where = "temp")]
    BY <1>6, Zenon DEF Restore
  <2>2. o \in Unreferenced
    BY <2>1, Zenon
  <2> HIDE DEF o
  <2>3. Advance(r) /\ val'[r] = o
    BY <1>4, <2>1, Zenon
  <2> QED BY <1>1, <1>2, <1>3, <1>6, <2>1, <2>2, <2>3, Zenon
<1> QED BY <1>5, <1>6, Zenon

(* What arrives as a request *)
Sends == {"chunk", "complete", "abort", "cleanup"}

(* A request that arrives has the session of the map, or restores it. *)
LEMMA StartEffect ==
  ASSUME TypeInv, setting' = setting, NEW r \in Requests, NEW k \in Sends,
         NEW i \in Instances, NEW c, NEW d, Start(r, k, i, c, d)
  PROVE  /\ pc[r] = "idle" /\ OnlyLocalsOf(r) /\ MaySend(k, i, c)
         /\ kind'[r] = k /\ at'[r] = i /\ arg'[r] = <<c, d>>
         /\ \/ map[i] # None /\ pc'[r] = k /\ val'[r] = map[i]
            \/ map[i] = None /\ k \in {"chunk", "complete"} /\ store # None /\ pc'[r] = "restore" /\ snap'[r] = store
<1>1. /\ pc[r] = "idle" /\ MaySend(k, i, c) /\ LocalsTyped
      /\ at' = [at EXCEPT ![r] = i] /\ kind' = [kind EXCEPT ![r] = k] /\ arg' = [arg EXCEPT ![r] = <<c, d>>]
  BY Zenon DEF Start, TypeInv
<1>2. kind'[r] = k /\ at'[r] = i /\ arg'[r] = <<c, d>>
  BY <1>1, Zenon DEF LocalsTyped
<1>3. CASE map[i] # None /\ Goto(r, k) /\ val' = [val EXCEPT ![r] = map[i]] /\ UNCHANGED snap
  <2>1. OnlyLocalsOf(r) /\ pc'[r] = k /\ val'[r] = map[i]
    BY <1>1, <1>3, Zenon DEF LocalsTyped, OnlyLocalsOf, Goto
  <2> QED BY <1>1, <1>2, <1>3, <2>1, Zenon
<1>4. CASE map[i] = None /\ k \in {"chunk", "complete"} /\ store # None
           /\ Goto(r, "restore") /\ snap' = [snap EXCEPT ![r] = store] /\ UNCHANGED val
  <2>1. OnlyLocalsOf(r) /\ pc'[r] = "restore" /\ snap'[r] = store
    BY <1>1, <1>4, Zenon DEF LocalsTyped, OnlyLocalsOf, Goto
  <2> QED BY <1>1, <1>2, <1>4, <2>1, Zenon
<1> QED BY <1>3, <1>4, Zenon DEF Start

(* A crash ends the requests of its instance and no others. *)
LEMMA CrashEffect ==
  ASSUME NEW i \in Instances, Crash(i), NEW r \in Requests
  PROVE  \/ pc'[r] = "idle"
         \/ /\ pc[r] # "idle" /\ at[r] # i /\ pc'[r] = pc[r] /\ kind'[r] = kind[r] /\ at'[r] = at[r]
            /\ val'[r] = val[r] /\ arg'[r] = arg[r] /\ snap'[r] = snap[r]
<1> DEFINE mine == {h \in Requests : pc[h] # "idle" /\ at[h] = i}
<1>1. /\ pc'[r] = IF r \in mine THEN "idle" ELSE pc[r]
      /\ at'[r] = IF r \in mine THEN Home ELSE at[r]
      /\ kind'[r] = IF r \in mine THEN "none" ELSE kind[r]
      /\ val'[r] = IF r \in mine THEN None ELSE val[r]
      /\ arg'[r] = IF r \in mine THEN <<0, "good">> ELSE arg[r]
      /\ snap'[r] = IF r \in mine THEN None ELSE snap[r]
  BY Zenon DEF Crash
<1> QED BY <1>1, Zenon

(* A client that keeps them apart never has a chunk and a completion under way. *)
LEMMA TurnsStep == UploadInv /\ TurnsInv /\ [Next]_vars => TurnsInv'
<1> SUFFICES ASSUME UploadInv, TurnsInv, [Next]_vars PROVE TurnsInv'
  BY Zenon
<1> USE DEF Locked, Completion, Closing
<1>0. TypeInv /\ setting' = setting /\ (Overlap' <=> Overlap)
  BY SettingFixed, Zenon DEF UploadInv, Overlap
<1>1. ASSUME NEW r \in Requests, Advance(r),
             pc'[r] \in {"chunk"} \cup Locked => kind[r] = "chunk", pc'[r] \in Completion => kind[r] = "complete"
      PROVE  TurnsInv'
  <2>1. \A q \in Requests : (Chunking(q)' => Chunking(q)) /\ (Completing(q)' => Completing(q))
    BY <1>1, Zenon DEF Advance, OnlyLocalsOf, Chunking, Completing
  <2>2. ASSUME NEW q \in Requests
        PROVE  /\ pc'[q] \in {"chunk"} \cup Locked => kind'[q] = "chunk"
               /\ pc'[q] \in Completion => kind'[q] = "complete"
    <3>1. CASE q = r
      BY <1>1, <3>1, Zenon DEF Advance
    <3>2. CASE q # r
      BY <1>1, <3>2, Zenon DEF Advance, OnlyLocalsOf, TurnsInv
    <3> QED BY <3>1, <3>2, Zenon
  <2> QED BY <1>0, <2>1, <2>2, Zenon DEF TurnsInv
<1>2. ASSUME NEW r \in Requests, ChunkStep(r) PROVE TurnsInv'
  <2>1. Advance(r) /\ pc[r] \in {"chunk"} \cup Locked /\ pc'[r] \in {"idle"} \cup Locked
    BY <1>0, <1>2, ChunkAdvances, Zenon
  <2> QED BY <1>1, <2>1, Zenon DEF TurnsInv
<1>3. ASSUME NEW r \in Requests, CompleteStep(r) PROVE TurnsInv'
  <2>1. Advance(r) /\ pc[r] \in Completion /\ pc'[r] \in {"idle", "unstore"} \cup Closing
    BY <1>0, <1>3, CompleteAdvances, Zenon
  <2> QED BY <1>1, <2>1, Zenon DEF TurnsInv
<1>4. ASSUME NEW r \in Requests, AbortStep(r) \/ Unstore(r) PROVE TurnsInv'
  BY <1>0, <1>1, <1>4, AbortAdvances, Zenon
<1>5. ASSUME NEW r \in Requests, Restore(r) PROVE TurnsInv'
  BY <1>0, <1>1, <1>5, RestoreAdvances, Zenon
<1>6. ASSUME NEW r \in Requests, NEW k \in Sends,
             NEW i \in Instances, NEW c, NEW d, Start(r, k, i, c, d)
      PROVE  TurnsInv'
  <2>1. /\ OnlyLocalsOf(r) /\ MaySend(k, i, c) /\ kind'[r] = k /\ pc'[r] \in {k, "restore"}
    BY <1>0, <1>6, StartEffect, Zenon
  <2>2. /\ k \in {"chunk", "complete"} /\ ~Overlap => \A q \in Requests : ~Chunking(q)
        /\ k = "chunk" /\ ~Overlap => \A q \in Requests : ~Completing(q)
    BY <2>1, Zenon DEF MaySend, InFlight, Chunking, Completing
  <2>3. \A q \in Requests \ {r} : (Chunking(q)' => Chunking(q)) /\ (Completing(q)' => Completing(q))
    BY <2>1, Zenon DEF OnlyLocalsOf, Chunking, Completing
  <2>4. (Chunking(r)' => k = "chunk") /\ (Completing(r)' => k = "complete")
    BY <2>1, Zenon DEF Chunking, Completing
  <2>5. ASSUME NEW q \in Requests, NEW h \in Requests, ~Overlap, Chunking(q)', Completing(h)' PROVE FALSE
    BY <2>2, <2>3, <2>4, <2>5, Zenon DEF TurnsInv
  <2>6. ASSUME NEW q \in Requests
        PROVE  /\ pc'[q] \in {"chunk"} \cup Locked => kind'[q] = "chunk"
               /\ pc'[q] \in Completion => kind'[q] = "complete"
    <3>1. CASE q = r
      BY <1>6, <2>1, <3>1, Zenon DEF Sends
    <3>2. CASE q # r
      BY <2>1, <3>2, Zenon DEF OnlyLocalsOf, TurnsInv
    <3> QED BY <3>1, <3>2, Zenon
  <2> QED BY <1>0, <2>5, <2>6, Zenon DEF TurnsInv
<1>7. ASSUME NEW i \in Instances, Crash(i) PROVE TurnsInv'
  <2>1. \A q \in Requests : (Chunking(q)' => Chunking(q)) /\ (Completing(q)' => Completing(q))
    BY <1>7, CrashEffect, Zenon DEF Chunking, Completing
  <2>2. ASSUME NEW q \in Requests
        PROVE  /\ pc'[q] \in {"chunk"} \cup Locked => kind'[q] = "chunk"
               /\ pc'[q] \in Completion => kind'[q] = "complete"
    BY <1>7, CrashEffect, Zenon DEF TurnsInv
  <2> QED BY <1>0, <2>1, <2>2, Zenon DEF TurnsInv
<1>8. CASE UNCHANGED vars
  BY <1>0, <1>8, Zenon DEF vars, TurnsInv, Chunking, Completing
<1>9. Kinds \subseteq {"chunk", "complete", "abort", "cleanup", "crash"}
  BY SettingTypes, Zenon DEF UploadInv, TypeInv
<1> QED BY <1>2, <1>3, <1>4, <1>5, <1>6, <1>7, <1>8, <1>9, Zenon DEF Next, Sends

-----------------------------------------------------------------------------
(* Chunks that were written stay written. *)
Grows == \A k \in Chunks : temp[k] # "hole" => temp'[k] # "hole"

(* A write, failed or not, leaves no hole where there was none. *)
LEMMA WriteGrows ==
  ASSUME UploadInv, setting' = setting, NEW r \in Requests, ChunkWrite(r)
  PROVE  /\ Grows /\ arg[r][1] \in Chunks /\ arg[r][2] \in Data /\ temp' \in {temp, Written(r)}
         /\ \A k \in Chunks : Written(r)[k] = IF k = arg[r][1] THEN arg[r][2] ELSE temp[k]
<1>1. /\ setting \in Settings /\ LocalsTyped /\ SharedTyped /\ Local(r) /\ pc[r] \in {"write", "opened"}
  BY Zenon DEF UploadInv, TypeInv, ChunkWrite
<1>2. arg[r][1] \in Chunks /\ arg[r][2] \in Data
  <2>1. arg[r][1] + 1 <= N
    BY <1>1, Zenon DEF Local
  <2>2. arg[r][1] \in 0 .. N /\ arg[r][2] \in Data /\ N \in Nat
    BY <1>1, SettingTypes, Zenon DEF LocalsTyped
  <2> QED BY <2>1, <2>2 DEF Chunks
<1>3. temp' \in {temp, Written(r)}
  BY Zenon DEF ChunkWrite
<1>4. \A k \in Chunks : Written(r)[k] = IF k = arg[r][1] THEN arg[r][2] ELSE temp[k]
  BY <1>1, <1>2, Zenon DEF Written, Content, SharedTyped
<1>5. arg[r][2] # "hole"
  <2>1. Data \subseteq {"good", "bad"}
    BY <1>1, SettingTypes, Zenon
  <2> QED BY <1>2, <2>1, Zenon
<1> QED BY <1>2, <1>3, <1>4, <1>5, Zenon DEF Grows

(* What was covered stays covered. *)
LEMMA CoveredGrows ==
  ASSUME setting' = setting, Grows, NEW n, Covered(n)
  PROVE  Covered(n)'
<1>1. Chunks' = Chunks
  BY SettingFrame, Zenon DEF Chunks
<1> QED BY <1>1, Zenon DEF Covered, Grows

(* What a step does not count *)
SizesKept == \A o \in Objects : session'[o].size = session[o].size

(* Only ChunkCount and Restore change a counter. *)
LEMMA SizeSteps ==
  ASSUME TypeInv, NEW r \in Requests,
         \/ UNCHANGED session \/ ChunkHash(r) \/ CompleteCheck(r) \/ CompleteClose(r) \/ AbortClose(r)
  PROVE  SizesKept
<1>1. CASE UNCHANGED session
  BY <1>1, Zenon DEF SizesKept
<1>2. ASSUME NEW s, session' = [session EXCEPT ![val[r]] = s], s.size = session[val[r]].size PROVE SizesKept
  BY <1>2, Zenon DEF SizesKept, TypeInv, MemoryTyped
<1>3. ASSUME pc[r] \notin {"idle", "restore"} PROVE session[val[r]] \in SessionValue
  BY <1>3, Zenon DEF TypeInv, Local, MemoryTyped
<1>4. \A t \in SessionValue, b \in BOOLEAN :
        /\ [t EXCEPT !.closed = b].size = t.size /\ [t EXCEPT !.open = b].size = t.size
        /\ [t EXCEPT !.closed = TRUE, !.open = FALSE].size = t.size
  BY Zenon DEF SessionValue
<1>5. CASE ChunkHash(r)
  <2>1. \A t \in SessionValue : \A k, d : Hashed(t, k, d).size = t.size
    <3> SUFFICES ASSUME NEW t \in SessionValue, NEW k, NEW d PROVE Hashed(t, k, d).size = t.size
      BY Zenon
    <3>1. [t EXCEPT !.hashed = Append(t.hashed, d)].size = t.size /\ [t EXCEPT !.valid = FALSE].size = t.size
      BY Zenon DEF SessionValue
    <3> QED BY <3>1, Zenon DEF Hashed
  <2>2. session' = [session EXCEPT ![val[r]] = Hashed(session[val[r]], arg[r][1], arg[r][2])] /\ pc[r] = "hash"
    BY <1>5, Zenon DEF ChunkHash
  <2>3. Hashed(session[val[r]], arg[r][1], arg[r][2]).size = session[val[r]].size
    BY <1>3, <2>1, <2>2, Zenon
  <2> QED BY <1>2, <2>2, <2>3, Zenon
<1>6. CASE CompleteCheck(r) /\ session' # session
  <2>1. session' = [session EXCEPT ![val[r]] = [session[val[r]] EXCEPT !.closed = TRUE]] /\ pc[r] = "complete"
    BY <1>6, Zenon DEF CompleteCheck
  <2> QED BY <1>2, <1>3, <1>4, <2>1, Zenon
<1>7. CASE CompleteClose(r)
  <2>1. session' = [session EXCEPT ![val[r]] = [session[val[r]] EXCEPT !.open = FALSE]] /\ pc[r] = "close"
    BY <1>7, Zenon DEF CompleteClose
  <2> QED BY <1>2, <1>3, <1>4, <2>1, Zenon
<1>8. CASE AbortClose(r)
  <2>1. /\ session' = [session EXCEPT ![val[r]] = [session[val[r]] EXCEPT !.closed = TRUE, !.open = FALSE]]
        /\ pc[r] \in {"abort", "cleanup"}
    BY <1>8, Zenon DEF AbortClose
  <2> QED BY <1>2, <1>3, <1>4, <2>1, Zenon
<1> QED BY <1>1, <1>5, <1>6, <1>7, <1>8, Zenon

(* A step of r that leaves the others' chunks alone *)
LEMMA ProgressFrame ==
  ASSUME UploadInv, TurnsInv, ProgressInv, Resumes, setting' = setting, NEW r \in Requests, OnlyLocalsOf(r),
         Grows, \A o \in Objects : Covered(session[o].size)', store' # None => Covered(store'),
         \A h \in Requests \ {r} : Chunking(h) =>
           /\ ~Chunking(r)'
           /\ pc[h] # "restore" => session'[val[h]].size = session[val[h]].size
           /\ pc[h] = "restore" => map'[at[h]] = None,
         ChunkNext(r)'
  PROVE  ProgressInv'
<1>1. Chunks' = Chunks
  BY SettingFrame, Zenon DEF Chunks
<1>2. \A h \in Requests \ {r} : Chunking(h)' => Chunking(h)
  BY Zenon DEF OnlyLocalsOf, Chunking
<1>3. \A q, h \in Requests : Chunking(q)' /\ Chunking(h)' => q = h
  <2>1. \A q, h \in Requests : Chunking(q) /\ Chunking(h) => q = h
    BY Zenon DEF ProgressInv
  <2> QED BY <1>2, <2>1, Zenon
<1>4. store' # None => Covered(store)'
  BY CoveredGrows, <1>1, Zenon DEF Covered, Grows
<1>5. ASSUME NEW h \in Requests \ {r} PROVE ChunkNext(h)'
  <2>1. /\ pc'[h] = pc[h] /\ kind'[h] = kind[h] /\ at'[h] = at[h] /\ val'[h] = val[h]
        /\ arg'[h] = arg[h] /\ snap'[h] = snap[h] /\ ChunkNext(h)
    BY Zenon DEF OnlyLocalsOf, ProgressInv
  <2>2. pc[h] \in {"chunk", "check", "write", "opened", "hash", "count"} => Chunking(h)
    BY Zenon DEF TurnsInv, Chunking, Locked
  <2>3. pc[h] \in {"chunk", "check", "write", "opened", "hash", "count"} => session'[val'[h]].size = arg'[h][1]
    BY <2>1, <2>2, Zenon DEF ChunkNext
  <2>4. pc[h] = "restore" => Covered(snap[h])'
    <3>1. pc[h] = "restore" => Covered(snap[h])
      BY <2>1, Zenon DEF ChunkNext
    <3> QED BY <1>1, <2>1, <3>1, Zenon DEF Covered, Grows
  <2>5. pc[h] = "restore" /\ kind[h] = "chunk" => snap'[h] = arg'[h][1] /\ map'[at'[h]] = None
    BY <2>1, Zenon DEF ChunkNext, Chunking
  <2>6. pc[h] = "count" => arg'[h][1] \in Chunks /\ temp'[arg'[h][1]] # "hole"
    BY <2>1, Zenon DEF ChunkNext, Grows
  <2> QED BY <1>1, <2>1, <2>3, <2>4, <2>5, <2>6, Zenon DEF ChunkNext
<1>6. \A h \in Requests : ChunkNext(h)'
  BY <1>5, Zenon
<1> QED BY <1>3, <1>4, <1>6, Zenon DEF ProgressInv

(* The same for a step that counts nothing *)
LEMMA ProgressQuiet ==
  ASSUME UploadInv, TurnsInv, ProgressInv, Resumes, setting' = setting, NEW r \in Requests, Advance(r), Grows,
         SizesKept, store' # None => Covered(store'),
         \A i \in Instances : map'[i] \in {None, map[i]}, ChunkNext(r)'
  PROVE  ProgressInv'
<1>1. \A o \in Objects : Covered(session[o].size)'
  <2>1. \A o \in Objects : Covered(session[o].size) /\ session'[o].size = session[o].size
    BY Zenon DEF ProgressInv, SizesKept
  <2>2. Chunks' = Chunks
    BY SettingFrame, Zenon DEF Chunks
  <2> QED BY <2>1, <2>2, Zenon DEF Covered, Grows
<1>2. ASSUME NEW h \in Requests \ {r}, Chunking(h)
      PROVE  /\ ~Chunking(r)'
             /\ pc[h] # "restore" => session'[val[h]].size = session[val[h]].size
             /\ pc[h] = "restore" => map'[at[h]] = None
  <2>1. ~Chunking(r)
    BY <1>2, Zenon DEF ProgressInv
  <2>2. ~Chunking(r)'
    BY <2>1, Zenon DEF Advance, Chunking
  <2>3. Local(h) /\ ChunkNext(h) /\ pc[h] # "idle" /\ kind[h] = "chunk" /\ at[h] \in Instances
    BY <1>2, Zenon DEF UploadInv, TypeInv, LocalsTyped, ProgressInv, Chunking
  <2>4. pc[h] # "restore" => val[h] \in Objects
    BY <2>3, Zenon DEF Local
  <2>5. pc[h] = "restore" => map[at[h]] = None
    BY <2>3, Zenon DEF ChunkNext
  <2> QED BY <2>2, <2>3, <2>4, <2>5, Zenon DEF SizesKept
<1> QED BY <1>1, <1>2, ProgressFrame, Zenon DEF Advance

(* Every step keeps the counters covered. *)
LEMMA ProgressStep == UploadInv /\ TurnsInv /\ ProgressInv /\ [Next]_vars => ProgressInv'
<1> SUFFICES ASSUME UploadInv, TurnsInv, ProgressInv, [Next]_vars, Resumes' PROVE ProgressInv'
  BY Zenon DEF ProgressInv
<1>0. TypeInv /\ setting' = setting /\ Resumes /\ setting \in Settings /\ Chunks' = Chunks /\ Instances' = Instances
  <2>1. TypeInv /\ setting' = setting /\ setting \in Settings
    BY SettingFixed, Zenon DEF UploadInv, TypeInv
  <2> QED BY <2>1, SettingFrame, Zenon DEF Resumes, Client, Overlap, Chunks
<1>a. temp' = temp => Grows
  BY Zenon DEF Grows
<1>b. store' \in {store, None} => (store' # None => Covered(store'))
  BY <1>0, Zenon DEF ProgressInv
<1>c. ASSUME NEW r \in Requests, Quiet(r) PROVE \A i \in Instances : map'[i] \in {None, map[i]}
  BY <1>c, Zenon DEF Quiet
<1>1. ASSUME NEW r \in Requests, ChunkLock(r) \/ ChunkCheck(r) \/ ChunkOpen(r) \/ ChunkWrite(r) \/ ChunkHash(r)
      PROVE  ProgressInv'
  <2>1. Advance(r) /\ UNCHANGED <<map, store>> /\ Local(r) /\ ChunkNext(r)
    BY <1>0, <1>1, ChunkAdvances, Zenon DEF ChunkStep, ChunkLock, ChunkCheck, ChunkOpen, ChunkWrite, ChunkHash, TypeInv, ProgressInv
  <2>2. SizesKept
    BY <1>0, <1>1, SizeSteps, Zenon DEF ChunkLock, ChunkCheck, ChunkOpen, ChunkWrite
  <2>3. Grows
    BY <1>0, <1>1, <1>a, WriteGrows, Zenon DEF ChunkLock, ChunkCheck, ChunkOpen, ChunkHash, files
  <2>4. /\ pc[r] \in {"chunk", "check", "write", "opened", "hash"}
        /\ pc'[r] \in {"idle", "check", "write", "opened", "hash", "count"} /\ (pc'[r] = "count" => ChunkHash(r))
    <3>1. pc[r] \in {"chunk", "check", "write", "opened", "hash"}
      BY <1>1, Zenon DEF ChunkLock, ChunkCheck, ChunkOpen, ChunkWrite, ChunkHash
    <3>2. \/ Return(r) \/ ChunkHash(r)
          \/ \E label \in {"check", "write", "opened", "hash"} : Goto(r, label) /\ UNCHANGED locals
      BY <1>1, Zenon DEF ChunkLock, ChunkCheck, ChunkOpen, ChunkWrite
    <3>3. Return(r) => pc'[r] = "idle"
      BY <1>0, ReturnEffect, Zenon DEF TypeInv
    <3>4. ChunkHash(r) => pc'[r] = "count"
      BY <1>0, Zenon DEF ChunkHash, Goto, TypeInv, LocalsTyped
    <3>5. \A label \in {"check", "write", "opened", "hash"} : Goto(r, label) => pc'[r] = label
      BY <1>0, Zenon DEF Goto, TypeInv, LocalsTyped
    <3> QED BY <3>1, <3>2, <3>3, <3>4, <3>5, Zenon
  <2>5. ChunkNext(r)'
    <3>1. CASE pc'[r] = "idle"
      BY <3>1, Zenon DEF ChunkNext
    <3>2. CASE pc'[r] # "idle"
      <4>1. val'[r] = val[r] /\ arg'[r] = arg[r] /\ val[r] \in Objects /\ session[val[r]].size = arg[r][1]
        BY <2>1, <2>4, <3>2, Zenon DEF Advance, Local, ChunkNext
      <4>2. session'[val'[r]].size = arg'[r][1]
        BY <2>2, <4>1, Zenon DEF SizesKept
      <4>3. CASE pc'[r] = "count"
        <5>1. pc[r] = "hash" /\ temp' = temp
          BY <2>4, <4>3, Zenon DEF ChunkHash, files
        <5>2. temp[arg[r][1]] = arg[r][2] /\ arg[r][1] + 1 <= N
          BY <2>1, <5>1, Zenon DEF Local
        <5>3. arg[r][1] \in 0 .. N /\ arg[r][2] \in Data /\ N \in Nat /\ Data \subseteq {"good", "bad"}
          BY <1>0, SettingTypes, Zenon DEF TypeInv, LocalsTyped
        <5>4. arg[r][1] \in Chunks
          BY <5>2, <5>3 DEF Chunks
        <5>5. arg[r][2] # "hole"
          BY <5>3, Zenon
        <5> QED BY <1>0, <4>1, <4>2, <4>3, <5>1, <5>2, <5>4, <5>5, Zenon DEF ChunkNext
      <4>4. CASE pc'[r] # "count"
        BY <2>4, <4>2, <4>4, Zenon DEF ChunkNext
      <4> QED BY <4>3, <4>4, Zenon
    <3> QED BY <3>1, <3>2, Zenon
  <2> QED BY <1>0, <1>b, <2>1, <2>2, <2>3, <2>5, ProgressQuiet, Zenon
<1>2. ASSUME NEW r \in Requests, ChunkPersist(r) PROVE ProgressInv'
  <2>1. Advance(r) /\ UNCHANGED <<map, temp, session>> /\ Local(r) /\ pc[r] = "persist" /\ pc'[r] = "idle"
    BY <1>0, <1>2, ChunkAdvances, ReturnEffect, Zenon DEF ChunkStep, ChunkPersist, files, TypeInv
  <2>2. val[r] \in Objects
    BY <2>1, Zenon DEF Local
  <2>3. store' # None => Covered(store')
    BY <1>0, <1>2, <2>2, Zenon DEF ChunkPersist, Object, ProgressInv
  <2>4. SizesKept /\ ChunkNext(r)'
    BY <2>1, Zenon DEF SizesKept, ChunkNext
  <2> QED BY <1>0, <1>a, <2>1, <2>3, <2>4, ProgressQuiet, Zenon
<1>3. ASSUME NEW r \in Requests, CompleteStep(r) PROVE ProgressInv'
  <2>1. Advance(r) /\ pc'[r] \in {"idle", "unstore"} \cup Closing
    BY <1>0, <1>3, CompleteAdvances, Zenon
  <2>2. UNCHANGED <<temp, store>>
    BY <1>3, Zenon DEF CompleteStep, CompleteCheck, CompleteClose, CompleteVerify, CompleteEncrypt, CompleteLock,
       CompleteMove, CompleteMeta, CompleteFinish, files
  <2>3. SizesKept
    BY <1>0, <1>3, SizeSteps, Zenon DEF CompleteStep, CompleteVerify, CompleteEncrypt, CompleteLock,
       CompleteMove, CompleteMeta, CompleteFinish
  <2>4. \A i \in Instances : map'[i] \in {None, map[i]}
    BY <1>0, <1>3, <1>c, QuietComplete, Zenon DEF UploadInv
  <2>5. ChunkNext(r)'
    BY <2>1, Zenon DEF ChunkNext, Closing
  <2> QED BY <1>0, <1>a, <1>b, <2>1, <2>2, <2>3, <2>4, <2>5, ProgressQuiet, Zenon
<1>4. ASSUME NEW r \in Requests, AbortStep(r) \/ Unstore(r) PROVE ProgressInv'
  <2>1. Advance(r) /\ pc'[r] \in {"idle", "drop", "remove", "unstore"}
    BY <1>0, <1>4, AbortAdvances, Zenon
  <2>2. temp' = temp /\ store' \in {store, None}
    BY <1>4, Zenon DEF AbortStep, AbortClose, AbortDrop, AbortRemove, Unstore, files
  <2>3. SizesKept
    BY <1>0, <1>4, SizeSteps, Zenon DEF AbortStep, AbortDrop, AbortRemove, Unstore
  <2>4. \A i \in Instances : map'[i] \in {None, map[i]}
    BY <1>0, <1>4, <1>c, QuietAbort, Zenon DEF UploadInv
  <2>5. ChunkNext(r)'
    BY <2>1, Zenon DEF ChunkNext
  <2> QED BY <1>0, <1>a, <1>b, <2>1, <2>2, <2>3, <2>4, <2>5, ProgressQuiet, Zenon
<1>5. ASSUME NEW r \in Requests, ChunkCount(r) PROVE ProgressInv'
  <2>1. Advance(r) /\ UNCHANGED <<temp, store>> /\ Local(r) /\ ChunkNext(r) /\ pc[r] = "count" /\ Chunking(r)
    BY <1>0, <1>5, ChunkAdvances, Zenon DEF ChunkStep, ChunkCount, files, TypeInv, ProgressInv, TurnsInv, Chunking, Locked
  <2> DEFINE o == val[r]
             c == arg[r][1]
  <2>2. o \in Objects /\ session[o].size = c /\ c \in Chunks /\ temp[c] # "hole" /\ Covered(c)
    BY <1>0, <2>1, Zenon DEF Local, ChunkNext, ProgressInv
  <2>3. session'[o].size = c + 1 /\ \A x \in Objects \ {o} : session'[x] = session[x]
    <3>1. session \in [Objects -> SessionValue]
      BY <1>0, Zenon DEF TypeInv, MemoryTyped
    <3>2. session' = [session EXCEPT ![o] = [session[o] EXCEPT !.size = session[o].size + 1,
                                                                !.chunks = (session[o].chunks + 1) % PersistEvery]]
      BY <1>5, Zenon DEF ChunkCount
    <3>3. session[o] \in SessionValue
      BY <2>2, <3>1, Zenon
    <3>4. \A x, y : [session[o] EXCEPT !.size = x, !.chunks = y].size = x
      BY <3>3, Zenon DEF SessionValue
    <3>5. session'[o] = [session[o] EXCEPT !.size = session[o].size + 1, !.chunks = (session[o].chunks + 1) % PersistEvery]
      BY <2>2, <3>1, <3>2, Zenon
    <3>6. session'[o].size = session[o].size + 1
      BY <3>4, <3>5, Zenon
    <3> QED BY <2>2, <3>1, <3>2, <3>6, Zenon
  <2>4. Covered(c + 1)
    <3>1. \A k \in Chunks : k < c + 1 => k < c \/ k = c
      BY <1>0, <2>2, SettingTypes DEF Chunks
    <3> QED BY <2>2, <3>1, Zenon DEF Covered
  <2>5. \A x \in Objects : Covered(session[x].size)'
    <3>1. \A x \in Objects : Covered(session'[x].size)
      <4>1. \A x \in Objects : Covered(session[x].size)
        BY <1>0, Zenon DEF ProgressInv
      <4> QED BY <2>3, <2>4, <4>1, Zenon
    <3> QED BY <1>0, <2>1, <3>1, Zenon DEF Covered
  <2>6. \A h \in Requests \ {r} : ~Chunking(h)
    BY <1>0, <2>1, Zenon DEF ProgressInv
  <2>7. ChunkNext(r)'
    <3>1. pc'[r] \in {"idle", "persist"}
      <4>1. Return(r) => pc'[r] = "idle"
        BY <1>0, ReturnEffect, Zenon DEF TypeInv
      <4>2. Goto(r, "persist") => pc'[r] = "persist"
        BY <1>0, Zenon DEF Goto, TypeInv, LocalsTyped
      <4> QED BY <1>5, <4>1, <4>2, Zenon DEF ChunkCount
    <3> QED BY <3>1, Zenon DEF ChunkNext
  <2>8. store' # None => Covered(store')
    BY <1>b, <2>1, Zenon
  <2> QED BY <1>0, <1>a, <2>1, <2>5, <2>6, <2>7, <2>8, ProgressFrame, Zenon DEF Advance
<1>6. ASSUME NEW r \in Requests, Restore(r) PROVE ProgressInv'
  <2>1. /\ Advance(r) /\ pc[r] = "restore" /\ kind[r] \in {"chunk", "complete"} /\ pc'[r] = kind[r]
        /\ \/ map[at[r]] # None /\ val'[r] = map[at[r]] /\ UNCHANGED <<map, session>>
           \/ /\ map[at[r]] = None /\ val'[r] \in Objects
              /\ session' = [session EXCEPT ![val'[r]] = NewSession(snap[r], FALSE, where = "temp")]
    BY <1>0, <1>6, RestoreAdvances, Zenon DEF Unreferenced
  <2>2. UNCHANGED <<temp, store>> /\ ChunkNext(r) /\ Covered(snap[r])
    BY <1>0, <1>6, <2>1, Zenon DEF Restore, files, ProgressInv, ChunkNext
  <2>3. \A h \in Requests \ {r} : ~Chunking(h)
    BY <1>0, <2>1, Zenon DEF ProgressInv, TurnsInv, Chunking, Completing, Resumes
  <2>4. NewSession(snap[r], FALSE, where = "temp").size = snap[r]
    BY Zenon DEF NewSession
  <2>5. \A o \in Objects : Covered(session[o].size)'
    <3>1. \A o \in Objects : Covered(session[o].size)
      BY <1>0, Zenon DEF ProgressInv
    <3>2. \A o \in Objects : session'[o] = session[o] \/ session'[o].size = snap[r]
      BY <1>0, <2>1, <2>4, Zenon DEF TypeInv, MemoryTyped
    <3>3. \A o \in Objects : Covered(session'[o].size)
      BY <2>2, <3>1, <3>2, Zenon
    <3> QED BY <1>0, <2>2, <3>3, Zenon DEF Covered
  <2>6. ChunkNext(r)'
    <3>1. CASE kind[r] = "complete"
      BY <2>1, <3>1, Zenon DEF ChunkNext
    <3>2. CASE kind[r] = "chunk"
      <4>1. map[at[r]] = None /\ snap[r] = arg[r][1]
        BY <2>1, <2>2, <3>2, Zenon DEF ChunkNext
      <4>2. session'[val'[r]].size = snap[r] /\ arg'[r] = arg[r]
        <5>1. arg'[r] = arg[r]
          BY <2>1, <3>2, Zenon DEF Advance
        <5>2. session'[val'[r]].size = snap[r]
          BY <1>0, <2>1, <2>4, <4>1, Zenon DEF TypeInv, MemoryTyped
        <5> QED BY <5>1, <5>2, Zenon
      <4> QED BY <2>1, <3>2, <4>1, <4>2, Zenon DEF ChunkNext
    <3> QED BY <2>1, <3>1, <3>2, Zenon
  <2>7. store' # None => Covered(store')
    BY <1>b, <2>2, Zenon
  <2> QED BY <1>0, <1>a, <2>1, <2>2, <2>3, <2>5, <2>6, <2>7, ProgressFrame, Zenon DEF Advance
<1>7. ASSUME NEW r \in Requests, NEW k \in Sends,
             NEW i \in Instances, NEW c, NEW d, Start(r, k, i, c, d)
      PROVE  ProgressInv'
  <2>1. /\ pc[r] = "idle" /\ OnlyLocalsOf(r) /\ MaySend(k, i, c)
        /\ kind'[r] = k /\ at'[r] = i /\ arg'[r] = <<c, d>>
        /\ \/ map[i] # None /\ pc'[r] = k /\ val'[r] = map[i]
           \/ map[i] = None /\ k \in {"chunk", "complete"} /\ store # None /\ pc'[r] = "restore" /\ snap'[r] = store
    BY <1>0, <1>7, StartEffect, Zenon
  <2>2. UNCHANGED <<temp, session, map, store>>
    BY <1>7, Zenon DEF Start, files
  <2>3. k = "chunk" => c = Progress(i) /\ \A h \in Requests : ~Chunking(h)
    BY <1>0, <2>1, Zenon DEF MaySend, InFlight, Chunking, Resumes
  <2>4. arg'[r][1] = c
    BY <2>1
  <2>5. ChunkNext(r)'
    <3>1. CASE pc'[r] = "restore"
      <4>1. Covered(store) /\ store = snap'[r] /\ map[i] = None
        BY <1>0, <1>7, <2>1, <3>1, Zenon DEF ProgressInv, Sends
      <4>2. Covered(snap[r])'
        BY <1>0, <2>2, <4>1, Zenon DEF Covered
      <4>3. k = "chunk" => snap'[r] = arg'[r][1] /\ map'[at'[r]] = None
        BY <2>1, <2>2, <2>3, <2>4, <4>1, Zenon DEF Progress
      <4> QED BY <2>1, <3>1, <4>2, <4>3, Zenon DEF ChunkNext
    <3>2. CASE pc'[r] = k /\ map[i] # None /\ val'[r] = map[i]
      <4>1. k = "chunk" => session'[val'[r]].size = arg'[r][1]
        BY <2>2, <2>3, <2>4, <3>2, Zenon DEF Progress
      <4> QED BY <3>2, <4>1, Zenon DEF ChunkNext, Sends
    <3> QED BY <2>1, <3>1, <3>2, Zenon
  <2>6. \A o \in Objects : Covered(session[o].size)'
    <3>1. \A o \in Objects : Covered(session[o].size)
      BY <1>0, Zenon DEF ProgressInv
    <3> QED BY <1>0, <2>2, <3>1, Zenon DEF Covered
  <2>7. store' # None => Covered(store')
    BY <1>b, <2>2, Zenon
  <2>8. ASSUME NEW h \in Requests \ {r}, Chunking(h)
        PROVE  /\ ~Chunking(r)'
               /\ pc[h] # "restore" => session'[val[h]].size = session[val[h]].size
               /\ pc[h] = "restore" => map'[at[h]] = None
    <3>1. ~Chunking(r)'
      BY <2>1, <2>3, <2>8, Zenon DEF Chunking
    <3> QED BY <1>0, <2>2, <2>8, <3>1, Zenon DEF ProgressInv, ChunkNext, Chunking
  <2> QED BY <1>0, <1>a, <2>1, <2>2, <2>5, <2>6, <2>7, <2>8, ProgressFrame, Zenon
<1>8. ASSUME NEW i \in Instances, Crash(i) PROVE ProgressInv'
  <2>1. UNCHANGED <<temp, session, store>> /\ map' = [map EXCEPT ![i] = None]
    BY <1>8, Zenon DEF Crash, files
  <2>2. \A q \in Requests : Chunking(q)' => Chunking(q)
    BY <1>8, CrashEffect, Zenon DEF Chunking
  <2>3. ASSUME NEW r \in Requests PROVE ChunkNext(r)'
    <3>1. ChunkNext(r)
      BY <1>0, Zenon DEF ProgressInv
    <3>2. \A j \in Instances : map[j] = None => map'[j] = None
      BY <1>0, <2>1, Zenon DEF TypeInv, MemoryTyped
    <3>3. CASE pc'[r] = "idle"
      BY <3>3, Zenon DEF ChunkNext
    <3>4. CASE /\ pc'[r] = pc[r] /\ kind'[r] = kind[r] /\ at'[r] = at[r]
               /\ val'[r] = val[r] /\ arg'[r] = arg[r] /\ snap'[r] = snap[r]
      <4>1. at[r] \in Instances
        BY <1>0, Zenon DEF TypeInv, LocalsTyped
      <4> QED BY <1>0, <2>1, <3>1, <3>2, <3>4, <4>1, Zenon DEF ChunkNext, Covered
    <3> QED BY <1>8, <3>3, <3>4, CrashEffect, Zenon
  <2>4. /\ \A o \in Objects : Covered(session[o].size)'
        /\ store' # None => Covered(store)'
    BY <1>0, <2>1, Zenon DEF ProgressInv, Covered
  <2> QED BY <1>0, <2>2, <2>3, <2>4, Zenon DEF ProgressInv
<1>9. CASE UNCHANGED vars
  <2>1. UNCHANGED <<temp, session, store, map, pc, kind, at, val, arg, snap>>
    BY <1>9, Zenon DEF vars
  <2>2. ASSUME NEW q \in Requests PROVE (Chunking(q)' => Chunking(q)) /\ ChunkNext(q)'
    <3>1. ChunkNext(q) /\ (Covered(snap[q]) => Covered(snap[q])')
      BY <1>0, <2>1, Zenon DEF ProgressInv, Covered
    <3> QED BY <1>0, <2>1, <3>1, Zenon DEF Chunking, ChunkNext
  <2>3. /\ \A o \in Objects : Covered(session[o].size)'
        /\ store' # None => Covered(store)'
    BY <1>0, <2>1, Zenon DEF ProgressInv, Covered
  <2> QED BY <1>0, <2>2, <2>3, Zenon DEF ProgressInv
<1>10. Kinds \subseteq {"chunk", "complete", "abort", "cleanup", "crash"}
  BY <1>0, SettingTypes, Zenon
<1> QED BY <1>1, <1>2, <1>3, <1>4, <1>5, <1>6, <1>7, <1>8, <1>9, <1>10, Zenon DEF Next, ChunkStep, Sends

(* The session starts with an empty file and counts nothing. *)
LEMMA ProgressInit == Init => UploadInv /\ TurnsInv /\ ProgressInv
<1> SUFFICES ASSUME Init PROVE TurnsInv /\ ProgressInv
  BY InitHolds, Zenon
<1>1. /\ setting \in Settings /\ session = [o \in Objects |-> NewSession(0, HashGiven, TRUE)] /\ store \in {0, None}
      /\ pc = [r \in Requests |-> "idle"]
  BY Zenon DEF Init
<1>2. \A r \in Requests : pc[r] = "idle"
  BY <1>1, Zenon
<1>3. TurnsInv
  BY <1>2, Zenon DEF TurnsInv, Chunking, Completing, Completion, Closing, Locked
<1>4. Covered(0)
  BY <1>1, SettingTypes DEF Covered, Chunks
<1>5. \A o \in Objects : session[o].size = 0
  BY <1>1, Zenon DEF NewSession
<1>6. \A r \in Requests : ~Chunking(r) /\ ChunkNext(r)
  BY <1>2, Zenon DEF Chunking, ChunkNext
<1> QED BY <1>1, <1>3, <1>4, <1>5, <1>6, Zenon DEF ProgressInv

(***************************************************************************)
(* The progress that GetUploadSession reports is backed by the temp file,  *)
(* for files of any size, any number of instances that crash and share the *)
(* session store, and failing writes and updates of the store.             *)
(***************************************************************************)
THEOREM ProgressBacked == Spec => []ProgressCovered
<1>1. UploadInv /\ ProgressInv => ProgressCovered
  <2> SUFFICES ASSUME UploadInv, ProgressInv, Resumes, NEW i \in Instances, Progress(i) # None
               PROVE  Covered(Progress(i))
    BY Zenon DEF ProgressCovered, Covered, Resumes
  <2>1. map[i] # None => map[i] \in Objects
    BY Zenon DEF UploadInv, TypeInv, MemoryTyped
  <2> QED BY <2>1, Zenon DEF Progress, ProgressInv
<1> QED BY <1>1, ProgressInit, NextHolds, TurnsStep, ProgressStep, PTL DEF Spec

-----------------------------------------------------------------------------
(* The temp file never comes back. *)
LEMMA CommitFrame ==
  ASSUME CommitInv, setting' = setting, NEW r \in Requests, OnlyLocalsOf(r), done' = done, Past(r)' => Past(r),
         where # "temp" => where' # "temp", Encrypt => where' # "stored"
  PROVE  CommitInv'
<1>1. Encrypt' <=> Encrypt
  BY Zenon DEF Encrypt
<1>2. \A q \in Requests : Past(q)' => Past(q)
  BY <1>1, Zenon DEF Past, OnlyLocalsOf
<1> QED BY <1>1, <1>2, Zenon DEF CommitInv

(* The first completion to take the temp file away is alone. *)
LEMMA CommitFirst ==
  ASSUME CommitInv, setting' = setting, NEW r \in Requests, OnlyLocalsOf(r), done' = done,
         where = "temp", where' # "temp", Encrypt => where' # "stored"
  PROVE  CommitInv'
<1>1. Encrypt' <=> Encrypt
  BY Zenon DEF Encrypt
<1>2. ~done /\ \A q \in Requests : Past(q)' => q = r
  BY <1>1, Zenon DEF Past, OnlyLocalsOf, CommitInv
<1> QED BY <1>1, <1>2, Zenon DEF CommitInv

(* What os.Remove of the temp path leaves *)
LEMMA RemoveTempEffect ==
  ASSUME RemoveTemp, where \in {"temp", "stored", "gone"}
  PROVE  where' # "temp" /\ (where # "temp" => where' = where) /\ (where = "temp" => where' = "gone")
BY Zenon DEF RemoveTemp

(* A return and a jump, without what they keep *)
LEMMA ReturnIdle ==
  ASSUME TypeInv, setting' = setting, NEW r \in Requests, Return(r)
  PROVE  pc'[r] = "idle" /\ OnlyLocalsOf(r)
BY ReturnEffect, Zenon DEF TypeInv

LEMMA GotoLabel ==
  ASSUME TypeInv, NEW r \in Requests, NEW label, Goto(r, label)
  PROVE  pc'[r] = label
BY Zenon DEF Goto, TypeInv, LocalsTyped

(* What the steps do that end in storage *)
LEMMA MoveEffect ==
  ASSUME TypeInv, setting' = setting, NEW r \in Requests, CompleteMove(r)
  PROVE  /\ pc[r] = "move"
         /\ \/ pc'[r] = "idle" /\ where' # "temp" /\ (where # "temp" => where' = where /\ (copy' = copy \/ Encrypt))
               /\ (where # "stored" => where' # "stored")
            \/ /\ pc'[r] = "meta" /\ Encrypt /\ where' = where /\ copy' = snap[r]
            \/ /\ pc'[r] = "meta" /\ ~Encrypt /\ where = "temp"
               /\ where' = "stored" \/ (where' = "gone" /\ copy' = temp)
<1>0. where \in {"temp", "stored", "gone"} /\ pc[r] = "move"
  BY Zenon DEF TypeInv, SharedTyped, CompleteMove
<1>1. PICK w \in WriteFromTempFile(r) :
        /\ copy' = w.copy
        /\ IF w.ok THEN where' = w.where /\ Goto(r, "meta") /\ UNCHANGED <<map, count, flock, locals>>
                   ELSE RemoveTemp /\ Drop(r) /\ Return(r) /\ flock' = None
  BY Zenon DEF CompleteMove
<1>2. CASE ~w.ok
  <2>1. pc'[r] = "idle" /\ where' # "temp" /\ (where # "temp" => where' = where) /\ (where = "temp" => where' = "gone")
    BY <1>0, <1>1, <1>2, ReturnIdle, RemoveTempEffect, Zenon
  <2>2. where # "temp" /\ ~Encrypt => w.copy = copy
    BY <1>1 DEF WriteFromTempFile
  <2> QED BY <1>0, <1>1, <2>1, <2>2, Zenon
<1>3. CASE w.ok
  <2>1. pc'[r] = "meta" /\ where' = w.where /\ copy' = w.copy
    BY <1>1, <1>3, GotoLabel, Zenon
  <2>2. CASE Encrypt
    <3>1. w.where = where /\ w.copy = snap[r]
      BY <1>1, <1>3, <2>2 DEF WriteFromTempFile
    <3> QED BY <1>0, <2>1, <2>2, <3>1, Zenon
  <2>3. CASE ~Encrypt
    <3>1. where = "temp" /\ (w.where = "stored" \/ (w.where = "gone" /\ w.copy = temp))
      BY <1>1, <1>3, <2>3 DEF WriteFromTempFile
    <3> QED BY <1>0, <2>1, <2>3, <3>1, Zenon
  <2> QED BY <2>2, <2>3, Zenon
<1> QED BY <1>2, <1>3, Zenon

LEMMA MetaEffect ==
  ASSUME TypeInv, setting' = setting, NEW r \in Requests, CompleteMeta(r)
  PROVE  /\ pc[r] = "meta" /\ done' = done
         /\ \/ pc'[r] = "finish" /\ where' = where /\ copy' = copy
            \/ pc'[r] = "idle" /\ (where # "temp" => where' # "temp") /\ (where # "stored" => where' # "stored")
<1>1. CASE Goto(r, "finish") /\ UNCHANGED <<where, copy>>
  BY <1>1, GotoLabel, Zenon DEF CompleteMeta
<1>2. CASE Return(r) /\ UNCHANGED <<where, copy>>
  BY <1>2, ReturnIdle, Zenon DEF CompleteMeta
<1>3. CASE Return(r) /\ where' = IF where = "stored" THEN "gone" ELSE where
  BY <1>3, ReturnIdle, Zenon DEF CompleteMeta
<1> QED BY <1>1, <1>2, <1>3, Zenon DEF CompleteMeta

LEMMA FinishEffect ==
  ASSUME TypeInv, setting' = setting, NEW r \in Requests, CompleteFinish(r)
  PROVE  /\ pc[r] = "finish" /\ pc'[r] = "unstore" /\ done' = TRUE /\ copy' = copy
         /\ where' # "temp" /\ (where # "temp" => where' = where)
<1>1. pc'[r] = "unstore"
  BY GotoLabel, Zenon DEF CompleteFinish
<1>2. where \in {"temp", "stored", "gone"}
  BY Zenon DEF TypeInv, SharedTyped
<1> QED BY <1>1, <1>2, RemoveTempEffect, Zenon DEF CompleteFinish

LEMMA EncryptEffect ==
  ASSUME TypeInv, setting' = setting, NEW r \in Requests, CompleteEncrypt(r)
  PROVE  /\ pc[r] = "encrypt" /\ done' = done /\ copy' = copy
         /\ where' # "temp" /\ (where # "temp" => where' = where) /\ (where = "temp" => where' = "gone")
         /\ pc'[r] = "idle" \/ (pc'[r] = "lock" /\ where = "temp" /\ snap'[r] = temp)
<1>1. CASE where = "temp" /\ snap' = [snap EXCEPT ![r] = temp] /\ Goto(r, "lock")
  <2>1. pc'[r] = "lock" /\ snap'[r] = temp
    BY <1>1, GotoLabel, Zenon DEF TypeInv, LocalsTyped
  <2> QED BY <1>1, <2>1, RemoveTempEffect, Zenon DEF CompleteEncrypt
<1>2. CASE Return(r)
  <2>1. where \in {"temp", "stored", "gone"}
    BY Zenon DEF TypeInv, SharedTyped
  <2> QED BY <1>2, <2>1, ReturnIdle, RemoveTempEffect, Zenon DEF CompleteEncrypt
<1> QED BY <1>1, <1>2, Zenon DEF CompleteEncrypt

LEMMA VerifyEffect ==
  ASSUME TypeInv, setting' = setting, NEW r \in Requests, CompleteVerify(r)
  PROVE  /\ pc[r] = "verify" /\ done' = done /\ copy' = copy
         /\ (where # "temp" => where' = where) /\ (where' = where \/ where' = "gone")
         /\ \/ pc'[r] = "idle"
            \/ /\ pc'[r] = (IF Encrypt THEN "encrypt" ELSE "lock") /\ where' = where
               /\ HashGiven => Computed(session[val[r]]) = Good
<1>1. where \in {"temp", "stored", "gone"}
  BY Zenon DEF TypeInv, SharedTyped
<1>2. CASE Return(r) /\ RemoveTemp
  BY <1>1, <1>2, ReturnIdle, RemoveTempEffect, Zenon DEF CompleteVerify
<1>3. CASE /\ HashGiven => Computed(Object(r)) = Good
           /\ Goto(r, IF Encrypt THEN "encrypt" ELSE "lock") /\ UNCHANGED where
  BY <1>3, GotoLabel, Zenon DEF CompleteVerify, Object
<1> QED BY <1>2, <1>3, Zenon DEF CompleteVerify

LEMMA LockEffect ==
  ASSUME TypeInv, setting' = setting, NEW r \in Requests, CompleteLock(r)
  PROVE  /\ pc[r] = "lock" /\ done' = done /\ copy' = copy
         /\ (where # "temp" => where' = where) /\ (where' = where \/ where' = "gone")
         /\ pc'[r] = "idle" \/ (pc'[r] = "move" /\ where' = where /\ snap'[r] = snap[r])
<1>1. where \in {"temp", "stored", "gone"}
  BY Zenon DEF TypeInv, SharedTyped
<1>2. CASE Return(r) /\ RemoveTemp
  BY <1>1, <1>2, ReturnIdle, RemoveTempEffect, Zenon DEF CompleteLock
<1>3. CASE Goto(r, "move") /\ UNCHANGED <<where, locals>>
  BY <1>3, GotoLabel, Zenon DEF CompleteLock, locals
<1> QED BY <1>2, <1>3, Zenon DEF CompleteLock

(* The steps before those, and those of the other requests *)
Early(r) == Restore(r) \/ ChunkStep(r) \/ CompleteCheck(r) \/ CompleteClose(r) \/ AbortStep(r) \/ Unstore(r)

(* They reach neither storage nor the steps that lead there. *)
LEMMA EarlyEffect ==
  ASSUME TypeInv, setting' = setting, NEW r \in Requests, Early(r)
  PROVE  /\ Advance(r) /\ ~Past(r)' /\ pc'[r] \notin {"encrypt", "lock", "move", "meta", "finish"}
         /\ done' = done /\ copy' = copy /\ (where # "temp" => where' = where) /\ (where' = where \/ where' = "gone")
<1>1. where \in {"temp", "stored", "gone"}
  BY Zenon DEF TypeInv, SharedTyped
<1>2. done' = done /\ copy' = copy /\ (UNCHANGED where \/ RemoveTemp)
  BY Zenon DEF Early, Restore, ChunkStep, ChunkLock, ChunkCheck, ChunkOpen, ChunkWrite, ChunkHash, ChunkCount,
       ChunkPersist, CompleteCheck, CompleteClose, AbortStep, AbortClose, AbortDrop, AbortRemove, Unstore, files
<1>3. ASSUME CompleteCheck(r) \/ CompleteClose(r) PROVE pc'[r] \in {"idle", "close", "verify"}
  BY <1>3, ReturnIdle, GotoLabel, Zenon DEF CompleteCheck, CompleteClose
<1>4. /\ Advance(r)
      /\ pc'[r] \in {"idle", "unstore", "drop", "remove", "chunk", "complete", "close", "verify"} \cup Locked
  BY <1>3, RestoreAdvances, ChunkAdvances, CompleteAdvances, AbortAdvances, Zenon DEF Early, CompleteStep
<1>5. ~Past(r)' /\ pc'[r] \notin {"encrypt", "lock", "move", "meta", "finish"}
  BY <1>4, Zenon DEF Past, Locked
<1> QED BY <1>1, <1>2, <1>4, <1>5, RemoveTempEffect, Zenon

(* Every step keeps a single completion past the temp file. *)
LEMMA CommitStep == UploadInv /\ CommitInv /\ [Next]_vars => CommitInv'
<1> SUFFICES ASSUME UploadInv, CommitInv, [Next]_vars PROVE CommitInv'
  BY Zenon
<1>0. TypeInv /\ setting' = setting /\ (Encrypt' <=> Encrypt) /\ (Encrypt => where # "stored")
  BY SettingFixed, Zenon DEF UploadInv, Encrypt, CommitInv
<1>1. ASSUME NEW r \in Requests, Early(r) PROVE CommitInv'
  BY <1>0, <1>1, EarlyEffect, CommitFrame, Zenon DEF Advance
<1>2. ASSUME NEW r \in Requests, CompleteStep(r) PROVE OnlyLocalsOf(r)
  BY <1>0, <1>2, CompleteAdvances, Zenon DEF Advance
<1>3. ASSUME NEW r \in Requests, CompleteVerify(r) PROVE CommitInv'
  <2>1. OnlyLocalsOf(r)
    BY <1>2, <1>3, Zenon DEF CompleteStep
  <2>2. ~Past(r)'
    <3>1. pc'[r] \in {"idle", "encrypt"} \/ (pc'[r] = "lock" /\ ~Encrypt)
      BY <1>0, <1>3, VerifyEffect, Zenon
    <3> QED BY <1>0, <3>1, Zenon DEF Past
  <2> QED BY <1>0, <1>3, <2>1, <2>2, VerifyEffect, CommitFrame, Zenon
<1>4. ASSUME NEW r \in Requests, CompleteEncrypt(r) PROVE CommitInv'
  <2>1. OnlyLocalsOf(r)
    BY <1>2, <1>4, Zenon DEF CompleteStep
  <2>2. CASE where = "temp"
    BY <1>0, <1>4, <2>1, <2>2, EncryptEffect, CommitFirst, Zenon
  <2>3. CASE where # "temp"
    <3>1. ~Past(r)'
      BY <1>0, <1>4, <2>3, EncryptEffect, Zenon DEF Past
    <3> QED BY <1>0, <1>4, <2>1, <2>3, <3>1, EncryptEffect, CommitFrame, Zenon
  <2> QED BY <2>2, <2>3, Zenon
<1>5. ASSUME NEW r \in Requests, CompleteLock(r) PROVE CommitInv'
  <2>1. OnlyLocalsOf(r)
    BY <1>2, <1>5, Zenon DEF CompleteStep
  <2>2. Past(r)' => Past(r)
    BY <1>0, <1>5, LockEffect, Zenon DEF Past
  <2> QED BY <1>0, <1>5, <2>1, <2>2, LockEffect, CommitFrame, Zenon
<1>6. ASSUME NEW r \in Requests, CompleteMove(r) PROVE CommitInv'
  <2>1. OnlyLocalsOf(r) /\ done' = done
    BY <1>2, <1>6, Zenon DEF CompleteStep, CompleteMove
  <2>2. CASE pc'[r] = "idle" /\ where' # "temp" /\ (where # "stored" => where' # "stored")
    <3>1. ~Past(r)'
      BY <2>2, Zenon DEF Past
    <3> QED BY <1>0, <2>1, <2>2, <3>1, CommitFrame, Zenon
  <2>3. CASE pc'[r] = "meta" /\ Encrypt /\ where' = where
    <3>1. Past(r)
      BY <1>0, <1>6, <2>3, MoveEffect, Zenon DEF Past
    <3> QED BY <1>0, <2>1, <2>3, <3>1, CommitFrame, Zenon
  <2>4. CASE ~Encrypt /\ where = "temp" /\ where' \in {"stored", "gone"}
    BY <1>0, <2>1, <2>4, CommitFirst, Zenon
  <2> QED BY <1>0, <1>6, <2>2, <2>3, <2>4, MoveEffect, Zenon
<1>7. ASSUME NEW r \in Requests, CompleteMeta(r) PROVE CommitInv'
  <2>1. OnlyLocalsOf(r)
    BY <1>2, <1>7, Zenon DEF CompleteStep
  <2>2. Past(r)
    BY <1>7, Zenon DEF CompleteMeta, Past
  <2> QED BY <1>0, <1>7, <2>1, <2>2, MetaEffect, CommitFrame, Zenon
<1>8. ASSUME NEW r \in Requests, CompleteFinish(r) PROVE CommitInv'
  <2>1. OnlyLocalsOf(r)
    BY <1>2, <1>8, Zenon DEF CompleteStep
  <2>2. Past(r) /\ ~Past(r)' /\ where' # "temp" /\ where' = where
    <3>1. Past(r)
      BY <1>8, Zenon DEF CompleteFinish, Past
    <3> QED BY <1>0, <1>8, <3>1, FinishEffect, Zenon DEF Past, CommitInv
  <2>3. \A q \in Requests : ~Past(q)'
    <3>1. \A q \in Requests \ {r} : Past(q)' => Past(q)
      BY <1>0, <2>1, Zenon DEF OnlyLocalsOf, Past
    <3> QED BY <2>2, <3>1, Zenon DEF CommitInv
  <2> QED BY <1>0, <2>2, <2>3, Zenon DEF CommitInv
<1>9. ASSUME NEW r \in Requests, NEW k \in Sends,
             NEW i \in Instances, NEW c, NEW d, Start(r, k, i, c, d)
      PROVE  CommitInv'
  <2>1. OnlyLocalsOf(r) /\ pc'[r] \in {k, "restore"}
    BY <1>0, <1>9, StartEffect, Zenon
  <2>2. UNCHANGED <<where, done>>
    BY <1>9, Zenon DEF Start, files
  <2>3. ~Past(r)'
    BY <1>9, <2>1, Zenon DEF Past, Sends
  <2> QED BY <1>0, <2>1, <2>2, <2>3, CommitFrame, Zenon
<1>10. ASSUME NEW i \in Instances, Crash(i) PROVE CommitInv'
  <2>1. UNCHANGED <<where, done>>
    BY <1>10, Zenon DEF Crash, files
  <2>2. \A q \in Requests : Past(q)' => Past(q)
    BY <1>0, <1>10, CrashEffect, Zenon DEF Past
  <2> QED BY <1>0, <2>1, <2>2, Zenon DEF CommitInv
<1>11. CASE UNCHANGED vars
  BY <1>0, <1>11, Zenon DEF vars, CommitInv, Past
<1>12. Kinds \subseteq {"chunk", "complete", "abort", "cleanup", "crash"}
  BY SettingTypes, Zenon DEF UploadInv, TypeInv
<1> QED BY <1>1, <1>3, <1>4, <1>5, <1>6, <1>7, <1>8, <1>9, <1>10, <1>11, <1>12, Zenon DEF Next, CompleteStep, Early, Sends

-----------------------------------------------------------------------------
(* What the file is, once it has been checked *)
LEMMA SettingKeeps ==
  ASSUME setting' = setting
  PROVE  /\ Chunks' = Chunks /\ Good' = Good /\ (HashGiven' <=> HashGiven) /\ (Encrypt' <=> Encrypt)
         /\ (Trusted' <=> Trusted) /\ (Undamaged' <=> Undamaged) /\ (Alone' <=> Alone) /\ (InOrder' <=> InOrder)
         /\ (Whole(temp)' <=> Whole(temp')) /\ (Whole(Stored)' <=> Whole(Stored'))
         /\ \A r : Whole(snap[r])' <=> Whole(snap'[r])
<1>1. Chunks' = Chunks /\ Good' = Good /\ (HashGiven' <=> HashGiven) /\ (Encrypt' <=> Encrypt)
  BY Zenon DEF Chunks, N, Good, HashGiven, Encrypt
<1>2. (Undamaged' <=> Undamaged) /\ (Alone' <=> Alone) /\ (InOrder' <=> InOrder)
  BY Zenon DEF Undamaged, Alone, InOrder, HashGiven, Data, Instances, Overlap, FailedWrites, Client
<1>3. Trusted' <=> Trusted
  BY Zenon DEF Trusted, HashGiven, Data, Instances, Overlap, FailedWrites, Client
<1>4. (Whole(temp)' <=> Whole(temp')) /\ (Whole(Stored)' <=> Whole(Stored')) /\ \A r : Whole(snap[r])' <=> Whole(snap'[r])
  BY <1>1, Zenon DEF Whole
<1> QED BY <1>1, <1>2, <1>3, <1>4, Zenon

(* The temp file is some content, and compared chunk by chunk. *)
LEMMA TempContent ==
  ASSUME TypeInv
  PROVE  temp \in Content /\ temp # None /\ Good # None /\ (temp = Good <=> \A k \in Chunks : temp[k] = "good")
<1>1. setting \in Settings /\ temp \in Content
  BY Zenon DEF TypeInv, SharedTyped
<1>2. None \notin Content /\ "good" \in Data
  BY <1>1, UploadConstants, SettingTypes, Zenon DEF Content, Chunks, N, Data
<1>3. Good \in Content
  BY <1>2, Zenon DEF Good, Content
<1>4. temp = Good <=> \A k \in Chunks : temp[k] = "good"
  BY <1>1, Zenon DEF Good, Content
<1> QED BY <1>1, <1>2, <1>3, <1>4, Zenon

(* A hash that agrees vouches for the file. *)
LEMMA VerifySound ==
  ASSUME TypeInv, NEW o \in Objects, HashTrue(session[o]), HashGiven, Computed(session[o]) = Good
  PROVE  Whole(temp)
<1> DEFINE s == session[o]
<1>0. temp # None /\ Good # None /\ (temp = Good <=> \A k \in Chunks : temp[k] = "good")
  BY TempContent, Zenon
<1>1. temp = Good
  <2>1. CASE s.hasher /\ s.valid
    <3>1. [k \in Chunks |-> IF k < Len(s.hashed) THEN s.hashed[k + 1] ELSE "hole"] = [k \in Chunks |-> "good"]
      BY <2>1, Zenon DEF Computed, Good
    <3>2. \A k \in Chunks : (IF k < Len(s.hashed) THEN s.hashed[k + 1] ELSE "hole") = "good"
      BY <3>1
    <3>3. Len(s.hashed) \in Nat
      <4>1. s.hashed \in Seq(Data)
        BY Zenon DEF TypeInv, MemoryTyped, SessionValue
      <4> QED BY <4>1, LenProperties, Zenon
    <3>4. N \in Nat
      BY SettingTypes, Zenon DEF TypeInv
    <3>5. ASSUME NEW k \in Chunks PROVE temp[k] = "good"
      <4>1. k < Len(s.hashed) /\ s.hashed[k + 1] = "good"
        BY <3>2, Zenon
      <4>2. k + 1 \in 1 .. Len(s.hashed) /\ (k + 1) - 1 = k
        BY <3>3, <3>4, <4>1 DEF Chunks
      <4>3. s.hashed[k + 1] = temp[(k + 1) - 1]
        BY <2>1, <4>2, Zenon DEF HashTrue
      <4> QED BY <4>1, <4>2, <4>3, Zenon
    <3> QED BY <1>0, <3>5, Zenon
  <2>2. CASE ~(s.hasher /\ s.valid)
    BY <1>0, <2>2, Zenon DEF Computed
  <2> QED BY <2>1, <2>2, Zenon
<1>2. \A k \in Chunks : temp[k] # "hole"
  BY <1>0, <1>1, Zenon
<1> QED BY <1>0, <1>1, <1>2, Zenon DEF Whole

(* Nothing is written to a file that has been checked but what is in it. *)
LEMMA WholeStays ==
  ASSUME UploadInv, UploadInv', TurnsInv, AloneInv, Trusted, setting' = setting, Whole(temp),
         done \/ (\E q \in Requests : pc[q] \in Closing), temp' = temp \/ (\E r \in Requests : ChunkWrite(r))
  PROVE  Whole(temp')
<1>1. CASE temp' = temp
  BY <1>1, Zenon
<1>2. ASSUME NEW r \in Requests, ChunkWrite(r) PROVE Whole(temp')
  <2>0. Chunks' = Chunks /\ Good' = Good
    BY SettingKeeps, Zenon
  <2>1. temp' # None /\ (temp' = Good <=> \A k \in Chunks : temp'[k] = "good")
    <3>1. TypeInv'
      BY Zenon DEF UploadInv
    <3>2. (temp # None /\ (temp = Good <=> \A k \in Chunks : temp[k] = "good"))'
      BY <3>1, TempContent, PTL
    <3> QED BY <2>0, <3>2, Zenon
  <2>2. /\ Grows /\ arg[r][2] \in Data /\ temp' \in {temp, Written(r)}
        /\ \A k \in Chunks : Written(r)[k] = IF k = arg[r][1] THEN arg[r][2] ELSE temp[k]
    BY <1>2, WriteGrows, Zenon
  <2>3. \A k \in Chunks : temp'[k] # "hole"
    BY <2>2, Zenon DEF Whole, Grows
  <2>4. CASE HashGiven /\ Data = {"good"}
    <3>1. \A k \in Chunks : temp[k] = "good"
      BY <2>4, TempContent, Zenon DEF Whole, UploadInv
    <3>2. \A k \in Chunks : temp'[k] = "good"
      BY <2>2, <2>4, <3>1, Zenon
    <3> QED BY <2>1, <2>3, <3>2, Zenon DEF Whole
  <2>5. CASE Alone
    <3>1. pc[r] \in {"write", "opened"} /\ Chunking(r) /\ (pc[r] = "write" => session[val[r]].open)
      BY <1>2, Zenon DEF ChunkWrite, Object, TurnsInv, Chunking, Locked
    <3>2. ~done
      BY <2>5, <3>1, Zenon DEF AloneInv, Sealed
    <3>3. PICK q \in Requests : pc[q] \in Closing
      BY <3>2, Zenon
    <3>4. Completing(q)
      BY <3>3, Zenon DEF TurnsInv, Completing, Completion, Closing
    <3> QED BY <2>5, <3>1, <3>4, Zenon DEF TurnsInv, Alone
  <2>6. CASE ~HashGiven
    BY <2>1, <2>3, <2>6, Zenon DEF Whole
  <2> QED BY <2>4, <2>5, <2>6, Zenon DEF Trusted, Alone
<1> QED BY <1>1, <1>2, Zenon

(* What the steps do to the file and to the hashes *)
LEMMA HashSteps ==
  ASSUME UploadInv, [Next]_vars
  PROVE  \/ temp' = temp /\ \A o \in Objects : Kept(session[o], session'[o])
         \/ \E r \in Requests : ChunkWrite(r) /\ UNCHANGED session
         \/ \E r \in Requests : ChunkHash(r) /\ UNCHANGED temp
         \/ \E r \in Requests : Restore(r) /\ UNCHANGED temp
<1>0. TypeInv /\ SlotInv /\ setting' = setting
  BY SettingFixed, Zenon DEF UploadInv
<1>1. ASSUME NEW r \in Requests, Quiet(r) PROVE temp' = temp /\ \A o \in Objects : Kept(session[o], session'[o])
  BY <1>1, Zenon DEF Quiet, SessionsKept
<1>2. ASSUME UNCHANGED <<temp, session>> PROVE temp' = temp /\ \A o \in Objects : Kept(session[o], session'[o])
  BY <1>2, Zenon DEF Kept
<1>3. ASSUME NEW r \in Requests, NEW k, NEW i, NEW c, NEW d, Start(r, k, i, c, d) PROVE UNCHANGED <<temp, session>>
  BY <1>3, Zenon DEF Start, files
<1>4. ASSUME NEW i, Crash(i) PROVE UNCHANGED <<temp, session>>
  BY <1>4, Zenon DEF Crash, files
<1>5. ASSUME NEW r \in Requests, ChunkStep(r), ~ChunkWrite(r), ~ChunkHash(r) PROVE Quiet(r)
  BY <1>0, <1>5, QuietChunk, Zenon DEF ChunkStep
<1>6. ASSUME NEW r \in Requests PROVE /\ ChunkWrite(r) => UNCHANGED session
                                      /\ ChunkHash(r) \/ Restore(r) => UNCHANGED temp
  BY Zenon DEF ChunkWrite, ChunkHash, Restore, files
<1>7. UNCHANGED vars => UNCHANGED <<temp, session>>
  BY Zenon DEF vars
<1>8. ASSUME NEW r \in Requests, CompleteStep(r) \/ AbortStep(r) \/ Unstore(r) PROVE Quiet(r)
  BY <1>0, <1>8, QuietComplete, QuietAbort, Zenon
<1> QED BY <1>1, <1>2, <1>3, <1>4, <1>5, <1>6, <1>7, <1>8, Zenon DEF Next

(* A hash stays true while neither it nor the file changes, *)
LEMMA HashTrueKept ==
  ASSUME NEW o, temp' = temp, Kept(session[o], session'[o]), HashTrue(session[o])
  PROVE  HashTrue(session[o])'
BY Zenon DEF HashTrue, Kept

(* and when the chunk just written is added to it. *)
LEMMA HashTrueGrows ==
  ASSUME UploadInv, setting' = setting, NEW r \in Requests, ChunkHash(r), NEW o \in Objects, HashTrue(session[o])
  PROVE  HashTrue(session[o])'
<1> DEFINE c == arg[r][1]
           d == arg[r][2]
           t == Hashed(session[o], c, d)
<1>0. /\ TypeInv /\ setting \in Settings /\ LocalsTyped /\ MemoryTyped /\ Local(r) /\ UNCHANGED temp
      /\ pc[r] = "hash" /\ session' = [session EXCEPT ![val[r]] = Hashed(session[val[r]], c, d)]
  BY Zenon DEF UploadInv, TypeInv, ChunkHash, files
<1>1. CASE o # val[r]
  <2>1. session'[o] = session[o]
    BY <1>0, <1>1, Zenon DEF MemoryTyped
  <2> QED BY <1>0, <2>1, Zenon DEF HashTrue
<1>2. CASE o = val[r]
  <2>1. c + 1 <= N /\ temp[c] = d /\ c \in 0 .. N /\ d \in Data
    BY <1>0, Zenon DEF Local, LocalsTyped
  <2>2. session[o] \in SessionValue /\ Len(session[o].hashed) <= N /\ session[o].hashed \in Seq(Data)
    BY <1>0, Zenon DEF MemoryTyped, SessionValue
  <2>3. session'[o] = t
    BY <1>0, <1>2, Zenon DEF MemoryTyped
  <2> HIDE DEF c, d
  <2>4. /\ t.hasher = session[o].hasher
        /\ session[o].hasher /\ t.valid =>
             session[o].valid /\ c = Len(session[o].hashed) /\ t.hashed = Append(session[o].hashed, d)
    BY <1>0, <2>1, <2>2, HashedEffect, ZenonT(30)
  <2> HIDE DEF t
  <2>5. ASSUME t.hasher, t.valid, NEW k \in 1 .. Len(t.hashed) PROVE t.hashed[k] = temp[k - 1]
    <3>1. session[o].valid /\ session[o].hasher /\ c = Len(session[o].hashed) /\ t.hashed = Append(session[o].hashed, d)
      BY <2>4, <2>5, Zenon
    <3>2. /\ Len(t.hashed) = Len(session[o].hashed) + 1 /\ Len(session[o].hashed) \in Nat
          /\ t.hashed[Len(session[o].hashed) + 1] = d
          /\ \A j \in 1 .. Len(session[o].hashed) : t.hashed[j] = session[o].hashed[j]
      BY <2>1, <2>2, <3>1, AppendProperties, LenProperties
    <3>3. CASE k = Len(session[o].hashed) + 1
      <4>1. k - 1 = c
        BY <3>1, <3>2, <3>3
      <4> QED BY <2>1, <3>2, <3>3, <4>1, Zenon
    <3>4. CASE k # Len(session[o].hashed) + 1
      <4>1. k \in 1 .. Len(session[o].hashed)
        BY <2>5, <3>2, <3>4
      <4> QED BY <3>1, <3>2, <4>1, Zenon DEF HashTrue
    <3> QED BY <3>3, <3>4, Zenon
  <2> QED BY <1>0, <2>3, <2>5, Zenon DEF HashTrue
<1> QED BY <1>1, <1>2, Zenon

(* Where every chunk is good, every hash stays true. *)
LEMMA UndamagedStep == UploadInv /\ UndamagedInv /\ [Next]_vars => UndamagedInv'
<1> SUFFICES ASSUME UploadInv, UndamagedInv, [Next]_vars, Undamaged', NEW o \in Objects PROVE HashTrue(session[o])'
  BY Zenon DEF UndamagedInv
<1>0. TypeInv /\ setting' = setting /\ setting \in Settings /\ Data = {"good"} /\ HashTrue(session[o])
  <2>1. TypeInv /\ setting' = setting /\ setting \in Settings
    BY SettingFixed, Zenon DEF UploadInv, TypeInv
  <2> QED BY <2>1, SettingKeeps, Zenon DEF UndamagedInv, Undamaged
<1>1. CASE temp' = temp /\ \A x \in Objects : Kept(session[x], session'[x])
  BY <1>0, <1>1, HashTrueKept, Zenon
<1>2. ASSUME NEW r \in Requests, ChunkWrite(r), UNCHANGED session PROVE HashTrue(session[o])'
  <2> SUFFICES ASSUME session[o].hasher, session[o].valid, NEW k \in 1 .. Len(session[o].hashed)
               PROVE  session[o].hashed[k] = temp'[k - 1]
    BY <1>2, Zenon DEF HashTrue
  <2>1. session[o].hashed \in Seq(Data) /\ Len(session[o].hashed) <= N /\ N \in Nat
    BY <1>0, SettingTypes, Zenon DEF TypeInv, MemoryTyped, SessionValue
  <2>2. Len(session[o].hashed) \in Nat /\ session[o].hashed[k] \in Data
    BY <2>1, LenProperties, ElementOfSeq, Zenon
  <2>3. k - 1 \in Chunks
    BY <2>1, <2>2 DEF Chunks
  <2>4. session[o].hashed[k] = temp[k - 1] /\ session[o].hashed[k] = "good"
    BY <1>0, <2>2, Zenon DEF HashTrue
  <2>5. /\ arg[r][2] = "good" /\ temp' \in {temp, Written(r)}
        /\ Written(r)[k - 1] = IF k - 1 = arg[r][1] THEN arg[r][2] ELSE temp[k - 1]
    <3>1. /\ arg[r][2] \in Data /\ temp' \in {temp, Written(r)}
          /\ \A j \in Chunks : Written(r)[j] = IF j = arg[r][1] THEN arg[r][2] ELSE temp[j]
      BY <1>0, <1>2, WriteGrows, Zenon
    <3> QED BY <1>0, <2>3, <3>1, Zenon
  <2> QED BY <2>4, <2>5, Zenon
<1>3. ASSUME NEW r \in Requests, ChunkHash(r) PROVE HashTrue(session[o])'
  BY <1>0, <1>3, HashTrueGrows, Zenon
<1>4. ASSUME NEW r \in Requests, Restore(r), UNCHANGED temp PROVE HashTrue(session[o])'
  <2>1. \/ UNCHANGED session
        \/ session' = [session EXCEPT ![val'[r]] = NewSession(snap[r], FALSE, where = "temp")]
    BY <1>0, <1>4, RestoreAdvances, Zenon
  <2>2. ~NewSession(snap[r], FALSE, where = "temp").hasher
    BY Zenon DEF NewSession
  <2>3. session'[o] = session[o] \/ ~session'[o].hasher
    BY <1>0, <2>1, <2>2, Zenon DEF TypeInv, MemoryTyped
  <2> QED BY <1>0, <1>4, <2>3, Zenon DEF HashTrue
<1> QED BY <1>1, <1>2, <1>3, <1>4, HashSteps, Zenon

(* No step but Restore opens the temp file of a session value. *)
LEMMA OpenSteps ==
  ASSUME UploadInv, [Next]_vars, \A r \in Requests : ~Restore(r), NEW o \in Objects, session'[o].open
  PROVE  session[o].open
<1>0. TypeInv /\ setting' = setting /\ session \in [Objects -> SessionValue]
  BY SettingFixed, Zenon DEF UploadInv, TypeInv, MemoryTyped
<1>1. ASSUME NEW r \in Requests, NEW s, session' = [session EXCEPT ![val[r]] = s], s.open => session[val[r]].open
      PROVE  session[o].open
  BY <1>0, <1>1, Zenon
<1>2. ASSUME NEW r \in Requests, pc[r] \notin {"idle", "restore"} PROVE session[val[r]] \in SessionValue
  BY <1>0, <1>2, Zenon DEF TypeInv, Local, MemoryTyped
<1>3. \A t \in SessionValue : /\ \A b : [t EXCEPT !.closed = b].open => t.open
                              /\ ~[t EXCEPT !.open = FALSE].open /\ ~[t EXCEPT !.closed = TRUE, !.open = FALSE].open
                              /\ \A z : [t EXCEPT !.hashed = z].open => t.open
                              /\ [t EXCEPT !.valid = FALSE].open => t.open
                              /\ \A x, y : [t EXCEPT !.size = x, !.chunks = y].open => t.open
  BY Zenon DEF SessionValue
<1>4. \A t \in SessionValue : \A k, d : Hashed(t, k, d).open => t.open
  BY <1>3, Zenon DEF Hashed
<1>5. ASSUME NEW r \in Requests, ChunkHash(r) PROVE session[o].open
  <2>1. session' = [session EXCEPT ![val[r]] = Hashed(session[val[r]], arg[r][1], arg[r][2])] /\ pc[r] = "hash"
    BY <1>5, Zenon DEF ChunkHash
  <2>2. Hashed(session[val[r]], arg[r][1], arg[r][2]).open => session[val[r]].open
    <3>1. session[val[r]] \in SessionValue
      BY <1>2, <2>1, Zenon
    <3> QED BY <1>4, <3>1, Zenon
  <2> QED BY <1>1, <2>1, <2>2, Zenon
<1>6. ASSUME NEW r \in Requests, ChunkCount(r) PROVE session[o].open
  <2>1. /\ session' = [session EXCEPT ![val[r]] = [session[val[r]] EXCEPT !.size = session[val[r]].size + 1,
                                                      !.chunks = (session[val[r]].chunks + 1) % PersistEvery]]
        /\ pc[r] = "count"
    BY <1>6, Zenon DEF ChunkCount
  <2>2. \A x, y : [session[val[r]] EXCEPT !.size = x, !.chunks = y].open => session[val[r]].open
    <3>1. session[val[r]] \in SessionValue
      BY <1>2, <2>1, Zenon
    <3> QED BY <1>3, <3>1, Zenon
  <2> QED BY <1>1, <2>1, <2>2, Zenon
<1>7. ASSUME NEW r \in Requests, CompleteCheck(r) PROVE session[o].open
  <2>1. \/ UNCHANGED session
        \/ session' = [session EXCEPT ![val[r]] = [session[val[r]] EXCEPT !.closed = TRUE]] /\ pc[r] = "complete"
    BY <1>7, Zenon DEF CompleteCheck
  <2>2. pc[r] = "complete" => ([session[val[r]] EXCEPT !.closed = TRUE].open => session[val[r]].open)
    BY <1>2, <1>3, Zenon
  <2> QED BY <1>1, <2>1, <2>2, Zenon
<1>8. ASSUME NEW r \in Requests, CompleteClose(r) PROVE session[o].open
  <2>1. session' = [session EXCEPT ![val[r]] = [session[val[r]] EXCEPT !.open = FALSE]] /\ pc[r] = "close"
    BY <1>8, Zenon DEF CompleteClose
  <2>2. ~[session[val[r]] EXCEPT !.open = FALSE].open
    BY <1>2, <1>3, <2>1, Zenon
  <2> QED BY <1>1, <2>1, <2>2, Zenon
<1>9. ASSUME NEW r \in Requests, AbortClose(r) PROVE session[o].open
  <2>1. /\ session' = [session EXCEPT ![val[r]] = [session[val[r]] EXCEPT !.closed = TRUE, !.open = FALSE]]
        /\ pc[r] \in {"abort", "cleanup"}
    BY <1>9, Zenon DEF AbortClose
  <2>2. ~[session[val[r]] EXCEPT !.closed = TRUE, !.open = FALSE].open
    BY <1>2, <1>3, <2>1, Zenon
  <2> QED BY <1>1, <2>1, <2>2, Zenon
<1>10. ASSUME NEW r \in Requests,
              \/ ChunkLock(r) \/ ChunkCheck(r) \/ ChunkOpen(r) \/ ChunkWrite(r) \/ ChunkPersist(r)
              \/ CompleteVerify(r) \/ CompleteEncrypt(r) \/ CompleteLock(r) \/ CompleteMove(r) \/ CompleteMeta(r)
              \/ CompleteFinish(r) \/ AbortDrop(r) \/ AbortRemove(r) \/ Unstore(r)
       PROVE  UNCHANGED session
  BY <1>10, Zenon DEF ChunkLock, ChunkCheck, ChunkOpen, ChunkWrite, ChunkPersist, CompleteVerify, CompleteEncrypt,
       CompleteLock, CompleteMove, CompleteMeta, CompleteFinish, AbortDrop, AbortRemove, Unstore
<1>11. ASSUME NEW r \in Requests, NEW k, NEW i, NEW c, NEW d, Start(r, k, i, c, d) PROVE UNCHANGED session
  BY <1>11, Zenon DEF Start
<1>12. ASSUME NEW i, Crash(i) PROVE UNCHANGED session
  BY <1>12, Zenon DEF Crash
<1>13. UNCHANGED vars => UNCHANGED session
  BY Zenon DEF vars
<1> QED BY <1>5, <1>6, <1>7, <1>8, <1>9, <1>10, <1>11, <1>12, <1>13, Zenon
      DEF Next, ChunkStep, CompleteStep, AbortStep

(* Sessions come into a map by Restore only. *)
LEMMA MapSteps ==
  ASSUME UploadInv, [Next]_vars, \A r \in Requests : ~Restore(r)
  PROVE  \A i \in Instances : map'[i] \in {None, map[i]}
<1>0. TypeInv /\ SlotInv /\ setting' = setting
  BY SettingFixed, Zenon DEF UploadInv
<1>1. ASSUME NEW r \in Requests, Quiet(r) PROVE \A i \in Instances : map'[i] \in {None, map[i]}
  BY <1>1, Zenon DEF Quiet
<1>2. ASSUME NEW r \in Requests, ChunkStep(r) PROVE UNCHANGED map
  BY <1>2, Zenon DEF ChunkStep, ChunkLock, ChunkCheck, ChunkOpen, ChunkWrite, ChunkHash, ChunkCount, ChunkPersist
<1>3. ASSUME NEW r \in Requests, CompleteStep(r) \/ AbortStep(r) \/ Unstore(r) PROVE Quiet(r)
  BY <1>0, <1>3, QuietComplete, QuietAbort, Zenon
<1>4. ASSUME NEW r \in Requests, NEW k, NEW i, NEW c, NEW d, Start(r, k, i, c, d) PROVE UNCHANGED map
  BY <1>4, Zenon DEF Start
<1>5. ASSUME NEW i \in Instances, Crash(i) PROVE \A j \in Instances : map'[j] \in {None, map[j]}
  <2>1. map' = [map EXCEPT ![i] = None]
    BY <1>5, Zenon DEF Crash
  <2> QED BY <1>0, <2>1, Zenon DEF TypeInv, MemoryTyped
<1>6. UNCHANGED vars => UNCHANGED map
  BY Zenon DEF vars
<1> QED BY <1>1, <1>2, <1>3, <1>4, <1>5, <1>6, Zenon DEF Next

(* Where a request is and what it holds, it was and it held before, unless the step is its own. *)
LEMMA WhoMoves ==
  ASSUME UploadInv, [Next]_vars, NEW r \in Requests
  PROVE  \/ pc'[r] = "idle"
         \/ pc'[r] = pc[r] /\ val'[r] = val[r] /\ kind'[r] = kind[r] /\ snap'[r] = snap[r]
         \/ \E k \in Sends, i \in Instances : \E c, d : Start(r, k, i, c, d)
         \/ Restore(r) \/ ChunkStep(r) \/ CompleteStep(r) \/ AbortStep(r) \/ Unstore(r)
<1>0. TypeInv /\ setting' = setting /\ Kinds \subseteq {"chunk", "complete", "abort", "cleanup", "crash"}
  BY SettingFixed, SettingTypes, Zenon DEF UploadInv, TypeInv
<1>1. ASSUME NEW q \in Requests, q # r, OnlyLocalsOf(q)
      PROVE  pc'[r] = pc[r] /\ val'[r] = val[r] /\ kind'[r] = kind[r] /\ snap'[r] = snap[r]
  BY <1>1, Zenon DEF OnlyLocalsOf
<1>2. ASSUME NEW q \in Requests, Restore(q) \/ ChunkStep(q) \/ CompleteStep(q) \/ AbortStep(q) \/ Unstore(q)
      PROVE  OnlyLocalsOf(q)
  BY <1>0, <1>2, RestoreAdvances, ChunkAdvances, CompleteAdvances, AbortAdvances, Zenon DEF Advance
<1>3. ASSUME NEW q \in Requests, NEW k \in Sends, NEW i \in Instances,
             NEW c, NEW d, Start(q, k, i, c, d)
      PROVE  OnlyLocalsOf(q)
  BY <1>0, <1>3, StartEffect, Zenon
<1>4. ASSUME NEW i \in Instances, Crash(i)
      PROVE  pc'[r] = "idle" \/ (pc'[r] = pc[r] /\ val'[r] = val[r] /\ kind'[r] = kind[r] /\ snap'[r] = snap[r])
  BY <1>4, CrashEffect, Zenon
<1>5. UNCHANGED vars => pc'[r] = pc[r] /\ val'[r] = val[r] /\ kind'[r] = kind[r] /\ snap'[r] = snap[r]
  BY Zenon DEF vars
<1>6. CASE \E q \in Requests : Restore(q) \/ ChunkStep(q) \/ CompleteStep(q) \/ AbortStep(q) \/ Unstore(q)
  BY <1>1, <1>2, <1>6, Zenon
<1>7. CASE \E q \in Requests : \E k \in Sends, i \in Instances :
             \E c, d : Start(q, k, i, c, d)
  BY <1>1, <1>3, <1>7, Zenon
<1>8. ASSUME NEW q \in Requests, NEW i \in Instances, NEW k \in Kinds \ {"chunk", "crash"}, Start(q, k, i, 0, "good")
      PROVE  \E h \in Requests : \E x \in Sends, j \in Instances :
               \E c, d : Start(h, x, j, c, d)
  BY <1>0, <1>8, Zenon DEF Sends
<1>9. ASSUME NEW q \in Requests, NEW i \in Instances, NEW c, NEW d, Start(q, "chunk", i, c, d)
      PROVE  \E h \in Requests : \E x \in Sends, j \in Instances :
               \E y, z : Start(h, x, j, y, z)
  BY <1>9, Zenon DEF Sends
<1> QED BY <1>4, <1>5, <1>6, <1>7, <1>8, <1>9, Zenon DEF Next

(* On one instance with turns, a completion can rely on its hash: it       *)
(* started when no chunk was under way.                                    *)
LEMMA AloneHashStep ==
  ASSUME UploadInv, TurnsInv, TurnsInv', AloneInv, [Next]_vars, Alone, NEW r \in Requests,
         pc'[r] \in {"complete", "close", "verify"}
  PROVE  HashTrue(session[val[r]])'
<1>0. /\ TypeInv /\ setting' = setting /\ ~Overlap /\ Instances = {Home} /\ "partial" \notin FailedWrites
      /\ HashInv /\ None \notin Objects
  BY SettingFixed, UploadConstants, Zenon DEF UploadInv, Alone
<1>a. (Overlap' <=> Overlap)
  BY <1>0, Zenon DEF Overlap
<1>1. Completing(r)' /\ \A q \in Requests : ~Chunking(q)'
  BY <1>0, <1>a, Zenon DEF TurnsInv, Completing, Completion, Closing
<1>2. ASSUME NEW q \in Requests, ChunkHash(q) \/ ChunkWrite(q) PROVE ~Completing(r)
  BY <1>0, <1>2, Zenon DEF ChunkHash, ChunkWrite, TurnsInv, Chunking, Locked
<1>3. ASSUME map[Home] # None, \A q \in Requests : pc[q] # "hash" PROVE HashTrue(session[map[Home]])
  BY <1>0, <1>3, Zenon DEF HashInv, HashTrue
<1>4. CASE pc[r] \in {"complete", "close", "verify"} /\ val'[r] = val[r]
  <2>1. Completing(r) /\ HashTrue(session[val[r]]) /\ val[r] \in Objects
    BY <1>0, <1>4, Zenon DEF TurnsInv, Completing, Completion, Closing, AloneInv, TypeInv, Local
  <2>2. CASE temp' = temp /\ \A o \in Objects : Kept(session[o], session'[o])
    <3>1. Kept(session[val[r]], session'[val[r]])
      BY <2>1, <2>2, Zenon
    <3> QED BY <1>4, <2>1, <2>2, <3>1, Zenon DEF HashTrue, Kept
  <2>3. ASSUME NEW q \in Requests, Restore(q), UNCHANGED temp PROVE HashTrue(session[val[r]])'
    <3>1. \/ UNCHANGED session
          \/ val'[q] \in Unreferenced /\ session' = [session EXCEPT ![val'[q]] = NewSession(snap[q], FALSE, where = "temp")]
      BY <1>0, <2>3, RestoreAdvances, Zenon
    <3>2. session'[val[r]] = session[val[r]]
      BY <1>0, <2>1, <3>1, Zenon DEF Unreferenced, TypeInv, MemoryTyped
    <3> QED BY <1>4, <2>1, <2>3, <3>2, Zenon DEF HashTrue
  <2> QED BY <1>2, <2>1, <2>2, <2>3, HashSteps, Zenon
<1>5. ASSUME NEW k \in Sends, NEW i \in Instances, NEW c, NEW d, Start(r, k, i, c, d)
      PROVE  HashTrue(session[val[r]])'
  <2>0. /\ kind'[r] = k /\ MaySend(k, i, c)
        /\ \/ map[i] # None /\ pc'[r] = k /\ val'[r] = map[i]
           \/ pc'[r] = "restore"
    BY <1>0, <1>5, StartEffect, Zenon
  <2>1. kind'[r] = k /\ map[i] # None /\ val'[r] = map[i]
    BY <2>0, Zenon
  <2>2. MaySend(k, i, c) /\ k = "complete" /\ i = Home
    BY <1>0, <1>1, <2>0, Zenon DEF Completing
  <2>3. \A q \in Requests : ~Chunking(q)
    BY <1>0, <2>2, Zenon DEF MaySend, InFlight, Chunking
  <2>4. \A q \in Requests : pc[q] # "hash"
    BY <2>3, Zenon DEF TurnsInv, Chunking, Locked
  <2>5. HashTrue(session[map[Home]]) /\ UNCHANGED <<temp, session>>
    BY <1>3, <1>5, <2>1, <2>2, <2>4, Zenon DEF Start, files
  <2> QED BY <2>1, <2>2, <2>5, Zenon DEF HashTrue
<1>6. CASE Restore(r)
  <2>1. /\ Advance(r) /\ pc[r] = "restore" /\ UNCHANGED temp /\ at[r] = Home
        /\ \/ map[at[r]] # None /\ val'[r] = map[at[r]] /\ UNCHANGED session
           \/ /\ val'[r] \in Unreferenced
              /\ session' = [session EXCEPT ![val'[r]] = NewSession(snap[r], FALSE, where = "temp")]
    BY <1>0, <1>6, RestoreAdvances, Zenon DEF Restore, files, TypeInv, LocalsTyped
  <2>2. CASE map[at[r]] # None /\ val'[r] = map[at[r]] /\ UNCHANGED session
    <3>1. Completing(r)
      BY <1>1, <2>1, Zenon DEF Advance, Completing
    <3>2. \A q \in Requests : pc[q] # "hash"
      BY <1>0, <3>1, Zenon DEF TurnsInv, Chunking, Locked
    <3> QED BY <1>3, <2>1, <2>2, <3>2, Zenon DEF HashTrue
  <2>3. CASE val'[r] \in Unreferenced /\ session' = [session EXCEPT ![val'[r]] = NewSession(snap[r], FALSE, where = "temp")]
    <3>1. ~NewSession(snap[r], FALSE, where = "temp").hasher
      BY Zenon DEF NewSession
    <3>2. ~session'[val'[r]].hasher
      BY <1>0, <2>3, <3>1, Zenon DEF Unreferenced, TypeInv, MemoryTyped
    <3> QED BY <3>2, Zenon DEF HashTrue
  <2> QED BY <2>1, <2>2, <2>3, Zenon
<1>7. ASSUME ChunkStep(r) \/ AbortStep(r) \/ Unstore(r) PROVE FALSE
  BY <1>0, <1>7, ChunkAdvances, AbortAdvances, Zenon DEF Locked
<1>8. CASE CompleteStep(r)
  <2>1. Advance(r) /\ pc'[r] # "idle" /\ (pc[r] # "restore" => val'[r] = val[r])
    BY <1>0, <1>8, CompleteAdvances, Zenon DEF Advance
  <2>2. ~CompleteVerify(r) /\ ~CompleteEncrypt(r) /\ ~CompleteLock(r) /\ ~CompleteMove(r) /\ ~CompleteMeta(r) /\ ~CompleteFinish(r)
    BY <1>0, VerifyEffect, EncryptEffect, LockEffect, MoveEffect, MetaEffect, FinishEffect, Zenon
  <2>3. pc[r] \in {"complete", "close"}
    BY <1>8, <2>2, Zenon DEF CompleteStep, CompleteCheck, CompleteClose
  <2> QED BY <1>4, <2>1, <2>3, Zenon
<1> QED BY <1>4, <1>5, <1>6, <1>7, <1>8, WhoMoves, Zenon

(* CompleteFinish seals the file: no chunk is under way, and the session is gone. *)
LEMMA SealedFirst ==
  ASSUME UploadInv, TurnsInv, Alone, NEW q \in Requests, CompleteFinish(q), setting' = setting
  PROVE  Sealed'
<1>0. TypeInv /\ at[q] = Home /\ OnlyLocalsOf(q) /\ ~Overlap /\ Completing(q) /\ pc'[q] = "unstore"
  <2>1. TypeInv /\ ~Overlap /\ Instances = {Home} /\ CompleteStep(q)
    BY Zenon DEF UploadInv, Alone, CompleteStep
  <2>2. OnlyLocalsOf(q) /\ pc[q] = "finish" /\ pc'[q] = "unstore"
    BY <2>1, CompleteAdvances, FinishEffect, Zenon DEF Advance
  <2> QED BY <2>1, <2>2, Zenon DEF TypeInv, LocalsTyped, TurnsInv, Completing, Completion, Closing
<1>1. map'[Home] = None
  <2>1. map' = [map EXCEPT ![at[q]] = None] /\ at[q] \in Instances /\ DOMAIN map = Instances
    BY <1>0, Zenon DEF CompleteFinish, Drop, TypeInv, MemoryTyped, LocalsTyped
  <2> QED BY <1>0, <2>1, Zenon
<1>2. ASSUME NEW r \in Requests, r # q PROVE pc'[r] \notin {"chunk"} \cup Locked
  <2>1. pc'[r] = pc[r] /\ ~Chunking(r)
    BY <1>0, <1>2, Zenon DEF OnlyLocalsOf, TurnsInv
  <2> QED BY <2>1, Zenon DEF TurnsInv, Chunking, Locked
<1> QED BY <1>0, <1>1, <1>2, Zenon DEF Sealed, Locked

(* A session restored later finds no temp file to open. *)
LEMMA SealedRestore ==
  ASSUME UploadInv, Alone, Sealed, where # "temp", NEW q \in Requests, Restore(q), setting' = setting
  PROVE  Sealed'
<1>0. TypeInv /\ at[q] = Home /\ None \notin Objects /\ Home \in Instances
  BY UploadConstants, Zenon DEF UploadInv, Alone, TypeInv, LocalsTyped
<1>1. /\ OnlyLocalsOf(q) /\ pc'[q] \in {"chunk", "complete"}
      /\ \/ map[Home] # None /\ val'[q] = map[Home] /\ UNCHANGED <<map, session>>
         \/ /\ val'[q] \in Unreferenced /\ map' = [map EXCEPT ![Home] = val'[q]]
            /\ session' = [session EXCEPT ![val'[q]] = NewSession(snap[q], FALSE, where = "temp")]
  BY <1>0, RestoreAdvances, Zenon DEF Advance
<1>2. ASSUME NEW r \in Requests, r # q, pc'[r] \notin {"idle", "restore"}
      PROVE  pc'[r] = pc[r] /\ session'[val'[r]] = session[val[r]]
  <2>1. pc'[r] = pc[r] /\ val'[r] = val[r]
    BY <1>1, <1>2, Zenon DEF OnlyLocalsOf
  <2>2. val[r] \in Objects
    BY <1>0, <1>2, <2>1, Zenon DEF TypeInv, Local
  <2>3. val[r] \notin Unreferenced /\ session \in [Objects -> SessionValue]
    BY <1>0, Zenon DEF Unreferenced, TypeInv, MemoryTyped
  <2>4. session'[val[r]] = session[val[r]]
    BY <1>1, <2>2, <2>3, Zenon
  <2> QED BY <2>1, <2>4, Zenon
<1>3. val'[q] = map'[Home] /\ ~session'[val'[q]].open
  <2>1. CASE map[Home] # None /\ val'[q] = map[Home] /\ UNCHANGED <<map, session>>
    BY <2>1, Zenon DEF Sealed
  <2>2. CASE /\ val'[q] \in Unreferenced /\ map' = [map EXCEPT ![Home] = val'[q]]
             /\ session' = [session EXCEPT ![val'[q]] = NewSession(snap[q], FALSE, where = "temp")]
    <3>1. ~NewSession(snap[q], FALSE, where = "temp").open
      BY Zenon DEF NewSession
    <3> QED BY <1>0, <2>2, <3>1, Zenon DEF Unreferenced, TypeInv, MemoryTyped
  <2> QED BY <1>1, <2>1, <2>2, Zenon
<1>4. ASSUME NEW r \in Requests
      PROVE  /\ pc'[r] \notin {"opened", "hash", "count", "persist"}
             /\ pc'[r] \in {"chunk", "check", "write"} => ~session'[val'[r]].open
  BY <1>1, <1>2, <1>3, Zenon DEF Sealed
<1> QED BY <1>3, <1>4, Zenon DEF Sealed

(* No other step opens it. *)
LEMMA SealedStays ==
  ASSUME UploadInv, Alone, Sealed, where # "temp", [Next]_vars, \A q \in Requests : ~Restore(q)
  PROVE  Sealed'
<1>0. TypeInv /\ setting' = setting /\ None \notin Objects /\ Home \in Instances /\ Instances = {Home}
  BY SettingFixed, UploadConstants, Zenon DEF UploadInv, Alone, TypeInv
<1>1. map'[Home] # None => ~session'[map'[Home]].open
  <2>1. map'[Home] \in {None, map[Home]} /\ map[Home] \in Objects \cup {None}
    BY <1>0, MapSteps, Zenon DEF TypeInv, MemoryTyped
  <2> QED BY <2>1, OpenSteps, Zenon DEF Sealed
<1>2. ASSUME NEW r \in Requests, pc[r] \in {"chunk", "check", "write"} PROVE ~session'[val[r]].open
  <2>1. val[r] \in Objects /\ ~session[val[r]].open
    BY <1>0, <1>2, Zenon DEF Sealed, TypeInv, Local
  <2> QED BY <2>1, OpenSteps, Zenon
<1>3. ASSUME NEW r \in Requests
      PROVE  /\ pc'[r] \notin {"opened", "hash", "count", "persist"}
             /\ pc'[r] \in {"chunk", "check", "write"} => ~session'[val'[r]].open
  <2>1. CASE pc'[r] = "idle"
    BY <2>1, Zenon
  <2>2. CASE pc'[r] = pc[r] /\ val'[r] = val[r]
    BY <1>2, <2>2, Zenon DEF Sealed
  <2>3. ASSUME NEW k \in Sends, NEW i \in Instances, NEW c, NEW d, Start(r, k, i, c, d)
        PROVE  /\ pc'[r] \notin {"opened", "hash", "count", "persist"}
               /\ pc'[r] \in {"chunk", "check", "write"} => ~session'[val'[r]].open
    <3>1. \/ map[i] # None /\ pc'[r] = k /\ val'[r] = map[i]
          \/ pc'[r] = "restore"
      <4>1. TypeInv /\ setting' = setting
        BY <1>0, Zenon
      <4> QED BY <2>3, <4>1, StartEffect, Zenon DEF Sends
    <3>2. UNCHANGED map /\ i = Home
      BY <1>0, <2>3, Zenon DEF Start
    <3> QED BY <1>1, <3>1, <3>2, Zenon DEF Sends
  <2>4. CASE ChunkStep(r)
    <3>1. Advance(r) /\ pc[r] \in {"chunk"} \cup Locked
      BY <1>0, <2>4, ChunkAdvances, Zenon
    <3>2. pc[r] \in {"chunk", "check", "write"} /\ ~session[val[r]].open
      BY <3>1, Zenon DEF Locked, Sealed
    <3>3. ChunkLock(r) \/ ChunkCheck(r) \/ ChunkOpen(r)
      BY <2>4, <3>2, Zenon DEF ChunkStep, ChunkWrite, ChunkHash, ChunkCount, ChunkPersist, Object
    <3>4. pc'[r] \in {"idle", "check", "write"}
      BY <1>0, <3>3, ReturnIdle, GotoLabel, Zenon DEF ChunkLock, ChunkCheck, ChunkOpen
    <3>5. pc'[r] # "idle" => val'[r] = val[r]
      BY <3>1, <3>2, Zenon DEF Advance
    <3> QED BY <1>2, <3>2, <3>4, <3>5, Zenon
  <2>5. CASE CompleteStep(r) \/ AbortStep(r) \/ Unstore(r)
    BY <1>0, <2>5, CompleteAdvances, AbortAdvances, Zenon DEF Closing
  <2> QED BY <2>1, <2>2, <2>3, <2>4, <2>5, WhoMoves, Zenon
<1> QED BY <1>1, <1>3, Zenon DEF Sealed

(* Only CompleteFinish declares the upload done, and nothing takes it back. *)
LEMMA DoneSteps ==
  ASSUME UploadInv, [Next]_vars
  PROVE  done' = done \/ \E q \in Requests : CompleteFinish(q)
<1>0. TypeInv /\ setting' = setting
  BY SettingFixed, Zenon DEF UploadInv
<1>1. ASSUME NEW r \in Requests, Early(r) \/ CompleteVerify(r) \/ CompleteEncrypt(r) \/ CompleteLock(r) \/ CompleteMeta(r)
      PROVE  done' = done
  BY <1>0, <1>1, EarlyEffect, VerifyEffect, EncryptEffect, LockEffect, MetaEffect, Zenon
<1>2. ASSUME NEW r \in Requests, CompleteMove(r) PROVE done' = done
  BY <1>2, Zenon DEF CompleteMove
<1>3. ASSUME NEW r, NEW k, NEW i, NEW c, NEW d, Start(r, k, i, c, d) PROVE done' = done
  BY <1>3, Zenon DEF Start
<1>4. ASSUME NEW i, Crash(i) PROVE done' = done
  BY <1>4, Zenon DEF Crash
<1>5. UNCHANGED vars => done' = done
  BY Zenon DEF vars
<1> QED BY <1>1, <1>2, <1>3, <1>4, <1>5, Zenon DEF Next, CompleteStep, Early

(* Together: on one instance with turns the hash can be trusted. *)
LEMMA AloneStep == UploadInv /\ TurnsInv /\ CommitInv /\ AloneInv /\ [Next]_vars => AloneInv'
<1> SUFFICES ASSUME UploadInv, TurnsInv, CommitInv, AloneInv, [Next]_vars, Alone' PROVE AloneInv'
  BY Zenon DEF AloneInv
<1>0. setting' = setting /\ Alone /\ TurnsInv'
  <2>1. setting' = setting
    BY SettingFixed, Zenon DEF UploadInv
  <2> QED BY <2>1, SettingKeeps, TurnsStep, Zenon
<1>1. \A r \in Requests : pc'[r] \in {"complete", "close", "verify"} => HashTrue(session[val[r]])'
  BY <1>0, AloneHashStep, Zenon
<1>2. done' => Sealed'
  <2>1. ASSUME NEW q \in Requests, CompleteFinish(q) PROVE Sealed'
    BY <1>0, <2>1, SealedFirst, Zenon
  <2>2. CASE done' /\ done' = done
    <3>1. Sealed /\ where # "temp"
      BY <1>0, <2>2, Zenon DEF AloneInv, CommitInv
    <3> QED BY <1>0, <3>1, SealedRestore, SealedStays, Zenon
  <2> QED BY <2>1, <2>2, DoneSteps, Zenon
<1> QED BY <1>1, <1>2, Zenon DEF AloneInv

(* A file that was filled in order has no holes when its size is reached. *)
LEMMA InOrderStep ==
  UploadInv /\ UploadInv' /\ TurnsInv /\ ProgressInv /\ AloneInv /\ InOrderInv /\ [Next]_vars => InOrderInv'
<1> SUFFICES ASSUME UploadInv, UploadInv', TurnsInv, ProgressInv, AloneInv, InOrderInv, [Next]_vars, InOrder',
                    NEW r \in Requests, pc'[r] \in {"close", "verify"}
             PROVE  Whole(temp)'
  BY Zenon DEF InOrderInv
<1>0. TypeInv /\ setting' = setting /\ setting \in Settings
  BY SettingFixed, Zenon DEF UploadInv, TypeInv
<1>a. InOrder /\ Trusted /\ ~HashGiven /\ Resumes
  <2>1. InOrder
    BY <1>0, SettingKeeps, Zenon
  <2> QED BY <2>1, Zenon DEF InOrder, Trusted, Resumes
<1>1. ASSUME pc[r] \in {"close", "verify"} PROVE Whole(temp)'
  <2>1. Whole(temp) /\ pc[r] \in Closing /\ (temp' = temp \/ \E q \in Requests : ChunkWrite(q))
    BY <1>1, <1>a, HashSteps, Zenon DEF InOrderInv, Closing
  <2>2. Whole(temp')
    BY <1>0, <1>a, <2>1, WholeStays, Zenon
  <2> QED BY <1>0, <2>2, SettingKeeps, Zenon
<1>2. CASE CompleteCheck(r)
  <2>1. session[val[r]].size = N /\ UNCHANGED temp /\ val[r] \in Objects
    <3>1. pc'[r] # "idle" /\ pc[r] = "complete" /\ UNCHANGED temp
      BY <1>2, Zenon DEF CompleteCheck, files
    <3>2. session[val[r]].size # N => Return(r)
      BY <1>2, Zenon DEF CompleteCheck, Object
    <3> QED BY <1>0, <3>1, <3>2, ReturnIdle, Zenon DEF TypeInv, Local
  <2>2. Covered(N)
    BY <1>a, <2>1, Zenon DEF ProgressInv
  <2>3. \A k \in Chunks : k < N
    <3>1. N \in Nat
      BY <1>0, SettingTypes, Zenon
    <3> QED BY <3>1 DEF Chunks
  <2>4. Whole(temp)
    BY <1>0, <1>a, <2>2, <2>3, TempContent, Zenon DEF Covered, Whole
  <2> QED BY <1>0, <2>1, <2>4, SettingKeeps, Zenon
<1>3. ASSUME NEW k \in Sends, NEW i \in Instances, NEW c, NEW d, Start(r, k, i, c, d)
      PROVE  FALSE
  BY <1>0, <1>3, StartEffect, Zenon DEF Sends
<1>4. ASSUME Restore(r) \/ ChunkStep(r) \/ AbortStep(r) \/ Unstore(r) PROVE FALSE
  BY <1>0, <1>4, RestoreAdvances, ChunkAdvances, AbortAdvances, Zenon DEF Locked
<1>5. ASSUME CompleteVerify(r) \/ CompleteEncrypt(r) \/ CompleteLock(r) \/ CompleteMove(r) \/ CompleteMeta(r)
             \/ CompleteFinish(r)
      PROVE  FALSE
  BY <1>0, <1>5, VerifyEffect, EncryptEffect, LockEffect, MoveEffect, MetaEffect, FinishEffect, Zenon
<1>6. CASE CompleteClose(r)
  BY <1>1, <1>6, Zenon DEF CompleteClose
<1>7. CASE CompleteStep(r)
  BY <1>2, <1>5, <1>6, <1>7, Zenon DEF CompleteStep
<1> QED BY <1>1, <1>3, <1>4, <1>7, WhoMoves, Zenon

(* What a completion that has been checked has checked. *)
LEMMA CheckedStep ==
  ASSUME UploadInv, UploadInv', TurnsInv, AloneInv, UndamagedInv, InOrderInv, IntactInv, Trusted, [Next]_vars,
         NEW r \in Requests, Checked(r)'
  PROVE  Whole(temp')
<1>0. TypeInv /\ setting' = setting /\ (Encrypt' <=> Encrypt)
  BY SettingFixed, Zenon DEF UploadInv, Encrypt
<1>1. ASSUME Checked(r) PROVE Whole(temp')
  <2>1. Whole(temp) /\ pc[r] \in Closing /\ (temp' = temp \/ \E q \in Requests : ChunkWrite(q))
    BY <1>1, HashSteps, Zenon DEF IntactInv, Closing, Checked
  <2> QED BY <1>0, <2>1, WholeStays, Zenon
<1>2. CASE CompleteVerify(r)
  <2>1. pc[r] = "verify" /\ pc'[r] # "idle" /\ UNCHANGED temp /\ val[r] \in Objects
    BY <1>0, <1>2, Zenon DEF CompleteVerify, Checked, TypeInv, Local
  <2>2. HashGiven => Computed(session[val[r]]) = Good
    BY <1>0, <1>2, <2>1, VerifyEffect, Zenon
  <2>3. ASSUME HashGiven PROVE Whole(temp)
    <3>1. HashTrue(session[val[r]])
      BY <2>1, <2>3, Zenon DEF UndamagedInv, AloneInv, Trusted, Undamaged, Alone
    <3> QED BY <1>0, <2>1, <2>2, <2>3, <3>1, VerifySound, Zenon
  <2>4. ASSUME ~HashGiven PROVE Whole(temp)
    BY <2>1, <2>4, Zenon DEF InOrderInv, InOrder, Trusted
  <2> QED BY <2>1, <2>3, <2>4, Zenon
<1>3. ASSUME NEW k \in Sends, NEW i \in Instances, NEW c, NEW d, Start(r, k, i, c, d)
      PROVE  FALSE
  <2>1. pc'[r] \in {"chunk", "complete", "abort", "cleanup", "restore"}
    BY <1>0, <1>3, StartEffect, Zenon DEF Sends
  <2> QED BY <2>1, Zenon DEF Checked
<1>4. ASSUME Early(r) PROVE FALSE
  BY <1>0, <1>4, EarlyEffect, Zenon DEF Checked
<1>5. CASE CompleteLock(r)
  <2>1. pc[r] = "lock" /\ pc'[r] \in {"idle", "move"}
    BY <1>0, <1>5, LockEffect, Zenon
  <2> QED BY <1>0, <1>1, <2>1, Zenon DEF Checked
<1>6. ASSUME CompleteEncrypt(r) PROVE Whole(temp')
  <2>1. pc[r] = "encrypt"
    BY <1>6, Zenon DEF CompleteEncrypt
  <2> QED BY <1>1, <2>1, Zenon DEF Checked
<1>7. ASSUME CompleteMove(r) \/ CompleteMeta(r) \/ CompleteFinish(r) PROVE FALSE
  <2>1. pc'[r] \in {"idle", "meta", "finish", "unstore"}
    BY <1>0, <1>7, MoveEffect, MetaEffect, FinishEffect, Zenon
  <2> QED BY <2>1, Zenon DEF Checked
<1>8. CASE pc'[r] = pc[r] \/ pc'[r] = "idle"
  BY <1>0, <1>1, <1>8, Zenon DEF Checked
<1> QED BY <1>2, <1>3, <1>4, <1>5, <1>6, <1>7, <1>8, WhoMoves, Zenon DEF Early, CompleteStep

(* The encrypted copy is one of the checked file. *)
LEMMA EncryptedStep ==
  ASSUME UploadInv, IntactInv, Trusted, [Next]_vars, Encrypt, NEW r \in Requests, pc'[r] \in {"lock", "move"}
  PROVE  Whole(snap'[r])
<1>0. TypeInv /\ setting' = setting
  BY SettingFixed, Zenon DEF UploadInv
<1>1. ASSUME pc[r] \in {"lock", "move"}, snap'[r] = snap[r] PROVE Whole(snap'[r])
  BY <1>1, Zenon DEF IntactInv
<1>2. CASE CompleteEncrypt(r)
  <2>1. pc[r] = "encrypt" /\ snap'[r] = temp
    BY <1>0, <1>2, EncryptEffect, Zenon
  <2> QED BY <2>1, Zenon DEF IntactInv, Checked
<1>3. CASE CompleteLock(r)
  BY <1>0, <1>1, <1>3, LockEffect, Zenon
<1>4. ASSUME CompleteVerify(r) \/ CompleteMove(r) \/ CompleteMeta(r) \/ CompleteFinish(r) \/ Early(r) PROVE FALSE
  <2>1. pc'[r] \notin {"lock", "move"}
    BY <1>0, <1>4, VerifyEffect, MoveEffect, MetaEffect, FinishEffect, EarlyEffect, Zenon
  <2> QED BY <2>1, Zenon
<1>5. ASSUME NEW k \in Sends, NEW i \in Instances, NEW c, NEW d, Start(r, k, i, c, d)
      PROVE  FALSE
  BY <1>0, <1>5, StartEffect, Zenon DEF Sends
<1> QED BY <1>1, <1>2, <1>3, <1>4, <1>5, WhoMoves, Zenon DEF Early, CompleteStep

(* The file is in storage, and its completion has not failed since. *)
InStorage == done \/ \E r \in Requests : pc[r] \in {"meta", "finish"}

(* The first step into storage takes what has been checked there. *)
LEMMA StoredFirst ==
  ASSUME UploadInv, CommitInv, IntactInv, Trusted, [Next]_vars, ~InStorage, InStorage'
  PROVE  Whole(Stored')
<1>0. TypeInv /\ setting' = setting
  BY SettingFixed, Zenon DEF UploadInv
<1>1. PICK r \in Requests : pc'[r] \in {"meta", "finish"}
  <2>1. ASSUME NEW q \in Requests, CompleteFinish(q) PROVE FALSE
    BY <2>1, Zenon DEF CompleteFinish, InStorage
  <2>2. ~done'
    BY <2>1, DoneSteps, Zenon DEF InStorage
  <2> QED BY <2>2, Zenon DEF InStorage
<1>2. pc[r] \notin {"meta", "finish"}
  BY Zenon DEF InStorage
<1>3. CompleteMove(r) /\ pc'[r] = "meta"
  <2>1. ASSUME NEW k \in Sends, NEW i \in Instances, NEW c, NEW d, Start(r, k, i, c, d)
        PROVE  FALSE
    BY <1>0, <1>1, <2>1, StartEffect, Zenon DEF Sends
  <2>2. ASSUME \/ Early(r) \/ CompleteVerify(r) \/ CompleteEncrypt(r) \/ CompleteLock(r) \/ CompleteMeta(r)
               \/ CompleteFinish(r)
        PROVE  FALSE
    BY <1>0, <1>1, <1>2, <2>2, EarlyEffect, VerifyEffect, EncryptEffect, LockEffect, MetaEffect, FinishEffect, Zenon
  <2>3. CompleteMove(r)
    BY <1>1, <1>2, <2>1, <2>2, WhoMoves, Zenon DEF Early, CompleteStep
  <2> QED BY <1>0, <1>1, <2>3, MoveEffect, Zenon
<1>4. pc[r] = "move" /\ UNCHANGED temp
  BY <1>3, Zenon DEF CompleteMove
<1>5. CASE Encrypt /\ where' = where /\ copy' = snap[r]
  <2>1. Whole(snap[r]) /\ where # "stored"
    BY <1>4, <1>5, Zenon DEF IntactInv, CommitInv
  <2> QED BY <1>5, <2>1, Zenon DEF Stored
<1>6. CASE ~Encrypt /\ (where' = "stored" \/ (where' = "gone" /\ copy' = temp))
  <2>1. Whole(temp)
    BY <1>4, <1>6, Zenon DEF IntactInv, Checked
  <2> QED BY <1>4, <1>6, <2>1, Zenon DEF Stored
<1> QED BY <1>0, <1>3, <1>5, <1>6, MoveEffect, Zenon

(* It stays there as it is. *)
LEMMA StoredStays ==
  ASSUME UploadInv, UploadInv', TurnsInv, CommitInv, AloneInv, IntactInv, Trusted, [Next]_vars, InStorage, InStorage'
  PROVE  Whole(Stored')
<1>0. /\ TypeInv /\ setting' = setting /\ Whole(Stored) /\ where # "temp"
      /\ Kinds \subseteq {"chunk", "complete", "abort", "cleanup", "crash"}
  <2>1. TypeInv /\ setting' = setting /\ Kinds \subseteq {"chunk", "complete", "abort", "cleanup", "crash"}
    BY SettingFixed, SettingTypes, Zenon DEF UploadInv, TypeInv
  <2>2. Whole(Stored) /\ where # "temp"
    BY Zenon DEF IntactInv, CommitInv, InStorage, Past
  <2> QED BY <2>1, <2>2, Zenon
<1>1. ASSUME where' = where, copy' = copy PROVE Whole(Stored')
  <2>1. CASE where = "stored"
    <3>1. Whole(temp) /\ (done \/ \E q \in Requests : pc[q] \in Closing)
      BY <1>0, <2>1, Zenon DEF Stored, InStorage, Closing
    <3>2. temp' = temp \/ \E q \in Requests : ChunkWrite(q)
      BY HashSteps, Zenon
    <3>3. Whole(temp')
      BY <1>0, <3>1, <3>2, WholeStays, Zenon
    <3> QED BY <1>1, <2>1, <3>3, Zenon DEF Stored
  <2>2. CASE where # "stored"
    BY <1>0, <1>1, <2>2, Zenon DEF Stored
  <2> QED BY <2>1, <2>2, Zenon
<1>2. ASSUME NEW r \in Requests, \/ Early(r) \/ CompleteVerify(r) \/ CompleteEncrypt(r) \/ CompleteLock(r)
                                 \/ CompleteFinish(r)
      PROVE  where' = where /\ copy' = copy
  BY <1>0, <1>2, EarlyEffect, VerifyEffect, EncryptEffect, LockEffect, FinishEffect, Zenon
<1>3. ASSUME NEW r \in Requests, CompleteMove(r) PROVE where' = where /\ copy' = copy
  <2>1. pc[r] = "move"
    BY <1>0, <1>3, MoveEffect, Zenon
  <2>2. CASE Encrypt
    <3>1. Past(r)
      BY <2>1, <2>2, Zenon DEF Past
    <3> QED BY <2>1, <3>1, Zenon DEF CommitInv, InStorage, Past
  <2>3. CASE ~Encrypt
    BY <1>0, <1>3, <2>3, MoveEffect, Zenon
  <2> QED BY <2>2, <2>3, Zenon
<1>4. ASSUME NEW r \in Requests, CompleteMeta(r) PROVE where' = where /\ copy' = copy
  <2>1. pc[r] = "meta" /\ done' = done /\ OnlyLocalsOf(r)
    BY <1>0, <1>4, MetaEffect, CompleteAdvances, Zenon DEF CompleteStep, Advance
  <2>2. Past(r) /\ ~done'
    BY <2>1, Zenon DEF Past, CommitInv
  <2>3. \A q \in Requests \ {r} : pc'[q] \notin {"meta", "finish"}
    BY <2>1, <2>2, Zenon DEF CommitInv, Past, OnlyLocalsOf
  <2>4. pc'[r] # "idle"
    BY <2>2, <2>3, Zenon DEF InStorage
  <2> QED BY <1>0, <1>4, <2>4, MetaEffect, Zenon
<1>5. ASSUME NEW r, NEW k, NEW i, NEW c, NEW d, Start(r, k, i, c, d) PROVE where' = where /\ copy' = copy
  BY <1>5, Zenon DEF Start, files
<1>6. ASSUME NEW i, Crash(i) PROVE where' = where /\ copy' = copy
  BY <1>6, Zenon DEF Crash, files
<1>7. UNCHANGED vars => where' = where /\ copy' = copy
  BY Zenon DEF vars
<1>8. where' = where /\ copy' = copy
  BY <1>2, <1>3, <1>4, <1>5, <1>6, <1>7, Zenon DEF Next, CompleteStep, Early
<1> QED BY <1>1, <1>8, Zenon

(* Every step keeps what is checked, encrypted and stored whole. *)
LEMMA IntactStep ==
  ASSUME UploadInv, UploadInv', TurnsInv, CommitInv, AloneInv, UndamagedInv, InOrderInv, IntactInv, [Next]_vars
  PROVE  IntactInv'
<1> SUFFICES ASSUME Trusted' PROVE IntactInv'
  BY Zenon DEF IntactInv
<1>0. /\ setting' = setting /\ Trusted /\ (Encrypt' <=> Encrypt) /\ (Whole(temp)' <=> Whole(temp'))
      /\ (Whole(Stored)' <=> Whole(Stored')) /\ \A r : Whole(snap[r])' <=> Whole(snap'[r])
  <2>1. setting' = setting
    BY SettingFixed, Zenon DEF UploadInv
  <2> QED BY <2>1, SettingKeeps, Zenon
<1>1. ASSUME NEW r \in Requests, Checked(r)' PROVE Whole(temp)'
  BY <1>0, <1>1, CheckedStep, Zenon
<1>2. ASSUME NEW r \in Requests, Encrypt', pc'[r] \in {"lock", "move"} PROVE Whole(snap[r])'
  BY <1>0, <1>2, EncryptedStep, Zenon
<1>3. ASSUME InStorage' PROVE Whole(Stored)'
  BY <1>0, <1>3, StoredFirst, StoredStays, Zenon
<1> QED BY <1>1, <1>2, <1>3, Zenon DEF IntactInv, InStorage

(***************************************************************************)
(* What CompleteUpload reports as stored, under any of the conditions of   *)
(* Trusted, is and stays a file without holes, and the content whose hash  *)
(* was declared.                                                           *)
(***************************************************************************)
THEOREM CommittedFilesIntact == Spec => []CommittedIntact
<1> DEFINE All == /\ UploadInv /\ TurnsInv /\ ProgressInv /\ CommitInv
                  /\ UndamagedInv /\ AloneInv /\ InOrderInv /\ IntactInv
<1>1. Init => All
  <2> SUFFICES ASSUME Init PROVE All
    BY Zenon
  <2>1. UploadInv /\ TurnsInv /\ ProgressInv
    BY ProgressInit, Zenon
  <2>2. /\ where = "temp" /\ done = FALSE /\ (\A r \in Requests : pc[r] = "idle")
        /\ \A o \in Objects : session[o].hashed = <<>>
    BY Zenon DEF Init, NewSession
  <2>3. CommitInv
    BY <2>2, Zenon DEF CommitInv, Past
  <2>4. UndamagedInv
    <3>1. \A k \in 1 .. Len(<< >>) : FALSE
      OBVIOUS
    <3> QED BY <2>2, <3>1, Zenon DEF UndamagedInv, HashTrue
  <2>5. AloneInv /\ InOrderInv /\ IntactInv
    BY <2>2, Zenon DEF AloneInv, InOrderInv, IntactInv, Checked
  <2> QED BY <2>1, <2>3, <2>4, <2>5, Zenon
<1>2. All /\ [Next]_vars => All'
  <2> SUFFICES ASSUME All, [Next]_vars PROVE All'
    BY Zenon
  <2>1. UploadInv' /\ TurnsInv' /\ ProgressInv' /\ CommitInv' /\ UndamagedInv' /\ AloneInv'
    BY NextHolds, TurnsStep, ProgressStep, CommitStep, UndamagedStep, AloneStep, Zenon
  <2>2. InOrderInv' /\ IntactInv'
    BY <2>1, InOrderStep, IntactStep, Zenon
  <2> QED BY <2>1, <2>2, Zenon
<1>3. All => CommittedIntact
  BY Zenon DEF IntactInv, CommittedIntact, Whole
<1> HIDE DEF All
<1> QED BY <1>1, <1>2, <1>3, PTL DEF Spec
=============================================================================
