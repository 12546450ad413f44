-------------------------- MODULE Downloads_proofs --------------------------
(***************************************************************************)
(* Proofs about Downloads: for any number of instances and requests, any   *)
(* contents of any size, and any size of the chunks.                       *)
(***************************************************************************)
EXTENDS Downloads, TLAPS

(* Facts about sequences *)
LEMMA LenProperties ==
  ASSUME NEW S, NEW s \in Seq(S)
  PROVE  Len(s) \in Nat
OBVIOUS

LEMMA ElementOfSeq ==
  ASSUME NEW S, NEW s \in Seq(S), NEW n \in 1 .. Len(s)
  PROVE  s[n] \in S
OBVIOUS

LEMMA AppendProperties ==
  ASSUME NEW S, NEW s \in Seq(S), NEW e \in S
  PROVE  /\ Append(s, e) \in Seq(S) /\ Len(Append(s, e)) = Len(s) + 1
         /\ \A i \in 1 .. Len(s) : Append(s, e)[i] = s[i]
         /\ Append(s, e)[Len(s) + 1] = e
OBVIOUS

LEMMA ConcatProperties ==
  ASSUME NEW S, NEW s \in Seq(S), NEW t \in Seq(S)
  PROVE  /\ s \o t \in Seq(S) /\ Len(s \o t) = Len(s) + Len(t)
         /\ \A i \in 1 .. Len(s) + Len(t) : (s \o t)[i] = IF i <= Len(s) THEN s[i] ELSE t[i - Len(s)]
OBVIOUS

LEMMA SeqEqual ==
  ASSUME NEW S, NEW s \in Seq(S), NEW t \in Seq(S), Len(s) = Len(t), \A i \in 1 .. Len(s) : s[i] = t[i]
  PROVE  s = t
OBVIOUS

LEMMA SubSeqProperties ==
  ASSUME NEW S, NEW s, NEW m \in Int, NEW n \in Int, \A i \in m .. n : s[i] \in S
  PROVE  /\ SubSeq(s, m, n) \in Seq(S)
         /\ Len(SubSeq(s, m, n)) = IF m <= n THEN n - m + 1 ELSE 0
         /\ \A i \in 1 .. n - m + 1 : SubSeq(s, m, n)[i] = s[m + i - 1]
OBVIOUS

(* Where a goroutine is tells what it is for and what it has open. *)
Local(g) ==
  /\ pc[g] \notin {"idle", "ok"} => at[g] \in Instances
  /\ pc[g] \in {"temp", "open", "read", "decrypt", "serve", "range", "grpc", "keep"} => g \in Requests
  /\ file[g] = Linked => pc[g] = "read" /\ object # None
  /\ pc[g] = "read" => file[g] # None
  /\ pc[g] \in {"temp", "open", "read", "decrypt"} => req[g].kind \in {"whole", "stream", "create"}
  /\ pc[g] \in {"open", "read"} /\ ~Encrypted => req[g].kind \in {"whole", "stream"}
  /\ pc[g] \in {"temp", "decrypt", "serve"} => Encrypted
  /\ pc[g] = "serve" => req[g].kind \in {"whole", "stream"}
  /\ pc[g] = "keep" => req[g].kind = "create"
  /\ pc[g] = "range" => req[g].kind = "range"
  /\ pc[g] = "grpc" => req[g].kind = "grpc"
  /\ pc[g] \in {"restore", "forget", "chunk"} => req[g].kind = "chunk"
  /\ pc[g] = "persist" => req[g].kind \in {"chunk", "create"}
  /\ pc[g] \in {"temp", "open"} => got[g] = <<>>
  /\ pc[g] \in {"temp", "open", "read", "decrypt", "serve", "keep"} => req[g].from = 0

TypeInv ==
  /\ TypeOK
  /\ writer # None /\ writer.step = "fill" => object # None /\ writer.version \in Versions
  /\ \A g \in Goroutines : Local(g)

-----------------------------------------------------------------------------
(***************************************************************************)
(* Contents, stored and plain, are sequences of blocks with their numbers. *)
(***************************************************************************)
InPlace(data, from) == \A k \in 1 .. Len(data) : data[k][2] = from + k

Numbered(data) == InPlace(data, 0)

LEMMA PlainData ==
  ASSUME NEW v \in Versions
  PROVE  Plain(v) \in Data /\ Len(Plain(v)) = Size[v] /\ Numbered(Plain(v))
BY DownloadConstants DEF Plain, Data, Block, Numbered, InPlace

LEMMA StoredData ==
  ASSUME NEW v \in Versions
  PROVE  Stored(v) \in Data /\ Len(Stored(v)) \in Nat /\ Numbered(Stored(v))
<1>1. CASE Encrypted
  <2>1. Stored(v) = [k \in 1 .. Size[v] + 1 |-> <<v, k, "cipher">>] /\ Size[v] + 1 \in Nat
    BY <1>1, DownloadConstants DEF Stored
  <2> QED BY <2>1 DEF Data, Block, Numbered, InPlace
<1>2. CASE ~Encrypted
  BY <1>2, PlainData, DownloadConstants, Zenon DEF Stored
<1> QED BY <1>1, <1>2, Zenon

LEMMA BlocksData ==
  ASSUME NEW data \in Data, NEW from \in Nat, NEW count \in Nat
  PROVE  /\ Blocks(data, from, count) \in Data
         /\ Numbered(data) => InPlace(Blocks(data, from, count), from)
<1> DEFINE last == IF from + count < Len(data) THEN from + count ELSE Len(data)
<1>1. Len(data) \in Nat /\ last \in Int /\ last <= Len(data)
  BY LenProperties DEF Data
<1>2. \A i \in (from + 1) .. last : i \in 1 .. Len(data) /\ data[i] \in Block
  BY <1>1, ElementOfSeq DEF Data
<1>3. Blocks(data, from, count) = SubSeq(data, from + 1, last)
  BY Zenon DEF Blocks
<1> HIDE DEF last
<1>4. /\ SubSeq(data, from + 1, last) \in Seq(Block)
      /\ Len(SubSeq(data, from + 1, last)) = IF from + 1 <= last THEN last - (from + 1) + 1 ELSE 0
      /\ \A i \in 1 .. last - (from + 1) + 1 : SubSeq(data, from + 1, last)[i] = data[from + 1 + i - 1]
  BY <1>1, <1>2, SubSeqProperties
<1>5. ASSUME Numbered(data), NEW k \in 1 .. Len(Blocks(data, from, count))
      PROVE  Blocks(data, from, count)[k][2] = from + k
  <2>1. k \in 1 .. last - (from + 1) + 1 /\ from + k \in (from + 1) .. last /\ from + 1 + k - 1 = from + k
    BY <1>1, <1>3, <1>4
  <2>2. Blocks(data, from, count)[k] = data[from + k]
    BY <1>3, <1>4, <2>1, Zenon
  <2>3. from + k \in 1 .. Len(data)
    BY <1>2, <2>1, Zenon
  <2>4. data[from + k][2] = 0 + (from + k)
    BY <1>5, <2>3, Zenon DEF Numbered, InPlace
  <2> QED BY <1>1, <2>1, <2>2, <2>4
<1>6. Numbered(data) => InPlace(Blocks(data, from, count), from)
  BY <1>5, Zenon DEF InPlace
<1> QED BY <1>3, <1>4, <1>6, Zenon DEF Data

(***************************************************************************)
(* What is in its place stays there when blocks are put behind it.         *)
(***************************************************************************)
LEMMA EmptyInPlace ==
  ASSUME NEW from
  PROVE  InPlace(<<>>, from)
BY DEF InPlace

LEMMA NumberedBlock ==
  ASSUME NEW data \in Data, Numbered(data), NEW n \in 1 .. Len(data)
  PROVE  data[n] \in Block /\ data[n][2] = n
<1>1. data[n] \in Block
  BY ElementOfSeq, Zenon DEF Data
<1>2. data[n][2] = 0 + n
  BY Zenon DEF Numbered, InPlace
<1> QED BY <1>1, <1>2

LEMMA ConcatInPlace ==
  ASSUME NEW s \in Data, NEW t \in Data, NEW from \in Nat, InPlace(s, from), InPlace(t, from + Len(s))
  PROVE  InPlace(s \o t, from)
<1>1. Len(s) \in Nat /\ Len(t) \in Nat
  BY LenProperties, Zenon DEF Data
<1>2. /\ Len(s \o t) = Len(s) + Len(t)
      /\ \A k \in 1 .. Len(s) + Len(t) : (s \o t)[k] = IF k <= Len(s) THEN s[k] ELSE t[k - Len(s)]
  BY <1>1, ConcatProperties, Zenon DEF Data
<1>3. ASSUME NEW k \in 1 .. Len(s) + Len(t) PROVE (s \o t)[k][2] = from + k
  <2>1. CASE k <= Len(s)
    <3>1. k \in 1 .. Len(s) /\ (s \o t)[k] = s[k]
      BY <1>1, <1>2, <2>1
    <3> QED BY <3>1, Zenon DEF InPlace
  <2>2. CASE ~(k <= Len(s))
    <3>1. k - Len(s) \in 1 .. Len(t) /\ (s \o t)[k] = t[k - Len(s)]
      BY <1>1, <1>2, <2>2
    <3>2. t[k - Len(s)][2] = from + Len(s) + (k - Len(s))
      BY <3>1, Zenon DEF InPlace
    <3> QED BY <1>1, <3>1, <3>2
  <2> QED BY <2>1, <2>2, Zenon
<1> QED BY <1>2, <1>3, Zenon DEF InPlace

LEMMA AppendInPlace ==
  ASSUME NEW s \in Data, NEW data \in Data, NEW from \in Nat, InPlace(s, from), from = 0,
         Numbered(data), Len(s) < Len(data)
  PROVE  InPlace(Append(s, data[Len(s) + 1]), from)
<1>1. Len(s) \in Nat /\ Len(data) \in Nat
  BY LenProperties, Zenon DEF Data
<1>2. Len(s) + 1 \in 1 .. Len(data)
  BY <1>1
<1>3. data[Len(s) + 1] \in Block /\ data[Len(s) + 1][2] = Len(s) + 1
  BY <1>2, NumberedBlock, Zenon
<1>4. /\ Len(Append(s, data[Len(s) + 1])) = Len(s) + 1
      /\ \A k \in 1 .. Len(s) : Append(s, data[Len(s) + 1])[k] = s[k]
      /\ Append(s, data[Len(s) + 1])[Len(s) + 1] = data[Len(s) + 1]
  BY <1>3, AppendProperties DEF Data
<1>5. ASSUME NEW k \in 1 .. Len(s) + 1 PROVE Append(s, data[Len(s) + 1])[k][2] = from + k
  <2>1. CASE k \in 1 .. Len(s)
    <3>1. s[k][2] = from + k
      BY <2>1, Zenon DEF InPlace
    <3> QED BY <1>4, <2>1, <3>1, Zenon
  <2>2. CASE k = Len(s) + 1
    BY <1>1, <1>3, <1>4, <2>2
  <2> QED BY <1>1, <2>1, <2>2
<1> QED BY <1>4, <1>5, Zenon DEF InPlace

(***************************************************************************)
(* A copy in progress is the beginning of what it copies.                  *)
(***************************************************************************)
Begins(s, data) == Len(s) <= Len(data) /\ \A k \in 1 .. Len(s) : s[k] = data[k]

LEMMA EmptyBegins ==
  ASSUME NEW data \in Data
  PROVE  Begins(<<>>, data)
<1>1. Len(data) \in Nat
  BY LenProperties, Zenon DEF Data
<1> QED BY <1>1 DEF Begins

LEMMA AppendBegins ==
  ASSUME NEW s \in Data, NEW data \in Data, Begins(s, data), Len(s) < Len(data)
  PROVE  Begins(Append(s, data[Len(s) + 1]), data)
<1>1. Len(s) \in Nat /\ Len(data) \in Nat /\ Len(s) + 1 \in 1 .. Len(data)
  BY LenProperties DEF Data
<1>2. data[Len(s) + 1] \in Block
  BY <1>1, ElementOfSeq, Zenon DEF Data
<1>3. /\ Len(Append(s, data[Len(s) + 1])) = Len(s) + 1
      /\ \A k \in 1 .. Len(s) : Append(s, data[Len(s) + 1])[k] = s[k]
      /\ Append(s, data[Len(s) + 1])[Len(s) + 1] = data[Len(s) + 1]
  BY <1>2, AppendProperties DEF Data
<1>4. \A k \in 1 .. Len(s) : s[k] = data[k]
  BY Zenon DEF Begins
<1>5. ASSUME NEW k \in 1 .. Len(s) + 1 PROVE Append(s, data[Len(s) + 1])[k] = data[k]
  <2>1. k \in 1 .. Len(s) \/ k = Len(s) + 1
    BY <1>1
  <2> QED BY <1>3, <1>4, <2>1, Zenon
<1> QED BY <1>1, <1>3, <1>5 DEF Begins

LEMMA BeginsToEnd ==
  ASSUME NEW s \in Data, NEW data \in Data, Begins(s, data), Len(s) >= Len(data)
  PROVE  s = data
<1>1. Len(s) \in Nat /\ Len(data) \in Nat
  BY LenProperties, Zenon DEF Data
<1>2. Len(s) = Len(data) /\ \A k \in 1 .. Len(s) : s[k] = data[k]
  BY <1>1 DEF Begins
<1> QED BY <1>2, SeqEqual, Zenon DEF Data

(***************************************************************************)
(* Decryption yields one content.                                          *)
(***************************************************************************)
LEMMA DecryptedData ==
  ASSUME NEW data, NEW plain \in Decrypted(data)
  PROVE  \E v \in Versions : plain = Plain(v)
BY Zenon DEF Decrypted

(***************************************************************************)
(* No action changes the setting.                                          *)
(***************************************************************************)
LEMMA SettingFixed == [Next]_vars => setting' = setting
<1>1. ASSUME NEW g, Work(g) PROVE setting' = setting
  BY <1>1, Zenon DEF Work, CreateTemp, Open, ReadBlock, CopyFails, Decrypt, Serve, ReadRange, SendChunk,
       KeepSession, Persist, RestoreSession, ForgetStale, ReadChunk, CloseSession, DropSession,
       UnstoreSession, Goto, Leave, Done
<1> QED
  BY <1>1 DEF Next, vars, Truncate, Replace, Unlink, Write, Fill, WriteRow, FillFails, Begin, Arrive,
       Leave, CreateSession, EndSession, BeginChunk, Age, ExpireEntry, Restart, Goto

-----------------------------------------------------------------------------
(* The locals of all goroutines have their types, and only those of g change. *)
LocalsTyped ==
  /\ pc \in [Goroutines -> Label] /\ at \in [Goroutines -> Instances \cup {None}]
  /\ req \in [Goroutines -> Request] /\ size \in [Goroutines -> Nat]
  /\ file \in [Goroutines -> Data \cup {None, Linked}] /\ got \in [Goroutines -> Data]

OnlyLocalsOf(g) ==
  \A h \in Goroutines \ {g} :
    /\ pc'[h] = pc[h] /\ at'[h] = at[h] /\ req'[h] = req[h] /\ size'[h] = size[h]
    /\ file'[h] = file[h] /\ got'[h] = got[h]

LEMMA ConstantTypes ==
  /\ NoRequest \in Request /\ <<>> \in Data /\ MaxBlock \in Nat /\ Chunk \in Nat
  /\ \A from \in 0 .. MaxBlock : [kind |-> "chunk", from |-> from, count |-> 1] \in Request
  /\ \A k \in {"create", "end", "expire"} : [NoRequest EXCEPT !.kind = k] \in Request
  /\ \A x \in Request : x.from \in Nat /\ x.count \in Nat
BY DownloadConstants DEF NoRequest, Request, Data

(***************************************************************************)
(* What a request that ends leaves                                         *)
(***************************************************************************)
LEMMA LeaveEffect ==
  ASSUME LocalsTyped, setting' = setting, NEW g \in Goroutines, Leave(g)
  PROVE  /\ LocalsTyped' /\ OnlyLocalsOf(g)
         /\ pc'[g] = "idle" /\ file'[g] = None /\ got'[g] = <<>> /\ at'[g] = None
         /\ req'[g] = NoRequest
BY ConstantTypes, Zenon DEF LocalsTyped, OnlyLocalsOf, Leave, Goto, Forget, Goroutines, Instances, Requests, Label

LEMMA DoneEffect ==
  ASSUME LocalsTyped, setting' = setting, NEW g \in Goroutines, Done(g)
  PROVE  /\ LocalsTyped' /\ OnlyLocalsOf(g)
         /\ pc'[g] = "ok" /\ file'[g] = None /\ got'[g] = got[g] /\ req'[g] = req[g]
BY Zenon DEF LocalsTyped, OnlyLocalsOf, Done, Goto, Forget, Goroutines, Instances, Requests, Label

LEMMA ArriveEffect ==
  ASSUME LocalsTyped, setting' = setting, row \in Nat \cup {None}, NEW g \in Goroutines,
         NEW i \in Instances, NEW x \in Request, NEW label \in Label, Arrive(g, i, x, label)
  PROVE  /\ LocalsTyped' /\ OnlyLocalsOf(g) /\ got'[g] = <<>>
         /\ \/ pc'[g] = "idle" /\ file'[g] = None /\ req'[g] = NoRequest
            \/ pc'[g] = label /\ file'[g] = file[g] /\ req'[g] = x /\ at'[g] = i
<1>1. CASE row = None
  <2>1. Leave(g)
    BY <1>1, Zenon DEF Arrive
  <2> QED BY <2>1, LeaveEffect, Zenon
<1>2. CASE row # None
  <2>1. /\ pc' = [pc EXCEPT ![g] = label] /\ at' = [at EXCEPT ![g] = i] /\ req' = [req EXCEPT ![g] = x]
        /\ got' = [got EXCEPT ![g] = <<>>] /\ size' = [size EXCEPT ![g] = row] /\ file' = file
    BY <1>2, Zenon DEF Arrive, Goto
  <2> QED
    BY <1>2, <2>1, ConstantTypes, Zenon DEF LocalsTyped, OnlyLocalsOf, Goroutines, Instances, Requests
<1> QED BY <1>1, <1>2, Zenon

LEMMA LocalFrame ==
  ASSUME NEW g, \A h \in Goroutines : Local(h), OnlyLocalsOf(g), setting' = setting,
         object' = object \/ object' # None,
         g \in Goroutines => Local(g)'
  PROVE  \A h \in Goroutines : Local(h)'
<1> SUFFICES ASSUME NEW h \in Goroutines \ {g} PROVE Local(h)'
  BY Zenon
<1>1. /\ pc'[h] = pc[h] /\ at'[h] = at[h] /\ req'[h] = req[h] /\ file'[h] = file[h] /\ got'[h] = got[h]
      /\ Local(h)
  BY DEF OnlyLocalsOf
<1> QED BY <1>1 DEF Local, Instances, Requests, Encrypted

SharedTyped ==
  /\ object \in Data \cup {None} /\ row \in Nat \cup {None}
  /\ writer \in [step : {"fill", "row"}, version : Versions \cup {None}, size : Nat \cup {None}] \cup {None}
  /\ writer # None /\ writer.step = "fill" => object # None /\ writer.version \in Versions
  /\ temp \subseteq Instances \X (Requests \cup {"session", "crashed"}) \X {"enc", "dec"}
  /\ created \in BOOLEAN /\ old \in BOOLEAN /\ closed \in BOOLEAN
  /\ mem \in [Instances -> [dec : Data \cup {None}, size : Nat] \cup {None}]
  /\ store \in [size : Nat, stale : BOOLEAN] \cup {None}

(***************************************************************************)
(* The steps of a goroutine keep the types.                                *)
(***************************************************************************)
LEMMA WorkTypes ==
  ASSUME TypeInv, setting' = setting, NEW g \in Goroutines, Work(g)
  PROVE  LocalsTyped' /\ SharedTyped' /\ (\A h \in Goroutines : Local(h)')
<1>a. LocalsTyped /\ SharedTyped /\ setting \in Settings
  BY Zenon DEF TypeInv, TypeOK, LocalsTyped, SharedTyped
<1>b. Local(g) /\ \A h \in Goroutines : Local(h)
  BY Zenon DEF TypeInv
<1>c. Goroutines' = Goroutines /\ Instances' = Instances /\ Requests' = Requests /\ Encrypted' = Encrypted
  BY Zenon DEF Goroutines, Instances, Requests, Encrypted
<1>d. ASSUME LocalsTyped', OnlyLocalsOf(g), Local(g)', SharedTyped', UNCHANGED object
      PROVE  LocalsTyped' /\ SharedTyped' /\ (\A h \in Goroutines : Local(h)')
  BY <1>b, <1>d, LocalFrame, Zenon
<1>e. ASSUME Leave(g), SharedTyped', UNCHANGED object
      PROVE  LocalsTyped' /\ SharedTyped' /\ (\A h \in Goroutines : Local(h)')
  <2>1. Local(g)'
    BY <1>a, <1>e, LeaveEffect, DownloadConstants, Zenon DEF Local
  <2> QED BY <1>a, <1>d, <1>e, <2>1, LeaveEffect, Zenon
<1>f. ASSUME Done(g), SharedTyped', UNCHANGED object
      PROVE  LocalsTyped' /\ SharedTyped' /\ (\A h \in Goroutines : Local(h)')
  <2>1. Local(g)'
    BY <1>a, <1>f, DoneEffect, DownloadConstants, Zenon DEF Local
  <2> QED BY <1>a, <1>d, <1>f, <2>1, DoneEffect, Zenon
<1>g. ASSUME pc[g] \in {"temp", "open", "read", "decrypt", "serve"}
      PROVE  {Enc(g), Dec(g)} \subseteq Instances \X (Requests \cup {"session", "crashed"}) \X {"enc", "dec"}
  BY <1>b, <1>g DEF Local, Enc, Dec
<1>h. ASSUME UNCHANGED <<objects, session>>, temp' \subseteq temp \cup {Enc(g), Dec(g)},
             pc[g] \in {"temp", "open", "read", "decrypt", "serve"}
      PROVE  SharedTyped' /\ UNCHANGED object
  BY <1>a, <1>c, <1>g, <1>h DEF SharedTyped, objects, session
<1>i. ASSUME UNCHANGED <<objects, temp, session>> PROVE SharedTyped' /\ UNCHANGED object
  BY <1>a, <1>c, <1>i DEF SharedTyped, objects, session
<1>j. Linked # None /\ Linked \notin Data
  BY DownloadConstants, Zenon
<1>1. CASE CreateTemp(g)
  <2>1. SharedTyped' /\ UNCHANGED object
    BY <1>1, <1>h, Zenon DEF CreateTemp
  <2>2. CASE Goto(g, "open") /\ UNCHANGED locals
    <3>1. LocalsTyped' /\ OnlyLocalsOf(g) /\ Local(g)'
      BY <1>1, <2>2, <1>a, <1>b, <1>c, <1>j DEF CreateTemp, Goto, locals, LocalsTyped, OnlyLocalsOf, Local, Label
    <3> QED BY <1>d, <2>1, <3>1, Zenon
  <2> QED BY <1>1, <1>e, <2>1, <2>2, Zenon DEF CreateTemp
<1>2. CASE Open(g)
  <2>1. SharedTyped' /\ UNCHANGED object
    BY <1>2, <1>h, Zenon DEF Open
  <2>2. CASE object # None
    <3>1. /\ file' = [file EXCEPT ![g] = Linked] /\ pc' = [pc EXCEPT ![g] = "read"]
          /\ size' = [size EXCEPT ![g] = IF req[g].kind = "stream" THEN Len(object) ELSE @]
          /\ UNCHANGED <<at, req, got>> /\ object \in Data /\ Len(object) \in Nat
      BY <1>2, <2>2, <1>a, LenProperties, Zenon DEF Open, Goto, SharedTyped, Data
    <3>2. LocalsTyped' /\ OnlyLocalsOf(g)
      BY <3>1, <1>a, <1>c, Zenon DEF LocalsTyped, OnlyLocalsOf, Label
    <3>3. Local(g)'
      BY <1>2, <3>1, <2>1, <2>2, <1>a, <1>b, <1>c, <1>j DEF Open, Local, LocalsTyped
    <3> QED BY <1>d, <2>1, <3>2, <3>3
  <2> QED BY <1>2, <1>e, <2>1, <2>2, Zenon DEF Open
<1>3. CASE ReadBlock(g)
  <2>1. SharedTyped' /\ UNCHANGED object
    BY <1>3, <1>i, Zenon DEF ReadBlock
  <2>2. CASE /\ ~AtEnd(g) /\ got' = [got EXCEPT ![g] = Append(@, Opened(g)[Len(@) + 1])]
             /\ UNCHANGED <<setting, pc, at, req, size, file>>
    <3>1. Opened(g) \in Data /\ got[g] \in Data
      BY <1>3, <1>a, <1>b, Zenon DEF ReadBlock, Opened, Local, LocalsTyped, SharedTyped
    <3>2. Len(got[g]) \in Nat /\ Len(Opened(g)) \in Nat
      BY <3>1, LenProperties, Zenon DEF Data
    <3>3. Len(got[g]) + 1 \in 1 .. Len(Opened(g))
      BY <2>2, <3>2 DEF AtEnd
    <3>4. Append(got[g], Opened(g)[Len(got[g]) + 1]) \in Data
      BY <3>1, <3>3, ElementOfSeq, AppendProperties DEF Data
    <3>5. LocalsTyped' /\ OnlyLocalsOf(g)
      BY <2>2, <3>4, <1>a, <1>c, Zenon DEF LocalsTyped, OnlyLocalsOf
    <3>6. Local(g)'
      BY <1>3, <2>1, <2>2, <1>b, <1>c, Zenon DEF Local, ReadBlock
    <3> QED BY <1>d, <2>1, <3>5, <3>6
  <2>3. CASE Encrypted /\ Goto(g, "decrypt") /\ file' = [file EXCEPT ![g] = None] /\ UNCHANGED <<at, req, size, got>>
    <3>1. LocalsTyped' /\ OnlyLocalsOf(g)
      BY <2>3, <1>a, <1>c DEF LocalsTyped, OnlyLocalsOf, Goto, Label
    <3>2. Local(g)'
      BY <1>3, <2>3, <1>a, <1>b, <1>c, <1>j, Zenon DEF Local, Goto, ReadBlock, LocalsTyped
    <3> QED BY <1>d, <2>1, <3>1, <3>2
  <2> QED BY <1>3, <1>e, <1>f, <2>1, <2>2, <2>3, Zenon DEF ReadBlock
<1>4. CASE CopyFails(g)
  BY <1>4, <1>e, <1>h, Zenon DEF CopyFails
<1>5. CASE Decrypt(g)
  <2>1. SharedTyped' /\ UNCHANGED object
    BY <1>5, <1>h, Zenon DEF Decrypt
  <2>2. ASSUME NEW data \in Decrypted(got[g]),
               got' = [got EXCEPT ![g] = data], size' = [size EXCEPT ![g] = Len(data)],
               Goto(g, IF req[g].kind = "create" THEN "keep" ELSE "serve"), UNCHANGED <<at, req, file>>
        PROVE  LocalsTyped' /\ SharedTyped' /\ (\A h \in Goroutines : Local(h)')
    <3>1. data \in Data /\ Len(data) \in Nat
      BY DecryptedData, PlainData, LenProperties DEF Data
    <3>2. LocalsTyped' /\ OnlyLocalsOf(g)
      BY <2>2, <3>1, <1>a, <1>c, Zenon DEF LocalsTyped, OnlyLocalsOf, Goto, Label
    <3>3. Local(g)'
      BY <1>5, <2>1, <2>2, <1>a, <1>b, <1>c, Zenon DEF Local, Goto, Decrypt, LocalsTyped
    <3> QED BY <1>d, <2>1, <3>2, <3>3, Zenon
  <2> QED BY <1>5, <1>e, <2>1, <2>2, Zenon DEF Decrypt
<1>6. CASE Serve(g)
  BY <1>6, <1>f, <1>h DEF Serve
<1>7. CASE ReadRange(g)
  <2>1. SharedTyped' /\ UNCHANGED object
    BY <1>7, <1>i, Zenon DEF ReadRange
  <2>2. CASE /\ object # None /\ Goto(g, "ok") /\ Forget(g) /\ UNCHANGED req
             /\ got' = [got EXCEPT ![g] = Blocks(object, req[g].from, req[g].count)]
    <3>1. Blocks(object, req[g].from, req[g].count) \in Data
      BY <2>2, <1>a, ConstantTypes, BlocksData, Zenon DEF LocalsTyped, SharedTyped
    <3>2. LocalsTyped' /\ OnlyLocalsOf(g)
      BY <2>2, <3>1, <1>a, <1>c, Zenon DEF LocalsTyped, OnlyLocalsOf, Goto, Forget, Label
    <3>3. Local(g)'
      BY <2>2, <1>a, <1>j, Zenon DEF Local, Goto, Forget, LocalsTyped
    <3> QED BY <1>d, <2>1, <3>2, <3>3
  <2> QED BY <1>7, <1>e, <2>1, <2>2, Zenon DEF ReadRange
<1>8. CASE SendChunk(g)
  <2>1. SharedTyped' /\ UNCHANGED object
    BY <1>8, <1>i, Zenon DEF SendChunk
  <2> DEFINE offset == req[g].from + Len(got[g])
  <2>2. CASE /\ object # None /\ got' = [got EXCEPT ![g] = @ \o Blocks(object, offset, Chunk)]
             /\ UNCHANGED <<setting, pc, at, req, size, file>>
    <3>1. offset \in Nat /\ got[g] \in Data
      BY <1>a, ConstantTypes, LenProperties DEF LocalsTyped, Data
    <3>2. Blocks(object, offset, Chunk) \in Data
      BY <2>2, <3>1, <1>a, ConstantTypes, BlocksData, Zenon DEF SharedTyped
    <3>3. got[g] \o Blocks(object, offset, Chunk) \in Data
      BY <3>1, <3>2, ConcatProperties, Zenon DEF Data
    <3>4. LocalsTyped' /\ OnlyLocalsOf(g)
      BY <2>2, <3>3, <1>a, <1>c, Zenon DEF LocalsTyped, OnlyLocalsOf
    <3>5. Local(g)'
      BY <1>8, <2>2, <1>b, <1>c, Zenon DEF Local, SendChunk
    <3> QED BY <1>d, <2>1, <3>4, <3>5
  <2> QED BY <1>8, <1>e, <1>f, <2>1, <2>2, Zenon DEF SendChunk
<1>9. CASE KeepSession(g)
  <2>1. LocalsTyped' /\ OnlyLocalsOf(g) /\ Local(g)' /\ UNCHANGED object
    BY <1>9, <1>a, <1>b, <1>c, Zenon DEF KeepSession, Goto, locals, objects, LocalsTyped, OnlyLocalsOf, Local, Label
  <2>2. NewSession(IF Encrypted THEN got[g] ELSE None, size[g]) \in [dec : Data \cup {None}, size : Nat]
    BY <1>a, Zenon DEF NewSession, LocalsTyped
  <2>3. SharedTyped'
    BY <1>9, <2>2, <1>a, <1>c, ZenonT(30) DEF KeepSession, objects, SharedTyped
  <2> QED BY <1>d, <2>1, <2>3, Zenon
<1>10. CASE Persist(g)
  <2>1. SharedTyped' /\ UNCHANGED object
    <3>1. store' \in [size : Nat, stale : BOOLEAN] \cup {None}
      <4>1. size[g] \in Nat /\ store \in [size : Nat, stale : BOOLEAN] \cup {None}
        BY <1>a, Zenon DEF SharedTyped, LocalsTyped
      <4>2. store' = [size |-> size[g], stale |-> FALSE] \/ store' = store
        BY <1>10, Zenon DEF Persist
      <4>3. CASE store' = store
        BY <4>1, <4>3, Zenon
      <4>4. CASE store' = [size |-> size[g], stale |-> FALSE]
        <5>1. [size |-> size[g], stale |-> FALSE] \in [size : Nat, stale : BOOLEAN]
          BY <4>1, Zenon
        <5> QED BY <4>4, <5>1, Zenon
      <4> QED BY <4>2, <4>3, <4>4, Zenon
    <3> QED BY <1>10, <1>a, <1>c, <3>1, Zenon DEF Persist, objects, SharedTyped
  <2> QED BY <1>10, <1>e, <1>f, <2>1, Zenon DEF Persist
<1>11. CASE RestoreSession(g)
  <2>1. SharedTyped' /\ UNCHANGED object
    BY <1>11, <1>a, <1>c DEF RestoreSession, objects, NewSession, SharedTyped
  <2>2. CASE store # None /\ store.stale /\ Goto(g, "forget") /\ UNCHANGED <<locals, mem>>
    <3>1. LocalsTyped' /\ OnlyLocalsOf(g) /\ Local(g)'
      BY <1>11, <2>1, <2>2, <1>a, <1>b, <1>c, Zenon DEF RestoreSession, Goto, locals, LocalsTyped, OnlyLocalsOf, Local, Label
    <3> QED BY <1>d, <2>1, <3>1
  <2>3. CASE /\ store # None /\ Goto(g, "chunk") /\ size' = [size EXCEPT ![g] = store.size]
             /\ UNCHANGED <<at, req, file, got>>
    <3>1. LocalsTyped' /\ OnlyLocalsOf(g) /\ Local(g)'
      BY <1>11, <2>1, <2>3, <1>a, <1>b, <1>c DEF RestoreSession, Goto, LocalsTyped, SharedTyped, OnlyLocalsOf, Local, Label
    <3> QED BY <1>d, <2>1, <3>1
  <2> QED BY <1>11, <1>e, <2>1, <2>2, <2>3, Zenon DEF RestoreSession
<1>12. CASE ForgetStale(g) \/ UnstoreSession(g)
  <2>1. SharedTyped' /\ UNCHANGED object
    BY <1>12, <1>a, <1>c, Zenon DEF ForgetStale, UnstoreSession, objects, SharedTyped
  <2> QED BY <1>12, <1>e, <2>1, Zenon DEF ForgetStale, UnstoreSession
<1>13. CASE ReadChunk(g)
  <2>1. SharedTyped' /\ UNCHANGED object
    BY <1>13, <1>i DEF ReadChunk
  <2> DEFINE data == IF file[g] # None THEN file[g] ELSE object
  <2>2. CASE /\ IF file[g] # None THEN ~closed ELSE object # None
             /\ got' = [got EXCEPT ![g] = Blocks(data, req[g].from, req[g].count)]
             /\ \/ Goto(g, "ok") /\ Forget(g) /\ UNCHANGED req
                \/ Goto(g, "persist") /\ file' = [file EXCEPT ![g] = None] /\ UNCHANGED <<at, req, size>>
    <3>1. data \in Data
      BY <1>13, <2>2, <1>a, <1>b, Zenon DEF LocalsTyped, SharedTyped, Local, ReadChunk
    <3>2. Blocks(data, req[g].from, req[g].count) \in Data
      BY <3>1, <1>a, ConstantTypes, BlocksData, Zenon DEF LocalsTyped
    <3> HIDE DEF data
    <3>3. LocalsTyped' /\ OnlyLocalsOf(g)
      BY <2>2, <3>2, <1>a, <1>c DEF LocalsTyped, OnlyLocalsOf, Goto, Forget, Label
    <3>4. Local(g)'
      BY <1>13, <2>1, <2>2, <1>a, <1>b, <1>c, <1>j DEF Local, Goto, Forget, ReadChunk, LocalsTyped
    <3> QED BY <1>d, <2>1, <3>3, <3>4
  <2> QED BY <1>13, <1>e, <2>1, <2>2, Zenon DEF ReadChunk
<1>14. CASE CloseSession(g)
  <2>1. LocalsTyped' /\ OnlyLocalsOf(g) /\ Local(g)' /\ UNCHANGED object
    BY <1>14, <1>a, <1>b, <1>c, <1>j, Zenon DEF CloseSession, Goto, objects, LocalsTyped, OnlyLocalsOf, Local, Label
  <2>2. closed' \in BOOLEAN
    BY <1>14, <1>a DEF CloseSession, SharedTyped
  <2>3. SharedTyped'
    BY <1>14, <2>2, <1>a, <1>c DEF CloseSession, objects, SharedTyped
  <2> QED BY <1>d, <2>1, <2>3
<1>15. CASE DropSession(g)
  <2>1. LocalsTyped' /\ OnlyLocalsOf(g) /\ Local(g)' /\ UNCHANGED object
    BY <1>15, <1>a, <1>b, <1>c, Zenon DEF DropSession, Goto, locals, objects, LocalsTyped, OnlyLocalsOf, Local, Label
  <2>2. SharedTyped'
    BY <1>15, <1>a, <1>c, ZenonT(30) DEF DropSession, objects, SharedTyped
  <2> QED BY <1>d, <2>1, <2>2
<1> QED
  BY <1>1, <1>2, <1>3, <1>4, <1>5, <1>6, <1>7, <1>8, <1>9, <1>10, <1>11, <1>12, <1>13, <1>14, <1>15
  DEF Work

(***************************************************************************)
(* Every action keeps the types.                                           *)
(***************************************************************************)
LEMMA TypeStep == TypeInv /\ [Next]_vars => TypeInv'
<1> SUFFICES ASSUME TypeInv, [Next]_vars PROVE TypeInv'
  BY Zenon
<1>0. setting' = setting /\ setting \in Settings
  BY SettingFixed, Zenon DEF TypeInv, TypeOK
<1>a. LocalsTyped /\ SharedTyped
  BY Zenon DEF TypeInv, TypeOK, LocalsTyped, SharedTyped
<1>b. \A h \in Goroutines : Local(h)
  BY Zenon DEF TypeInv
<1>c. Goroutines' = Goroutines /\ Instances' = Instances /\ Requests' = Requests /\ Encrypted' = Encrypted
  BY <1>0, Zenon DEF Goroutines, Instances, Requests, Encrypted
<1>d. ASSUME LocalsTyped', SharedTyped', \A h \in Goroutines : Local(h)'
      PROVE  TypeInv'
  BY <1>0, <1>c, <1>d, Zenon DEF TypeInv, TypeOK, LocalsTyped, SharedTyped
<1>e. ASSUME UNCHANGED <<pc, locals>>, object' = object \/ object' # None, SharedTyped'
      PROVE  TypeInv'
  <2>1. LocalsTyped' /\ OnlyLocalsOf(None)
    BY <1>a, <1>c, <1>e, Zenon DEF LocalsTyped, OnlyLocalsOf, locals
  <2>2. \A h \in Goroutines : Local(h)'
    <3> SUFFICES ASSUME NEW h \in Goroutines PROVE Local(h)'
      BY Zenon
    <3> QED BY <1>b, <1>c, <1>e, Zenon DEF Local, locals
  <2> QED BY <1>d, <1>e, <2>1, <2>2, Zenon
<1>f. ASSUME NEW g \in Goroutines, LocalsTyped', OnlyLocalsOf(g), Local(g)', SharedTyped', UNCHANGED object
      PROVE  TypeInv'
  <2>1. \A h \in Goroutines : Local(h)'
    BY <1>0, <1>b, <1>f, LocalFrame, Zenon
  <2> QED BY <1>d, <1>f, <2>1, Zenon
<1>g. ASSUME NEW new \in Data \cup {None}, Relink(new), UNCHANGED <<pc, at, req, size, got>>, SharedTyped'
      PROVE  TypeInv'
  <2>1. \A h \in Goroutines : file'[h] = IF file[h] = Linked THEN object ELSE file[h]
    BY <1>g, Zenon DEF Relink
  <2>2. \A h \in Goroutines : file[h] = Linked => object # None /\ object \in Data
    BY <1>a, <1>b, Zenon DEF Local, SharedTyped
  <2>3. LocalsTyped'
    BY <1>a, <1>c, <1>g, <2>2, Zenon DEF LocalsTyped, Relink
  <2>4. \A h \in Goroutines : Local(h)'
    <3> SUFFICES ASSUME NEW h \in Goroutines PROVE Local(h)'
      BY Zenon
    <3> QED BY <1>b, <1>c, <1>g, <2>1, <2>2, DownloadConstants, Zenon DEF Local
  <2> QED BY <1>d, <1>g, <2>3, <2>4, Zenon
<1>1. ASSUME NEW v \in Versions, Truncate(v) PROVE TypeInv'
  <2>1. object' = <<>> /\ <<>> \in Data /\ <<>> # None
    BY <1>1, ConstantTypes, DownloadConstants DEF Truncate
  <2>2. SharedTyped'
    BY <1>1, <2>1, <1>a, <1>c, StoredData, Zenon DEF Truncate, SharedTyped, session
  <2> QED BY <1>1, <1>e, <2>1, <2>2, Zenon DEF Truncate
<1>2. ASSUME NEW v \in Versions, Replace(v) PROVE TypeInv'
  <2>1. SharedTyped'
    BY <1>2, <1>a, <1>c, StoredData, DownloadConstants DEF Replace, Relink, SharedTyped, session
  <2> QED BY <1>2, <1>g, <2>1, StoredData, Zenon DEF Replace
<1>3. CASE Unlink
  <2>1. SharedTyped'
    BY <1>3, <1>a, <1>c, Zenon DEF Unlink, Relink, SharedTyped, session
  <2> QED BY <1>3, <1>g, <2>1, Zenon DEF Unlink
<1>4. CASE Fill
  <2> DEFINE data == Stored(writer.version)
  <2>1. writer # None /\ writer.step = "fill" /\ writer.version \in Versions /\ object \in Data
    BY <1>4, <1>a, Zenon DEF Fill, SharedTyped
  <2>2. data \in Data /\ Len(data) \in Nat /\ Len(object) \in Nat
    BY <2>1, StoredData, LenProperties, Zenon DEF Data
  <2> HIDE DEF data
  <2>3. CASE Len(object) < Len(data)
    <3>1. object' = Append(object, data[Len(object) + 1]) /\ writer' = writer
      BY <1>4, <2>3, Zenon DEF Fill, data
    <3>2. Len(object) + 1 \in 1 .. Len(data)
      BY <2>2, <2>3
    <3>3. object' \in Data /\ object' # None
      <4>1. data[Len(object) + 1] \in Block
        BY <2>2, <3>2, ElementOfSeq, Zenon DEF Data
      <4>2. object' \in Data
        BY <2>1, <3>1, <4>1, AppendProperties, Zenon DEF Data
      <4> QED BY <4>2, DownloadConstants, Zenon
    <3>4. SharedTyped'
      BY <1>4, <3>1, <3>3, <1>a, <1>c, Zenon DEF Fill, SharedTyped, session
    <3> QED BY <1>4, <1>e, <3>3, <3>4, Zenon DEF Fill
  <2>4. CASE ~(Len(object) < Len(data))
    <3>1. object' = object /\ writer' = [writer EXCEPT !.step = "row"]
      BY <1>4, <2>4, Zenon DEF Fill, data
    <3>2. SharedTyped'
      BY <1>4, <2>1, <3>1, <1>a, <1>c, Zenon DEF Fill, SharedTyped, session
    <3> QED BY <1>4, <1>e, <3>1, <3>2, Zenon DEF Fill
  <2> QED BY <2>3, <2>4, Zenon
<1>5. CASE FillFails \/ WriteRow
  <2>1. SharedTyped' /\ UNCHANGED object
    BY <1>5, <1>a, <1>c, Zenon DEF FillFails, WriteRow, SharedTyped, session
  <2> QED BY <1>5, <1>e, <2>1, Zenon DEF FillFails, WriteRow
<1>6. ASSUME NEW g \in Goroutines, Work(g) PROVE TypeInv'
  BY <1>0, <1>6, <1>d, WorkTypes, Zenon
<1>7. ASSUME NEW g \in Goroutines, NEW i \in Instances, NEW x \in Request, Begin(g, i, x) PROVE TypeInv'
  <2> DEFINE label == IF x.kind \in {"range", "grpc"} THEN x.kind ELSE IF Encrypted THEN "temp" ELSE "open"
  <2>1. label \in Label /\ Arrive(g, i, x, label) /\ g \in Requests /\ pc[g] \in {"idle", "ok"}
        /\ x.kind \in {"whole", "stream", "range", "grpc"} /\ (x.kind \in {"whole", "stream"} => x.from = 0)
    BY <1>7, Zenon DEF Begin, Label, Finished
  <2>2. SharedTyped' /\ UNCHANGED object
    BY <1>7, <1>a, <1>c DEF Begin, objects, session, SharedTyped
  <2>3. file[g] # Linked
    BY <1>b, <2>1, Zenon DEF Local
  <2>4. /\ LocalsTyped' /\ OnlyLocalsOf(g) /\ got'[g] = <<>>
        /\ \/ pc'[g] = "idle" /\ file'[g] = None /\ req'[g] = NoRequest
           \/ pc'[g] = label /\ file'[g] = file[g] /\ req'[g] = x /\ at'[g] = i
    BY <1>0, <1>a, <2>1, ArriveEffect DEF SharedTyped
  <2>5. Local(g)'
    BY <1>c, <2>1, <2>3, <2>4, DownloadConstants, Zenon DEF Local
  <2> QED BY <1>f, <2>2, <2>4, <2>5, Zenon
<1>8. ASSUME NEW g \in Goroutines, NEW i \in Instances, CreateSession(g, i) PROVE TypeInv'
  <2> DEFINE label == IF Encrypted THEN "temp" ELSE "keep"
             x == [NoRequest EXCEPT !.kind = "create"]
  <2>1. label \in Label /\ Arrive(g, i, x, label) /\ g \in Requests /\ pc[g] \in {"idle", "ok"}
        /\ x.kind = "create" /\ x.from = 0 /\ x \in Request
    BY <1>8, ConstantTypes, Zenon DEF CreateSession, Label, Finished, NoRequest
  <2>2. SharedTyped' /\ UNCHANGED object
    BY <1>8, <1>a, <1>c, Zenon DEF CreateSession, objects, SharedTyped
  <2>3. file[g] # Linked
    BY <1>b, <2>1, Zenon DEF Local
  <2>4. /\ LocalsTyped' /\ OnlyLocalsOf(g) /\ got'[g] = <<>>
        /\ \/ pc'[g] = "idle" /\ file'[g] = None /\ req'[g] = NoRequest
           \/ pc'[g] = label /\ file'[g] = file[g] /\ req'[g] = x /\ at'[g] = i
    BY <1>0, <1>a, <2>1, ArriveEffect DEF SharedTyped
  <2>5. Local(g)'
    BY <1>c, <2>1, <2>3, <2>4, DownloadConstants, Zenon DEF Local
  <2> QED BY <1>f, <2>2, <2>4, <2>5, Zenon
<1>9. ASSUME NEW g \in Goroutines, NEW i \in Instances, EndSession(g, i) PROVE TypeInv'
  <2> DEFINE x == [NoRequest EXCEPT !.kind = IF g \in Requests THEN "end" ELSE "expire"]
  <2>1. x \in Request /\ mem[i].dec \in Data \cup {None} /\ mem[i].dec # Linked
    BY <1>9, <1>a, ConstantTypes, DownloadConstants, Zenon DEF EndSession, SharedTyped
  <2> HIDE DEF x
  <2>2. /\ at' = [at EXCEPT ![g] = i] /\ req' = [req EXCEPT ![g] = x]
        /\ file' = [file EXCEPT ![g] = mem[i].dec] /\ got' = [got EXCEPT ![g] = <<>>]
        /\ pc' = [pc EXCEPT ![g] = "close"] /\ UNCHANGED size
    BY <1>9, Zenon DEF EndSession, Goto, x
  <2>3. LocalsTyped' /\ OnlyLocalsOf(g)
    BY <1>a, <1>c, <2>1, <2>2, ConstantTypes, Zenon DEF LocalsTyped, OnlyLocalsOf, Label
  <2>4. Local(g)'
    BY <1>a, <1>c, <2>1, <2>2, Zenon DEF Local, LocalsTyped
  <2>5. SharedTyped' /\ UNCHANGED object
    BY <1>9, <1>a, <1>c DEF EndSession, objects, session, SharedTyped
  <2> QED BY <1>f, <2>3, <2>4, <2>5, Zenon
<1>10. ASSUME NEW g \in Goroutines, NEW i \in Instances, NEW from \in 0 .. MaxBlock, BeginChunk(g, i, from)
       PROVE TypeInv'
  <2> DEFINE x == [kind |-> "chunk", from |-> from, count |-> 1]
  <2>1. x \in Request /\ x.kind = "chunk" /\ file[g] # Linked
    BY <1>10, <1>b, ConstantTypes, Zenon DEF BeginChunk, Finished, Local
  <2> HIDE DEF x
  <2>2. at' = [at EXCEPT ![g] = i] /\ req' = [req EXCEPT ![g] = x] /\ got' = [got EXCEPT ![g] = <<>>]
    BY <1>10, Zenon DEF BeginChunk, x
  <2>3. \/ /\ mem[i] # None /\ file' = [file EXCEPT ![g] = mem[i].dec]
           /\ size' = [size EXCEPT ![g] = mem[i].size] /\ pc' = [pc EXCEPT ![g] = "chunk"]
        \/ pc' = [pc EXCEPT ![g] = "restore"] /\ UNCHANGED <<file, size>>
    BY <1>10, Zenon DEF BeginChunk, Goto
  <2>4. mem[i] # None => mem[i].dec \in Data \cup {None} /\ mem[i].dec # Linked /\ mem[i].size \in Nat
    BY <1>a, DownloadConstants DEF SharedTyped
  <2>5. LocalsTyped' /\ OnlyLocalsOf(g)
    BY <1>a, <1>c, <2>1, <2>2, <2>3, <2>4, ConstantTypes, ZenonT(30) DEF LocalsTyped, OnlyLocalsOf, Label
  <2>6. Local(g)'
    BY <1>a, <1>c, <2>1, <2>2, <2>3, <2>4, Zenon DEF Local, LocalsTyped
  <2>7. SharedTyped' /\ UNCHANGED object
    BY <1>10, <1>a, <1>c DEF BeginChunk, objects, session, SharedTyped
  <2> QED BY <1>f, <2>5, <2>6, <2>7, Zenon
<1>11. CASE Age \/ ExpireEntry
  <2>1. SharedTyped' /\ UNCHANGED object
    BY <1>11, <1>a, <1>c, Zenon DEF Age, ExpireEntry, objects, SharedTyped
  <2> QED BY <1>11, <1>e, <2>1, Zenon DEF Age, ExpireEntry
<1>12. ASSUME NEW i \in Instances, Restart(i) PROVE TypeInv'
  <2>1. SharedTyped' /\ UNCHANGED object
    <3> DEFINE Temp == Instances \X (Requests \cup {"session", "crashed"}) \X {"enc", "dec"}
    <3>1. temp' \subseteq Temp
      <4>1. temp \subseteq Temp
        BY <1>a, Zenon DEF SharedTyped
      <4>2. \A t \in temp : <<i, "crashed", t[3]>> \in Temp
        BY <4>1
      <4>3. \A t \in temp' : t \in temp \/ \E u \in temp : t = <<i, "crashed", u[3]>>
        BY <1>12, Zenon DEF Restart
      <4> HIDE DEF Temp
      <4> QED BY <4>1, <4>2, <4>3, Zenon
    <3> QED BY <1>12, <1>a, <1>c, <3>1, Zenon DEF Restart, objects, SharedTyped
  <2>2. LocalsTyped'
    BY <1>12, <1>a, <1>c, ConstantTypes, Zenon DEF Restart, LocalsTyped, Label
  <2>3. \A h \in Goroutines : Local(h)'
    <3> SUFFICES ASSUME NEW h \in Goroutines PROVE Local(h)'
      BY Zenon
    <3>1. CASE at[h] = i
      <4>1. pc'[h] = "idle" /\ file'[h] = None
        BY <1>12, <3>1, Zenon DEF Restart
      <4> QED BY <4>1, DownloadConstants, Zenon DEF Local
    <3>2. CASE at[h] # i
      <4>1. pc'[h] = pc[h] /\ file'[h] = file[h] /\ at'[h] = at[h] /\ req'[h] = req[h] /\ got'[h] = got[h]
        BY <1>12, <3>2, Zenon DEF Restart
      <4> QED BY <1>b, <1>c, <2>1, <4>1 DEF Local
    <3> QED BY <3>1, <3>2, Zenon
  <2> QED BY <1>d, <2>1, <2>2, <2>3, Zenon
<1>13. CASE UNCHANGED vars
  <2>1. SharedTyped' /\ UNCHANGED <<object, pc, locals>>
    BY <1>13, <1>a, <1>c DEF vars, locals, SharedTyped
  <2> QED BY <1>e, <2>1, Zenon
<1> QED
  BY <1>1, <1>2, <1>3, <1>4, <1>5, <1>6, <1>7, <1>8, <1>9, <1>10, <1>11, <1>12, <1>13, Zenon DEF Next, Write

-----------------------------------------------------------------------------
(* What was read of a file are its blocks from the offset on. *)
Placed(g) == InPlace(got[g], req[g].from)

(* Every content anywhere has its blocks in their places. *)
GapInv ==
  /\ object # None => Numbered(object)
  /\ \A g \in Goroutines : Placed(g) /\ (file[g] \in Data => Numbered(file[g]))
  /\ \A i \in Instances : mem[i] # None => (mem[i].dec # None => Numbered(mem[i].dec))

(***************************************************************************)
(* The steps of a goroutine keep blocks in their places.                   *)
(***************************************************************************)
LEMMA WorkGaps ==
  ASSUME TypeInv, GapInv, setting' = setting, NEW g \in Goroutines, Work(g)
  PROVE  GapInv'
<1>a. LocalsTyped /\ SharedTyped /\ Local(g)
  BY Zenon DEF TypeInv, TypeOK, LocalsTyped, SharedTyped
<1>b. Goroutines' = Goroutines /\ Instances' = Instances
  BY Zenon DEF Goroutines, Instances, Requests
<1>c. /\ Linked \notin Data /\ None \notin Data
      /\ got[g] \in Data /\ Len(got[g]) \in Nat /\ req[g].from \in Nat /\ req[g].count \in Nat
  BY <1>a, ConstantTypes, DownloadConstants, LenProperties, Zenon DEF LocalsTyped, Data
<1>d. ASSUME OnlyLocalsOf(g), UNCHANGED <<object, mem>>, Placed(g)', file'[g] \in Data => Numbered(file'[g])
      PROVE  GapInv'
  <2>1. \A h \in Goroutines : Placed(h)' /\ (file'[h] \in Data => Numbered(file'[h]))
    BY <1>d, Zenon DEF OnlyLocalsOf, Placed, GapInv
  <2> QED BY <1>b, <1>d, <2>1, Zenon DEF GapInv
<1>e. ASSUME Leave(g) \/ Done(g), UNCHANGED <<object, mem>> PROVE GapInv'
  <2>1. OnlyLocalsOf(g) /\ file'[g] = None
    BY <1>a, <1>e, LeaveEffect, DoneEffect, Zenon
  <2>2. Placed(g)'
    <3>1. CASE Leave(g)
      BY <3>1, <1>a, LeaveEffect, EmptyInPlace DEF Placed
    <3>2. CASE Done(g)
      BY <3>2, <1>a, DoneEffect, Zenon DEF Placed, GapInv
    <3> QED BY <1>e, <3>1, <3>2, Zenon
  <2> QED BY <1>c, <1>d, <1>e, <2>1, <2>2, Zenon
<1>f. ASSUME NEW data \in Data, Numbered(data), got' = [got EXCEPT ![g] = Blocks(data, req[g].from, req[g].count)],
             UNCHANGED req
      PROVE  Placed(g)'
  BY <1>a, <1>c, <1>f, BlocksData, Zenon DEF Placed, LocalsTyped
<1>1. CASE CreateTemp(g)
  <2>1. UNCHANGED <<object, mem>>
    BY <1>1, Zenon DEF CreateTemp, objects, session
  <2>2. CASE Goto(g, "open") /\ UNCHANGED locals
    BY <1>d, <2>1, <2>2, <1>a, Zenon DEF Goto, locals, OnlyLocalsOf, Placed, GapInv, LocalsTyped
  <2> QED BY <1>1, <1>e, <2>1, <2>2, Zenon DEF CreateTemp
<1>2. CASE Open(g)
  <2>1. UNCHANGED <<object, mem>>
    BY <1>2, Zenon DEF Open, objects, session
  <2>2. CASE object # None
    <3>1. OnlyLocalsOf(g) /\ file'[g] = Linked /\ UNCHANGED <<req, got>>
      BY <1>2, <2>2, <1>a DEF Open, Goto, OnlyLocalsOf, LocalsTyped
    <3> QED BY <1>c, <1>d, <2>1, <3>1, Zenon DEF Placed, GapInv
  <2> QED BY <1>2, <1>e, <2>1, <2>2, Zenon DEF Open
<1>3. CASE ReadBlock(g)
  <2>1. UNCHANGED <<object, mem>>
    BY <1>3, Zenon DEF ReadBlock, objects, session
  <2>2. CASE /\ ~AtEnd(g) /\ got' = [got EXCEPT ![g] = Append(@, Opened(g)[Len(@) + 1])]
             /\ UNCHANGED <<setting, pc, at, req, size, file>>
    <3>1. Opened(g) \in Data /\ Numbered(Opened(g)) /\ req[g].from = 0
      BY <1>3, <1>a, Zenon DEF ReadBlock, Opened, Local, LocalsTyped, SharedTyped, GapInv
    <3>2. Len(Opened(g)) \in Nat
      BY <3>1, LenProperties, Zenon DEF Data
    <3>3. Len(got[g]) < Len(Opened(g))
      BY <2>2, <3>2, <1>c DEF AtEnd
    <3>4. got'[g] = Append(got[g], Opened(g)[Len(got[g]) + 1])
      BY <2>2, <1>a, Zenon DEF LocalsTyped
    <3>5. InPlace(got[g], req[g].from)
      BY Zenon DEF GapInv, Placed
    <3>6. InPlace(got'[g], req[g].from)
      BY <1>c, <3>1, <3>3, <3>4, <3>5, AppendInPlace
    <3>7. Placed(g)'
      BY <2>2, <3>6, Zenon DEF Placed
    <3>8. file'[g] \in Data => Numbered(file'[g])
      BY <2>2, Zenon DEF GapInv
    <3>9. OnlyLocalsOf(g)
      BY <2>2, <1>a, Zenon DEF OnlyLocalsOf, LocalsTyped
    <3> QED BY <1>d, <2>1, <3>7, <3>8, <3>9, Zenon
  <2>3. CASE Goto(g, "decrypt") /\ file' = [file EXCEPT ![g] = None] /\ UNCHANGED <<at, req, size, got>>
    <3>1. OnlyLocalsOf(g) /\ file'[g] = None
      BY <2>3, <1>a, Zenon DEF Goto, OnlyLocalsOf, LocalsTyped
    <3> QED BY <1>c, <1>d, <2>1, <2>3, <3>1, Zenon DEF Placed, GapInv
  <2> QED BY <1>3, <1>e, <2>1, <2>2, <2>3, Zenon DEF ReadBlock
<1>4. CASE CopyFails(g) \/ Serve(g) \/ Persist(g) \/ ForgetStale(g) \/ UnstoreSession(g)
  BY <1>4, <1>e, Zenon DEF CopyFails, Serve, Persist, ForgetStale, UnstoreSession, objects, session
<1>5. CASE Decrypt(g)
  <2>1. UNCHANGED <<object, mem>>
    BY <1>5, Zenon DEF Decrypt, objects, session
  <2>2. ASSUME NEW data \in Decrypted(got[g]),
               got' = [got EXCEPT ![g] = data], size' = [size EXCEPT ![g] = Len(data)],
               Goto(g, IF req[g].kind = "create" THEN "keep" ELSE "serve"), UNCHANGED <<at, req, file>>
        PROVE  GapInv'
    <3>1. data \in Data /\ Numbered(data) /\ req[g].from = 0
      BY <1>5, <1>a, DecryptedData, PlainData DEF Decrypt, Local
    <3>2. OnlyLocalsOf(g) /\ got'[g] = data
      BY <2>2, <1>a, Zenon DEF Goto, OnlyLocalsOf, LocalsTyped
    <3>3. Placed(g)'
      BY <2>2, <3>1, <3>2, Zenon DEF Placed, Numbered
    <3> QED BY <1>d, <2>1, <2>2, <3>2, <3>3, Zenon DEF GapInv
  <2> QED BY <1>5, <1>e, <2>1, <2>2, Zenon DEF Decrypt
<1>6. CASE ReadRange(g)
  <2>1. UNCHANGED <<object, mem>>
    BY <1>6 DEF ReadRange, objects, session
  <2>2. CASE /\ object # None /\ Goto(g, "ok") /\ Forget(g) /\ UNCHANGED req
             /\ got' = [got EXCEPT ![g] = Blocks(object, req[g].from, req[g].count)]
    <3>1. Placed(g)'
      BY <2>2, <1>a, <1>f, Zenon DEF SharedTyped, GapInv
    <3>2. OnlyLocalsOf(g) /\ file'[g] = None
      BY <2>2, <1>a DEF Goto, Forget, OnlyLocalsOf, LocalsTyped
    <3> QED BY <1>c, <1>d, <2>1, <3>1, <3>2, Zenon
  <2> QED BY <1>6, <1>e, <2>1, <2>2, Zenon DEF ReadRange
<1>7. CASE SendChunk(g)
  <2>1. UNCHANGED <<object, mem>>
    BY <1>7, Zenon DEF SendChunk, objects, session
  <2> DEFINE offset == req[g].from + Len(got[g])
             data == Blocks(object, offset, Chunk)
  <2>2. CASE /\ object # None /\ got' = [got EXCEPT ![g] = @ \o data]
             /\ UNCHANGED <<setting, pc, at, req, size, file>>
    <3>1. offset \in Nat /\ object \in Data /\ Numbered(object)
      BY <1>a, <1>c, <2>2 DEF SharedTyped, GapInv
    <3>2. data \in Data /\ InPlace(data, offset)
      BY <3>1, ConstantTypes, BlocksData
    <3>3. got'[g] = got[g] \o data
      BY <2>2, <1>a, Zenon DEF LocalsTyped
    <3> HIDE DEF data
    <3>4. InPlace(got[g], req[g].from)
      BY DEF GapInv, Placed
    <3>5. InPlace(got'[g], req[g].from)
      BY <1>c, <3>2, <3>3, <3>4, ConcatInPlace, Zenon
    <3>6. Placed(g)'
      BY <2>2, <3>5, Zenon DEF Placed
    <3>7. file'[g] \in Data => Numbered(file'[g])
      BY <2>2, Zenon DEF GapInv
    <3>8. OnlyLocalsOf(g)
      BY <2>2, <1>a, Zenon DEF OnlyLocalsOf, LocalsTyped
    <3> QED BY <1>d, <2>1, <3>6, <3>7, <3>8
  <2> QED BY <1>7, <1>e, <2>1, <2>2, Zenon DEF SendChunk
<1>8. CASE KeepSession(g)
  <2>1. Numbered(got[g])
    BY <1>8, <1>a, Zenon DEF KeepSession, Local, GapInv, Placed, Numbered
  <2>2. \A i \in Instances : mem'[i] # None => (mem'[i].dec # None => Numbered(mem'[i].dec))
    BY <1>8, <2>1, <1>a, Zenon DEF KeepSession, NewSession, SharedTyped, GapInv
  <2>3. UNCHANGED <<object, req, file, got>>
    BY <1>8, Zenon DEF KeepSession, objects, locals
  <2> QED BY <1>b, <2>2, <2>3, Zenon DEF GapInv, Placed
<1>9. CASE RestoreSession(g)
  <2>1. UNCHANGED object
    BY <1>9, Zenon DEF RestoreSession, objects
  <2>2. CASE Leave(g) /\ UNCHANGED mem
    BY <1>e, <2>1, <2>2, Zenon
  <2>3. CASE Goto(g, "forget") /\ UNCHANGED <<locals, mem>>
    BY <1>b, <2>1, <2>3, Zenon DEF locals, GapInv, Placed
  <2>4. CASE mem' = [mem EXCEPT ![at[g]] = NewSession(None, store.size)] /\ UNCHANGED <<at, req, file, got>>
    <3>1. \A i \in Instances : mem'[i] # None => (mem'[i].dec # None => Numbered(mem'[i].dec))
      BY <2>4, <1>a, Zenon DEF NewSession, SharedTyped, GapInv
    <3> QED BY <1>b, <2>1, <2>4, <3>1, Zenon DEF GapInv, Placed
  <2> QED BY <1>9, <2>2, <2>3, <2>4, Zenon DEF RestoreSession
<1>10. CASE ReadChunk(g)
  <2>1. UNCHANGED <<object, mem>>
    BY <1>10 DEF ReadChunk, objects, session
  <2> DEFINE data == IF file[g] # None THEN file[g] ELSE object
  <2>2. CASE /\ IF file[g] # None THEN ~closed ELSE object # None
             /\ got' = [got EXCEPT ![g] = Blocks(data, req[g].from, req[g].count)]
             /\ \/ Goto(g, "ok") /\ Forget(g) /\ UNCHANGED req
                \/ Goto(g, "persist") /\ file' = [file EXCEPT ![g] = None] /\ UNCHANGED <<at, req, size>>
    <3>1. data \in Data /\ Numbered(data)
      BY <1>10, <2>2, <1>a, Zenon DEF LocalsTyped, SharedTyped, Local, ReadChunk, GapInv
    <3> HIDE DEF data
    <3>2. Placed(g)'
      BY <2>2, <3>1, <1>f, Zenon
    <3>3. OnlyLocalsOf(g) /\ file'[g] = None
      BY <2>2, <1>a DEF Goto, Forget, OnlyLocalsOf, LocalsTyped
    <3> QED BY <1>c, <1>d, <2>1, <3>2, <3>3
  <2> QED BY <1>10, <1>e, <2>1, <2>2, Zenon DEF ReadChunk
<1>11. CASE CloseSession(g)
  <2>1. OnlyLocalsOf(g) /\ file'[g] = None /\ UNCHANGED <<object, mem, req, got>>
    BY <1>11, <1>a, Zenon DEF CloseSession, Goto, objects, OnlyLocalsOf, LocalsTyped
  <2> QED BY <1>c, <1>d, <2>1, Zenon DEF Placed, GapInv
<1>12. CASE DropSession(g)
  <2>1. UNCHANGED <<object, req, file, got>>
    BY <1>12 DEF DropSession, objects, locals
  <2>2. \A i \in Instances : mem'[i] # None => mem'[i] = mem[i]
    BY <1>12, <1>a DEF DropSession, SharedTyped
  <2> QED BY <1>b, <2>1, <2>2, Zenon DEF GapInv, Placed
<1> QED
  BY <1>1, <1>2, <1>3, <1>4, <1>5, <1>6, <1>7, <1>8, <1>9, <1>10, <1>11, <1>12, Zenon DEF Work

LEMMA GapStep == TypeInv /\ GapInv /\ [Next]_vars => GapInv'
<1> SUFFICES ASSUME TypeInv, GapInv, [Next]_vars PROVE GapInv'
  BY Zenon
<1>0. setting' = setting
  BY SettingFixed, Zenon
<1>a. LocalsTyped /\ SharedTyped
  BY Zenon DEF TypeInv, TypeOK, LocalsTyped, SharedTyped
<1>b. Goroutines' = Goroutines /\ Instances' = Instances /\ Requests \subseteq Goroutines
  BY <1>0, Zenon DEF Goroutines, Instances, Requests
<1>c. None \notin Data /\ Numbered(<<>>)
  BY DownloadConstants, EmptyInPlace, Zenon DEF Numbered
<1>d. ASSUME UNCHANGED <<req, got, file, mem>>, object' # None => Numbered(object') PROVE GapInv'
  BY <1>b, <1>d, Zenon DEF GapInv, Placed
<1>e. ASSUME NEW g \in Goroutines, OnlyLocalsOf(g), UNCHANGED <<object, mem>>,
             got'[g] = <<>>, file'[g] \in Data => Numbered(file'[g])
      PROVE  GapInv'
  <2>1. \A h \in Goroutines : Placed(h)' /\ (file'[h] \in Data => Numbered(file'[h]))
    BY <1>e, EmptyInPlace, Zenon DEF OnlyLocalsOf, Placed, GapInv
  <2> QED BY <1>b, <1>e, <2>1 DEF GapInv
<1>f. ASSUME NEW new, new # None => Numbered(new), Relink(new), UNCHANGED <<req, got, mem>> PROVE GapInv'
  BY <1>b, <1>c, <1>f, Zenon DEF Relink, GapInv, Placed
<1>1. CASE UNCHANGED vars
  BY <1>1, <1>d DEF vars, GapInv
<1>2. ASSUME NEW v \in Versions, Truncate(v) PROVE GapInv'
  BY <1>2, <1>c, <1>d, Zenon DEF Truncate, locals, session
<1>3. ASSUME NEW v \in Versions, Replace(v) PROVE GapInv'
  BY <1>3, <1>f, StoredData, Zenon DEF Replace, session
<1>4. CASE Unlink
  BY <1>4, <1>f, Zenon DEF Unlink, session
<1>5. CASE Fill
  <2>1. UNCHANGED <<req, got, file, mem>>
    BY <1>5, Zenon DEF Fill, locals, session
  <2> DEFINE data == Stored(writer.version)
             n == Len(object)
  <2>2. CASE UNCHANGED object
    BY <1>d, <2>1, <2>2, Zenon DEF GapInv
  <2>3. CASE n < Len(data) /\ object' = Append(object, data[n + 1])
    <3>1. writer.version \in Versions /\ object \in Data /\ object # None
      BY <1>5, <1>a, Zenon DEF Fill, TypeInv, SharedTyped
    <3>2. data \in Data /\ Len(data) \in Nat /\ Numbered(data)
      BY <3>1, StoredData, Zenon
    <3> HIDE DEF data
    <3>3. InPlace(object, 0)
      BY <3>1, Zenon DEF GapInv, Numbered
    <3>4. Numbered(object')
      BY <2>3, <3>1, <3>2, <3>3, AppendInPlace, Zenon DEF Numbered
    <3> QED BY <1>d, <2>1, <3>4, Zenon
  <2> QED BY <1>5, <2>2, <2>3, Zenon DEF Fill
<1>6. CASE FillFails \/ WriteRow \/ Age \/ ExpireEntry
  BY <1>6, <1>d, Zenon DEF FillFails, WriteRow, Age, ExpireEntry, objects, locals, session, GapInv
<1>7. ASSUME NEW g \in Goroutines, Work(g) PROVE GapInv'
  BY <1>0, <1>7, WorkGaps, Zenon
<1>8. ASSUME NEW g \in Goroutines, NEW i \in Instances, NEW x \in Request, NEW label \in Label,
             Arrive(g, i, x, label), UNCHANGED <<object, mem>>
      PROVE  GapInv'
  <2>1. OnlyLocalsOf(g) /\ got'[g] = <<>> /\ file'[g] \in {None, file[g]}
    BY <1>8, <1>0, <1>a, ArriveEffect, Zenon DEF SharedTyped
  <2> QED BY <1>c, <1>e, <1>8, <2>1, Zenon DEF GapInv
<1>9. ASSUME NEW g \in Goroutines, NEW i \in Instances, NEW x \in Request, Begin(g, i, x) PROVE GapInv'
  <2>1. UNCHANGED <<object, mem>>
    BY <1>9, Zenon DEF Begin, objects, session
  <2>2. (IF x.kind \in {"range", "grpc"} THEN x.kind ELSE IF Encrypted THEN "temp" ELSE "open") \in Label
    BY Zenon DEF Label
  <2> QED BY <1>8, <1>9, <2>1, <2>2, Zenon DEF Begin
<1>10. ASSUME NEW g \in Goroutines, NEW i \in Instances, CreateSession(g, i) PROVE GapInv'
  <2>1. UNCHANGED <<object, mem>>
    BY <1>10, Zenon DEF CreateSession, objects
  <2>2. (IF Encrypted THEN "temp" ELSE "keep") \in Label /\ [NoRequest EXCEPT !.kind = "create"] \in Request
    BY ConstantTypes, Zenon DEF Label
  <2> QED BY <1>8, <1>10, <2>1, <2>2, Zenon DEF CreateSession
<1>11. ASSUME NEW g \in Goroutines, NEW i \in Instances, EndSession(g, i) PROVE GapInv'
  <2>1. OnlyLocalsOf(g) /\ got'[g] = <<>> /\ file'[g] = mem[i].dec /\ mem[i] # None /\ UNCHANGED <<object, mem>>
    BY <1>11, <1>a, Zenon DEF EndSession, Goto, OnlyLocalsOf, LocalsTyped, objects, session
  <2> QED BY <1>c, <1>e, <2>1, Zenon DEF GapInv
<1>12. ASSUME NEW g \in Goroutines, NEW i \in Instances, NEW from \in 0 .. MaxBlock, BeginChunk(g, i, from)
       PROVE  GapInv'
  <2>1. /\ OnlyLocalsOf(g) /\ got'[g] = <<>> /\ UNCHANGED <<object, mem>>
        /\ \/ file'[g] = mem[i].dec /\ mem[i] # None
           \/ file'[g] = file[g]
    BY <1>12, <1>a DEF BeginChunk, Goto, OnlyLocalsOf, LocalsTyped, objects, session
  <2> QED BY <1>c, <1>e, <2>1 DEF GapInv
<1>13. ASSUME NEW i \in Instances, Restart(i) PROVE GapInv'
  <2>1. UNCHANGED object /\ \A j \in Instances : mem'[j] \in {None, mem[j]}
    BY <1>13, <1>a, Zenon DEF Restart, SharedTyped, objects
  <2>2. \A h \in Goroutines :
          \/ file'[h] = None /\ got'[h] = <<>>
          \/ file'[h] = file[h] /\ got'[h] = got[h] /\ req'[h] = req[h]
    BY <1>13, Zenon DEF Restart
  <2>3. \A h \in Goroutines : Placed(h)' /\ (file'[h] \in Data => Numbered(file'[h]))
    BY <1>c, <2>2, EmptyInPlace DEF Placed, GapInv
  <2> QED BY <1>b, <2>1, <2>3, Zenon DEF GapInv
<1> QED
  BY <1>1, <1>2, <1>3, <1>4, <1>5, <1>6, <1>7, <1>9, <1>10, <1>11, <1>12, <1>13, Zenon DEF Next, Write

-----------------------------------------------------------------------------
IsPlain(data) == \E v \in Versions : data = Plain(v)

(* Without encryption, no writer works inside a file. *)
Atomic == ~Encrypted /\ "inplace" \notin Writes

(* With encryption, what is served has passed Decrypt. *)
Sealed(g) == pc[g] = "serve" \/ Answered(g, {"whole", "stream"}) => IsPlain(got[g])

(* Without, it is the open file, which is one version, up to its end. *)
Whole(g) ==
  /\ pc[g] = "read" =>
       /\ IsPlain(Opened(g)) /\ Begins(got[g], Opened(g))
       /\ req[g].kind = "stream" => size[g] = Len(Opened(g))
  /\ Answered(g, {"whole", "stream"}) => IsPlain(got[g])

Intact(g) == (Encrypted => Sealed(g)) /\ (Atomic => Whole(g))

IntactInv ==
  /\ \A g \in Goroutines : Intact(g)
  /\ Atomic => (writer # None => writer.step # "fill") /\ (object # None => IsPlain(object))

(* A goroutine that neither reads a whole file nor has served one. *)
Elsewhere(g) == pc[g] \notin {"read", "serve"} /\ ~Answered(g, {"whole", "stream"})

(***************************************************************************)
(* The steps on ranges, streams of chunks and sessions stay elsewhere.     *)
(***************************************************************************)
LEMMA QuietSteps ==
  ASSUME TypeInv, setting' = setting, NEW g \in Goroutines, Work(g),
         pc[g] \notin {"open", "read", "decrypt", "serve"}
  PROVE  OnlyLocalsOf(g) /\ Elsewhere(g)' /\ UNCHANGED <<object, writer>>
<1>a. LocalsTyped /\ Local(g)
  BY Zenon DEF TypeInv, TypeOK, LocalsTyped
<1>b. ASSUME Leave(g) PROVE OnlyLocalsOf(g) /\ Elsewhere(g)'
  BY <1>a, <1>b, LeaveEffect, Zenon DEF Elsewhere, Answered
<1>c. ASSUME Done(g), req[g].kind \notin {"whole", "stream"} PROVE OnlyLocalsOf(g) /\ Elsewhere(g)'
  BY <1>a, <1>c, DoneEffect, Zenon DEF Elsewhere, Answered
<1>d. ASSUME NEW label, Goto(g, label), label \notin {"read", "serve", "ok"}, OnlyLocalsOf(g)
      PROVE  Elsewhere(g)'
  BY <1>a, <1>d, Zenon DEF Goto, Elsewhere, Answered, LocalsTyped
<1>1. CASE CreateTemp(g)
  <2>1. UNCHANGED <<object, writer>>
    BY <1>1, Zenon DEF CreateTemp, objects
  <2>2. CASE Goto(g, "open") /\ UNCHANGED locals
    <3>1. OnlyLocalsOf(g)
      BY <2>2, <1>a, Zenon DEF Goto, locals, OnlyLocalsOf, LocalsTyped
    <3> QED BY <1>d, <2>1, <2>2, <3>1, Zenon
  <2> QED BY <1>1, <1>b, <2>1, <2>2, Zenon DEF CreateTemp
<1>2. CASE ReadRange(g)
  <2>1. UNCHANGED <<object, writer>>
    BY <1>2, Zenon DEF ReadRange, objects
  <2>2. CASE Goto(g, "ok") /\ Forget(g) /\ UNCHANGED req
             /\ got' = [got EXCEPT ![g] = Blocks(object, req[g].from, req[g].count)]
    <3>1. req[g].kind = "range"
      BY <1>2, <1>a, Zenon DEF ReadRange, Local
    <3> QED BY <2>1, <2>2, <3>1, <1>a, Zenon DEF Goto, Forget, OnlyLocalsOf, LocalsTyped, Elsewhere, Answered
  <2> QED BY <1>2, <1>b, <2>1, <2>2, Zenon DEF ReadRange
<1>3. CASE SendChunk(g)
  <2>1. UNCHANGED <<object, writer>> /\ pc[g] = "grpc" /\ req[g].kind = "grpc"
    BY <1>3, <1>a, Zenon DEF SendChunk, objects, Local
  <2>2. CASE UNCHANGED <<setting, pc, at, req, size, file>>
             /\ got' = [got EXCEPT ![g] = @ \o Blocks(object, req[g].from + Len(got[g]), Chunk)]
    BY <2>1, <2>2, <1>a, Zenon DEF OnlyLocalsOf, LocalsTyped, Elsewhere, Answered
  <2> QED BY <1>3, <1>b, <1>c, <2>1, <2>2, Zenon DEF SendChunk
<1>4. CASE KeepSession(g)
  <2>1. UNCHANGED <<object, writer>> /\ OnlyLocalsOf(g)
    BY <1>4, <1>a, Zenon DEF KeepSession, Goto, objects, locals, OnlyLocalsOf, LocalsTyped
  <2> QED BY <1>4, <1>d, <2>1, Zenon DEF KeepSession
<1>5. CASE Persist(g)
  BY <1>5, <1>b, <1>c, Zenon DEF Persist, objects
<1>6. CASE RestoreSession(g)
  <2>1. UNCHANGED <<object, writer>>
    BY <1>6, Zenon DEF RestoreSession, objects
  <2>2. CASE Goto(g, "forget") /\ UNCHANGED locals
    <3>1. OnlyLocalsOf(g)
      BY <2>2, <1>a, Zenon DEF Goto, locals, OnlyLocalsOf, LocalsTyped
    <3> QED BY <1>d, <2>1, <2>2, <3>1, Zenon
  <2>3. CASE Goto(g, "chunk") /\ size' = [size EXCEPT ![g] = store.size] /\ UNCHANGED <<at, req, file, got>>
    <3>1. OnlyLocalsOf(g)
      BY <2>3, <1>a, Zenon DEF Goto, OnlyLocalsOf, LocalsTyped
    <3> QED BY <1>d, <2>1, <2>3, <3>1, Zenon
  <2> QED BY <1>6, <1>b, <2>1, <2>2, <2>3 DEF RestoreSession
<1>7. CASE ForgetStale(g) \/ UnstoreSession(g)
  BY <1>7, <1>b, Zenon DEF ForgetStale, UnstoreSession, objects
<1>8. CASE ReadChunk(g)
  <2>1. UNCHANGED <<object, writer>> /\ req[g].kind = "chunk"
    BY <1>8, <1>a, Zenon DEF ReadChunk, objects, Local
  <2> DEFINE data == IF file[g] # None THEN file[g] ELSE object
  <2>2. CASE /\ got' = [got EXCEPT ![g] = Blocks(data, req[g].from, req[g].count)]
             /\ Goto(g, "ok") /\ Forget(g) /\ UNCHANGED req
    <3> HIDE DEF data
    <3> QED BY <2>1, <2>2, <1>a, Zenon DEF Goto, Forget, OnlyLocalsOf, LocalsTyped, Elsewhere, Answered
  <2>3. CASE /\ got' = [got EXCEPT ![g] = Blocks(data, req[g].from, req[g].count)]
             /\ Goto(g, "persist") /\ file' = [file EXCEPT ![g] = None] /\ UNCHANGED <<at, req, size>>
    <3> HIDE DEF data
    <3> QED BY <2>1, <2>3, <1>a, Zenon DEF Goto, OnlyLocalsOf, LocalsTyped, Elsewhere, Answered
  <2> QED BY <1>8, <1>b, <2>1, <2>2, <2>3, Zenon DEF ReadChunk
<1>9. CASE CloseSession(g)
  <2>1. UNCHANGED <<object, writer>> /\ OnlyLocalsOf(g)
    BY <1>9, <1>a, Zenon DEF CloseSession, Goto, objects, OnlyLocalsOf, LocalsTyped
  <2> QED BY <1>9, <1>d, <2>1, Zenon DEF CloseSession
<1>10. CASE DropSession(g)
  <2>1. UNCHANGED <<object, writer>> /\ OnlyLocalsOf(g)
    BY <1>10, <1>a, Zenon DEF DropSession, Goto, objects, locals, OnlyLocalsOf, LocalsTyped
  <2> QED BY <1>10, <1>d, <2>1, Zenon DEF DropSession
<1> QED
  BY <1>1, <1>2, <1>3, <1>4, <1>5, <1>6, <1>7, <1>8, <1>9, <1>10, Zenon
     DEF Work, Open, ReadBlock, CopyFails, Decrypt, Serve

(***************************************************************************)
(* The steps that read a whole file serve one version.                     *)
(***************************************************************************)
LEMMA WorkIntact ==
  ASSUME TypeInv, IntactInv, setting' = setting, NEW g \in Goroutines, Work(g)
  PROVE  IntactInv'
<1>a. LocalsTyped /\ SharedTyped /\ Local(g) /\ Intact(g)
  BY Zenon DEF TypeInv, TypeOK, LocalsTyped, SharedTyped, IntactInv
<1>b. Goroutines' = Goroutines /\ (Encrypted <=> Encrypted') /\ (Atomic <=> Atomic')
  BY Zenon DEF Goroutines, Instances, Requests, Encrypted, Atomic, Writes
<1>c. Linked \notin Data /\ None \notin Data /\ got[g] \in Data /\ Len(got[g]) \in Nat
  BY <1>a, DownloadConstants, LenProperties, Zenon DEF LocalsTyped, Data
<1>d. ASSUME OnlyLocalsOf(g), UNCHANGED <<object, writer>>, Intact(g)' PROVE IntactInv'
  <2>1. ASSUME NEW h \in Goroutines \ {g} PROVE Intact(h)'
    <3>1. Intact(h)
      BY Zenon DEF IntactInv
    <3>2. /\ pc'[h] = pc[h] /\ req'[h] = req[h] /\ size'[h] = size[h] /\ got'[h] = got[h]
          /\ Opened(h)' = Opened(h)
      BY <1>d, Zenon DEF OnlyLocalsOf, Opened
    <3> QED BY <1>b, <3>1, <3>2, Zenon DEF Intact, Sealed, Whole, Answered, IsPlain
  <2> QED BY <1>b, <1>d, <2>1, Zenon DEF IntactInv, IsPlain
<1>e. ASSUME Leave(g), UNCHANGED <<object, writer>> PROVE IntactInv'
  <2>1. OnlyLocalsOf(g) /\ Elsewhere(g)'
    BY <1>a, <1>e, LeaveEffect, Zenon DEF Elsewhere, Answered
  <2> QED BY <1>d, <1>e, <2>1, Zenon DEF Elsewhere, Intact, Sealed, Whole
<1>1. CASE Open(g)
  <2>1. UNCHANGED <<object, writer>>
    BY <1>1, Zenon DEF Open, objects
  <2>2. CASE object # None
    <3>1. /\ OnlyLocalsOf(g) /\ file'[g] = Linked /\ pc'[g] = "read" /\ UNCHANGED <<req, got>>
          /\ req[g].kind = "stream" => size'[g] = Len(object)
      BY <1>1, <2>2, <1>a DEF Open, Goto, OnlyLocalsOf, LocalsTyped
    <3>2. Opened(g)' = object /\ object \in Data
      BY <2>1, <2>2, <3>1, <1>a, Zenon DEF Opened, SharedTyped
    <3>3. got'[g] = <<>>
      BY <1>1, <3>1, <1>a, Zenon DEF Open, Local
    <3>4. ~Answered(g, {"whole", "stream"})' /\ pc'[g] # "serve"
      BY <3>1, Zenon DEF Answered
    <3>5. Atomic => Whole(g)'
      <4>1. Begins(got'[g], Opened(g)') /\ req'[g].kind = req[g].kind
        BY <3>1, <3>2, <3>3, EmptyBegins
      <4>2. Atomic => IsPlain(Opened(g)')
        BY <2>2, <3>2, Zenon DEF IntactInv
      <4> QED BY <3>1, <3>2, <3>4, <4>1, <4>2, Zenon DEF Whole
    <3> QED BY <1>b, <1>d, <2>1, <3>1, <3>4, <3>5 DEF Intact, Sealed
  <2> QED BY <1>1, <1>e, <2>1, <2>2, Zenon DEF Open
<1>2. CASE ReadBlock(g)
  <2>1. UNCHANGED <<object, writer>> /\ pc[g] = "read"
    BY <1>2, Zenon DEF ReadBlock, objects
  <2>2. Opened(g) \in Data /\ Len(Opened(g)) \in Nat
    BY <2>1, <1>a, LenProperties, Zenon DEF Opened, Local, LocalsTyped, SharedTyped, Data
  <2>3. CASE /\ ~AtEnd(g) /\ got' = [got EXCEPT ![g] = Append(@, Opened(g)[Len(@) + 1])]
             /\ UNCHANGED <<setting, pc, at, req, size, file>>
    <3>1. Len(got[g]) < Len(Opened(g))
      BY <2>2, <2>3, <1>c DEF AtEnd
    <3>2. got'[g] = Append(got[g], Opened(g)[Len(got[g]) + 1])
      BY <2>3, <1>a, Zenon DEF LocalsTyped
    <3>3. Opened(g)' = Opened(g) /\ ~Answered(g, {"whole", "stream"})' /\ pc'[g] = "read"
      BY <2>1, <2>3, Zenon DEF Opened, Answered
    <3>4. ASSUME Atomic PROVE Whole(g)'
      <4>1. /\ IsPlain(Opened(g)) /\ Begins(got[g], Opened(g))
            /\ req[g].kind = "stream" => size[g] = Len(Opened(g))
        BY <2>1, <3>4, <1>a, Zenon DEF Intact, Whole
      <4>2. Begins(got'[g], Opened(g))
        BY <2>2, <3>1, <3>2, <4>1, <1>c, AppendBegins, Zenon
      <4> QED BY <2>3, <3>3, <4>1, <4>2, Zenon DEF Whole
    <3>5. OnlyLocalsOf(g)
      BY <2>3, <1>a, Zenon DEF OnlyLocalsOf, LocalsTyped
    <3> QED BY <1>b, <1>d, <2>1, <3>3, <3>4, <3>5, Zenon DEF Intact, Sealed
  <2>4. CASE Goto(g, "decrypt") /\ file' = [file EXCEPT ![g] = None] /\ UNCHANGED <<at, req, size, got>>
    <3>1. OnlyLocalsOf(g) /\ pc'[g] = "decrypt"
      BY <2>4, <1>a, Zenon DEF Goto, OnlyLocalsOf, LocalsTyped
    <3> QED BY <1>d, <2>1, <3>1, Zenon DEF Intact, Sealed, Whole, Answered
  <2>5. CASE AtEnd(g) /\ ~Encrypted /\ Len(got[g]) = size[g] /\ Done(g)
    <3>1. OnlyLocalsOf(g) /\ pc'[g] = "ok" /\ got'[g] = got[g]
      BY <2>5, <1>a, DoneEffect, Zenon
    <3>2. ASSUME Atomic PROVE IsPlain(got[g])
      <4>1. /\ IsPlain(Opened(g)) /\ Begins(got[g], Opened(g))
            /\ req[g].kind = "stream" => size[g] = Len(Opened(g))
        BY <2>1, <3>2, <1>a DEF Intact, Whole
      <4>2. Len(got[g]) >= Len(Opened(g))
        BY <2>2, <2>5, <4>1, <1>c DEF AtEnd
      <4>3. got[g] = Opened(g)
        BY <2>2, <4>1, <4>2, <1>c, BeginsToEnd, Zenon
      <4> QED BY <4>1, <4>3
    <3> QED BY <1>b, <1>d, <2>1, <2>5, <3>1, <3>2, Zenon DEF Intact, Whole, IsPlain
  <2> QED BY <1>2, <1>e, <2>1, <2>3, <2>4, <2>5, Zenon DEF ReadBlock
<1>3. CASE CopyFails(g)
  BY <1>3, <1>e, Zenon DEF CopyFails, objects
<1>4. CASE Decrypt(g)
  <2>1. UNCHANGED <<object, writer>> /\ Encrypted
    BY <1>4, <1>a, Zenon DEF Decrypt, objects, Local
  <2>2. ASSUME NEW data \in Decrypted(got[g]), got' = [got EXCEPT ![g] = data],
               size' = [size EXCEPT ![g] = Len(data)],
               Goto(g, IF req[g].kind = "create" THEN "keep" ELSE "serve"), UNCHANGED <<at, req, file>>
        PROVE  IntactInv'
    <3>1. OnlyLocalsOf(g) /\ got'[g] = data /\ pc'[g] # "read"
      BY <2>2, <1>a, Zenon DEF Goto, OnlyLocalsOf, LocalsTyped
    <3>2. IsPlain(got[g])'
      BY <3>1, DecryptedData, Zenon DEF IsPlain
    <3> QED BY <1>d, <2>1, <3>1, <3>2, Zenon DEF Intact, Sealed, Whole
  <2> QED BY <1>4, <1>e, <2>1, <2>2, Zenon DEF Decrypt
<1>5. CASE Serve(g)
  <2>1. UNCHANGED <<object, writer>> /\ Encrypted /\ IsPlain(got[g])
    BY <1>5, <1>a, Zenon DEF Serve, objects, Local, Intact, Sealed
  <2>2. OnlyLocalsOf(g) /\ pc'[g] = "ok" /\ got'[g] = got[g]
    BY <1>5, <1>a, DoneEffect, Zenon DEF Serve
  <2>3. IsPlain(got[g])' /\ pc'[g] # "read"
    BY <2>1, <2>2, Zenon DEF IsPlain
  <2> QED BY <1>d, <2>1, <2>2, <2>3, Zenon DEF Intact, Sealed, Whole
<1>6. CASE pc[g] \notin {"open", "read", "decrypt", "serve"}
  <2>1. OnlyLocalsOf(g) /\ Elsewhere(g)' /\ UNCHANGED <<object, writer>>
    BY <1>6, QuietSteps
  <2> QED BY <1>d, <2>1, Zenon DEF Elsewhere, Intact, Sealed, Whole
<1> QED
  BY <1>1, <1>2, <1>3, <1>4, <1>5, <1>6, Zenon
     DEF Work, CreateTemp, ReadRange, SendChunk, KeepSession, Persist, RestoreSession, ForgetStale,
         ReadChunk, CloseSession, DropSession, UnstoreSession

LEMMA IntactStep == TypeInv /\ IntactInv /\ [Next]_vars => IntactInv'
<1> SUFFICES ASSUME TypeInv, IntactInv, [Next]_vars PROVE IntactInv'
  OBVIOUS
<1>0. setting' = setting
  BY SettingFixed
<1>a. LocalsTyped /\ SharedTyped /\ \A h \in Goroutines : Local(h) /\ Intact(h)
  BY Zenon DEF TypeInv, TypeOK, LocalsTyped, SharedTyped, IntactInv
<1>b. /\ Goroutines' = Goroutines /\ (Encrypted <=> Encrypted') /\ (Atomic <=> Atomic')
      /\ Requests \subseteq Goroutines
  BY <1>0, Zenon DEF Goroutines, Instances, Requests, Encrypted, Atomic, Writes
<1>c. ASSUME UNCHANGED <<pc, req, size, got>>, \A h \in Goroutines : Atomic /\ pc[h] = "read" => Opened(h)' = Opened(h),
             Atomic => (writer' # None => writer'.step # "fill") /\ (object' # None => IsPlain(object'))
      PROVE  IntactInv'
  <2>1. ASSUME NEW h \in Goroutines PROVE Intact(h)'
    BY <1>a, <1>b, <1>c, Zenon DEF Intact, Sealed, Whole, Answered, IsPlain
  <2> QED BY <1>b, <1>c, <2>1, Zenon DEF IntactInv, IsPlain
<1>d. ASSUME UNCHANGED <<pc, req, size, got, file, object>>, Atomic => (writer' # None => writer'.step # "fill")
      PROVE  IntactInv'
  BY <1>c, <1>d, Zenon DEF Opened, IntactInv
<1>e. ASSUME NEW g \in Goroutines, OnlyLocalsOf(g), UNCHANGED <<object, writer>>,
             pc'[g] \notin {"read", "serve", "ok"}
      PROVE  IntactInv'
  <2>1. ASSUME NEW h \in Goroutines \ {g} PROVE Intact(h)'
    <3>1. /\ pc'[h] = pc[h] /\ req'[h] = req[h] /\ size'[h] = size[h] /\ got'[h] = got[h]
          /\ Opened(h)' = Opened(h)
      BY <1>e, Zenon DEF OnlyLocalsOf, Opened
    <3> QED BY <1>a, <1>b, <3>1, Zenon DEF Intact, Sealed, Whole, Answered, IsPlain
  <2>2. Intact(g)'
    BY <1>e, Zenon DEF Intact, Sealed, Whole, Answered
  <2> QED BY <1>b, <1>e, <2>1, <2>2, Zenon DEF IntactInv, IsPlain
<1>f. ASSUME NEW new, Relink(new), UNCHANGED <<pc, req, size, got>>,
             Atomic => (writer' # None => writer'.step # "fill") /\ (new # None => IsPlain(new))
      PROVE  IntactInv'
  <2>1. ASSUME NEW h \in Goroutines, pc[h] = "read" PROVE Opened(h)' = Opened(h)
    BY <1>a, <1>f, <2>1, DownloadConstants, Zenon DEF Relink, Opened, Local, SharedTyped
  <2> QED BY <1>c, <1>f, <2>1, Zenon DEF Relink, IsPlain
<1>1. CASE UNCHANGED vars
  BY <1>1, <1>d, Zenon DEF vars, IntactInv
<1>2. ASSUME NEW v \in Versions, Truncate(v) PROVE IntactInv'
  BY <1>2, <1>c, Zenon DEF Truncate, locals, Atomic
<1>3. ASSUME NEW v \in Versions, Replace(v) PROVE IntactInv'
  <2>1. Relink(Stored(v)) /\ UNCHANGED <<pc, req, size, got>> /\ writer'.step = "row"
    BY <1>3 DEF Replace
  <2>2. Atomic => IsPlain(Stored(v))
    BY Zenon DEF Atomic, Stored, IsPlain
  <2> QED BY <1>f, <2>1, <2>2, Zenon
<1>4. CASE Unlink
  <2>1. Relink(None) /\ UNCHANGED <<pc, req, size, got>> /\ writer'.step = "row"
    BY <1>4, Zenon DEF Unlink
  <2> QED BY <1>f, <2>1, Zenon
<1>5. CASE Fill
  BY <1>5, <1>c, Zenon DEF Fill, locals, IntactInv
<1>6. CASE FillFails \/ WriteRow
  BY <1>6, <1>d, Zenon DEF FillFails, WriteRow, locals
<1>7. CASE Age \/ ExpireEntry
  BY <1>7, <1>d, Zenon DEF Age, ExpireEntry, locals, objects, IntactInv
<1>8. ASSUME NEW g \in Goroutines, Work(g) PROVE IntactInv'
  BY <1>0, <1>8, WorkIntact
<1>9. ASSUME NEW g \in Goroutines, NEW i \in Instances, NEW x \in Request,
             NEW label \in Label \ {"read", "serve", "ok"}, Arrive(g, i, x, label), UNCHANGED <<object, writer>>
      PROVE  IntactInv'
  <2>1. OnlyLocalsOf(g) /\ pc'[g] \in {"idle", label}
    BY <1>9, <1>0, <1>a, ArriveEffect DEF SharedTyped
  <2> QED BY <1>e, <1>9, <2>1, Zenon
<1>10. ASSUME NEW g \in Goroutines, NEW i \in Instances, NEW x \in Request, Begin(g, i, x) PROVE IntactInv'
  <2>1. UNCHANGED <<object, writer>>
    BY <1>10, Zenon DEF Begin, objects
  <2>2. (IF x.kind \in {"range", "grpc"} THEN x.kind ELSE IF Encrypted THEN "temp" ELSE "open")
          \in Label \ {"read", "serve", "ok"}
    BY Zenon DEF Label
  <2> QED BY <1>9, <1>10, <2>1, <2>2, Zenon DEF Begin
<1>11. ASSUME NEW g \in Goroutines, NEW i \in Instances, CreateSession(g, i) PROVE IntactInv'
  <2>1. UNCHANGED <<object, writer>>
    BY <1>11, Zenon DEF CreateSession, objects
  <2>2. /\ (IF Encrypted THEN "temp" ELSE "keep") \in Label \ {"read", "serve", "ok"}
        /\ [NoRequest EXCEPT !.kind = "create"] \in Request
    BY ConstantTypes, Zenon DEF Label
  <2> QED BY <1>9, <1>11, <2>1, <2>2, Zenon DEF CreateSession
<1>12. ASSUME NEW g \in Goroutines, NEW i \in Instances, EndSession(g, i) PROVE IntactInv'
  <2>1. OnlyLocalsOf(g) /\ pc'[g] = "close" /\ UNCHANGED <<object, writer>>
    BY <1>12, <1>a, Zenon DEF EndSession, Goto, OnlyLocalsOf, LocalsTyped, objects
  <2> QED BY <1>e, <2>1, Zenon
<1>13. ASSUME NEW g \in Goroutines, NEW i \in Instances, NEW from \in 0 .. MaxBlock, BeginChunk(g, i, from)
       PROVE  IntactInv'
  <2>1. OnlyLocalsOf(g) /\ pc'[g] \in {"chunk", "restore"} /\ UNCHANGED <<object, writer>>
    BY <1>13, <1>a, Zenon DEF BeginChunk, Goto, OnlyLocalsOf, LocalsTyped, objects
  <2> QED BY <1>e, <2>1, Zenon
<1>14. ASSUME NEW i \in Instances, Restart(i) PROVE IntactInv'
  <2>1. UNCHANGED <<object, writer>>
    BY <1>14, Zenon DEF Restart, objects
  <2>2. \A h \in Goroutines :
          \/ pc'[h] = "idle"
          \/ /\ pc'[h] = pc[h] /\ req'[h] = req[h] /\ size'[h] = size[h] /\ got'[h] = got[h]
             /\ file'[h] = file[h]
    BY <1>14, Zenon DEF Restart
  <2>3. ASSUME NEW h \in Goroutines PROVE Intact(h)'
    <3>1. CASE pc'[h] = "idle"
      BY <3>1, Zenon DEF Intact, Sealed, Whole, Answered
    <3>2. CASE /\ pc'[h] = pc[h] /\ req'[h] = req[h] /\ size'[h] = size[h] /\ got'[h] = got[h]
               /\ file'[h] = file[h]
      <4>1. Opened(h)' = Opened(h)
        BY <2>1, <3>2, Zenon DEF Opened
      <4> QED BY <1>a, <1>b, <3>2, <4>1, Zenon DEF Intact, Sealed, Whole, Answered, IsPlain
    <3> QED BY <2>2, <3>1, <3>2, Zenon
  <2> QED BY <1>b, <2>1, <2>3, Zenon DEF IntactInv, IsPlain
<1> QED
  BY <1>1, <1>2, <1>3, <1>4, <1>5, <1>6, <1>7, <1>8, <1>10, <1>11, <1>12, <1>13, <1>14 DEF Next, Write

-----------------------------------------------------------------------------
DownloadInv == TypeInv /\ GapInv /\ IntactInv

LEMMA InitHolds == Init => DownloadInv
<1> SUFFICES ASSUME Init PROVE DownloadInv
  BY Zenon
<1>1. PICK v \in Versions : object = Stored(v) /\ row = Len(Stored(v))
  BY Zenon DEF Init
<1>2. object \in Data /\ row \in Nat /\ Numbered(object)
  BY <1>1, StoredData, Zenon
<1>3. TypeInv
  BY <1>2, ConstantTypes, DownloadConstants, Zenon DEF Init, TypeInv, TypeOK, Local, Label, Goroutines
<1>4. GapInv
  BY <1>2, DownloadConstants, EmptyInPlace, Zenon DEF Init, GapInv, Placed
<1>5. IntactInv
  BY <1>1, Zenon DEF Init, IntactInv, Intact, Sealed, Whole, Answered, Atomic, Stored, IsPlain
<1> QED BY <1>3, <1>4, <1>5, Zenon DEF DownloadInv

(***************************************************************************)
(* The three parts of the invariant, of every writer, reader and session.  *)
(***************************************************************************)
THEOREM DownloadInvariant == Spec => []DownloadInv
<1>1. DownloadInv /\ [Next]_vars => DownloadInv'
  BY TypeStep, GapStep, IntactStep, Zenon DEF DownloadInv
<1> QED BY InitHolds, <1>1, PTL DEF Spec

(***************************************************************************)
(* Every variable of the readers and the session store keeps its type.     *)
(***************************************************************************)
THEOREM TypeCorrect == Spec => []TypeOK
<1>1. DownloadInv => TypeOK
  BY Zenon DEF DownloadInv, TypeInv
<1> QED BY DownloadInvariant, <1>1, PTL

(***************************************************************************)
(* handleDownload, handleEncryptedDownload: an answered download is one    *)
(* version of the file, for any number of readers, versions and sizes.     *)
(***************************************************************************)
THEOREM DownloadsIntact == Spec => []ServedIntact
<1>1. DownloadInv => ServedIntact
  BY Zenon DEF DownloadInv, IntactInv, Intact, Sealed, Whole, IsPlain, Atomic, ServedIntact, Goroutines
<1> QED BY DownloadInvariant, <1>1, PTL

(***************************************************************************)
(* DownloadFile, handleRangeDownload and DownloadChunk deliver the blocks  *)
(* of the offsets asked for, whatever is written meanwhile.                *)
(***************************************************************************)
THEOREM BlocksInPlace == Spec => []NoGapsOrRepeats
<1>1. DownloadInv => NoGapsOrRepeats
  BY Zenon DEF DownloadInv, GapInv, Placed, InPlace, NoGapsOrRepeats, Goroutines
<1> QED BY DownloadInvariant, <1>1, PTL

-----------------------------------------------------------------------------
(***************************************************************************)
(* The temp files.  The one session is made once, and until it is in       *)
(* memory nobody restores or ends it.                                      *)
(***************************************************************************)
Making(g) == pc[g] \in {"temp", "open", "read", "decrypt", "keep"} /\ req[g].kind = "create"
Fresh == ~created \/ \E g \in Goroutines : Making(g)
Handling(g) == pc[g] \in {"restore", "close", "drop"}
CreateInv ==
  /\ \A g, h \in Goroutines : Making(g) /\ Making(h) => g = h
  /\ \A g \in Goroutines : Making(g) => created
  /\ Fresh => (\A i \in Instances : mem[i] = None) /\ \A g \in Goroutines : ~Handling(g)

(* Every temp file is that of a request at one of these labels, of a       *)
(* session in memory, or of a run that crashed, with storage.temp_dir.     *)
(* Who restores or drops a session has no file of it.                      *)
Owns(g, t) ==
  \/ pc[g] \in {"open", "read", "decrypt", "serve"} /\ t = Enc(g)
  \/ pc[g] \in {"serve", "keep"} /\ t = Dec(g)
SessionDec(i) == <<i, "session", "dec">>
Kept(i) == mem[i] # None /\ mem[i].dec # None
Left(t) == t[2] = "crashed" /\ TempDir
Backed(t) ==
  /\ Encrypted
  /\ \/ \E g \in Requests : Owns(g, t)
     \/ \E i \in Instances : t = SessionDec(i) /\ Kept(i)
     \/ Left(t)
Clear(g) ==
  pc[g] \in {"restore", "drop"} \/ (pc[g] = "close" /\ file[g] = None) => SessionDec(at[g]) \notin temp
TempInv ==
  "disk" \notin Faults => (\A t \in temp : Backed(t)) /\ \A g \in Goroutines : Clear(g)

(* What a step leaves of the other goroutines *)
Apart(g) ==
  \A h \in Goroutines \ {g} : pc'[h] = pc[h] /\ at'[h] = at[h] /\ req'[h] = req[h] /\ file'[h] = file[h]

(* A step that keeps what is being made, or gives it up *)
LEMMA CreateFrame ==
  ASSUME CreateInv, setting' = setting, NEW g \in Goroutines, Apart(g), created' = created,
         Making(g)' => Making(g), Fresh => UNCHANGED mem /\ ~Handling(g)'
  PROVE  CreateInv'
<1>0. Goroutines' = Goroutines /\ Instances' = Instances
  BY Zenon DEF Goroutines, Instances, Requests
<1>1. \A h \in Goroutines : /\ Making(h)' => Making(h)
                            /\ h # g => (Handling(h)' => Handling(h))
  BY Zenon DEF Apart, Making, Handling
<1>2. Fresh' => Fresh
  BY <1>0, <1>1, Zenon DEF Fresh
<1>3. Fresh' => (\A i \in Instances : mem'[i] = None) /\ \A h \in Goroutines : ~Handling(h)'
  BY <1>1, <1>2, Zenon DEF CreateInv
<1> QED BY <1>0, <1>1, <1>3, Zenon DEF CreateInv

(* A temp file that is new is that of the goroutine at work; one that it   *)
(* had is still its own, or has become that of the session.                *)
LEMMA TempFrame ==
  ASSUME TypeInv, TempInv, setting' = setting, NEW g \in Goroutines, Apart(g), "disk" \notin Faults,
         \A t \in temp' \ temp : Backed(t)',
         \A t \in temp' \cap temp : Owns(g, t) => Backed(t)',
         \A i \in Instances : SessionDec(i) \in temp' /\ Kept(i) => Kept(i)',
         \A i \in Instances : SessionDec(i) \in temp' \ temp => \A h \in Goroutines : ~Handling(h),
         Clear(g)'
  PROVE  TempInv'
<1>0. /\ Goroutines' = Goroutines /\ Instances' = Instances /\ Requests' = Requests
      /\ (Encrypted' <=> Encrypted) /\ Requests \subseteq Goroutines
  BY Zenon DEF Goroutines, Instances, Requests, Encrypted
<1>1. ASSUME NEW t \in temp' PROVE Backed(t)'
  <2>1. CASE t \notin temp
    BY <2>1, Zenon
  <2>2. CASE t \in temp
    <3>1. Backed(t)
      BY <2>2, Zenon DEF TempInv
    <3>2. ASSUME NEW h \in Requests, h # g, Owns(h, t) PROVE Backed(t)'
      <4>1. Owns(h, t)'
        BY <1>0, <3>2, Zenon DEF Apart, Owns, Enc, Dec
      <4> QED BY <1>0, <3>1, <4>1, Zenon DEF Backed
    <3>3. ASSUME NEW i \in Instances, t = SessionDec(i), Kept(i) PROVE Backed(t)'
      <4>1. Kept(i)' /\ SessionDec(i)' = SessionDec(i)
        BY <3>3, Zenon DEF SessionDec
      <4> QED BY <1>0, <3>1, <3>3, <4>1, Zenon DEF Backed
    <3>4. ASSUME Left(t) PROVE Backed(t)'
      BY <1>0, <3>1, <3>4, Zenon DEF Backed, Left, TempDir
    <3> QED BY <2>2, <3>1, <3>2, <3>3, <3>4, Zenon DEF Backed
  <2> QED BY <2>1, <2>2, Zenon
<1>2. ASSUME NEW h \in Goroutines, h # g PROVE Clear(h)'
  <2>1. pc'[h] = pc[h] /\ at'[h] = at[h] /\ file'[h] = file[h] /\ Clear(h)
    BY <1>2, Zenon DEF Apart, TempInv
  <2>2. pc[h] \in {"restore", "drop", "close"} => at[h] \in Instances
    BY Zenon DEF TypeInv, Local
  <2>3. ASSUME pc[h] \in {"restore", "drop"} \/ (pc[h] = "close" /\ file[h] = None) PROVE SessionDec(at[h]) \notin temp'
    <3>1. SessionDec(at[h]) \notin temp /\ at[h] \in Instances /\ Handling(h)
      BY <2>1, <2>2, <2>3, Zenon DEF Clear, Handling
    <3> QED BY <3>1, Zenon
  <2> QED BY <2>1, <2>3, Zenon DEF Clear, SessionDec
<1> QED BY <1>0, <1>1, <1>2, Zenon DEF TempInv

LEMMA SessionName == TypeInv => "session" \notin Requests
<1> SUFFICES ASSUME TypeInv PROVE "session" \notin Requests
  BY Zenon
<1>1. setting \in Setting
  BY DownloadConstants, Zenon DEF TypeInv, TypeOK
<1>2. Requests \subseteq AllRequests
  BY <1>1 DEF Setting, Requests
<1> QED BY <1>2, DownloadConstants, Zenon

(* Who can have the decrypted file of the session *)
LEMMA SessionBacked ==
  ASSUME TypeInv, NEW i \in Instances, Backed(SessionDec(i))
  PROVE  Kept(i) \/ \E h \in Requests : pc[h] = "keep" /\ Making(h)
<1>1. \A j \in Instances : SessionDec(i) = SessionDec(j) => i = j
  BY Zenon DEF SessionDec
<1>2. ASSUME NEW h \in Requests, Owns(h, SessionDec(i)) PROVE pc[h] = "keep" /\ Making(h)
  <2>1. SessionDec(i) # Enc(h)
    BY Zenon DEF SessionDec, Enc
  <2>2. Local(h) /\ h # "session"
    BY DownloadConstants, SessionName, Zenon DEF TypeInv, Goroutines
  <2>3. CASE pc[h] = "serve" /\ SessionDec(i) = Dec(h)
    BY <2>2, <2>3, Zenon DEF SessionDec, Dec, Local
  <2>4. CASE pc[h] = "keep"
    BY <2>2, <2>4, Zenon DEF Making, Local
  <2> QED BY <1>2, <2>1, <2>3, <2>4, Zenon DEF Owns
<1>3. ~Left(SessionDec(i))
  BY DEF Left, SessionDec
<1> QED BY <1>1, <1>2, <1>3, Zenon DEF Backed

(* A goroutine that is over, or has yet to begin, has no temp file. *)
LEMMA OwnsNothing ==
  ASSUME NEW g, pc[g] \notin {"open", "read", "decrypt", "serve", "keep"}
  PROVE  \A t : ~Owns(g, t)
BY Zenon DEF Owns

(* A goroutine that ends, and one that goes on *)
LEMMA OverEffect ==
  ASSUME LocalsTyped, NEW g \in Goroutines,
         Leave(g) \/ Done(g) \/ (Goto(g, "ok") /\ Forget(g) /\ UNCHANGED req)
  PROVE  Apart(g) /\ ~Making(g)' /\ ~Handling(g)' /\ Clear(g)'
<1>1. Apart(g) /\ pc'[g] \in {"idle", "ok"}
  BY Zenon DEF LocalsTyped, Apart, Leave, Done, Goto, Forget
<1> QED BY <1>1, Zenon DEF Making, Handling, Clear

LEMMA GoEffect ==
  ASSUME LocalsTyped, NEW g \in Goroutines, NEW label, Goto(g, label), UNCHANGED <<at, req>>,
         UNCHANGED file \/ \E x : file' = [file EXCEPT ![g] = x]
  PROVE  Apart(g) /\ pc'[g] = label /\ at'[g] = at[g] /\ req'[g] = req[g]
<1>1. \A h \in Goroutines \ {g} : file'[h] = file[h]
  BY Zenon DEF LocalsTyped
<1> QED BY <1>1, Zenon DEF LocalsTyped, Apart, Goto

(* The steps of a goroutine *)
LEMMA WorkTemps ==
  ASSUME TypeInv, CreateInv, TempInv, setting' = setting, NEW g \in Goroutines, Work(g)
  PROVE  CreateInv' /\ TempInv'
<1>a. LocalsTyped /\ SharedTyped /\ Local(g)
  BY Zenon DEF TypeInv, TypeOK, LocalsTyped, SharedTyped
<1>b. /\ Goroutines' = Goroutines /\ Instances' = Instances /\ Requests' = Requests /\ Faults' = Faults
      /\ (Encrypted' <=> Encrypted)
  BY Zenon DEF Goroutines, Instances, Requests, Encrypted, Faults
<1>c. ASSUME "disk" \notin Faults => TempInv' PROVE TempInv'
  BY <1>b, <1>c, Zenon DEF TempInv
<1>d. ASSUME NEW t \in temp, Owns(g, t), "disk" \notin Faults PROVE Encrypted /\ g \in Requests
  <2>1. Backed(t) /\ pc[g] \in {"open", "read", "decrypt", "serve", "keep"}
    BY <1>d, Zenon DEF TempInv, Owns
  <2> QED BY <1>a, <2>1, Zenon DEF Backed, Local
<1>e. ASSUME NEW t, Owns(g, t)', g \in Requests, Encrypted PROVE Backed(t)'
  BY <1>b, <1>e, Zenon DEF Backed
<1>f. ASSUME UNCHANGED mem PROVE \A i \in Instances : SessionDec(i) \in temp' /\ Kept(i) => Kept(i)'
  BY <1>f, Zenon DEF Kept
<1>g. Handling(g) => ~Fresh
  BY Zenon DEF CreateInv
<1>h. ASSUME NEW i PROVE SessionDec(i) # Enc(g)
  BY Zenon DEF Enc, SessionDec
<1>over. ASSUME Leave(g) \/ Done(g) \/ (Goto(g, "ok") /\ Forget(g) /\ UNCHANGED req), UNCHANGED <<created, mem>>, temp' \subseteq temp,
                "disk" \notin Faults => \A t \in temp' : ~Owns(g, t)
         PROVE  CreateInv' /\ TempInv'
  <2>1. Apart(g) /\ ~Making(g)' /\ ~Handling(g)' /\ Clear(g)'
    BY <1>a, <1>over, OverEffect, Zenon
  <2>2. CreateInv'
    BY <1>over, <2>1, CreateFrame, Zenon
  <2>3. "disk" \notin Faults => TempInv'
    BY <1>f, <1>over, <2>1, TempFrame, Zenon
  <2> QED BY <1>c, <2>2, <2>3, Zenon
(* It goes on, and what it has in the end it owns. *)
<1>on. ASSUME NEW label, Goto(g, label), UNCHANGED <<at, req, created, mem>>,
              UNCHANGED file \/ \E x : file' = [file EXCEPT ![g] = x],
              label \notin {"restore", "close", "drop"},
              label \in {"temp", "open", "read", "decrypt", "keep"} => Making(g) \/ req[g].kind # "create",
              \A t \in temp' : t \notin temp => Owns(g, t)' /\ g \in Requests /\ Encrypted,
              \A t \in temp \cap temp' : Owns(g, t) => Owns(g, t)',
              \A i \in Instances : SessionDec(i) \in temp' \ temp => Fresh
       PROVE  CreateInv' /\ TempInv'
  <2>1. Apart(g) /\ pc'[g] = label /\ at'[g] = at[g] /\ req'[g] = req[g]
    BY <1>a, <1>on, GoEffect, Zenon
  <2>2. (Making(g)' => Making(g)) /\ ~Handling(g)' /\ Clear(g)'
    BY <1>on, <2>1, Zenon DEF Making, Handling, Clear
  <2>3. CreateInv'
    BY <1>on, <2>1, <2>2, CreateFrame, Zenon
  <2>4. \A i \in Instances : SessionDec(i) \in temp' \ temp => \A h \in Goroutines : ~Handling(h)
    BY <1>on, Zenon DEF CreateInv
  <2>5. "disk" \notin Faults => \A t \in temp' : t \notin temp \/ Owns(g, t) => Backed(t)'
    BY <1>d, <1>e, <1>on, Zenon
  <2>6. "disk" \notin Faults => TempInv'
    BY <1>f, <1>on, <2>1, <2>2, <2>4, <2>5, TempFrame, Zenon
  <2> QED BY <1>c, <2>3, <2>6, Zenon
<1>1. CASE CreateTemp(g)
  <2>1. UNCHANGED <<created, mem>> /\ pc[g] = "temp" /\ g \in Requests /\ Encrypted /\ \A t : ~Owns(g, t)
    BY <1>1, <1>a, Zenon DEF CreateTemp, session, Local, Owns
  <2>2. CASE temp' = temp \cup {Enc(g)} /\ Goto(g, "open") /\ UNCHANGED locals
    <3>1. pc'[g] = "open" /\ Enc(g)' = Enc(g)
      BY <2>2, <1>a, Zenon DEF Goto, locals, Enc, LocalsTyped
    <3>2. Making(g) \/ req[g].kind # "create"
      BY <2>1, Zenon DEF Making
    <3>3. UNCHANGED <<at, req, file>>
      BY <2>2, Zenon DEF locals
    <3>4. Owns(g, Enc(g))'
      BY <3>1, Zenon DEF Owns
    <3>5. \A t \in temp' : t \notin temp => t = Enc(g)
      BY <2>2, Zenon
    <3>6. \A t \in temp' : t \notin temp => Owns(g, t)' /\ g \in Requests /\ Encrypted
      BY <2>1, <3>1, <3>4, <3>5, Zenon
    <3> QED BY <1>h, <1>on, <2>1, <2>2, <3>2, <3>3, <3>5, <3>6, Zenon
  <2>3. CASE Leave(g) /\ UNCHANGED temp
    BY <1>over, <2>1, <2>3, Zenon
  <2> QED BY <1>1, <2>2, <2>3, Zenon DEF CreateTemp
<1>2. CASE Open(g)
  <2>1. UNCHANGED <<created, mem>> /\ pc[g] = "open" /\ \A t : Owns(g, t) => t = Enc(g)
    BY <1>2, Zenon DEF Open, session, Owns
  <2>2. CASE temp' = temp \ {Enc(g)} /\ Leave(g)
    BY <1>over, <2>1, <2>2, Zenon
  <2>3. CASE file' = [file EXCEPT ![g] = Linked] /\ Goto(g, "read") /\ UNCHANGED <<at, req, temp>>
    <3>1. pc'[g] = "read" /\ Enc(g)' = Enc(g)
      BY <2>3, <1>a, Zenon DEF Goto, Enc, LocalsTyped
    <3>2. Making(g) \/ req[g].kind # "create"
      BY <2>1, Zenon DEF Making
    <3>3. \A t : Owns(g, t) => Owns(g, t)'
      BY <2>1, <3>1, Zenon DEF Owns
    <3> QED BY <1>on, <2>1, <2>3, <3>2, <3>3, Zenon
  <2> QED BY <1>2, <2>1, <2>2, <2>3, Zenon DEF Open
<1>3. CASE ReadBlock(g)
  <2>1. UNCHANGED <<created, mem, temp>> /\ pc[g] = "read"
    BY <1>3, Zenon DEF ReadBlock, session
  <2>2. Making(g) \/ req[g].kind # "create"
    BY <2>1, Zenon DEF Making
  <2>3. CASE UNCHANGED <<setting, pc, at, req, size, file>>
    <3>1. Goto(g, "read")
      BY <2>1, <2>3, <1>a DEF Goto, LocalsTyped
    <3>2. \A t : Owns(g, t) => Owns(g, t)'
      BY <2>3, Zenon DEF Owns, Enc, Dec
    <3> QED BY <1>on, <2>1, <2>2, <2>3, <3>1, <3>2, Zenon
  <2>4. CASE Goto(g, "decrypt") /\ file' = [file EXCEPT ![g] = None] /\ UNCHANGED <<at, req, size, got>>
    <3>1. pc'[g] = "decrypt" /\ Enc(g)' = Enc(g)
      BY <2>4, <1>a, Zenon DEF Goto, Enc, LocalsTyped
    <3>2. \A t : Owns(g, t) => Owns(g, t)'
      BY <2>1, <3>1, Zenon DEF Owns
    <3> QED BY <1>on, <2>1, <2>2, <2>4, <3>2, Zenon
  <2>5. CASE ~Encrypted /\ (Done(g) \/ Leave(g))
    <3>1. "disk" \notin Faults => \A t \in temp' : ~Owns(g, t)
      BY <1>d, <2>1, <2>5, Zenon
    <3> QED BY <1>over, <2>1, <2>5, <3>1, Zenon
  <2> QED BY <1>3, <2>3, <2>4, <2>5, Zenon DEF ReadBlock
<1>4. CASE CopyFails(g)
  <2>1. /\ UNCHANGED <<created, mem>> /\ pc[g] = "read" /\ temp' = temp \ {Enc(g)} /\ Leave(g)
        /\ \A t : Owns(g, t) => t = Enc(g)
    BY <1>4, Zenon DEF CopyFails, session, Owns
  <2> QED BY <1>over, <2>1, Zenon
<1>5. CASE Decrypt(g)
  <2>1. /\ UNCHANGED <<created, mem>> /\ pc[g] = "decrypt" /\ g \in Requests /\ Encrypted
        /\ \A t : Owns(g, t) => t = Enc(g)
    BY <1>5, <1>a, Zenon DEF Decrypt, session, Owns, Local
  <2>2. CASE /\ req[g].kind = "create" /\ temp' = (temp \ {Enc(g)}) \cup {Dec(g)} /\ Goto(g, "keep")
             /\ UNCHANGED <<at, req, file>>
    <3>1. pc'[g] = "keep" /\ Dec(g)' = Dec(g)
      BY <2>2, <1>a, Zenon DEF Goto, Dec, LocalsTyped
    <3>2. Making(g) /\ Fresh
      BY <2>1, <2>2, Zenon DEF Making, Fresh
    <3>3. Owns(g, Dec(g))'
      BY <3>1, Zenon DEF Owns
    <3>4. \A t \in temp' : t \notin temp => Owns(g, t)' /\ g \in Requests /\ Encrypted
      BY <2>1, <2>2, <3>1, <3>3, Zenon
    <3>5. \A t \in temp \cap temp' : Owns(g, t) => Owns(g, t)'
      BY <2>1, <2>2, <3>1, <3>3, Zenon
    <3> QED BY <1>on, <2>1, <2>2, <3>2, <3>4, <3>5, Zenon
  <2>3. CASE /\ req[g].kind # "create" /\ temp' = temp \cup {Dec(g)} /\ Goto(g, "serve")
             /\ UNCHANGED <<at, req, file>>
    <3>1. pc'[g] = "serve" /\ Dec(g)' = Dec(g) /\ Enc(g)' = Enc(g)
      BY <2>3, <1>a, Zenon DEF Goto, Dec, Enc, LocalsTyped
    <3>2. \A i \in Instances : SessionDec(i) # Dec(g)
      BY <2>1, <2>3, SessionName, Zenon DEF SessionDec, Dec
    <3>3. Owns(g, Dec(g))' /\ Owns(g, Enc(g))'
      BY <3>1, Zenon DEF Owns
    <3>4. \A t \in temp' : t \notin temp => t = Dec(g)
      BY <2>3, Zenon
    <3>5. \A t \in temp' : t \notin temp => Owns(g, t)' /\ g \in Requests /\ Encrypted
      BY <2>1, <3>1, <3>3, <3>4, Zenon
    <3>6. \A t \in temp \cap temp' : Owns(g, t) => Owns(g, t)'
      BY <2>1, <3>1, <3>3, Zenon
    <3> QED BY <1>on, <2>1, <2>3, <3>2, <3>4, <3>5, <3>6, Zenon
  <2>4. CASE temp' = temp \ {Enc(g)} /\ Leave(g)
    BY <1>over, <2>1, <2>4, Zenon
  <2>5. CASE "disk" \in Faults /\ Leave(g)
    <3>1. Apart(g) /\ ~Making(g)' /\ ~Handling(g)'
      BY <1>a, <2>5, OverEffect, Zenon
    <3> QED BY <1>c, <2>1, <2>5, <3>1, CreateFrame, Zenon
  <2> QED BY <1>5, <2>2, <2>3, <2>4, <2>5, Zenon DEF Decrypt
<1>6. CASE Serve(g)
  <2>1. /\ UNCHANGED <<created, mem>> /\ temp' = temp \ {Enc(g), Dec(g)} /\ Done(g)
        /\ \A t : Owns(g, t) => t \in {Enc(g), Dec(g)}
    BY <1>6, Zenon DEF Serve, session, Owns
  <2> QED BY <1>over, <2>1, Zenon
<1>7. CASE ReadRange(g) \/ SendChunk(g) \/ Persist(g) \/ ForgetStale(g) \/ UnstoreSession(g)
  <2>1. /\ UNCHANGED <<created, mem, temp>>
        /\ pc[g] \in {"range", "grpc", "persist", "forget", "unstore"} /\ \A t : ~Owns(g, t)
    BY <1>7, Zenon DEF ReadRange, SendChunk, Persist, ForgetStale, UnstoreSession, session, Owns
  <2>2. CASE Leave(g) \/ Done(g)
    BY <1>over, <2>1, <2>2, Zenon
  <2>3. CASE Goto(g, "ok") /\ Forget(g) /\ UNCHANGED req
    BY <1>over, <2>1, <2>3, Zenon
  <2>4. CASE pc[g] = "grpc" /\ UNCHANGED <<setting, pc, at, req, size, file>>
    <3>1. Goto(g, "grpc")
      BY <2>4, <1>a DEF Goto, LocalsTyped
    <3> QED BY <1>on, <2>1, <2>4, <3>1, Zenon
  <2> QED BY <1>7, <2>2, <2>3, <2>4, Zenon DEF ReadRange, SendChunk, Persist, ForgetStale, UnstoreSession
<1>8. CASE KeepSession(g)
  <2>1. /\ UNCHANGED <<created, temp, locals>> /\ Goto(g, "persist") /\ pc[g] = "keep" /\ Making(g) /\ created
        /\ mem' = [mem EXCEPT ![at[g]] = NewSession(IF Encrypted THEN got[g] ELSE None, size[g])]
        /\ at[g] \in Instances /\ Dec(g) = SessionDec(at[g])
    BY <1>8, <1>a, Zenon DEF KeepSession, Local, Making, CreateInv, Dec, SessionDec
  <2>2. Apart(g) /\ pc'[g] = "persist" /\ at'[g] = at[g] /\ req'[g] = req[g]
    BY <1>a, <2>1, GoEffect, Zenon DEF locals
  <2>3. ~Making(g)' /\ ~Handling(g)' /\ Clear(g)' /\ \A h \in Goroutines \ {g} : ~Making(h) /\ (Making(h)' => Making(h))
    BY <2>1, <2>2, Zenon DEF Making, Handling, Clear, CreateInv, Apart
  <2>4. CreateInv'
    BY <1>b, <2>1, <2>3, Zenon DEF CreateInv, Fresh
  <2>5. ASSUME Encrypted PROVE mem'[at[g]] # None /\ mem'[at[g]].dec # None
    <3>1. got[g] # None /\ got[g] \in Data /\ size[g] \in Nat
      BY <1>a, DownloadConstants, Zenon DEF LocalsTyped
    <3>2. mem'[at[g]] = [dec |-> got[g], size |-> size[g]]
      <4>1. mem' = [mem EXCEPT ![at[g]] = [dec |-> got[g], size |-> size[g]]]
        BY <2>1, <2>5, Zenon DEF NewSession
      <4> QED BY <1>a, <2>1, <4>1, Zenon DEF SharedTyped
    <3>3. [dec |-> got[g], size |-> size[g]] \in [dec : Data \cup {None}, size : Nat]
      BY <3>1
    <3>4. [dec |-> got[g], size |-> size[g]] # None
      BY <3>3, DownloadConstants, Zenon
    <3> QED BY <3>1, <3>2, <3>4
  <2>6. ASSUME "disk" \notin Faults, NEW t \in temp' \cap temp, Owns(g, t) PROVE Backed(t)'
    <3>1. t = SessionDec(at[g]) /\ Encrypted
      BY <1>d, <2>1, <2>6, Zenon DEF Owns
    <3>2. Kept(at[g])' /\ SessionDec(at[g])' = SessionDec(at'[g])
      BY <2>2, <2>5, <3>1, Zenon DEF Kept, SessionDec
    <3> QED BY <1>b, <2>1, <2>2, <3>1, <3>2, Zenon DEF Backed
  <2>7. \A i \in Instances : ~Kept(i)
    BY <2>1, Zenon DEF CreateInv, Fresh, Kept
  <2>8. "disk" \notin Faults => TempInv'
    BY <2>1, <2>2, <2>3, <2>6, <2>7, TempFrame, Zenon
  <2> QED BY <1>c, <2>4, <2>8, Zenon
<1>9. CASE ReadChunk(g)
  <2>1. UNCHANGED <<created, mem, temp>> /\ \A t : ~Owns(g, t)
    BY <1>9, Zenon DEF ReadChunk, session, Owns
  <2>2. CASE Leave(g) \/ (Goto(g, "ok") /\ Forget(g) /\ UNCHANGED req)
    BY <1>over, <2>1, <2>2, Zenon
  <2>3. CASE Goto(g, "persist") /\ file' = [file EXCEPT ![g] = None] /\ UNCHANGED <<at, req, size>>
    BY <1>on, <2>1, <2>3, Zenon
  <2> QED BY <1>9, <2>2, <2>3, Zenon DEF ReadChunk
(* The steps that handle the session come after it has been made, and its  *)
(* file is gone before it is dropped or restored.                          *)
<1>10. ASSUME Handling(g), UNCHANGED created, temp' \subseteq temp, Apart(g), at[g] \in Instances,
              pc'[g] \in {"chunk", "drop", "unstore"}, at'[g] = at[g],
              "disk" \notin Faults => SessionDec(at[g]) \notin temp',
              UNCHANGED mem \/ \E x : mem' = [mem EXCEPT ![at[g]] = x]
       PROVE  CreateInv' /\ TempInv'
  <2>1. ~Making(g)' /\ ~Fresh /\ \A t : ~Owns(g, t)
    BY <1>10, <1>g, Zenon DEF Making, Handling, Owns
  <2>2. CreateInv'
    BY <1>10, <2>1, CreateFrame, Zenon
  <2>3. \A i \in Instances : i # at[g] => mem'[i] = mem[i]
    BY <1>10, <1>a, Zenon DEF SharedTyped
  <2>4. "disk" \notin Faults => \A i \in Instances : SessionDec(i) \in temp' /\ Kept(i) => Kept(i)'
    BY <1>10, <2>3, Zenon DEF Kept
  <2>5. "disk" \notin Faults => Clear(g)'
    BY <1>10, Zenon DEF Clear, SessionDec
  <2>6. "disk" \notin Faults => TempInv'
    BY <1>10, <2>1, <2>4, <2>5, TempFrame, Zenon
  <2> QED BY <1>c, <2>2, <2>6, Zenon
<1>11. CASE RestoreSession(g)
  <2>1. UNCHANGED <<created, temp>> /\ pc[g] = "restore" /\ at[g] \in Instances /\ Handling(g)
        /\ \A t : ~Owns(g, t)
    BY <1>11, <1>a, Zenon DEF RestoreSession, Local, Handling, Owns
  <2>2. CASE Leave(g) /\ UNCHANGED mem
    BY <1>over, <2>1, <2>2, Zenon
  <2>3. CASE Goto(g, "forget") /\ UNCHANGED <<locals, mem>>
    <3>1. UNCHANGED <<at, req, file>>
      BY <2>3, Zenon DEF locals
    <3> QED BY <1>on, <2>1, <2>3, <3>1, Zenon
  <2>4. CASE /\ Goto(g, "chunk") /\ mem' = [mem EXCEPT ![at[g]] = NewSession(None, store.size)]
             /\ UNCHANGED <<at, req, file, got>>
    <3>1. Apart(g) /\ pc'[g] = "chunk" /\ at'[g] = at[g]
      BY <1>a, <2>4, GoEffect, Zenon
    <3>2. "disk" \notin Faults => SessionDec(at[g]) \notin temp'
      BY <2>1, Zenon DEF TempInv, Clear
    <3> QED BY <1>10, <2>1, <2>4, <3>1, <3>2, Zenon
  <2> QED BY <1>11, <2>2, <2>3, <2>4, Zenon DEF RestoreSession
<1>12. CASE CloseSession(g)
  <2>1. /\ UNCHANGED <<created, mem, at, req>> /\ pc[g] = "close" /\ at[g] \in Instances /\ Handling(g)
        /\ Goto(g, "drop") /\ file' = [file EXCEPT ![g] = None]
        /\ temp' = IF file[g] # None THEN temp \ {SessionDec(at[g])} ELSE temp
    BY <1>12, <1>a, Zenon DEF CloseSession, Local, Handling, SessionDec
  <2>2. Apart(g) /\ pc'[g] = "drop" /\ at'[g] = at[g]
    BY <1>a, <2>1, GoEffect, Zenon
  <2>3. temp' \subseteq temp /\ ("disk" \notin Faults => SessionDec(at[g]) \notin temp')
    <3>1. CASE file[g] = None
      BY <2>1, <3>1, Zenon DEF TempInv, Clear
    <3>2. CASE file[g] # None
      BY <2>1, <3>2, Zenon
    <3> QED BY <3>1, <3>2, Zenon
  <2> QED BY <1>10, <2>1, <2>2, <2>3, Zenon
<1>13. CASE DropSession(g)
  <2>1. /\ UNCHANGED <<created, temp, at, req, file>> /\ pc[g] = "drop" /\ at[g] \in Instances /\ Handling(g)
        /\ Goto(g, "unstore") /\ mem' = [mem EXCEPT ![at[g]] = None]
    BY <1>13, <1>a, Zenon DEF DropSession, Local, Handling, locals
  <2>2. Apart(g) /\ pc'[g] = "unstore" /\ at'[g] = at[g]
    BY <1>a, <2>1, GoEffect, Zenon
  <2>3. "disk" \notin Faults => SessionDec(at[g]) \notin temp'
    BY <2>1, Zenon DEF TempInv, Clear
  <2> QED BY <1>10, <2>1, <2>2, <2>3, Zenon
<1> QED
  BY <1>1, <1>2, <1>3, <1>4, <1>5, <1>6, <1>7, <1>8, <1>9, <1>11, <1>12, <1>13, Zenon DEF Work

(* The temp files, while neither they nor the goroutines change *)
LEMMA TempsKept ==
  ASSUME CreateInv, TempInv, setting' = setting, UNCHANGED <<created, mem, temp>>,
         \A g \in Goroutines : /\ pc'[g] = pc[g] /\ at'[g] = at[g] /\ req'[g] = req[g]
                               /\ pc[g] = "close" => file'[g] = file[g]
  PROVE  CreateInv' /\ TempInv'
<1>0. /\ Goroutines' = Goroutines /\ Instances' = Instances /\ Requests' = Requests /\ Faults' = Faults
      /\ (Encrypted' <=> Encrypted) /\ Requests \subseteq Goroutines
  BY Zenon DEF Goroutines, Instances, Requests, Encrypted, Faults
<1>1. \A g \in Goroutines : (Making(g)' <=> Making(g)) /\ (Handling(g)' <=> Handling(g))
  BY Zenon DEF Making, Handling
<1>2. ASSUME NEW g \in Goroutines, NEW t, Owns(g, t) PROVE Owns(g, t)'
  BY <1>2, Zenon DEF Owns, Enc, Dec
<1>3. ASSUME NEW g \in Goroutines, Clear(g) PROVE Clear(g)'
  BY <1>3, Zenon DEF Clear, SessionDec
<1>4. ASSUME NEW t, Backed(t) PROVE Backed(t)'
  BY <1>0, <1>2, <1>4, Zenon DEF Backed, Kept, SessionDec, Left, TempDir
<1>5. CreateInv'
  BY <1>0, <1>1, Zenon DEF CreateInv, Fresh
<1>6. TempInv'
  BY <1>0, <1>3, <1>4, Zenon DEF TempInv
<1> QED BY <1>5, <1>6, Zenon

(* A goroutine that begins *)
LEMMA BeginTemps ==
  ASSUME TypeInv, CreateInv, TempInv, setting' = setting, NEW g \in Goroutines, NEW i \in Instances,
         \/ \E x \in Request : Begin(g, i, x)
         \/ CreateSession(g, i) \/ EndSession(g, i)
         \/ \E from \in 0 .. MaxBlock : BeginChunk(g, i, from)
  PROVE  CreateInv' /\ TempInv'
<1>a. LocalsTyped /\ SharedTyped
  BY Zenon DEF TypeInv, TypeOK, LocalsTyped, SharedTyped
<1>b. /\ Goroutines' = Goroutines /\ Instances' = Instances /\ Requests' = Requests /\ Faults' = Faults
      /\ row \in Nat \cup {None} /\ Requests \subseteq Goroutines
  BY <1>a, Zenon DEF Goroutines, Instances, Requests, Faults, SharedTyped
<1>c. /\ UNCHANGED <<temp, mem>> /\ Finished(g) /\ ~Making(g) /\ \A t : ~Owns(g, t)
  BY Zenon DEF Begin, CreateSession, EndSession, BeginChunk, session, Finished, Making, Owns
<1>d. ASSUME Apart(g), CreateInv', Clear(g)' PROVE CreateInv' /\ TempInv'
  <2>1. "disk" \notin Faults => TempInv'
    BY <1>c, <1>d, TempFrame, Zenon DEF Kept
  <2> QED BY <1>b, <1>d, <2>1, Zenon DEF TempInv
<1>e. ASSUME NEW x \in Request, NEW label \in Label, Arrive(g, i, x, label),
             label \notin {"restore", "drop", "close"}
      PROVE  /\ Apart(g) /\ Clear(g)' /\ ~Handling(g)'
             /\ (Making(g)' => x.kind = "create")
  <2>1. /\ OnlyLocalsOf(g)
        /\ \/ pc'[g] = "idle"
           \/ pc'[g] = label /\ req'[g] = x
    BY <1>a, <1>b, <1>e, ArriveEffect, Zenon
  <2> QED BY <1>e, <2>1, Zenon DEF OnlyLocalsOf, Apart, Clear, Handling, Making
<1>1. ASSUME NEW x \in Request, Begin(g, i, x) PROVE CreateInv' /\ TempInv'
  <2>1. created' = created /\ x.kind # "create"
    BY <1>1, Zenon DEF Begin, session
  <2>2. PICK label \in Label : Arrive(g, i, x, label) /\ label \notin {"restore", "drop", "close"}
    <3>1. \E label \in {"range", "grpc", "temp", "open"} : Arrive(g, i, x, label)
      BY <1>1, Zenon DEF Begin
    <3> QED BY <3>1, Zenon DEF Label
  <2>3. Apart(g) /\ Clear(g)' /\ ~Handling(g)' /\ ~Making(g)'
    BY <1>e, <2>1, <2>2, Zenon
  <2>4. CreateInv'
    BY <1>c, <2>1, <2>3, CreateFrame, Zenon
  <2> QED BY <1>d, <2>3, <2>4, Zenon
<1>2. CASE CreateSession(g, i)
  <2>1. created' = TRUE /\ ~created /\ [NoRequest EXCEPT !.kind = "create"] \in Request
    BY <1>2, ConstantTypes, Zenon DEF CreateSession
  <2>2. PICK label \in Label : /\ Arrive(g, i, [NoRequest EXCEPT !.kind = "create"], label)
                               /\ label \notin {"restore", "drop", "close"}
    <3>1. \E label \in {"temp", "keep"} : Arrive(g, i, [NoRequest EXCEPT !.kind = "create"], label)
      BY <1>2, Zenon DEF CreateSession
    <3> QED BY <3>1, Zenon DEF Label
  <2>3. Apart(g) /\ Clear(g)' /\ ~Handling(g)'
    BY <1>e, <2>1, <2>2, Zenon
  <2>4. \A h \in Goroutines : ~Making(h) /\ ~Handling(h) /\ (Making(h)' => h = g) /\ ~Handling(h)'
    <3>1. \A h \in Goroutines : ~Making(h) /\ ~Handling(h)
      BY <2>1, Zenon DEF CreateInv, Fresh
    <3>2. \A h \in Goroutines \ {g} : (Making(h)' <=> Making(h)) /\ (Handling(h)' <=> Handling(h))
      BY <2>3, Zenon DEF Apart, Making, Handling
    <3> QED BY <2>3, <3>1, <3>2, Zenon
  <2>5. CreateInv'
    BY <1>b, <1>c, <2>1, <2>4, Zenon DEF CreateInv, Fresh
  <2> QED BY <1>d, <2>3, <2>5, Zenon
(* BeginChunk and EndSession find the session made *)
<1>3. ASSUME created' = created, ~Fresh, NEW label, NEW y, pc' = [pc EXCEPT ![g] = label],
             at' = [at EXCEPT ![g] = i], req' = [req EXCEPT ![g] = y],
             label \in {"chunk", "restore", "close"},
             UNCHANGED file \/ \E x : file' = [file EXCEPT ![g] = x],
             label = "restore" \/ (label = "close" /\ file'[g] = None)
               => ("disk" \notin Faults => SessionDec(i) \notin temp)
      PROVE  CreateInv' /\ TempInv'
  <2>1. Apart(g) /\ pc'[g] = label /\ at'[g] = i
    <3>1. \A h \in Goroutines \ {g} : file'[h] = file[h]
      BY <1>3, <1>a, Zenon DEF LocalsTyped
    <3> QED BY <1>3, <1>a, <3>1, Zenon DEF LocalsTyped, Apart
  <2>2. ~Making(g)'
    BY <1>3, <2>1, Zenon DEF Making
  <2>3. CreateInv'
    BY <1>3, <2>1, <2>2, CreateFrame, Zenon
  <2>4. "disk" \notin Faults => Clear(g)'
    <3> SUFFICES ASSUME "disk" \notin Faults PROVE Clear(g)'
      BY Zenon
    <3>1. pc'[g] = "restore" \/ (pc'[g] = "close" /\ file'[g] = None) => SessionDec(i) \notin temp
      BY <1>3, <2>1, Zenon
    <3>2. pc'[g] # "drop" /\ temp' = temp /\ at'[g] = i
      BY <1>3, <1>c, <2>1, Zenon
    <3>3. SessionDec(at[g])' = SessionDec(i)
      BY <3>2, Zenon DEF SessionDec
    <3> QED BY <3>1, <3>2, <3>3, Zenon DEF Clear
  <2>5. "disk" \in Faults => TempInv'
    BY <1>b, Zenon DEF TempInv
  <2> QED BY <1>d, <2>1, <2>3, <2>4, <2>5, Zenon
<1>4. ASSUME ~Fresh, ~Kept(i), "disk" \notin Faults PROVE SessionDec(i) \notin temp
  <2>1. \A h \in Requests : ~Making(h)
    BY <1>4, <1>b, Zenon DEF Fresh
  <2>2. SessionDec(i) \in temp => Backed(SessionDec(i))
    BY <1>4, Zenon DEF TempInv
  <2> QED BY <1>4, <2>1, <2>2, SessionBacked, Zenon
<1>5. ASSUME NEW from \in 0 .. MaxBlock, BeginChunk(g, i, from) PROVE CreateInv' /\ TempInv'
  <2>1. created' = created /\ created
    BY <1>5, Zenon DEF BeginChunk, session
  <2>2. ~Fresh
    <3>1. ASSUME NEW h \in Goroutines, Making(h) PROVE FALSE
      <4>1. h \in Requests /\ ~Finished(h) /\ req[h].kind = "create"
        BY <3>1, Zenon DEF Making, Finished, TypeInv, Local
      <4> QED BY <1>5, <4>1, Zenon DEF BeginChunk
    <3> QED BY <2>1, <3>1, Zenon DEF Fresh
  <2>3. CASE mem[i] # None
    <3>1. file' = [file EXCEPT ![g] = mem[i].dec] /\ Goto(g, "chunk")
      BY <1>5, <2>3, Zenon DEF BeginChunk
    <3> QED BY <1>3, <1>5, <2>1, <2>2, <3>1, Zenon DEF BeginChunk, Goto
  <2>4. CASE mem[i] = None
    <3>1. UNCHANGED file /\ Goto(g, "restore")
      BY <1>5, <2>4, Zenon DEF BeginChunk
    <3>2. "disk" \notin Faults => SessionDec(i) \notin temp
      BY <1>4, <2>2, <2>4, Zenon DEF Kept
    <3> QED BY <1>3, <1>5, <2>1, <2>2, <3>1, <3>2, Zenon DEF BeginChunk, Goto
  <2> QED BY <2>3, <2>4, Zenon
<1>6. CASE EndSession(g, i)
  <2>1. created' = created /\ mem[i] # None /\ ~Fresh
    BY <1>6, Zenon DEF EndSession, session, CreateInv
  <2>2. file' = [file EXCEPT ![g] = mem[i].dec] /\ file'[g] = mem[i].dec
    BY <1>6, <1>a, Zenon DEF EndSession, LocalsTyped
  <2>3. file'[g] = None => ("disk" \notin Faults => SessionDec(i) \notin temp)
    BY <1>4, <2>1, <2>2, Zenon DEF Kept
  <2> QED BY <1>3, <1>6, <2>1, <2>2, <2>3, Zenon DEF EndSession, Goto
<1> QED BY <1>1, <1>2, <1>5, <1>6, Zenon

(* What an instance that crashed has left is removed by its next start, or *)
(* stays in the directory of storage.temp_dir.                             *)
LEMMA RestartTemps ==
  ASSUME TypeInv, CreateInv, TempInv, setting' = setting, NEW i \in Instances, Restart(i)
  PROVE  CreateInv' /\ TempInv'
<1>a. LocalsTyped /\ SharedTyped
  BY Zenon DEF TypeInv, TypeOK, LocalsTyped, SharedTyped
<1>b. /\ Goroutines' = Goroutines /\ Instances' = Instances /\ Requests' = Requests /\ Faults' = Faults
      /\ (Encrypted' <=> Encrypted) /\ Requests \subseteq Goroutines
  BY Zenon DEF Goroutines, Instances, Requests, Encrypted, Faults
<1>c. created' = created /\ mem' = [mem EXCEPT ![i] = None]
  BY Zenon DEF Restart
<1>f. ASSUME NEW t \in temp'
      PROVE  \/ t \in temp /\ t[1] # i
             \/ t[2] = "crashed" /\ (TempDir \/ "disk" \in Faults) /\ temp # {}
  <2>1. CASE t \in temp /\ t[1] # i
    BY <2>1, Zenon
  <2>2. ASSUME NEW u \in temp, t = <<i, "crashed", u[3]>>, TempDir \/ "disk" \in Faults
        PROVE  t[2] = "crashed" /\ (TempDir \/ "disk" \in Faults) /\ temp # {}
    BY <2>2
  <2> QED BY <1>f, <2>1, <2>2, Zenon DEF Restart
<1>g. \A j \in Instances : SessionDec(j) \in temp' => SessionDec(j) \in temp
  <2>1. \A j \in Instances : SessionDec(j)[2] # "crashed"
    BY DEF SessionDec
  <2> QED BY <1>f, <2>1, Zenon
<1>d. /\ \A g \in Goroutines : at[g] = i => pc'[g] = "idle"
      /\ \A g \in Goroutines : at[g] # i => /\ pc'[g] = pc[g] /\ at'[g] = at[g] /\ req'[g] = req[g]
                                            /\ file'[g] = file[g]
  BY Zenon DEF Restart
<1>e. mem'[i] = None /\ \A j \in Instances : j # i => mem'[j] = mem[j]
  BY <1>a, <1>c, Zenon DEF SharedTyped
<1>1. \A g \in Goroutines : /\ (Making(g)' => Making(g)) /\ (Handling(g)' => Handling(g))
                            /\ (Clear(g) => Clear(g)')
  <2> TAKE g \in Goroutines
  <2>1. CASE at[g] = i
    BY <1>d, <2>1, Zenon DEF Making, Handling, Clear
  <2>2. CASE at[g] # i
    <3>1. /\ pc'[g] = pc[g] /\ at'[g] = at[g] /\ req'[g] = req[g] /\ file'[g] = file[g]
      BY <1>d, <2>2, Zenon
    <3>2. pc[g] \in {"restore", "drop", "close"} => at[g] \in Instances
      BY Zenon DEF TypeInv, Local
    <3> QED BY <1>g, <3>1, <3>2, Zenon DEF Making, Handling, Clear, SessionDec
  <2> QED BY <2>1, <2>2, Zenon
<1>2. CreateInv'
  <2>1. Fresh' => Fresh
    BY <1>1, <1>b, <1>c, Zenon DEF Fresh
  <2>2. ASSUME Fresh' PROVE (\A j \in Instances : mem'[j] = None) /\ \A g \in Goroutines : ~Handling(g)'
    <3>1. (\A j \in Instances : mem[j] = None) /\ \A g \in Goroutines : ~Handling(g)
      BY <2>1, <2>2, Zenon DEF CreateInv
    <3>2. \A j \in Instances : mem'[j] = None
      BY <1>e, <3>1
    <3> QED BY <1>1, <3>1, <3>2, Zenon
  <2> QED BY <1>1, <1>b, <1>c, <2>2, Zenon DEF CreateInv
<1>3. ASSUME NEW t \in temp', t[1] # i, Backed(t) PROVE Backed(t)'
  <2>1. t[1] # i
    BY <1>3, Zenon
  <2>2. ASSUME NEW g \in Requests, Owns(g, t) PROVE Owns(g, t)'
    <3>1. t = <<at[g], t[2], t[3]>>
      BY <2>2 DEF Owns, Enc, Dec
    <3>2. at[g] # i
      BY <2>1, <3>1
    <3> QED BY <1>b, <1>d, <2>2, <3>2, Zenon DEF Owns, Enc, Dec
  <2>3. ASSUME NEW j \in Instances, t = SessionDec(j), Kept(j) PROVE Kept(j)' /\ t = SessionDec(j)'
    <3>1. j # i
      <4>1. SessionDec(j)[1] = j
        BY DEF SessionDec
      <4> QED BY <2>1, <2>3, <4>1, Zenon
    <3> QED BY <1>e, <2>3, <3>1, Zenon DEF Kept, SessionDec
  <2> QED BY <1>3, <1>b, <2>2, <2>3, Zenon DEF Backed, Left, TempDir
<1>4. ASSUME "disk" \notin Faults, NEW t \in temp' PROVE Backed(t)'
  <2>1. CASE t \in temp /\ t[1] # i
    BY <1>3, <1>4, <2>1, Zenon DEF TempInv
  <2>2. CASE t[2] = "crashed" /\ TempDir /\ temp # {}
    <3>1. Encrypted
      BY <1>4, <2>2, Zenon DEF TempInv, Backed
    <3> QED BY <1>b, <2>2, <3>1, Zenon DEF Backed, Left, TempDir
  <2> QED BY <1>4, <1>f, <2>1, <2>2, Zenon
<1>5. TempInv'
  BY <1>1, <1>4, <1>b, Zenon DEF TempInv
<1> QED BY <1>2, <1>5, Zenon

LEMMA TempStep == TypeInv /\ CreateInv /\ TempInv /\ [Next]_vars => CreateInv' /\ TempInv'
<1> SUFFICES ASSUME TypeInv, CreateInv, TempInv, [Next]_vars PROVE CreateInv' /\ TempInv'
  BY Zenon
<1>a. setting' = setting
  BY SettingFixed, Zenon
<1>1. ASSUME UNCHANGED <<pc, locals, temp, created, mem>> PROVE CreateInv' /\ TempInv'
  BY <1>1, <1>a, TempsKept, Zenon DEF locals
<1>2. ASSUME NEW v, Truncate(v) PROVE CreateInv' /\ TempInv'
  BY <1>1, <1>2, Zenon DEF Truncate, session
<1>3. CASE Write \/ FillFails \/ Age \/ ExpireEntry
  BY <1>1, <1>3, Zenon DEF Write, Fill, WriteRow, FillFails, Age, ExpireEntry, session
<1>4. ASSUME NEW new, Relink(new), UNCHANGED <<pc, at, req, temp, session>> PROVE CreateInv' /\ TempInv'
  <2>1. \A g \in Goroutines : pc[g] = "close" => file'[g] = file[g]
    BY <1>4, Zenon DEF Relink, TypeInv, Local
  <2>2. UNCHANGED <<created, mem, temp, pc, at, req>>
    BY <1>4, Zenon DEF session
  <2> QED BY <1>a, <2>1, <2>2, TempsKept, Zenon
<1>5. ASSUME NEW v, Replace(v) PROVE CreateInv' /\ TempInv'
  BY <1>4, <1>5, Zenon DEF Replace
<1>6. CASE Unlink
  BY <1>4, <1>6, Zenon DEF Unlink
<1>7. ASSUME NEW g \in Goroutines, Work(g) PROVE CreateInv' /\ TempInv'
  BY <1>7, <1>a, WorkTemps, Zenon
<1>8. ASSUME NEW g \in Goroutines, NEW i \in Instances,
             \/ \E x \in Request : Begin(g, i, x)
             \/ CreateSession(g, i) \/ EndSession(g, i)
             \/ \E from \in 0 .. MaxBlock : BeginChunk(g, i, from)
      PROVE  CreateInv' /\ TempInv'
  BY <1>8, <1>a, BeginTemps, Zenon
<1>9. ASSUME NEW i \in Instances, Restart(i) PROVE CreateInv' /\ TempInv'
  BY <1>9, <1>a, RestartTemps, Zenon
<1>10. CASE UNCHANGED vars
  BY <1>1, <1>10, Zenon DEF vars, locals
<1> QED
  BY <1>2, <1>3, <1>5, <1>6, <1>7, <1>8, <1>9, <1>10, Zenon DEF Next

LEMMA TempInit == Init => CreateInv /\ TempInv
<1> SUFFICES ASSUME Init PROVE CreateInv /\ TempInv
  BY Zenon
<1>1. temp = {} /\ created = FALSE /\ mem = [i \in Instances |-> None] /\ pc = [g \in Goroutines |-> "idle"]
  BY Zenon DEF Init
<1>2. \A g \in Goroutines : ~Making(g) /\ ~Handling(g) /\ Clear(g)
  BY <1>1, Zenon DEF Making, Handling, Clear
<1> QED BY <1>1, <1>2, Zenon DEF CreateInv, TempInv

(***************************************************************************)
(* A temp file with decrypted content belongs to a request at work or to a *)
(* session in the memory of its instance, whatever is uploaded, deleted,   *)
(* completed, expired or restarted meanwhile: handleEncryptedDownload and  *)
(* CreateDownloadSession remove their files on every path, CloseSession    *)
(* removes that of a session before it forgets it, and the start of main   *)
(* what a crash left, except in the directory of storage.temp_dir.         *)
(***************************************************************************)
THEOREM TempFilesOwned == Spec => []NoTempLeft
<1>1. Init => TypeInv /\ CreateInv /\ TempInv
  BY InitHolds, TempInit, Zenon DEF DownloadInv
<1>2. TypeInv /\ CreateInv /\ TempInv /\ [Next]_vars => (TypeInv /\ CreateInv /\ TempInv)'
  BY TypeStep, TempStep, Zenon
<1>3. TypeInv /\ CreateInv /\ TempInv => NoTempLeft
  <2> SUFFICES ASSUME TypeInv, TempInv, "disk" \notin Faults, NEW t \in temp
               PROVE  \/ \E g \in Requests : ~Finished(g) /\ t \in {Enc(g), Dec(g)}
                      \/ t[2] = "session" /\ mem[t[1]] # None /\ mem[t[1]].dec # None
                      \/ t[2] = "crashed" /\ TempDir
    BY Zenon DEF NoTempLeft
  <2>1. Backed(t)
    BY Zenon DEF TempInv
  <2>2. ASSUME NEW g \in Requests, Owns(g, t) PROVE ~Finished(g) /\ t \in {Enc(g), Dec(g)}
    BY <2>2, Zenon DEF Owns, Finished
  <2>3. ASSUME NEW i \in Instances, t = SessionDec(i), Kept(i)
        PROVE  t[2] = "session" /\ mem[t[1]] # None /\ mem[t[1]].dec # None
    <3>1. t[2] = "session" /\ t[1] = i
      BY <2>3 DEF SessionDec
    <3> QED BY <2>3, <3>1, Zenon DEF Kept
  <2> QED BY <2>1, <2>2, <2>3, Zenon DEF Backed, Left
<1> QED BY <1>1, <1>2, <1>3, PTL DEF Spec
=============================================================================
