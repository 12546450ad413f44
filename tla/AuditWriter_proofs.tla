------------------------- MODULE AuditWriter_proofs -------------------------
(***************************************************************************)
(* Proofs about AuditWriter, for any batch size and any number of entries  *)
(* and Close calls.                                                        *)
(***************************************************************************)
EXTENDS AuditWriter, SequenceTheorems, TLAPS

(* Concatenation is associative. *)
LEMMA Associative ==
  ASSUME NEW s \in Seq(Nat), NEW t \in Seq(Nat), NEW u \in Seq(Nat)
  PROVE  (s \o t) \o u = s \o (t \o u)
  BY SMTT(30)

(* Appending to the end of a concatenation appends to its last part. *)
LEMMA AppendConcat ==
  ASSUME NEW s \in Seq(Nat), NEW t \in Seq(Nat), NEW e \in Nat
  PROVE  Append(s \o t, e) = s \o Append(t, e)
<1>1. s \o t \in Seq(Nat) /\ <<e>> \in Seq(Nat)
  BY ConcatProperties
<1>2. Append(s \o t, e) = (s \o t) \o <<e>>
  BY <1>1, AppendIsConcat, Zenon
<1>3. Append(t, e) = t \o <<e>>
  BY AppendIsConcat, Zenon
<1>4. (s \o t) \o <<e>> = s \o (t \o <<e>>)
  BY <1>1, Associative, Zenon
<1> QED BY <1>2, <1>3, <1>4, Zenon

(* Moving the head of the second part to the first keeps the whole. *)
LEMMA MoveHead ==
  ASSUME NEW s \in Seq(Nat), NEW t \in Seq(Nat), t # <<>>
  PROVE  Append(s, Head(t)) \o Tail(t) = s \o t
<1>1. Head(t) \in Nat /\ Tail(t) \in Seq(Nat) /\ <<Head(t)>> \in Seq(Nat)
  BY HeadTailProperties
<1>2. t = <<Head(t)>> \o Tail(t)
  <2>1. Len(t) \in Nat \ {0}
    BY EmptySeq
  <2>2. SubSeq(t, 1, Len(t)) = <<t[1]>> \o SubSeq(t, 2, Len(t))
    BY <2>1, SubSeqRecursiveFirst
  <2> QED BY <2>1, <2>2, SubSeqFull, TailIsSubSeq
<1>3. Append(s, Head(t)) = s \o <<Head(t)>>
  BY <1>1, AppendIsConcat, Zenon
<1>4. (s \o <<Head(t)>>) \o Tail(t) = s \o (<<Head(t)>> \o Tail(t))
  BY <1>1, Associative, Zenon
<1> QED BY <1>2, <1>3, <1>4, Zenon

(* Receiving leaves fewer entries in the channel. *)
LEMMA ShorterTail ==
  ASSUME NEW s \in Seq(Nat), s # <<>>
  PROVE  Len(s) <= Capacity => Len(Tail(s)) <= Capacity
<1>1. Capacity \in Nat BY AuditConstants DEF Capacity
<1>2. Len(s) \in Nat /\ Len(Tail(s)) = Len(s) - 1
  BY HeadTailProperties, EmptySeq, LenProperties
<1> QED BY <1>1, <1>2

(***************************************************************************)
(* Every action keeps the types.                                           *)
(***************************************************************************)
LEMMA TypeStep == TypeOK /\ [Next]_vars => TypeOK'
<1> SUFFICES ASSUME TypeOK, [Next]_vars PROVE TypeOK'
  OBVIOUS
<1> USE AuditConstants DEF TypeOK
<1>1. CASE Submit
  <2>1. submitted + 1 \in Nat /\ submitted' \in 0 .. MaxEntries
    BY <1>1 DEF Submit
  <2>2. Append(ch, submitted + 1) \in Seq(Nat) /\ Append(accepted, submitted + 1) \in Seq(Nat)
    BY <2>1, AppendProperties, Zenon
  <2>3. Len(Append(ch, submitted + 1)) = Len(ch) + 1 /\ Len(ch) \in Nat /\ Capacity \in Nat
    BY <2>1, AppendProperties, LenProperties DEF Capacity
  <2>4. Len(ch') <= Capacity
    BY <1>1, <2>3 DEF Submit
  <2> QED BY <1>1, <2>1, <2>2, <2>4, Zenon DEF Submit
<1>2. CASE Receive
  <2>1. Head(ch) \in Nat /\ Tail(ch) \in Seq(Nat)
    BY <1>2, HeadTailProperties DEF Receive
  <2>2. Append(pending, Head(ch)) \in Seq(Nat)
    BY <2>1, AppendProperties, Zenon
  <2>3. pending' \in Seq(Nat) /\ batch' \in Seq(Nat)
    <3>1. \/ pending' = <<>> /\ batch' = Append(pending, Head(ch))
          \/ pending' = Append(pending, Head(ch)) /\ batch' = batch
      BY <1>2, Zenon DEF Receive, TakeBatch
    <3> QED BY <3>1, <2>2, EmptySeq, Zenon
  <2>4. loop' \in {"select", "flush"} /\ mu' \in {"free", "loop"}
    BY <1>2 DEF Receive
  <2>5. Len(ch') <= Capacity
    BY <1>2, ShorterTail DEF Receive
  <2> QED BY <1>2, <2>1, <2>3, <2>4, <2>5 DEF Receive
<1>3. CASE FlushTick
  BY <1>3 DEF FlushTick, TakeBatch
<1>4. CASE WriteRow
  BY <1>4, AppendProperties, HeadTailProperties DEF WriteRow
<1>5. CASE FlushEnd \/ DrainStart \/ DrainEnd
  BY <1>5, SMTT(30) DEF FlushEnd, DrainStart, DrainEnd
<1>6. CASE DrainOne
  <2>1. ch' \in Seq(Nat) /\ pending' \in Seq(Nat)
    BY <1>6, AppendProperties, HeadTailProperties, SMTT(30) DEF DrainOne
  <2>2. Len(ch') <= Capacity
    BY <1>6, ShorterTail DEF DrainOne
  <2> QED BY <1>6, <2>1, <2>2 DEF DrainOne
<1>7. ASSUME NEW c \in Closers, CloseStep(c) PROVE TypeOK'
  <2>1. Len(accepted) \in Nat
    BY LenProperties
  <2>2. CASE CloseCall(c) BY <2>1, <2>2 DEF CloseCall
  <2>3. CASE CloseFlush(c) BY <2>3 DEF CloseFlush, TakeBatch
  <2>4. CASE CloseTimeout(c) \/ CloseReturn(c) BY <2>4, Zenon DEF CloseTimeout, CloseReturn
  <2> QED BY <1>7, <2>2, <2>3, <2>4 DEF CloseStep
<1>8. CASE UNCHANGED vars
  BY <1>8 DEF vars
<1> QED BY <1>1, <1>2, <1>3, <1>4, <1>5, <1>6, <1>7, <1>8 DEF Next

(***************************************************************************)
(* Who may hold what: a batch is only written under the mutex, by the loop *)
(* or by one Close, and a Close only takes the mutex once the loop ended.  *)
(***************************************************************************)
MutexInv ==
  /\ mu = "free" => batch = <<>>
  /\ mu = "loop" <=> loop \in {"flush", "drain"}
  /\ loop = "drain" => batch = <<>>
  /\ loop \in {"drain", "done"} => cancelled
  /\ \A c \in Closers : close[c] = "flushing" <=> mu = c
  /\ \A c \in Closers : close[c] \in {"flushing", "ok"} => loop = "done"

(* Every action keeps w.mu with its holder. *)
LEMMA MutexStep == TypeOK /\ MutexInv /\ [Next]_vars => MutexInv'
<1> SUFFICES ASSUME TypeOK, MutexInv, [Next]_vars PROVE MutexInv'
  OBVIOUS
<1> USE CloserNames DEF TypeOK, MutexInv
<1>1. CASE Submit
  BY <1>1 DEF Submit
<1>2. CASE Receive
  BY <1>2 DEF Receive, TakeBatch
<1>3. CASE FlushTick
  BY <1>3 DEF FlushTick, TakeBatch
<1>4. CASE WriteRow
  BY <1>4 DEF WriteRow
<1>5. CASE FlushEnd \/ DrainStart \/ DrainEnd
  BY <1>5 DEF FlushEnd, DrainStart, DrainEnd
<1>6. CASE DrainOne
  BY <1>6 DEF DrainOne
<1>7. ASSUME NEW c \in Closers, CloseStep(c) PROVE MutexInv'
  <2>1. CASE CloseCall(c) BY <2>1 DEF CloseCall
  <2>2. CASE CloseFlush(c) BY <2>2 DEF CloseFlush, TakeBatch
  <2>3. CASE CloseTimeout(c) BY <2>3 DEF CloseTimeout
  <2>4. CASE CloseReturn(c) BY <2>4 DEF CloseReturn
  <2> QED BY <1>7, <2>1, <2>2, <2>3, <2>4 DEF CloseStep
<1>8. CASE UNCHANGED vars
  BY <1>8 DEF vars
<1> QED BY <1>1, <1>2, <1>3, <1>4, <1>5, <1>6, <1>7, <1>8 DEF Next

(***************************************************************************)
(* Every action keeps the order of the entries on their way through.       *)
(***************************************************************************)
LEMMA FlowStep ==
  TypeOK /\ MutexInv /\ NothingLostOrReordered /\ [Next]_vars => NothingLostOrReordered'
<1> SUFFICES ASSUME TypeOK, MutexInv, NothingLostOrReordered, [Next]_vars
             PROVE  NothingLostOrReordered'
  OBVIOUS
<1> DEFINE h == handled
<1> DEFINE written == h \o batch
<1>a. /\ h \in Seq(Nat) /\ batch \in Seq(Nat) /\ pending \in Seq(Nat) /\ ch \in Seq(Nat)
      /\ written \in Seq(Nat) /\ written \o pending \in Seq(Nat)
  BY ConcatProperties DEF TypeOK
<1>e. \A s \in Seq(Nat) : s \o <<>> = s
  BY ConcatEmptySeq
<1>f. accepted = (written \o pending) \o ch
  BY DEF NothingLostOrReordered
<1>1. CASE Submit
  <2>1. CASE Len(ch) < Capacity
    <3>1. submitted + 1 \in Nat
      BY DEF TypeOK
    <3>2. Append((written \o pending) \o ch, submitted + 1) = (written \o pending) \o Append(ch, submitted + 1)
      BY <1>a, <3>1, AppendConcat, ZenonT(30)
    <3> QED BY <1>1, <1>f, <2>1, <3>2, Zenon DEF Submit, NothingLostOrReordered
  <2>2. CASE ~(Len(ch) < Capacity)
    BY <1>1, <2>2 DEF Submit, NothingLostOrReordered
  <2> QED BY <2>1, <2>2
<1>2. ASSUME ch # <<>>
      PROVE  (written \o Append(pending, Head(ch))) \o Tail(ch) = (written \o pending) \o ch
  <2>1. Append(written \o pending, Head(ch)) \o Tail(ch) = (written \o pending) \o ch
    BY <1>a, <1>2, MoveHead, Zenon
  <2>2. Head(ch) \in Nat
    BY <1>a, <1>2, HeadTailProperties
  <2>3. Append(written \o pending, Head(ch)) = written \o Append(pending, Head(ch))
    BY <1>a, <2>2, AppendConcat, ZenonT(30)
  <2> QED BY <2>1, <2>3, Zenon
<1>3. CASE Receive
  <2>1. /\ ch # <<>> /\ ch' = Tail(ch) /\ accepted' = accepted /\ handled' = handled
        /\ batch = <<>>
        /\ \/ pending' = <<>> /\ batch' = Append(pending, Head(ch))
           \/ pending' = Append(pending, Head(ch)) /\ batch' = batch
    BY <1>3 DEF Receive, TakeBatch, MutexInv
  <2>2. (handled' \o batch') \o pending' = written \o Append(pending, Head(ch))
    <3>1. Append(pending, Head(ch)) \in Seq(Nat)
      <4>1. Head(ch) \in Nat
        BY <1>a, <2>1, HeadTailProperties
      <4> QED BY <1>a, <4>1, AppendProperties, Zenon
    <3>2. handled \o Append(pending, Head(ch)) \in Seq(Nat)
      BY <1>a, <3>1, ConcatProperties, Zenon
    <3>3. written = handled
      BY <1>a, <1>e, <2>1, Zenon
    <3> QED BY <1>e, <2>1, <3>2, <3>3, Zenon
  <2> QED BY <1>2, <1>f, <2>1, <2>2, Zenon DEF NothingLostOrReordered
<1>4. CASE FlushTick \/ (\E c \in Closers : CloseFlush(c))
  <2>1. /\ batch' = pending /\ pending' = <<>> /\ batch = <<>>
        /\ UNCHANGED <<accepted, handled, ch>>
    BY <1>4 DEF FlushTick, CloseFlush, TakeBatch, MutexInv
  <2>2. handled \o pending \in Seq(Nat)
    BY <1>a, ConcatProperties, Zenon
  <2>3. (handled' \o batch') \o pending' = written \o pending
    BY <1>a, <1>e, <2>1, <2>2, Zenon
  <2> QED BY <1>f, <2>1, <2>3, Zenon DEF NothingLostOrReordered
<1>5. CASE WriteRow
  <2>1. handled' \o batch' = handled \o batch
    BY <1>a, <1>5, MoveHead, Zenon DEF WriteRow
  <2> QED BY <1>5, <1>f, <2>1, Zenon DEF WriteRow, NothingLostOrReordered
<1>6. CASE DrainOne
  BY <1>2, <1>6, <1>f, Zenon DEF DrainOne, NothingLostOrReordered
<1>7. CASE UNCHANGED <<accepted, handled, batch, pending, ch>>
  BY <1>7 DEF NothingLostOrReordered
<1> QED
  BY <1>1, <1>3, <1>4, <1>5, <1>6, <1>7
  DEF Next, vars, FlushEnd, DrainStart, DrainEnd, CloseStep, CloseCall, CloseTimeout, CloseReturn

(***************************************************************************)
(* Where the entries accepted before the first Close are: ahead of the     *)
(* loop's exit they may be anywhere, after it only in pending or the batch,*)
(* and a Close that writes its batch has taken all of pending.             *)
(***************************************************************************)
MarkInv ==
  /\ mark <= Len(accepted)
  /\ loop = "done" => Len(handled) + Len(batch) + Len(pending) >= mark
  /\ \A c \in Closers : close[c] = "flushing" => Len(handled) + Len(batch) >= mark
  /\ CloseFlushesAll

(* Every action keeps what was accepted before the first Close on its way. *)
LEMMA MarkStep ==
  TypeOK /\ MutexInv /\ NothingLostOrReordered /\ MarkInv /\ [Next]_vars => MarkInv'
<1> SUFFICES ASSUME TypeOK, MutexInv, NothingLostOrReordered, MarkInv, [Next]_vars
             PROVE  MarkInv'
  OBVIOUS
<1>a. /\ accepted \in Seq(Nat) /\ handled \in Seq(Nat) /\ batch \in Seq(Nat)
      /\ pending \in Seq(Nat) /\ ch \in Seq(Nat)
      /\ mark \in Nat /\ Len(accepted) \in Nat /\ Len(handled) \in Nat
      /\ Len(batch) \in Nat /\ Len(pending) \in Nat
  BY LenProperties DEF TypeOK
<1>e. Len(<<>>) = 0
  OBVIOUS
<1> USE DEF MarkInv, CloseFlushesAll
<1>1. CASE Submit
  <2>1. Len(accepted') >= Len(accepted) /\ Len(accepted') \in Nat
    <3>1. submitted + 1 \in Nat
      BY DEF TypeOK
    <3>2. Len(Append(accepted, submitted + 1)) = Len(accepted) + 1
      BY <1>a, <3>1, AppendProperties, Zenon
    <3>3. accepted' = accepted \/ accepted' = Append(accepted, submitted + 1)
      BY <1>1, Zenon DEF Submit
    <3> QED BY <1>a, <3>2, <3>3
  <2> QED BY <1>1, <1>a, <2>1 DEF Submit
<1>2. CASE Receive \/ FlushTick \/ FlushEnd \/ DrainStart \/ DrainOne
  <2>1. loop # "done" /\ loop' # "done" /\ UNCHANGED <<accepted, handled, mark, close>>
    BY <1>2 DEF Receive, FlushTick, FlushEnd, DrainStart, DrainOne
  <2> QED BY <1>a, <2>1, SMTT(30) DEF MutexInv
<1>3. CASE WriteRow
  <2>1. /\ Len(handled') = Len(handled) + 1
        /\ Len(batch') = Len(batch) - 1
    <3>1. Head(batch) \in Nat
      BY <1>3, <1>a, HeadTailProperties DEF WriteRow
    <3>2. Len(Append(handled, Head(batch))) = Len(handled) + 1
      BY <1>a, <3>1, AppendProperties, Zenon
    <3>3. Len(Tail(batch)) = Len(batch) - 1
      BY <1>3, <1>a, HeadTailProperties DEF WriteRow
    <3> QED BY <1>3, <3>2, <3>3 DEF WriteRow
  <2> QED BY <1>3, <1>a, <2>1, SMTT(30) DEF WriteRow
<1>4. CASE DrainEnd
  <2>1. Len(accepted) = Len(handled) + Len(batch) + Len(pending)
    <3>1. handled \o batch \in Seq(Nat) /\ Len(handled \o batch) = Len(handled) + Len(batch)
      BY <1>a, ConcatProperties
    <3>2. /\ (handled \o batch) \o pending \in Seq(Nat)
          /\ Len((handled \o batch) \o pending) = Len(handled \o batch) + Len(pending)
      BY <1>a, <3>1, ConcatProperties
    <3>3. accepted = (handled \o batch) \o pending
      BY <1>4, <3>2, ConcatEmptySeq DEF DrainEnd, NothingLostOrReordered
    <3> QED BY <3>1, <3>2, <3>3, <1>a
  <2> QED BY <1>4, <1>a, <2>1 DEF DrainEnd, MutexInv
<1>5. ASSUME NEW c \in Closers, CloseStep(c) PROVE MarkInv'
  <2> USE CloserNames DEF TypeOK
  <2>1. CASE CloseCall(c)
    BY <2>1, <1>a, SMTT(30) DEF CloseCall, MutexInv
  <2>2. CASE CloseFlush(c)
    BY <2>2, <1>a, <1>e DEF CloseFlush, TakeBatch, MutexInv
  <2>3. CASE CloseTimeout(c)
    BY <2>3, <1>a DEF CloseTimeout
  <2>4. CASE CloseReturn(c)
    BY <2>4, <1>a, <1>e DEF CloseReturn
  <2> QED BY <1>5, <2>1, <2>2, <2>3, <2>4 DEF CloseStep
<1>6. CASE UNCHANGED vars
  BY <1>6, <1>a DEF vars
<1> QED BY <1>1, <1>2, <1>3, <1>4, <1>5, <1>6 DEF Next

AuditInv == TypeOK /\ MutexInv /\ NothingLostOrReordered /\ MarkInv

(* The inductive invariant holds in every behaviour of the writer. *)
THEOREM AuditInvariant == Spec => []AuditInv
<1>1. Init => AuditInv
  <2> SUFFICES ASSUME Init PROVE AuditInv
    OBVIOUS
  <2> USE AuditConstants DEF Init
  <2>1. TypeOK
    <3>1. <<>> \in Seq(Nat) BY EmptySeq
    <3>2. 0 \in 0 .. MaxEntries OBVIOUS
    <3>3. Len(<<>>) <= Capacity BY DEF Capacity
    <3> QED BY <3>1, <3>2, <3>3, Zenon DEF TypeOK
  <2>2. MutexInv BY CloserNames DEF MutexInv
  <2>3. NothingLostOrReordered
    <3>1. <<>> \in Seq(Nat) BY EmptySeq
    <3>2. <<>> \o <<>> = <<>> BY <3>1, ConcatEmptySeq
    <3> QED BY <3>2, Zenon DEF NothingLostOrReordered
  <2>4. MarkInv BY DEF MarkInv, CloseFlushesAll
  <2> QED BY <2>1, <2>2, <2>3, <2>4 DEF AuditInv
<1>2. AuditInv /\ [Next]_vars => AuditInv'
  BY TypeStep, MutexStep, FlowStep, MarkStep DEF AuditInv
<1> QED BY <1>1, <1>2, PTL DEF Spec

(* Type correctness of the writer's state. *)
THEOREM TypeCorrect == Spec => []TypeOK
BY AuditInvariant, PTL DEF AuditInv

(***************************************************************************)
(* Submit, the batching loop, its drain and any number of Close calls      *)
(* never lose, duplicate or reorder an accepted entry.                     *)
(***************************************************************************)
THEOREM NothingLost == Spec => []NothingLostOrReordered
BY AuditInvariant, PTL DEF AuditInv

(***************************************************************************)
(* A Close that returns nil has written every entry accepted before the    *)
(* first Close was called.                                                 *)
(***************************************************************************)
THEOREM CloseFlushes == Spec => []CloseFlushesAll
BY AuditInvariant, PTL DEF AuditInv, MarkInv
=============================================================================
