----------------------------- MODULE AuditWriter -----------------------------
(***************************************************************************)
(* The asynchronous audit-log writer of internal/database/audit_writer.go: *)
(* request handlers Submit entries to a bounded channel, one goroutine     *)
(* (loop) collects them in pending and writes them in batches, and Close   *)
(* stops the loop and writes what is left.                                 *)
(*                                                                         *)
(* Entries are numbered in the order they are submitted.  A row whose      *)
(* INSERT fails is logged and skipped, so an entry counts as handled once  *)
(* its INSERT was attempted.                                               *)
(***************************************************************************)
EXTENDS Naturals, Sequences

CONSTANTS
  BatchSize,
  Closers,      \* goroutines that call Close
  MaxEntries    \* bound on the entries submitted

ASSUME AuditConstants ==
  /\ BatchSize \in Nat \ {0}
  /\ MaxEntries \in Nat

Capacity == BatchSize * 4    \* make(chan *AuditLog, batchSize*4)

VARIABLES
  submitted,  \* number of Submit calls so far
  accepted,   \* history: entries that entered the channel, in order
  handled,    \* history: entries whose INSERT was attempted, in order
  ch,         \* the channel
  pending,    \* w.pending
  batch,      \* the batch being written
  mu,         \* who holds w.mu: "free", "loop" or a closer
  loop,       \* "select", "flush", "drain" or "done"
  cancelled,  \* the loop's context is done
  mark,       \* history: entries accepted when Close was first called
  close       \* state of each Close call

vars == <<submitted, accepted, handled, ch, pending, batch, mu, loop, cancelled, mark, close>>

ASSUME CloserNames == Closers \cap {"free", "loop"} = {}

Init ==
  /\ submitted = 0 /\ accepted = <<>> /\ handled = <<>>
  /\ ch = <<>> /\ pending = <<>> /\ batch = <<>>
  /\ mu = "free" /\ loop = "select" /\ cancelled = FALSE /\ mark = 0
  /\ close = [c \in Closers |-> "idle"]

(* Submit never blocks: a full buffer drops the entry. *)
Submit ==
  /\ submitted < MaxEntries
  /\ submitted' = submitted + 1
  /\ IF Len(ch) < Capacity
       THEN /\ ch' = Append(ch, submitted + 1)
            /\ accepted' = Append(accepted, submitted + 1)
       ELSE UNCHANGED <<ch, accepted>>
  /\ UNCHANGED <<handled, pending, batch, mu, loop, cancelled, mark, close>>

(* Mutant: pending is not reset. *)
TakeBatchKept(p) == batch' = p /\ pending' = p

(* flushLocked takes the pending entries as the batch to write. *)
TakeBatch(p) == batch' = p /\ pending' = <<>>

(* case entry := <-w.ch; a full batch is written unless Close was called. *)
Receive ==
  /\ loop = "select" /\ mu = "free" /\ ch # <<>>
  /\ ch' = Tail(ch)
  /\ LET p == Append(pending, Head(ch)) IN
       IF Len(p) >= BatchSize /\ ~cancelled
         THEN TakeBatch(p) /\ loop' = "flush" /\ mu' = "loop"
         ELSE pending' = p /\ UNCHANGED <<batch, loop, mu>>
  /\ UNCHANGED <<submitted, accepted, handled, cancelled, mark, close>>

(* Mutant: the ticker waits for a full batch. *)
FlushTickFull ==
  /\ loop = "select" /\ mu = "free" /\ Len(pending) >= BatchSize /\ ~cancelled
  /\ TakeBatch(pending) /\ loop' = "flush" /\ mu' = "loop"
  /\ UNCHANGED <<submitted, accepted, handled, ch, cancelled, mark, close>>

(* case <-ticker.C *)
FlushTick ==
  /\ loop = "select" /\ mu = "free" /\ pending # <<>> /\ ~cancelled
  /\ TakeBatch(pending) /\ loop' = "flush" /\ mu' = "loop"
  /\ UNCHANGED <<submitted, accepted, handled, ch, cancelled, mark, close>>

(* writeBatch, one row at a time, by whoever holds the mutex. *)
WriteRow ==
  /\ batch # <<>>
  /\ handled' = Append(handled, Head(batch))
  /\ batch' = Tail(batch)
  /\ UNCHANGED <<submitted, accepted, ch, pending, mu, loop, cancelled, mark, close>>

FlushEnd ==
  /\ loop = "flush" /\ batch = <<>>
  /\ loop' = "select" /\ mu' = "free"
  /\ UNCHANGED <<submitted, accepted, handled, ch, pending, batch, cancelled, mark, close>>

(* Mutant: the loop leaves only when the channel has entries. *)
DrainStartBusy ==
  /\ loop = "select" /\ mu = "free" /\ cancelled /\ ch # <<>>
  /\ loop' = "drain" /\ mu' = "loop"
  /\ UNCHANGED <<submitted, accepted, handled, ch, pending, batch, cancelled, mark, close>>

(* case <-ctx.Done(): move the channel to pending without writing. *)
DrainStart ==
  /\ loop = "select" /\ mu = "free" /\ cancelled
  /\ loop' = "drain" /\ mu' = "loop"
  /\ UNCHANGED <<submitted, accepted, handled, ch, pending, batch, cancelled, mark, close>>

DrainOne ==
  /\ loop = "drain" /\ ch # <<>>
  /\ pending' = Append(pending, Head(ch))
  /\ ch' = Tail(ch)
  /\ UNCHANGED <<submitted, accepted, handled, batch, mu, loop, cancelled, mark, close>>

(* Mutant: the loop returns before the channel is empty. *)
DrainEndEarly ==
  /\ loop = "drain"
  /\ loop' = "done" /\ mu' = "free"
  /\ UNCHANGED <<submitted, accepted, handled, ch, pending, batch, cancelled, mark, close>>

(* Nothing left: the loop returns and closes w.done. *)
DrainEnd ==
  /\ loop = "drain" /\ ch = <<>>
  /\ loop' = "done" /\ mu' = "free"
  /\ UNCHANGED <<submitted, accepted, handled, ch, pending, batch, cancelled, mark, close>>

(* Close cancels the loop's context and waits for w.done ... *)
CloseCall(c) ==
  /\ close[c] = "idle"
  /\ close' = [close EXCEPT ![c] = "waiting"]
  /\ cancelled' = TRUE
  /\ mark' = IF cancelled THEN mark ELSE Len(accepted)
  /\ UNCHANGED <<submitted, accepted, handled, ch, pending, batch, mu, loop>>

(* ... at most as long as its own context lives ... *)
CloseTimeout(c) ==
  /\ close[c] = "waiting"
  /\ close' = [close EXCEPT ![c] = "timeout"]
  /\ UNCHANGED <<submitted, accepted, handled, ch, pending, batch, mu, loop, cancelled, mark>>

(* ... and writes what the loop left in pending. *)
CloseFlush(c) ==
  /\ close[c] = "waiting" /\ loop = "done" /\ mu = "free"
  /\ TakeBatch(pending) /\ mu' = c
  /\ close' = [close EXCEPT ![c] = "flushing"]
  /\ UNCHANGED <<submitted, accepted, handled, ch, loop, cancelled, mark>>

CloseReturn(c) ==
  /\ close[c] = "flushing" /\ batch = <<>>
  /\ close' = [close EXCEPT ![c] = "ok"]
  /\ mu' = "free"
  /\ UNCHANGED <<submitted, accepted, handled, ch, pending, batch, loop, cancelled, mark>>

LoopStep == Receive \/ FlushTick \/ FlushEnd \/ DrainStart \/ DrainOne \/ DrainEnd
CloseStep(c) == CloseCall(c) \/ CloseTimeout(c) \/ CloseFlush(c) \/ CloseReturn(c)

Next ==
  \/ Submit \/ WriteRow
  \/ Receive \/ FlushTick \/ FlushEnd \/ DrainStart \/ DrainOne \/ DrainEnd
  \/ \E c \in Closers : CloseStep(c)

Spec == Init /\ [][Next]_vars

(* The loop is scheduled, the ticker fires, INSERTs return.  No Close is   *)
(* required to time out.                                                   *)
FairSpec ==
  /\ Spec
  /\ WF_vars(LoopStep) /\ WF_vars(WriteRow)
  /\ \A c \in Closers : WF_vars(CloseFlush(c) \/ CloseReturn(c))

-----------------------------------------------------------------------------
(* The variables keep their types, and the channel its capacity. *)
TypeOK ==
  /\ Len(ch) <= Capacity
  /\ submitted \in 0 .. MaxEntries
  /\ accepted \in Seq(Nat) /\ handled \in Seq(Nat)
  /\ ch \in Seq(Nat) /\ pending \in Seq(Nat) /\ batch \in Seq(Nat)
  /\ mu \in {"free", "loop"} \cup Closers
  /\ loop \in {"select", "flush", "drain", "done"}
  /\ cancelled \in BOOLEAN
  /\ mark \in Nat
  /\ close \in [Closers -> {"idle", "waiting", "timeout", "flushing", "ok"}]

(***************************************************************************)
(* The writer neither loses, duplicates nor reorders: what the channel     *)
(* accepted is what was written, is being written, is pending or is still  *)
(* in the channel, in this order.  Submit, the loop, its drain on shutdown *)
(* and any number of Close calls interleave freely.                        *)
(***************************************************************************)
NothingLostOrReordered == accepted = ((handled \o batch) \o pending) \o ch

(***************************************************************************)
(* "Close flushes all pending entries": when a Close returns without       *)
(* error, every entry accepted before the first Close was called has been  *)
(* written.                                                                *)
(***************************************************************************)
CloseFlushesAll ==
  \A c \in Closers : close[c] = "ok" => Len(handled) >= mark

(***************************************************************************)
(* An accepted entry is written within some flush interval, unless the     *)
(* writer is closed first.                                                 *)
(***************************************************************************)
EveryEntryHandled ==
  \A n \in 1 .. MaxEntries :
    Len(accepted) >= n ~> (Len(handled) >= n \/ cancelled)

(***************************************************************************)
(* Close returns: the loop always reaches its exit, whatever the channel   *)
(* and the batches hold.                                                   *)
(***************************************************************************)
CloseReturns ==
  \A c \in Closers : close[c] = "waiting" ~> close[c] \in {"ok", "timeout"}
=============================================================================
