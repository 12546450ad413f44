------------------------------ MODULE DistLock ------------------------------
(***************************************************************************)
(* The distributed lock of internal/distributed/lock.go for one key, with  *)
(* its two backends (Redis and the in-process map), the retry loop of      *)
(* AcquireLock, the renewal goroutine of AcquireLockWithRenewal, and the   *)
(* callers that use them: lockDirectory (directory manager), distLockFile  *)
(* and distLockFileWithRenewal (file manager), CompleteUpload.             *)
(*                                                                         *)
(* Every operation of the lock touches the entry of its own key only, so   *)
(* one key stands for all.  Time is discrete and relative: the entry       *)
(* carries the time it has left, a renewal the time to its next tick.      *)
(***************************************************************************)
EXTENDS Integers, FiniteSets

CONSTANTS
  Clients,      \* operations (goroutines of any instance) competing for the key
  Tokens,       \* values of generateToken
  NoToken,
  TTL,          \* lifetime given to Lock and Extend
  MinInterval,  \* the 2s floor of the renewal interval
  MaxDelay,     \* longest delay of a renewal step when Reliable
  RetryCount,   \* attempts of AcquireLock
  Backend,      \* "redis" or "local"
  Reliable,     \* renewals run within MaxDelay and their calls succeed
  Renewal       \* how each client takes the lock, see RenewalModes

RenewalModes == {"none", "background", "scoped"}

(* interval := ttl / 3, at least 2 seconds *)
Interval == IF TTL \div 3 < MinInterval THEN MinInterval ELSE TTL \div 3

ASSUME LockConstants ==
  /\ NoToken \notin Tokens
  /\ TTL \in Nat \ {0} /\ MinInterval \in Nat \ {0} /\ MaxDelay \in Nat
  /\ RetryCount \in Nat \ {0}
  /\ Backend \in {"redis", "local"}
  /\ Reliable \in BOOLEAN
  /\ Renewal \in [Clients -> RenewalModes]

(* A reliable renewal has room for a late start and a late Extend. *)
ASSUME RenewalFits == Reliable => Interval + 2 * MaxDelay <= TTL

VARIABLES
  entry,      \* what the backend stores under the key
  pc,         \* where the operation of each client is
  token,      \* the token a client was given
  attempt,    \* AcquireLock's loop counter
  renew,      \* the renewal goroutine: not running, waiting, Extend in flight
  timer,      \* time to the next tick of its ticker, negative when overdue
  cancelled   \* the context of the renewal is done

vars == <<entry, pc, token, attempt, renew, timer, cancelled>>
client == <<pc, token, attempt, renew, timer, cancelled>>

NoEntry == [token |-> NoToken, left |-> -1]

(* expiredLocked: an entry is expired once now is after its expiry. *)
Expired(e) == e.left < 0
Live(e) == e.token # NoToken /\ ~Expired(e)

(***************************************************************************)
(* The backends, as functions from the stored entry to the one they leave. *)
(***************************************************************************)
Granted(t) == [token |-> t, left |-> TTL]

(* Mutants: no token check, no renewal, a foreign token renewed. *)
UnlockedByAnyone(e, t) == NoEntry
ExtendLost(e, t) == e
ExtendedByAnyone(e, t) == IF Live(e) THEN [e EXCEPT !.left = TTL] ELSE e

RedisUnlocked(e, t) == IF Live(e) /\ e.token = t THEN NoEntry ELSE e
RedisExtended(e, t) == IF Live(e) /\ e.token = t THEN [e EXCEPT !.left = TTL] ELSE e

LocalUnlocked(e, t) == IF ~Live(e) \/ e.token = t THEN NoEntry ELSE e
LocalExtended(e, t) ==
  IF ~Live(e) THEN NoEntry
  ELSE IF e.token = t THEN [e EXCEPT !.left = TTL] ELSE e

Unlocked(e, t) == IF Backend = "redis" THEN RedisUnlocked(e, t) ELSE LocalUnlocked(e, t)
Extended(e, t) == IF Backend = "redis" THEN RedisExtended(e, t) ELSE LocalExtended(e, t)

(* Redis drops an expired key; the local map keeps the entry until it is   *)
(* looked at.                                                              *)
Aged(e) ==
  IF e.left > 0 THEN [e EXCEPT !.left = @ - 1]
  ELSE IF Backend = "redis" THEN NoEntry ELSE [e EXCEPT !.left = -1]

(* generateToken draws 128 random bits: never a token still in use. *)
FreshTokens == Tokens \ ({entry.token} \cup {token[c] : c \in Clients})

-----------------------------------------------------------------------------
Init ==
  /\ entry = NoEntry
  /\ pc = [c \in Clients |-> "idle"]
  /\ token = [c \in Clients |-> NoToken]
  /\ attempt = [c \in Clients |-> 0]
  /\ renew = [c \in Clients |-> "off"]
  /\ timer = [c \in Clients |-> 0]
  /\ cancelled = [c \in Clients |-> FALSE]

(* An operation starts.  A client stands for one operation after another;  *)
(* the goroutine of an earlier one may still be winding down.              *)
Start(c) ==
  /\ pc[c] = "idle" /\ renew[c] = "off"
  /\ pc' = [pc EXCEPT ![c] = "trying"]
  /\ attempt' = [attempt EXCEPT ![c] = 0]
  /\ UNCHANGED <<entry, token, renew, timer, cancelled>>

(* dl.Lock succeeds: the key is free, or its entry has expired. *)
LockOk(c) ==
  /\ pc[c] = "trying" /\ ~Live(entry)
  /\ \E t \in FreshTokens :
       /\ entry' = Granted(t)
       /\ token' = [token EXCEPT ![c] = t]
  /\ pc' = [pc EXCEPT ![c] = "locked"]
  /\ timer' = [timer EXCEPT ![c] = 0]
  /\ UNCHANGED <<attempt, renew, cancelled>>

(* Mutant: the attempts are not counted. *)
RetryForever(c) ==
  /\ pc[c] = "trying" /\ Live(entry)
  /\ UNCHANGED vars

(* Mutant: an attempt on a key that is taken sets its TTL anew. *)
ConflictRefreshes(c) ==
  /\ pc[c] = "trying" /\ Live(entry)
  /\ entry' = [entry EXCEPT !.left = TTL]
  /\ pc' = [pc EXCEPT ![c] = "idle"]
  /\ UNCHANGED <<token, attempt, renew, timer, cancelled>>

(* ErrLockConflict: wait and retry, or give up after RetryCount attempts. *)
LockConflict(c) ==
  /\ pc[c] = "trying" /\ Live(entry)
  /\ IF attempt[c] + 1 < RetryCount
       THEN attempt' = [attempt EXCEPT ![c] = @ + 1] /\ UNCHANGED pc
       ELSE pc' = [pc EXCEPT ![c] = "idle"] /\ UNCHANGED attempt
  /\ UNCHANGED <<entry, token, renew, timer, cancelled>>

(* Any other error ends the loop at once.  The SETNX may have been         *)
(* executed although its answer was lost: a lock nobody knows the token of.*)
LockError(c) ==
  /\ Backend = "redis" /\ pc[c] = "trying"
  /\ pc' = [pc EXCEPT ![c] = "idle"]
  /\ \/ UNCHANGED entry
     \/ ~Live(entry) /\ \E t \in FreshTokens : entry' = Granted(t)
  /\ UNCHANGED <<token, attempt, renew, timer, cancelled>>

(* The caller's 30s timeout ends the wait between two attempts. *)
GiveUp(c) ==
  /\ pc[c] = "trying" /\ attempt[c] > 0
  /\ pc' = [pc EXCEPT ![c] = "idle"]
  /\ UNCHANGED <<entry, token, attempt, renew, timer, cancelled>>

(* AcquireLock has returned; AcquireLockWithRenewal starts the goroutine.  *)
(* lockDirectory passes it a context that its own deferred cancel() ends   *)
(* when it returns ("scoped").                                             *)
Enter(c) ==
  /\ pc[c] = "locked"
  /\ pc' = [pc EXCEPT ![c] = "holding"]
  /\ renew' = [renew EXCEPT ![c] = IF Renewal[c] = "none" THEN "off" ELSE "wait"]
  /\ timer' = [timer EXCEPT ![c] = IF Renewal[c] = "none" THEN 0 ELSE Interval]
  /\ cancelled' = [cancelled EXCEPT ![c] = Renewal[c] = "scoped"]
  /\ UNCHANGED <<entry, token, attempt>>

(* The ticker fired: Extend is called.  With a context that is already     *)
(* done a Redis call fails at once, which is RenewStop; the local Extend   *)
(* does not look at its context.                                           *)
RenewSend(c) ==
  /\ renew[c] = "wait" /\ timer[c] <= 0
  /\ Backend = "redis" => ~cancelled[c]
  /\ renew' = [renew EXCEPT ![c] = "sent"]
  /\ UNCHANGED <<entry, pc, token, attempt, timer, cancelled>>

(* renewCtx is done: the goroutine returns. *)
RenewStop(c) ==
  /\ renew[c] = "wait" /\ cancelled[c]
  /\ renew' = [renew EXCEPT ![c] = "off"]
  /\ timer' = [timer EXCEPT ![c] = 0]
  /\ UNCHANGED <<entry, pc, token, attempt, cancelled>>

(* Extend answers.  The ticker keeps its pace, so a late Extend does not   *)
(* move the next tick.                                                     *)
RenewReply(c) ==
  /\ renew[c] = "sent"
  /\ entry' = Extended(entry, token[c])
  /\ IF Live(entry) /\ entry.token = token[c]
       THEN /\ renew' = [renew EXCEPT ![c] = "wait"]
            /\ timer' = [timer EXCEPT ![c] = @ + Interval]
       ELSE /\ renew' = [renew EXCEPT ![c] = "off"]
            /\ timer' = [timer EXCEPT ![c] = 0]
  /\ UNCHANGED <<pc, token, attempt, cancelled>>

(* Extend fails (its 5s timeout, the network, a cancelled context), with   *)
(* or without effect: the goroutine returns.                               *)
RenewError(c) ==
  /\ Backend = "redis" /\ renew[c] = "sent"
  /\ Reliable => cancelled[c]
  /\ entry' \in {entry, Extended(entry, token[c])}
  /\ renew' = [renew EXCEPT ![c] = "off"]
  /\ timer' = [timer EXCEPT ![c] = 0]
  /\ UNCHANGED <<pc, token, attempt, cancelled>>

(* The operation is over: the deferred cancelRenew runs first ... *)
Finish(c) ==
  /\ pc[c] = "holding"
  /\ pc' = [pc EXCEPT ![c] = "leaving"]
  /\ cancelled' = [cancelled EXCEPT ![c] = TRUE]
  /\ UNCHANGED <<entry, token, attempt, renew, timer>>

(* ... and then Unlock with the token. *)
Unlock(c) ==
  /\ pc[c] = "leaving"
  /\ pc' = [pc EXCEPT ![c] = "idle"]
  /\ entry' = Unlocked(entry, token[c])
  /\ UNCHANGED <<token, attempt, renew, timer, cancelled>>

(* The unlock call fails without effect; the callers only log it. *)
UnlockError(c) ==
  /\ Backend = "redis" /\ pc[c] = "leaving"
  /\ pc' = [pc EXCEPT ![c] = "idle"]
  /\ UNCHANGED <<entry, token, attempt, renew, timer, cancelled>>

(* The process of the client dies, and its goroutine with it.  The local   *)
(* map dies with the process too, so only Redis keeps the entry.           *)
Crash(c) ==
  /\ Backend = "redis" /\ pc[c] # "idle"
  /\ pc' = [pc EXCEPT ![c] = "idle"]
  /\ renew' = [renew EXCEPT ![c] = "off"]
  /\ timer' = [timer EXCEPT ![c] = 0]
  /\ UNCHANGED <<entry, token, attempt, cancelled>>

(* A renewal step that must happen before more time passes. *)
Pending(c) ==
  \/ pc[c] = "locked" /\ Renewal[c] # "none"
  \/ renew[c] # "off" /\ ~cancelled[c]
Timed(c) == pc[c] = "locked" \/ renew[c] # "off"

Tick ==
  /\ Reliable => \A c \in Clients : Pending(c) => timer[c] > -MaxDelay
  /\ entry' = Aged(entry)
  /\ timer' = [c \in Clients |->
                 IF Timed(c) /\ timer[c] > -MaxDelay THEN timer[c] - 1 ELSE timer[c]]
  /\ UNCHANGED <<pc, token, attempt, renew, cancelled>>

RenewStep(c) == RenewSend(c) \/ RenewStop(c) \/ RenewReply(c) \/ RenewError(c)

Step(c) ==
  \/ Start(c) \/ LockOk(c) \/ LockConflict(c) \/ LockError(c) \/ GiveUp(c)
  \/ Enter(c) \/ Finish(c) \/ Unlock(c) \/ UnlockError(c) \/ Crash(c)
  \/ RenewSend(c) \/ RenewStop(c) \/ RenewReply(c) \/ RenewError(c)

Next == Tick \/ \E c \in Clients : Step(c)

Spec == Init /\ [][Next]_vars

(* Time passes, AcquireLock's waits end, renewals and unlocks are run.  An *)
(* operation may hold the lock for ever.                                   *)
Fairness ==
  /\ WF_vars(Tick)
  /\ \A c \in Clients :
       /\ WF_vars(LockOk(c) \/ LockConflict(c))
       /\ WF_vars(Enter(c)) /\ WF_vars(Unlock(c) \/ UnlockError(c))
       /\ WF_vars(RenewStep(c))

FairSpec == Spec /\ Fairness

-----------------------------------------------------------------------------
(* The variables keep their types: no entry outlives its TTL and no        *)
(* renewal timer exceeds the interval.                                     *)
TypeOK ==
  /\ entry \in [token : Tokens \cup {NoToken}, left : -1 .. TTL]
  /\ pc \in [Clients -> {"idle", "trying", "locked", "holding", "leaving"}]
  /\ token \in [Clients -> Tokens \cup {NoToken}]
  /\ attempt \in [Clients -> 0 .. RetryCount - 1]
  /\ renew \in [Clients -> {"off", "wait", "sent"}]
  /\ timer \in [Clients -> -MaxDelay .. Interval]
  /\ cancelled \in [Clients -> BOOLEAN]

Holds(c) == Live(entry) /\ entry.token = token[c]

(***************************************************************************)
(* AcquireLockWithRenewal: an operation that runs with a renewal, however  *)
(* long it takes, owns the lock from its first step to its last, when      *)
(* renewals are served in time.                                            *)
(***************************************************************************)
RenewedHolderKeepsLock ==
  \A c \in Clients : Renewal[c] = "background" /\ pc[c] = "holding" => Holds(c)

(***************************************************************************)
(* README: file operations take the lock "to guarantee mutual exclusion    *)
(* across instances".  The operations that renew implement a mutex, on     *)
(* either backend and whatever other operations do, when renewals are      *)
(* served in time.                                                         *)
(***************************************************************************)
Lock == INSTANCE Mutex
  WITH inside <- {c \in Clients : Renewal[c] = "background" /\ pc[c] = "holding"}

ImplementsMutex == Lock!Spec

(***************************************************************************)
(* A live lock is removed, replaced or prolonged by its owner only: a late *)
(* Unlock or a late Extend of an earlier owner leaves it alone.            *)
(***************************************************************************)
OnlyOwnerTouchesLiveLock ==
  [][ Live(entry) =>
        /\ entry'.token # entry.token =>
             \/ entry.left = 0
             \/ \E c \in Clients : token[c] = entry.token /\ pc[c] = "leaving"
        /\ entry'.left > entry.left =>
             \E c \in Clients : token[c] = entry.token /\ renew[c] = "sent" ]_vars

(***************************************************************************)
(* The comment of lockDirectory: directory operations renew the lock and   *)
(* so do not lose it when the initial TTL expires.                         *)
(***************************************************************************)
DirectoryLockKept ==
  \A c \in Clients : Renewal[c] = "scoped" /\ pc[c] = "holding" => Holds(c)

Orphan(t) == \A c \in Clients : token[c] = t => pc[c] \in {"idle", "trying"}

(***************************************************************************)
(* A lock whose owner crashed, or whose token was lost with the answer of  *)
(* SETNX, does not stay: its TTL frees it.                                 *)
(***************************************************************************)
OrphanedLockExpires ==
  \A t \in Tokens :
    Live(entry) /\ entry.token = t /\ Orphan(t) ~> ~(Live(entry) /\ entry.token = t)

(***************************************************************************)
(* AcquireLock's loop ends, with the lock or with an error, even when the  *)
(* lock is never free.                                                     *)
(***************************************************************************)
AcquireEnds == \A c \in Clients : pc[c] = "trying" ~> pc[c] # "trying"
=============================================================================
