--------------------------- MODULE DistLock_proofs ---------------------------
(***************************************************************************)
(* Proofs about the two locks of the system.  First DistLock, for any      *)
(* number of clients, any TTL, any renewal delay that fits it, both        *)
(* backends and any mix of lock modes.  Then FileLocks, the mutexes inside *)
(* one process, instantiated as F: for any number of goroutines and        *)
(* mutexes.                                                                *)
(***************************************************************************)
EXTENDS DistLock, TLAPS

CONSTANTS Workers, Mutexes, NoMutex    \* the constants of FileLocks

VARIABLES map, locked, at, val, exists, cleaner, seen, removed, fatal   \* and its variables

F == INSTANCE FileLocks WITH pc <- at

(* A renewal interval is at least the floor minRenewInterval. *)
LEMMA IntervalPositive == Interval \in Nat \ {0}
  BY LockConstants DEF Interval

(***************************************************************************)
(* Every action keeps the type invariant; that a renewal timer never       *)
(* exceeds the interval needs that an Extend is only sent once due.        *)
(***************************************************************************)
TypeInv == TypeOK /\ \A c \in Clients : renew[c] = "sent" => timer[c] <= 0

(* Every action keeps the types. *)
LEMMA TypeStep == TypeInv /\ [Next]_vars => TypeInv'
<1> SUFFICES ASSUME TypeInv, [Next]_vars PROVE TypeInv'
  OBVIOUS
<1> USE LockConstants, IntervalPositive DEF TypeInv, TypeOK
<1>1. CASE Tick
  BY <1>1, SMTT(30) DEF Tick, Aged, NoEntry, Timed
<1>2. ASSUME NEW c \in Clients, Step(c) PROVE TypeInv'
  <2>1. CASE Start(c) BY <2>1 DEF Start
  <2>2. CASE LockOk(c) BY <2>2 DEF LockOk, Granted, FreshTokens
  <2>3. CASE LockConflict(c) BY <2>3 DEF LockConflict
  <2>4. CASE LockError(c) BY <2>4 DEF LockError, Granted, FreshTokens
  <2>5. CASE GiveUp(c) BY <2>5 DEF GiveUp
  <2>6. CASE Enter(c) BY <2>6 DEF Enter
  <2>7. CASE Finish(c) BY <2>7 DEF Finish
  <2>8. CASE Unlock(c)
    BY <2>8 DEF Unlock, Unlocked, RedisUnlocked, LocalUnlocked, NoEntry
  <2>9. CASE UnlockError(c) BY <2>9 DEF UnlockError
  <2>10. CASE Crash(c) BY <2>10 DEF Crash
  <2>11. CASE RenewSend(c) BY <2>11 DEF RenewSend
  <2>12. CASE RenewStop(c) BY <2>12 DEF RenewStop
  <2>13. CASE RenewReply(c)
    BY <2>13 DEF RenewReply, Extended, RedisExtended, LocalExtended, NoEntry
  <2>14. CASE RenewError(c)
    BY <2>14 DEF RenewError, Extended, RedisExtended, LocalExtended, NoEntry
  <2> QED
    BY <1>2, <2>1, <2>2, <2>3, <2>4, <2>5, <2>6, <2>7, <2>8, <2>9, <2>10,
       <2>11, <2>12, <2>13, <2>14 DEF Step
<1>3. CASE UNCHANGED vars
  BY <1>3 DEF vars
<1> QED
  BY <1>1, <1>2, <1>3 DEF Next

(***************************************************************************)
(* The inductive invariant.  Tokens tell clients apart.  A renewing client *)
(* owns the entry, which has enough time left for the goroutine to start   *)
(* and then for its next Extend: entry and timer run down together, so     *)
(* their difference only changes when the lock is granted or extended.     *)
(***************************************************************************)
DistinctTokens ==
  \A c, d \in Clients : token[c] # NoToken /\ token[c] = token[d] => c = d

Owned(c) ==
  /\ pc[c] \in {"trying", "locked"} => renew[c] = "off"
  /\ pc[c] \in {"locked", "holding"} => Holds(c)
  /\ pc[c] = "locked" => timer[c] <= 0 /\ entry.left = TTL + timer[c]
  /\ pc[c] = "holding" =>
       /\ renew[c] # "off" /\ ~cancelled[c]
       /\ entry.left >= timer[c] + TTL - Interval - MaxDelay

LockInv ==
  /\ TypeInv
  /\ DistinctTokens
  /\ Reliable => \A c \in Clients : Renewal[c] = "background" => Owned(c)

(* The lock starts free, with no client and no token. *)
LEMMA InitInv == Init => LockInv
  BY LockConstants, IntervalPositive, SMTT(30)
     DEF Init, LockInv, TypeInv, TypeOK, DistinctTokens, Owned, NoEntry

(* generateToken never hands out a token that is in use. *)
LEMMA DistinctStep == TypeOK /\ DistinctTokens /\ [Next]_vars => DistinctTokens'
<1> SUFFICES ASSUME TypeOK, DistinctTokens, [Next]_vars PROVE DistinctTokens'
  OBVIOUS
<1>1. ASSUME NEW c \in Clients, LockOk(c) PROVE DistinctTokens'
  BY <1>1, LockConstants DEF LockOk, FreshTokens, TypeOK, DistinctTokens
<1>2. CASE UNCHANGED token
  BY <1>2, Zenon DEF DistinctTokens
<1> QED
  BY <1>1, <1>2 DEF Next, Step, Tick, Start, LockConflict, LockError, GiveUp,
     Enter, Finish, Unlock, UnlockError, Crash, RenewSend, RenewStop,
     RenewReply, RenewError, vars

(***************************************************************************)
(* A renewing client keeps its lock across every step.                     *)
(***************************************************************************)
LEMMA OwnedStep ==
  ASSUME LockInv, [Next]_vars, Reliable,
         NEW c \in Clients, Renewal[c] = "background"
  PROVE  Owned(c)'
<1> USE LockConstants, IntervalPositive, RenewalFits
    DEF LockInv, TypeInv, TypeOK, Owned, Holds, Live, Expired
<1>1. CASE Tick
  <2>1. Pending(c) => timer[c] > -MaxDelay
    BY <1>1 DEF Tick
  <2>2. Timed(c) /\ timer[c] > -MaxDelay => timer'[c] = timer[c] - 1
    BY <1>1 DEF Tick
  <2>3. CASE pc[c] = "locked"
    <3>1. timer'[c] = timer[c] - 1 /\ timer[c] > -MaxDelay
      BY <2>1, <2>2, <2>3 DEF Pending, Timed
    <3>2. entry.left > 0
      BY <2>3, <3>1
    <3> QED BY <1>1, <2>3, <3>1, <3>2 DEF Tick, Aged
  <2>4. CASE pc[c] = "holding"
    <3>1. timer'[c] = timer[c] - 1 /\ timer[c] > -MaxDelay
      BY <2>1, <2>2, <2>4 DEF Pending, Timed
    <3>2. entry.left > 0
      BY <2>4, <3>1
    <3> QED BY <1>1, <2>4, <3>1, <3>2 DEF Tick, Aged
  <2> QED BY <1>1, <2>3, <2>4 DEF Tick
<1>2. ASSUME NEW d \in Clients, Step(d), d # c PROVE Owned(c)'
  <2>1. pc'[c] = pc[c] /\ token'[c] = token[c] /\ renew'[c] = renew[c]
        /\ timer'[c] = timer[c] /\ cancelled'[c] = cancelled[c]
    BY <1>2 DEF Step, Start, LockOk, LockConflict, LockError, GiveUp, Enter,
       Finish, Unlock, UnlockError, Crash, RenewSend, RenewStop, RenewReply, RenewError
  <2>2. ASSUME Holds(c) PROVE entry' = entry
    <3>1. token[d] # entry.token
      BY <1>2, <2>2 DEF DistinctTokens
    <3>2. CASE LockOk(d) \/ LockError(d)
      BY <2>2, <3>2 DEF LockOk, LockError
    <3>3. CASE Unlock(d)
      BY <2>2, <3>1, <3>3 DEF Unlock, Unlocked, RedisUnlocked, LocalUnlocked
    <3>4. CASE RenewReply(d) \/ RenewError(d)
      BY <2>2, <3>1, <3>4 DEF RenewReply, RenewError, Extended, RedisExtended, LocalExtended
    <3> QED
      BY <1>2, <3>2, <3>3, <3>4 DEF Step, Start, LockConflict, GiveUp, Enter,
         Finish, UnlockError, Crash, RenewSend, RenewStop
  <2> QED BY <2>1, <2>2, SMTT(30)
<1>3. CASE Start(c) BY <1>3 DEF Start
<1>4. CASE LockOk(c) BY <1>4 DEF LockOk, Granted, FreshTokens
<1>5. CASE LockConflict(c) BY <1>5 DEF LockConflict
<1>6. CASE LockError(c) BY <1>6 DEF LockError
<1>7. CASE GiveUp(c) BY <1>7 DEF GiveUp
<1>8. CASE Enter(c)
  <2>1. ~cancelled'[c]
    <3>1. cancelled'[c] = (Renewal[c] = "scoped")
      BY <1>8, Zenon DEF Enter
    <3> QED BY <3>1, Zenon
  <2>2. /\ pc[c] = "locked" /\ pc'[c] = "holding" /\ renew'[c] = "wait"
        /\ timer'[c] = Interval /\ entry' = entry /\ token' = token
    BY <1>8 DEF Enter
  <2> QED BY <2>1, <2>2
<1>9. CASE Finish(c) BY <1>9 DEF Finish
<1>10. CASE Unlock(c) BY <1>10 DEF Unlock
<1>11. CASE UnlockError(c) BY <1>11 DEF UnlockError
<1>12. CASE Crash(c) BY <1>12 DEF Crash
<1>13. CASE RenewSend(c) BY <1>13 DEF RenewSend
<1>14. CASE RenewStop(c) BY <1>14 DEF RenewStop
<1>15. CASE RenewReply(c)
  <2>1. CASE pc[c] = "locked"
    BY <1>15, <2>1 DEF RenewReply
  <2>2. CASE pc[c] = "holding"
    BY <1>15, <2>2 DEF RenewReply, Extended, RedisExtended, LocalExtended
  <2> QED BY <1>15, <2>1, <2>2 DEF RenewReply
<1>16. CASE RenewError(c) BY <1>16 DEF RenewError
<1>17. CASE UNCHANGED vars BY <1>17 DEF vars
<1> QED
  BY <1>1, <1>2, <1>3, <1>4, <1>5, <1>6, <1>7, <1>8, <1>9, <1>10, <1>11,
     <1>12, <1>13, <1>14, <1>15, <1>16, <1>17, ZenonT(30) DEF Next, Step

(***************************************************************************)
(* The invariant of every reachable state.                                 *)
(***************************************************************************)
THEOREM LockInvariant == Spec => []LockInv
<1>1. LockInv /\ [Next]_vars => LockInv'
  <2> SUFFICES ASSUME LockInv, [Next]_vars PROVE LockInv'
    OBVIOUS
  <2>1. TypeInv' BY TypeStep DEF LockInv
  <2>2. DistinctTokens' BY DistinctStep DEF LockInv, TypeInv
  <2>3. ASSUME Reliable, NEW c \in Clients, Renewal[c] = "background"
        PROVE  Owned(c)'
    BY <2>3, OwnedStep
  <2> QED BY <2>1, <2>2, <2>3 DEF LockInv
<1> QED BY InitInv, <1>1, PTL DEF Spec

(***************************************************************************)
(* DistLock's variables keep their types.                                  *)
(***************************************************************************)
THEOREM TypeCorrect == Spec => []TypeOK
<1>1. LockInv => TypeOK BY DEF LockInv, TypeInv
<1> QED BY LockInvariant, <1>1, PTL

(***************************************************************************)
(* AcquireLockWithRenewal with timely renewals: the operation owns the     *)
(* lock until it is over, whatever its length and the other clients do.    *)
(***************************************************************************)
THEOREM RenewedLockIsKept == Reliable /\ Spec => []RenewedHolderKeepsLock
<1> SUFFICES ASSUME Reliable PROVE Spec => []RenewedHolderKeepsLock
  OBVIOUS
<1>1. LockInv => RenewedHolderKeepsLock
  BY DEF LockInv, Owned, RenewedHolderKeepsLock
<1> QED BY LockInvariant, <1>1, PTL

(***************************************************************************)
(* ... and so the operations that renew implement the Mutex of the README. *)
(***************************************************************************)
THEOREM MutexImplemented == Reliable /\ Spec => ImplementsMutex
<1> SUFFICES ASSUME Reliable PROVE Spec => ImplementsMutex
  OBVIOUS
<1> DEFINE in == {c \in Clients : Renewal[c] = "background" /\ pc[c] = "holding"}
<1>1. Init => Lock!Init
  BY SMTT(30) DEF Init, Lock!Init
<1>2. LockInv /\ [Next]_vars => [Lock!Next]_in
  <2> SUFFICES ASSUME LockInv, [Next]_vars PROVE [Lock!Next]_in
    OBVIOUS
  <2>0. pc \in [Clients -> {"idle", "trying", "locked", "holding", "leaving"}]
    BY DEF LockInv, TypeInv, TypeOK
  <2>1. ASSUME NEW c \in Clients, Enter(c), Renewal[c] = "background"
        PROVE  Lock!Acquire(c)
    <3>1. ASSUME NEW d \in in PROVE FALSE
      <4>1. Owned(c) /\ Owned(d) /\ pc[c] = "locked" /\ pc[d] = "holding" /\ d \in Clients
        BY <2>1, <3>1 DEF LockInv, Enter
      <4>2. token[c] = token[d] /\ token[c] # NoToken
        BY <4>1 DEF Owned, Holds, Live
      <4>3. c = d
        BY <4>1, <4>2 DEF LockInv, DistinctTokens
      <4> QED BY <4>1, <4>3
    <3>2. in = {}
      BY <3>1
    <3>3. in' = {c}
      BY <2>0, <2>1, <3>2 DEF Enter
    <3> QED BY <3>2, <3>3 DEF Lock!Acquire
  <2>2. ASSUME NEW c \in Clients, Finish(c) \/ Crash(c), c \in in
        PROVE  Lock!Release(c)
    BY <2>0, <2>2 DEF Finish, Crash, Lock!Release
  <2>3. ASSUME NEW c \in Clients, Step(c),
               ~(Enter(c) /\ Renewal[c] = "background"),
               ~((Finish(c) \/ Crash(c)) /\ c \in in)
        PROVE  in' = in
    <3>1. \A d \in Clients : Renewal[d] = "background" =>
            (pc'[d] = "holding" <=> pc[d] = "holding")
      BY <2>0, <2>3, SMTT(30) DEF Step, Start, LockOk, LockConflict, LockError, GiveUp,
         Enter, Finish, Unlock, UnlockError, Crash, RenewSend, RenewStop,
         RenewReply, RenewError
    <3> QED BY <3>1, SMTT(30)
  <2>4. CASE Tick \/ UNCHANGED vars
    BY <2>4 DEF Tick, vars
  <2> QED BY <2>1, <2>2, <2>3, <2>4 DEF Next, Lock!Next
<1> QED BY LockInvariant, <1>1, <1>2, PTL DEF Spec, ImplementsMutex, Lock!Spec

(***************************************************************************)
(* Neither a late Unlock nor a late Extend of an earlier owner touches a   *)
(* live lock.  This needs no assumption on renewals or failures.           *)
(***************************************************************************)
THEOREM LiveLockSafe == Spec => OnlyOwnerTouchesLiveLock
<1> DEFINE A ==
      Live(entry) =>
        /\ entry'.token # entry.token =>
             \/ entry.left = 0
             \/ \E c \in Clients : token[c] = entry.token /\ pc[c] = "leaving"
        /\ entry'.left > entry.left =>
             \E c \in Clients : token[c] = entry.token /\ renew[c] = "sent"
<1>1. LockInv /\ [Next]_vars => [A]_vars
  <2> SUFFICES ASSUME LockInv, [Next]_vars, Live(entry) PROVE A
    OBVIOUS
  <2> USE LockConstants DEF LockInv, TypeInv, TypeOK
  <2>1. CASE Tick
    BY <2>1 DEF Tick, Aged, NoEntry, Live, Expired
  <2>2. ASSUME NEW c \in Clients, Unlock(c) PROVE A
    <3>1. \/ entry' = entry
          \/ entry.token = token[c] /\ entry' = NoEntry
      BY <2>2 DEF Unlock, Unlocked, RedisUnlocked, LocalUnlocked
    <3>2. pc[c] = "leaving"
      BY <2>2 DEF Unlock
    <3> QED BY <3>1, <3>2 DEF NoEntry, Live, Expired
  <2>3. ASSUME NEW c \in Clients, RenewReply(c) \/ RenewError(c) PROVE A
    <3>1. entry' = entry \/ entry' = Extended(entry, token[c])
      BY <2>3 DEF RenewReply, RenewError
    <3>2. \/ entry' = entry
          \/ entry.token = token[c] /\ entry' = [entry EXCEPT !.left = TTL]
      BY <3>1 DEF Extended, RedisExtended, LocalExtended
    <3>3. renew[c] = "sent"
      BY <2>3 DEF RenewReply, RenewError
    <3> QED BY <3>2, <3>3
  <2>4. CASE UNCHANGED entry
    BY <2>4
  <2> QED
    BY <2>1, <2>2, <2>3, <2>4 DEF Next, Step, Start, LockOk, LockConflict,
       LockError, GiveUp, Enter, Finish, UnlockError, Crash, RenewSend,
       RenewStop, vars
<1> QED BY LockInvariant, <1>1, PTL DEF Spec, OnlyOwnerTouchesLiveLock

-----------------------------------------------------------------------------
(***************************************************************************)
(* FileLocks.  An instance's assumption is not one of this module, so      *)
(* every statement about F has F!LockMapConstants as a hypothesis.         *)
(* The goroutines that hold the mutex they loaded:                         *)
(***************************************************************************)
LockedIn(w) == at[w] \in {"holding", "done", "unlocking"}

(***************************************************************************)
(* The inductive invariant.  Until an entry is removed there is one mutex: *)
(* whoever is on the way in or out has loaded it, and it is locked for one *)
(* owner, a goroutine or the probing cleaner.                              *)
(***************************************************************************)
OneMutex ==
  /\ ~fatal
  /\ \A w \in Workers : at[w] # "idle" => val[w] = map /\ map \in Mutexes
  /\ cleaner # "idle" => seen = map /\ map \in Mutexes
  /\ \A w \in Workers : LockedIn(w) =>
       map \in locked /\ cleaner # "unlocking" /\ \A v \in Workers : LockedIn(v) => v = w
  /\ cleaner = "unlocking" => map \in locked

(* A goroutine waits for a mutex it has loaded. *)
FileTypeInv == F!TypeOK /\ \A w \in Workers : at[w] = "locking" => val[w] \in Mutexes

LocksInv == FileTypeInv /\ (~removed => OneMutex)

(***************************************************************************)
(* Every action keeps the types.                                           *)
(***************************************************************************)
LEMMA FileTypeStep ==
  ASSUME F!LockMapConstants, FileTypeInv, [F!Next]_(F!vars)
  PROVE  FileTypeInv'
<1> USE DEF F!LockMapConstants, FileTypeInv, F!TypeOK
<1>1. ASSUME NEW w \in Workers, F!WorkerStep(w) PROVE FileTypeInv'
  <2>1. CASE F!LoadOrStore(w)
    <3>1. CASE map # NoMutex BY <2>1, <3>1 DEF F!LoadOrStore
    <3>2. CASE map = NoMutex
      <4>1. PICK m \in Mutexes :
              map' = m /\ val' = [val EXCEPT ![w] = m] /\ locked' = locked \ {m}
        BY <2>1, <3>2, Zenon DEF F!LoadOrStore, F!Unreferenced
      <4> QED BY <2>1, <4>1 DEF F!LoadOrStore
    <3> QED BY <3>1, <3>2
  <2>2. CASE F!LockFile(w) BY <2>2 DEF F!LockFile
  <2>3. CASE F!Operate(w) BY <2>3 DEF F!Operate
  <2>4. CASE F!LoadForUnlock(w) BY <2>4 DEF F!LoadForUnlock
  <2>5. CASE F!UnlockFile(w) BY <2>5 DEF F!UnlockFile, F!MutexUnlock
  <2> QED BY <1>1, <2>1, <2>2, <2>3, <2>4, <2>5 DEF F!WorkerStep
<1>2. CASE F!CleanStep
  BY <1>2, Zenon DEF F!CleanStep, F!CleanTryLock, F!CleanUnlock, F!CleanCheck, F!CleanDelete,
     F!MutexUnlock
<1>3. CASE UNCHANGED F!vars
  BY <1>3 DEF F!vars
<1> QED BY <1>1, <1>2, <1>3 DEF F!Next

(***************************************************************************)
(* Every action keeps the one mutex, until CleanDelete removes the entry.  *)
(***************************************************************************)
LEMMA OneMutexStep ==
  ASSUME F!LockMapConstants, FileTypeInv, OneMutex, [F!Next]_(F!vars), ~removed'
  PROVE  OneMutex'
<1> USE DEF F!LockMapConstants, FileTypeInv, F!TypeOK, OneMutex, LockedIn
<1>1. ASSUME NEW w \in Workers, F!WorkerStep(w) PROVE OneMutex'
  <2>1. CASE F!LoadOrStore(w)
    <3>1. CASE map # NoMutex BY <2>1, <3>1 DEF F!LoadOrStore
    <3>2. CASE map = NoMutex
      <4>1. PICK m \in Mutexes :
              map' = m /\ val' = [val EXCEPT ![w] = m] /\ locked' = locked \ {m}
        BY <2>1, <3>2, Zenon DEF F!LoadOrStore, F!Unreferenced
      <4>2. cleaner = "idle" /\ \A v \in Workers : at[v] = "idle"
        BY <3>2
      <4> QED BY <2>1, <4>1, <4>2 DEF F!LoadOrStore
    <3> QED BY <3>1, <3>2
  <2>2. CASE F!LockFile(w) BY <2>2 DEF F!LockFile
  <2>3. CASE F!Operate(w) BY <2>3 DEF F!Operate
  <2>4. CASE F!LoadForUnlock(w) BY <2>4 DEF F!LoadForUnlock
  <2>5. CASE F!UnlockFile(w) BY <2>5 DEF F!UnlockFile, F!MutexUnlock
  <2> QED BY <1>1, <2>1, <2>2, <2>3, <2>4, <2>5 DEF F!WorkerStep
<1>2. CASE F!CleanTryLock BY <1>2 DEF F!CleanTryLock
<1>3. CASE F!CleanUnlock BY <1>3 DEF F!CleanUnlock, F!MutexUnlock
<1>4. CASE F!CleanCheck BY <1>4 DEF F!CleanCheck
<1>5. CASE F!CleanDelete BY <1>5 DEF F!CleanDelete
<1>6. CASE UNCHANGED F!vars BY <1>6 DEF F!vars
<1> QED BY <1>1, <1>2, <1>3, <1>4, <1>5, <1>6 DEF F!Next, F!CleanStep

(***************************************************************************)
(* The invariant of every reachable state.                                 *)
(***************************************************************************)
THEOREM LocksInvariant == F!LockMapConstants /\ F!Spec => []LocksInv
<1> SUFFICES ASSUME F!LockMapConstants PROVE F!Spec => []LocksInv
  OBVIOUS
<1>1. F!Init => LocksInv
  BY Zenon DEF F!LockMapConstants, F!Init, LocksInv, FileTypeInv, F!TypeOK, OneMutex,
     LockedIn
<1>2. LocksInv /\ [F!Next]_(F!vars) => LocksInv'
  <2> SUFFICES ASSUME LocksInv, [F!Next]_(F!vars) PROVE LocksInv'
    OBVIOUS
  <2>1. FileTypeInv' BY FileTypeStep DEF LocksInv
  <2>2. ~removed' => ~removed
    BY DEF F!Next, F!WorkerStep, F!CleanStep, F!LoadOrStore, F!LockFile, F!Operate,
       F!LoadForUnlock, F!UnlockFile, F!CleanTryLock, F!CleanUnlock, F!CleanCheck,
       F!CleanDelete, F!vars
  <2>3. ~removed' => OneMutex' BY <2>2, OneMutexStep DEF LocksInv
  <2> QED BY <2>1, <2>3 DEF LocksInv
<1> QED BY <1>1, <1>2, PTL DEF F!Spec

(***************************************************************************)
(* FileLocks' variables keep their types.                                  *)
(***************************************************************************)
THEOREM FileTypeCorrect == F!LockMapConstants /\ F!Spec => []F!TypeOK
<1>1. LocksInv => F!TypeOK BY DEF LocksInv, FileTypeInv
<1> QED BY LocksInvariant, <1>1, PTL

(***************************************************************************)
(* lockFile and unlockFile exclude each other, and unlock only what they   *)
(* locked, as long as CleanFileLocks has removed nothing.                  *)
(***************************************************************************)
THEOREM LocksSound == F!LockMapConstants /\ F!Spec => []F!SoundUntilRemoved
<1>1. LocksInv => F!SoundUntilRemoved
  BY DEF LocksInv, FileTypeInv, OneMutex, LockedIn, F!SoundUntilRemoved, F!NoLockEscape,
     F!Inside
<1> QED BY LocksInvariant, <1>1, PTL
==============================================================================
