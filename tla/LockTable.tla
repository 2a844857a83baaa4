----------------------------- MODULE LockTable -----------------------------
(***************************************************************************)
(* The lock manager of SimpleDB: the global LockTable, whose methods run   *)
(* under one mutex and block on one condition variable, and the            *)
(* ConcurrencyManager of each transaction, which remembers the locks the   *)
(* transaction holds and calls the table for the ones it lacks.            *)
(*                                                                         *)
(* A transaction is one thread.  A step is what a thread does while it     *)
(* holds the mutex of the table, from taking it to giving it up or to      *)
(* sleeping on the condition variable.  Transaction::Commit and Rollback   *)
(* call ConcurrencyManager::Release, which unlocks one block at a time, so *)
(* other threads run between two unlocks.                                  *)
(***************************************************************************)
EXTENDS Integers, FiniteSets

CONSTANTS
    Txn,        \* the transactions, each run by a thread of its own
    Block,      \* the blocks they lock
    NoRequest   \* the request of a transaction that is asking for no lock

ASSUME LockTableAssumption ==
    /\ IsFiniteSet(Txn)
    /\ NoRequest \notin [block : Block, mode : {"shared", "exclusive"}]

VARIABLES
    lockVal,  \* LockTable::locks_: -1 exclusive, 0 free (no entry), n > 0 shared
    held,     \* ConcurrencyManager::locks_ of each transaction
    phase,    \* the method of LockTable the thread of a transaction is in
    want,     \* the request the transaction has made, or NoRequest
    asleep,   \* the threads waiting on the condition variable
    late      \* the threads whose call has lasted longer than MAX_TIME

vars == <<lockVal, held, phase, want, asleep, late>>

Mode == {"none", "shared", "exclusive"}
Request == [block : Block, mode : {"shared", "exclusive"}]
Phase == {"idle", "SharedLock", "ExclusiveLock", "Release"}

(* The transactions that hold one of the modes on b. *)
Holders(b, modes) == {t \in Txn : held[t][b] \in modes}

TypeOK ==
    /\ lockVal \in [Block -> Nat \cup {-1}]
    /\ held \in [Txn -> [Block -> Mode]]
    /\ phase \in [Txn -> Phase]
    /\ want \in [Txn -> Request \cup {NoRequest}]
    /\ asleep \subseteq Txn
    /\ late \subseteq Txn
    /\ \A t \in Txn : (want[t] = NoRequest) <=> (phase[t] \in {"idle", "Release"})
    /\ \A t \in asleep \cup late : phase[t] \in {"SharedLock", "ExclusiveLock"}

Init ==
    /\ lockVal = [b \in Block |-> 0]
    /\ held = [t \in Txn |-> [b \in Block |-> "none"]]
    /\ phase = [t \in Txn |-> "idle"]
    /\ want = [t \in Txn |-> NoRequest]
    /\ asleep = {}
    /\ late = {}

-----------------------------------------------------------------------------
(* LockTable *)

HasExclusiveLock(b) == lockVal[b] < 0

(* A definition D_Slip is D with a slip one could make in this code; some  *)
(* property below tells the two apart.                                     *)
HasOtherSharedLocks_OffByOne(b) == lockVal[b] > 2

HasOtherSharedLocks(b) == lockVal[b] > 1

AfterUnlock_CountsDown(b) == lockVal[b] - 1

AfterUnlock_Erases(b) == 0

(* The entry of b after Unlock(b): one reader less, or erased. *)
AfterUnlock(b) == IF lockVal[b] > 1 THEN lockVal[b] - 1 ELSE 0

SleepersAfterUnlock_Swapped(b) == IF lockVal[b] > 1 THEN {} ELSE asleep

(* The sleepers after Unlock(b): notify_all only when the entry is erased. *)
SleepersAfterUnlock(b) == IF lockVal[b] > 1 THEN asleep ELSE {}

(* The condition that the loop of the method t is in waits on. *)
Conflict(t) ==
    IF phase[t] = "SharedLock" THEN HasExclusiveLock(want[t].block)
                               ELSE HasOtherSharedLocks(want[t].block)

(* cv_.wait_for returns: MAX_TIME has passed, or a spurious wake-up. *)
WakeUp(t) ==
    /\ t \in asleep
    /\ asleep' = asleep \ {t}
    /\ UNCHANGED <<lockVal, held, phase, want, late>>

(* The clock passes the time at which WaitingTooLong becomes true for t. *)
TimePasses(t) ==
    /\ phase[t] \in {"SharedLock", "ExclusiveLock"}
    /\ t \notin late
    /\ late' = late \cup {t}
    /\ UNCHANGED <<lockVal, held, phase, want, asleep>>

(* The time stamp is taken anew on every turn of the loop. *)
Wait_RestartsClock(t) ==
    /\ phase[t] \in {"SharedLock", "ExclusiveLock"}
    /\ t \notin asleep
    /\ Conflict(t)
    /\ asleep' = asleep \cup {t}
    /\ UNCHANGED <<lockVal, held, phase, want, late>>

(* The loop finds a conflict and has not waited too long. *)
Wait(t) ==
    /\ phase[t] \in {"SharedLock", "ExclusiveLock"}
    /\ t \notin asleep \cup late
    /\ Conflict(t)
    /\ asleep' = asleep \cup {t}
    /\ UNCHANGED <<lockVal, held, phase, want, late>>

(* The loop gives up; LockAbortException leaves both lock maps as they are. *)
Abort(t) ==
    /\ phase[t] \in {"SharedLock", "ExclusiveLock"}
    /\ t \in late \ asleep
    /\ Conflict(t)
    /\ phase' = [phase EXCEPT ![t] = "idle"]
    /\ want' = [want EXCEPT ![t] = NoRequest]
    /\ late' = late \ {t}
    /\ UNCHANGED <<lockVal, held, asleep>>

(* SharedLock counts one more reader and returns; the concurrency manager  *)
(* records the lock, and goes on to ExclusiveLock if that is what its      *)
(* caller asked for (a new call, so a new time stamp).                     *)
GrantShared(t) ==
    LET b == want[t].block IN
    /\ phase[t] = "SharedLock"
    /\ t \notin asleep
    /\ ~Conflict(t)
    /\ lockVal' = [lockVal EXCEPT ![b] = @ + 1]
    /\ held' = [held EXCEPT ![t][b] = "shared"]
    /\ late' = late \ {t}
    /\ \/ /\ want[t].mode = "exclusive"
          /\ phase' = [phase EXCEPT ![t] = "ExclusiveLock"]
          /\ UNCHANGED want
       \/ /\ want[t].mode = "shared"
          /\ phase' = [phase EXCEPT ![t] = "idle"]
          /\ want' = [want EXCEPT ![t] = NoRequest]
    /\ UNCHANGED asleep

(* ExclusiveLock turns the only shared lock on b into an exclusive one. *)
GrantExclusive(t) ==
    LET b == want[t].block IN
    /\ phase[t] = "ExclusiveLock"
    /\ t \notin asleep
    /\ ~Conflict(t)
    /\ lockVal' = [lockVal EXCEPT ![b] = -1]
    /\ held' = [held EXCEPT ![t][b] = "exclusive"]
    /\ phase' = [phase EXCEPT ![t] = "idle"]
    /\ want' = [want EXCEPT ![t] = NoRequest]
    /\ late' = late \ {t}
    /\ UNCHANGED asleep

(* A lock is given back as soon as the access that needed it is over. *)
Unlock_OnePhase(t, b) ==
    /\ phase[t] \in {"idle", "Release"}
    /\ held[t][b] # "none"
    /\ lockVal' = [lockVal EXCEPT ![b] = AfterUnlock(b)]
    /\ asleep' = SleepersAfterUnlock(b)
    /\ held' = [held EXCEPT ![t][b] = "none"]
    /\ UNCHANGED <<phase, want, late>>

Unlock(t, b) ==
    /\ phase[t] = "Release"
    /\ held[t][b] # "none"
    /\ lockVal' = [lockVal EXCEPT ![b] = AfterUnlock(b)]
    /\ asleep' = SleepersAfterUnlock(b)
    /\ held' = [held EXCEPT ![t][b] = "none"]
    /\ UNCHANGED <<phase, want, late>>

-----------------------------------------------------------------------------
(* ConcurrencyManager *)

(* SharedLock and ExclusiveLock of the concurrency manager: a lock that is *)
(* already held is not asked for again, and an exclusive lock is asked for *)
(* in two calls, the shared one first unless some lock is already held.    *)
Ask(t, b, mode) ==
    /\ phase[t] = "idle"
    /\ held[t][b] # "exclusive"
    /\ mode = "shared" => held[t][b] = "none"
    /\ want' = [want EXCEPT ![t] = [block |-> b, mode |-> mode]]
    /\ phase' = [phase EXCEPT ![t] = IF held[t][b] = "none" THEN "SharedLock"
                                                            ELSE "ExclusiveLock"]
    /\ UNCHANGED <<lockVal, held, asleep, late>>

(* Release unlocks every block of locks_, then clears the map.  An entry   *)
(* counts as gone once its block is unlocked: nobody reads the map between *)
(* that and the clear.                                                     *)
BeginRelease(t) ==
    /\ phase[t] = "idle"
    /\ phase' = [phase EXCEPT ![t] = "Release"]
    /\ UNCHANGED <<lockVal, held, want, asleep, late>>

EndRelease(t) ==
    /\ phase[t] = "Release"
    /\ \A b \in Block : held[t][b] = "none"
    /\ phase' = [phase EXCEPT ![t] = "idle"]
    /\ UNCHANGED <<lockVal, held, want, asleep, late>>

-----------------------------------------------------------------------------

(* What the thread of t does by itself once it is in a call. *)
Run(t) ==
    \/ Wait(t)
    \/ Abort(t)
    \/ GrantShared(t)
    \/ GrantExclusive(t)
    \/ EndRelease(t)
    \/ \E b \in Block : Unlock(t, b)

Next ==
    \E t \in Txn :
        \/ Run(t)
        \/ WakeUp(t)
        \/ TimePasses(t)
        \/ BeginRelease(t)
        \/ \E b \in Block, mode \in {"shared", "exclusive"} : Ask(t, b, mode)

Spec == Init /\ [][Next]_vars

(* The scheduler runs every runnable thread, wait_for returns after        *)
(* MAX_TIME at the latest, and the clock advances.                         *)
Fairness == \A t \in Txn : WF_vars(Run(t)) /\ WF_vars(WakeUp(t)) /\ WF_vars(TimePasses(t))

FairSpec == Spec /\ Fairness

-----------------------------------------------------------------------------
(* Properties *)

(* A transaction that holds an exclusive lock on a block is the only one   *)
(* with any lock on it.  The table never names a holder: that the count of *)
(* 1 it upgrades from is the caller's own shared lock is what could fail.  *)
Exclusion ==
    \A b \in Block : \A t, u \in Txn :
        t # u /\ held[t][b] = "exclusive" => held[u][b] = "none"

(* The number kept in the table agrees with the maps the transactions      *)
(* keep: -1 for one exclusive holder, else the number of shared holders.   *)
(* A path that grants, aborts or releases in one and not the other would   *)
(* leave a block locked for ever or unlock somebody else's lock.           *)
CountMatchesHolders ==
    \A b \in Block :
        lockVal[b] = IF Holders(b, {"exclusive"}) # {} THEN -1
                     ELSE Cardinality(Holders(b, {"shared"}))

(* No reader sleeps through the release it waits for: while it sleeps, the *)
(* exclusive lock is still there.  Unlock notifies only on some paths.     *)
NoReaderSleepsThroughRelease ==
    \A t \in asleep : phase[t] = "SharedLock" => HasExclusiveLock(want[t].block)

(* lock_table.h says of ExclusiveLock that the caller is put on a wait     *)
(* list "until the locks are released": an upgrade that sleeps still has   *)
(* another reader to wait for.  The code does not do this: Unlock does not *)
(* notify when it takes the count from 2 to 1.                             *)
NoUpgradeSleepsThroughRelease ==
    \A t \in asleep : phase[t] = "ExclusiveLock" => HasOtherSharedLocks(want[t].block)

(* Whatever the others do, deadlock included, every call returns: a        *)
(* request ends with the lock or with LockAbortException, also when an     *)
(* exclusive request runs both loops, and a release runs to its end.       *)
EveryCallReturns ==
    \A t \in Txn : phase[t] # "idle" ~> phase[t] = "idle"

(* The lock table and the concurrency managers implement two-phase shared  *)
(* and exclusive locks.                                                    *)
Abstract == INSTANCE LockSpec WITH releasing <- {t \in Txn : phase[t] = "Release"}

ImplementsLockSpec == Abstract!Spec

=============================================================================
