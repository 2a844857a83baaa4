--------------------------- MODULE BufferManager ---------------------------
(***************************************************************************)
(* The buffer manager of SimpleDB: a fixed pool of buffers to which blocks *)
(* are pinned, and the BufferList of each transaction, which counts the    *)
(* pins the transaction has.  BufferManager's methods run under one mutex, *)
(* and Pin waits on a condition variable until a buffer is free or it has  *)
(* waited too long.                                                        *)
(*                                                                         *)
(* A transaction is one thread; a step is what it does while it holds the  *)
(* mutex, or between two calls.  The values of a block are the numbers of  *)
(* the writes that made them.  The log is seen as Buffer::Flush sees it:   *)
(* the LSN it has handed out last and the LSN up to which it is on disk.   *)
(* That only one transaction at a time writes a block, until it commits,   *)
(* is the work of the lock table; here a variable says who does.           *)
(***************************************************************************)
EXTENDS Integers, FiniteSets, FiniteSetsExt

CONSTANTS
    Txn,        \* the transactions, each run by a thread of its own
    Block,      \* the disk blocks
    NumBuffs,   \* the number of buffers in the pool
    NoTxn,      \* the modifying transaction of a clean buffer
    NoBlock,    \* the block of a buffer never used, the request of an idle thread
    MaxWrites,  \* bound: how many writes there are
    MaxPins     \* bound: how many pins a transaction has on a block

ASSUME BufferManagerAssumption ==
    /\ NumBuffs \in Nat \ {0} /\ MaxWrites \in Nat /\ MaxPins \in Nat
    /\ NoTxn \notin Txn /\ NoBlock \notin Block
    /\ IsFiniteSet(Txn) /\ IsFiniteSet(Block)

VARIABLES
    pool,          \* buffer_pool_: the buffers, searched from the first on
    numAvailable,  \* num_available_
    list,          \* BufferList::buffers_ of each transaction
    phase,         \* the method the thread of a transaction is in
    want,          \* the block a transaction in Pin asks for
    asleep,        \* the threads waiting on the condition variable
    late,          \* the threads whose Pin has lasted longer than MAX_TIME
    disk,          \* the contents of the blocks on disk
    latestLsn,     \* the LSN of the last log record
    durableLsn,    \* the LSN up to which the log is on disk
    writer,        \* the transaction that has an exclusive lock on a block
    current        \* history: what was last written to a block

buffers == <<pool, numAvailable>>
calls == <<list, phase, want, asleep, late>>
log == <<latestLsn, durableLsn>>
vars == <<buffers, calls, disk, log, writer, current>>

Buff == 1..NumBuffs
Value == [val : 0..MaxWrites, lsn : -1..MaxWrites]
Zero == [val |-> 0, lsn |-> -1]     \* what a block is before any write

Buffer == [block : Block \cup {NoBlock}, pins : Nat, txn : Txn \cup {NoTxn},
           lsn : -1..MaxWrites, data : Value]
Entry == [buffer : 0..NumBuffs, count : 0..MaxPins]     \* of a buffer list
Phase == {"idle", "Pin", "UnpinAll"}

TypeOK ==
    /\ pool \in [Buff -> Buffer]
    /\ numAvailable \in 0..NumBuffs
    /\ list \in [Txn -> [Block -> Entry]]
    /\ phase \in [Txn -> Phase]
    /\ want \in [Txn -> Block \cup {NoBlock}]
    /\ asleep \subseteq Txn /\ late \subseteq Txn
    /\ disk \in [Block -> Value] /\ current \in [Block -> Value]
    /\ writer \in [Block -> Txn \cup {NoTxn}]
    /\ latestLsn \in 0..MaxWrites /\ durableLsn \in 0..latestLsn

Init ==
    /\ pool = [i \in Buff |-> [block |-> NoBlock, pins |-> 0, txn |-> NoTxn,
                               lsn |-> -1, data |-> Zero]]
    /\ numAvailable = NumBuffs
    /\ list = [t \in Txn |-> [b \in Block |-> [buffer |-> 0, count |-> 0]]]
    /\ phase = [t \in Txn |-> "idle"]
    /\ want = [t \in Txn |-> NoBlock]
    /\ asleep = {} /\ late = {}
    /\ disk = [b \in Block |-> Zero] /\ current = [b \in Block |-> Zero]
    /\ latestLsn = 0 /\ durableLsn = 0
    /\ writer = [b \in Block |-> NoTxn]

-----------------------------------------------------------------------------
(* Buffer *)
(* A definition D_Slip is D with a slip one could make in this code; some  *)
(* property below tells the two apart.                                     *)

IsPinned(i) == pool[i].pins > 0

DurableAfterFlush_PageOnly(lsn) == durableLsn

(* LogManager::Flush(lsn) *)
DurableAfterFlush(lsn) == IF lsn > durableLsn THEN latestLsn ELSE durableLsn

(* The buffer with its page written to disk, if it was dirty. *)
Clean(buffer) == [buffer EXCEPT !.txn = NoTxn]

Flush_LoggedOnly(S) ==
    LET dirty == {i \in S : pool[i].txn # NoTxn /\ pool[i].lsn >= 0} IN
    /\ durableLsn' = IF dirty = {} THEN durableLsn
                     ELSE DurableAfterFlush(Max({pool[i].lsn : i \in dirty}))
    /\ disk' = [b \in Block |->
                  IF \E i \in dirty : pool[i].block = b
                  THEN pool[CHOOSE i \in dirty : pool[i].block = b].data ELSE disk[b]]

(* Buffer::Flush of the buffers in S: the log first, then the pages. *)
Flush(S) ==
    LET dirty == {i \in S : pool[i].txn # NoTxn} IN
    /\ durableLsn' = IF dirty = {} THEN durableLsn
                     ELSE DurableAfterFlush(Max({pool[i].lsn : i \in dirty}))
    /\ disk' = [b \in Block |->
                  IF \E i \in dirty : pool[i].block = b
                  THEN pool[CHOOSE i \in dirty : pool[i].block = b].data ELSE disk[b]]

-----------------------------------------------------------------------------
(* BufferManager::Pin and BufferList::Pin *)

Existing_Pinned(b) == {i \in Buff : pool[i].block = b /\ IsPinned(i)}
Taken_Always(i) == 1

Existing(b) == {i \in Buff : pool[i].block = b}
Unpinned == {i \in Buff : ~IsPinned(i)}

(* What pinning i takes from num_available_. *)
Taken(i) == IF IsPinned(i) THEN 0 ELSE 1

(* TryToPin finds no buffer. *)
Unavailable(b) == Existing(b) = {} /\ Unpinned = {}

Call(t, b) ==
    /\ phase[t] = "idle"
    /\ list[t][b].count < MaxPins
    /\ phase' = [phase EXCEPT ![t] = "Pin"]
    /\ want' = [want EXCEPT ![t] = b]
    /\ UNCHANGED <<buffers, list, asleep, late, disk, log, writer, current>>

ReturnFromPin(t) ==
    /\ phase' = [phase EXCEPT ![t] = "idle"]
    /\ want' = [want EXCEPT ![t] = NoBlock]
    /\ late' = late \ {t}

(* The pin is counted in the list, which remembers the buffer. *)
Record(t, i) ==
    list' = [list EXCEPT ![t][want[t]] = [buffer |-> i, count |-> @.count + 1]]

(* A buffer that has the block already, pinned or not, gets one more pin. *)
PinExisting(t) ==
    /\ phase[t] = "Pin" /\ t \notin asleep
    /\ Existing(want[t]) # {}
    /\ LET i == Min(Existing(want[t])) IN
          /\ numAvailable' = numAvailable - Taken(i)
          /\ pool' = [pool EXCEPT ![i].pins = @ + 1]
          /\ Record(t, i)
    /\ ReturnFromPin(t)
    /\ UNCHANGED <<asleep, disk, log, writer, current>>

(* Else the first unpinned buffer is flushed, if dirty, and takes the block *)
(* from disk (Buffer::AssignToBlock).  It keeps its lsn_.                   *)
PinReplacing(t) ==
    /\ phase[t] = "Pin" /\ t \notin asleep
    /\ Existing(want[t]) = {} /\ Unpinned # {}
    /\ LET i == Min(Unpinned) IN
          /\ numAvailable' = numAvailable - Taken(i)
          /\ Flush({i})
          /\ pool' = [pool EXCEPT ![i] = [block |-> want[t], pins |-> 1, txn |-> NoTxn,
                                          lsn |-> @.lsn, data |-> disk[want[t]]]]
          /\ Record(t, i)
    /\ ReturnFromPin(t)
    /\ UNCHANGED <<asleep, latestLsn, writer, current>>

(* The time stamp is taken anew on every turn of the loop. *)
Wait_RestartsClock(t) ==
    /\ phase[t] = "Pin" /\ t \notin asleep
    /\ Unavailable(want[t])
    /\ asleep' = asleep \cup {t}
    /\ UNCHANGED <<buffers, list, phase, want, late, disk, log, writer, current>>

(* No buffer, and not too late: the thread waits. *)
Wait(t) ==
    /\ phase[t] = "Pin" /\ t \notin asleep \cup late
    /\ Unavailable(want[t])
    /\ asleep' = asleep \cup {t}
    /\ UNCHANGED <<buffers, list, phase, want, late, disk, log, writer, current>>

(* No buffer, and too late: Pin returns nullptr and BufferList::Pin throws. *)
GiveUp(t) ==
    /\ phase[t] = "Pin" /\ t \in late \ asleep
    /\ Unavailable(want[t])
    /\ ReturnFromPin(t)
    /\ UNCHANGED <<buffers, list, asleep, disk, log, writer, current>>

(* cv_.wait_for returns: MAX_TIME has passed, or a spurious wake-up. *)
WakeUp(t) ==
    /\ t \in asleep
    /\ asleep' = asleep \ {t}
    /\ UNCHANGED <<buffers, list, phase, want, late, disk, log, writer, current>>

(* The clock passes the time at which WaitingTooLong becomes true for t. *)
TimePasses(t) ==
    /\ phase[t] = "Pin" /\ t \notin late
    /\ late' = late \cup {t}
    /\ UNCHANGED <<buffers, list, phase, want, asleep, disk, log, writer, current>>

-----------------------------------------------------------------------------
(* BufferManager::Unpin, from BufferList::Unpin and from UnpinAll *)

Freed_Always(i) == 1
SleepersAfterUnpin_NotifyOne(i) ==
    IF pool[i].pins = 1 /\ asleep # {} THEN asleep \ {CHOOSE t \in asleep : TRUE} ELSE asleep

(* What unpinning i gives to num_available_. *)
Freed(i) == IF pool[i].pins = 1 THEN 1 ELSE 0

(* notify_all, when the last pin is gone. *)
SleepersAfterUnpin(i) == IF pool[i].pins = 1 THEN {} ELSE asleep

(* An entry of a buffer list with one pin less, erased if there is none. *)
Unlisted(entry) ==
    IF entry.count = 1 THEN [buffer |-> 0, count |-> 0] ELSE [entry EXCEPT !.count = @ - 1]

(* The last pin makes the buffer available and wakes every waiting thread. *)
Unpin(t, b) ==
    LET i == list[t][b].buffer IN
    /\ phase[t] \in {"idle", "UnpinAll"}
    /\ list[t][b].count > 0
    /\ pool' = [pool EXCEPT ![i].pins = @ - 1]
    /\ numAvailable' = numAvailable + Freed(i)
    /\ asleep' = SleepersAfterUnpin(i)
    /\ list' = [list EXCEPT ![t][b] = Unlisted(@)]
    /\ UNCHANGED <<phase, want, late, disk, log, writer, current>>

EndUnpinAll(t) ==
    /\ phase[t] = "UnpinAll"
    /\ \A b \in Block : list[t][b].count = 0
    /\ phase' = [phase EXCEPT ![t] = "idle"]
    /\ UNCHANGED <<buffers, list, want, asleep, late, disk, log, writer, current>>

-----------------------------------------------------------------------------
(* Transaction::SetInt and SetString on a pinned block, and the end of a transaction *)

(* The old value is logged unless the caller says not to; then the page    *)
(* changes and the buffer notes the writer and, if there is one, the LSN.  *)
Write(t, b, okToLog) ==
    LET i == list[t][b].buffer
        lsn == IF okToLog THEN latestLsn + 1 ELSE pool[i].lsn
        new == [val |-> 1 + Max({current[c].val : c \in Block}),
                lsn |-> IF okToLog THEN lsn ELSE current[b].lsn]
    IN
    /\ phase[t] = "idle" /\ list[t][b].count > 0
    /\ writer[b] \in {t, NoTxn}
    /\ new.val <= MaxWrites
    /\ writer' = [writer EXCEPT ![b] = t]
    /\ latestLsn' = IF okToLog THEN lsn ELSE latestLsn
    /\ pool' = [pool EXCEPT ![i].data = new, ![i].txn = t, ![i].lsn = lsn]
    /\ current' = [current EXCEPT ![b] = new]
    /\ UNCHANGED <<numAvailable, calls, disk, durableLsn>>

ModifiedBy_Pinned(t) == {i \in Buff : pool[i].txn = t /\ IsPinned(i)}

ModifiedBy(t) == {i \in Buff : pool[i].txn = t}

(* What Commit and Rollback do to the buffers: FlushAll writes the ones the *)
(* transaction has modified, its locks go after that, and its pins last.    *)
(* The record they add to the log in between is left to module Recovery.    *)
FlushAll(t) ==
    /\ phase[t] = "idle"
    /\ Flush(ModifiedBy(t))
    /\ pool' = [i \in Buff |-> IF i \in ModifiedBy(t) THEN Clean(pool[i]) ELSE pool[i]]
    /\ writer' = [b \in Block |-> IF writer[b] = t THEN NoTxn ELSE writer[b]]
    /\ phase' = [phase EXCEPT ![t] = "UnpinAll"]
    /\ UNCHANGED <<numAvailable, list, want, asleep, late, latestLsn, current>>

-----------------------------------------------------------------------------

(* What the thread of t does by itself once it is in a call. *)
Run(t) ==
    \/ PinExisting(t)
    \/ PinReplacing(t)
    \/ Wait(t)
    \/ GiveUp(t)
    \/ phase[t] = "UnpinAll" /\ \E b \in Block : Unpin(t, b)
    \/ EndUnpinAll(t)

Next ==
    \E t \in Txn :
        \/ Run(t)
        \/ WakeUp(t)
        \/ TimePasses(t)
        \/ FlushAll(t)
        \/ \E b \in Block :
              \/ Call(t, b)
              \/ phase[t] = "idle" /\ Unpin(t, b)
              \/ \E okToLog \in BOOLEAN : Write(t, b, okToLog)

Spec == Init /\ [][Next]_vars

(* The scheduler runs every runnable thread, wait_for returns after        *)
(* MAX_TIME at the latest, and the clock advances.                         *)
Fairness == \A t \in Txn : WF_vars(Run(t)) /\ WF_vars(WakeUp(t)) /\ WF_vars(TimePasses(t))

FairSpec == Spec /\ Fairness

-----------------------------------------------------------------------------
(* Properties *)

(* num_available_ counts the unpinned buffers.  It is changed on the paths  *)
(* where a pin count leaves or reaches zero, never recounted.               *)
NumAvailableCorrect == numAvailable = Cardinality(Unpinned)

(* A block is in one buffer at most, also when it is asked for again after  *)
(* its buffer was unpinned and before it is replaced.                       *)
OneBufferPerBlock ==
    \A i, j \in Buff : pool[i].block = pool[j].block /\ pool[i].block # NoBlock => i = j

(* The pins on a buffer that the buffer lists count: the transaction and    *)
(* the block of an entry, with a number up to its count.                    *)
Pins(i) ==
    {p \in (Txn \X Block) \X (1..MaxPins) :
        LET entry == list[p[1][1]][p[1][2]] IN entry.buffer = i /\ p[2] <= entry.count}

(* The pin count of a buffer is what the buffer lists of all transactions   *)
(* have pinned: nobody unpins what another one uses, and no pin is leaked.  *)
PinsMatchLists == \A i \in Buff : pool[i].pins = Cardinality(Pins(i))

(* The buffer a transaction remembers for a block it has pinned still holds *)
(* that block: replacement never takes it away.                             *)
PinnedBufferKeepsBlock ==
    \A t \in Txn, b \in Block :
        list[t][b].count > 0 => pool[list[t][b].buffer].block = b

(* The three accounts of the pins, in num_available_, in the buffers and in *)
(* the buffer lists, agree after any run of pins, unpins and replacements,  *)
(* calls that fail among them.                                              *)
PinsAreRight == NumAvailableCorrect /\ PinsMatchLists /\ PinnedBufferKeepsBlock

(* Replacement loses no write: the last value written to a block is in its  *)
(* buffer if it has one, else on disk.                                      *)
CachedOrOnDisk ==
    \A b \in Block :
        current[b] = IF Existing(b) # {} THEN pool[Min(Existing(b))].data ELSE disk[b]

(* The write-ahead rule: no value is on disk before the log record that     *)
(* undoes it, whether the page went there by FlushAll or by replacement.    *)
WriteAhead == \A b \in Block : disk[b].lsn <= durableLsn

(* When nobody has a block locked for writing, what was last written to it  *)
(* is on disk, even if its buffer was unpinned, replaced and read again     *)
(* between the write and the commit.                                        *)
CommittedIsOnDisk == \A b \in Block : writer[b] = NoTxn => disk[b] = current[b]

(* Nobody sleeps while the buffer it waits for could be had: when a buffer  *)
(* is free or has the block, the threads that wait have been notified.      *)
NobodySleepsWhileAvailable == \A t \in asleep : Unavailable(want[t])

(* Every Pin returns, with a buffer or with an exception, even if all the   *)
(* transactions wait for one another's buffers.                             *)
EveryPinReturns == \A t \in Txn : phase[t] = "Pin" ~> phase[t] # "Pin"

=============================================================================
