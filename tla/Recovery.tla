------------------------------ MODULE Recovery ------------------------------
(***************************************************************************)
(* Transactions of SimpleDB and their recovery: Transaction's SetInt and   *)
(* SetString, Commit, Rollback and Recover, the RecoveryManager they call, *)
(* and SimpleDB's constructor, which recovers the database when the        *)
(* program starts, over what the log manager, the buffer pool and the lock *)
(* table do for them.  The program crashes between any two steps.          *)
(*                                                                         *)
(* A block has one value, the number of the write that made it.  The log   *)
(* is one sequence of which a prefix is on disk (module LogManager shows   *)
(* it to be that); the position of a record is its LSN.  A block is always *)
(* in a buffer here: one that is clean may as well not be, and a dirty one *)
(* may be replaced, which writes it, at any time (module BufferManager).   *)
(* Of the locks only the exclusive ones matter here (module LockTable): a  *)
(* reader gets in where no exclusive lock is held.                         *)
(***************************************************************************)
EXTENDS Integers, Sequences, FiniteSetsExt

CONSTANTS
    Block,       \* the blocks
    NoBlock,     \* the block of a record that has none
    NoVal,       \* pending value of a block not written, see Abstract
    MaxClients,  \* bound: how many client transactions begin, over all runs
    MaxWrites,   \* bound: how many values are written
    MaxCrashes,  \* bound: how many times the program crashes
    MaxEvents    \* bound: how many clients begin and crashes come, in all

ASSUME RecoveryAssumption ==
    /\ NoVal \notin Nat /\ NoBlock \notin Block
    /\ MaxClients \in Nat /\ MaxWrites \in Nat /\ MaxCrashes \in Nat
    /\ MaxEvents \in Nat

VARIABLES
    disk,      \* the values on disk
    log,       \* the log
    durable,   \* how many of its records are on disk
    buf,       \* the buffer of each block: value, modifying transaction, LSN
    writer,    \* the transaction with an exclusive lock on a block, or 0
    state,     \* the program: "down", "starting" or "open" for clients
    isNew,     \* FileManager::is_new_, the database has just been created
    lastTxn,   \* next_txn_id_, the id given out last
    phase,     \* where each transaction is, see Phase
    ending,    \* the record that ends what a transaction is doing
    cursor,    \* the record an iterator returns next, or the LSN to be flushed
    finished,  \* finished_txns_ of DoRecover
    clients,   \* how many client transactions have begun
    writes,    \* how many values were written
    crashes    \* how many times the program has crashed

durables == <<disk, log, durable>>
calls == <<phase, ending, cursor, finished>>
program == <<state, isNew, lastTxn>>
bounds == <<clients, writes, crashes>>
vars == <<durables, buf, writer, program, calls, bounds>>

Txn == 1..(MaxClients + 1)     \* the first of a run is the one that starts it
Val == 0..MaxWrites
Zero == 0       \* what a new file is filled with
Op == {"START", "SET", "COMMIT", "ROLLBACK", "CHECKPOINT"}

LogRecord == [op : Op, txn : Txn \cup {-1}, block : Block \cup {NoBlock}, val : Val, new : Val]
Buffer == [val : Val, txn : Txn \cup {0}, lsn : Nat]

(* A SET record has the old value; that it also has the new one is history. *)
Record(op, t) == [op |-> op, txn |-> t, block |-> NoBlock, val |-> Zero, new |-> Zero]
SetRecord(t, b, old, new) == [op |-> "SET", txn |-> t, block |-> b, val |-> old, new |-> new]

(* CheckpointRecord::TxnId is -1; a zeroed log block reads as checkpoints, *)
(* because LogType::CHECKPOINT is 0.                                       *)
Checkpoint == Record("CHECKPOINT", -1)

(* Not begun; in the hands of its client; in DoRollback; in DoRecover; in  *)
(* FlushAll; waiting for its last record to be flushed; about to release   *)
(* its locks; ended.                                                       *)
Phase == {"none", "active", "undo", "recover", "flush", "force", "release", "ended"}

TypeOK ==
    /\ disk \in [Block -> Val]
    /\ log \in Seq(LogRecord)
    /\ durable \in 0..Len(log)
    /\ buf \in [Block -> Buffer] /\ \A b \in Block : buf[b].lsn <= Len(log)
    /\ writer \in [Block -> Txn \cup {0}]
    /\ state \in {"down", "starting", "open"} /\ isNew \in BOOLEAN /\ writes \in Val
    /\ lastTxn \in 0..(MaxClients + 1)
    /\ phase \in [Txn -> Phase]
    /\ ending \in [Txn -> {"COMMIT", "ROLLBACK", "CHECKPOINT"}]
    /\ cursor \in [Txn -> 0..Len(log)]
    /\ finished \subseteq Txn
    /\ \A b \in Block : buf[b].txn # 0 => writer[b] = buf[b].txn
    /\ \A t \in Txn : t > lastTxn <=> phase[t] = "none"

(* The buffers of a program that has just started: what is on disk. *)
Fresh == [b \in Block |-> [val |-> disk[b], txn |-> 0, lsn |-> 0]]

Init ==
    /\ disk = [b \in Block |-> Zero]
    /\ log = <<>> /\ durable = 0
    /\ buf = Fresh
    /\ writer = [b \in Block |-> 0]
    /\ state = "down" /\ isNew = TRUE /\ lastTxn = 0
    /\ phase = [t \in Txn |-> "none"]
    /\ ending = [t \in Txn |-> "COMMIT"]
    /\ cursor = [t \in Txn |-> 0]
    /\ finished = {}
    /\ clients = 0 /\ writes = 0 /\ crashes = 0

-----------------------------------------------------------------------------
(* What the log manager and the buffer manager do *)

(* LogManager::Append *)
AppendToLog(r) ==
    /\ log' = Append(log, r)
    /\ UNCHANGED durable

(* The page of the log is full: some transaction that is about to append a *)
(* record first writes all the records before it.                          *)
FullPage ==
    /\ \E t \in Txn : phase[t] \in {"active", "flush"}
    /\ durable < Len(log)
    /\ durable' = Len(log)
    /\ UNCHANGED <<disk, log, buf, writer, program, calls, bounds>>

(* LogManager::Flush(lsn) *)
DurableAfterFlush(lsn) == IF lsn > durable THEN Len(log) ELSE durable

(* A definition D_Slip is D with a slip one could make in this code; some  *)
(* property below tells the two apart.                                     *)
FlushBuffer_NoLog(b) ==
    /\ disk' = [disk EXCEPT ![b] = buf[b].val]
    /\ buf' = [buf EXCEPT ![b].txn = 0, ![b].lsn = 0]
    /\ UNCHANGED durable

(* Buffer::Flush of a dirty buffer: the log, the page, and it is clean.    *)
(* The LSN it keeps is on disk, and so as good as 0.                       *)
FlushBuffer(b) ==
    /\ durable' = DurableAfterFlush(buf[b].lsn)
    /\ disk' = [disk EXCEPT ![b] = buf[b].val]
    /\ buf' = [buf EXCEPT ![b].txn = 0, ![b].lsn = 0]

(* The buffer of a block nobody has pinned is taken for another block.     *)
(* Between two calls a transaction need not have its blocks pinned, so the *)
(* buffer may be one of a transaction that goes on.                        *)
Replace(b) ==
    /\ state # "down"
    /\ buf[b].txn # 0
    /\ FlushBuffer(b)
    /\ UNCHANGED <<log, writer, program, calls, bounds>>

(* The value comes from the client or from an undo; an undo is not logged, *)
(* and SetModified with the LSN -1 leaves the LSN of the buffer.           *)
Modify(b, v, t, lsn) ==
    /\ writer' = [writer EXCEPT ![b] = t]
    /\ buf' = [buf EXCEPT ![b] = [val |-> v, txn |-> t, lsn |-> lsn]]

-----------------------------------------------------------------------------
(* Transactions *)

(* The constructor of Transaction: the next id, and a START record. *)
NewTxn(t) ==
    /\ state = "open"
    /\ t = lastTxn + 1
    /\ clients < MaxClients /\ clients + crashes < MaxEvents
    /\ clients' = clients + 1
    /\ lastTxn' = t
    /\ AppendToLog(Record("START", t))
    /\ phase' = [phase EXCEPT ![t] = "active"]
    /\ UNCHANGED <<disk, buf, writer, state, isNew, ending, cursor, finished, writes, crashes>>

(* SetInt or SetString, logged, where the exclusive lock can be had.  The   *)
(* transaction that starts the program writes only to a new database.       *)
Set(t, b) ==
    /\ phase[t] = "active"
    /\ state = "open" \/ isNew
    /\ writer[b] \in {0, t}
    /\ writes < MaxWrites
    /\ writes' = writes + 1
    /\ AppendToLog(SetRecord(t, b, buf[b].val, writes'))
    /\ Modify(b, writes', t, Len(log) + 1)
    /\ UNCHANGED <<disk, program, calls, clients, crashes>>

(* Commit starts with FlushAll. *)
Commit(t) ==
    /\ phase[t] = "active"
    /\ state = "open" \/ isNew
    /\ phase' = [phase EXCEPT ![t] = "flush"]
    /\ ending' = [ending EXCEPT ![t] = "COMMIT"]
    /\ UNCHANGED <<durables, buf, writer, program, cursor, finished, bounds>>

(* Rollback starts with DoRollback, whose iterator flushes the log.         *)
Rollback(t) ==
    /\ phase[t] = "active"
    /\ state = "open"
    /\ durable' = Len(log)
    /\ phase' = [phase EXCEPT ![t] = "undo"]
    /\ ending' = [ending EXCEPT ![t] = "ROLLBACK"]
    /\ cursor' = [cursor EXCEPT ![t] = Len(log)]
    /\ UNCHANGED <<disk, log, buf, writer, program, finished, bounds>>

(* DoRollback, as far as the next record of the transaction itself: a SET  *)
(* record is undone, the START record ends the loop.                       *)
UndoNext(t) ==
    LET i == Max({j \in 1..cursor[t] : log[j].txn = t})
        r == log[i]
    IN
    /\ phase[t] = "undo"
    /\ \/ /\ r.op = "START"
          /\ phase' = [phase EXCEPT ![t] = "flush"]
          /\ cursor' = [cursor EXCEPT ![t] = 0]
          /\ UNCHANGED <<buf, writer>>
       \/ /\ r.op = "SET"
          /\ Modify(r.block, r.val, t, buf[r.block].lsn)
          /\ cursor' = [cursor EXCEPT ![t] = i - 1]
          /\ UNCHANGED phase
    /\ UNCHANGED <<durables, program, ending, finished, bounds>>

(* The undo finds no buffer to pin: the exception leaves Rollback, and the *)
(* transaction is where it was, with some of its writes undone.            *)
UndoFails(t) ==
    /\ phase[t] = "undo"
    /\ phase' = [phase EXCEPT ![t] = "active"]
    /\ ending' = [ending EXCEPT ![t] = "COMMIT"]
    /\ cursor' = [cursor EXCEPT ![t] = 0]
    /\ UNCHANGED <<durables, buf, writer, program, finished, bounds>>

(* FlushAll, one buffer at a time. *)
FlushOne(t, b) ==
    /\ phase[t] = "flush"
    /\ buf[b].txn = t
    /\ FlushBuffer(b)
    /\ UNCHANGED <<log, writer, program, calls, bounds>>

WriteEnd_NoFlush(t) ==
    /\ phase[t] = "flush"
    /\ AppendToLog(IF ending[t] = "CHECKPOINT" THEN Checkpoint ELSE Record(ending[t], t))
    /\ phase' = [phase EXCEPT ![t] = "force"]
    /\ cursor' = [cursor EXCEPT ![t] = Len(log) + 1]
    /\ UNCHANGED <<disk, buf, writer, program, ending, finished, bounds>>

(* FlushAll is done: the record that says so goes to the log. *)
WriteEnd(t) ==
    /\ phase[t] = "flush"
    /\ \A b \in Block : buf[b].txn # t
    /\ AppendToLog(IF ending[t] = "CHECKPOINT" THEN Checkpoint ELSE Record(ending[t], t))
    /\ phase' = [phase EXCEPT ![t] = "force"]
    /\ cursor' = [cursor EXCEPT ![t] = Len(log) + 1]
    /\ UNCHANGED <<disk, buf, writer, program, ending, finished, bounds>>

(* The log is flushed up to that record.  After a checkpoint the starting  *)
(* transaction opens the catalog, which writes nothing, and commits.       *)
ForceLog(t) ==
    /\ phase[t] = "force"
    /\ durable' = DurableAfterFlush(cursor[t])
    /\ cursor' = [cursor EXCEPT ![t] = 0]
    /\ \/ /\ ending[t] = "CHECKPOINT"
          /\ phase' = [phase EXCEPT ![t] = "flush"]
          /\ ending' = [ending EXCEPT ![t] = "COMMIT"]
       \/ /\ ending[t] # "CHECKPOINT"
          /\ phase' = [phase EXCEPT ![t] = "release"]
          /\ UNCHANGED ending
    /\ UNCHANGED <<disk, log, buf, writer, program, finished, bounds>>

(* The locks go before the record is on disk. *)
Release_BeforeForce(t) ==
    /\ phase[t] \in {"force", "release"}
    /\ writer' = [b \in Block |-> IF writer[b] = t THEN 0 ELSE writer[b]]
    /\ phase' = [phase EXCEPT ![t] = "ended"]
    /\ ending' = [ending EXCEPT ![t] = "COMMIT"]
    /\ state' = "open"
    /\ UNCHANGED <<durables, buf, isNew, lastTxn, cursor, finished, bounds>>

(* ConcurrencyManager::Release and BufferList::UnpinAll; Commit or Rollback *)
(* returns, and so does the constructor of SimpleDB, if that called Commit. *)
Release(t) ==
    /\ phase[t] = "release"
    /\ writer' = [b \in Block |-> IF writer[b] = t THEN 0 ELSE writer[b]]
    /\ phase' = [phase EXCEPT ![t] = "ended"]
    /\ ending' = [ending EXCEPT ![t] = "COMMIT"]
    /\ state' = "open"
    /\ UNCHANGED <<durables, buf, isNew, lastTxn, cursor, finished, bounds>>

-----------------------------------------------------------------------------
(* SimpleDB::SimpleDB: the transaction 1 of every run *)

Start ==
    /\ state = "down"
    /\ state' = "starting"
    /\ lastTxn' = 1
    /\ AppendToLog(Record("START", 1))
    /\ phase' = [phase EXCEPT ![1] = "active"]
    /\ UNCHANGED <<disk, buf, writer, isNew, ending, cursor, finished, bounds>>

(* Transaction::Recover.  There is nothing yet that its FlushAll could     *)
(* write; the iterator of DoRecover flushes the log.                       *)
Recover ==
    /\ state = "starting" /\ ~isNew
    /\ phase[1] = "active"
    /\ durable' = Len(log)
    /\ phase' = [phase EXCEPT ![1] = "recover"]
    /\ ending' = [ending EXCEPT ![1] = "CHECKPOINT"]
    /\ cursor' = [cursor EXCEPT ![1] = Len(log)]
    /\ UNCHANGED <<disk, log, buf, writer, program, finished, bounds>>

RecoverDone_AtEnd ==
    /\ phase[1] = "recover"
    /\ cursor[1] > 0 => log[cursor[1]].op \in {"CHECKPOINT", "COMMIT", "ROLLBACK"}
    /\ phase' = [phase EXCEPT ![1] = "flush"]
    /\ cursor' = [cursor EXCEPT ![1] = 0]
    /\ finished' = {}
    /\ UNCHANGED <<durables, buf, writer, program, ending, bounds>>

(* DoRecover has come to a checkpoint or to the end of the log. *)
RecoverDone ==
    /\ phase[1] = "recover"
    /\ cursor[1] > 0 => log[cursor[1]].op = "CHECKPOINT"
    /\ phase' = [phase EXCEPT ![1] = "flush"]
    /\ cursor' = [cursor EXCEPT ![1] = 0]
    /\ finished' = {}
    /\ UNCHANGED <<durables, buf, writer, program, ending, bounds>>

(* The next record of DoRecover's loop: the end of a transaction, the      *)
(* write of an unfinished one, which is undone, or nothing to do.          *)
RecoverNext ==
    LET r == log[cursor[1]] IN
    /\ phase[1] = "recover"
    /\ cursor[1] > 0
    /\ r.op # "CHECKPOINT"
    /\ cursor' = [cursor EXCEPT ![1] = @ - 1]
    /\ \/ /\ r.op \in {"COMMIT", "ROLLBACK"}
          /\ finished' = finished \cup {r.txn}
          /\ UNCHANGED <<buf, writer>>
       \/ /\ r.op = "SET" /\ r.txn \notin finished
          /\ Modify(r.block, r.val, 1, buf[r.block].lsn)
          /\ UNCHANGED finished
       \/ /\ r.op = "START" \/ (r.op = "SET" /\ r.txn \in finished)
          /\ UNCHANGED <<buf, writer, finished>>
    /\ UNCHANGED <<durables, program, phase, ending, bounds>>

-----------------------------------------------------------------------------

(* The program is gone and l is what its log file holds. *)
CrashWithLog(l) ==
    /\ state # "down"
    /\ crashes < MaxCrashes /\ clients + crashes < MaxEvents
    /\ crashes' = crashes + 1
    /\ log' = l /\ durable' = Len(l)
    /\ buf' = Fresh
    /\ writer' = [b \in Block |-> 0]
    /\ state' = "down" /\ isNew' = FALSE /\ lastTxn' = 0
    /\ phase' = [t \in Txn |-> "none"]
    /\ ending' = [t \in Txn |-> "COMMIT"]
    /\ cursor' = [t \in Txn |-> 0]
    /\ finished' = {}
    /\ UNCHANGED <<disk, clients, writes>>

Crash == CrashWithLog(SubSeq(log, 1, durable))

(* The crash comes when a transaction appends to a full log page: the log  *)
(* is flushed, its file has a new block, and the block is not yet          *)
(* formatted (module LogManager, between Extend and Format).               *)
CrashInExtend ==
    /\ \E t \in Txn : phase[t] = "active"
    /\ CrashWithLog(Append(log, Checkpoint))

(* What the thread of t does by itself once it is in a call. *)
Run(t) ==
    \/ UndoNext(t)
    \/ WriteEnd(t)
    \/ ForceLog(t)
    \/ Release(t)
    \/ \E b \in Block : FlushOne(t, b)

Starting == Start \/ Recover \/ RecoverNext \/ RecoverDone

Next ==
    \/ Crash
    \/ Starting
    \/ FullPage
    \/ \E b \in Block : Replace(b)
    \/ \E t \in Txn :
          \/ Run(t)
          \/ NewTxn(t)
          \/ Commit(t)
          \/ Rollback(t)
          \/ UndoFails(t)
          \/ \E b \in Block : Set(t, b)

Spec == Init /\ [][Next]_vars

(* The same with crashes that leave a zeroed block at the end of the log. *)
TornSpec == Init /\ [][Next \/ CrashInExtend]_vars

-----------------------------------------------------------------------------
(* Properties *)

(* What the next recovery would find on disk, were the program to crash    *)
(* now: the log behind the last checkpoint, and in it the ends of          *)
(* transactions and the writes of those that have no end there.            *)
LastCheckpoint == Max({0} \cup {i \in 1..durable : log[i].op = "CHECKPOINT"})
Scanned == (LastCheckpoint + 1)..durable
IsEnd(i) == log[i].op \in {"COMMIT", "ROLLBACK"}
Finished == {log[i].txn : i \in {j \in Scanned : IsEnd(j)}}
Undone(b) == {i \in Scanned : log[i].op = "SET" /\ log[i].block = b /\ log[i].txn \notin Finished}

(* The value of a block that it would come to: the old value of the first  *)
(* write it undoes, or what is on disk.                                    *)
Recovered ==
    [b \in Block |-> IF Undone(b) = {} THEN disk[b] ELSE log[Min(Undone(b))].val]

(* The COMMIT or ROLLBACK record of t in this run is on disk. *)
EndedOnDisk(t) ==
    \E i \in 1..durable :
        /\ log[i].txn = t /\ IsEnd(i)
        /\ \A j \in i..Len(log) : log[j].txn = t => log[j].op # "START"

(* What the open program shows of a block to whoever gets a lock on it is  *)
(* what a crash would leave: no reader sees a write that is not durably    *)
(* committed, and none misses one that is.  A block whose writer has ended *)
(* on disk but still holds the lock is no exception.                       *)
CommittedIsWhatIsSeen ==
    state = "open" =>
        \A b \in Block :
            writer[b] = 0 \/ EndedOnDisk(writer[b]) => buf[b].val = Recovered[b]

(* The COMMIT records of the transaction that made the write in record i.  *)
CommitOf(i) ==
    {j \in (i + 1)..durable : /\ log[j].op = "COMMIT" /\ log[j].txn = log[i].txn
                              /\ \A k \in i..j : log[k] # Record("START", log[i].txn)}

(* Every value the open program shows of a block nobody is writing was     *)
(* written by a transaction whose COMMIT record is on disk: what was not   *)
(* committed has been rolled back, by Rollback or by the recovery after a  *)
(* crash (transaction.h, lines 50 to 55).                                  *)
VisibleIsCommitted ==
    state = "open" =>
        \A b \in Block :
            writer[b] = 0 /\ buf[b].val # Zero =>
                \E i \in 1..durable :
                    log[i].block = b /\ log[i].new = buf[b].val /\ CommitOf(i) # {}

(* Committed values change only when transactions commit, all at once;     *)
(* crashes, at any step of a commit, a rollback or of recovery itself,     *)
(* replacement and the reuse of transaction ids leave them alone.          *)
Abstract == INSTANCE AtomicStore WITH
    store <- Recovered,
    pending <- [t \in Txn |-> [b \in Block |->
                  IF writer[b] = t /\ ~EndedOnDisk(t) THEN buf[b].val ELSE NoVal]]

(* This is Abstract!Spec, put so that TLC looks for stuttering steps first. *)
ImplementsAtomicStore ==
    Abstract!Init /\ [][\/ UNCHANGED <<durables, buf, writer>>
                        \/ UNCHANGED Abstract!vars
                        \/ Abstract!Next]_vars

=============================================================================
