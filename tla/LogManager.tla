----------------------------- MODULE LogManager -----------------------------
(***************************************************************************)
(* The log manager of SimpleDB: the tail of the log is kept in one page in *)
(* memory, log_page_, which Flush writes to the last block of the log file *)
(* and Append replaces by a new block when a record does not fit.          *)
(*                                                                         *)
(* A log page is filled from its end towards its start; its first integer  *)
(* is the boundary, the position of the newest record.  A record takes its *)
(* size and one length field, and the boundary takes one more, which is    *)
(* the unit sizes are counted in here.  A page is modelled by the sequence *)
(* of the records from the end of the page down to the boundary (oldest    *)
(* first), so that the boundary is what they leave of the page.            *)
(*                                                                         *)
(* Append holds the mutex of the manager.  Flush and Iterator take no lock *)
(* and the file manager locks for the length of one file operation: a step *)
(* is one file operation, or what a thread does between two of them.       *)
(***************************************************************************)
EXTENDS Integers, SequencesExt

CONSTANTS
    Thread,      \* the threads that call the log manager
    BlockSize,   \* the size of a block
    RecordSize,  \* the sizes of the records the threads append
    MaxRecords,  \* bound: how many records are appended
    MaxCrashes   \* bound: how many times the program crashes

ASSUME LogManagerAssumption ==
    /\ BlockSize \in Nat /\ MaxRecords \in Nat /\ MaxCrashes \in Nat
    /\ RecordSize \subseteq 1..(BlockSize - 2)

VARIABLES
    disk,          \* the blocks of the log file; disk[n + 1] is block n
    running,       \* the constructor has finished and no crash came since
    page,          \* log_page_
    current,       \* current_block_
    latestLsn,     \* latest_lsn_
    lastSavedLsn,  \* last_saved_lsn_
    op,            \* the method each thread is in, or "none"
    pc,            \* where in that method the thread is
    record,        \* the record each thread appends, or Blank
    lsnArg,        \* the LSN each thread flushes, or 0
    iter,          \* the LogIterator of each thread, see NoIterator
    log,           \* history: the records appended and not lost in a crash
    base,          \* history: the length of log when the program started
    acked,         \* history: how much of log some Flush(lsn) has answered for
    appended,      \* history: how many records were ever appended
    crashes        \* history: how many times the program has crashed

memory == <<page, current, latestLsn, lastSavedLsn>>
threads == <<op, pc, record, lsnArg, iter>>
history == <<log, base, acked, appended, crashes>>
vars == <<disk, running, memory, threads, history>>

(* A zeroed block reads as a page full of records of size 0. *)
Blank == [id |-> 0, size |-> 0]
ZeroPage == [i \in 1..BlockSize |-> Blank]

Record == [id : 1..MaxRecords, size : RecordSize]

(* An iterator: the block it is in, the records of its page it has not     *)
(* read, and as history the records it has returned, and the length of the *)
(* log and the number of zeroed blocks it was opened on.                   *)
NoIterator == [block |-> 0, left |-> <<>>, seen |-> <<>>, end |-> 0, zeroed |-> 0]

Operation == {"none", "Start", "Append", "Flush", "Iterator"}
Place == {"idle", "Write", "Save", "Extend", "Blank", "Format", "Switch", "Put", "Open"}

TypeOK ==
    /\ \A n \in DOMAIN disk : disk[n] = ZeroPage \/ disk[n] \in Seq(Record)
    /\ running \in BOOLEAN
    /\ page = ZeroPage \/ page \in Seq(Record)
    /\ current \in Nat
    /\ lastSavedLsn \in 0..latestLsn
    /\ op \in [Thread -> Operation] /\ pc \in [Thread -> Place]
    /\ \A t \in Thread : pc[t] = "idle" <=> op[t] = "none"
    /\ log \in Seq(Record)
    /\ base \in 0..Len(log) /\ acked \in 0..Len(log)

-----------------------------------------------------------------------------

Used(p) == FoldLeft(LAMBDA sum, r : sum + r.size + 1, 0, p)

Boundary(p) == BlockSize - Used(p)

(* A definition D_Slip is D with a slip one could make in this code; some  *)
(* property below tells the two apart.                                     *)
Fits_OffByOne(p, size) == Boundary(p) - (size + 1) >= 0

(* The record and its length leave room for the boundary. *)
Fits(p, size) == Boundary(p) - (size + 1) >= 1

(* The appended records in the blocks, oldest first, and all of them on    *)
(* disk.  Nothing was appended to a zeroed page, although an iterator      *)
(* returns empty records from it.                                          *)
RecordsOf(p) == IF p = ZeroPage THEN <<>> ELSE p
Records(blocks) == FoldLeft(LAMBDA records, p : records \o RecordsOf(p), <<>>, blocks)
DiskRecords == Records(disk)

(* How many of the first n blocks are zeroed. *)
Zeroed(n) == Cardinality({k \in 1..n : disk[k] = ZeroPage})

(* A thread in Append holds the mutex. *)
MutexFree == \A t \in Thread : op[t] # "Append"

Goto(t, place) == pc' = [pc EXCEPT ![t] = place]

Enter(t, method, place) ==
    /\ op[t] = "none"
    /\ op' = [op EXCEPT ![t] = method]
    /\ Goto(t, place)

Return(t) ==
    /\ op' = [op EXCEPT ![t] = "none"]
    /\ record' = [record EXCEPT ![t] = Blank]
    /\ lsnArg' = [lsnArg EXCEPT ![t] = 0]
    /\ Goto(t, "idle")

Init ==
    /\ disk = <<>>
    /\ running = FALSE
    /\ page = <<>> /\ current = 0 /\ latestLsn = 0 /\ lastSavedLsn = 0
    /\ op = [t \in Thread |-> "none"] /\ pc = [t \in Thread |-> "idle"]
    /\ record = [t \in Thread |-> Blank] /\ lsnArg = [t \in Thread |-> 0]
    /\ iter = [t \in Thread |-> NoIterator]
    /\ log = <<>> /\ base = 0 /\ acked = 0
    /\ appended = 0 /\ crashes = 0

-----------------------------------------------------------------------------
(* LogManager::AppendNewBlock, called by the constructor and by Append *)

(* FileManager::Append: a block of zeros at the end of the file. *)
Extend(t) ==
    /\ pc[t] = "Extend"
    /\ disk' = Append(disk, ZeroPage)
    /\ Goto(t, "Blank")
    /\ UNCHANGED <<running, memory, op, record, lsnArg, iter, history>>

(* log_page_.SetInt(0, BlockSize): the boundary of an empty page. *)
BlankPage(t) ==
    /\ pc[t] = "Blank"
    /\ page' = <<>>
    /\ Goto(t, "Format")
    /\ UNCHANGED <<disk, running, current, latestLsn, lastSavedLsn, op, record, lsnArg, iter, history>>

(* The page is written to the new block. *)
Format(t) ==
    /\ pc[t] = "Format"
    /\ disk' = [disk EXCEPT ![Len(disk)] = page]
    /\ Goto(t, "Switch")
    /\ UNCHANGED <<running, memory, op, record, lsnArg, iter, history>>

(* current_block_ takes the new block; the constructor is done, Append goes *)
(* on to store its record.                                                  *)
Switch(t) ==
    /\ pc[t] = "Switch"
    /\ current' = Len(disk) - 1
    /\ \/ /\ op[t] = "Start"
          /\ running' = TRUE
          /\ Return(t)
       \/ /\ op[t] = "Append"
          /\ Goto(t, "Put")
          /\ UNCHANGED <<running, op, record, lsnArg>>
    /\ UNCHANGED <<disk, page, latestLsn, lastSavedLsn, iter, history>>

-----------------------------------------------------------------------------
(* LogManager::LogManager *)

StartNew(t) ==
    /\ ~running /\ \A u \in Thread : op[u] = "none"
    /\ disk = <<>>
    /\ Enter(t, "Start", "Extend")
    /\ UNCHANGED <<disk, running, memory, record, lsnArg, iter, history>>

StartOld ==
    /\ ~running /\ \A u \in Thread : op[u] = "none"
    /\ disk # <<>>
    /\ current' = Len(disk) - 1
    /\ page' = Last(disk)
    /\ running' = TRUE
    /\ UNCHANGED <<disk, latestLsn, lastSavedLsn, threads, history>>

-----------------------------------------------------------------------------
(* LogManager::Flush, called by Flush(lsn), Append and Iterator *)

FlushPage_FirstBlock(t) ==
    /\ pc[t] = "Write"
    /\ disk' = [disk EXCEPT ![1] = page]
    /\ Goto(t, "Save")
    /\ UNCHANGED <<running, memory, op, record, lsnArg, iter, history>>

FlushPage(t) ==
    /\ pc[t] = "Write"
    /\ disk' = [disk EXCEPT ![current + 1] = page]
    /\ Goto(t, "Save")
    /\ UNCHANGED <<running, memory, op, record, lsnArg, iter, history>>

SaveLsn(t) ==
    /\ pc[t] = "Save"
    /\ lastSavedLsn' = latestLsn
    /\ \/ /\ op[t] = "Append"
          /\ Goto(t, "Extend")
          /\ UNCHANGED <<op, record, lsnArg, acked>>
       \/ /\ op[t] = "Iterator"
          /\ Goto(t, "Open")
          /\ UNCHANGED <<op, record, lsnArg, acked>>
       \/ /\ op[t] = "Flush"
          /\ Return(t)
          /\ acked' = IF base + lsnArg[t] > acked THEN base + lsnArg[t] ELSE acked
    /\ UNCHANGED <<disk, running, page, current, latestLsn, iter, log, base, appended, crashes>>

FlushNeeded_OffByOne(lsn) == lsn > lastSavedLsn + 1

FlushNeeded(lsn) == lsn > lastSavedLsn

(* Flush(lsn), for an LSN that Append has returned. *)
Flush(t, lsn) ==
    /\ running
    /\ \/ /\ FlushNeeded(lsn)
          /\ Enter(t, "Flush", "Write")
          /\ lsnArg' = [lsnArg EXCEPT ![t] = lsn]
          /\ UNCHANGED acked
       \/ /\ ~FlushNeeded(lsn)
          /\ op[t] = "none"
          /\ acked' = IF base + lsn > acked THEN base + lsn ELSE acked
          /\ UNCHANGED <<op, pc, lsnArg>>
    /\ UNCHANGED <<disk, running, memory, record, iter, log, base, appended, crashes>>

-----------------------------------------------------------------------------
(* LogManager::Append *)

(* SetBytes, SetInt and latest_lsn_++ *)
Store(r) ==
    /\ page' = Append(page, r)
    /\ latestLsn' = latestLsn + 1
    /\ log' = Append(log, r)

AppendThatFits(t, size) ==
    /\ running /\ op[t] = "none" /\ MutexFree
    /\ appended < MaxRecords
    /\ Fits(page, size)
    /\ appended' = appended + 1
    /\ Store([id |-> appended + 1, size |-> size])
    /\ UNCHANGED <<disk, running, current, lastSavedLsn, threads, base, acked, crashes>>

AppendThatDoesNotFit_NoFlush(t, size) ==
    /\ running /\ MutexFree
    /\ appended < MaxRecords
    /\ ~Fits(page, size)
    /\ Enter(t, "Append", "Extend")
    /\ record' = [record EXCEPT ![t] = [id |-> appended + 1, size |-> size]]
    /\ appended' = appended + 1
    /\ UNCHANGED <<disk, running, memory, lsnArg, iter, log, base, acked, crashes>>

AppendThatDoesNotFit(t, size) ==
    /\ running /\ MutexFree
    /\ appended < MaxRecords
    /\ ~Fits(page, size)
    /\ Enter(t, "Append", "Write")
    /\ record' = [record EXCEPT ![t] = [id |-> appended + 1, size |-> size]]
    /\ appended' = appended + 1
    /\ UNCHANGED <<disk, running, memory, lsnArg, iter, log, base, acked, crashes>>

Put_KeepsMutex(t) ==
    /\ pc[t] = "Put"
    /\ Store(record[t])
    /\ Goto(t, "idle")
    /\ UNCHANGED <<disk, running, current, lastSavedLsn, op, record, lsnArg, iter, base, acked, appended, crashes>>

(* The new block has its record and Append returns. *)
Put(t) ==
    /\ pc[t] = "Put"
    /\ Store(record[t])
    /\ Return(t)
    /\ UNCHANGED <<disk, running, current, lastSavedLsn, iter, base, acked, appended, crashes>>

-----------------------------------------------------------------------------
(* LogManager::Iterator and the LogIterator it returns *)

Iterator(t) ==
    /\ running
    /\ Enter(t, "Iterator", "Write")
    /\ UNCHANGED <<disk, running, memory, record, lsnArg, iter, history>>

OpenIterator(t) ==
    /\ pc[t] = "Open"
    /\ iter' = [iter EXCEPT ![t] =
          [block |-> current, left |-> disk[current + 1],
           seen |-> <<>>, end |-> Len(log), zeroed |-> Zeroed(current + 1)]]
    /\ Return(t)
    /\ UNCHANGED <<disk, running, memory, history>>

HasNext(it) == it.left # <<>> \/ it.block > 0

AtNextBlock_Skips(it) ==
    IF Len(it.left) <= 1 /\ it.block > 0
    THEN [it EXCEPT !.block = @ - 1, !.left = disk[it.block]] ELSE it

(* The iterator after MoveToBlock, where its page has no record left. *)
AtNextBlock(it) ==
    IF it.left = <<>> THEN [it EXCEPT !.block = @ - 1, !.left = disk[it.block]] ELSE it

(* LogIterator::Next, called while HasNext().  A zeroed page has boundary 0 *)
(* and gives an empty record for each of its words.  Should the previous    *)
(* block have no record, the code reads past its page; the model stops      *)
(* there.                                                                   *)
NextRecord(t) ==
    LET it == AtNextBlock(iter[t]) IN
    /\ running /\ op[t] = "none"
    /\ HasNext(iter[t]) /\ it.left # <<>>
    /\ iter' = [iter EXCEPT ![t] =
          [it EXCEPT !.left = Front(@), !.seen = Append(@, Last(it.left))]]
    /\ UNCHANGED <<disk, running, memory, op, pc, record, lsnArg, history>>

-----------------------------------------------------------------------------

(* The memory of the program and its threads are gone, and with them the   *)
(* records that were in memory only.                                       *)
Crash ==
    /\ crashes < MaxCrashes
    /\ crashes' = crashes + 1
    /\ running' = FALSE
    /\ page' = <<>> /\ current' = 0 /\ latestLsn' = 0 /\ lastSavedLsn' = 0
    /\ op' = [t \in Thread |-> "none"] /\ pc' = [t \in Thread |-> "idle"]
    /\ record' = [t \in Thread |-> Blank] /\ lsnArg' = [t \in Thread |-> 0]
    /\ iter' = [t \in Thread |-> NoIterator]
    /\ log' = DiskRecords
    /\ base' = Len(DiskRecords)
    /\ UNCHANGED <<disk, acked, appended>>

AppendNewBlock(t) == Extend(t) \/ BlankPage(t) \/ Format(t) \/ Switch(t)

Next ==
    \/ Crash
    \/ StartOld
    \/ \E t \in Thread :
          \/ StartNew(t)
          \/ AppendNewBlock(t)
          \/ FlushPage(t)
          \/ SaveLsn(t)
          \/ Put(t)
          \/ Iterator(t)
          \/ OpenIterator(t)
          \/ NextRecord(t)
          \/ \E lsn \in 1..latestLsn : Flush(t, lsn)
          \/ \E size \in RecordSize : AppendThatFits(t, size) \/ AppendThatDoesNotFit(t, size)

Spec == Init /\ [][Next]_vars

-----------------------------------------------------------------------------
(* Properties *)

(* What is on disk is a prefix of what was appended, in that order, also   *)
(* in the middle of moving to a new block: a crash there loses the end of  *)
(* the log and leaves no hole in it.                                       *)
DiskIsPrefixOfLog == IsPrefix(DiskRecords, log)

(* Once Flush(lsn) has returned, the record with that LSN and every        *)
(* earlier one are on disk, and stay there through crashes and restarts    *)
(* (log_manager.h, lines 29 and 30).  Commit and the write-ahead rule rest *)
(* on it; a Flush that trusts last_saved_lsn_ and writes nothing is where  *)
(* it could fail.                                                          *)
AckedIsDurable == \A i \in 1..acked : log[i] \in ToSet(DiskRecords)

(* The records never grow over the boundary of the page, also where a      *)
(* record fits exactly, and after a restart on a zeroed block.             *)
PageNeverOverflows == page = ZeroPage \/ Boundary(page) >= 1

(* How many of the first n records an iterator has returned were appended. *)
Written(seen, n) == Cardinality({i \in 1..n : seen[i] # Blank})

(* An iterator returns the records that had been appended when it was      *)
(* opened, newest first and none left out, even if more are appended       *)
(* meanwhile; when HasNext turns false it has returned them all.  Between  *)
(* them come empty records that nobody appended (log_iterator.h, lines 11  *)
(* and 12, knows of none): one for each word of each block that a crash    *)
(* had left zeroed (log_iterator.cpp, lines 11 to 19), and no other.  What *)
(* recovery makes of those is in Recovery.                                 *)
IteratorReadsLogBackwards ==
    \A t \in Thread :
        LET it     == iter[t]
            n      == Len(it.seen)
            blanks == n - Written(it.seen, n)
        IN  /\ \A i \in 1..n : it.seen[i] # Blank =>
                  it.seen[i] = log[it.end + 1 - Written(it.seen, i)]
            /\ blanks <= it.zeroed * BlockSize
            /\ ~HasNext(it) => /\ Written(it.seen, n) = it.end
                               /\ blanks = it.zeroed * BlockSize

(* The log manager, used by one thread and restarted after crashes,        *)
(* implements a growing sequence with a durable prefix.                    *)
Abstract == INSTANCE LogSpec WITH durable <- Len(DiskRecords)

ImplementsLogSpec == Abstract!Spec

=============================================================================
