------------------------------ MODULE TableScan ------------------------------
(***************************************************************************)
(* The table of SimpleDB: TableScan and RecordPage on one heap file, under *)
(* transactions that lock its blocks and its end of file (Transaction's    *)
(* Size and Append).  A transaction opens one scan at a time and calls it  *)
(* as it likes; every lock request is a step of its own, for it may have   *)
(* to wait for another transaction.  A Pin may wait and throw as well, but *)
(* nobody sees it: it goes with the step before it.                        *)
(*                                                                         *)
(* The locks are the ones LockSpec promises (module LockTable implements   *)
(* them).  Commit and Rollback take effect in one step (module Recovery    *)
(* shows that they may be taken to), and with it goes all the transaction  *)
(* holds: to let its locks go one by one only keeps the others waiting,    *)
(* for it acquires none any more.                                          *)
(***************************************************************************)
EXTENDS Integers, SequencesExt

CONSTANTS
    Txn,        \* the transactions, each begun again and again
    NumSlots,   \* records in a block
    MaxBlocks,  \* bound: the blocks the disk has room for
    MaxVal,     \* the values of a record are 0..MaxVal
    MaxWrites,  \* bound: logged writes of transactions under way
    None        \* no page, no value read

ASSUME TableAssumption ==
    /\ IsFiniteSet(Txn)
    /\ NumSlots \in Nat \ {0} /\ MaxBlocks \in Nat \ {0}
    /\ MaxVal \in Nat /\ MaxWrites \in Nat
    /\ None \notin Nat /\ None \notin [flag : {"EMPTY", "USED"}, val : Nat]

VARIABLES
    file,       \* the slots of the file, as a transaction reads them
    length,     \* its length in blocks
    held,       \* the locks of every transaction, see LockSpec
    page,       \* record_page_, the block it is on or None
    slot,       \* current_slot_
    pins,       \* the pin counts of the transaction's BufferList
    call,       \* the call a transaction is in, see Call
    at,         \* and where in that call it is, see At
    undo,       \* the SET records of the transaction, the oldest first
    view,       \* history: what each transaction has read or written
    progress,   \* history: how the scan moves through the file, see Progress
    returned    \* history: the records Next has returned

scan == <<page, slot, pins>>
where == <<call, at>>
history == <<view, progress, returned>>
vars == <<file, length, held, scan, where, undo, history>>

END_OF_FILE == -1
Blocks == 0..(MaxBlocks - 1)
Slots == 0..(NumSlots - 1)
Pos == Blocks \X Slots
Record == [flag : {"EMPTY", "USED"}, val : 0..MaxVal]
Zeroed == [flag |-> "EMPTY", val |-> 0]
SetRecord == [pos : Pos, old : Record]     \* of the log, as undo keeps it

Lock == INSTANCE LockSpec WITH Block <- Blocks \cup {END_OF_FILE}, releasing <- {}

(* Between two calls, without or with a scan; in a call; a call has thrown. *)
Call == {"closed", "idle", "TableScan", "Next", "Insert", "failed"}

(* About to search the page for a slot; to set its flag; to ask whether    *)
(* this is the last block; to append a block; to format it.                *)
At == {"start", "search", "flag", "last", "append", "format"}

(* From the first record on; Next has returned false; anything else. *)
Progress == {"scanning", "done", "lost"}

TypeOK ==
    /\ file \in [Pos -> Record] /\ length \in 0..MaxBlocks
    /\ Lock!TypeOK
    /\ page \in [Txn -> Blocks \cup {None}] /\ slot \in [Txn -> -1..(NumSlots - 1)]
    /\ pins \in [Txn -> [Blocks -> 0..1]]
    /\ call \in [Txn -> Call] /\ at \in [Txn -> At]
    /\ undo \in [Txn -> Seq(SetRecord)] /\ \A t \in Txn : Len(undo[t]) <= MaxWrites
    /\ view \in [Txn -> [block : [Blocks -> [Slots -> Record] \cup {None}],
                       size : 0..MaxBlocks \cup {None}]]
    /\ progress \in [Txn -> Progress] /\ returned \in [Txn -> SUBSET Pos]

NothingRead == [block |-> [b \in Blocks |-> None], size |-> None]
NoPins == [b \in Blocks |-> 0]

Init ==
    /\ file = [p \in Pos |-> Zeroed] /\ length = 0
    /\ Lock!Init
    /\ page = [t \in Txn |-> None] /\ slot = [t \in Txn |-> -1]
    /\ pins = [t \in Txn |-> NoPins]
    /\ call = [t \in Txn |-> "closed"] /\ at = [t \in Txn |-> "start"]
    /\ undo = [t \in Txn |-> <<>>]
    /\ view = [t \in Txn |-> NothingRead]
    /\ progress = [t \in Txn |-> "lost"] /\ returned = [t \in Txn |-> {}]

-----------------------------------------------------------------------------
(* Locks, pins, reads and writes of a transaction *)

(* ConcurrencyManager::SharedLock, granted. *)
SharedLock(t, b) ==
    IF held[t][b] = "none" THEN Lock!Share(t, b) ELSE UNCHANGED held

(* ConcurrencyManager::ExclusiveLock, granted to a holder of the shared    *)
(* lock; who has none takes that first.                                    *)
ExclusiveLock(t, b) ==
    IF held[t][b] = "exclusive" THEN UNCHANGED held ELSE Lock!Upgrade(t, b)

Goto(t, c, a) ==
    /\ call' = [call EXCEPT ![t] = c]
    /\ at' = [at EXCEPT ![t] = a]

(* TableScan::Close: the pin count of the page, if there is one. *)
Unpinned(t) == IF page[t] = None THEN pins[t] ELSE [pins[t] EXCEPT ![page[t]] = @ - 1]

(* A definition D_Slip is D with a slip one could make in this code; some  *)
(* property below tells the two apart.                                     *)
MoveTo_NoClose(t, b, s) ==
    /\ page' = [page EXCEPT ![t] = b]
    /\ slot' = [slot EXCEPT ![t] = s]
    /\ pins' = [pins EXCEPT ![t][b] = @ + 1]

(* Closes the page and pins another one. *)
MoveTo(t, b, s) ==
    /\ page' = [page EXCEPT ![t] = b]
    /\ slot' = [slot EXCEPT ![t] = s]
    /\ pins' = [pins EXCEPT ![t] = [Unpinned(t) EXCEPT ![b] = @ + 1]]

(* The scan is gone; the pins the transaction has are not. *)
NoScan(t) ==
    /\ page' = [page EXCEPT ![t] = None]
    /\ slot' = [slot EXCEPT ![t] = -1]
    /\ progress' = [progress EXCEPT ![t] = "lost"]
    /\ returned' = [returned EXCEPT ![t] = {}]

(* Nothing in the program catches an exception: it ends the scan, which    *)
(* has no destructor, and the client may then end the transaction.         *)
Throw(t) == NoScan(t) /\ Goto(t, "failed", "start")

(* Pin throws, after MoveToBlock has closed the page. *)
PinThrows(t) == Throw(t) /\ pins' = [pins EXCEPT ![t] = Unpinned(t)]

Contents(f, b) == [s \in Slots |-> f[<<b, s>>]]

(* History: that t has read a slot of its page is noted for the whole page. *)
HaveRead(t) == view' = [view EXCEPT ![t].block[page[t]] = Contents(file, page[t])]

(* Transaction::SetInt or SetString, logged, on slot s of the page. *)
Write(t, s, r) ==
    LET p == <<page[t], s>> IN
    /\ ExclusiveLock(t, page[t])
    /\ undo' = [undo EXCEPT ![t] = Append(@, [pos |-> p, old |-> file[p]])]
    /\ file' = [file EXCEPT ![p] = r]
    /\ view' = [view EXCEPT ![t].block[page[t]][s] = r]

(* The bound on writes; an Insert that has begun will make one. *)
Writing == {t \in Txn : call[t] = "Insert"}
MayWrite(t) ==
    FoldFunction(LAMBDA u, n : Len(u) + n, Cardinality(Writing \ {t}), undo) < MaxWrites

(* Calls start between two calls, on a scan that has a page. *)
Idle(t) == call[t] = "idle"
In(t, c, a) == call[t] = c /\ at[t] = a
Starts(t, c) == Idle(t) \/ In(t, c, "search")

(* A Next after one that has returned false starts the last block again. *)
ProgressOfNext(t) == IF progress[t] = "done" THEN "lost" ELSE progress[t]

-----------------------------------------------------------------------------
(* Opening a scan *)

(* MoveToBlock of block 0. *)
ToFirst(t) ==
    \/ /\ MoveTo(t, 0, -1)
       /\ Goto(t, "idle", "start")
       /\ progress' = [progress EXCEPT ![t] = "scanning"]
       /\ returned' = [returned EXCEPT ![t] = {}]
    \/ PinThrows(t)

(* TableScan's constructor, up to the append of the first block if the     *)
(* file is empty.                                                          *)
Open(t) ==
    /\ call[t] = "closed"
    /\ SharedLock(t, END_OF_FILE)
    /\ view' = [view EXCEPT ![t].size = length]
    /\ \/ length = 0 /\ Goto(t, "TableScan", "append") /\ UNCHANGED <<scan, progress, returned>>
       \/ length > 0 /\ ToFirst(t)
    /\ UNCHANGED <<file, length, undo>>

-----------------------------------------------------------------------------
(* Next and Insert *)

(* RecordPage::SearchAfter: the slots up to the first one with the flag, or *)
(* to the end of the page.  The first slot it reads locks the page; after  *)
(* the last slot there is nothing to read.                                 *)
Search(t, c, flag) ==
    LET rest == (slot[t] + 1)..(NumSlots - 1)
        found == {s \in rest : file[<<page[t], s>>].flag = flag}
    IN
    /\ Starts(t, c)
    /\ IF rest = {} THEN UNCHANGED <<held, view>> ELSE SharedLock(t, page[t]) /\ HaveRead(t)
    /\ \/ /\ found = {}
          /\ slot' = [slot EXCEPT ![t] = -1]
          /\ Goto(t, c, "last")
       \/ /\ found # {}
          /\ slot' = [slot EXCEPT ![t] = Min(found)]
          /\ IF c = "Next" THEN Goto(t, "idle", "start") ELSE Goto(t, c, "flag")
    /\ UNCHANGED <<file, length, page, pins, undo>>

NextSearches(t) ==
    /\ Search(t, "Next", "USED")
    /\ progress' = [progress EXCEPT ![t] = ProgressOfNext(t)]
    /\ returned' = [returned EXCEPT ![t] =
          IF progress'[t] = "lost" THEN {}
          ELSE IF call'[t] = "idle" THEN @ \cup {<<page[t], slot'[t]>>} ELSE @]

InsertSearches(t) ==
    /\ MayWrite(t)
    /\ Search(t, "Insert", "EMPTY")
    /\ progress' = [progress EXCEPT ![t] = "lost"]
    /\ returned' = [returned EXCEPT ![t] = {}]

(* RecordPage::SetFlag, which ends Insert.  Only the flag is written: the   *)
(* fields are those of the record that was deleted from the slot.          *)
InsertSetsFlag(t) ==
    /\ In(t, "Insert", "flag")
    /\ Write(t, slot[t], [file[<<page[t], slot[t]>>] EXCEPT !.flag = "USED"])
    /\ Goto(t, "idle", "start")
    /\ UNCHANGED <<length, scan, progress, returned>>

(* Transaction::Size locks the end of the file. *)
AtLastBlock(t) ==
    /\ SharedLock(t, END_OF_FILE)
    /\ view' = [view EXCEPT ![t].size = length]

MoveOn_ToFirstSlot(t, c) ==
    /\ MoveTo(t, page[t] + 1, 0)
    /\ Goto(t, c, "search")
    /\ UNCHANGED <<progress, returned>>

(* MoveToBlock of the next block. *)
MoveOn(t, c) ==
    \/ /\ MoveTo(t, page[t] + 1, -1)
       /\ Goto(t, c, "search")
       /\ UNCHANGED <<progress, returned>>
    \/ PinThrows(t)

(* No more slots in the page: the scan ends, or goes on in the next block.  *)
NextAtLastBlock(t) ==
    /\ In(t, "Next", "last")
    /\ AtLastBlock(t)
    /\ \/ /\ page[t] = length - 1
          /\ Goto(t, "idle", "start")
          /\ progress' = [progress EXCEPT ![t] = IF @ = "scanning" THEN "done" ELSE @]
          /\ UNCHANGED <<scan, returned>>
       \/ /\ page[t] # length - 1
          /\ MoveOn(t, "Next")
    /\ UNCHANGED <<file, length, undo>>

(* MoveToNewBlock begins with Close. *)
InsertAtLastBlock(t) ==
    /\ In(t, "Insert", "last")
    /\ AtLastBlock(t)
    /\ \/ /\ page[t] = length - 1
          /\ Goto(t, "Insert", "append")
          /\ pins' = [pins EXCEPT ![t] = Unpinned(t)]
          /\ UNCHANGED <<page, slot, progress, returned>>
       \/ /\ page[t] # length - 1
          /\ MoveOn(t, "Insert")
    /\ UNCHANGED <<file, length, undo>>

-----------------------------------------------------------------------------
(* MoveToNewBlock, of the constructor or of Insert *)

PinNewBlock(t, b) ==
    /\ page' = [page EXCEPT ![t] = b]
    /\ pins' = [pins EXCEPT ![t][b] = @ + 1]
    /\ Goto(t, call[t], "format")
    /\ UNCHANGED <<slot, progress, returned>>

AppendBlock_SharedLock(t) ==
    /\ at[t] = "append"
    /\ length < MaxBlocks
    /\ length' = length + 1
    /\ view' = [view EXCEPT ![t].size = length + 1]
    /\ PinNewBlock(t, length)
    /\ UNCHANGED <<file, held, undo>>

(* Transaction::Append: the end of the file is locked, and a block of      *)
(* zeroes written there; the disk may be full, or the Pin may throw.       *)
AppendBlock(t) ==
    /\ at[t] = "append"
    /\ ExclusiveLock(t, END_OF_FILE)
    /\ \/ /\ length < MaxBlocks
          /\ length' = length + 1
          /\ view' = [view EXCEPT ![t].size = length + 1]
          /\ PinNewBlock(t, length) \/ (Throw(t) /\ UNCHANGED pins)
       \/ Throw(t) /\ UNCHANGED <<length, pins, view>>
    /\ UNCHANGED <<file, undo>>

(* The shared lock that ExclusiveLock takes first. *)
ShareNewBlock(t) ==
    /\ at[t] = "format"
    /\ Lock!Share(t, page[t])
    /\ UNCHANGED <<file, length, scan, where, undo, history>>

(* RecordPage::Format is not logged. *)
FormatNewBlock(t) ==
    /\ at[t] = "format"
    /\ ExclusiveLock(t, page[t])
    /\ file' = [p \in Pos |-> IF p[1] = page[t] THEN Zeroed ELSE file[p]]
    /\ slot' = [slot EXCEPT ![t] = -1]
    /\ \/ /\ call[t] = "TableScan"
          /\ Goto(t, "idle", "start")
          /\ progress' = [progress EXCEPT ![t] = "scanning"]
       \/ /\ call[t] = "Insert"
          /\ Goto(t, "Insert", "search")
          /\ UNCHANGED progress
    /\ view' = [view EXCEPT ![t].block[page[t]] = [s \in Slots |-> Zeroed]]
    /\ UNCHANGED <<length, page, pins, undo, returned>>

-----------------------------------------------------------------------------
(* The other calls *)

OnSlot(t) == Idle(t) /\ slot[t] >= 0

(* Also the first half of a SetVal or a Delete that has no lock yet. *)
GetVal(t) ==
    /\ OnSlot(t)
    /\ SharedLock(t, page[t])
    /\ HaveRead(t)
    /\ UNCHANGED <<file, length, scan, where, undo, progress, returned>>

SetVal(t, v) ==
    /\ OnSlot(t)
    /\ MayWrite(t)
    /\ Write(t, slot[t], [file[<<page[t], slot[t]>>] EXCEPT !.val = v])
    /\ UNCHANGED <<length, scan, where, progress, returned>>

Delete(t) ==
    /\ OnSlot(t)
    /\ MayWrite(t)
    /\ Write(t, slot[t], [file[<<page[t], slot[t]>>] EXCEPT !.flag = "EMPTY"])
    /\ returned' = [returned EXCEPT ![t] = @ \ {<<page[t], slot[t]>>}]
    /\ UNCHANGED <<length, scan, where, progress>>

BeforeFirst(t) ==
    /\ Idle(t)
    /\ ToFirst(t)
    /\ UNCHANGED <<file, length, held, undo, view>>

(* The RID comes from an index, and is of a record there is in any block. *)
MoveToRID(t, rid) ==
    /\ Idle(t)
    /\ rid[1] < length /\ file[rid].flag = "USED"
    /\ \/ /\ MoveTo(t, rid[1], rid[2])
          /\ progress' = [progress EXCEPT ![t] = "lost"]
          /\ returned' = [returned EXCEPT ![t] = {}]
          /\ UNCHANGED where
       \/ PinThrows(t)
    /\ UNCHANGED <<file, length, held, undo, view>>

Close_KeepsPin(t) ==
    /\ Idle(t)
    /\ NoScan(t)
    /\ Goto(t, "closed", "start")
    /\ UNCHANGED <<file, length, held, pins, undo, view>>

(* The client gives up the scan; it closes no scan twice. *)
Close(t) ==
    /\ Idle(t)
    /\ pins' = [pins EXCEPT ![t] = Unpinned(t)]
    /\ NoScan(t)
    /\ Goto(t, "closed", "start")
    /\ UNCHANGED <<file, length, held, undo, view>>

(* The locks the current call asks for next, if it does not have them.     *)
WantsShared(t) ==
    IF call[t] = "closed" \/ at[t] = "last" THEN {END_OF_FILE}
    ELSE IF Idle(t) \/ at[t] \in {"search", "format"} THEN {page[t]} ELSE {}
WantsExclusive(t) ==
    IF at[t] = "append" THEN {END_OF_FILE}
    ELSE IF OnSlot(t) \/ at[t] \in {"flag", "format"} THEN {page[t]} ELSE {}

(* A lock is not granted in time: LockAbortException leaves the call. *)
LockAbort(t) ==
    /\ \/ \E b \in WantsShared(t) :
             held[t][b] = "none" /\ ~Lock!NoOther(t, b, {"exclusive"})
       \/ \E b \in WantsExclusive(t) :
             held[t][b] = "shared" /\ ~Lock!NoOther(t, b, {"shared", "exclusive"})
    /\ Throw(t)
    /\ UNCHANGED <<file, length, held, pins, undo, view>>

-----------------------------------------------------------------------------
(* The end of a transaction: whatever happened, its client calls Commit or *)
(* Rollback when no other call is under way; then its next one begins.     *)

(* ConcurrencyManager::Release and BufferList::UnpinAll. *)
End(t) ==
    /\ call[t] \in {"closed", "idle", "failed"}
    /\ held' = [held EXCEPT ![t] = [b \in DOMAIN @ |-> "none"]]
    /\ pins' = [pins EXCEPT ![t] = NoPins]
    /\ Goto(t, "closed", "start")
    /\ undo' = [undo EXCEPT ![t] = <<>>]
    /\ view' = [view EXCEPT ![t] = NothingRead]
    /\ NoScan(t)
    /\ UNCHANGED length

Commit(t) == End(t) /\ UNCHANGED file

(* The records in log undone in f, the newest first. *)
Undo(log, f) == FoldRight(LAMBDA r, g : [g EXCEPT ![r.pos] = r.old], log, f)

Rollback_OldestFirst(t) ==
    /\ End(t)
    /\ file' = FoldLeft(LAMBDA f, r : [f EXCEPT ![r.pos] = r.old], file, undo[t])

(* DoRollback.  What Append did stays. *)
Rollback(t) ==
    /\ End(t)
    /\ file' = Undo(undo[t], file)

Next ==
    \E t \in Txn :
        \/ Open(t)
        \/ NextSearches(t) \/ NextAtLastBlock(t)
        \/ InsertSearches(t) \/ InsertSetsFlag(t) \/ InsertAtLastBlock(t)
        \/ AppendBlock(t) \/ FormatNewBlock(t)
        \/ ShareNewBlock(t) \/ GetVal(t) \/ Delete(t)
        \/ BeforeFirst(t) \/ Close(t)
        \/ LockAbort(t)
        \/ Commit(t) \/ Rollback(t)
        \/ \E v \in 0..MaxVal : SetVal(t, v)
        \/ \E rid \in Pos : MoveToRID(t, rid)

Spec == Init /\ [][Next]_vars

-----------------------------------------------------------------------------
(* Properties *)

(* What a transaction has read of records, and of the length of the file,  *)
(* is what it would read now, until it ends: others neither change nor     *)
(* delete what it saw, fill no slot it saw empty, append no block behind   *)
(* the last one it saw, and none of what it saw is later rolled back.  So  *)
(* transactions are serializable in the order in which they end.           *)
ReadsAreRepeatable ==
    \A t \in Txn :
        /\ view[t].size \in {None, length}
        /\ \A b \in Blocks : view[t].block[b] \in {None, Contents(file, b)}

UpTo(t) == {p \in Pos : p[1] < page[t] \/ (p[1] = page[t] /\ p[2] <= slot[t])}

(* A scan from the first record has returned exactly the records there are *)
(* up to where it is, and all of the table's when Next returns false; its  *)
(* own deletions do not make it skip any (scan.h, lines 20 to 27).         *)
ScanReturnsTheTable ==
    \A t \in Txn :
        Idle(t) /\ progress[t] # "lost" =>
            returned[t] = {p \in IF progress[t] = "done" THEN Pos ELSE UpTo(t) :
                              file[p].flag = "USED"}

(* Whoever is about to read or write its page has it pinned, once, and     *)
(* nothing else, so that no call throws "has not pinned the block"; a      *)
(* transaction without a scan that has not failed has nothing pinned.      *)
PageIsPinned ==
    \A t \in Txn :
        /\ Idle(t) \/ at[t] \in {"search", "flag", "last", "format"} =>
              page[t] # None /\ pins[t] = [NoPins EXCEPT ![page[t]] = 1]
        /\ call[t] = "closed" => pins[t] = NoPins

(* The slots of the file are what AtomicStore promises: changes of a       *)
(* record are seen when the transaction commits, all at once, and a slot   *)
(* that one transaction has inserted, deleted or changed is nobody else's  *)
(* until then; appending and formatting blocks changes no record.          *)
WrittenBy(t) == {undo[t][i].pos : i \in DOMAIN undo[t]}

Abstract == INSTANCE AtomicStore WITH
    Block <- Pos, Val <- Record, Zero <- Zeroed, NoVal <- None,
    store <- FoldFunction(Undo, file, undo),
    pending <- [t \in Txn |-> LET written == WrittenBy(t) IN
                   [p \in Pos |-> IF p \in written THEN file[p] ELSE None]]

(* This is Abstract!Spec, put so that TLC looks for a stuttering step first. *)
ImplementsAtomicStore ==
    Abstract!Init /\ [][UNCHANGED <<file, undo>> \/ UNCHANGED Abstract!vars \/ Abstract!Next]_vars

=============================================================================
