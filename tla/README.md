# SimpleDB in TLA+

A verification development for this repository's database engine, a C++20 port
of SimpleDB: a single process with many client threads, one transaction per
thread, over a directory of files. The modules model the code under `src/src`, and
one script of its build, `src/build_support/run_clang_tidy.py`. Other paths below are
relative to `src/src`.

## The system

| part | state it keeps | operations |
|---|---|---|
| `file/` FileManager | open files, mutex | Read, Write, Append a block, Length |
| `log/` LogManager, LogIterator | one page in memory, its block, `latest_lsn_`, `last_saved_lsn_`, mutex | Append a record, Flush(lsn), Iterator, Next |
| `buffer/` BufferManager, Buffer | a pool of buffers (block, pins, modifying transaction, LSN, page), `num_available_`, mutex, condition variable | Pin, Unpin, FlushAll |
| `txn/buffer_list` BufferList | per transaction: buffer and pin count of each pinned block | Pin, Unpin, UnpinAll |
| `txn/concurrency/` LockTable | a number per block (-1 exclusive, n shared), mutex, condition variable | SharedLock, ExclusiveLock, Unlock |
| `txn/concurrency/` ConcurrencyManager | per transaction: the locks it holds | SharedLock, ExclusiveLock, Release |
| `txn/recovery/` RecoveryManager, log records | the log | Commit, Rollback, Recover, SetInt, SetString, Undo |
| `txn/transaction` Transaction | id, and the three managers above | Get, Set, Pin, Unpin, Size, Append, Commit, Rollback, Recover |
| `record/` RecordPage, TableScan | slots with a used/empty flag; the scan's block and slot | Next, Insert, Delete, MoveToRID |
| `index/hash`, `index/btree` | buckets that are tables; leaf and directory pages | BeforeFirst, Next, Insert, Delete |
| `query/`, `index/query` scans | the scans below them | BeforeFirst, Next |
| `plan/`, `index/planner` | none beyond the plan tree | create plans; insert, delete and modify a table and its indexes |
| `metadata/` | catalog tables; StatManager's cached statistics, mutex, call count | create tables, views, indexes; layouts, statistics |
| `parse/` | position in the token stream | one method per statement |
| `server/` SimpleDB | all of the above | the constructor creates or recovers the database |
| `build_support/run_clang_tidy.py` | a bounded queue of files, worker threads, the list of files that failed, a directory of fixes | check every file, merge and apply fixes, exit code |

Calls go downwards: a scan calls its transaction, which takes a lock from the
lock table, finds its buffer in the buffer list, has the recovery manager log
the old value, changes the page and notes its LSN in the buffer. A buffer that
is flushed first flushes the log up to its LSN. Commit flushes the
transaction's buffers, appends and flushes a COMMIT record, releases the locks
and unpins the buffers. There are no callbacks and no messages; threads meet in
the four mutexes, in the two condition variables, and in the places that take
no mutex.

What is hard in it: waiting with time-outs on one condition variable for many
conditions; locks counted and not named; replacement of dirty buffers of
running transactions; `Flush` and `Iterator` of the log without its mutex;
crashes between any two file operations, in recovery too; exceptions that leave
an operation half done. `PROJECT.json` lists each of these at its line under
"hazards", with the properties that watch it.

## The modules

`LockSpec` states what the lock service promises: shared and exclusive locks,
upgraded only by the sole holder, in two phases. `LockTable` models the
table and the concurrency managers. A step is what a thread does while it holds
the table's mutex. `lockVal` is `LockTable::locks_`, `held` the maps of the
concurrency managers, `asleep` the threads in `cv_.wait_for`, and `late` those
for which `WaitingTooLong` has become true. `Ask` is the call of the concurrency
manager (which skips the table for a lock it has, and asks for a shared lock
before an exclusive one), `GrantShared`, `GrantExclusive`, `Wait` and `Abort`
are the ways a turn of the waiting loop can go, and `Release` is a step per block.
A caller that has caught `LockAbortException` may go on, as the code lets it.

`LogSpec` promises a sequence that grows at its end and of which a prefix,
which never shrinks, survives a crash. `LogManager` models `log_page_`,
`current_block_`, the two LSNs and the log file. A page is the sequence of its
records and the boundary is what they leave of the block. A step is one file
operation or the code between two of them, because `Flush` and `Iterator` take
no mutex and a crash may come anywhere; `pc` says where in its method a thread
is. A zeroed block, which a crash in `AppendNewBlock` leaves, reads as one record of size 0 for each
of its words: `NextRecord` returns them as the code does, and `seen` has them. `Records`
has the appended records only.

`BufferManager` models the pool, `num_available_`, the buffer lists and the
waiting in `Pin`. A step is what a thread does under the mutex. The log is the
pair of LSNs that `Buffer::Flush` sees, and the contents of a block are the
number of the write that made them. `writer` stands for the exclusive
locks, which are held until the end of a transaction. `Pin` is split into
`Call`, then `PinExisting`, `PinReplacing`, `Wait` or `GiveUp`; the order of
`buffer_pool_` is kept: the first existing or else the first unpinned buffer.

`AtomicStore` promises that pending writes take effect all at once or vanish.
`Recovery` models Transaction, RecoveryManager and the constructor of SimpleDB
over a log with a durable prefix, one buffer per block and exclusive locks.
`Replace` and `FullPage` are what the buffer pool and the log manager may do at
any time. `FlushOne`, `WriteEnd`, `ForceLog` and `Release` are the stages of a commit,
a rollback and a recovery; a crash may come between any two steps. A SET record
carries the old value, as in the code; its new value is history.
`CrashInExtend`, a crash while the log file is extended, is in `TornSpec` only.

`TableScan` models TableScan and RecordPage on one file, with the block locks
and the end-of-file lock of Transaction's `Size` and `Append`, which it takes
through `LockSpec`'s own actions. `page` is `record_page_`, `slot` is
`current_slot_`, `pins` the buffer list. Each request for a lock and each pin is a
step of its own, since each can wait and throw (only the locks that a
transaction gives up as it ends go in one step, `End`); `call` and `at` say where a
transaction is in its call. A transaction calls its scan in any order, several
scans one after the other, and may commit or roll back after any exception. A
search within one page is one step: the page is locked from its first slot on.
`view`, `progress` and `returned` are history and no action's guard reads them.
The scan object is dropped when a call throws or the transaction ends, and it is
not closed twice.

`Catalog` models the metadata managers that keep state, TableManager and
StatManager, and the constructor that creates or opens the catalog. `tcat` and `fcat`
are the rows of `table_catalog` and `field_catalog`, `stats` is `table_stats_` with
who counted an entry and how long ago, `mutex` StatManager's. A lock on a block is
a step of `LockSpec`, and `LockAbort` its time-out; `GetStatInfo` keeps the mutex over
as many such steps as a refresh needs. Every file is one block there. The client
rolls back after a `LockAbortException`. `StartNew`, `StartOld`, `StartFails` and
`StartCommits` are the constructor.

Three modules model statements on tables, for one transaction, whose locks keep the
others out. `Scans` has tables, expressions and predicates, the scan of a table, and
what a product, a selection and a projection do with the scans below them (`ProductNext`,
`SelectNext`, `ProjectNext`). `TableUpdates` has the loops of the update planner, which scan one table
through one selection: an insertion is one step, a delete or a modify is `BeginUpdate`
and then a step for each record the scan comes to, `Pass` when `SelectScan::Next`
passes over it and `Change` when the loop's body deals with it, and `Finish`. Whatever only
reads is one action there, `Reads`. `Query` replaces that action by the plans and the scans
they open, in full. A plan is a tree and a scan
the same tree with a cursor in each leaf; `NextOf` and `BeforeFirst` follow the
methods of the scans, one equation per class. `Plans` is the set of plans a planner may
return: the better planner may take either order of a product, since it decides by
estimates that come from statistics. `Answer` is what SQL means by a query, on
sets, independent of scans. `junk` is what lies before the first record of a page.

`RunClangTidy` models the script that runs clang-tidy on every file: the main
thread from its set-up to its exit code, the threads of `run_tidy`, the bounded
queue with its count of unfinished tasks, Ctrl-C, and threads that die because
the system gives them no process or no file, or a tool prints bytes that are not UTF-8.
`Export` fails whenever a file was checked, since `merge_replacement_files` uses `yaml`, whose import
is commented out (`run_clang_tidy.py:52`): with `-export-fixes` the exit code is 1 unless
no file was selected.

How they fit: `LogManager` justifies the log of `BufferManager` and `Recovery`
(a growing sequence with a durable prefix, `LogSpec`); `BufferManager` justifies
`Recovery`'s buffers (a dirty page is never lost and never precedes its log
record); `LockTable` justifies their `writer` (an exclusive lock has one holder
until the transaction releases it). `TableScan` uses what `LockTable` and
`Recovery` establish: `LockSpec`'s actions for locks, a commit or a rollback as
one step. `Catalog` uses the same, and that a scan of a locked table returns the
table (`TableScan`). `Scans` uses only that, for the tables scanned. `Query` implements
`TableUpdates` by its shape: its update steps are that module's actions and its own leave
the tables alone, so that what is proved of the one is true of the other.

A definition named `D_Slip` is `D` with a mistake one could make in this code.
Nothing else uses it. Replacing `D` by it makes a property fail, which shows that
the property is about the code.

## The runs

| run | instance | what it shows |
|---|---|---|
| `MCLockTable` | 3 transactions, 2 blocks, fair | type, exclusion, counts, readers are woken; implements `LockSpec`; every call returns, out of deadlocks too |
| `MCLockTableUpgradeWakeup` | 3 transactions, 1 block | finds the lost wake-up of an upgrade |
| `MCLogManager` | 1 thread, 4 records, 2 crashes | disk is a prefix of the log, flushed records are durable, no page overflows, iterators return the log backwards and an empty record per word of a zeroed block; implements `LogSpec` |
| `MCLogManagerConcurrentFlush` | 2 threads, 3 records | finds the unsaved LSN |
| `MCBufferManager` | 2 transactions, 3 blocks, 2 buffers, 2 writes | pin counts, replacement, write-ahead, committed values on disk |
| `MCBufferManagerWaits` | 3 transactions, 3 blocks, 2 buffers, fair | no missed wake-up, every Pin returns |
| `MCRecovery` | 2 clients, 2 writes, 2 crashes | readers see what is durably committed; implements `AtomicStore`, crashes during recovery included |
| `MCRecoveryTornLog` | 1 client, 1 write, 1 crash | finds the zeroed log block read as a checkpoint |
| `MCCatalog` | 2 clients, 1 table created up to twice, 1 row, 1 crash, refresh after 2 calls, fair | layouts are right and repeatable, statistics are fresh, their mutex is given back |
| `MCQuery` | 2 tables of up to 3 records in blocks of 2, 2 views, 5 queries, 4 updates | types and open scans; queries return their answers, updates are exact |
| `MCRunClangTidy` | 2 threads, 5 files of which 4 match and 1 is a third party's, fair | the exit code is true, fixes are complete, the script ends |
| `MCTableScan` | 2 transactions, 2 blocks of 2 slots, 2 writes at a time | reads are repeatable, a scan returns the table, pages are pinned, records are an atomic store |

Why the bounds are enough. Three transactions on one block are two readers and
an upgrader, two blocks make the crosswise deadlock, and no condition in the
table compares more than two counts. In the log, sizes 1 and 4 in blocks of 6
give records that share a block, fill it exactly and do not fit; four records
span three blocks. Two buffers and three blocks make every pin compete. Two
writes let a transaction overwrite its own write and two transactions write one
block after the other; a second crash can come in the recovery from the first,
and a client of a later run has the id of one of an earlier run. In the table,
two slots and two blocks give every step of a search: within a page, to the next
page, past the last page into a new one; one value is enough, since inserting and
deleting change a record as `SetVal` does. Transactions there begin again
without end, so nothing bounds the length of a behaviour. In `MCRecovery`, clients
and crashes together are at most three (`MaxEvents`): two clients and a crash, or one
client and a crash in the recovery from a crash. In the catalog a refresh after two
calls makes every third call one that counts all tables; a name created twice is the case in which the
catalog contradicts itself. In a query, three records in blocks of two leave holes, full
blocks and a second block; products of three tables nest on either side. In the lint
driver two threads and four tasks fill the queue, and one thread may die while the
other goes on.
`CHECK_DEADLOCK FALSE` is set where the bounds on records, writes, transactions
and crashes end a behaviour.

Fairness. `WF(Run)` is a scheduler that runs every runnable thread, `WF(WakeUp)`
is the time-out of `wait_for`, and `WF(TimePasses)` the clock. No strong fairness
is assumed: mutexes need not be fair, and the liveness properties hold by
the time-outs. A client is never assumed to go on with its transaction. In
`Catalog`, `WF(Run)` includes the time-out of a lock, which is what frees the mutex of
the statistics when its owner waits for a transaction that waits for the mutex. In
`RunClangTidy` Python runs every runnable thread and clang-tidy ends on every file;
that a thread does not die is a premise of `ComesToAnEnd`, and no fairness.

## Findings

Three runs end in a violation of what a comment in the code says:

* `LockTable::Unlock` does not notify when it takes a count from 2 to 1, so an
  upgrade sleeps on, up to its time-out (`MCLockTableUpgradeWakeup`).
* `LogManager::Flush` saves `latest_lsn_` without the mutex after writing the page; a
  record appended in between is taken for saved (`MCLogManagerConcurrentFlush`).
  Run while another thread moves to a new block, it even writes the emptied page over
  the full block, and `DiskIsPrefixOfLog` fails with two threads as well.
* A crash in `LogManager::AppendNewBlock` leaves a block of zeros, which recovery
  reads as a CHECKPOINT record, so that it undoes nothing (`MCRecoveryTornLog`).

Met while modelling, and kept as an exception in a property or as a case of a model:

* `ProductScan::BeforeFirst` ignores that its left side is empty; the scan then returns
  rows made of the right side's records and of what lies before the first
  record (`product_scan.cpp:14`). `QueryReturnsItsAnswer` excepts that case and fails without
  the exception.
* Where two tables of a query share a field name, a product takes the one on its left,
  so the answer depends on the order the better planner chose. The queries of
  `MCQuery` name such fields only where both sides are the same table.
* A crash during the first start leaves a directory that is not new and has no
  catalog: every later start throws (`StartFails`). A server that does start has its
  catalog, which `LayoutIsRight` says.
* `TableManager::CreateTable` does not refuse a name that exists; the layout is then a
  mixture (`LayoutIsRight` excepts it).
* A thread of `run_clang_tidy.py` that dies leaves `queue.join()` waiting, for ever;
  what `clang-apply-replacements` returns is not looked at.

The safety properties of `LogManager` on durability are checked with one
thread, and those of `Recovery` without `CrashInExtend`: they hold there, and
these findings are what breaks them.

## What is proved

`LockTableProofs` proves for every finite set of transactions and every set of
blocks, from `LockTableAssumption` alone: `TypeCorrect`, `MutualExclusion`,
`CountCorrect`, `ReadersAreWoken`, and `Refinement`, that `LockTable` implements
`LockSpec`.

The inductive invariant `LockInv` is the conjunction of the types, exclusion,
the agreement of the count with the holders, and `RequestMatchesHeld`: a
thread in the loop of `SharedLock` holds no lock on the block it asks for and one
in that of `ExclusiveLock` holds a shared one. Exclusion alone is not inductive:
the table grants an upgrade when its count is 1, and only the count's agreement
with the holders together with the caller being one of them says that nobody
else holds a lock. The proof shows each action to preserve each part, with lemmas on
how the cardinality of the holders changes when one joins or leaves.
`ReadersAreWoken` is inductive beside it. The refinement maps `GrantShared` to
`Share`, `GrantExclusive` to `Upgrade`, the steps of a release to themselves, and the
rest to stuttering.

`RunClangTidyProofs` proves `TypeCorrect`, `ExitCodeCorrect` and `FixesComplete` for any
finite set of threads, any number of files and any choice among them. The
inductive invariant `TidyInv` adds to the types that the count of unfinished tasks is the
length of the queue plus the number of threads that do not wait for a task
(`UnfinishedCorrect`), that every file main has put is queued, in a thread's hands or
dealt with (`NothingIsLost`), that a complaint is in `failed_files` or in the hands of the
thread that will append it (`ComplaintsAreKept`), that the fixes are those of the files checked
(`FixesAreKept`), and what main has done by where it is (`MainIsRight`). From the first,
`unfinished = 0` leaves no thread a step to take (`Quiet`), so nothing changes
any more while main reads the results. The exit code's truth alone is not inductive.

`BufferManagerProofs` proves every safety property that the pool's runs check, for any
finite sets of transactions and blocks, any number of buffers and any bounds. Its
invariant `BufferInv` is `PinInv`, the account of pins, and `PageInv`, the account of
pages. The first adds that an entry of a buffer list is there exactly while its pin count
is not zero. The second needs four facts that no property says: a buffer has the last
value written to its block; a block whose page on disk is old has a dirty buffer; the
writer of a dirty buffer still has its lock; and a page's LSN is not above the one its
buffer flushes the log up to, *or* is on disk already. The last alternative is needed because
`Buffer::AssignToBlock` does not reset `lsn_`.

`RecoveryProofs` proves the three invariants of `MCRecovery` and that `Recovery` implements
`AtomicStore`, for any blocks and any number of values, transactions and crashes.
The invariant `RecInv` has `RecoveredIsCommitted` at its heart: what a recovery
that started now would make of a block is the initial value or one whose COMMIT record is on
disk. Three parts support it. `EndsAfterWrites`: no transaction writes after its end, which
is why `DoRecover` may read the log once and backwards. `PageIsBehind` and
`LogIsFlushedFirst`: a write that is not in the durable log has not reached its page. And for each
stage of a commit, a rollback (`UndoneSoFar`, `RolledBack`) and a recovery (`RecoveredSoFar`,
`RecoveryDone`), what is restored so far in terms of the cursor in the log. The invariant
distinguishes a program that recovers from one that serves, since the ids of
transactions are used again after a start.

`TableScanProofs` proves the four invariants of `MCTableScan` and that the slots of a
file implement `AtomicStore`, for any finite set of transactions, any number of slots and any bounds.
`TableInv` relates locks to data: what a transaction has read it has locked, what it has
written it has locked exclusively, and what lies behind the end of the file is zeroed
and locked by nobody, except the one block that is being formatted (`Fresh`). The abstract
store is what a rollback of everybody would leave, a fold over transactions and their
undo logs; `CommittedIsOldest` shows that in a slot this is the value that the oldest
record of its only writer has saved.

`LogManagerProofs` proves `PageNeverOverflows` for any number of threads (`PageInv`), and the
other invariants and the refinement of `LogSpec` for one thread (`LogInv`).
`OneThread` is a hypothesis of those theorems because they are false without it: `Flush`
takes no mutex, and `MCLogManagerConcurrentFlush` shows a flushed record lost with two threads.
`LogInv` says where the newest records are in each step of `Append` and of
`AppendNewBlock` (still in the page, in a block, or in both), that the records on disk
come first in the log, and what an iterator has still to read: of the appended records a prefix of
the log it was opened on, of empty ones those left in its page and a blockful for each
zeroed block before it (`UnreadBlanks`). Such blocks are behind the last one and stay as they are, which is why
the count comes out exactly.

`PlannerProofs` proves, first, the three invariants of `MCCatalog`, for any transactions, tables and
fields. The heart of `CatInv` is `Shape`, which relates two sequences: each table named in
`table_catalog` has rows in `field_catalog`, and a table named once has its own there, together
and in order. It holds of what is committed, and of the two tables as
they are unless a transaction is between its two inserts or has failed there, in
which case its exclusive lock on `table_catalog` keeps every reader out. That the lock is
kept until the end is why an answer of `GetLayout` stays right (`AnswersAreRight`).

Second, `UpdatesTyped` and `UpdatesExact`: types and `UpdatesAreExact` of `TableUpdates`, for any
tables, fields, values, predicates, updates and bounds. The property speaks of the end of a
statement; the invariant `UpdateInv` says what is true on the way. While an update is
under way, the table is what it was when the statement began, except that the records
that satisfied the predicate *then* and that the cursor has passed have become what the update
makes of them, and `count` is their number (`Halfway`). That is what makes the loop
safe although it changes the table it scans and perhaps the field it selects by: a record the cursor has
still to come to is the old one, and a changed one is behind the cursor, which only goes
forward. The step from one record to the next rests on `NextRecord` (a scan finds
the first record behind its cursor, and none is skipped) and `NothingBetween`.

Third, that a query sees every row it is for, and each once. A scan is given by its states, what
`Next` and `BeforeFirst` do in each of them, and the row a state is on; it `Enumerates` a
finite set of rows if they can be numbered so that `BeforeFirst` takes it from anywhere to before
row 1 and `Next` takes it from row i to row i + 1, or says at the last that there are no more.
Each kind of scan has its
theorem: `TableScanEnumerates` for the records of a table, whichever slots are empty;
`SelectScanEnumerates` and `ProductScanEnumerates` for a selection and a product on *any* scans
that enumerate theirs, the one by an induction over the turns of the loop in `SelectScan::Next`, the
other by numbering the pairs; `ProjectScanEnumerates`. `PlansListTheirRows` puts them together, by
induction on the depth of a plan: whatever tree of scans a plan opens enumerates the rows
the plan is for. `ClientSeesEveryRow` says of that scan what a client sees: after `BeforeFirst`,
`Next` answers true once per row and comes to every row. A plan with a product whose left side is empty while the right one
is not is excepted (`ArePlans`), as it is in `QueryReturnsItsAnswer`: there `ProductScan` is not
right (see Findings). The trees are given by equations between a scan and those below it,
the ones that `NextOf` and `BeforeFirst` of `Query` satisfy, with the same operators `TableNext`,
`ProductNext`, `SelectNext` and `ProjectNext`.

The assumptions are those on the constants, named in the module that declares them: bounds are
natural numbers, a record fits a block, placeholders such as `NoTxn` are none of
the values they stand in for. Where cardinalities or folds over transactions occur, the transactions are
finitely many. In `Catalog`, clients create their tables under names other than the catalog's own
two, which `CreateTable` does not enforce: a second `table_catalog` would be one more table
whose name the catalog has twice, and its own. A table has at least one field, as the grammar requires.

`SetLemmas` has what these proofs need of the community modules: that `Max` and `Min` find an
extremum of a finite set, and that a fold over a finite set has the value its recursion
says. Both are inductions over finite sets; since induction rules with an
operator as parameter are out of reach, they are had from the well-foundedness of strict
inclusion on the subsets of the set.

In every one of these modules the proof has one lemma per action, named after it, that the action
keeps the invariant; each abstraction is proved by a lemma per action, too,
that it maps to a step of the abstract specification or to none.

### Only model-checked

* Liveness: `EveryCallReturns`, `EveryPinReturns`, `MutexIsReleased`, `ComesToAnEnd`. The provers
  do not reason about fairness or ENABLED.
* `QueryReturnsItsAnswer`. `PlansListTheirRows` is about any scans that satisfy the equations of
  `NextOf` and `BeforeFirst`; those two, the set of plans and `Answer` are recursive operators
  over trees, which the provers do not handle, so that they are what the equations say, that
  a planner's plans are for the rows of `Answer`, and what records the rows are, stays with
  TLC.
* The runs that end in a violation, and `TornSpec`, for which `MCRecoveryTornLog`
  shows that recovery is not right.

## Not modelled

* The indexes (`index/`), with the index loops of the update planner and the index scans.
  As the classes are wired no statement gets through them: `IndexInfo::Open` builds a
  `BTreeIndex` on a layout with the fields `block`, `id` and `data_val`
  (`metadata/index_info.cpp:32`), whose constructor looks for the field `key` in it
  (`index/btree/btree_index.cpp:24`) and `Schema::Type` throws; behind that, a local variable
  hides the member `root_block_` (`btree_index.cpp:28`). Nothing constructs a `HashIndex`. A
  model would have to assume repairs, and so would not be of this code.
* Cost estimates. The better planner compares two of them; `Query` lets it choose freely,
  which covers whatever they are. Index plans are constructed by no planner.
* The tokenizer, the lexer and the parser: one pass over characters without state
  that outlives a statement. `Query` takes statements as they come out.
* `FileManager`'s table of open files. That `Length` touches it without the mutex is a data
  race inside a C++ map and has no outcomes one could enumerate.
* `ViewManager` and `IndexManager`, on their own: each inserts into and searches one
  more catalog table, as `TableManager` does in `Catalog`. Views are in `Query`.
* Offsets in pages and strings longer than their field; a log record longer than a
  block; the view into a buffer that `GetString` returns.
* `build_support/cpplint.py`, a vendored copy of Google's style checker: sequential text
  matching that no part of the database uses. The logger and the hash helpers.
