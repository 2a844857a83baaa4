------------------------------ MODULE Catalog ------------------------------
(***************************************************************************)
(* The metadata of SimpleDB (metadata/table_manager.cpp, stat_manager.cpp),*)
(* as the planner uses it, and the constructor that creates or opens it    *)
(* (server/simpledb.cpp).                                                  *)
(*                                                                         *)
(* The catalog is tables: table_catalog has a row for each table and       *)
(* field_catalog one for each of its fields.  view_catalog and             *)
(* index_catalog are tables like the users'.  Every file is one block from *)
(* the start, with one lock, taken through LockSpec (module TableScan has  *)
(* the searches, appends and end-of-file locks).                           *)
(* Nobody deletes from the catalog, and who inserts holds the block until  *)
(* the transaction ends, so a file of the catalog is a sequence that grows *)
(* and loses its end in a rollback.  Of other tables only the number of    *)
(* records is kept.  The client rolls back after a LockAbortException.     *)
(***************************************************************************)
EXTENDS Integers, SequencesExt

CONSTANTS
  Txn,            \* client transactions, one after the other in each place
  UserTable,      \* the tables clients create
  Fields,         \* the fields of each table, in the order of its schema
  RefreshAfter,   \* GetStatInfo calls between two refreshes: 100 in the code
  MaxCreated, MaxRows, MaxCrashes,    \* bounds
  None

System == <<"table_catalog", "field_catalog">>
Name == ToSet(System) \cup UserTable

ASSUME CatalogAssumption ==
  /\ \A n \in Name : Fields[n] \in Seq(STRING) /\ Fields[n] # <<>>
  /\ RefreshAfter \in Nat /\ MaxCreated \in Nat /\ MaxRows \in Nat /\ MaxCrashes \in Nat
  /\ UserTable \cap ToSet(System) = {}
  /\ None \notin Txn /\ None # <<>>

VARIABLES
  server,         \* the SimpleDB object
  is_new,         \* FileManager: the directory does not exist
  tcat, fcat, rows,  \* the catalog's two tables, and the sizes of the others
  committed,      \* the three as the last commits left them
  held,           \* the block locks
  op, at, name,   \* per transaction: its statement, where it is, on which table
  todo,           \* per transaction: the tables it has still to count
  mutex,          \* StatManager::mutex_
  stats,          \* StatManager::table_stats_, with who counted and how long ago
  num_calls,      \* StatManager::num_calls_
  answer,         \* history: what GetLayout has told a transaction of each table
  crashes

data == <<tcat, fcat, rows>>
statistics == <<mutex, stats, num_calls>>
calls == <<op, at, name, todo, answer>>
vars == <<server, is_new, data, committed, held, calls, statistics, crashes>>

Lock == INSTANCE LockSpec WITH Block <- Name, releasing <- {}

Absent == <<>>    \* GetLayout has thrown
Row == [table : Name, field : STRING]
RowsOf(n) == [i \in DOMAIN Fields[n] |-> [table |-> n, field |-> Fields[n][i]]]
Listed(n) == n \in ToSet(tcat)
Counted == {n \in Name : stats[n] # None}

\* The records a scan of the table finds.
Records(n) ==
  IF n = "table_catalog" THEN Len(tcat)
  ELSE IF n = "field_catalog" THEN Len(fcat) ELSE rows[n]

TypeOK ==
  /\ server \in {"down", "starting", "up", "failed"}
  /\ is_new \in BOOLEAN
  /\ tcat \in Seq(Name) /\ fcat \in Seq(Row) /\ rows \in [Name -> 0..MaxRows]
  /\ Lock!TypeOK
  /\ op \in [Txn -> {"none", "idle", "create", "query", "insert", "failed"}]
  /\ at \in [Txn -> {"start", "tcat", "fcat", "mutex", "count", "row"}]
  /\ \A t \in Txn : name[t] \in Name \cup {None} /\ todo[t] \in Seq(Name)
  /\ mutex \in Txn \cup {None}
  /\ mutex # None => at[mutex] = "count"
  /\ num_calls \in 0..RefreshAfter

Everybody(v) == [t \in Txn |-> v]
EveryTable(v) == [n \in Name |-> v]

Init ==
  /\ server = "down" /\ is_new = TRUE /\ crashes = 0
  /\ tcat = <<>> /\ fcat = <<>> /\ rows = [n \in Name |-> 0]
  /\ committed = [tcat |-> tcat, fcat |-> fcat, rows |-> rows]
  /\ op = Everybody("none") /\ at = Everybody("start")
  /\ name = Everybody(None) /\ todo = Everybody(<<>>)
  /\ answer = Everybody(EveryTable(None))
  /\ mutex = None /\ stats = EveryTable(None) /\ num_calls = 0
  /\ held = Everybody(EveryTable("none"))

-----------------------------------------------------------------------------
(* Locks and the places in a call                                          *)

SharedLock(t, n) == IF held[t][n] = "none" THEN Lock!Share(t, n) ELSE UNCHANGED held
ExclusiveLock(t, n) ==
  IF held[t][n] = "exclusive" THEN UNCHANGED held ELSE Lock!Upgrade(t, n)

Goto(t, a) == at' = [at EXCEPT ![t] = a] /\ UNCHANGED <<op, name>>
Return(t, o) ==
  /\ op' = [op EXCEPT ![t] = o]
  /\ at' = [at EXCEPT ![t] = "start"]
  /\ name' = [name EXCEPT ![t] = None]

\* To insert, a scan first looks for an empty slot under a shared lock.
In(t, o, a) == server = "up" /\ at[t] = a /\ op[t] \in o
Searches(t, o, a, n) == In(t, o, a) /\ held[t][n] = "none" /\ SharedLock(t, n)
Inserts(t, o, a, n) == In(t, o, a) /\ held[t][n] # "none" /\ ExclusiveLock(t, n)

Statement(t, o, n) ==
  /\ server = "up" /\ op[t] \in {"none", "idle"}
  /\ o = "create" => Len(tcat) < Len(System) + MaxCreated
  /\ op' = [op EXCEPT ![t] = o]
  /\ at' = [at EXCEPT ![t] = "tcat"]
  /\ name' = [name EXCEPT ![t] = n]
  /\ UNCHANGED <<server, is_new, data, committed, held, todo, answer, statistics, crashes>>

-----------------------------------------------------------------------------
(* TableManager                                                            *)

CreateTableSearches(t) ==
  /\ \/ Searches(t, {"create"}, "tcat", "table_catalog")
     \/ Searches(t, {"create"}, "fcat", "field_catalog")
  /\ UNCHANGED <<server, is_new, data, committed, calls, statistics, crashes>>

\* Whether the name is taken is not looked at.
CreateTableRow(t) ==
  /\ Inserts(t, {"create"}, "tcat", "table_catalog")
  /\ tcat' = Append(tcat, name[t])
  /\ answer' = [answer EXCEPT ![t][name[t]] = None]
  /\ Goto(t, "fcat")
  /\ UNCHANGED <<server, is_new, fcat, rows, committed, todo, statistics, crashes>>

CreateFieldRows(t) ==
  /\ Inserts(t, {"create"}, "fcat", "field_catalog")
  /\ fcat' = fcat \o RowsOf(name[t])
  /\ Return(t, "idle")
  /\ UNCHANGED <<server, is_new, tcat, rows, committed, todo, answer, statistics, crashes>>

\* The first row of the table and those that follow it without a gap.
LayoutOf(n) ==
  LET first == SelectInSeq(fcat, LAMBDA r : r.table = n)
      after == {i \in first..Len(fcat) : fcat[i].table # n}
      last == IF after = {} THEN Len(fcat) ELSE Min(after) - 1
  IN [i \in 1..(last - first + 1) |-> fcat[first + i - 1].field]

Told(t, what) == answer' = [answer EXCEPT ![t][name[t]] = what]

\* A mistake: the catalog is read without its lock.
GetLayoutFindsTable_NoLock(t) ==
  /\ In(t, {"query", "insert"}, "tcat")
  /\ IF Listed(name[t])
     THEN Goto(t, "fcat") /\ UNCHANGED answer
     ELSE Return(t, "idle") /\ Told(t, Absent)
  /\ UNCHANGED <<server, is_new, data, committed, held, todo, statistics, crashes>>

\* GetLayout looks the name up; when it is not there, the statement throws.
GetLayoutFindsTable(t) ==
  /\ In(t, {"query", "insert"}, "tcat")
  /\ SharedLock(t, "table_catalog")
  /\ IF Listed(name[t])
     THEN Goto(t, "fcat") /\ UNCHANGED answer
     ELSE Return(t, "idle") /\ Told(t, Absent)
  /\ UNCHANGED <<server, is_new, data, committed, todo, statistics, crashes>>

GetLayoutReadsFields(t) ==
  /\ In(t, {"query", "insert"}, "fcat")
  /\ SharedLock(t, "field_catalog")
  /\ Told(t, LayoutOf(name[t]))
  /\ Goto(t, "mutex")
  /\ UNCHANGED <<server, is_new, data, committed, todo, statistics, crashes>>

-----------------------------------------------------------------------------
(* StatManager                                                             *)

Older(s) == [n \in Name |-> IF s[n] = None THEN None ELSE [s[n] EXCEPT !.age = @ + 1]]

\* A mistake: the old entries stay, and emplace does not replace them.
GetStatInfo_KeepsEntries(t) ==
  /\ In(t, {"query", "insert"}, "mutex")
  /\ mutex = None /\ mutex' = t
  /\ LET refresh == num_calls + 1 > RefreshAfter
     IN /\ num_calls' = IF refresh THEN 0 ELSE num_calls + 1
        /\ stats' = Older(stats)
        /\ todo' = [todo EXCEPT ![t] = IF refresh THEN tcat
                                       ELSE IF name[t] \in Counted THEN <<>> ELSE <<name[t]>>]
  /\ Goto(t, "count")
  /\ UNCHANGED <<server, is_new, data, committed, held, answer, crashes>>

\* The mutex, and whether to count all tables, this one or none.  Whoever asks
\* has got a layout before, so RefreshStatistics has its locks on the catalog.
GetStatInfo(t) ==
  /\ In(t, {"query", "insert"}, "mutex")
  /\ mutex = None /\ mutex' = t
  /\ LET refresh == num_calls + 1 > RefreshAfter
     IN /\ num_calls' = IF refresh THEN 0 ELSE num_calls + 1
        /\ stats' = IF refresh THEN EveryTable(None) ELSE Older(stats)
        /\ todo' = [todo EXCEPT ![t] = IF refresh THEN tcat
                                       ELSE IF name[t] \in Counted THEN <<>> ELSE <<name[t]>>]
  /\ Goto(t, "count")
  /\ UNCHANGED <<server, is_new, data, committed, held, answer, crashes>>

\* emplace keeps the entry of a name that is listed twice.
CalculateTableStats(t) ==
  /\ In(t, {"query", "insert"}, "count") /\ todo[t] # <<>>
  /\ LET n == Head(todo[t])
     IN /\ SharedLock(t, n)
        /\ stats' = [stats EXCEPT ![n] = IF @ = None THEN [records |-> Records(n), age |-> 0, by |-> t]
                                         ELSE @]
  /\ todo' = [todo EXCEPT ![t] = Tail(@)]
  /\ UNCHANGED <<server, is_new, data, committed, op, at, name, answer,
                 mutex, num_calls, crashes>>

GetStatInfoReturns(t) ==
  /\ In(t, {"query", "insert"}, "count") /\ todo[t] = <<>>
  /\ mutex' = None
  /\ IF op[t] = "query" THEN Return(t, "idle") ELSE Goto(t, "row")
  /\ UNCHANGED <<server, is_new, data, committed, held, todo, answer, stats, num_calls, crashes>>

-----------------------------------------------------------------------------
(* The record itself, and the end of a transaction                         *)

InsertSearches(t) ==
  /\ Searches(t, {"insert"}, "row", name[t])
  /\ UNCHANGED <<server, is_new, data, committed, calls, statistics, crashes>>

Insert(t) ==
  /\ Inserts(t, {"insert"}, "row", name[t])
  /\ rows[name[t]] < MaxRows
  /\ rows' = [rows EXCEPT ![name[t]] = @ + 1]
  /\ Return(t, "idle")
  /\ UNCHANGED <<server, is_new, tcat, fcat, committed, todo, answer, statistics, crashes>>

\* The bound on rows; the client does something else.
NoRoom(t) ==
  /\ In(t, {"insert"}, "row") /\ rows[name[t]] = MaxRows
  /\ Return(t, "idle")
  /\ UNCHANGED <<server, is_new, data, committed, held, todo, answer, statistics, crashes>>

\* The lock that the next step of a call needs.
Wanted(t) ==
  IF at[t] = "tcat" THEN "table_catalog"
  ELSE IF at[t] = "fcat" THEN "field_catalog"
  ELSE IF at[t] = "row" THEN name[t]
  ELSE IF at[t] = "count" /\ todo[t] # <<>> THEN Head(todo[t]) ELSE None

Blocked(t) ==
  /\ Wanted(t) # None
  /\ IF held[t][Wanted(t)] = "none" THEN ~Lock!NoOther(t, Wanted(t), {"exclusive"})
     ELSE /\ held[t][Wanted(t)] = "shared"
          /\ op[t] = "create" \/ at[t] = "row"
          /\ ~Lock!NoOther(t, Wanted(t), {"shared", "exclusive"})

\* A mistake: the mutex is unlocked by hand and not when an exception leaves.
LockAbort_KeepsMutex(t) ==
  /\ server = "up" /\ Blocked(t)
  /\ Return(t, "failed")
  /\ todo' = [todo EXCEPT ![t] = <<>>]
  /\ UNCHANGED <<server, is_new, data, committed, held, answer, statistics, crashes>>

\* LockAbortException; the scoped_lock goes with the call.
LockAbort(t) ==
  /\ server = "up" /\ Blocked(t)
  /\ Return(t, "failed")
  /\ todo' = [todo EXCEPT ![t] = <<>>]
  /\ mutex' = IF mutex = t THEN None ELSE mutex
  /\ UNCHANGED <<server, is_new, data, committed, held, answer, stats, num_calls, crashes>>

\* What was written is what is locked exclusively.
Merge(t, old, new) ==
  LET Mine(n) == held[t][n] = "exclusive"
  IN [tcat |-> IF Mine("table_catalog") THEN new.tcat ELSE old.tcat,
      fcat |-> IF Mine("field_catalog") THEN new.fcat ELSE old.fcat,
      rows |-> [n \in Name |-> IF Mine(n) THEN new.rows[n] ELSE old.rows[n]]]
Current == [tcat |-> tcat, fcat |-> fcat, rows |-> rows]
BecomesCurrent(d) == tcat' = d.tcat /\ fcat' = d.fcat /\ rows' = d.rows

End(t) ==
  /\ held' = [held EXCEPT ![t] = EveryTable("none")]
  /\ op' = [op EXCEPT ![t] = "none"]
  /\ answer' = [answer EXCEPT ![t] = EveryTable(None)]
  /\ stats' = [n \in Name |-> IF stats[n] # None /\ stats[n].by = t
                              THEN [stats[n] EXCEPT !.by = None] ELSE stats[n]]
  /\ UNCHANGED <<server, is_new, at, name, todo, mutex, num_calls, crashes>>

Commit(t) ==
  /\ server = "up" /\ op[t] = "idle"
  /\ committed' = Merge(t, committed, Current)
  /\ UNCHANGED data
  /\ End(t)

Rollback(t) ==
  /\ server = "up" /\ op[t] \in {"idle", "failed"}
  /\ BecomesCurrent(Merge(t, Current, committed))
  /\ UNCHANGED committed
  /\ End(t)

-----------------------------------------------------------------------------
(* The constructor of SimpleDB, and crashes.  Nobody else runs meanwhile.  *)

AllCounted(listed) ==
  [n \in Name |-> IF n \in ToSet(listed)
                  THEN [records |-> CASE n = "table_catalog" -> Len(tcat')
                                      [] n = "field_catalog" -> Len(fcat')
                                      [] OTHER -> rows[n],
                        age |-> 0, by |-> None]
                  ELSE None]

Starts ==
  /\ server' = "starting"
  /\ stats' = AllCounted(tcat')
  /\ UNCHANGED <<rows, committed, held, calls, mutex, num_calls, crashes>>

\* The directory is new: the managers create their tables.
StartNew ==
  /\ server \in {"down", "failed"} /\ is_new /\ is_new' = FALSE
  /\ tcat' = System
  /\ fcat' = FlattenSeq([i \in DOMAIN System |-> RowsOf(System[i])])
  /\ Starts

\* Recovery has run.  Every manager finds its layout.
StartOld ==
  /\ server \in {"down", "failed"} /\ ~is_new
  /\ \A i \in DOMAIN System : Listed(System[i])
  /\ UNCHANGED <<is_new, tcat, fcat>>
  /\ Starts

\* GetLayout("table_catalog") throws in the constructor of StatManager.
StartFails ==
  /\ server \in {"down", "failed"} /\ ~is_new
  /\ ~Listed("table_catalog")
  /\ server' = "failed"
  /\ UNCHANGED <<is_new, data, committed, held, calls, statistics, crashes>>

StartCommits ==
  /\ server = "starting" /\ server' = "up"
  /\ committed' = Current
  /\ UNCHANGED <<is_new, data, held, calls, statistics, crashes>>

\* What no commit has kept is undone by the recovery that follows.
Crash ==
  /\ crashes < MaxCrashes /\ crashes' = crashes + 1
  /\ server \in {"starting", "up"} /\ server' = "down"
  /\ BecomesCurrent(committed)
  /\ op' = Everybody("none") /\ at' = Everybody("start")
  /\ name' = Everybody(None) /\ todo' = Everybody(<<>>)
  /\ answer' = Everybody(EveryTable(None))
  /\ mutex' = None /\ stats' = EveryTable(None) /\ num_calls' = 0
  /\ held' = Everybody(EveryTable("none"))
  /\ UNCHANGED <<is_new, committed>>

-----------------------------------------------------------------------------

Run(t) ==
  \/ CreateTableSearches(t) \/ CreateTableRow(t) \/ CreateFieldRows(t)
  \/ GetLayoutFindsTable(t) \/ GetLayoutReadsFields(t)
  \/ GetStatInfo(t) \/ CalculateTableStats(t) \/ GetStatInfoReturns(t)
  \/ InsertSearches(t) \/ Insert(t) \/ NoRoom(t)
  \/ LockAbort(t)

Next ==
  \/ \E t \in Txn :
       \/ \E o \in {"create", "query", "insert"}, n \in UserTable : Statement(t, o, n)
       \/ Run(t) \/ Commit(t) \/ Rollback(t)
  \/ StartNew \/ StartOld \/ StartFails \/ StartCommits
  \/ Crash

\* Every runnable thread runs, and a wait for a lock ends by its time-out.
Spec == Init /\ [][Next]_vars
FairSpec == Spec /\ \A t \in Txn : WF_vars(Run(t))

-----------------------------------------------------------------------------
(* What the metadata managers promise                                      *)

Once(n) == Cardinality({i \in DOMAIN tcat : tcat[i] = n}) = 1

\* As long as a transaction runs, the layout it was given for a table is the one
\* the table was created with, and a table it was told does not exist does not,
\* whoever creates tables, rolls back or crashes meanwhile; and the catalog of a
\* running server describes itself.  A name created twice is excepted: CreateTable
\* does not refuse it, and GetLayout then mixes the two.
LayoutIsRight ==
  /\ \A t \in Txn, n \in Name :
       /\ answer[t][n] = Absent => ~Listed(n)
       /\ answer[t][n] \notin {None, Absent} /\ Once(n) => answer[t][n] = Fields[n]
  /\ server = "up" => \A i \in DOMAIN System : Once(System[i]) /\ LayoutOf(System[i]) = Fields[System[i]]

\* The estimates the planners see are at most RefreshAfter calls old, failed and
\* refused calls included; and what a transaction has counted itself stays the
\* number of records in the table until it changes the table or ends.
StatsAreFresh ==
  \A n \in Counted :
    /\ stats[n].age <= RefreshAfter
    /\ \A t \in Txn : stats[n].by = t /\ held[t][n] # "exclusive" => stats[n].records = Records(n)

\* Whoever holds the mutex of the statistics gives it back, although he waits
\* under it for locks of transactions that may wait for the mutex.
MutexIsReleased == \A t \in Txn : mutex = t ~> mutex # t

=============================================================================
