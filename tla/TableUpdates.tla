---------------------------- MODULE TableUpdates ----------------------------
(***************************************************************************)
(* The update statements of one transaction, on tables without an index:   *)
(* the loops of the update planner over a selection on a table.  A delete  *)
(* or a modify changes the table that its scan is on, while it is on it.   *)
(* The statements that only read are one action here, Reads; module Query  *)
(* has them in full.                                                       *)
(***************************************************************************)
EXTENDS Scans

CONSTANTS
  Updates,        \* the delete and modify statements clients make
  MaxBlocks, MaxRecords     \* bounds: blocks, and records, in a table

VARIABLES
  stmt,           \* the statement under way
  status,         \* whether there may be more records for it
  scan,           \* the scan it has open
  count,          \* what the update statement has counted
  before          \* history: the tables when the statement began

updateVars == <<tables, stmt, status, scan, count, before>>

ASSUME UpdateAssumption ==
  /\ NumSlots \in Nat \ {0} /\ MaxBlocks \in Nat \ {0} /\ MaxRecords \in Nat
  /\ \A t \in Tables : Empty \notin RecordsOf(t)
  /\ \A u \in Updates :
       /\ u.kind \in {"delete", "modify"} /\ u.table \in Tables
       /\ u.kind = "modify" =>
            /\ u.field \in FieldsOf[u.table]
            /\ \A r \in RecordsOf(u.table) : Evaluate(u.value, r) \in Values

-----------------------------------------------------------------------------
(* Statements                                                              *)

NoStatement == [kind |-> "none"]
NoScan == [op |-> "none"]
EmptyBlock == [s \in Slots |-> Empty]
Block(t) == [Slots -> RecordsOf(t) \cup {Empty}]

\* The types; and a scan is open for a query, and for an update until its end.
UpdateTypeOK ==
  /\ DOMAIN tables = Tables
  /\ \A t \in Tables : tables[t] \in Seq(Block(t)) /\ Len(tables[t]) \in 1..MaxBlocks
  /\ stmt.kind \in {"none", "query", "insert", "delete", "modify"}
  /\ status \in {"open", "ended"}
  /\ scan # NoScan <=> stmt.kind = "query" \/ status = "open"
  /\ count \in 0..(NumSlots * MaxBlocks)

\* The first scan of a table has given it a block.
UpdateInit ==
  /\ tables = [t \in Tables |-> <<EmptyBlock>>]
  /\ stmt = NoStatement /\ status = "ended" /\ scan = NoScan /\ count = 0
  /\ before = tables

Begins(s, sc) ==
  /\ scan = NoScan
  /\ stmt' = s /\ scan' = sc
  /\ before' = tables

\* The first empty slot, or a new block.  The loop of SetVal sets the fields that
\* the statement names; the others keep what lay in the slot, zeros or values of
\* a deleted record.  r is the record that results, whatever that was.
InsertRecord(t, r) ==
  LET free == ((DOMAIN tables[t]) \X Slots) \ Used(t)
      p == First(free)
  IN /\ Begins([kind |-> "insert", table |-> t, record |-> r], NoScan)
     /\ free = {} => Len(tables[t]) < MaxBlocks
     /\ Cardinality(Used(t)) < MaxRecords
     /\ tables' = IF free # {} THEN [tables EXCEPT ![t][p[1]][p[2]] = r]
                  ELSE [tables EXCEPT ![t] = Append(@, [EmptyBlock EXCEPT ![1] = r])]
     /\ count' = 1 /\ status' = "ended"

\* A mistake: the selection is left out of the plan.
Selected_NoPredicate(t, pred) ==
  [op |-> "select", pred |-> <<>>, scan |-> [op |-> "table", table |-> t, at |-> FirstBlock]]

\* The plan of a delete or a modify: a selection on the table.
Selected(t, pred) ==
  [op |-> "select", pred |-> pred, scan |-> [op |-> "table", table |-> t, at |-> FirstBlock]]

BeginUpdate(u) ==
  /\ Begins(u, Selected(u.table, u.where))
  /\ status' = "open" /\ count' = 0
  /\ UNCHANGED tables

\* What becomes of a record: SetVal of the value that the expression has there.
Updated(u, r) ==
  IF u.kind = "delete" THEN Empty
  ELSE [r EXCEPT ![u.field] = Evaluate(u.value, r)]

Updating == stmt.kind \in {"delete", "modify"} /\ status = "open"

\* One turn of the loop of SelectScan::Next, in that of ExecuteDelete or
\* ExecuteModify: the selection passes over a record,
Pass ==
  LET n == TableNext(scan.scan)
      p == n.scan.at
  IN /\ Updating /\ n.found
     /\ ~IsSatisfied(scan.pred, tables[stmt.table][p[1]][p[2]])
     /\ scan' = [scan EXCEPT !.scan = n.scan]
     /\ UNCHANGED <<tables, stmt, status, count, before>>

\* or the statement changes it,
Change ==
  LET n == TableNext(scan.scan)
      p == n.scan.at
  IN /\ Updating /\ n.found
     /\ IsSatisfied(scan.pred, tables[stmt.table][p[1]][p[2]])
     /\ tables' = [tables EXCEPT ![stmt.table][p[1]][p[2]] = Updated(stmt, @)]
     /\ count' = count + 1 /\ scan' = [scan EXCEPT !.scan = n.scan]
     /\ UNCHANGED <<stmt, status, before>>

\* or there is no record any more.
Finish ==
  /\ Updating /\ ~TableNext(scan.scan).found
  /\ status' = "ended" /\ scan' = NoScan
  /\ UNCHANGED <<tables, stmt, count, before>>

\* Other statements have a scan until they are closed, and change no table.
Reads ==
  /\ ~Updating
  /\ stmt'.kind \in {"none", "query"} /\ status' \in {"open", "ended"}
  /\ scan' # NoScan <=> stmt'.kind = "query"
  /\ status' = "open" => stmt'.kind = "query"
  /\ count' \in {0, count}
  /\ UNCHANGED tables

UpdateActions ==
  \/ \E t \in Tables : \E r \in RecordsOf(t) : InsertRecord(t, r)
  \/ \E u \in Updates : BeginUpdate(u)
  \/ Pass \/ Change \/ Finish

UpdateSpec == UpdateInit /\ [][UpdateActions \/ Reads]_updateVars

-----------------------------------------------------------------------------
\* An update touches exactly the records that satisfied its predicate when it
\* began, each once, and reports their number, although it changes the table it
\* scans; an insertion adds its record in a slot that was empty.
UpdatesAreExact ==
  stmt.kind \in {"insert", "delete", "modify"} /\ status = "ended" =>
    LET old == before[stmt.table]
        new == tables[stmt.table]
        At(blocks, p) == IF p[1] \in DOMAIN blocks THEN blocks[p[1]][p[2]] ELSE Empty
        Hit(p) == IF stmt.kind = "insert" THEN At(old, p) # At(new, p)
                  ELSE At(old, p) # Empty /\ IsSatisfied(stmt.where, At(old, p))
        hits == {p \in (DOMAIN new) \X Slots : Hit(p)}
    IN /\ count = Cardinality(hits)
       /\ \A p \in (DOMAIN new) \X Slots :
            At(new, p) = IF p \notin hits THEN At(old, p)
                         ELSE IF stmt.kind = "insert" THEN stmt.record
                         ELSE Updated(stmt, At(old, p))
       /\ \A p \in hits : stmt.kind = "insert" => At(old, p) = Empty
       /\ \A t \in Tables \ {stmt.table} : tables[t] = before[t]

=============================================================================
