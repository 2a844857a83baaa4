------------------------------- MODULE Query -------------------------------
(***************************************************************************)
(* Queries and updates of one transaction: the plans (plan/), the scans    *)
(* they open (query/) and, from module TableUpdates, the update planner.   *)
(* Locks keep the tables still for everybody else (module TableScan), so   *)
(* nothing runs beside the statement but its client, who may go back to    *)
(* the first row.                                                          *)
(*                                                                         *)
(* A plan is a tree; an open scan is the same tree with a cursor in each   *)
(* leaf.  The better planner orders a product by estimated block accesses; *)
(* the estimates come from statistics that may be out of date, so the      *)
(* model lets it choose either order.                                      *)
(***************************************************************************)
EXTENDS TableUpdates

CONSTANTS
  ViewDef,        \* ViewDef[v]: the query that defines view v
  Queries         \* the queries clients make

Views == DOMAIN ViewDef

ASSUME QueryAssumption ==
  /\ Tables \cap Views = {}
  /\ \A q \in Queries : q.from # <<>> /\ ToSet(q.from) \subseteq Tables \cup Views

VARIABLE
  returned        \* history: the records Next has returned since BeforeFirst

vars == <<tables, stmt, status, scan, count, returned, before>>

-----------------------------------------------------------------------------
(* Scans.  junk is what lies before the first record of a page, which a    *)
(* product reads when its left side has none.                              *)

RECURSIVE FieldsIn(_), ValueOf(_, _, _), BeforeFirst(_, _), NextOf(_, _)

FieldsIn(s) ==
  CASE s.op = "table" -> FieldsOf[s.table]
    [] s.op = "product" -> FieldsIn(s.left) \cup FieldsIn(s.right)
    [] s.op = "select" -> FieldsIn(s.scan)
    [] s.op = "project" -> ToSet(s.fields)

HasField(s, f) == f \in FieldsIn(s)

\* GetVal.  A field that both sides of a product have is the left one's.
ValueOf(s, f, junk) ==
  CASE s.op = "table" -> IF s.at[2] = 0 THEN junk ELSE tables[s.table][s.at[1]][s.at[2]][f]
    [] s.op = "product" -> ValueOf(IF HasField(s.left, f) THEN s.left ELSE s.right, f, junk)
    [] OTHER -> ValueOf(s.scan, f, junk)

CurrentRecord(s, junk) == [f \in FieldsIn(s) |-> ValueOf(s, f, junk)]

BeforeFirst(s, junk) ==
  CASE s.op = "table" -> [s EXCEPT !.at = FirstBlock]
    [] s.op = "product" ->
         ProductBeforeFirst(s, NextOf(BeforeFirst(s.left, junk), junk),
                            BeforeFirst(s.right, junk))
    [] OTHER -> [s EXCEPT !.scan = BeforeFirst(@, junk)]

\* Next: whether there is a record, and the scan moved to it.
NextOf(s, junk) ==
  CASE s.op = "table" -> TableNext(s)
    [] s.op = "product" ->
         LET r == NextOf(s.right, junk)
             home == BeforeFirst(r.scan, junk)
         IN ProductNext(s, NextOf(s.left, junk), r, home, NextOf(home, junk))
    [] s.op = "select" ->
         LET n == NextOf(s.scan, junk)
         IN SelectNext(s, n, IsSatisfied(s.pred, CurrentRecord(n.scan, junk)),
                       NextOf([s EXCEPT !.scan = n.scan], junk))
    [] s.op = "project" -> ProjectNext(s, NextOf(s.scan, junk))

-----------------------------------------------------------------------------
(* Query planners                                                          *)

\* One plan for each table or view, their products, a selection, a projection.
\* The basic planner takes the products in the order of the query.
RECURSIVE Plans(_, _)
Plans(q, better) ==
  LET PlansFor(n) == IF n \in Views THEN Plans(ViewDef[n], better)
                     ELSE {[op |-> "table", table |-> n, at |-> FirstBlock]}
      Joined == FoldLeft(LAMBDA ps, n :
                    {Product(p, r) : p \in ps, r \in PlansFor(n)}
                    \cup (IF better THEN {Product(r, p) : p \in ps, r \in PlansFor(n)} ELSE {}),
                    PlansFor(Head(q.from)), Tail(q.from))
  IN {[op |-> "project", fields |-> q.select,
       scan |-> [op |-> "select", scan |-> p, pred |-> q.where]] : p \in Joined}

-----------------------------------------------------------------------------
(* Statements                                                              *)

Init == UpdateInit /\ returned = <<>>

OpenQuery(q, better, junk) ==
  /\ \E p \in Plans(q, better) : Begins([kind |-> "query", query |-> q], BeforeFirst(p, junk))
  /\ status' = "open" /\ count' = 0 /\ returned' = <<>>
  /\ UNCHANGED tables

\* The client calls Next until it is false and looks at every record.
NextRow(junk) ==
  /\ stmt.kind = "query" /\ status = "open"
  /\ LET n == NextOf(scan, junk)
     IN /\ scan' = n.scan
        /\ status' = IF n.found THEN "open" ELSE "ended"
        /\ returned' = IF n.found
                       THEN Append(returned, CurrentRecord(n.scan, junk))
                       ELSE returned
  /\ UNCHANGED <<tables, stmt, count, before>>

Restart(junk) ==
  /\ stmt.kind = "query" /\ returned # <<>>
  /\ scan' = BeforeFirst(scan, junk)
  /\ status' = "open" /\ returned' = <<>>
  /\ UNCHANGED <<tables, stmt, count, before>>

\* A mistake: the statement is over and its scan is left open.
Close_KeepsScan ==
  /\ stmt.kind = "query"
  /\ stmt' = NoStatement /\ status' = "ended"
  /\ UNCHANGED <<tables, scan, count, returned, before>>

Close ==
  /\ stmt.kind = "query"
  /\ stmt' = NoStatement /\ scan' = NoScan /\ status' = "ended"
  /\ UNCHANGED <<tables, count, returned, before>>

Next ==
  \/ \E junk \in Values :
       \/ \E q \in Queries, better \in BOOLEAN : OpenQuery(q, better, junk)
       \/ NextRow(junk) \/ Restart(junk)
  \/ Close
  \/ \E t \in Tables : \E r \in RecordsOf(t) : InsertRecord(t, r) /\ returned' = <<>>
  \/ \E u \in Updates : BeginUpdate(u) /\ returned' = <<>>
  \/ Pass /\ UNCHANGED returned
  \/ Change /\ UNCHANGED returned
  \/ Finish /\ UNCHANGED returned

Spec == Init /\ [][Next]_vars

-----------------------------------------------------------------------------
(* What SQL means by a query: the records of its tables, taken together in *)
(* every way, those kept that satisfy the predicate, and their fields      *)
(* selected.  The ids keep equal records apart.                            *)

Pairs(R, S) == {[id |-> <<r.id, s.id>>, val |-> r.val @@ s.val] : r \in R, s \in S}

RECURSIVE Answer(_)
Answer(q) ==
  LET RelationOf(n) == IF n \in Views THEN Answer(ViewDef[n])
                       ELSE {[id |-> p, val |-> tables[n][p[1]][p[2]]] : p \in Used(n)}
      all == FoldLeft(LAMBDA R, n : Pairs(R, RelationOf(n)), RelationOf(Head(q.from)), Tail(q.from))
  IN {[id |-> r.id, val |-> [f \in ToSet(q.select) |-> r.val[f]]] :
        r \in {x \in all : IsSatisfied(q.where, x.val)}}

Times(r, seq) == Cardinality({i \in DOMAIN seq : seq[i] = r})
Expected(r, R) == Cardinality({x \in R : x.val = r})

\* The records that a scan ought to produce, from what its leaves hold.
RECURSIVE Relation(_), HasEmptyLeft(_)
Relation(s) ==
  CASE s.op = "table" -> {[id |-> p, val |-> tables[s.table][p[1]][p[2]]] : p \in Used(s.table)}
    [] s.op = "product" -> Pairs(Relation(s.left), Relation(s.right))
    [] s.op = "select" -> {r \in Relation(s.scan) : IsSatisfied(s.pred, r.val)}
    [] s.op = "project" -> Relation(s.scan)
HasEmptyLeft(s) ==
  CASE s.op = "table" -> FALSE
    [] s.op = "product" ->
         \/ HasEmptyLeft(s.left) \/ HasEmptyLeft(s.right)
         \/ Relation(s.left) = {} /\ Relation(s.right) # {}
    [] OTHER -> HasEmptyLeft(s.scan)

\* A query returns its answer: every record as often as SQL says, none too often
\* on the way and none missing when Next says that there are no more; through
\* views, either planner, and however often the client has gone back.  Excepted
\* are products whose left side is empty while the right one is not: there
\* ProductScan goes on with what lies before the first record of a page.
QueryReturnsItsAnswer ==
  stmt.kind = "query" /\ ~HasEmptyLeft(scan) =>
    LET answer == Answer(stmt.query)
    IN /\ \A i \in DOMAIN returned :
            Times(returned[i], returned) <= Expected(returned[i], answer)
       /\ status = "ended" => Len(returned) = Cardinality(answer)

=============================================================================
