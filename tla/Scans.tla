-------------------------------- MODULE Scans --------------------------------
(***************************************************************************)
(* Tables, and the scans of query/ but for what takes a whole plan to say: *)
(* the values of expressions, the scan of a table, and what a product and  *)
(* a selection do with the scans below them.  Query puts them together.    *)
(*                                                                         *)
(* A table is a sequence of blocks of slots; a slot holds a record or is   *)
(* Empty.  A table scan is a cursor.                                       *)
(***************************************************************************)
EXTENDS Integers, SequencesExt

CONSTANTS
  FieldsOf,       \* FieldsOf[t]: the fields of table t
  Values,         \* the values of a field
  NumSlots,       \* slots in a block
  Empty

Tables == DOMAIN FieldsOf
Slots == 1..NumSlots
RecordsOf(t) == [FieldsOf[t] -> Values]

VARIABLE tables   \* the blocks of each table

-----------------------------------------------------------------------------
(* Expressions, terms and predicates                                       *)

\* An expression is [field |-> f] or [const |-> c].
Evaluate(e, record) == IF "field" \in DOMAIN e THEN record[e.field] ELSE e.const

\* A predicate is the sequence of the terms it conjoins.
IsSatisfied(pred, record) ==
  \A i \in DOMAIN pred : Evaluate(pred[i].lhs, record) = Evaluate(pred[i].rhs, record)

-----------------------------------------------------------------------------
(* Table scans                                                             *)

Used(t) == {p \in (DOMAIN tables[t]) \X Slots : tables[t][p[1]][p[2]] # Empty}
Before(p, q) == p[1] < q[1] \/ (p[1] = q[1] /\ p[2] < q[2])
First(positions) == CHOOSE p \in positions : \A q \in positions \ {p} : Before(p, q)

\* Slot 0 is before the first slot of a block.
FirstBlock == <<1, 0>>

\* A mistake: the search begins with the current slot of the next block.
TableNext_KeepsSlot(s) ==
  LET here == {p \in Used(s.table) : p[1] = s.at[1] /\ p[2] > s.at[2]}
      later == {p \in Used(s.table) : p[1] > s.at[1] /\ p[2] > s.at[2]}
      rest == IF here # {} THEN here ELSE later
  IN IF rest = {} THEN [found |-> FALSE, scan |-> [s EXCEPT !.at = <<Len(tables[s.table]), 0>>]]
     ELSE [found |-> TRUE, scan |-> [s EXCEPT !.at = First(rest)]]

\* When no record is left, the cursor stands before the last block.
TableNext(s) ==
  LET rest == {p \in Used(s.table) : Before(s.at, p)}
  IN IF rest = {} THEN [found |-> FALSE, scan |-> [s EXCEPT !.at = <<Len(tables[s.table]), 0>>]]
     ELSE [found |-> TRUE, scan |-> [s EXCEPT !.at = First(rest)]]

-----------------------------------------------------------------------------
(* Product scans                                                           *)

Product(left, right) == [op |-> "product", left |-> left, right |-> right]

\* BeforeFirst goes to the left side's first record, if there is one or not:
\* left is what Next says of that side, home the right side before its first.
ProductBeforeFirst(s, left, home) == [s EXCEPT !.left = left.scan, !.right = home]

\* Next moves the right side, or else the left side, and the right one from its
\* first record.  l and r are what Next says of the sides, again what it says of
\* the right one when that is home, before its first record.
ProductNext(s, l, r, home, again) ==
  IF r.found THEN [found |-> TRUE, scan |-> [s EXCEPT !.right = r.scan]]
  ELSE IF l.found
  THEN [found |-> again.found, scan |-> [s EXCEPT !.left = l.scan, !.right = again.scan]]
  ELSE [found |-> FALSE, scan |-> [s EXCEPT !.left = l.scan, !.right = home]]

-----------------------------------------------------------------------------
(* Select scans                                                            *)

\* One turn of the loop of Next: n is what Next says of the scan below, passes
\* whether the record there satisfies the predicate, again what the next turn does.
SelectNext(s, n, passes, again) ==
  IF n.found /\ ~passes THEN again
  ELSE [found |-> n.found, scan |-> [s EXCEPT !.scan = n.scan]]

-----------------------------------------------------------------------------
(* Project scans                                                           *)

\* Next passes on what it says of the scan below.
ProjectNext(s, n) == [found |-> n.found, scan |-> [s EXCEPT !.scan = n.scan]]

=============================================================================
