------------------------------ MODULE LogSpec ------------------------------
(***************************************************************************)
(* What the log manager of SimpleDB promises: a sequence that only grows   *)
(* at its end, a prefix of which is on disk.  The prefix never shrinks; a  *)
(* crash loses what lies beyond it and nothing else.                       *)
(***************************************************************************)
EXTENDS Naturals, Sequences

CONSTANT Record     \* the log records

VARIABLES
    log,      \* the records appended and not lost, oldest first
    durable   \* how many of them are on disk

vars == <<log, durable>>

TypeOK ==
    /\ log \in Seq(Record)
    /\ durable \in 0..Len(log)

Init ==
    /\ log = <<>>
    /\ durable = 0

Append1(r) ==
    /\ log' = Append(log, r)
    /\ UNCHANGED durable

(* Records go to disk in order, on request or because a block is full. *)
Save ==
    /\ durable' \in durable..Len(log)
    /\ UNCHANGED log

Crash ==
    /\ log' = SubSeq(log, 1, durable)
    /\ UNCHANGED durable

Next == Save \/ Crash \/ \E r \in Record : Append1(r)

Spec == Init /\ [][Next]_vars

=============================================================================
