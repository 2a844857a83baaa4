---------------------------- MODULE MCTableScan ----------------------------
(* Instances of TableScan for TLC. *)
EXTENDS TableScan, TLC

Symmetry == Permutations(Txn)

=============================================================================
