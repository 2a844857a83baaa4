--------------------------- MODULE MCBufferManager ---------------------------
(* Instances of BufferManager for TLC. *)
EXTENDS BufferManager, TLC

(* Transactions are interchangeable, and so are blocks. *)
Symmetry == Permutations(Txn) \cup Permutations(Block)

=============================================================================
