---------------------------- MODULE MCLockTable ----------------------------
(* Instances of LockTable for TLC. *)
EXTENDS LockTable

=============================================================================
