------------------------------ MODULE LockSpec ------------------------------
(***************************************************************************)
(* What the lock service of SimpleDB promises its transactions: block      *)
(* locks that are either shared or exclusive, taken in two phases.  A      *)
(* transaction acquires locks in any order, upgrades a shared lock to an   *)
(* exclusive one only while it is the only holder, and once it has begun   *)
(* to release locks it acquires none until it has released them all.       *)
(*                                                                         *)
(* Waiting, notification, time-outs and the numbers the lock table counts  *)
(* with are not visible here; module LockTable shows that they implement   *)
(* this promise.                                                           *)
(***************************************************************************)
CONSTANTS
    Txn,      \* the transactions
    Block     \* the disk blocks that can be locked

VARIABLES
    held,      \* held[t][b] is the lock that t holds on b
    releasing  \* the transactions in their releasing phase

vars == <<held, releasing>>

Mode == {"none", "shared", "exclusive"}

(* No transaction other than t holds a lock on b of one of the modes. *)
NoOther(t, b, modes) == \A u \in Txn \ {t} : held[u][b] \notin modes

TypeOK ==
    /\ held \in [Txn -> [Block -> Mode]]
    /\ releasing \subseteq Txn

-----------------------------------------------------------------------------

Init ==
    /\ held = [t \in Txn |-> [b \in Block |-> "none"]]
    /\ releasing = {}

Share(t, b) ==
    /\ t \notin releasing
    /\ held[t][b] = "none"
    /\ NoOther(t, b, {"exclusive"})
    /\ held' = [held EXCEPT ![t][b] = "shared"]
    /\ UNCHANGED releasing

Upgrade(t, b) ==
    /\ t \notin releasing
    /\ held[t][b] = "shared"
    /\ NoOther(t, b, {"shared", "exclusive"})
    /\ held' = [held EXCEPT ![t][b] = "exclusive"]
    /\ UNCHANGED releasing

BeginRelease(t) ==
    /\ t \notin releasing
    /\ releasing' = releasing \cup {t}
    /\ UNCHANGED held

Unlock(t, b) ==
    /\ t \in releasing
    /\ held[t][b] # "none"
    /\ held' = [held EXCEPT ![t][b] = "none"]
    /\ UNCHANGED releasing

EndRelease(t) ==
    /\ t \in releasing
    /\ \A b \in Block : held[t][b] = "none"
    /\ releasing' = releasing \ {t}
    /\ UNCHANGED held

Next ==
    \E t \in Txn :
        \/ BeginRelease(t)
        \/ EndRelease(t)
        \/ \E b \in Block : Share(t, b) \/ Upgrade(t, b) \/ Unlock(t, b)

Spec == Init /\ [][Next]_vars

=============================================================================
