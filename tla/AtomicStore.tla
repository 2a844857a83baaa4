---------------------------- MODULE AtomicStore ----------------------------
(***************************************************************************)
(* What SimpleDB promises about the blocks its transactions write: a       *)
(* transaction's writes are pending, and no other transaction writes the   *)
(* same blocks, until they all take effect at once or all vanish.  A crash *)
(* makes every pending write vanish and touches nothing else.              *)
(***************************************************************************)
CONSTANTS
    Txn,      \* the transactions
    Block,    \* the blocks
    Val,      \* the values of a block
    Zero,     \* the value of every block at first
    NoVal     \* the pending value of a block a transaction has not written

VARIABLES
    store,    \* the committed values
    pending   \* the writes of the transactions that have not ended

vars == <<store, pending>>

Untouched == [b \in Block |-> NoVal]

TypeOK ==
    /\ store \in [Block -> Val]
    /\ pending \in [Txn -> [Block -> Val \cup {NoVal}]]

Init ==
    /\ store = [b \in Block |-> Zero]
    /\ pending = [t \in Txn |-> Untouched]

Write(t, b) ==
    /\ \A u \in Txn \ {t} : pending[u][b] = NoVal
    /\ \E v \in Val : pending' = [pending EXCEPT ![t][b] = v]
    /\ UNCHANGED store

Writing == {t \in Txn : pending[t] # Untouched}

(* The transactions in C commit and those in A abort, in one step: several *)
(* end together when one write to the log makes all their ends durable.    *)
End(C, A) ==
    /\ store' = [b \in Block |->
          IF \E t \in C : pending[t][b] # NoVal
          THEN pending[CHOOSE t \in C : pending[t][b] # NoVal][b] ELSE store[b]]
    /\ pending' = [t \in Txn |-> IF t \in C \cup A THEN Untouched ELSE pending[t]]

Crash == End({}, Txn)

Next ==
    \/ \E t \in Txn, b \in Block : Write(t, b)
    \/ \E C \in SUBSET Writing : \E A \in SUBSET (Writing \ C) : End(C, A)
    \/ Crash

Spec == Init /\ [][Next]_vars

=============================================================================
