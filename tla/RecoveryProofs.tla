--------------------------- MODULE RecoveryProofs ---------------------------
(****************************************************************************)
(* Proofs about Recovery, for any set of blocks, any number of values and   *)
(* transactions and any bounds.  The inductive invariant is RecInv.  Its    *)
(* heart is RecoveredIsCommitted: what a recovery that started now would    *)
(* make of a block is a value the log on disk shows committed, at every     *)
(* step of writing, forcing, rolling back and recovering.  Around it stand  *)
(* what relates a dirty buffer to the records behind it, a lock to the      *)
(* records of its holder, and each half-way point of a commit, a rollback   *)
(* or a recovery to the part of the log it has dealt with.  One lemma for   *)
(* each action shows that the action keeps the invariant.  With it,         *)
(* Recovery is shown to implement AtomicStore.                              *)
(****************************************************************************)
EXTENDS Recovery, SetLemmas

-----------------------------------------------------------------------------
(* What the invariant speaks about *)

(* The log behind the last checkpoint on disk, up to its end in memory, and *)
(* in it the records of a transaction that end it or are its writes.        *)
Recent == (LastCheckpoint + 1)..Len(log)
EndOf(t) == {j \in Recent : log[j].txn = t /\ IsEnd(j)}
Writes(t) == {j \in Recent : log[j].txn = t /\ log[j].op = "SET"}

(* The writes to a block a recovery would undo, those not yet on disk among *)
(* them, and the first one.                                                 *)
Unfinished(b) ==
    {i \in Recent : log[i].op = "SET" /\ log[i].block = b /\ log[i].txn \notin Finished}
First(i, b) == i \in Unfinished(b) /\ \A k \in Unfinished(b) : i <= k

(* The program has started, and its recovery is not yet on disk; or that is *)
(* so, or there was none.                                                   *)
Recovering ==
    /\ state = "starting"
    /\ \/ phase[1] = "recover"
       \/ phase[1] = "active" /\ ~isNew
       \/ ending[1] = "CHECKPOINT"
Serving == state = "open" \/ (state = "starting" /\ ~Recovering)

-----------------------------------------------------------------------------
(* The invariant: the log, the pages and the buffers *)

LogTyped == log \in Seq(LogRecord) /\ durable \in 0..Len(log)

(* No transaction writes after its end.  This is what makes the order in    *)
(* which DoRecover reads, ends before writes, sufficient.                   *)
EndsAfterWrites ==
    \A i, j \in Recent : log[i].op = "SET" /\ IsEnd(j) /\ log[i].txn = log[j].txn => i < j

RecordsAreWhole ==
    \A i \in 1..Len(log) : /\ log[i].op = "SET" => log[i].block \in Block
                           /\ log[i].op # "CHECKPOINT" => log[i].txn \in Txn

(* While the first write that would be undone is not on disk in the log,    *)
(* the page on disk has the value it would be undone to.                    *)
PageIsBehind ==
    \A b \in Block, i \in Recent : First(i, b) /\ i > durable => disk[b] = log[i].val

(* Flushing the log up to the LSN of a buffer flushes every write to it.    *)
LogIsFlushedFirst ==
    \A i \in (durable + 1)..Len(log) : log[i].op = "SET" => buf[log[i].block].lsn >= i

CleanIsOnDisk == \A b \in Block : buf[b].txn = 0 => disk[b] = buf[b].val

(* A value a transaction has committed, or the one at first. *)
CommittedValue(b, v) ==
    v = Zero \/ \E i \in 1..durable : log[i].block = b /\ log[i].new = v /\ CommitOf(i) # {}

RecoveredIsCommitted == \A b \in Block : CommittedValue(b, Recovered[b])

DataInv ==
    /\ TypeOK /\ EndsAfterWrites /\ RecordsAreWhole /\ PageIsBehind /\ LogIsFlushedFirst
    /\ CleanIsOnDisk /\ RecoveredIsCommitted

-----------------------------------------------------------------------------
(* The invariant: where the transactions are *)

(* Only a transaction that runs has dirty buffers or locks, and none has a  *)
(* dirty buffer once it writes its last record.                             *)
WritersRun ==
    /\ \A t \in Txn, b \in Block : buf[b].txn = t => phase[t] \in {"active", "undo", "recover", "flush"}
    /\ \A t \in Txn, b \in Block : writer[b] = t => phase[t] \notin {"none", "ended"}

(* A checkpoint in memory only is the last record, and transaction 1 is     *)
(* about to flush it.                                                       *)
CheckpointsOnDisk ==
    \A j \in (durable + 1)..Len(log) : log[j].op = "CHECKPOINT" =>
        j = Len(log) /\ state = "starting" /\ phase[1] = "force" /\ ending[1] = "CHECKPOINT"

ProgramState ==
    /\ state = "down" => /\ durable = Len(log) /\ lastTxn = 0 /\ buf = Fresh
                         /\ \A b \in Block : writer[b] = 0
                         /\ isNew => log = <<>>
    /\ state = "starting" => lastTxn = 1
    /\ state = "open" => phase[1] = "ended"
    /\ \A t \in Txn : /\ phase[t] = "undo" => state = "open" /\ ending[t] = "ROLLBACK"
                      /\ phase[t] = "recover" => t = 1 /\ ending[t] = "CHECKPOINT"
                      /\ phase[t] \in {"none", "active"} => ending[t] = "COMMIT"
                      /\ ending[t] = "CHECKPOINT" =>
                            /\ t = 1 /\ state = "starting"
                            /\ phase[1] \in {"recover", "flush", "force"}
    /\ finished # {} => phase[1] = "recover"

ControlInv == WritersRun /\ CheckpointsOnDisk /\ ProgramState

-----------------------------------------------------------------------------
(* The invariant: while transactions are served *)

(* The writes to a block that would be undone are all of the transaction    *)
(* that has it locked, and that has not ended.                              *)
WriterHolds(b) ==
    \A i \in Unfinished(b) :
        writer[b] = log[i].txn /\ phase[log[i].txn] \in {"active", "undo", "flush", "force"}

(* A dirty buffer has a recent write of the transaction that made it dirty. *)
DirtyHasWrite(b) == \A t \in Txn : buf[b].txn = t => \E i \in Writes(t) : log[i].block = b

(* The values a transaction finds, undoes and leaves are its own or the one *)
(* committed before.                                                        *)
Origin(t, b) == {Recovered[b]} \cup {log[k].new : k \in {j \in Writes(t) : log[j].block = b}}
ValuesKnown(b) ==
    \A i \in Unfinished(b), t \in Txn :
        log[i].txn = t => log[i].val \in Origin(t, b) /\ buf[b].val \in Origin(t, b)

(* A transaction has no end in the recent log before it writes it, and no   *)
(* record at all before it begins, although its id is one used before.      *)
NoEndYet(t) == phase[t] \in {"none", "active", "undo", "flush"} => EndOf(t) = {}
NoRecordYet(t) == phase[t] = "none" => \A j \in Recent : log[j].txn # t

(* Its START record is there, and the loop of DoRollback comes to it; what  *)
(* it writes and its end come behind it.                                    *)
Begun(t) ==
    phase[t] # "none" =>
        \E s \in 1..Len(log) :
            /\ log[s] = Record("START", t)
            /\ \A j \in s..Len(log) : log[j].txn = t /\ IsEnd(j) => j \in Recent
            /\ t # 1 => s \in Recent /\ (phase[t] = "undo" => s <= cursor[t])
NoSecondStart(t) ==
    \A k \in EndOf(t) \cup Writes(t) : \A s \in k..Len(log) :
        log[s].txn = t => log[s].op # "START"

EndIsForced(t) ==
    /\ phase[t] = "force" => EndOf(t) = {cursor[t]} /\ log[cursor[t]].op = ending[t]
    /\ phase[t] \in {"release", "ended"} => \A j \in EndOf(t) : j <= durable
    /\ phase[t] = "release" => EndOf(t) # {}

(* DoRollback has undone the writes behind its cursor, and when it is done  *)
(* a block has the value it had before the first of them.                   *)
UndoneSoFar(t) ==
    phase[t] = "undo" =>
        \A i \in Writes(t) :
            /\ i > cursor[t]
            /\ \A k \in Writes(t) : cursor[t] < k /\ k < i => log[k].block # log[i].block
            => buf[log[i].block].val = log[i].val
RolledBack(t) ==
    phase[t] \in {"flush", "force"} /\ ending[t] = "ROLLBACK" =>
        \A b \in Block, i \in Writes(t) : First(i, b) => buf[b].val = log[i].val

BlockInv(b) == WriterHolds(b) /\ DirtyHasWrite(b) /\ ValuesKnown(b)
TxnInv(t) ==
    /\ NoEndYet(t) /\ NoRecordYet(t) /\ Begun(t) /\ NoSecondStart(t)
    /\ EndIsForced(t) /\ UndoneSoFar(t) /\ RolledBack(t)
ServingInv == (\A b \in Block : BlockInv(b)) /\ (\A t \in Txn : TxnInv(t))

-----------------------------------------------------------------------------
(* The invariant: during recovery *)

RecoveryBegun ==
    \E s \in 1..Len(log) : /\ log[s] = Record("START", 1)
                           /\ \A j \in s..Len(log) : ~(log[j].txn = 1 /\ IsEnd(j))

(* Nothing but the START record or the checkpoint is not yet on disk.       *)
RecoveryTail ==
    /\ \A j \in (durable + 1)..Len(log) : log[j] \in {Record("START", 1), Checkpoint}
    /\ phase[1] \in {"recover", "flush"} => durable = Len(log)

NotYetRecovered == phase[1] = "active" => \A b \in Block : buf[b].txn = 0 /\ writer[b] = 0

(* DoRecover has undone what it should behind its cursor, and has touched   *)
(* no other block.                                                          *)
RecoveredSoFar ==
    phase[1] = "recover" =>
        /\ LastCheckpoint <= cursor[1]
        /\ finished = {log[j].txn : j \in {k \in (cursor[1] + 1)..Len(log) : IsEnd(k)}}
        /\ \A b \in Block :
              (\A i \in Unfinished(b) : i <= cursor[1]) => buf[b].txn = 0
        /\ \A b \in Block : \A i \in Unfinished(b) :
              /\ i > cursor[1]
              /\ \A k \in Unfinished(b) : k > cursor[1] => i <= k
              => buf[b].val = log[i].val

RecoveryDone ==
    /\ phase[1] \in {"flush", "force"} => \A b \in Block : buf[b].val = Recovered[b]
    /\ phase[1] = "force" => cursor[1] = Len(log) /\ log[cursor[1]] = Checkpoint

RecoveringInv ==
    /\ phase[1] \in {"active", "recover", "flush", "force"}
    /\ RecoveryBegun /\ RecoveryTail /\ NotYetRecovered /\ RecoveredSoFar /\ RecoveryDone

RecInv ==
    /\ DataInv /\ ControlInv
    /\ Serving => ServingInv
    /\ Recovering => RecoveringInv

-----------------------------------------------------------------------------
(* The log and its last checkpoint *)

LEMMA LogFacts == LogTyped => /\ Len(log) \in Nat /\ durable \in Nat /\ durable <= Len(log)
                              /\ \A i \in 1..Len(log) : log[i] \in LogRecord
BY DEF LogTyped

LEMMA LaterPositions ==
    ASSUME NEW d \in Nat, NEW e \in Nat, NEW n \in Nat, d <= e
    PROVE  /\ \A i \in (e + 1)..n : i \in (d + 1)..n /\ i \in 1..n
           /\ \A i \in 1..n : i > e => i \in (e + 1)..n
OBVIOUS

LEMMA CheckpointFacts ==
    LogTyped => /\ LastCheckpoint \in 0..durable
                /\ LastCheckpoint = 0 \/ log[LastCheckpoint].op = "CHECKPOINT"
                /\ \A i \in (LastCheckpoint + 1)..durable : log[i].op # "CHECKPOINT"
<1> SUFFICES ASSUME LogTyped
             PROVE  /\ LastCheckpoint \in 0..durable
                    /\ LastCheckpoint = 0 \/ log[LastCheckpoint].op = "CHECKPOINT"
                    /\ \A i \in (LastCheckpoint + 1)..durable : log[i].op # "CHECKPOINT"
  OBVIOUS
<1> DEFINE S == {0} \cup {i \in 1..durable : log[i].op = "CHECKPOINT"}
<1>1. durable \in Nat /\ S \subseteq 0..durable /\ S # {}  BY LogFacts
<1>2. LastCheckpoint = Max(S)  BY DEF LastCheckpoint
<1>3. LastCheckpoint \in S /\ \A x \in S : x <= LastCheckpoint
  <2> HIDE DEF S
  <2> QED  BY <1>1, <1>2, LastPosition
<1>4. \A i \in (LastCheckpoint + 1)..durable : i \notin S  BY <1>1, <1>3
<1>5. \A i \in (LastCheckpoint + 1)..durable : i \in 1..durable  BY <1>1, <1>3
<1> QED  BY <1>1, <1>3, <1>4, <1>5

LEMMA CheckpointFactsNext ==
    (LogTyped => /\ LastCheckpoint \in 0..durable
                 /\ LastCheckpoint = 0 \/ log[LastCheckpoint].op = "CHECKPOINT"
                 /\ \A i \in (LastCheckpoint + 1)..durable : log[i].op # "CHECKPOINT")'
BY CheckpointFacts, PTL

(* The last checkpoint is the only position like it. *)
LEMMA CheckpointIs ==
    LogTyped =>
        \A k \in 0..durable :
            /\ k = 0 \/ log[k].op = "CHECKPOINT"
            /\ \A i \in (k + 1)..durable : log[i].op # "CHECKPOINT"
            => LastCheckpoint = k
<1> SUFFICES ASSUME LogTyped, NEW k \in 0..durable, k = 0 \/ log[k].op = "CHECKPOINT",
                    \A i \in (k + 1)..durable : log[i].op # "CHECKPOINT"
             PROVE  LastCheckpoint = k
  OBVIOUS
<1>1. durable \in Nat  BY LogFacts
<1>2. /\ LastCheckpoint \in 0..durable
      /\ LastCheckpoint = 0 \/ log[LastCheckpoint].op = "CHECKPOINT"
      /\ \A i \in (LastCheckpoint + 1)..durable : log[i].op # "CHECKPOINT"
  BY CheckpointFacts
<1>3. CASE LastCheckpoint < k
  <2>1. k \in (LastCheckpoint + 1)..durable /\ k # 0  BY <1>1, <1>2, <1>3
  <2> QED  BY <1>2, <2>1
<1>4. CASE k < LastCheckpoint
  <2>1. LastCheckpoint \in (k + 1)..durable /\ LastCheckpoint # 0  BY <1>1, <1>2, <1>4
  <2> QED  BY <1>2, <2>1
<1> QED  BY <1>1, <1>2, <1>3, <1>4

LEMMA CheckpointIsNext ==
    (LogTyped =>
        \A k \in 0..durable :
            /\ k = 0 \/ log[k].op = "CHECKPOINT"
            /\ \A i \in (k + 1)..durable : log[i].op # "CHECKPOINT"
            => LastCheckpoint = k)'
BY CheckpointIs, PTL

(* A step that keeps the records on disk keeps what a recovery would find   *)
(* in them: appending to the log in memory does, and so does losing it.     *)
LEMMA PrefixKept ==
    ASSUME LogTyped, LogTyped', durable' = durable, \A i \in 1..durable : log'[i] = log[i]
    PROVE  /\ LastCheckpoint' = LastCheckpoint /\ Scanned' = Scanned
           /\ Finished' = Finished
           /\ \A b : Undone(b)' = Undone(b)
           /\ disk' = disk => Recovered' = Recovered
<1>1. durable \in Nat  BY LogFacts
<1>2. /\ LastCheckpoint \in 0..durable
      /\ LastCheckpoint = 0 \/ log[LastCheckpoint].op = "CHECKPOINT"
      /\ \A i \in (LastCheckpoint + 1)..durable : log[i].op # "CHECKPOINT"
  BY CheckpointFacts
<1>3. LastCheckpoint' = LastCheckpoint
  <2> DEFINE k == LastCheckpoint
  <2> HIDE DEF k
  <2>1. k \in 0..durable' /\ (k = 0 \/ log'[k].op = "CHECKPOINT")  BY <1>1, <1>2 DEF k
  <2>2. \A i \in (k + 1)..durable' : log'[i].op # "CHECKPOINT"  BY <1>1, <1>2 DEF k
  <2>3. LastCheckpoint' = LastCheckpoint
    <3>1. LastCheckpoint \in 0..durable'
             /\ (LastCheckpoint = 0 \/ log'[LastCheckpoint].op = "CHECKPOINT")
             /\ \A i \in (LastCheckpoint + 1)..durable' : log'[i].op # "CHECKPOINT"
      BY <2>1, <2>2 DEF k
    <3> QED  BY <3>1, CheckpointIsNext
  <2> QED  BY <2>3
<1>4. Scanned' = Scanned /\ Scanned \subseteq 1..durable  BY <1>1, <1>2, <1>3 DEF Scanned
<1>5. Finished' = Finished
  <2>1. \A i \in Scanned : log'[i] = log[i]  BY <1>4
  <2> QED  BY <1>4, <2>1 DEF Finished, IsEnd
<1>6. \A b : Undone(b)' = Undone(b)  BY <1>4, <1>5 DEF Undone
<1>7. ASSUME disk' = disk PROVE Recovered' = Recovered
  <2>1. ASSUME NEW b \in Block
        PROVE  (IF Undone(b)' = {} THEN disk'[b] ELSE log'[Min(Undone(b)')].val)
                  = IF Undone(b) = {} THEN disk[b] ELSE log[Min(Undone(b))].val
    <3>1. Undone(b) # {} => Min(Undone(b)) \in 1..durable
      <4>1. Undone(b) \subseteq 1..durable  BY <1>4 DEF Undone
      <4>2. Undone(b) \subseteq 0..durable  BY <1>1, <4>1
      <4> QED  BY <1>1, <4>1, <4>2, FirstPosition
    <3> QED  BY <1>6, <1>7, <3>1
  <2> QED  BY <2>1 DEF Recovered
<1> QED  BY <1>3, <1>4, <1>5, <1>6, <1>7

(* A step that only brings records to disk, and no checkpoint. *)
LEMMA TailKept ==
    ASSUME LogTyped, LogTyped', log' = log, durable <= durable',
           \A i \in (durable + 1)..durable' : log[i].op # "CHECKPOINT"
    PROVE  /\ LastCheckpoint' = LastCheckpoint /\ Recent' = Recent
           /\ \A t : EndOf(t)' = EndOf(t) /\ Writes(t)' = Writes(t)
           /\ \A t : t \in Finished' <=> \E j \in EndOf(t) : j <= durable'
<1>1. durable \in Nat /\ durable' \in Nat /\ durable' <= Len(log) /\ Len(log) \in Nat
  BY LogFacts DEF LogTyped
<1>2. /\ LastCheckpoint \in 0..durable
      /\ LastCheckpoint = 0 \/ log[LastCheckpoint].op = "CHECKPOINT"
      /\ \A i \in (LastCheckpoint + 1)..durable : log[i].op # "CHECKPOINT"
  BY CheckpointFacts
<1>3. LastCheckpoint' = LastCheckpoint
  <2>1. LastCheckpoint \in 0..durable'
           /\ (LastCheckpoint = 0 \/ log'[LastCheckpoint].op = "CHECKPOINT")
    BY <1>1, <1>2
  <2>2. \A i \in (LastCheckpoint + 1)..durable' :
           i \in (LastCheckpoint + 1)..durable \/ i \in (durable + 1)..durable'
    BY <1>1, <1>2
  <2>3. \A i \in (LastCheckpoint + 1)..durable' : log'[i].op # "CHECKPOINT"
    BY <1>2, <2>2
  <2> QED  BY <2>1, <2>3, CheckpointIsNext
<1>4. Recent' = Recent  BY <1>3 DEF Recent
<1>5. \A t : EndOf(t)' = EndOf(t) /\ Writes(t)' = Writes(t)
  BY <1>4 DEF EndOf, Writes, IsEnd
<1>6. ASSUME NEW t PROVE t \in Finished' <=> \E j \in EndOf(t) : j <= durable'
  <2>1. Scanned' = {j \in Recent : j <= durable'}
    BY <1>1, <1>2, <1>3 DEF Scanned, Recent
  <2> QED  BY <2>1 DEF Finished, EndOf, IsEnd
<1> QED  BY <1>3, <1>4, <1>5, <1>6

(* Who is finished, put with EndOf. *)
LEMMA FinishedFacts ==
    LogTyped => \A t : t \in Finished <=> \E j \in EndOf(t) : j <= durable
<1> SUFFICES ASSUME LogTyped PROVE \A t : t \in Finished <=> \E j \in EndOf(t) : j <= durable
  OBVIOUS
<1>1. durable \in Nat /\ durable <= Len(log) /\ Len(log) \in Nat  BY LogFacts
<1>2. LastCheckpoint \in 0..durable  BY CheckpointFacts
<1>3. Scanned = {j \in Recent : j <= durable}  BY <1>1, <1>2 DEF Scanned, Recent
<1> QED  BY <1>3 DEF Finished, EndOf

(* What Recovered comes to. *)
LEMMA RecoveredFacts ==
    LogTyped /\ PageIsBehind =>
        \A b \in Block :
            /\ Unfinished(b) = {} => Recovered[b] = disk[b]
            /\ \A i : First(i, b) => Recovered[b] = log[i].val
            /\ Unfinished(b) # {} => \E i \in Recent : First(i, b)
<1> SUFFICES ASSUME LogTyped, PageIsBehind, NEW b \in Block
             PROVE  /\ Unfinished(b) = {} => Recovered[b] = disk[b]
                    /\ \A i : First(i, b) => Recovered[b] = log[i].val
                    /\ Unfinished(b) # {} => \E i \in Recent : First(i, b)
  OBVIOUS
<1>1. durable \in Nat /\ durable <= Len(log) /\ Len(log) \in Nat  BY LogFacts
<1>2. LastCheckpoint \in 0..durable  BY CheckpointFacts
<1>3. Scanned = {j \in Recent : j <= durable}  BY <1>1, <1>2 DEF Scanned, Recent
<1>4. Recent \subseteq 1..Len(log) /\ Recent \subseteq 0..Len(log)  BY <1>1, <1>2 DEF Recent
<1>5. Undone(b) = {i \in Unfinished(b) : i <= durable} /\ Unfinished(b) \subseteq Recent
  BY <1>3 DEF Undone, Unfinished
<1>6. Recovered[b] = IF Undone(b) = {} THEN disk[b] ELSE log[Min(Undone(b))].val
  BY DEF Recovered
<1>7. Unfinished(b) = {} => Recovered[b] = disk[b]  BY <1>5, <1>6
<1>8. ASSUME NEW i, First(i, b) PROVE Recovered[b] = log[i].val
  <2>1. i \in Unfinished(b) /\ \A k \in Unfinished(b) : i <= k  BY <1>8 DEF First
  <2>2. CASE i <= durable
    <3>1. Undone(b) # {} /\ Undone(b) \subseteq 0..Len(log) /\ i \in Undone(b)
      BY <1>4, <1>5, <2>1, <2>2
    <3>2. Min(Undone(b)) \in Undone(b) /\ \A x \in Undone(b) : Min(Undone(b)) <= x
      BY <1>1, <3>1, FirstPosition
    <3>3. Min(Undone(b)) = i
      <4>1. Min(Undone(b)) <= i /\ i <= Min(Undone(b))  BY <1>5, <2>1, <3>1, <3>2
      <4>2. Min(Undone(b)) \in Int /\ i \in Int  BY <1>4, <1>5, <3>1, <3>2
      <4> QED  BY <4>1, <4>2
    <3> QED  BY <1>6, <3>1, <3>3
  <2>3. CASE ~(i <= durable)
    <3>1. i \in Recent /\ i \in 1..Len(log)  BY <1>4, <1>5, <2>1
    <3>2. i > durable  BY <1>1, <2>3, <3>1
    <3>3. \A k \in Unfinished(b) : k \in 1..Len(log)  BY <1>4, <1>5
    <3>4. \A k \in Unfinished(b) : ~(k <= durable)
      <4> SUFFICES ASSUME NEW k \in Unfinished(b) PROVE ~(k <= durable)  OBVIOUS
      <4>1. i <= k /\ k \in 1..Len(log)  BY <2>1, <3>3
      <4> QED  BY <1>1, <3>1, <3>2, <4>1
    <3>5. Undone(b) = {}  BY <1>5, <3>4
    <3> QED  BY <1>6, <1>8, <3>1, <3>2, <3>5 DEF PageIsBehind
  <2> QED  BY <2>2, <2>3
<1>9. ASSUME Unfinished(b) # {} PROVE \E i \in Recent : First(i, b)
  <2>1. Unfinished(b) \subseteq 0..Len(log)  BY <1>4, <1>5
  <2>2. Min(Unfinished(b)) \in Unfinished(b) /\ \A x \in Unfinished(b) : Min(Unfinished(b)) <= x
    BY <1>1, <1>9, <2>1, FirstPosition
  <2> QED  BY <1>5, <2>2 DEF First
<1> QED  BY <1>7, <1>8, <1>9

LEMMA RecoveredFactsNext ==
    (LogTyped /\ PageIsBehind =>
        \A b \in Block :
            /\ Unfinished(b) = {} => Recovered[b] = disk[b]
            /\ \A i : First(i, b) => Recovered[b] = log[i].val
            /\ Unfinished(b) # {} => \E i \in Recent : First(i, b))'
BY RecoveredFacts, PTL

(* What is committed stays so as long as the log on disk grows.             *)
LEMMA CommittedValueKept ==
    ASSUME LogTyped, LogTyped', durable <= durable', \A i \in 1..durable : log'[i] = log[i],
           NEW b, NEW v, CommittedValue(b, v)
    PROVE  CommittedValue(b, v)'
<1>1. durable \in Nat /\ durable' \in Nat  BY LogFacts DEF LogTyped
<1>2. CASE v = Zero  BY <1>2 DEF CommittedValue
<1>3. CASE v # Zero
  <2>1. PICK i \in 1..durable : log[i].block = b /\ log[i].new = v /\ CommitOf(i) # {}
    BY <1>3 DEF CommittedValue
  <2>2. PICK j \in (i + 1)..durable : /\ log[j].op = "COMMIT" /\ log[j].txn = log[i].txn
                                      /\ \A k \in i..j : log[k] # Record("START", log[i].txn)
    BY <2>1 DEF CommitOf
  <2>3. i \in 1..durable' /\ j \in (i + 1)..durable' /\ j \in 1..durable /\ i..j \subseteq 1..durable
    BY <1>1, <2>1, <2>2
  <2>4. j \in CommitOf(i)'  BY <2>2, <2>3 DEF CommitOf, Record
  <2> QED  BY <2>1, <2>3, <2>4 DEF CommittedValue
<1> QED  BY <1>2, <1>3

-----------------------------------------------------------------------------
(* Modes *)

LEMMA TypesOfLog == TypeOK => LogTyped
BY DEF TypeOK, LogTyped

LEMMA TypesOfLogNext == (TypeOK => LogTyped)'
BY TypesOfLog, PTL

LEMMA Modes == TypeOK /\ state # "down" => Serving \/ Recovering
BY DEF TypeOK, Serving, Recovering

LEMMA StartingAlone ==
    ASSUME RecInv, state = "starting", NEW t \in Txn, t # 1
    PROVE  phase[t] = "none"
<1>1. lastTxn = 1  BY DEF RecInv, ControlInv, ProgramState
<1>2. t > 1  BY RecoveryAssumption DEF Txn
<1> QED  BY <1>1, <1>2 DEF RecInv, DataInv, TypeOK

LEMMA OneIsTxn == 1 \in Txn /\ \A t \in Txn : t \in Nat /\ t >= 1
BY RecoveryAssumption DEF Txn

(* A transaction that has begun runs in a program that has started. *)
LEMMA Running ==
    ASSUME RecInv, NEW t \in Txn, phase[t] # "none"
    PROVE  state # "down" /\ (state = "starting" => t = 1)
<1>1. t \in Nat /\ t >= 1  BY OneIsTxn
<1>2. lastTxn # 0  BY <1>1 DEF RecInv, DataInv, TypeOK
<1> QED  BY <1>2, StartingAlone DEF RecInv, ControlInv, ProgramState

(* Only Recovering has phase "recover".                                     *)
LEMMA ServingPhases ==
    ASSUME RecInv, Serving, NEW b \in Block, buf[b].txn # 0
    PROVE  /\ buf[b].txn \in Txn /\ writer[b] = buf[b].txn
           /\ phase[buf[b].txn] \in {"active", "undo", "flush"}
<1> DEFINE t == buf[b].txn
<1>1. t \in Txn /\ writer[b] = t  BY DEF RecInv, DataInv, TypeOK, Buffer
<1>2. phase[t] \in {"active", "undo", "recover", "flush"}
  BY <1>1 DEF RecInv, ControlInv, WritersRun
<1>3. phase[t] # "recover"
  <2>1. phase[t] = "recover" => ending[1] = "CHECKPOINT" /\ state = "starting"
    BY <1>1, OneIsTxn DEF RecInv, ControlInv, ProgramState
  <2> QED  BY <2>1 DEF Serving, Recovering
<1> QED  BY <1>1, <1>2, <1>3

(* A dirty buffer has an unfinished write.                                  *)
LEMMA ServingClean ==
    ASSUME RecInv, Serving, NEW b \in Block, buf[b].txn # 0
    PROVE  Unfinished(b) # {}
<1> DEFINE t == buf[b].txn
<1>1. t \in Txn /\ phase[t] \in {"active", "undo", "flush"}  BY ServingPhases
<1>2. PICK i \in Writes(t) : log[i].block = b
  BY <1>1 DEF RecInv, ServingInv, BlockInv, DirtyHasWrite
<1>3. EndOf(t) = {}  BY <1>1 DEF RecInv, ServingInv, TxnInv, NoEndYet
<1>4. t \notin Finished  BY <1>3, FinishedFacts, TypesOfLog DEF RecInv, DataInv
<1>5. i \in Unfinished(b)  BY <1>2, <1>4 DEF Writes, Unfinished
<1> QED  BY <1>5
(* A block with nothing to undo is on disk as it is in memory.              *)
LEMMA NothingToUndo ==
    ASSUME RecInv, state # "down", NEW b \in Block, Unfinished(b) = {}
    PROVE  buf[b].val = disk[b] /\ Recovered[b] = disk[b]
<1>1. Recovered[b] = disk[b]  BY RecoveredFacts, TypesOfLog DEF RecInv, DataInv
<1>2. CASE buf[b].txn = 0  BY <1>1, <1>2 DEF RecInv, DataInv, CleanIsOnDisk
<1>3. CASE buf[b].txn # 0
  <2>1. ~Serving  BY <1>3, ServingClean
  <2>2. Recovering  BY <2>1, Modes DEF RecInv, DataInv
  <2>3. phase[1] \in {"active", "recover", "flush", "force"}  BY <2>2 DEF RecInv, RecoveringInv
  <2>4. phase[1] # "active"  BY <1>3, <2>2 DEF RecInv, RecoveringInv, NotYetRecovered
  <2>5. phase[1] # "recover"  BY <1>3, <2>2 DEF RecInv, RecoveringInv, RecoveredSoFar
  <2> QED  BY <1>1, <2>2, <2>3, <2>4, <2>5 DEF RecInv, RecoveringInv, RecoveryDone
<1> QED  BY <1>2, <1>3

-----------------------------------------------------------------------------
(* Steps on which the log grows, in memory or on disk *)

LogGrows ==
    /\ LogTyped' /\ Len(log) <= Len(log') /\ durable <= durable'
    /\ \A i \in 1..Len(log) : log'[i] = log[i]
    /\ LastCheckpoint' = LastCheckpoint

(* Its recent part keeps what it has. *)
LEMMA GrowthFacts ==
    ASSUME LogTyped, LogGrows
    PROVE  /\ Recent \subseteq 1..Len(log) /\ Recent \subseteq Recent'
           /\ \A j \in Recent' : j \in Recent \/ j \in (Len(log) + 1)..Len(log')
           /\ \A j \in Recent : log'[j] = log[j]
           /\ \A u : EndOf(u) \subseteq EndOf(u)' /\ Writes(u) \subseteq Writes(u)'
<1>1. Len(log) \in Nat /\ Len(log') \in Nat /\ durable \in Nat  BY LogFacts DEF LogGrows, LogTyped
<1>2. LastCheckpoint \in 0..durable  BY CheckpointFacts
<1>3. Recent \subseteq 1..Len(log)  BY <1>1, <1>2 DEF Recent
<1>4. Recent' = (LastCheckpoint + 1)..Len(log')  BY DEF Recent, LogGrows
<1>5. Recent \subseteq Recent'  BY <1>1, <1>2, <1>4 DEF Recent, LogGrows
<1>6. ASSUME NEW j \in Recent' PROVE j \in Recent \/ j \in (Len(log) + 1)..Len(log')
  <2>1. j \in (LastCheckpoint + 1)..Len(log')  BY <1>4
  <2> QED  BY <1>1, <1>2, <2>1 DEF Recent
<1>7. \A j \in Recent : log'[j] = log[j]  BY <1>3 DEF LogGrows
<1>8. \A u : EndOf(u) \subseteq EndOf(u)' /\ Writes(u) \subseteq Writes(u)'
  BY <1>5, <1>7 DEF EndOf, Writes, IsEnd
<1> QED  BY <1>3, <1>5, <1>6, <1>7, <1>8

(* The records of a transaction that adds none. *)
LEMMA QuietFacts ==
    ASSUME LogTyped, LogGrows, NEW u, \A j \in (Len(log) + 1)..Len(log') : log'[j].txn # u
    PROVE  EndOf(u)' = EndOf(u) /\ Writes(u)' = Writes(u)
<1>1. \A j \in Recent' : log'[j].txn = u => j \in Recent /\ log'[j] = log[j]  BY GrowthFacts
<1>2. \A j \in Recent : j \in Recent' /\ log'[j] = log[j]  BY GrowthFacts
<1> QED  BY <1>1, <1>2 DEF EndOf, Writes, IsEnd

(* What a step does not touch keeps what the invariant says of it. *)
LEMMA TxnKept ==
    ASSUME LogTyped, LogGrows, NEW u \in Txn, TxnInv(u),
           \A j \in (Len(log) + 1)..Len(log') : log'[j].txn # u,
           phase'[u] = phase[u], ending'[u] = ending[u], cursor'[u] = cursor[u],
           phase[u] = "undo" =>
              \A i \in Writes(u) : buf'[log[i].block].val = buf[log[i].block].val,
           \A b \in Block, i \in Writes(u) : First(i, b)' =>
              log[i].block = b /\ First(i, b) /\ buf'[b].val = buf[b].val
    PROVE  TxnInv(u)'
<1>1. Len(log) \in Nat /\ Len(log') \in Nat /\ durable \in Nat /\ durable' \in Nat
  BY LogFacts DEF LogGrows, LogTyped
<1>2. EndOf(u)' = EndOf(u) /\ Writes(u)' = Writes(u)  BY QuietFacts
<1>3. /\ Recent \subseteq 1..Len(log) /\ Recent \subseteq Recent'
      /\ \A j \in Recent : log'[j] = log[j]
  BY GrowthFacts
<1>4. EndOf(u) \subseteq Recent /\ Writes(u) \subseteq Recent  BY DEF EndOf, Writes
<1>5. NoEndYet(u)'  BY <1>2 DEF TxnInv, NoEndYet
<1>6. NoRecordYet(u)'
  <2>1. \A j \in Recent' : log'[j].txn = u => j \in Recent /\ log'[j] = log[j]  BY GrowthFacts
  <2> QED  BY <2>1 DEF TxnInv, NoRecordYet
<1>7. Begun(u)'
  <2> SUFFICES ASSUME phase'[u] # "none" PROVE Begun(u)'  BY DEF Begun
  <2>1. PICK s \in 1..Len(log) :
           /\ log[s] = Record("START", u)
           /\ \A j \in s..Len(log) : log[j].txn = u /\ IsEnd(j) => j \in Recent
           /\ u # 1 => s \in Recent /\ (phase[u] = "undo" => s <= cursor[u])
    BY DEF TxnInv, Begun
  <2>2. s \in 1..Len(log') /\ log'[s] = Record("START", u)  BY <1>1, <2>1 DEF LogGrows
  <2>3. ASSUME NEW j \in s..Len(log'), log'[j].txn = u, IsEnd(j)' PROVE j \in Recent'
    <3>1. j \in s..Len(log)  BY <1>1, <2>1, <2>3
    <3>2. log'[j] = log[j]  BY <1>1, <3>1 DEF LogGrows
    <3> QED  BY <1>3, <2>1, <2>3, <3>1, <3>2 DEF IsEnd
  <2>4. u # 1 => s \in Recent' /\ (phase'[u] = "undo" => s <= cursor'[u])  BY <1>3, <2>1
  <2> QED  BY <2>2, <2>3, <2>4 DEF Begun, Record
<1>8. NoSecondStart(u)'
  <2> SUFFICES ASSUME NEW k \in EndOf(u) \cup Writes(u), NEW s \in k..Len(log'),
                      log'[s].txn = u, log'[s].op = "START"
               PROVE  FALSE
    BY <1>2 DEF NoSecondStart
  <2>1. k \in 1..Len(log)  BY <1>3, <1>4
  <2>2. s \in k..Len(log)  BY <1>1, <2>1
  <2>3. log'[s] = log[s]  BY <1>1, <2>1, <2>2 DEF LogGrows
  <2> QED  BY <2>2, <2>3 DEF TxnInv, NoSecondStart
<1>9. EndIsForced(u)'
  <2>1. phase'[u] = "force" => EndOf(u)' = {cursor'[u]} /\ log'[cursor'[u]].op = ending'[u]
    <3> SUFFICES ASSUME phase'[u] = "force"
                 PROVE  EndOf(u)' = {cursor'[u]} /\ log'[cursor'[u]].op = ending'[u]
      OBVIOUS
    <3>1. EndOf(u) = {cursor[u]} /\ log[cursor[u]].op = ending[u]  BY DEF TxnInv, EndIsForced
    <3>2. log'[cursor[u]] = log[cursor[u]]  BY <1>3, <1>4, <3>1
    <3> QED  BY <1>2, <3>1, <3>2
  <2>2. phase'[u] \in {"release", "ended"} => \A j \in EndOf(u)' : j <= durable'
    <3> SUFFICES ASSUME phase'[u] \in {"release", "ended"}, NEW j \in EndOf(u)
                 PROVE  j <= durable'
      BY <1>2
    <3>1. j <= durable /\ j \in 1..Len(log)  BY <1>3, <1>4 DEF TxnInv, EndIsForced
    <3> QED  BY <1>1, <3>1 DEF LogGrows
  <2>3. phase'[u] = "release" => EndOf(u)' # {}  BY <1>2 DEF TxnInv, EndIsForced
  <2> QED  BY <2>1, <2>2, <2>3 DEF EndIsForced
<1>10. UndoneSoFar(u)'
  <2> SUFFICES ASSUME phase'[u] = "undo", NEW i \in Writes(u), i > cursor'[u],
                      \A k \in Writes(u) : cursor'[u] < k /\ k < i => log'[k].block # log'[i].block
               PROVE  buf'[log'[i].block].val = log'[i].val
    BY <1>2 DEF UndoneSoFar
  <2>1. \A k \in Writes(u) : log'[k] = log[k]  BY <1>3, <1>4
  <2>2. buf[log[i].block].val = log[i].val  BY <2>1 DEF TxnInv, UndoneSoFar
  <2> QED  BY <2>1, <2>2
<1>11. RolledBack(u)'
  <2> SUFFICES ASSUME phase'[u] \in {"flush", "force"}, ending'[u] = "ROLLBACK",
                      NEW b \in Block, NEW i \in Writes(u), First(i, b)'
               PROVE  buf'[b].val = log'[i].val
    BY <1>2 DEF RolledBack
  <2>1. First(i, b) /\ log'[i] = log[i] /\ buf'[b].val = buf[b].val  BY <1>3, <1>4
  <2>2. buf[b].val = log[i].val  BY <2>1 DEF TxnInv, RolledBack
  <2> QED  BY <2>1, <2>2
<1> QED  BY <1>5, <1>6, <1>7, <1>8, <1>9, <1>10, <1>11 DEF TxnInv

LEMMA OriginKept ==
    ASSUME LogTyped, LogGrows, NEW b, Recovered'[b] = Recovered[b], NEW u
    PROVE  Origin(u, b) \subseteq Origin(u, b)'
<1>1. Writes(u) \subseteq Writes(u)' /\ \A k \in Writes(u) : log'[k] = log[k]
  BY GrowthFacts DEF Writes
<1>2. ASSUME NEW k \in Writes(u), log[k].block = b
      PROVE  log[k].new \in {log'[j].new : j \in {i \in Writes(u)' : log'[i].block = b}}
  BY <1>1, <1>2
<1> QED  BY <1>2 DEF Origin

LEMMA BlockKept ==
    ASSUME LogTyped, LogGrows, NEW b \in Block, BlockInv(b),
           Unfinished(b)' = Unfinished(b), Recovered'[b] = Recovered[b],
           buf'[b].val = buf[b].val, buf'[b].txn = buf[b].txn \/ buf'[b].txn = 0,
           \A i \in Unfinished(b) :
              /\ writer'[b] = writer[b]
              /\ phase'[log[i].txn] \in {"active", "undo", "flush", "force"}
    PROVE  BlockInv(b)'
<1>1. \A i \in Unfinished(b) : log'[i] = log[i]  BY GrowthFacts DEF Unfinished
<1>2. WriterHolds(b)'  BY <1>1 DEF BlockInv, WriterHolds
<1>3. DirtyHasWrite(b)'
  <2> SUFFICES ASSUME NEW t \in Txn, buf'[b].txn = t
               PROVE  \E i \in Writes(t)' : log'[i].block = b
    BY DEF DirtyHasWrite
  <2>1. t # 0  BY OneIsTxn
  <2>2. PICK i \in Writes(t) : log[i].block = b  BY <2>1 DEF BlockInv, DirtyHasWrite
  <2>3. i \in Writes(t)' /\ log'[i] = log[i]  BY GrowthFacts DEF Writes
  <2> QED  BY <2>2, <2>3
<1>4. ValuesKnown(b)'
  <2> SUFFICES ASSUME NEW i \in Unfinished(b), NEW t \in Txn, log'[i].txn = t
               PROVE  log'[i].val \in Origin(t, b)' /\ buf'[b].val \in Origin(t, b)'
    BY DEF ValuesKnown
  <2>1. log'[i] = log[i]  BY <1>1
  <2>2. log[i].val \in Origin(t, b) /\ buf[b].val \in Origin(t, b)
    BY <2>1 DEF BlockInv, ValuesKnown
  <2> QED  BY <2>1, <2>2, OriginKept
<1> QED  BY <1>2, <1>3, <1>4 DEF BlockInv

-----------------------------------------------------------------------------
(* Steps that write to disk: records of the log, but no checkpoint, and      *)
(* dirty pages, no write to which is then left to log                        *)

FlushStep ==
    /\ log' = log /\ durable' \in durable..Len(log)
    /\ \A i \in (durable + 1)..durable' : log[i].op # "CHECKPOINT"
    /\ \A b \in Block :
          \/ disk'[b] = disk[b] /\ buf'[b] = buf[b]
          \/ /\ disk'[b] = buf[b].val
             /\ buf'[b].val = buf[b].val /\ buf'[b].txn = 0
             /\ \A i \in (durable' + 1)..Len(log) : log[i].op = "SET" => log[i].block # b

LEMMA FlushGrows ==
    ASSUME RecInv, FlushStep
    PROVE  /\ LogGrows /\ Recent' = Recent
           /\ \A t : EndOf(t)' = EndOf(t) /\ Writes(t)' = Writes(t)
           /\ \A j \in (durable' + 1)..Len(log) : j \in (durable + 1)..Len(log)
           /\ durable = Len(log) => durable' = Len(log)
<1>1. LogTyped  BY TypesOfLog DEF RecInv, DataInv
<1>2. durable' \in 0..Len(log) /\ durable <= durable' /\ Len(log) \in Nat
  BY <1>1, LogFacts DEF FlushStep
<1>3. LogTyped'  BY <1>1, <1>2 DEF LogTyped, FlushStep
<1>4. /\ LastCheckpoint' = LastCheckpoint /\ Recent' = Recent
      /\ \A t : EndOf(t)' = EndOf(t) /\ Writes(t)' = Writes(t)
  BY <1>1, <1>2, <1>3, TailKept DEF FlushStep
<1>5. Len(log') = Len(log) /\ \A i \in 1..Len(log) : log'[i] = log[i]  BY DEF FlushStep
<1>6. \A j \in (durable' + 1)..Len(log) : j \in (durable + 1)..Len(log)
  <2>1. durable \in Int /\ durable' \in Int /\ Len(log) \in Int  BY <1>1, <1>2, LogFacts
  <2> QED  BY <1>2, <2>1, TailShrinks
<1>7. durable = Len(log) => durable' = Len(log)  BY <1>2
<1>8. LogGrows  BY <1>2, <1>3, <1>4, <1>5 DEF LogGrows
<1> QED  BY <1>4, <1>6, <1>7, <1>8

(* The transaction that has written b has its end in memory, and gets it on *)
(* disk.                                                                    *)
Ends(t, b) ==
    /\ Serving /\ phase[t] = "force" /\ writer[b] = t /\ buf[b].txn = 0
    /\ EndOf(t) = {cursor[t]} /\ cursor[t] <= durable'
    /\ \A i \in Unfinished(b) : log[i].txn = t

(* So what a block has for a recovery to undo stays, or is gone at once. *)
LEMMA FlushSplits ==
    ASSUME RecInv, state # "down", FlushStep, NEW b \in Block
    PROVE  \/ Unfinished(b)' = Unfinished(b)
           \/ Unfinished(b) # {} /\ Unfinished(b)' = {} /\ \E t \in Txn : Ends(t, b)
<1>1. LogTyped /\ durable \in Nat /\ durable' \in Nat /\ durable <= durable'
  BY TypesOfLog, LogFacts, FlushGrows DEF RecInv, DataInv, LogGrows, LogTyped
<1>2. LogTyped'  BY FlushGrows DEF LogGrows
<1>3. Recent' = Recent /\ log' = log /\ \A t : EndOf(t)' = EndOf(t)
  BY FlushGrows DEF FlushStep
<1>4. \A t : t \in Finished <=> \E j \in EndOf(t) : j <= durable  BY <1>1, FinishedFacts
<1>5. \A t : t \in Finished' <=> \E j \in EndOf(t) : j <= durable'
  BY <1>1, <1>2, TailKept DEF FlushStep
<1>6. \A t : EndOf(t) \subseteq 1..Len(log) /\ Len(log) \in Nat
  BY <1>1, GrowthFacts, FlushGrows, LogFacts DEF EndOf
<1>7. Finished \subseteq Finished'
  <2> SUFFICES ASSUME NEW t \in Finished PROVE t \in Finished'  OBVIOUS
  <2>1. PICK j \in EndOf(t) : j <= durable  BY <1>4
  <2>2. j \in Nat  BY <1>6
  <2> QED  BY <1>1, <1>5, <2>1, <2>2
<1>8. Unfinished(b)' = {i \in Unfinished(b) : log[i].txn \notin Finished'}
  BY <1>3, <1>7 DEF Unfinished
<1>9. CASE Recovering
  <2>1. \A j \in (durable + 1)..Len(log) : ~IsEnd(j)
    <3>1. \A j \in (durable + 1)..Len(log) : log[j].op \in {"START", "CHECKPOINT"}
      BY <1>9 DEF RecInv, RecoveringInv, RecoveryTail, Record, Checkpoint
    <3> QED  BY <3>1 DEF IsEnd
  <2>2. Finished' = Finished
    <3> SUFFICES ASSUME NEW t \in Finished' PROVE t \in Finished  BY <1>7
    <3>1. PICK j \in EndOf(t) : j <= durable'  BY <1>5
    <3>2. j \in 1..Len(log) /\ IsEnd(j)  BY <1>6 DEF EndOf
    <3>3. j <= durable  BY <1>1, <1>6, <2>1, <3>2
    <3> QED  BY <1>4, <3>3
  <2> QED  BY <1>8, <2>2 DEF Unfinished
<1>10. CASE Serving
  <2>1. CASE \A i \in Unfinished(b) : log[i].txn \notin Finished'  BY <1>8, <2>1
  <2>2. ASSUME NEW i \in Unfinished(b), log[i].txn \in Finished'
        PROVE  Unfinished(b)' = {} /\ \E t \in Txn : Ends(t, b)
    <3> DEFINE t == log[i].txn
    <3>0. i \in 1..Len(log) /\ log[i].op = "SET"
      BY <1>1, GrowthFacts, FlushGrows DEF Unfinished
    <3>1. t \in Txn  BY <3>0 DEF RecInv, DataInv, RecordsAreWhole
    <3>2. /\ \A k \in Unfinished(b) : log[k].txn = t
          /\ writer[b] = t /\ phase[t] \in {"active", "undo", "flush", "force"}
      BY <1>10 DEF RecInv, ServingInv, BlockInv, WriterHolds
    <3>3. \E j \in EndOf(t) : j <= durable'  BY <1>5, <2>2
    <3>4. phase[t] = "force"
      BY <1>10, <3>1, <3>2, <3>3 DEF RecInv, ServingInv, TxnInv, NoEndYet
    <3>5. EndOf(t) = {cursor[t]} /\ cursor[t] <= durable'
      BY <1>10, <3>1, <3>3, <3>4 DEF RecInv, ServingInv, TxnInv, EndIsForced
    <3>6. buf[b].txn = 0  BY <1>10, <3>2, <3>4, ServingPhases
    <3>7. Ends(t, b)  BY <1>10, <3>2, <3>4, <3>5, <3>6 DEF Ends
    <3>8. Unfinished(b)' = {}  BY <1>8, <2>2, <3>2
    <3> QED  BY <3>1, <3>7, <3>8
  <2> QED  BY <2>1, <2>2
<1> QED  BY <1>9, <1>10, Modes DEF RecInv, DataInv

(* What it leaves is then committed.  A COMMIT record commits its writes; a  *)
(* ROLLBACK record comes when they are undone.                               *)
LEMMA EndedIsCommitted ==
    ASSUME RecInv, FlushStep, NEW b \in Block, NEW t \in Txn, Ends(t, b), Unfinished(b) # {},
           NEW v, v = buf[b].val
    PROVE  CommittedValue(b, v)'
<1>1. LogTyped /\ LogTyped' /\ durable <= durable' /\ log' = log
  BY TypesOfLog, FlushGrows DEF RecInv, DataInv, LogGrows, FlushStep
<1>2. Len(log) \in Nat /\ durable \in Nat /\ durable' \in Nat /\ Recent \subseteq 1..Len(log)
  BY <1>1, LogFacts, GrowthFacts, FlushGrows DEF LogTyped
<1>3. CASE v = Recovered[b]
  <2>1. CommittedValue(b, v)  BY <1>3 DEF RecInv, DataInv, RecoveredIsCommitted
  <2>2. \A i \in 1..durable : log'[i] = log[i]  BY <1>1
  <2> QED  BY <1>1, <2>1, <2>2, CommittedValueKept
<1>4. PICK i \in Recent : First(i, b)  BY RecoveredFacts, <1>1 DEF RecInv, DataInv
<1>5. log[i].txn = t /\ i \in Writes(t) /\ i \in Unfinished(b)
  BY <1>4 DEF First, Ends, Unfinished, Writes
<1>6. PICK j \in EndOf(t) : j = cursor[t] /\ j <= durable'  BY DEF Ends
<1>7. j \in Recent /\ log[j].txn = t /\ log[j].op \in {"COMMIT", "ROLLBACK"} /\ IsEnd(j)
  BY <1>6 DEF EndOf, IsEnd
<1>8. BlockInv(b) /\ TxnInv(t) /\ phase[t] = "force"  BY DEF RecInv, ServingInv, Ends
<1>9. CASE log[j].op = "ROLLBACK"
  <2>1. ending[t] = "ROLLBACK"  BY <1>6, <1>8, <1>9 DEF TxnInv, EndIsForced
  <2>2. buf[b].val = log[i].val  BY <1>4, <1>5, <1>8, <2>1 DEF TxnInv, RolledBack
  <2>3. Recovered[b] = log[i].val  BY RecoveredFacts, <1>1, <1>4 DEF RecInv, DataInv
  <2> QED  BY <1>3, <2>2, <2>3
<1>10. ASSUME log[j].op = "COMMIT", NEW k \in Writes(t), log[k].block = b, log[k].new = v
       PROVE  CommittedValue(b, v)'
  <2>1. k \in Recent /\ log[k].op = "SET" /\ log[k].txn = t  BY DEF Writes
  <2>2. k < j  BY <1>7, <2>1 DEF RecInv, DataInv, EndsAfterWrites
  <2>3. k \in 1..durable' /\ j \in (k + 1)..durable' /\ k..j \subseteq k..Len(log)
    BY <1>2, <1>6, <1>7, <2>1, <2>2
  <2>4. \A s \in k..j : log[s] # Record("START", t)
    BY <1>8, <2>3 DEF TxnInv, NoSecondStart, Record
  <2>5. j \in CommitOf(k)'  BY <1>1, <1>7, <1>10, <2>1, <2>3, <2>4 DEF CommitOf, Record
  <2> QED  BY <1>1, <1>10, <2>3, <2>5 DEF CommittedValue
<1>11. CASE log[j].op = "COMMIT"
  <2>1. v \in Origin(t, b)  BY <1>5, <1>8 DEF BlockInv, ValuesKnown
  <2> QED  BY <1>3, <1>10, <1>11, <2>1 DEF Origin
<1> QED  BY <1>7, <1>9, <1>11

LEMMA FlushKeepsData ==
    ASSUME RecInv, state # "down", FlushStep
    PROVE  /\ EndsAfterWrites' /\ RecordsAreWhole' /\ PageIsBehind' /\ LogIsFlushedFirst'
           /\ CleanIsOnDisk' /\ RecoveredIsCommitted'
           /\ \A b \in Block : Unfinished(b)' = Unfinished(b) => Recovered'[b] = Recovered[b]
           /\ \A b \in Block : Unfinished(b)' # Unfinished(b) => Recovered'[b] = buf[b].val
<1>1. LogTyped /\ LogTyped' /\ durable <= durable' /\ log' = log /\ Recent' = Recent
  BY TypesOfLog, FlushGrows DEF RecInv, DataInv, LogGrows, FlushStep
<1>2. Len(log) \in Nat /\ durable \in Nat /\ durable' \in Nat /\ Recent \subseteq 1..Len(log)
  BY <1>1, LogFacts, GrowthFacts, FlushGrows DEF LogTyped
<1>3. EndsAfterWrites' /\ RecordsAreWhole'
  BY <1>1 DEF RecInv, DataInv, EndsAfterWrites, RecordsAreWhole, IsEnd
<1>4. PageIsBehind'
  <2> SUFFICES ASSUME NEW b \in Block, NEW i \in Recent, First(i, b)', i > durable'
               PROVE  disk'[b] = log[i].val
    BY <1>1 DEF PageIsBehind
  <2>1. Unfinished(b)' = Unfinished(b) /\ i \in Unfinished(b)  BY FlushSplits DEF First
  <2>2. First(i, b)  BY <2>1 DEF First
  <2>3. i \in 1..Len(log) /\ i > durable  BY <1>1, <1>2
  <2>4. disk[b] = log[i].val  BY <2>2, <2>3 DEF RecInv, DataInv, PageIsBehind
  <2>5. i \in (durable' + 1)..Len(log) /\ log[i].op = "SET" /\ log[i].block = b
    <3>1. i \in (durable' + 1)..Len(log)  BY <1>1, <1>2, <2>3, LaterPositions
    <3>2. log[i].op = "SET" /\ log[i].block = b  BY <2>1, Zenon DEF Unfinished
    <3> QED  BY <3>1, <3>2, Zenon
  <2>6. disk'[b] = disk[b]  BY <2>5 DEF FlushStep
  <2> QED  BY <2>4, <2>6
<1>5. LogIsFlushedFirst'
  <2> SUFFICES ASSUME NEW i \in (durable' + 1)..Len(log), log[i].op = "SET"
               PROVE  buf'[log[i].block].lsn >= i
    BY <1>1 DEF LogIsFlushedFirst
  <2>1. i \in (durable + 1)..Len(log) /\ i \in 1..Len(log)
    BY <1>1, <1>2, LaterPositions
  <2>2. buf[log[i].block].lsn >= i /\ log[i].block \in Block
    BY <2>1 DEF RecInv, DataInv, LogIsFlushedFirst, RecordsAreWhole
  <2>3. buf'[log[i].block] = buf[log[i].block]  BY <2>2 DEF FlushStep
  <2> QED  BY <2>2, <2>3
<1>6. CleanIsOnDisk'  BY DEF RecInv, DataInv, CleanIsOnDisk, FlushStep
<1>7. ASSUME NEW b \in Block, Unfinished(b)' = Unfinished(b) PROVE Recovered'[b] = Recovered[b]
  <2>1. CASE Unfinished(b) = {}
    <3>1. Recovered'[b] = disk'[b]  BY RecoveredFactsNext, <1>1, <1>4, <1>7, <2>1
    <3>2. buf[b].val = disk[b] /\ Recovered[b] = disk[b]  BY <2>1, NothingToUndo
    <3> QED  BY <3>1, <3>2 DEF FlushStep
  <2>2. CASE Unfinished(b) # {}
    <3>1. PICK i \in Recent : First(i, b)  BY RecoveredFacts, <1>1, <2>2 DEF RecInv, DataInv
    <3>2. First(i, b)'  BY <1>7, <3>1 DEF First
    <3>3. Recovered[b] = log[i].val  BY RecoveredFacts, <1>1, <3>1 DEF RecInv, DataInv
    <3>4. Recovered'[b] = log[i].val  BY RecoveredFactsNext, <1>1, <1>4, <3>2
    <3> QED  BY <3>3, <3>4
  <2> QED  BY <2>1, <2>2
<1>8. ASSUME NEW b \in Block, Unfinished(b)' # Unfinished(b)
      PROVE  Recovered'[b] = buf[b].val
  <2>1. Unfinished(b)' = {} /\ buf[b].txn = 0  BY <1>8, FlushSplits DEF Ends
  <2>2. Recovered'[b] = disk'[b]  BY RecoveredFactsNext, <1>1, <1>4, <2>1
  <2>3. disk[b] = buf[b].val  BY <2>1 DEF RecInv, DataInv, CleanIsOnDisk
  <2> QED  BY <2>2, <2>3 DEF FlushStep
<1>9. RecoveredIsCommitted'
  <2> SUFFICES ASSUME NEW b \in Block, NEW v, v = Recovered'[b] PROVE CommittedValue(b, v)'
    BY DEF RecoveredIsCommitted
  <2>1. CASE Unfinished(b)' = Unfinished(b)
    <3>1. v = Recovered[b]  BY <1>7, <2>1
    <3>2. CommittedValue(b, v)  BY <3>1 DEF RecInv, DataInv, RecoveredIsCommitted
    <3>3. \A i \in 1..durable : log'[i] = log[i]  BY <1>1
    <3> QED  BY <1>1, <3>2, <3>3, CommittedValueKept
  <2>2. CASE Unfinished(b)' # Unfinished(b)
    <3>1. v = buf[b].val  BY <1>8, <2>2
    <3>2. Unfinished(b) # {} /\ \E t \in Txn : Ends(t, b)  BY <2>2, FlushSplits
    <3> QED  BY <3>1, <3>2, EndedIsCommitted
  <2> QED  BY <2>1, <2>2
<1> QED  BY <1>3, <1>4, <1>5, <1>6, <1>7, <1>8, <1>9

(* The two halves of the type invariant.                                     *)
StoreOK ==
    /\ LogTyped /\ disk \in [Block -> Val]
    /\ buf \in [Block -> Buffer] /\ \A b \in Block : buf[b].lsn <= Len(log)
ControlOK ==
    /\ writer \in [Block -> Txn \cup {0}]
    /\ state \in {"down", "starting", "open"} /\ isNew \in BOOLEAN /\ writes \in Val
    /\ lastTxn \in 0..(MaxClients + 1)
    /\ phase \in [Txn -> Phase]
    /\ ending \in [Txn -> {"COMMIT", "ROLLBACK", "CHECKPOINT"}]
    /\ cursor \in [Txn -> 0..Len(log)]
    /\ finished \subseteq Txn
    /\ \A b \in Block : buf[b].txn # 0 => writer[b] = buf[b].txn
    /\ \A t \in Txn : t > lastTxn <=> phase[t] = "none"

LEMMA TypeParts == TypeOK <=> StoreOK /\ ControlOK
BY DEF TypeOK, StoreOK, ControlOK, LogTyped

LEMMA TypePartsNext == (TypeOK <=> StoreOK /\ ControlOK)'
BY TypeParts, PTL

LEMMA FlushStore ==
    ASSUME RecInv, FlushStep, disk' \in [Block -> Val], buf' \in [Block -> Buffer],
           \A b \in Block : buf'[b].lsn = buf[b].lsn \/ buf'[b].lsn = 0
    PROVE  StoreOK'
<1>1. LogTyped' /\ log' = log /\ Len(log) \in Nat
  BY FlushGrows, TypesOfLog, LogFacts DEF LogGrows, FlushStep, RecInv, DataInv
<1>2. \A b \in Block : buf'[b].lsn <= Len(log')  BY <1>1 DEF RecInv, DataInv, TypeOK
<1> QED  BY <1>1, <1>2 DEF StoreOK

(* The transactions and the blocks, when a step flushes. *)
LEMMA FlushTxn ==
    ASSUME RecInv, Serving, FlushStep, NEW u \in Txn,
           phase'[u] = phase[u], ending'[u] = ending[u], cursor'[u] = cursor[u]
    PROVE  TxnInv(u)'
<1>1. LogTyped /\ LogGrows /\ TxnInv(u) /\ log' = log /\ Len(log) \in Nat /\ state # "down"
  BY TypesOfLog, FlushGrows, LogFacts DEF RecInv, DataInv, ServingInv, FlushStep, Serving
<1>2. \A j \in (Len(log) + 1)..Len(log') : log'[j].txn # u  BY <1>1
<1>3. \A i \in Writes(u) : buf'[log[i].block].val = buf[log[i].block].val
  <2> SUFFICES ASSUME NEW i \in Writes(u)
               PROVE  buf'[log[i].block].val = buf[log[i].block].val
    OBVIOUS
  <2>1. i \in 1..Len(log) /\ log[i].op = "SET"  BY <1>1, GrowthFacts DEF Writes
  <2>2. log[i].block \in Block  BY <2>1 DEF RecInv, DataInv, RecordsAreWhole
  <2> QED  BY <2>2 DEF FlushStep
<1>4. ASSUME NEW b \in Block, NEW i \in Writes(u), First(i, b)'
      PROVE  log[i].block = b /\ First(i, b) /\ buf'[b].val = buf[b].val
  <2>1. Unfinished(b)' = Unfinished(b)  BY <1>1, <1>4, FlushSplits DEF First
  <2>2. buf'[b].val = buf[b].val  BY DEF FlushStep
  <2> QED  BY <1>4, <2>1, <2>2 DEF First, Unfinished
<1> QED  BY <1>1, <1>2, <1>3, <1>4, TxnKept

LEMMA FlushBlocks ==
    ASSUME RecInv, Serving, FlushStep, NEW b \in Block,
           \A i \in Unfinished(b)' :
              /\ writer'[b] = writer[b]
              /\ phase'[log[i].txn] \in {"active", "undo", "flush", "force"}
    PROVE  BlockInv(b)'
<1>1. LogTyped /\ LogGrows /\ BlockInv(b) /\ state # "down"
  BY TypesOfLog, FlushGrows DEF RecInv, DataInv, ServingInv, Serving
<1>2. buf'[b].val = buf[b].val /\ (buf'[b].txn = buf[b].txn \/ buf'[b].txn = 0)
  BY DEF FlushStep
<1>3. CASE Unfinished(b)' = Unfinished(b)
  <2>1. Recovered'[b] = Recovered[b]  BY <1>1, <1>3, FlushKeepsData
  <2> QED  BY <1>1, <1>2, <1>3, <2>1, BlockKept
<1>4. CASE Unfinished(b)' # Unfinished(b)
  <2>1. Unfinished(b)' = {} /\ buf'[b].txn = 0  BY <1>1, <1>2, <1>4, FlushSplits DEF Ends
  <2>2. DirtyHasWrite(b)'  BY <2>1, OneIsTxn DEF DirtyHasWrite
  <2> QED  BY <2>1, <2>2 DEF BlockInv, WriterHolds, ValuesKnown
<1> QED  BY <1>3, <1>4

(* A buffer that is flushed. *)
LEMMA FlushedBuffer ==
    ASSUME RecInv, NEW b \in Block, FlushBuffer(b), log' = log
    PROVE  /\ disk' \in [Block -> Val] /\ buf' \in [Block -> Buffer]
           /\ disk'[b] = buf[b].val /\ buf'[b] = [val |-> buf[b].val, txn |-> 0, lsn |-> 0]
           /\ \A c \in Block : c # b => disk'[c] = disk[c] /\ buf'[c] = buf[c]
           /\ durable' \in durable..Len(log)
           /\ \A i \in (durable' + 1)..Len(log) : log[i].op = "SET" => log[i].block # b
<1>1. buf \in [Block -> Buffer] /\ disk \in [Block -> Val]  BY DEF RecInv, DataInv, TypeOK
<1>2. buf[b].val \in Val /\ buf[b] \in Buffer /\ buf[b].lsn \in Nat  BY <1>1 DEF Buffer
<1>3. /\ disk' \in [Block -> Val] /\ disk'[b] = buf[b].val
      /\ \A c \in Block : c # b => disk'[c] = disk[c]
  BY <1>1, <1>2 DEF FlushBuffer
<1>4. buf' \in [Block -> Buffer] /\ buf'[b] = [val |-> buf[b].val, txn |-> 0, lsn |-> 0]
      /\ \A c \in Block : c # b => buf'[c] = buf[c]
  BY <1>1, <1>2 DEF FlushBuffer, Buffer
<1>5. durable \in Nat /\ Len(log) \in Nat /\ durable <= Len(log)
  BY TypesOfLog, LogFacts DEF RecInv, DataInv
<1>6. durable' \in durable..Len(log) /\ (buf[b].lsn > durable => durable' = Len(log))
      /\ (~(buf[b].lsn > durable) => durable' = durable)
  BY <1>2, <1>5 DEF FlushBuffer, DurableAfterFlush
<1>7. ASSUME NEW i \in (durable' + 1)..Len(log), log[i].op = "SET", log[i].block = b PROVE FALSE
  <2>1. i \in (durable + 1)..Len(log)
    <3>1. durable' \in Nat /\ durable <= durable'  BY <1>5, <1>6
    <3> QED  BY <1>5, <3>1, LaterPositions
  <2>2. buf[b].lsn >= i  BY <1>7, <2>1 DEF RecInv, DataInv, LogIsFlushedFirst
  <2>3. buf[b].lsn > durable  BY <1>2, <1>5, <2>1, <2>2
  <2>4. durable' = Len(log)  BY <1>6, <2>3
  <2>5. i \in (Len(log) + 1)..Len(log)  BY <2>4
  <2> QED  BY <1>5, <2>5
<1> QED  BY <1>3, <1>4, <1>6, <1>7

LEMMA OneMode == ~(Serving /\ Recovering)
BY DEF Serving, Recovering

LEMMA FlushRecovering ==
    ASSUME RecInv, Recovering, FlushStep
    PROVE  /\ \A b \in Block : Unfinished(b)' = Unfinished(b) /\ Recovered'[b] = Recovered[b]
           /\ RecoveryBegun' /\ \A j \in (durable' + 1)..Len(log') :
                                   log'[j] \in {Record("START", 1), Checkpoint}
           /\ (\A b \in Block : buf[b].txn = 0) => \A b \in Block : buf'[b].txn = 0
<1>1. state # "down" /\ RecoveringInv /\ LogTyped /\ log' = log /\ durable <= durable'
  BY TypesOfLog, FlushGrows DEF RecInv, DataInv, Recovering, FlushStep, LogGrows
<1>2. Len(log) \in Nat /\ durable \in Nat /\ durable' \in Nat
  BY <1>1, LogFacts, FlushGrows DEF LogGrows, LogTyped
<1>3. ASSUME NEW b \in Block PROVE Unfinished(b)' = Unfinished(b) /\ Recovered'[b] = Recovered[b]
  <2>1. \A t : ~Ends(t, b)  BY OneMode DEF Ends
  <2>2. Unfinished(b)' = Unfinished(b)  BY <1>1, <2>1, FlushSplits
  <2> QED  BY <1>1, <2>2, FlushKeepsData
<1>4. RecoveryBegun'  BY <1>1 DEF RecoveringInv, RecoveryBegun, IsEnd, Record
<1>5. ASSUME NEW j \in (durable' + 1)..Len(log') PROVE log'[j] \in {Record("START", 1), Checkpoint}
  <2>1. j \in (durable + 1)..Len(log)  BY <1>1, FlushGrows
  <2> QED  BY <1>1, <2>1 DEF RecoveringInv, RecoveryTail
<1> QED  BY <1>3, <1>4, <1>5 DEF FlushStep

(* A step that only flushes. *)
LEMMA FlushOnly ==
    ASSUME RecInv, state # "down", FlushStep, StoreOK',
           UNCHANGED <<writer, program, calls, bounds>>
    PROVE  RecInv'
<1>1. /\ log' = log /\ writer' = writer /\ durable' \in durable..Len(log)
      /\ \A b \in Block : buf'[b].txn = buf[b].txn \/ buf'[b].txn = 0
      /\ \A b \in Block : buf'[b].val = buf[b].val
  BY DEF FlushStep
<1>2. /\ state' = state /\ isNew' = isNew /\ lastTxn' = lastTxn /\ phase' = phase
      /\ ending' = ending /\ cursor' = cursor /\ finished' = finished /\ writes' = writes
  BY DEF program, calls, bounds
<1>3. Len(log) \in Nat /\ durable \in Nat
  BY TypesOfLog, LogFacts DEF RecInv, DataInv
<1>4. DataInv'
  <2>1. ControlOK'
    BY <1>1, <1>2, TypeParts DEF RecInv, DataInv, ControlOK
  <2>2. TypeOK'  BY <2>1, TypePartsNext
  <2> QED  BY <2>2, FlushKeepsData DEF DataInv
<1>5. ControlInv'
  <2>1. WritersRun'  BY <1>1, <1>2, OneIsTxn DEF RecInv, ControlInv, WritersRun
  <2>2. CheckpointsOnDisk'
    <3> SUFFICES ASSUME NEW j \in (durable' + 1)..Len(log), log[j].op = "CHECKPOINT"
                 PROVE  /\ j = Len(log) /\ state = "starting" /\ phase[1] = "force"
                        /\ ending[1] = "CHECKPOINT"
      BY <1>1, <1>2 DEF CheckpointsOnDisk
    <3>1. j \in (durable + 1)..Len(log)  BY FlushGrows
    <3> QED  BY <3>1 DEF RecInv, ControlInv, CheckpointsOnDisk
  <2>3. ProgramState'  BY <1>2 DEF RecInv, ControlInv, ProgramState
  <2> QED  BY <2>1, <2>2, <2>3 DEF ControlInv
<1>6. Serving' = Serving /\ Recovering' = Recovering  BY <1>2 DEF Serving, Recovering
<1>7. ASSUME Serving PROVE ServingInv'
  <2>1. \A t \in Txn : TxnInv(t)'  BY <1>2, <1>7, FlushTxn
  <2>2. ASSUME NEW b \in Block PROVE BlockInv(b)'
    <3>1. \A i \in Unfinished(b) : phase[log[i].txn] \in {"active", "undo", "flush", "force"}
      BY <1>7 DEF RecInv, ServingInv, BlockInv, WriterHolds
    <3>2. Unfinished(b)' \subseteq Unfinished(b)  BY FlushSplits
    <3> QED  BY <1>1, <1>2, <1>7, <3>1, <3>2, FlushBlocks
  <2> QED  BY <2>1, <2>2 DEF ServingInv
<1>8. ASSUME Recovering PROVE RecoveringInv'
  <2>1. RecoveringInv /\ LastCheckpoint' = LastCheckpoint
    BY <1>8, FlushGrows DEF RecInv, LogGrows
  <2>2. /\ \A b \in Block : Unfinished(b)' = Unfinished(b) /\ Recovered'[b] = Recovered[b]
        /\ RecoveryBegun' /\ \A j \in (durable' + 1)..Len(log') :
                                   log'[j] \in {Record("START", 1), Checkpoint}
    BY <1>8, FlushRecovering
  <2>3. RecoveryTail'
    <3>1. durable = Len(log) => durable' = Len(log')  BY <1>1, FlushGrows
    <3> QED  BY <1>2, <2>1, <2>2, <3>1 DEF RecoveringInv, RecoveryTail
  <2>4. NotYetRecovered'  BY <1>1, <1>2, <2>1 DEF RecoveringInv, NotYetRecovered
  <2>5. RecoveredSoFar'
    BY <1>1, <1>2, <2>1, <2>2 DEF RecoveringInv, RecoveredSoFar, IsEnd
  <2>6. RecoveryDone'  BY <1>1, <1>2, <2>1, <2>2 DEF RecoveringInv, RecoveryDone
  <2> QED  BY <1>2, <2>1, <2>2, <2>3, <2>4, <2>5, <2>6 DEF RecoveringInv
<1> QED  BY <1>4, <1>5, <1>6, <1>7, <1>8 DEF RecInv

(* The log is flushed, some of it or all, but not a checkpoint. *)
LEMMA LogFlushes ==
    ASSUME RecInv, log' = log, disk' = disk, buf' = buf, durable' \in durable..Len(log),
           ~(state = "starting" /\ phase[1] = "force" /\ ending[1] = "CHECKPOINT")
    PROVE  FlushStep /\ StoreOK'
<1>1. StoreOK /\ durable \in Nat /\ Len(log) \in Nat /\ durable <= Len(log)
  BY TypeParts, TypesOfLog, LogFacts DEF RecInv, DataInv
<1>2. ASSUME NEW i \in (durable + 1)..durable' PROVE log[i].op # "CHECKPOINT"
  <2>1. i \in (durable + 1)..Len(log)  BY <1>1
  <2> QED  BY <2>1 DEF RecInv, ControlInv, CheckpointsOnDisk
<1>3. FlushStep  BY <1>2 DEF FlushStep
<1>4. durable' \in 0..Len(log)  BY <1>1
<1> QED  BY <1>1, <1>3, <1>4 DEF StoreOK, LogTyped

LEMMA FullPageFlushes ==
    ASSUME RecInv, FullPage PROVE state # "down" /\ FlushStep /\ StoreOK'
<1>1. durable' = Len(log) /\ disk' = disk /\ log' = log /\ buf' = buf  BY DEF FullPage
<1>2. PICK t \in Txn : phase[t] \in {"active", "flush"}  BY DEF FullPage
<1>3. state # "down"
  <2>1. phase[t] # "none"  BY <1>2
  <2> QED  BY <2>1, Running
<1>4. durable' \in durable..Len(log)
  BY <1>1, TypesOfLog, LogFacts DEF RecInv, DataInv
<1>5. ~(state = "starting" /\ phase[1] = "force")  BY <1>2, StartingAlone
<1> QED  BY <1>1, <1>3, <1>4, <1>5, LogFlushes

LEMMA FullPageInv == ASSUME RecInv, FullPage PROVE RecInv'
BY FullPageFlushes, FlushOnly DEF FullPage

(* One page is flushed. *)
LEMMA PageFlushes ==
    ASSUME RecInv, state # "down", NEW b \in Block, buf[b].txn # 0, FlushBuffer(b), log' = log
    PROVE  FlushStep /\ StoreOK'
<1>1. /\ disk' \in [Block -> Val] /\ buf' \in [Block -> Buffer]
      /\ disk'[b] = buf[b].val /\ buf'[b] = [val |-> buf[b].val, txn |-> 0, lsn |-> 0]
      /\ \A c \in Block : c # b => disk'[c] = disk[c] /\ buf'[c] = buf[c]
      /\ durable' \in durable..Len(log)
      /\ \A i \in (durable' + 1)..Len(log) : log[i].op = "SET" => log[i].block # b
  BY FlushedBuffer
<1>2. ASSUME NEW i \in (durable + 1)..durable', log[i].op = "CHECKPOINT" PROVE FALSE
  <2>1. durable \in Nat /\ Len(log) \in Nat /\ durable' \in Nat /\ durable' <= Len(log)
    BY <1>1, TypesOfLog, LogFacts DEF RecInv, DataInv
  <2>2. i \in (durable + 1)..Len(log)  BY <2>1
  <2>3. state = "starting" /\ phase[1] = "force"
    BY <1>2, <2>2 DEF RecInv, ControlInv, CheckpointsOnDisk
  <2>4. buf[b].txn \in Txn  BY DEF RecInv, DataInv, TypeOK, Buffer
  <2>5. phase[buf[b].txn] \in {"active", "undo", "recover", "flush"}
    BY <2>4 DEF RecInv, ControlInv, WritersRun
  <2> QED  BY <2>3, <2>4, <2>5, StartingAlone
<1>3. FlushStep
  <2>1. \A i \in (durable + 1)..durable' : log[i].op # "CHECKPOINT"  BY <1>2
  <2>2. buf'[b].val = buf[b].val /\ buf'[b].txn = 0  BY <1>1
  <2>3. \A c \in Block :
           \/ disk'[c] = disk[c] /\ buf'[c] = buf[c]
           \/ /\ disk'[c] = buf[c].val
              /\ buf'[c].val = buf[c].val /\ buf'[c].txn = 0
              /\ \A i \in (durable' + 1)..Len(log) : log[i].op = "SET" => log[i].block # c
    BY <1>1, <2>2, Zenon
  <2> QED  BY <1>1, <2>1, <2>3 DEF FlushStep
<1>4. StoreOK'  BY <1>1, <1>3, FlushStore
<1> QED  BY <1>3, <1>4

LEMMA ReplaceInv == ASSUME RecInv, NEW b \in Block, Replace(b) PROVE RecInv'
BY PageFlushes, FlushOnly DEF Replace

LEMMA FlushOneInv ==
    ASSUME RecInv, NEW t \in Txn, NEW b \in Block, FlushOne(t, b) PROVE RecInv'
<1>1. t # 0 /\ phase[t] # "none"  BY OneIsTxn DEF FlushOne
<1>2. state # "down"  BY <1>1, Running
<1> QED  BY <1>1, <1>2, PageFlushes, FlushOnly DEF FlushOne

-----------------------------------------------------------------------------
(* Steps of one transaction, which go on to its next phase                   *)

(* Transaction t goes to phase p with the end e and the cursor c.            *)
Goes(t, p, e, c) ==
    /\ phase' = [phase EXCEPT ![t] = p]
    /\ ending' = [ending EXCEPT ![t] = e]
    /\ cursor' = [cursor EXCEPT ![t] = c]

LEMMA GoesFacts ==
    ASSUME TypeOK, NEW t \in Txn, NEW p, NEW e, NEW c, Goes(t, p, e, c)
    PROVE  /\ phase'[t] = p /\ ending'[t] = e /\ cursor'[t] = c
           /\ \A u \in Txn : u # t => /\ phase'[u] = phase[u] /\ ending'[u] = ending[u]
                                      /\ cursor'[u] = cursor[u]
BY DEF TypeOK, Goes

LEMMA GoesTyped ==
    ASSUME RecInv, StoreOK', Len(log) <= Len(log'), NEW t \in Txn, phase[t] # "none",
           NEW p \in Phase, p # "none", NEW e \in {"COMMIT", "ROLLBACK", "CHECKPOINT"},
           NEW c \in 0..Len(log'), Goes(t, p, e, c),
           UNCHANGED <<state, isNew, lastTxn, writes>> \/ (state' = "open" /\ UNCHANGED <<isNew, lastTxn, writes>>),
           finished' \subseteq Txn, writer' \in [Block -> Txn \cup {0}],
           \A b \in Block : buf'[b].txn # 0 => writer'[b] = buf'[b].txn
    PROVE  TypeOK'
<1>1. Len(log) \in Nat /\ Len(log') \in Nat
  BY TypesOfLog, LogFacts DEF RecInv, DataInv, StoreOK, LogTyped
<1>2. TypeOK  BY DEF RecInv, DataInv
<1>3. cursor' \in [Txn -> 0..Len(log')]
  <2>1. \A u \in Txn : cursor[u] \in 0..Len(log')  BY <1>1, <1>2 DEF TypeOK
  <2> QED  BY <1>2, <2>1 DEF Goes, TypeOK
<1>4. phase' \in [Txn -> Phase] /\ ending' \in [Txn -> {"COMMIT", "ROLLBACK", "CHECKPOINT"}]
  BY <1>2 DEF TypeOK, Goes
<1>5. \A u \in Txn : u > lastTxn' <=> phase'[u] = "none"
  <2>1. \A u \in Txn : phase'[u] = "none" <=> phase[u] = "none"  BY <1>2, GoesFacts
  <2>2. lastTxn' = lastTxn  OBVIOUS
  <2> QED  BY <1>2, <2>1, <2>2 DEF TypeOK
<1>6. /\ state' \in {"down", "starting", "open"} /\ isNew' \in BOOLEAN /\ writes' \in Val
      /\ lastTxn' \in 0..(MaxClients + 1)
  BY <1>2 DEF TypeOK
<1>7. ControlOK'  BY <1>3, <1>4, <1>5, <1>6 DEF ControlOK
<1> QED  BY <1>7, TypePartsNext

(* A step of t that flushes, or writes nothing.                              *)
LEMMA ServingActor ==
    ASSUME RecInv, Serving, FlushStep, NEW t \in Txn, NEW p, NEW e, NEW c, Goes(t, p, e, c),
           TxnInv(t)',
           \A b \in Block : \A i \in Unfinished(b)' :
              /\ writer'[b] = writer[b]
              /\ log[i].txn = t => p \in {"active", "undo", "flush", "force"}
    PROVE  ServingInv'
<1>1. /\ phase'[t] = p
      /\ \A u \in Txn : u # t => /\ phase'[u] = phase[u] /\ ending'[u] = ending[u]
                                 /\ cursor'[u] = cursor[u]
  BY GoesFacts DEF RecInv, DataInv
<1>2. \A u \in Txn : TxnInv(u)'  BY <1>1, FlushTxn
<1>3. ASSUME NEW b \in Block PROVE BlockInv(b)'
  <2>1. \A i \in Unfinished(b) : /\ phase[log[i].txn] \in {"active", "undo", "flush", "force"}
                                 /\ log[i].txn \in Txn
    <3>1. \A i \in Unfinished(b) : i \in 1..Len(log) /\ log[i].op = "SET"
      BY TypesOfLog, FlushGrows, GrowthFacts DEF Unfinished, RecInv, DataInv
    <3> QED  BY <3>1 DEF RecInv, ServingInv, BlockInv, WriterHolds, DataInv, RecordsAreWhole
  <2>2. Unfinished(b)' \subseteq Unfinished(b)  BY FlushSplits DEF Serving
  <2>3. \A i \in Unfinished(b)' :
           writer'[b] = writer[b] /\ phase'[log[i].txn] \in {"active", "undo", "flush", "force"}
    BY <1>1, <2>1, <2>2
  <2> QED  BY <2>3, FlushBlocks
<1> QED  BY <1>2, <1>3 DEF ServingInv

(* A step that writes nothing is one that flushes nothing.                   *)
LEMMA NothingFlushed ==
    ASSUME RecInv, UNCHANGED <<durables, buf>>
    PROVE  FlushStep /\ StoreOK'
<1>1. StoreOK /\ durable \in Nat /\ Len(log) \in Nat /\ durable <= Len(log)
  BY TypeParts, TypesOfLog, LogFacts DEF RecInv, DataInv
<1>2. disk' = disk /\ log' = log /\ durable' = durable /\ buf' = buf  BY DEF durables
<1>3. durable' \in durable..Len(log)  BY <1>1, <1>2
<1>4. \A i \in (durable + 1)..durable' : FALSE  BY <1>1, <1>2
<1>5. FlushStep  BY <1>2, <1>3, <1>4 DEF FlushStep
<1>6. StoreOK'  BY <1>1, <1>2 DEF StoreOK, LogTyped
<1> QED  BY <1>5, <1>6

LEMMA ServingEnding ==
    ASSUME RecInv, Serving, NEW t \in Txn
    PROVE  ending[t] \in {"COMMIT", "ROLLBACK"} /\ phase[t] # "recover"
<1>1. ending[t] \in {"COMMIT", "ROLLBACK", "CHECKPOINT"}  BY DEF RecInv, DataInv, TypeOK
<1>2. ending[t] = "CHECKPOINT" => t = 1 /\ state = "starting"
  BY DEF RecInv, ControlInv, ProgramState
<1>3. phase[t] = "recover" => t = 1 /\ ending[t] = "CHECKPOINT"
  BY DEF RecInv, ControlInv, ProgramState
<1> QED  BY <1>1, <1>2, <1>3 DEF Serving, Recovering

LEMMA CommitInv == ASSUME RecInv, NEW t \in Txn, Commit(t) PROVE RecInv'
<1>1. /\ phase[t] = "active" /\ ending[t] = "COMMIT" /\ (state = "open" \/ isNew)
      /\ UNCHANGED <<durables, buf, writer, program, finished, bounds>>
  BY DEF Commit, RecInv, ControlInv, ProgramState
<1>2. Goes(t, "flush", "COMMIT", cursor[t])  BY DEF Commit, Goes, RecInv, DataInv, TypeOK
<1>3. /\ phase'[t] = "flush" /\ ending'[t] = "COMMIT" /\ cursor'[t] = cursor[t]
      /\ \A u \in Txn : u # t => /\ phase'[u] = phase[u] /\ ending'[u] = ending[u]
                                 /\ cursor'[u] = cursor[u]
  BY <1>2, GoesFacts DEF RecInv, DataInv
<1>4. FlushStep /\ StoreOK'  BY <1>1, NothingFlushed
<1>5. /\ log' = log /\ durable' = durable /\ buf' = buf /\ writer' = writer /\ state' = state
      /\ isNew' = isNew /\ lastTxn' = lastTxn /\ finished' = finished /\ writes' = writes
  BY <1>1 DEF durables, program, bounds
<1>6. state # "down" /\ (state = "starting" => t = 1)  BY <1>1, Running
<1>7. Serving /\ Serving' /\ ~Recovering'
  BY <1>1, <1>3, <1>5, <1>6 DEF Serving, Recovering, RecInv, DataInv, TypeOK
<1>8. DataInv'
  <2>1. TypeOK'
    <3>1. Len(log) <= Len(log')  BY <1>5, TypesOfLog, LogFacts DEF RecInv, DataInv
    <3>2. cursor[t] \in 0..Len(log')  BY <1>5 DEF RecInv, DataInv, TypeOK
    <3> QED  BY ZenonT(60), <1>1, <1>2, <1>4, <1>5, <3>1, <3>2, GoesTyped DEF Phase, RecInv, DataInv, TypeOK
  <2> QED  BY <1>4, <1>6, <2>1, FlushKeepsData DEF DataInv
<1>9. ControlInv'
  <2>1. WritersRun'  BY <1>1, <1>3, <1>5 DEF RecInv, ControlInv, WritersRun
  <2>2. CheckpointsOnDisk'  BY <1>1, <1>3, <1>5, OneIsTxn DEF RecInv, ControlInv, CheckpointsOnDisk
  <2>3. ProgramState'
    BY <1>1, <1>3, <1>5, <1>6, OneIsTxn DEF RecInv, ControlInv, ProgramState
  <2> QED  BY <2>1, <2>2, <2>3 DEF ControlInv
<1>10. ServingInv'
  <2>1. TxnInv(t)  BY <1>7 DEF RecInv, ServingInv
  <2>2. /\ EndOf(t)' = EndOf(t) /\ Writes(t)' = Writes(t) /\ Recent' = Recent
    BY <1>4, FlushGrows
  <2>3. NoEndYet(t)' /\ NoRecordYet(t)' /\ EndIsForced(t)' /\ UndoneSoFar(t)' /\ RolledBack(t)'
    BY <1>1, <1>3, <2>1, <2>2
       DEF TxnInv, NoEndYet, NoRecordYet, EndIsForced, UndoneSoFar, RolledBack
  <2>4. Begun(t)' /\ NoSecondStart(t)'
    BY <1>1, <1>3, <1>5, <2>1, <2>2 DEF TxnInv, Begun, NoSecondStart, Record, IsEnd
  <2>5. TxnInv(t)'  BY <2>3, <2>4 DEF TxnInv
  <2> QED  BY <1>2, <1>4, <1>5, <1>7, <2>5, ServingActor
<1> QED  BY <1>7, <1>8, <1>9, <1>10 DEF RecInv

LEMMA UndoFailsInv == ASSUME RecInv, NEW t \in Txn, UndoFails(t) PROVE RecInv'
<1>1. /\ phase[t] = "undo" /\ state = "open" /\ phase[1] = "ended" /\ t # 1 /\ finished = {}
      /\ UNCHANGED <<durables, buf, writer, program, finished, bounds>>
  BY DEF UndoFails, RecInv, ControlInv, ProgramState
<1>2. Goes(t, "active", "COMMIT", 0)  BY DEF UndoFails, Goes
<1>3. /\ phase'[t] = "active" /\ ending'[t] = "COMMIT" /\ cursor'[t] = 0
      /\ \A u \in Txn : u # t => /\ phase'[u] = phase[u] /\ ending'[u] = ending[u]
                                 /\ cursor'[u] = cursor[u]
  BY <1>2, GoesFacts DEF RecInv, DataInv
<1>4. FlushStep /\ StoreOK'  BY <1>1, NothingFlushed
<1>5. /\ log' = log /\ durable' = durable /\ buf' = buf /\ writer' = writer /\ state' = state
      /\ isNew' = isNew /\ lastTxn' = lastTxn /\ finished' = finished /\ writes' = writes
  BY <1>1 DEF durables, program, bounds
<1>6. Serving /\ Serving' /\ ~Recovering'  BY <1>1, <1>5 DEF Serving, Recovering
<1>7. DataInv'
  <2>1. TypeOK'
    <3>1. Len(log) <= Len(log') /\ 0 \in 0..Len(log')
      BY <1>5, TypesOfLog, LogFacts DEF RecInv, DataInv
    <3> QED  BY <1>1, <1>2, <1>4, <1>5, <3>1, GoesTyped DEF Phase, RecInv, DataInv, TypeOK
  <2> QED  BY <1>1, <1>4, <2>1, FlushKeepsData DEF DataInv
<1>8. ControlInv'
  <2>1. WritersRun'  BY <1>1, <1>3, <1>5 DEF RecInv, ControlInv, WritersRun
  <2>2. CheckpointsOnDisk'  BY <1>1, <1>3, <1>5, OneIsTxn DEF RecInv, ControlInv, CheckpointsOnDisk
  <2>3. ProgramState'
    BY <1>1, <1>3, <1>5, OneIsTxn DEF RecInv, ControlInv, ProgramState
  <2> QED  BY <2>1, <2>2, <2>3 DEF ControlInv
<1>9. ServingInv'
  <2>1. TxnInv(t)  BY <1>6 DEF RecInv, ServingInv
  <2>2. /\ EndOf(t)' = EndOf(t) /\ Writes(t)' = Writes(t) /\ Recent' = Recent
    BY <1>4, FlushGrows
  <2>3. NoEndYet(t)' /\ NoRecordYet(t)' /\ EndIsForced(t)' /\ UndoneSoFar(t)' /\ RolledBack(t)'
    BY <1>1, <1>3, <2>1, <2>2
       DEF TxnInv, NoEndYet, NoRecordYet, EndIsForced, UndoneSoFar, RolledBack
  <2>4. Begun(t)' /\ NoSecondStart(t)'
    BY <1>1, <1>3, <1>5, <2>1, <2>2 DEF TxnInv, Begun, NoSecondStart, Record, IsEnd
  <2>5. TxnInv(t)'  BY <2>3, <2>4 DEF TxnInv
  <2> QED  BY <1>2, <1>4, <1>5, <1>6, <2>5, ServingActor
<1> QED  BY <1>6, <1>7, <1>8, <1>9 DEF RecInv

LEMMA ReleaseInv == ASSUME RecInv, NEW t \in Txn, Release(t) PROVE RecInv'
<1>1. /\ phase[t] = "release" /\ state' = "open"
      /\ writer' = [b \in Block |-> IF writer[b] = t THEN 0 ELSE writer[b]]
      /\ UNCHANGED <<durables, buf, isNew, lastTxn, cursor, finished, bounds>>
  BY DEF Release
<1>2. Goes(t, "ended", "COMMIT", cursor[t])  BY DEF Release, Goes, RecInv, DataInv, TypeOK
<1>3. /\ phase'[t] = "ended" /\ ending'[t] = "COMMIT" /\ cursor'[t] = cursor[t]
      /\ \A u \in Txn : u # t => /\ phase'[u] = phase[u] /\ ending'[u] = ending[u]
                                 /\ cursor'[u] = cursor[u]
  BY <1>2, GoesFacts DEF RecInv, DataInv
<1>4. FlushStep /\ StoreOK'  BY <1>1, NothingFlushed
<1>5. /\ log' = log /\ durable' = durable /\ buf' = buf
      /\ isNew' = isNew /\ lastTxn' = lastTxn /\ finished' = finished /\ writes' = writes
  BY <1>1 DEF durables, program, bounds
<1>6. state # "down" /\ (state = "starting" => t = 1) /\ (state = "open" => phase[1] = "ended")
  BY <1>1, Running DEF RecInv, ControlInv, ProgramState
<1>7. Serving /\ Serving' /\ ~Recovering'
  <2>1. ~Recovering  BY <1>1, <1>6 DEF RecInv, RecoveringInv, Recovering
  <2> QED  BY <1>1, <1>6, <2>1, Modes DEF Serving, Recovering, RecInv, DataInv
<1>8. /\ \A u \in Txn : ending[u] \in {"COMMIT", "ROLLBACK"} /\ phase[u] # "recover"
      /\ finished = {}
  BY <1>7, ServingEnding, OneIsTxn DEF RecInv, ControlInv, ProgramState
<1>9. /\ \A b \in Block : writer'[b] # t /\ (writer'[b] # 0 => writer'[b] = writer[b])
      /\ \A b \in Block : writer[b] # t => writer'[b] = writer[b]
      /\ writer' \in [Block -> Txn \cup {0}]
  BY <1>1, OneIsTxn DEF RecInv, DataInv, TypeOK
<1>10. DataInv'
  <2>1. TypeOK'
    <3>1. Len(log) <= Len(log')  BY <1>5, TypesOfLog, LogFacts DEF RecInv, DataInv
    <3>2. cursor[t] \in 0..Len(log') /\ finished' \subseteq Txn
      BY <1>5 DEF RecInv, DataInv, TypeOK
    <3>3. \A b \in Block : buf'[b].txn # 0 => writer'[b] = buf'[b].txn
      <4> SUFFICES ASSUME NEW b \in Block, buf[b].txn # 0 PROVE writer'[b] = buf[b].txn
        BY <1>5
      <4>1. writer[b] = buf[b].txn /\ phase[writer[b]] # "release"  BY <1>7, ServingPhases
      <4> QED  BY <1>1, <1>9, <4>1
    <3>4. "ended" \in Phase /\ "ended" # "none"  BY DEF Phase
    <3>5. state' = "open" /\ UNCHANGED <<isNew, lastTxn, writes>>  BY <1>1, <1>5
    <3> QED  BY <1>1, <1>2, <1>4, <1>9, <3>1, <3>2, <3>3, <3>4, <3>5, GoesTyped
  <2> QED  BY <1>4, <1>6, <2>1, FlushKeepsData DEF DataInv
<1>11. ControlInv'
  <2>1. WritersRun'
    <3>1. ASSUME NEW u \in Txn, NEW b \in Block, buf[b].txn = u
          PROVE  phase'[u] \in {"active", "undo", "recover", "flush"}
      BY <1>1, <1>3, <3>1 DEF RecInv, ControlInv, WritersRun
    <3>2. ASSUME NEW u \in Txn, NEW b \in Block, writer'[b] = u
          PROVE  phase'[u] \notin {"none", "ended"}
      BY <1>3, <1>9, <3>2, OneIsTxn DEF RecInv, ControlInv, WritersRun
    <3> QED  BY <1>5, <3>1, <3>2 DEF WritersRun
  <2>2. CheckpointsOnDisk'
    BY <1>5, <1>8, OneIsTxn DEF RecInv, ControlInv, CheckpointsOnDisk
  <2>3. phase'[1] = "ended"
    BY <1>3, <1>6, OneIsTxn DEF RecInv, DataInv, TypeOK
  <2>4. ASSUME NEW u \in Txn
        PROVE  /\ phase'[u] = "undo" => ending'[u] = "ROLLBACK"
               /\ phase'[u] # "recover" /\ ending'[u] # "CHECKPOINT"
               /\ phase'[u] \in {"none", "active"} => ending'[u] = "COMMIT"
    BY <1>3, <1>8 DEF RecInv, ControlInv, ProgramState
  <2>5. ProgramState'  BY <1>1, <1>5, <1>8, <2>3, <2>4 DEF ProgramState
  <2> QED  BY <2>1, <2>2, <2>5 DEF ControlInv
<1>12. ServingInv'
  <2>1. TxnInv(t)  BY <1>7 DEF RecInv, ServingInv
  <2>2. /\ EndOf(t)' = EndOf(t) /\ Writes(t)' = Writes(t) /\ Recent' = Recent
    BY <1>4, FlushGrows
  <2>3. NoEndYet(t)' /\ NoRecordYet(t)' /\ EndIsForced(t)' /\ UndoneSoFar(t)' /\ RolledBack(t)'
    BY <1>1, <1>3, <1>5, <2>1, <2>2
       DEF TxnInv, NoEndYet, NoRecordYet, EndIsForced, UndoneSoFar, RolledBack
  <2>4. Begun(t)' /\ NoSecondStart(t)'
    BY <1>1, <1>3, <1>5, <2>1, <2>2 DEF TxnInv, Begun, NoSecondStart, Record, IsEnd
  <2>5. TxnInv(t)'  BY <2>3, <2>4 DEF TxnInv
  <2>6. ASSUME NEW b \in Block, NEW i \in Unfinished(b)'
        PROVE  writer'[b] = writer[b] /\ log[i].txn # t
    <3>1. i \in Unfinished(b)  BY <1>4, <1>6, FlushSplits
    <3>2. writer[b] = log[i].txn /\ phase[log[i].txn] # "release"
      BY <1>7, <3>1 DEF RecInv, ServingInv, BlockInv, WriterHolds
    <3> QED  BY <1>1, <1>9, <3>2
  <2> QED  BY <1>2, <1>4, <1>7, <2>5, <2>6, ServingActor
<1> QED  BY <1>7, <1>10, <1>11, <1>12 DEF RecInv

LEMMA RollbackFlushes ==
    ASSUME RecInv, NEW t \in Txn, Rollback(t) PROVE FlushStep /\ StoreOK'
<1>1. durable' \in durable..Len(log)  BY TypesOfLog, LogFacts DEF Rollback, RecInv, DataInv
<1> QED  BY <1>1, LogFlushes DEF Rollback

LEMMA RollbackInv == ASSUME RecInv, NEW t \in Txn, Rollback(t) PROVE RecInv'
<1>1. /\ phase[t] = "active" /\ state = "open" /\ phase[1] = "ended" /\ t # 1 /\ finished = {}
      /\ durable' = Len(log)
      /\ UNCHANGED <<disk, log, buf, writer, program, finished, bounds>>
  BY DEF Rollback, RecInv, ControlInv, ProgramState
<1>2. Goes(t, "undo", "ROLLBACK", Len(log))  BY DEF Rollback, Goes
<1>3. /\ phase'[t] = "undo" /\ ending'[t] = "ROLLBACK" /\ cursor'[t] = Len(log)
      /\ \A u \in Txn : u # t => /\ phase'[u] = phase[u] /\ ending'[u] = ending[u]
                                 /\ cursor'[u] = cursor[u]
  BY <1>2, GoesFacts DEF RecInv, DataInv
<1>4. /\ log' = log /\ disk' = disk /\ buf' = buf /\ writer' = writer /\ state' = state
      /\ isNew' = isNew /\ lastTxn' = lastTxn /\ finished' = finished /\ writes' = writes
  BY <1>1 DEF program, bounds
<1>5. StoreOK /\ durable \in Nat /\ Len(log) \in Nat /\ durable <= Len(log)
  BY TypeParts, TypesOfLog, LogFacts DEF RecInv, DataInv
<1>6. FlushStep /\ StoreOK'  BY RollbackFlushes
<1>7. Serving /\ Serving' /\ ~Recovering'  BY <1>1, <1>4 DEF Serving, Recovering
<1>8. DataInv'
  <2>1. TypeOK'
    <3>1. Len(log) <= Len(log') /\ Len(log) \in 0..Len(log')  BY <1>4, <1>5
    <3> QED  BY <1>1, <1>2, <1>4, <1>6, <3>1, GoesTyped DEF Phase, RecInv, DataInv, TypeOK
  <2> QED  BY <1>1, <1>6, <2>1, FlushKeepsData DEF DataInv
<1>9. ControlInv'
  <2>1. WritersRun'  BY <1>1, <1>3, <1>4 DEF RecInv, ControlInv, WritersRun
  <2>2. CheckpointsOnDisk'
    <3>1. \A j \in (durable' + 1)..Len(log') : FALSE  BY <1>1, <1>4, <1>5
    <3> QED  BY <3>1 DEF CheckpointsOnDisk
  <2>3. ProgramState'
    BY <1>1, <1>3, <1>4, OneIsTxn DEF RecInv, ControlInv, ProgramState
  <2> QED  BY <2>1, <2>2, <2>3 DEF ControlInv
<1>10. ServingInv'
  <2>1. TxnInv(t)  BY <1>7 DEF RecInv, ServingInv
  <2>2. /\ EndOf(t)' = EndOf(t) /\ Writes(t)' = Writes(t) /\ Recent' = Recent
    BY <1>6, FlushGrows
  <2>3. NoEndYet(t)' /\ NoRecordYet(t)' /\ EndIsForced(t)' /\ RolledBack(t)'
    BY <1>1, <1>3, <2>1, <2>2
       DEF TxnInv, NoEndYet, NoRecordYet, EndIsForced, RolledBack
  <2>4. NoSecondStart(t)'
    BY <1>1, <1>4, <2>1, <2>2 DEF TxnInv, NoSecondStart, Record, IsEnd
  <2>5. Begun(t)'
    <3>1. PICK s \in 1..Len(log) :
             /\ log[s] = Record("START", t)
             /\ \A j \in s..Len(log) : log[j].txn = t /\ IsEnd(j) => j \in Recent
             /\ s \in Recent
      BY <1>1, <2>1 DEF TxnInv, Begun
    <3>2. s <= cursor'[t]  BY <1>3, <1>5
    <3> QED  BY <1>4, <2>2, <3>1, <3>2 DEF Begun, Record, IsEnd
  <2>6. UndoneSoFar(t)'
    <3>1. Writes(t) \subseteq 1..Len(log)
      BY TypesOfLog, FlushGrows, GrowthFacts, <1>6 DEF Writes, RecInv, DataInv
    <3>2. \A i \in Writes(t)' : ~(i > cursor'[t])  BY <1>3, <1>5, <2>2, <3>1
    <3> QED  BY <3>2 DEF UndoneSoFar
  <2>7. TxnInv(t)'  BY <2>3, <2>4, <2>5, <2>6 DEF TxnInv
  <2> QED  BY <1>2, <1>4, <1>6, <1>7, <2>7, ServingActor
<1> QED  BY <1>7, <1>8, <1>9, <1>10 DEF RecInv

LEMMA ForceEndFlushes ==
    ASSUME RecInv, NEW t \in Txn, ForceLog(t), ending[t] # "CHECKPOINT"
    PROVE  state # "down" /\ FlushStep /\ StoreOK'
<1>1. /\ phase[t] = "force" /\ durable' = DurableAfterFlush(cursor[t])
      /\ UNCHANGED <<disk, log, buf>>
  BY DEF ForceLog
<1>2. durable' \in durable..Len(log)
  BY <1>1, TypesOfLog, LogFacts DEF DurableAfterFlush, RecInv, DataInv
<1>3. state # "down" /\ (state = "starting" => t = 1)  BY <1>1, Running
<1> QED  BY <1>1, <1>2, <1>3, LogFlushes

LEMMA ForceEndInv ==
    ASSUME RecInv, NEW t \in Txn, ForceLog(t), ending[t] # "CHECKPOINT"
    PROVE  RecInv'
<1>1. /\ phase[t] = "force" /\ durable' = DurableAfterFlush(cursor[t])
      /\ ending[t] \in {"COMMIT", "ROLLBACK"}
      /\ UNCHANGED <<disk, log, buf, writer, program, finished, bounds>>
  BY DEF ForceLog, RecInv, DataInv, TypeOK
<1>2. Goes(t, "release", ending[t], 0)  BY DEF ForceLog, Goes, RecInv, DataInv, TypeOK
<1>3. /\ phase'[t] = "release" /\ ending'[t] = ending[t] /\ cursor'[t] = 0
      /\ \A u \in Txn : u # t => /\ phase'[u] = phase[u] /\ ending'[u] = ending[u]
                                 /\ cursor'[u] = cursor[u]
  BY <1>2, GoesFacts DEF RecInv, DataInv
<1>4. /\ log' = log /\ disk' = disk /\ buf' = buf /\ writer' = writer /\ state' = state
      /\ isNew' = isNew /\ lastTxn' = lastTxn /\ finished' = finished /\ writes' = writes
  BY <1>1 DEF program, bounds
<1>5. StoreOK /\ durable \in Nat /\ Len(log) \in Nat /\ durable <= Len(log)
  BY TypeParts, TypesOfLog, LogFacts DEF RecInv, DataInv
<1>6. state # "down" /\ (state = "starting" => t = 1) /\ (state = "open" => phase[1] = "ended")
  BY <1>1, Running DEF RecInv, ControlInv, ProgramState
<1>7. Serving /\ Serving' /\ ~Recovering'
  <2>1. ~Recovering
    BY <1>1, <1>6 DEF Recovering, RecInv, ControlInv, ProgramState
  <2> QED  BY <1>3, <1>4, <1>6, <2>1, Modes DEF Serving, Recovering, RecInv, DataInv, TypeOK
<1>8. /\ \A u \in Txn : ending[u] \in {"COMMIT", "ROLLBACK"} /\ phase[u] # "recover"
      /\ finished = {}
  BY <1>7, ServingEnding, OneIsTxn DEF RecInv, ControlInv, ProgramState
<1>9. TxnInv(t)  BY <1>7 DEF RecInv, ServingInv
<1>10. EndOf(t) = {cursor[t]} /\ cursor[t] \in 0..Len(log)
  BY <1>1, <1>9 DEF TxnInv, EndIsForced, RecInv, DataInv, TypeOK
<1>11. durable' \in durable..Len(log) /\ durable' \in 0..Len(log) /\ cursor[t] <= durable'
  BY <1>1, <1>5, <1>10 DEF DurableAfterFlush
<1>12. FlushStep /\ StoreOK'  BY ForceEndFlushes
<1>13. DataInv'
  <2>1. TypeOK'
    <3>1. Len(log) <= Len(log') /\ 0 \in 0..Len(log')  BY <1>4, <1>5
    <3> QED  BY ZenonT(60), <1>1, <1>2, <1>4, <1>12, <3>1, GoesTyped DEF Phase, RecInv, DataInv, TypeOK
  <2> QED  BY <1>6, <1>12, <2>1, FlushKeepsData DEF DataInv
<1>14. ControlInv'
  <2>1. WritersRun'  BY <1>1, <1>3, <1>4 DEF RecInv, ControlInv, WritersRun
  <2>2. CheckpointsOnDisk'
    <3>1. \A j \in (durable' + 1)..Len(log') : log'[j].op # "CHECKPOINT"
      BY <1>4, <1>8, <1>12, FlushGrows, OneIsTxn DEF RecInv, ControlInv, CheckpointsOnDisk
    <3> QED  BY <3>1 DEF CheckpointsOnDisk
  <2>3. ProgramState'
    BY <1>1, <1>3, <1>4, <1>6, <1>8, OneIsTxn DEF RecInv, ControlInv, ProgramState
  <2> QED  BY <2>1, <2>2, <2>3 DEF ControlInv
<1>15. ServingInv'
  <2>1. /\ EndOf(t)' = EndOf(t) /\ Writes(t)' = Writes(t) /\ Recent' = Recent
    BY <1>12, FlushGrows
  <2>2. NoEndYet(t)' /\ NoRecordYet(t)' /\ UndoneSoFar(t)' /\ RolledBack(t)'
    BY <1>3 DEF NoEndYet, NoRecordYet, UndoneSoFar, RolledBack
  <2>3. EndIsForced(t)'  BY <1>3, <1>10, <1>11, <2>1 DEF EndIsForced
  <2>4. Begun(t)' /\ NoSecondStart(t)'
    BY <1>1, <1>3, <1>4, <1>9, <2>1 DEF TxnInv, Begun, NoSecondStart, Record, IsEnd
  <2>5. TxnInv(t)'  BY <2>2, <2>3, <2>4 DEF TxnInv
  <2>6. ASSUME NEW b \in Block, NEW i \in Unfinished(b)' PROVE log[i].txn # t
    <3>1. log'[i].txn \notin Finished'  BY DEF Unfinished
    <3>2. LogTyped /\ LogTyped'  BY <1>5, <1>12 DEF StoreOK
    <3>3. t \in Finished'  BY <1>4, <1>10, <1>11, <1>12, <3>2, TailKept, FlushGrows DEF FlushStep, LogGrows
    <3> QED  BY <1>4, <3>1, <3>3
  <2> QED  BY <1>2, <1>4, <1>7, <1>12, <2>5, <2>6, ServingActor
<1> QED  BY <1>7, <1>13, <1>14, <1>15 DEF RecInv

(* The checkpoint goes to disk, and what recovery has made of the blocks is *)
(* what the next one starts from.                                           *)
(* The checkpoint is on disk: nothing is left that a recovery would undo.   *)
LEMMA CheckpointForced ==
    ASSUME RecInv, NEW t \in Txn, ForceLog(t), ending[t] = "CHECKPOINT"
    PROVE  /\ t = 1 /\ state = "starting" /\ phase[1] = "force" /\ Recovering /\ RecoveringInv
           /\ \A u \in Txn : u # 1 => phase[u] = "none"
           /\ UNCHANGED <<disk, log, buf, writer, program, finished, bounds>>
           /\ durable' = Len(log) /\ StoreOK' /\ Recent' = {}
           /\ \A b \in Block : buf[b].txn = 0 /\ Recovered'[b] = Recovered[b]
           /\ PageIsBehind' /\ EndsAfterWrites' /\ RecordsAreWhole' /\ LogIsFlushedFirst' /\ CleanIsOnDisk'
<1>1. /\ phase[t] = "force" /\ durable' = DurableAfterFlush(cursor[t])
      /\ t = 1 /\ state = "starting" /\ Recovering
      /\ UNCHANGED <<disk, log, buf, writer, program, finished, bounds>>
  BY DEF ForceLog, RecInv, ControlInv, ProgramState, Recovering
<1>2. \A u \in Txn : u # 1 => phase[u] = "none"  BY <1>1, StartingAlone
<1>3. /\ log' = log /\ disk' = disk /\ buf' = buf /\ writer' = writer /\ state' = state
      /\ isNew' = isNew /\ lastTxn' = lastTxn /\ finished' = finished /\ writes' = writes
  BY <1>1 DEF program, bounds
<1>4. StoreOK /\ LogTyped /\ durable \in Nat /\ Len(log) \in Nat /\ durable <= Len(log)
  BY TypeParts, TypesOfLog, LogFacts DEF RecInv, DataInv
<1>5. RecoveringInv /\ cursor[1] = Len(log) /\ log[Len(log)] = Checkpoint
  BY <1>1 DEF RecInv, RecoveringInv, RecoveryDone
<1>6. durable' = Len(log)  BY <1>1, <1>4, <1>5 DEF DurableAfterFlush
<1>7. LogTyped' /\ StoreOK'  BY <1>3, <1>4, <1>6 DEF StoreOK, LogTyped
<1>8. Len(log) # 0
  BY <1>4, <1>5 DEF RecoveringInv, RecoveryBegun
<1>9. LastCheckpoint' = Len(log)
  <2>1. Len(log) \in 0..durable' /\ log'[Len(log)].op = "CHECKPOINT"
    BY <1>3, <1>4, <1>5, <1>6 DEF Checkpoint, Record
  <2>2. \A i \in (Len(log) + 1)..durable' : FALSE  BY <1>4, <1>6
  <2> QED  BY <1>7, <2>1, <2>2, CheckpointIsNext
<1>10. Recent' = {}  BY <1>3, <1>4, <1>9 DEF Recent
<1>11. /\ \A b : Unfinished(b)' = {} /\ \A i : ~First(i, b)'
       /\ \A u : EndOf(u)' = {} /\ Writes(u)' = {}
  BY <1>10 DEF Unfinished, First, EndOf, Writes
<1>12. \A b \in Block : buf[b].txn = 0 /\ disk[b] = Recovered[b] /\ buf[b].val = Recovered[b]
  <2> SUFFICES ASSUME NEW b \in Block
               PROVE  buf[b].txn = 0 /\ disk[b] = Recovered[b] /\ buf[b].val = Recovered[b]
    OBVIOUS
  <2>1. buf[b].txn \in Txn \cup {0}  BY DEF RecInv, DataInv, TypeOK, Buffer
  <2>2. buf[b].txn = 0
    BY <1>1, <1>2, <2>1 DEF RecInv, ControlInv, WritersRun
  <2> QED  BY <1>1, <1>5, <2>2 DEF RecoveringInv, RecoveryDone, RecInv, DataInv, CleanIsOnDisk
<1>13. PageIsBehind' /\ EndsAfterWrites' /\ RecordsAreWhole' /\ LogIsFlushedFirst' /\ CleanIsOnDisk'
  <2>1. PageIsBehind' /\ EndsAfterWrites'  BY <1>10 DEF PageIsBehind, EndsAfterWrites
  <2>2. RecordsAreWhole' /\ CleanIsOnDisk'
    BY <1>3 DEF RecInv, DataInv, RecordsAreWhole, CleanIsOnDisk
  <2>3. \A i \in (durable' + 1)..Len(log') : FALSE  BY <1>3, <1>4, <1>6
  <2>4. LogIsFlushedFirst'  BY <2>3 DEF LogIsFlushedFirst
  <2> QED  BY <2>1, <2>2, <2>4
<1>14. \A b \in Block : Recovered'[b] = Recovered[b]
  BY <1>3, <1>7, <1>11, <1>12, <1>13, RecoveredFactsNext
<1> QED  BY <1>1, <1>2, <1>5, <1>6, <1>7, <1>10, <1>12, <1>13, <1>14

LEMMA ForceCheckpointInv ==
    ASSUME RecInv, NEW t \in Txn, ForceLog(t), ending[t] = "CHECKPOINT"
    PROVE  RecInv'
<1>1. /\ t = 1 /\ state = "starting" /\ phase[1] = "force" /\ Recovering /\ RecoveringInv
      /\ \A u \in Txn : u # 1 => phase[u] = "none"
      /\ UNCHANGED <<disk, log, buf, writer, program, finished, bounds>>
      /\ durable' = Len(log) /\ StoreOK' /\ Recent' = {}
      /\ \A b \in Block : buf[b].txn = 0 /\ Recovered'[b] = Recovered[b]
      /\ PageIsBehind' /\ EndsAfterWrites' /\ RecordsAreWhole' /\ LogIsFlushedFirst' /\ CleanIsOnDisk'
  BY CheckpointForced
<1>2. Goes(1, "flush", "COMMIT", 0)  BY <1>1 DEF ForceLog, Goes
<1>3. /\ phase'[1] = "flush" /\ ending'[1] = "COMMIT" /\ cursor'[1] = 0
      /\ \A u \in Txn : u # 1 => phase'[u] = "none" /\ ending'[u] = ending[u]
  BY <1>1, <1>2, GoesFacts, OneIsTxn DEF RecInv, DataInv
<1>4. /\ log' = log /\ disk' = disk /\ buf' = buf /\ writer' = writer /\ state' = state
      /\ isNew' = isNew /\ lastTxn' = lastTxn /\ finished' = finished /\ writes' = writes
  BY <1>1 DEF program, bounds
<1>5. /\ LogTyped /\ LogTyped' /\ durable \in Nat /\ Len(log) \in Nat /\ durable <= Len(log)
  BY <1>1, TypesOfLog, LogFacts DEF RecInv, DataInv, StoreOK
<1>6. \A b : Unfinished(b)' = {} /\ \A u : EndOf(u)' = {} /\ Writes(u)' = {}
  BY <1>1 DEF Unfinished, EndOf, Writes
<1>7. DataInv'
  <2>1. TypeOK'
    <3>1. Len(log) <= Len(log') /\ 0 \in 0..Len(log')  BY <1>4, <1>5
    <3>2. 1 \in Txn /\ phase[1] # "none"  BY <1>1
    <3>3. StoreOK' /\ UNCHANGED <<state, isNew, lastTxn, writes>>
          /\ finished' \subseteq Txn /\ writer' = writer /\ buf' = buf
      BY <1>1, <1>4 DEF RecInv, DataInv, TypeOK
    <3> QED  BY <1>2, <3>1, <3>2, <3>3, GoesTyped DEF Phase, RecInv, DataInv, TypeOK
  <2>2. RecoveredIsCommitted'
    <3> SUFFICES ASSUME NEW b \in Block, NEW v, v = Recovered[b] PROVE CommittedValue(b, v)'
      BY <1>1 DEF RecoveredIsCommitted
    <3>1. CommittedValue(b, v)  BY DEF RecInv, DataInv, RecoveredIsCommitted
    <3> QED  BY <1>1, <1>4, <1>5, <3>1, CommittedValueKept
  <2> QED  BY <1>1, <2>1, <2>2 DEF DataInv
<1>8. ControlInv'
  <2>1. WritersRun'  BY <1>1, <1>3, <1>4 DEF RecInv, ControlInv, WritersRun
  <2>2. \A j \in (durable' + 1)..Len(log') : FALSE  BY <1>1, <1>4, <1>5
  <2>3. CheckpointsOnDisk'  BY <2>2 DEF CheckpointsOnDisk
  <2>4. ProgramState'
    BY <1>1, <1>3, <1>4 DEF RecInv, ControlInv, ProgramState
  <2> QED  BY <2>1, <2>3, <2>4 DEF ControlInv
<1>9. Serving' /\ ~Recovering'  BY <1>1, <1>3, <1>4 DEF Serving, Recovering
<1>10. ServingInv'
  <2>1. ASSUME NEW b \in Block PROVE BlockInv(b)'
    BY <1>1, <1>4, <1>6, OneIsTxn DEF BlockInv, WriterHolds, DirtyHasWrite, ValuesKnown
  <2>2. ASSUME NEW u \in Txn PROVE TxnInv(u)'
    <3>1. NoEndYet(u)' /\ NoRecordYet(u)' /\ NoSecondStart(u)' /\ RolledBack(u)' /\ UndoneSoFar(u)'
      BY <1>1, <1>6 DEF NoEndYet, NoRecordYet, NoSecondStart, RolledBack, UndoneSoFar
    <3>2. EndIsForced(u)'  BY <1>3, <1>6 DEF EndIsForced
    <3>3. Begun(u)'
      <4>1. CASE u = 1
        BY <1>1, <1>4, <4>1 DEF Begun, RecoveringInv, RecoveryBegun, IsEnd, Record
      <4>2. CASE u # 1  BY <1>3, <4>2 DEF Begun
      <4> QED  BY <4>1, <4>2
    <3> QED  BY <3>1, <3>2, <3>3 DEF TxnInv
  <2> QED  BY <2>1, <2>2 DEF ServingInv
<1> QED  BY <1>7, <1>8, <1>9, <1>10 DEF RecInv

-----------------------------------------------------------------------------
(* Recovery *)

LEMMA RecoverFlushes == ASSUME RecInv, Recover PROVE FlushStep /\ StoreOK'
<1>1. durable' \in durable..Len(log)  BY TypesOfLog, LogFacts DEF Recover, RecInv, DataInv
<1> QED  BY <1>1, LogFlushes DEF Recover

LEMMA RecoverInv == ASSUME RecInv, Recover PROVE RecInv'
<1>1. /\ state = "starting" /\ ~isNew /\ phase[1] = "active" /\ durable' = Len(log)
      /\ finished = {} /\ Recovering
      /\ UNCHANGED <<disk, log, buf, writer, program, finished, bounds>>
  BY DEF Recover, RecInv, ControlInv, ProgramState, Recovering
<1>2. Goes(1, "recover", "CHECKPOINT", Len(log))  BY DEF Recover, Goes
<1>3. /\ phase'[1] = "recover" /\ ending'[1] = "CHECKPOINT" /\ cursor'[1] = Len(log)
      /\ \A u \in Txn : u # 1 => phase[u] = "none" /\ phase'[u] = "none"
                                 /\ ending'[u] = ending[u]
  BY <1>1, <1>2, GoesFacts, OneIsTxn, StartingAlone DEF RecInv, DataInv
<1>4. /\ log' = log /\ disk' = disk /\ buf' = buf /\ writer' = writer /\ state' = state
      /\ isNew' = isNew /\ lastTxn' = lastTxn /\ finished' = finished /\ writes' = writes
  BY <1>1 DEF program, bounds
<1>5. StoreOK /\ LogTyped /\ durable \in Nat /\ Len(log) \in Nat /\ durable <= Len(log)
  BY TypeParts, TypesOfLog, LogFacts DEF RecInv, DataInv
<1>6. RecoveringInv /\ \A b \in Block : buf[b].txn = 0 /\ writer[b] = 0
  BY <1>1 DEF RecInv, RecoveringInv, NotYetRecovered
<1>7. FlushStep /\ StoreOK'  BY RecoverFlushes
<1>8. DataInv'
  <2>1. TypeOK'
    <3>1. Len(log) <= Len(log') /\ Len(log) \in 0..Len(log')  BY <1>4, <1>5
    <3>2. 1 \in Txn /\ phase[1] # "none"  BY <1>1, OneIsTxn
    <3> QED  BY <1>2, <1>4, <1>7, <3>1, <3>2, GoesTyped DEF Phase, RecInv, DataInv, TypeOK
  <2> QED  BY <1>1, <1>7, <2>1, FlushKeepsData DEF DataInv
<1>9. \A j \in (durable' + 1)..Len(log') : FALSE  BY <1>1, <1>4, <1>5
<1>10. ControlInv'
  <2>1. WritersRun'  BY <1>3, <1>4, <1>6, OneIsTxn DEF WritersRun
  <2>2. CheckpointsOnDisk'  BY <1>9 DEF CheckpointsOnDisk
  <2>3. ProgramState'
    BY <1>1, <1>3, <1>4 DEF RecInv, ControlInv, ProgramState
  <2> QED  BY <2>1, <2>2, <2>3 DEF ControlInv
<1>11. ~Serving' /\ Recovering'  BY <1>1, <1>3, <1>4 DEF Serving, Recovering
<1>12. RecoveringInv'
  <2>1. RecoveryBegun'  BY <1>1, <1>7, FlushRecovering
  <2>2. RecoveryTail'  BY <1>1, <1>4, <1>9 DEF RecoveryTail
  <2>3. NotYetRecovered' /\ RecoveryDone'  BY <1>3 DEF NotYetRecovered, RecoveryDone
  <2>4. LastCheckpoint' <= cursor'[1]
    <3>1. LastCheckpoint' \in 0..durable'  BY <1>7, CheckpointFactsNext DEF StoreOK
    <3> QED  BY <1>1, <1>3, <1>5, <3>1
  <2>5. \A k \in (cursor'[1] + 1)..Len(log') : FALSE  BY <1>3, <1>4, <1>5
  <2>6. ASSUME NEW b, NEW i \in Unfinished(b)' PROVE ~(i > cursor'[1])
    <3>1. i \in Recent'  BY DEF Unfinished
    <3>2. i \in 1..Len(log)  BY <1>5, <1>7, <3>1, FlushGrows, GrowthFacts
    <3> QED  BY <1>3, <1>5, <3>2
  <2>7. RecoveredSoFar'
    BY <1>1, <1>4, <1>6, <2>4, <2>5, <2>6 DEF RecoveredSoFar
  <2> QED  BY <1>3, <2>1, <2>2, <2>3, <2>7 DEF RecoveringInv
<1> QED  BY <1>8, <1>10, <1>11, <1>12 DEF RecInv

LEMMA RecoverDoneInv == ASSUME RecInv, RecoverDone PROVE RecInv'
<1>1. /\ phase[1] = "recover" /\ ending[1] = "CHECKPOINT" /\ state = "starting" /\ Recovering
      /\ (cursor[1] > 0 => log[cursor[1]].op = "CHECKPOINT") /\ finished' = {}
      /\ UNCHANGED <<durables, buf, writer, program, ending, bounds>>
  BY OneIsTxn DEF RecoverDone, RecInv, ControlInv, ProgramState, Recovering
<1>2. Goes(1, "flush", "CHECKPOINT", 0)
  BY <1>1, OneIsTxn DEF RecoverDone, Goes, RecInv, DataInv, TypeOK
<1>3. /\ phase'[1] = "flush" /\ ending'[1] = "CHECKPOINT" /\ cursor'[1] = 0
      /\ \A u \in Txn : u # 1 => phase[u] = "none" /\ phase'[u] = "none"
                                 /\ ending'[u] = ending[u]
  BY <1>1, <1>2, GoesFacts, OneIsTxn, StartingAlone DEF RecInv, DataInv
<1>4. /\ log' = log /\ disk' = disk /\ durable' = durable /\ buf' = buf /\ writer' = writer
      /\ state' = state /\ isNew' = isNew /\ lastTxn' = lastTxn /\ writes' = writes
  BY <1>1 DEF durables, program, bounds
<1>5. LogTyped /\ durable \in Nat /\ Len(log) \in Nat /\ durable <= Len(log)
      /\ cursor[1] \in 0..Len(log)
  BY TypesOfLog, LogFacts, OneIsTxn DEF RecInv, DataInv, TypeOK
<1>6. RecoveringInv /\ durable = Len(log) /\ LastCheckpoint <= cursor[1]
  BY <1>1 DEF RecInv, RecoveringInv, RecoveryTail, RecoveredSoFar
<1>7. FlushStep /\ StoreOK'  BY <1>1, NothingFlushed
<1>8. DataInv'
  <2>1. TypeOK'
    <3>1. Len(log) <= Len(log') /\ 0 \in 0..Len(log')  BY <1>4, <1>5
    <3>2. 1 \in Txn /\ phase[1] # "none"  BY <1>1, OneIsTxn
    <3> QED  BY <1>1, <1>2, <1>4, <1>7, <3>1, <3>2, GoesTyped DEF Phase, RecInv, DataInv, TypeOK
  <2> QED  BY <1>1, <1>7, <2>1, FlushKeepsData DEF DataInv
<1>9. ControlInv'
  <2>1. WritersRun'  BY <1>1, <1>3, <1>4 DEF RecInv, ControlInv, WritersRun
  <2>2. CheckpointsOnDisk'  BY <1>1, <1>4 DEF RecInv, ControlInv, CheckpointsOnDisk
  <2>3. ProgramState'
    BY <1>1, <1>3, <1>4 DEF RecInv, ControlInv, ProgramState
  <2> QED  BY <2>1, <2>2, <2>3 DEF ControlInv
<1>10. ~Serving' /\ Recovering'  BY <1>1, <1>3, <1>4 DEF Serving, Recovering
<1>11. cursor[1] = LastCheckpoint
  <2>1. LastCheckpoint \in 0..durable
        /\ \A i \in (LastCheckpoint + 1)..durable : log[i].op # "CHECKPOINT"
    BY <1>5, CheckpointFacts
  <2>2. LastCheckpoint < cursor[1] => cursor[1] > 0 /\ cursor[1] \in (LastCheckpoint + 1)..durable
    BY <1>5, <1>6, <2>1
  <2> QED  BY <1>1, <1>5, <1>6, <2>1, <2>2
<1>12. \A b \in Block : buf[b].val = Recovered[b]
  <2> SUFFICES ASSUME NEW b \in Block PROVE buf[b].val = Recovered[b]  OBVIOUS
  <2>1. CASE Unfinished(b) = {}  BY <1>1, <2>1, NothingToUndo
  <2>2. CASE Unfinished(b) # {}
    <3>1. PICK i \in Recent : First(i, b)
      BY <1>5, <2>2, RecoveredFacts DEF RecInv, DataInv
    <3>2. i \in Unfinished(b) /\ i > cursor[1] /\ \A k \in Unfinished(b) : i <= k
      <4>1. i \in (cursor[1] + 1)..Len(log)  BY <1>11, <3>1 DEF Recent
      <4>2. i > cursor[1]  BY <1>5, <4>1
      <4> QED  BY <3>1, <4>2 DEF First
    <3>3. buf[b].val = log[i].val  BY <1>1, <1>6, <3>2 DEF RecoveringInv, RecoveredSoFar
    <3> QED  BY <1>5, <3>1, <3>3, RecoveredFacts DEF RecInv, DataInv
  <2> QED  BY <2>1, <2>2
<1>13. RecoveringInv'
  <2>1. RecoveryBegun' /\ \A b \in Block : Recovered'[b] = Recovered[b]
    BY <1>1, <1>7, FlushRecovering
  <2>2. RecoveryTail'  BY <1>4, <1>6 DEF RecoveringInv, RecoveryTail
  <2>3. NotYetRecovered' /\ RecoveredSoFar'  BY <1>3 DEF NotYetRecovered, RecoveredSoFar
  <2>4. RecoveryDone'  BY <1>3, <1>4, <1>12, <2>1 DEF RecoveryDone
  <2> QED  BY <1>3, <2>1, <2>2, <2>3, <2>4 DEF RecoveringInv
<1> QED  BY <1>8, <1>9, <1>10, <1>13 DEF RecInv

(* A write to a buffer that is not logged.                                   *)
LEMMA ModifiedBuffer ==
    ASSUME TypeOK, NEW b \in Block, NEW v \in Val, NEW t \in Txn, Modify(b, v, t, buf[b].lsn)
    PROVE  /\ buf' \in [Block -> Buffer] /\ writer' \in [Block -> Txn \cup {0}]
           /\ buf'[b].val = v /\ buf'[b].txn = t /\ buf'[b].lsn = buf[b].lsn /\ writer'[b] = t
           /\ \A c \in Block : c # b => buf'[c] = buf[c] /\ writer'[c] = writer[c]
<1>1. buf \in [Block -> Buffer] /\ writer \in [Block -> Txn \cup {0}]  BY DEF TypeOK
<1>2. [val |-> v, txn |-> t, lsn |-> buf[b].lsn] \in Buffer  BY <1>1 DEF Buffer
<1>3. buf' \in [Block -> Buffer] /\ buf'[b] = [val |-> v, txn |-> t, lsn |-> buf[b].lsn]
      /\ \A c \in Block : c # b => buf'[c] = buf[c]
  BY <1>1, <1>2 DEF Modify
<1>4. /\ writer' \in [Block -> Txn \cup {0}] /\ writer'[b] = t
      /\ \A c \in Block : c # b => writer'[c] = writer[c]
  BY <1>1 DEF Modify
<1> QED  BY <1>3, <1>4

(* Such a write leaves the log and the disk alone. *)
LEMMA ModifyKeepsData ==
    ASSUME RecInv, UNCHANGED durables, NEW b \in Block,
           buf' \in [Block -> Buffer], buf'[b].txn # 0, buf'[b].lsn = buf[b].lsn,
           \A c \in Block : c # b => buf'[c] = buf[c]
    PROVE  /\ StoreOK' /\ LogGrows /\ Recent' = Recent
           /\ \A u : EndOf(u)' = EndOf(u) /\ Writes(u)' = Writes(u)
           /\ \A c : Unfinished(c)' = Unfinished(c)
           /\ Recovered' = Recovered
           /\ EndsAfterWrites' /\ RecordsAreWhole' /\ PageIsBehind' /\ LogIsFlushedFirst'
           /\ CleanIsOnDisk' /\ RecoveredIsCommitted'
<1>1. disk' = disk /\ log' = log /\ durable' = durable  BY DEF durables
<1>2. StoreOK /\ LogTyped /\ Len(log) \in Nat  BY TypeParts, TypesOfLog, LogFacts DEF RecInv, DataInv
<1>3. StoreOK'
  <2>1. \A c \in Block : buf'[c].lsn <= Len(log)  BY <1>2 DEF StoreOK
  <2> QED  BY <1>1, <1>2, <2>1 DEF StoreOK, LogTyped
<1>4. LogTyped' /\ LastCheckpoint' = LastCheckpoint /\ Finished' = Finished /\ Recovered' = Recovered
  BY <1>1, <1>2, <1>3, PrefixKept DEF StoreOK
<1>5. LogGrows  BY <1>1, <1>2, <1>4, LogFacts DEF LogGrows
<1>6. Recent' = Recent  BY <1>1, <1>4 DEF Recent
<1>7. /\ \A u : EndOf(u)' = EndOf(u) /\ Writes(u)' = Writes(u)
      /\ \A c : Unfinished(c)' = Unfinished(c)
  BY <1>1, <1>4, <1>6 DEF EndOf, Writes, Unfinished, IsEnd
<1>8. EndsAfterWrites' /\ RecordsAreWhole'
  BY <1>1, <1>6 DEF RecInv, DataInv, EndsAfterWrites, RecordsAreWhole, IsEnd
<1>9. PageIsBehind'  BY <1>1, <1>6, <1>7 DEF RecInv, DataInv, PageIsBehind, First
<1>10. LogIsFlushedFirst'
  <2>1. \A c \in Block : buf'[c].lsn = buf[c].lsn  OBVIOUS
  <2>2. \A i \in (durable + 1)..Len(log) : log[i].op = "SET" => log[i].block \in Block
    <3> SUFFICES ASSUME NEW i \in (durable + 1)..Len(log), log[i].op = "SET"
                 PROVE  log[i].block \in Block
      OBVIOUS
    <3>1. i \in 1..Len(log)  BY <1>2, LogFacts
    <3> QED  BY <3>1 DEF RecInv, DataInv, RecordsAreWhole
  <2> QED  BY <1>1, <2>1, <2>2 DEF RecInv, DataInv, LogIsFlushedFirst
<1>11. CleanIsOnDisk'  BY <1>1 DEF RecInv, DataInv, CleanIsOnDisk
<1>12. RecoveredIsCommitted'
  <2>1. \A i : CommitOf(i)' = CommitOf(i)  BY <1>1, Zenon DEF CommitOf
  <2>2. \A c \in Block : CommittedValue(c, Recovered[c])
    BY DEF RecInv, DataInv, RecoveredIsCommitted
  <2>3. \A c \in Block : CommittedValue(c, Recovered[c])'
    BY <1>1, <1>4, <2>1, <2>2, Zenon DEF CommittedValue
  <2> QED  BY <2>3 DEF RecoveredIsCommitted
<1> QED  BY <1>3, <1>5, <1>6, <1>7, <1>4, <1>8, <1>9, <1>10, <1>11, <1>12

(* Where the loop of DoRecover is.                                           *)
LEMMA RecoveryCursor ==
    ASSUME RecInv, RecoverNext
    PROVE  /\ cursor[1] \in Recent /\ cursor[1] - 1 \in 0..Len(log)
           /\ LastCheckpoint <= cursor[1] - 1
           /\ durable = Len(log) /\ state = "starting" /\ ending[1] = "CHECKPOINT" /\ Recovering
           /\ \A u : u \in Finished <=> \E j \in EndOf(u) : TRUE
           /\ \A u \in Txn : u # 1 => phase[u] = "none"
<1>1. /\ phase[1] = "recover" /\ cursor[1] > 0 /\ log[cursor[1]].op # "CHECKPOINT"
      /\ ending[1] = "CHECKPOINT" /\ state = "starting" /\ Recovering
  BY OneIsTxn DEF RecoverNext, RecInv, ControlInv, ProgramState, Recovering
<1>2. RecoveringInv /\ durable = Len(log) /\ LastCheckpoint <= cursor[1]
  BY <1>1 DEF RecInv, RecoveringInv, RecoveryTail, RecoveredSoFar
<1>3. LogTyped /\ Len(log) \in Nat /\ cursor[1] \in 0..Len(log)
  BY TypesOfLog, LogFacts, OneIsTxn DEF RecInv, DataInv, TypeOK
<1>4. LastCheckpoint \in 0..durable /\ (LastCheckpoint = 0 \/ log[LastCheckpoint].op = "CHECKPOINT")
  BY <1>3, CheckpointFacts
<1>5. LastCheckpoint # cursor[1]  BY <1>1, <1>3, <1>4
<1>6. cursor[1] \in Recent  BY <1>2, <1>3, <1>4, <1>5 DEF Recent
<1>7. cursor[1] - 1 \in 0..Len(log) /\ LastCheckpoint <= cursor[1] - 1
  BY <1>1, <1>2, <1>3, <1>4, <1>5
<1>8. ASSUME NEW u PROVE u \in Finished <=> \E j \in EndOf(u) : TRUE
  <2>1. \A j \in Recent : j <= durable
    <3> SUFFICES ASSUME NEW j \in Recent PROVE j <= durable  OBVIOUS
    <3>1. j \in (LastCheckpoint + 1)..Len(log)  BY DEF Recent
    <3> QED  BY <1>2, <1>3, <1>4, <3>1
  <2> QED  BY <1>3, <2>1, FinishedFacts DEF EndOf
<1> QED  BY <1>1, <1>2, <1>6, <1>7, <1>8, StartingAlone

LEMMA RecentPositions ==
    ASSUME LogTyped
    PROVE  Recent \subseteq 1..Len(log) /\ \A b : Unfinished(b) \subseteq 1..Len(log)
<1>1. Len(log) \in Nat /\ durable \in Nat  BY LogFacts
<1>2. LastCheckpoint \in 0..durable  BY CheckpointFacts
<1>3. Recent \subseteq 1..Len(log)  BY <1>1, <1>2 DEF Recent
<1> QED  BY <1>3 DEF Unfinished

(* A record that is no write to undo is passed.                              *)
LEMMA RecoverPasses ==
    ASSUME RecInv, RecoverNext, NEW r, r = log[cursor[1]], UNCHANGED <<buf, writer>>,
           \/ r.op \in {"COMMIT", "ROLLBACK"} /\ finished' = finished \cup {r.txn}
           \/ r.op = "START" /\ finished' = finished
           \/ r.op = "SET" /\ r.txn \in finished /\ finished' = finished
    PROVE  RecInv'
<1> DEFINE n == cursor[1]
<1>1. /\ phase[1] = "recover" /\ n \in Recent /\ n - 1 \in 0..Len(log) /\ LastCheckpoint <= n - 1
      /\ durable = Len(log) /\ state = "starting" /\ ending[1] = "CHECKPOINT" /\ Recovering
      /\ \A u : u \in Finished <=> \E j \in EndOf(u) : TRUE
      /\ \A u \in Txn : u # 1 => phase[u] = "none"
      /\ UNCHANGED <<durables, program, bounds>>
  BY RecoveryCursor DEF RecoverNext
<1>2. /\ log' = log /\ disk' = disk /\ durable' = durable /\ state' = state
      /\ isNew' = isNew /\ lastTxn' = lastTxn /\ writes' = writes
      /\ buf' = buf /\ writer' = writer
  BY <1>1 DEF durables, program, bounds
<1>3. Goes(1, "recover", "CHECKPOINT", n - 1)
  BY <1>1, OneIsTxn DEF RecoverNext, Goes, RecInv, DataInv, TypeOK
<1>4. /\ phase'[1] = "recover" /\ ending'[1] = "CHECKPOINT" /\ cursor'[1] = n - 1
      /\ \A u \in Txn : u # 1 => phase'[u] = "none" /\ ending'[u] = ending[u]
  BY <1>1, <1>3, GoesFacts, OneIsTxn DEF RecInv, DataInv
<1>5. /\ LogTyped /\ Len(log) \in Nat /\ n \in 1..Len(log) /\ r \in LogRecord /\ RecoveringInv
      /\ \A c : \A i \in Unfinished(c) : i \in Int
  <2>1. LogTyped /\ Len(log) \in Nat  BY TypesOfLog, LogFacts DEF RecInv, DataInv
  <2>2. n \in 1..Len(log)  BY <1>1, <2>1, RecentPositions
  <2> QED  BY <1>1, <2>1, <2>2, LogFacts, RecentPositions DEF RecInv
<1>6. FlushStep /\ StoreOK'
  BY <1>1, <1>2, NothingFlushed DEF durables
<1>7. /\ Recent' = Recent /\ LastCheckpoint' = LastCheckpoint
      /\ \A c \in Block : Unfinished(c)' = Unfinished(c)
      /\ RecoveryBegun'
  BY <1>1, <1>6, FlushGrows, FlushRecovering DEF LogGrows
<1>8. finished = {log[j].txn : j \in {k \in (n + 1)..Len(log) : IsEnd(k)}}
  BY <1>1, <1>5 DEF RecoveringInv, RecoveredSoFar
<1>9. finished' = {log[j].txn : j \in {k \in ((n - 1) + 1)..Len(log) : IsEnd(k)}}
  <2>1. CASE IsEnd(n)
    <3>1. finished' = finished \cup {log[n].txn}  BY <2>1 DEF IsEnd
    <3>2. {k \in ((n - 1) + 1)..Len(log) : IsEnd(k)}
             = {k \in (n + 1)..Len(log) : IsEnd(k)} \cup {n}
      BY <1>5, <2>1
    <3> QED  BY <1>8, <3>1, <3>2
  <2>2. CASE ~IsEnd(n)
    <3>1. finished' = finished  BY <2>2 DEF IsEnd
    <3>2. {k \in ((n - 1) + 1)..Len(log) : IsEnd(k)} = {k \in (n + 1)..Len(log) : IsEnd(k)}
      BY <1>5, <2>2
    <3> QED  BY <1>8, <3>1, <3>2
  <2> QED  BY <2>1, <2>2
<1>10. \A c : n \notin Unfinished(c)
  <2> SUFFICES ASSUME r.op = "SET", r.txn \in finished PROVE r.txn \in Finished
    BY DEF Unfinished
  <2>1. PICK j \in (n + 1)..Len(log) : IsEnd(j) /\ log[j].txn = r.txn  BY <1>8
  <2>2. LastCheckpoint \in 0..durable  BY <1>5, CheckpointFacts
  <2>3. j \in Recent  BY <1>1, <1>5, <2>1, <2>2 DEF Recent
  <2> QED  BY <1>1, <2>1, <2>3 DEF EndOf
<1>11. DataInv'
  <2>1. Len(log) <= Len(log') /\ n - 1 \in 0..Len(log')  BY <1>1, <1>2, <1>5
  <2>2. 1 \in Txn /\ phase[1] # "none" /\ finished' \subseteq Txn
    <3>1. finished \subseteq Txn /\ 1 \in Txn  BY OneIsTxn DEF RecInv, DataInv, TypeOK
    <3>2. r.txn \in Txn  BY <1>1, <1>5 DEF RecoverNext, RecInv, DataInv, RecordsAreWhole
    <3> QED  BY <1>1, <3>1, <3>2
  <2>3. \A c \in Block : buf'[c].txn # 0 => writer'[c] = buf'[c].txn
    BY <1>2 DEF RecInv, DataInv, TypeOK
  <2>4. "recover" \in Phase /\ "recover" # "none"  BY DEF Phase
  <2>5. writer' \in [Block -> Txn \cup {0}]  BY <1>2 DEF RecInv, DataInv, TypeOK
  <2>6. TypeOK'  BY <1>2, <1>3, <1>6, <2>1, <2>2, <2>3, <2>4, <2>5, GoesTyped
  <2> QED  BY <1>1, <1>6, <2>6, FlushKeepsData DEF DataInv
<1>12. ControlInv'
  <2>1. WritersRun'  BY <1>1, <1>2, <1>4 DEF RecInv, ControlInv, WritersRun
  <2>2. CheckpointsOnDisk'  BY <1>1, <1>2 DEF RecInv, ControlInv, CheckpointsOnDisk
  <2>3. ProgramState'
    BY <1>1, <1>2, <1>4 DEF RecInv, ControlInv, ProgramState
  <2> QED  BY <2>1, <2>2, <2>3 DEF ControlInv
<1>13. ~Serving' /\ Recovering'  BY <1>1, <1>2, <1>4 DEF Serving, Recovering
<1>14. RecoveredSoFar'
  <2>1. finished' = {log'[j].txn : j \in {k \in (cursor'[1] + 1)..Len(log') : IsEnd(k)'}}
    BY <1>2, <1>4, <1>9 DEF IsEnd
  <2>2. ASSUME NEW c \in Block, \A i \in Unfinished(c) : i <= n - 1 PROVE buf'[c].txn = 0
    <3>1. \A i \in Unfinished(c) : i <= n  BY <1>5, <2>2
    <3> QED  BY <1>1, <1>2, <1>5, <3>1 DEF RecoveringInv, RecoveredSoFar
  <2>3. ASSUME NEW c \in Block, NEW i \in Unfinished(c), i > n - 1,
               \A k \in Unfinished(c) : k > n - 1 => i <= k
        PROVE  buf'[c].val = log[i].val
    <3>1. i # n  BY <1>10
    <3>2. i > n  BY <1>5, <2>3, <3>1
    <3>3. \A k \in Unfinished(c) : k > n => i <= k  BY <1>5, <2>3
    <3> QED  BY <1>1, <1>2, <1>5, <3>2, <3>3 DEF RecoveringInv, RecoveredSoFar
  <2> QED  BY <1>1, <1>2, <1>4, <1>7, <2>1, <2>2, <2>3 DEF RecoveredSoFar
<1>15. RecoveringInv'
  <2>1. RecoveryTail'  BY <1>1, <1>2, <1>4, <1>5 DEF RecoveringInv, RecoveryTail
  <2>2. NotYetRecovered' /\ RecoveryDone'  BY <1>4 DEF NotYetRecovered, RecoveryDone
  <2> QED  BY <1>4, <1>7, <1>14, <2>1, <2>2 DEF RecoveringInv
<1> QED  BY <1>11, <1>12, <1>13, <1>15 DEF RecInv

LEMMA RecoverUndoes ==
    ASSUME RecInv, RecoverNext, NEW r, r = log[cursor[1]], r.op = "SET", r.txn \notin finished,
           Modify(r.block, r.val, 1, buf[r.block].lsn), UNCHANGED finished
    PROVE  RecInv'
<1> DEFINE n == cursor[1]
<1>1. /\ phase[1] = "recover" /\ n \in Recent /\ n - 1 \in 0..Len(log) /\ LastCheckpoint <= n - 1
      /\ durable = Len(log) /\ state = "starting" /\ ending[1] = "CHECKPOINT" /\ Recovering
      /\ \A u : u \in Finished <=> \E j \in EndOf(u) : TRUE
      /\ \A u \in Txn : u # 1 => phase[u] = "none"
      /\ UNCHANGED <<durables, program, bounds>>
  BY RecoveryCursor DEF RecoverNext
<1>2. /\ log' = log /\ disk' = disk /\ durable' = durable /\ state' = state
      /\ isNew' = isNew /\ lastTxn' = lastTxn /\ writes' = writes /\ finished' = finished
  BY <1>1 DEF durables, program, bounds
<1>3. Goes(1, "recover", "CHECKPOINT", n - 1)
  BY <1>1, OneIsTxn DEF RecoverNext, Goes, RecInv, DataInv, TypeOK
<1>4. /\ phase'[1] = "recover" /\ ending'[1] = "CHECKPOINT" /\ cursor'[1] = n - 1
      /\ \A u \in Txn : u # 1 => phase'[u] = "none" /\ ending'[u] = ending[u]
  BY <1>1, <1>3, GoesFacts, OneIsTxn DEF RecInv, DataInv
<1>5. LogTyped /\ Len(log) \in Nat /\ n \in 1..Len(log) /\ r \in LogRecord /\ RecoveringInv
  <2>1. LogTyped /\ Len(log) \in Nat  BY TypesOfLog, LogFacts DEF RecInv, DataInv
  <2>2. LastCheckpoint \in 0..durable  BY <2>1, CheckpointFacts
  <2>3. n \in 1..Len(log)  BY <1>1, <2>1, <2>2 DEF Recent
  <2> QED  BY <1>1, <2>1, <2>3, LogFacts DEF RecInv
<1>6. r.block \in Block /\ r.val \in Val
  BY <1>5 DEF RecInv, DataInv, RecordsAreWhole, LogRecord
<1> DEFINE b == r.block
<1>7. /\ buf' \in [Block -> Buffer] /\ writer' \in [Block -> Txn \cup {0}]
      /\ buf'[b].val = r.val /\ buf'[b].txn = 1 /\ buf'[b].lsn = buf[b].lsn /\ writer'[b] = 1
      /\ \A c \in Block : c # b => buf'[c] = buf[c] /\ writer'[c] = writer[c]
  BY <1>6, OneIsTxn, ModifiedBuffer DEF RecInv, DataInv
<1>8. /\ StoreOK' /\ Recent' = Recent /\ LastCheckpoint' = LastCheckpoint
      /\ \A c : Unfinished(c)' = Unfinished(c)
      /\ EndsAfterWrites' /\ RecordsAreWhole' /\ PageIsBehind' /\ LogIsFlushedFirst'
      /\ CleanIsOnDisk' /\ RecoveredIsCommitted'
  BY <1>1, <1>6, <1>7, ModifyKeepsData DEF LogGrows
<1>9. DataInv'
  <2>1. Len(log) <= Len(log') /\ n - 1 \in 0..Len(log')  BY <1>1, <1>2, <1>5
  <2>2. 1 \in Txn /\ phase[1] # "none" /\ finished' \subseteq Txn
    BY <1>1, <1>2, OneIsTxn DEF RecInv, DataInv, TypeOK
  <2>3. \A c \in Block : buf'[c].txn # 0 => writer'[c] = buf'[c].txn
    BY <1>7 DEF RecInv, DataInv, TypeOK
  <2>4. "recover" \in Phase /\ "recover" # "none"  BY DEF Phase
  <2>5. TypeOK'  BY <1>2, <1>3, <1>7, <1>8, <2>1, <2>2, <2>3, <2>4, GoesTyped
  <2> QED  BY <1>8, <2>5 DEF DataInv
<1>10. ControlInv'
  <2>1. WritersRun'
    <3>1. ASSUME NEW u \in Txn, NEW c \in Block, buf'[c].txn = u PROVE phase'[u] = "recover"
      BY <1>1, <1>4, <1>7, <3>1 DEF RecInv, ControlInv, WritersRun
    <3>2. ASSUME NEW u \in Txn, NEW c \in Block, writer'[c] = u PROVE phase'[u] = "recover"
      BY <1>1, <1>4, <1>7, <3>2 DEF RecInv, ControlInv, WritersRun
    <3> QED  BY <3>1, <3>2 DEF WritersRun
  <2>2. CheckpointsOnDisk'  BY <1>1, <1>2 DEF RecInv, ControlInv, CheckpointsOnDisk
  <2>3. ProgramState'
    BY <1>1, <1>2, <1>4 DEF RecInv, ControlInv, ProgramState
  <2> QED  BY <2>1, <2>2, <2>3 DEF ControlInv
<1>11. ~Serving' /\ Recovering'  BY <1>1, <1>4, <1>2 DEF Serving, Recovering
<1>12. n \in Unfinished(b)
  <2>1. r.txn \notin Finished
    <3> SUFFICES ASSUME r.txn \in Finished PROVE FALSE  OBVIOUS
    <3>1. PICK j \in EndOf(r.txn) : TRUE  BY <1>1
    <3>2. j \in Recent /\ IsEnd(j) /\ log[j].txn = r.txn  BY DEF EndOf
    <3>3. n < j  BY <1>1, <3>2 DEF RecInv, DataInv, EndsAfterWrites
    <3>4. j \in 1..Len(log)  BY <1>2, <1>5, <1>8, <3>2, RecentPositions
    <3>5. j \in (n + 1)..Len(log)  BY <1>5, <3>3, <3>4
    <3> QED  BY <1>1, <1>5, <3>2, <3>5 DEF RecoveringInv, RecoveredSoFar
  <2> QED  BY <1>1, <2>1 DEF Unfinished
<1>13. RecoveredSoFar'
  <2>1. finished' = {log'[j].txn : j \in {k \in (cursor'[1] + 1)..Len(log') : IsEnd(k)'}}
    <3>1. ~IsEnd(n)  BY DEF IsEnd
    <3>2. {k \in ((n - 1) + 1)..Len(log) : IsEnd(k)} = {k \in (n + 1)..Len(log) : IsEnd(k)}
      BY <1>5, <3>1
    <3>3. finished = {log[j].txn : j \in {k \in (n + 1)..Len(log) : IsEnd(k)}}
      BY <1>1, <1>5 DEF RecoveringInv, RecoveredSoFar
    <3> QED  BY <1>2, <1>4, <3>2, <3>3 DEF IsEnd
  <2>2. \A c : \A i \in Unfinished(c) : i \in Int  BY <1>5, RecentPositions
  <2>3. ASSUME NEW c \in Block, \A i \in Unfinished(c) : i <= n - 1 PROVE buf'[c].txn = 0
    <3>1. c # b  BY <1>5, <1>12, <2>3
    <3>2. \A i \in Unfinished(c) : i <= n  BY <1>5, <2>2, <2>3
    <3> QED  BY <1>1, <1>5, <1>7, <3>1, <3>2 DEF RecoveringInv, RecoveredSoFar
  <2>4. ASSUME NEW c \in Block, NEW i \in Unfinished(c), i > n - 1,
               \A k \in Unfinished(c) : k > n - 1 => i <= k
        PROVE  buf'[c].val = log[i].val
    <3>1. CASE c = b
      <4>1. i <= n  BY <1>5, <1>12, <2>4, <3>1
      <4>2. i = n  BY <1>5, <2>2, <2>4, <4>1
      <4> QED  BY <1>7, <3>1, <4>2
    <3>2. CASE c # b
      <4>1. i # n  BY <3>2 DEF Unfinished
      <4>2. i > n  BY <1>5, <2>2, <2>4, <4>1
      <4>3. \A k \in Unfinished(c) : k > n => i <= k  BY <1>5, <2>2, <2>4
      <4>4. buf[c].val = log[i].val
        BY <1>1, <1>5, <4>2, <4>3 DEF RecoveringInv, RecoveredSoFar
      <4> QED  BY <1>7, <3>2, <4>4
    <3> QED  BY <3>1, <3>2
  <2> QED  BY <1>1, <1>2, <1>4, <1>8, <2>1, <2>3, <2>4 DEF RecoveredSoFar
<1>14. RecoveringInv'
  <2>1. RecoveryBegun' /\ RecoveryTail'
    BY <1>1, <1>2, <1>4, <1>5 DEF RecoveringInv, RecoveryBegun, RecoveryTail, IsEnd, Record, Checkpoint
  <2>2. NotYetRecovered' /\ RecoveryDone'  BY <1>4 DEF NotYetRecovered, RecoveryDone
  <2> QED  BY <1>4, <1>13, <2>1, <2>2 DEF RecoveringInv
<1> QED  BY <1>9, <1>10, <1>11, <1>14 DEF RecInv

LEMMA RecoverNextInv == ASSUME RecInv, RecoverNext PROVE RecInv'
BY RecoverPasses, RecoverUndoes DEF RecoverNext

-----------------------------------------------------------------------------
(* DoRollback *)

(* The loop finds a record of its transaction, at the latest the START       *)
(* record.                                                                   *)
LEMMA UndoFinds ==
    ASSUME RecInv, NEW t \in Txn, phase[t] = "undo",
           NEW i, i = Max({j \in 1..cursor[t] : log[j].txn = t})
    PROVE  /\ i \in Recent /\ i \in 1..cursor[t] /\ log[i].txn = t
           /\ \A j \in 1..cursor[t] : log[j].txn = t => j <= i
           /\ \E s \in 1..i : /\ log[s] = Record("START", t) /\ s \in Recent
                              /\ \A j \in s..Len(log) : log[j].txn = t /\ IsEnd(j) => j \in Recent
<1> DEFINE S == {j \in 1..cursor[t] : log[j].txn = t}
<1>1. /\ LogTyped /\ Len(log) \in Nat /\ durable \in Nat /\ cursor[t] \in 0..Len(log)
      /\ LastCheckpoint \in 0..durable
  BY TypesOfLog, LogFacts, CheckpointFacts DEF RecInv, DataInv, TypeOK
<1>2. Serving /\ t # 1
  BY DEF RecInv, ControlInv, ProgramState, Serving
<1>3. PICK s \in 1..Len(log) :
         /\ log[s] = Record("START", t) /\ s \in Recent /\ s <= cursor[t]
         /\ \A j \in s..Len(log) : log[j].txn = t /\ IsEnd(j) => j \in Recent
  BY <1>2 DEF RecInv, ServingInv, TxnInv, Begun
<1>4. s \in S /\ S \subseteq 0..Len(log)  BY <1>1, <1>3 DEF Record
<1>5. i \in S /\ \A x \in S : x <= i
  <2> HIDE DEF S
  <2>1. S # {}  BY <1>4
  <2>2. Max(S) \in S /\ \A x \in S : x <= Max(S)  BY <1>1, <1>4, <2>1, LastPosition
  <2> QED  BY <2>2 DEF S
<1>6. s <= i /\ s \in 1..i  BY <1>1, <1>4, <1>5
<1>7. i \in Recent
  <2>1. s \in (LastCheckpoint + 1)..Len(log)  BY <1>3 DEF Recent
  <2>2. i \in 1..Len(log)  BY <1>1, <1>5
  <2> QED  BY <1>1, <1>6, <2>1, <2>2 DEF Recent
<1> QED  BY <1>3, <1>5, <1>6, <1>7

(* While it runs, nothing in the log has ended it, and its writes are its   *)
(* alone.                                                                   *)
LEMMA UndoOwns ==
    ASSUME RecInv, NEW t \in Txn, phase[t] = "undo"
    PROVE  /\ state = "open" /\ phase[1] = "ended" /\ t # 1 /\ ending[t] = "ROLLBACK"
           /\ finished = {} /\ Serving /\ TxnInv(t) /\ EndOf(t) = {}
           /\ \A k \in Writes(t), b \in Block : log[k].block = b => k \in Unfinished(b)
           /\ \A k \in Writes(t) : k \in 1..Len(log)
           /\ \A b \in Block : \A k \in Unfinished(b) : writer[b] = log[k].txn
           /\ \A u \in Txn, b \in Block : \A k \in Writes(u) :
                 EndOf(u) = {} /\ log[k].block = b => writer[b] = u
<1>1. /\ state = "open" /\ phase[1] = "ended" /\ t # 1 /\ ending[t] = "ROLLBACK" /\ finished = {}
      /\ Serving
  BY DEF RecInv, ControlInv, ProgramState, Serving
<1>2. TxnInv(t) /\ EndOf(t) = {}  BY <1>1 DEF RecInv, ServingInv, TxnInv, NoEndYet
<1>3. LogTyped /\ \A u : EndOf(u) = {} => u \notin Finished
  BY TypesOfLog, FinishedFacts DEF RecInv, DataInv
<1>4. \A u, b : \A k \in Writes(u) :
         EndOf(u) = {} /\ log[k].block = b => k \in Unfinished(b) /\ log[k].txn = u
  BY <1>3 DEF Writes, Unfinished
<1>5. \A b \in Block : \A k \in Unfinished(b) : writer[b] = log[k].txn
  BY <1>1 DEF RecInv, ServingInv, BlockInv, WriterHolds
<1>6. \A k \in Writes(t) : k \in 1..Len(log)  BY <1>3, RecentPositions DEF Writes
<1> QED  BY <1>1, <1>2, <1>4, <1>5, <1>6

LEMMA UndoEndsInv ==
    ASSUME RecInv, NEW t \in Txn, phase[t] = "undo", UNCHANGED <<buf, writer>>,
           NEW i, i = Max({j \in 1..cursor[t] : log[j].txn = t}), log[i].op = "START",
           phase' = [phase EXCEPT ![t] = "flush"], cursor' = [cursor EXCEPT ![t] = 0],
           UNCHANGED <<durables, program, ending, finished, bounds>>
    PROVE  RecInv'
<1>1. /\ state = "open" /\ phase[1] = "ended" /\ t # 1 /\ ending[t] = "ROLLBACK"
      /\ finished = {} /\ Serving /\ TxnInv(t) /\ EndOf(t) = {}
      /\ \A k \in Writes(t), b \in Block : log[k].block = b => k \in Unfinished(b)
      /\ \A k \in Writes(t) : k \in 1..Len(log)
  BY UndoOwns
<1>2. Goes(t, "flush", "ROLLBACK", 0)  BY <1>1 DEF Goes, RecInv, DataInv, TypeOK
<1>3. /\ phase'[t] = "flush" /\ ending'[t] = "ROLLBACK" /\ cursor'[t] = 0
      /\ \A u \in Txn : u # t => /\ phase'[u] = phase[u] /\ ending'[u] = ending[u]
                                 /\ cursor'[u] = cursor[u]
  BY <1>2, GoesFacts DEF RecInv, DataInv
<1>4. FlushStep /\ StoreOK'  BY NothingFlushed
<1>5. /\ log' = log /\ durable' = durable /\ buf' = buf /\ writer' = writer /\ state' = state
      /\ isNew' = isNew /\ lastTxn' = lastTxn /\ finished' = finished /\ writes' = writes
  BY DEF durables, program, bounds
<1>6. Serving /\ Serving' /\ ~Recovering'  BY <1>1, <1>5 DEF Serving, Recovering
<1>7. /\ LogTyped /\ Len(log) \in Nat /\ cursor[t] \in 0..Len(log)
  BY TypesOfLog, LogFacts DEF RecInv, DataInv, TypeOK
<1>8. DataInv'
  <2>1. TypeOK'
    <3>1. Len(log) <= Len(log') /\ 0 \in 0..Len(log')  BY <1>5, <1>7
    <3> QED  BY ZenonT(60), <1>2, <1>4, <1>5, <3>1, GoesTyped DEF Phase, RecInv, DataInv, TypeOK
  <2> QED  BY <1>1, <1>4, <2>1, FlushKeepsData DEF DataInv
<1>9. ControlInv'
  <2>1. WritersRun'  BY <1>3, <1>5 DEF RecInv, ControlInv, WritersRun
  <2>2. CheckpointsOnDisk'  BY <1>1, <1>3, <1>5, OneIsTxn DEF RecInv, ControlInv, CheckpointsOnDisk
  <2>3. ProgramState'
    BY <1>1, <1>3, <1>5, OneIsTxn DEF RecInv, ControlInv, ProgramState
  <2> QED  BY <2>1, <2>2, <2>3 DEF ControlInv
<1>10. ServingInv'
  <2>1. /\ EndOf(t)' = EndOf(t) /\ Writes(t)' = Writes(t) /\ Recent' = Recent
    BY <1>4, FlushGrows
  <2>2. NoEndYet(t)' /\ NoRecordYet(t)' /\ EndIsForced(t)' /\ UndoneSoFar(t)'
    BY <1>1, <1>3, <2>1 DEF NoEndYet, NoRecordYet, EndIsForced, UndoneSoFar
  <2>3. Begun(t)' /\ NoSecondStart(t)'
    BY <1>1, <1>3, <1>5, <2>1 DEF TxnInv, Begun, NoSecondStart, Record, IsEnd
  <2>4. \A k \in Writes(t) : k > cursor[t]
    <3> SUFFICES ASSUME NEW k \in Writes(t), ~(k > cursor[t]) PROVE FALSE  OBVIOUS
    <3>1. k \in 1..Len(log) /\ log[k].txn = t /\ log[k].op = "SET"  BY <1>1 DEF Writes
    <3>2. k \in 1..cursor[t]  BY <1>7, <3>1
    <3>3. k <= i /\ i \in 1..cursor[t]  BY <3>1, <3>2, UndoFinds
    <3>4. i \in k..Len(log)  BY <1>7, <3>1, <3>3
    <3> QED  BY <1>1, <3>3, <3>4, UndoFinds DEF TxnInv, NoSecondStart
  <2>5. RolledBack(t)'
    <3> SUFFICES ASSUME NEW b \in Block, NEW k \in Writes(t), First(k, b)'
                 PROVE  buf[b].val = log[k].val
      BY <1>5, <2>1 DEF RolledBack
    <3>1. Unfinished(b)' = Unfinished(b)  BY <1>1, <1>4, FlushSplits DEF First
    <3>2. log[k].block = b /\ \A m \in Unfinished(b) : k <= m
      BY <3>1 DEF First, Unfinished
    <3>3. ASSUME NEW m \in Writes(t), m < k PROVE log[m].block # b
      <4>1. m \in Int /\ k \in Int  BY <1>1
      <4> QED  BY <1>1, <3>2, <3>3, <4>1
    <3> QED  BY <1>1, <2>4, <3>2, <3>3 DEF TxnInv, UndoneSoFar
  <2>6. TxnInv(t)'  BY <2>2, <2>3, <2>5 DEF TxnInv
  <2> QED  BY <1>2, <1>4, <1>5, <1>6, <2>6, ServingActor
<1> QED  BY <1>6, <1>8, <1>9, <1>10 DEF RecInv

(* It undoes the write to b in record i, which found v.                      *)
Undoes(t, i, b, v) ==
    /\ phase[t] = "undo"
    /\ i = Max({j \in 1..cursor[t] : log[j].txn = t})
    /\ log[i].op = "SET" /\ b = log[i].block /\ v = log[i].val
    /\ Modify(b, v, t, buf[b].lsn)
    /\ cursor' = [cursor EXCEPT ![t] = i - 1]
    /\ UNCHANGED <<phase, durables, program, ending, finished, bounds>>

LEMMA UndoWriteInv ==
    ASSUME RecInv, NEW t \in Txn, NEW i, NEW b, NEW v, Undoes(t, i, b, v)
    PROVE  RecInv'
<1>0. phase[t] = "undo" /\ log[i].op = "SET" /\ b = log[i].block /\ v = log[i].val
  BY DEF Undoes
<1>1. /\ state = "open" /\ phase[1] = "ended" /\ t # 1 /\ ending[t] = "ROLLBACK"
      /\ finished = {} /\ Serving /\ TxnInv(t) /\ EndOf(t) = {}
      /\ \A k \in Writes(t), c \in Block : log[k].block = c => k \in Unfinished(c)
      /\ \A k \in Writes(t) : k \in 1..Len(log)
      /\ \A c \in Block : \A k \in Unfinished(c) : writer[c] = log[k].txn
      /\ \A u \in Txn, c \in Block : \A k \in Writes(u) :
            EndOf(u) = {} /\ log[k].block = c => writer[c] = u
  BY <1>0, UndoOwns
<1>2. Goes(t, "undo", "ROLLBACK", i - 1)  BY <1>1 DEF Undoes, Goes, RecInv, DataInv, TypeOK
<1>3. /\ phase'[t] = "undo" /\ ending'[t] = "ROLLBACK" /\ cursor'[t] = i - 1
      /\ \A u \in Txn : u # t => /\ phase'[u] = phase[u] /\ ending'[u] = ending[u]
                                 /\ cursor'[u] = cursor[u]
  BY <1>2, GoesFacts DEF RecInv, DataInv
<1>4. /\ i \in Recent /\ i \in 1..cursor[t] /\ log[i].txn = t
      /\ \A j \in 1..cursor[t] : log[j].txn = t => j <= i
      /\ \E s \in 1..i : /\ log[s] = Record("START", t) /\ s \in Recent
                         /\ \A j \in s..Len(log) : log[j].txn = t /\ IsEnd(j) => j \in Recent
  <2>1. phase[t] = "undo" /\ i = Max({j \in 1..cursor[t] : log[j].txn = t})
    BY Zenon DEF Undoes
  <2> QED  BY <2>1, UndoFinds
<1>5. /\ log' = log /\ durable' = durable /\ disk' = disk /\ state' = state
      /\ isNew' = isNew /\ lastTxn' = lastTxn /\ finished' = finished /\ writes' = writes
      /\ phase' = phase
  BY DEF Undoes, durables, program, bounds
<1>6. Serving /\ Serving' /\ ~Recovering'  BY <1>1, <1>5 DEF Serving, Recovering
<1>7. /\ LogTyped /\ Len(log) \in Nat /\ cursor[t] \in 0..Len(log) /\ i \in 1..Len(log)
      /\ log[i] \in LogRecord
  <2>1. LogTyped /\ Len(log) \in Nat /\ cursor[t] \in 0..Len(log)
    BY TypesOfLog, LogFacts DEF RecInv, DataInv, TypeOK
  <2>2. i \in 1..Len(log)  BY <1>4, <2>1
  <2> QED  BY <2>1, <2>2, LogFacts
<1>8. b \in Block /\ v \in Val  BY <1>0, <1>7 DEF RecInv, DataInv, RecordsAreWhole, LogRecord
<1>9. i \in Writes(t) /\ i \in Unfinished(b) /\ writer[b] = t
  BY <1>0, <1>1, <1>4, <1>8 DEF Writes
<1>10. /\ buf' \in [Block -> Buffer] /\ writer' \in [Block -> Txn \cup {0}]
       /\ buf'[b].val = v /\ buf'[b].txn = t /\ buf'[b].lsn = buf[b].lsn
       /\ writer'[b] = t
       /\ \A c \in Block : c # b => buf'[c] = buf[c] /\ writer'[c] = writer[c]
  <2>1. TypeOK  BY DEF RecInv, DataInv
  <2>2. Modify(b, v, t, buf[b].lsn)  BY DEF Undoes
  <2> QED  BY <1>8, <2>1, <2>2, ModifiedBuffer
<1>11. /\ StoreOK' /\ LogGrows /\ Recent' = Recent
       /\ \A u : EndOf(u)' = EndOf(u) /\ Writes(u)' = Writes(u)
       /\ \A c : Unfinished(c)' = Unfinished(c)
       /\ Recovered' = Recovered
       /\ EndsAfterWrites' /\ RecordsAreWhole' /\ PageIsBehind' /\ LogIsFlushedFirst'
       /\ CleanIsOnDisk' /\ RecoveredIsCommitted'
  <2>1. UNCHANGED durables  BY DEF Undoes
  <2>2. buf'[b].txn # 0  BY <1>10, OneIsTxn
  <2> QED  BY <1>8, <1>10, <2>1, <2>2, ModifyKeepsData
<1>12. \A c \in Block : writer'[c] = writer[c]  BY <1>9, <1>10
<1>13. DataInv'
  <2>1. Len(log) <= Len(log') /\ i - 1 \in 0..Len(log')  BY <1>5, <1>7
  <2>2. \A c \in Block : buf'[c].txn # 0 => writer'[c] = buf'[c].txn
    BY <1>10 DEF RecInv, DataInv, TypeOK
  <2>3. "undo" \in Phase /\ finished' \subseteq Txn  BY <1>1, <1>5 DEF Phase
  <2>4. TypeOK'  BY <1>0, <1>2, <1>5, <1>10, <1>11, <2>1, <2>2, <2>3, GoesTyped
  <2> QED  BY <1>11, <2>4 DEF DataInv
<1>14. ControlInv'
  <2>1. WritersRun'
    <3>1. ASSUME NEW u \in Txn, NEW c \in Block, buf'[c].txn = u
          PROVE  phase[u] \in {"active", "undo", "recover", "flush"}
      BY <1>0, <1>10, <3>1 DEF RecInv, ControlInv, WritersRun
    <3> QED  BY <1>5, <1>12, <3>1 DEF RecInv, ControlInv, WritersRun
  <2>2. CheckpointsOnDisk'  BY <1>1, <1>5, OneIsTxn DEF RecInv, ControlInv, CheckpointsOnDisk
  <2>3. ProgramState'
    BY <1>1, <1>3, <1>5, OneIsTxn DEF RecInv, ControlInv, ProgramState
  <2> QED  BY <2>1, <2>2, <2>3 DEF ControlInv
<1>15. ASSUME NEW c \in Block PROVE BlockInv(c)'
  <2>1. BlockInv(c)  BY <1>6 DEF RecInv, ServingInv
  <2>2. \A k \in Unfinished(c) : phase'[log[k].txn] \in {"active", "undo", "flush", "force"}
    BY <1>5, <2>1 DEF BlockInv, WriterHolds
  <2>3. CASE c # b
    BY <1>7, <1>10, <1>11, <2>1, <2>2, <2>3, BlockKept
  <2>4. CASE c = b
    <3>1. WriterHolds(b)'  BY <1>5, <1>11, <1>12, <2>1, <2>4 DEF BlockInv, WriterHolds
    <3>2. DirtyHasWrite(b)'  BY <1>0, <1>5, <1>9, <1>10, <1>11 DEF DirtyHasWrite
    <3>3. ValuesKnown(b)'
      <4> SUFFICES ASSUME NEW k \in Unfinished(b), NEW u \in Txn, log[k].txn = u
                   PROVE  log[k].val \in Origin(u, b)' /\ buf'[b].val \in Origin(u, b)'
        BY <1>5, <1>11 DEF ValuesKnown
      <4>1. u = t  BY <1>1, <1>8, <1>9
      <4>2. log[k].val \in Origin(t, b) /\ v \in Origin(t, b)
        BY <1>0, <1>4, <1>9, <2>1, <2>4, <4>1 DEF BlockInv, ValuesKnown
      <4> QED  BY <1>7, <1>8, <1>10, <1>11, <4>1, <4>2, OriginKept
    <3> QED  BY <2>4, <3>1, <3>2, <3>3 DEF BlockInv
  <2> QED  BY <2>3, <2>4
<1>16. ASSUME NEW u \in Txn, u # t PROVE TxnInv(u)'
  <2>1. TxnInv(u)  BY <1>6 DEF RecInv, ServingInv
  <2>2. \A j \in (Len(log) + 1)..Len(log') : log'[j].txn # u  BY <1>5, <1>7
  <2>3. ASSUME phase[u] = "undo", NEW k \in Writes(u)
        PROVE  buf'[log[k].block].val = buf[log[k].block].val
    <3>1. EndOf(u) = {}  BY <2>1, <2>3 DEF TxnInv, NoEndYet
    <3>2. k \in 1..Len(log) /\ log[k].op = "SET"  BY <1>7, RecentPositions DEF Writes
    <3>3. log[k].block \in Block  BY <3>2 DEF RecInv, DataInv, RecordsAreWhole
    <3>4. writer[log[k].block] = u  BY <1>1, <3>1, <3>3
    <3> QED  BY <1>9, <1>10, <1>16, <3>3, <3>4
  <2>4. ASSUME NEW c \in Block, NEW k \in Writes(u), First(k, c)'
        PROVE  log[k].block = c /\ First(k, c) /\ buf'[c].val = buf[c].val
    <3>1. First(k, c) /\ k \in Unfinished(c)  BY <1>11, <2>4 DEF First
    <3>2. log[k].block = c /\ log[k].txn = u  BY <3>1 DEF Unfinished, Writes
    <3>3. writer[c] = u  BY <1>1, <3>1, <3>2
    <3> QED  BY <1>9, <1>10, <1>16, <3>1, <3>2, <3>3
  <2> QED  BY <1>3, <1>7, <1>11, <1>16, <2>1, <2>2, <2>3, <2>4, TxnKept
<1>17. TxnInv(t)'
  <2>1. NoEndYet(t)' /\ NoRecordYet(t)' /\ EndIsForced(t)' /\ RolledBack(t)'
    BY <1>1, <1>3, <1>11 DEF NoEndYet, NoRecordYet, EndIsForced, RolledBack
  <2>2. NoSecondStart(t)'  BY <1>1, <1>5, <1>11 DEF TxnInv, NoSecondStart
  <2>3. Begun(t)'
    <3>1. PICK s \in 1..i : /\ log[s] = Record("START", t) /\ s \in Recent
                            /\ \A j \in s..Len(log) : log[j].txn = t /\ IsEnd(j) => j \in Recent
      BY <1>4
    <3>2. s # i  BY <1>0, <3>1 DEF Record
    <3>3. s \in 1..Len(log) /\ s <= i - 1  BY <1>7, <3>1, <3>2
    <3> QED  BY <1>3, <1>5, <1>11, <3>1, <3>3 DEF Begun, Record, IsEnd
  <2>4. UndoneSoFar(t)'
    <3> SUFFICES ASSUME NEW k \in Writes(t), k > i - 1,
                        \A m \in Writes(t) : i - 1 < m /\ m < k => log[m].block # log[k].block
                 PROVE  buf'[log[k].block].val = log[k].val
      BY <1>3, <1>5, <1>11 DEF UndoneSoFar
    <3>1. k \in 1..Len(log) /\ log[k].block \in Block /\ log[k].txn = t
      BY <1>1 DEF RecInv, DataInv, RecordsAreWhole, Writes
    <3>2. CASE k = i  BY <1>0, <1>10, <3>2
    <3>3. CASE k # i
      <4>1. k > i  BY <1>7, <3>1, <3>3
      <4>2. log[k].block # b  BY <1>0, <1>7, <1>9, <4>1
      <4>3. k > cursor[t]
        <5>1. k \notin 1..cursor[t]  BY <1>4, <1>7, <3>1, <4>1
        <5> QED  BY <1>7, <3>1, <5>1
      <4>4. ASSUME NEW m \in Writes(t), cursor[t] < m, m < k
            PROVE  log[m].block # log[k].block
        <5>1. m \in Int  BY <1>1
        <5>2. i - 1 < m  BY <1>4, <1>7, <4>4, <5>1
        <5> QED  BY <4>4, <5>2
      <4>5. buf[log[k].block].val = log[k].val
        BY <1>0, <1>1, <4>3, <4>4 DEF TxnInv, UndoneSoFar
      <4> QED  BY <1>10, <3>1, <4>2, <4>5
    <3> QED  BY <3>2, <3>3
  <2> QED  BY <2>1, <2>2, <2>3, <2>4 DEF TxnInv
<1> QED  BY <1>6, <1>13, <1>14, <1>15, <1>16, <1>17 DEF RecInv, ServingInv

LEMMA UndoNextInv == ASSUME RecInv, NEW t \in Txn, UndoNext(t) PROVE RecInv'
<1>1. PICK i : i = Max({j \in 1..cursor[t] : log[j].txn = t})  OBVIOUS
<1>2. CASE log[i].op = "START"
  <2>1. /\ phase[t] = "undo" /\ UNCHANGED <<durables, program, ending, finished, bounds>>
        /\ phase' = [phase EXCEPT ![t] = "flush"] /\ cursor' = [cursor EXCEPT ![t] = 0]
        /\ UNCHANGED <<buf, writer>>
    BY <1>1, <1>2 DEF UndoNext
  <2> QED  BY <1>1, <1>2, <2>1, UndoEndsInv
<1>3. CASE log[i].op = "SET"
  <2>1. Undoes(t, i, log[i].block, log[i].val)  BY <1>1, <1>3 DEF UndoNext, Undoes
  <2> QED  BY <2>1, UndoWriteInv
<1> QED  BY <1>1, <1>2, <1>3 DEF UndoNext

-----------------------------------------------------------------------------
(* Steps that append a record                                                *)

LEMMA AppendFacts ==
    ASSUME LogTyped, NEW r \in LogRecord, NEW n, n = Len(log) + 1, AppendToLog(r)
    PROVE  /\ n \in Nat /\ n >= 1 /\ Len(log') = n /\ log'[n] = r /\ durable' = durable
           /\ durable < n /\ \A i \in 1..Len(log) : log'[i] = log[i]
           /\ LogTyped' /\ LogGrows /\ Finished' = Finished
           /\ Recent' = Recent \cup {n} /\ \A i \in Recent : i \in 1..Len(log) /\ i < n
           /\ \A j \in (Len(log) + 1)..Len(log') : j = n
           /\ disk' = disk => Recovered' = Recovered
<1>1. Len(log) \in Nat /\ durable \in Nat /\ durable <= Len(log) /\ log \in Seq(LogRecord)
  BY LogFacts DEF LogTyped
<1>2. /\ n \in Nat /\ n >= 1 /\ Len(log') = n /\ log'[n] = r /\ durable' = durable
      /\ durable < n /\ log' \in Seq(LogRecord)
      /\ \A i \in 1..Len(log) : log'[i] = log[i]
  BY <1>1 DEF AppendToLog
<1>3. LogTyped'  BY <1>1, <1>2 DEF LogTyped
<1>4. \A i \in 1..durable : log'[i] = log[i]  BY <1>1, <1>2
<1>5. /\ LastCheckpoint' = LastCheckpoint /\ Finished' = Finished
      /\ disk' = disk => Recovered' = Recovered
  BY <1>2, <1>3, <1>4, PrefixKept
<1>6. LogGrows  BY <1>1, <1>2, <1>3, <1>5 DEF LogGrows
<1>7. LastCheckpoint \in 0..durable  BY CheckpointFacts
<1>8. Recent' = Recent \cup {n}
  <2>1. (LastCheckpoint + 1)..n = ((LastCheckpoint + 1)..Len(log)) \cup {n}  BY <1>1, <1>7
  <2> QED  BY <1>2, <1>5, <2>1 DEF Recent
<1>9. \A i \in Recent : i \in 1..Len(log) /\ i < n  BY <1>1, RecentPositions
<1>10. \A j \in (Len(log) + 1)..Len(log') : j = n  BY <1>1, <1>2
<1> QED  BY <1>2, <1>3, <1>5, <1>6, <1>8, <1>9, <1>10

(* The sets of records the invariant speaks about. *)
LEMMA AppendSets ==
    ASSUME LogTyped, NEW r \in LogRecord, NEW n, n = Len(log) + 1, AppendToLog(r)
    PROVE  /\ \A u : EndOf(u)' = EndOf(u) \cup {j \in {n} : r.txn = u /\ r.op \in {"COMMIT", "ROLLBACK"}}
           /\ \A u : Writes(u)' = Writes(u) \cup {j \in {n} : r.txn = u /\ r.op = "SET"}
           /\ \A c : Unfinished(c)' = Unfinished(c) \cup
                 {j \in {n} : r.op = "SET" /\ r.block = c /\ r.txn \notin Finished}
<1>1. /\ Recent' = Recent \cup {n} /\ log'[n] = r /\ Finished' = Finished
      /\ \A i \in Recent : log'[i] = log[i]
  BY AppendFacts
<1> QED  BY <1>1 DEF EndOf, Writes, Unfinished, IsEnd

(* A record that is no write. *)
LEMMA AppendKeepsData ==
    ASSUME RecInv, NEW r \in LogRecord, NEW n, n = Len(log) + 1, AppendToLog(r),
           r.op # "SET", r.op = "CHECKPOINT" \/ r.txn \in Txn, UNCHANGED <<disk, buf>>
    PROVE  /\ StoreOK' /\ LogGrows /\ Recovered' = Recovered
           /\ \A c : Unfinished(c)' = Unfinished(c) /\ \A u : Writes(u)' = Writes(u)
           /\ EndsAfterWrites' /\ RecordsAreWhole' /\ PageIsBehind' /\ LogIsFlushedFirst'
           /\ CleanIsOnDisk' /\ RecoveredIsCommitted'
<1>1. StoreOK /\ LogTyped  BY TypeParts, TypesOfLog DEF RecInv, DataInv
<1>2. /\ n \in Nat /\ n >= 1 /\ Len(log') = n /\ log'[n] = r /\ durable' = durable
      /\ durable < n /\ \A i \in 1..Len(log) : log'[i] = log[i]
      /\ LogTyped' /\ LogGrows /\ Finished' = Finished
      /\ Recent' = Recent \cup {n} /\ \A i \in Recent : i \in 1..Len(log) /\ i < n
      /\ Recovered' = Recovered
  BY <1>1, AppendFacts
<1>3. Len(log) \in Nat /\ durable \in Nat /\ durable <= Len(log)  BY <1>1, LogFacts
<1>4. \A u : Writes(u)' = Writes(u)
  <2>1. \A u : Writes(u)' = Writes(u) \cup {j \in {n} : r.txn = u /\ r.op = "SET"}
    BY <1>1, AppendSets
  <2> QED  BY <2>1
<1>5. \A c : Unfinished(c)' = Unfinished(c)
  <2>1. \A c : Unfinished(c)' = Unfinished(c) \cup
           {j \in {n} : r.op = "SET" /\ r.block = c /\ r.txn \notin Finished}
    BY <1>1, AppendSets
  <2> QED  BY <2>1
<1>6. StoreOK'
  <2>1. \A c \in Block : buf'[c].lsn <= Len(log')
    <3> SUFFICES ASSUME NEW c \in Block PROVE buf[c].lsn <= n  BY <1>2
    <3>1. buf[c].lsn \in Nat /\ buf[c].lsn <= Len(log)  BY <1>1 DEF StoreOK, Buffer
    <3> QED  BY <1>3, <3>1
  <2> QED  BY <1>1, <1>2, <2>1 DEF StoreOK
<1>7. EndsAfterWrites'
  <2> SUFFICES ASSUME NEW i \in Recent', NEW j \in Recent', log'[i].op = "SET", IsEnd(j)',
                      log'[i].txn = log'[j].txn
               PROVE  i < j
    BY DEF EndsAfterWrites
  <2>1. i \in Recent /\ log'[i] = log[i]  BY <1>2
  <2>2. CASE j = n  BY <1>2, <2>1, <2>2
  <2>3. CASE j # n
    <3>1. j \in Recent /\ log'[j] = log[j]  BY <1>2, <2>3
    <3> QED  BY <2>1, <3>1 DEF RecInv, DataInv, EndsAfterWrites, IsEnd
  <2> QED  BY <2>2, <2>3
<1>8. RecordsAreWhole'
  <2> SUFFICES ASSUME NEW i \in 1..n
               PROVE  /\ log'[i].op = "SET" => log'[i].block \in Block
                      /\ log'[i].op # "CHECKPOINT" => log'[i].txn \in Txn
    BY <1>2 DEF RecordsAreWhole
  <2>1. CASE i = n  BY <1>2, <2>1
  <2>2. CASE i # n
    <3>1. i \in 1..Len(log)  BY <1>3, <2>2
    <3> QED  BY <1>2, <3>1 DEF RecInv, DataInv, RecordsAreWhole
  <2> QED  BY <2>1, <2>2
<1>9. PageIsBehind'
  <2> SUFFICES ASSUME NEW c \in Block, NEW i \in Recent', First(i, c)', i > durable
               PROVE  disk[c] = log'[i].val
    BY <1>2 DEF PageIsBehind
  <2>1. First(i, c) /\ i \in Recent  BY <1>5 DEF First, Unfinished
  <2>2. log'[i] = log[i]  BY <1>2, <2>1
  <2> QED  BY <2>1, <2>2 DEF RecInv, DataInv, PageIsBehind
<1>10. LogIsFlushedFirst'
  <2> SUFFICES ASSUME NEW i \in (durable + 1)..n, log'[i].op = "SET"
               PROVE  buf[log'[i].block].lsn >= i
    BY <1>2 DEF LogIsFlushedFirst
  <2>1. i # n  BY <1>2
  <2>2. i \in (durable + 1)..Len(log) /\ i \in 1..Len(log)  BY <1>3, <2>1
  <2> QED  BY <1>2, <2>2 DEF RecInv, DataInv, LogIsFlushedFirst
<1>11. CleanIsOnDisk'  BY DEF RecInv, DataInv, CleanIsOnDisk
<1>12. RecoveredIsCommitted'
  <2> SUFFICES ASSUME NEW c \in Block, NEW v, v = Recovered[c] PROVE CommittedValue(c, v)'
    BY <1>2 DEF RecoveredIsCommitted
  <2>1. CommittedValue(c, v)  BY DEF RecInv, DataInv, RecoveredIsCommitted
  <2>2. durable <= durable' /\ \A i \in 1..durable : log'[i] = log[i]  BY <1>2, <1>3
  <2> QED  BY <1>1, <1>2, <2>1, <2>2, CommittedValueKept
<1> QED  BY <1>2, <1>4, <1>5, <1>6, <1>7, <1>8, <1>9, <1>10, <1>11, <1>12

(* A transaction that goes on, and its last record.                          *)
LEMMA WriteEndInv ==
    ASSUME RecInv, NEW t \in Txn, WriteEnd(t), ending[t] # "CHECKPOINT"
    PROVE  RecInv'
<1> DEFINE r == Record(ending[t], t)
<1>1. PICK n : n = Len(log) + 1  OBVIOUS
<1>2. /\ phase[t] = "flush" /\ \A b \in Block : buf[b].txn # t
      /\ ending[t] \in {"COMMIT", "ROLLBACK"} /\ AppendToLog(r)
      /\ UNCHANGED <<disk, buf, writer, program, ending, finished, bounds>>
  BY DEF WriteEnd, RecInv, DataInv, TypeOK
<1>3. Goes(t, "force", ending[t], n)
  BY <1>1 DEF WriteEnd, Goes, RecInv, DataInv, TypeOK
<1>4. /\ phase'[t] = "force" /\ ending'[t] = ending[t] /\ cursor'[t] = n
      /\ \A u \in Txn : u # t => /\ phase'[u] = phase[u] /\ ending'[u] = ending[u]
                                 /\ cursor'[u] = cursor[u]
  BY <1>3, GoesFacts DEF RecInv, DataInv
<1>5. /\ disk' = disk /\ buf' = buf /\ writer' = writer /\ state' = state
      /\ isNew' = isNew /\ lastTxn' = lastTxn /\ finished' = finished /\ writes' = writes
  BY <1>2 DEF program, bounds
<1>6. state # "down" /\ (state = "starting" => t = 1) /\ (state = "open" => phase[1] = "ended")
  BY <1>2, Running DEF RecInv, ControlInv, ProgramState
<1>7. Serving /\ Serving' /\ ~Recovering'
  <2>1. ~Recovering  BY <1>2, <1>6 DEF Recovering, RecInv, ControlInv, ProgramState
  <2> QED  BY <1>4, <1>5, <1>6, <2>1, Modes DEF Serving, Recovering, RecInv, DataInv, TypeOK
<1>8. /\ \A u \in Txn : ending[u] \in {"COMMIT", "ROLLBACK"} /\ phase[u] # "recover"
      /\ finished = {}
  BY <1>7, ServingEnding, OneIsTxn DEF RecInv, ControlInv, ProgramState
<1>9. LogTyped /\ Len(log) \in Nat /\ r \in LogRecord
  <2>1. r \in LogRecord  BY <1>2, RecoveryAssumption DEF Record, LogRecord, Op, Val, Zero
  <2> QED  BY <2>1, TypesOfLog, LogFacts DEF RecInv, DataInv
<1>10. /\ n \in Nat /\ n >= 1 /\ Len(log') = n /\ log'[n] = r /\ durable' = durable
       /\ durable < n /\ \A i \in 1..Len(log) : log'[i] = log[i]
       /\ Recent' = Recent \cup {n} /\ \A i \in Recent : i \in 1..Len(log) /\ i < n
       /\ \A j \in (Len(log) + 1)..Len(log') : j = n
  BY <1>1, <1>2, <1>9, AppendFacts
<1>11. r.op = ending[t] /\ r.txn = t /\ r.op # "SET" /\ r.op # "START"  BY <1>2 DEF Record
<1>12. /\ StoreOK' /\ LogGrows /\ Recovered' = Recovered
       /\ \A c : Unfinished(c)' = Unfinished(c) /\ \A u : Writes(u)' = Writes(u)
       /\ EndsAfterWrites' /\ RecordsAreWhole' /\ PageIsBehind' /\ LogIsFlushedFirst'
       /\ CleanIsOnDisk' /\ RecoveredIsCommitted'
  <2>1. UNCHANGED <<disk, buf>>  BY <1>5
  <2> HIDE DEF r
  <2> QED  BY <1>1, <1>2, <1>9, <1>11, <2>1, AppendKeepsData
<1>13. EndOf(t)' = {n}
  <2>1. EndOf(t) = {}  BY <1>2, <1>7 DEF RecInv, ServingInv, TxnInv, NoEndYet
  <2>2. EndOf(t)' = EndOf(t) \cup {j \in {n} : r.txn = t /\ r.op \in {"COMMIT", "ROLLBACK"}}
    <3> HIDE DEF r
    <3> QED  BY <1>1, <1>2, <1>9, AppendSets
  <2> QED  BY <1>2, <1>11, <2>1, <2>2
<1>14. DataInv'
  <2>1. Len(log) <= Len(log') /\ n \in 0..Len(log')  BY <1>1, <1>9, <1>10
  <2>2. /\ \A c \in Block : buf'[c].txn # 0 => writer'[c] = buf'[c].txn
        /\ writer' \in [Block -> Txn \cup {0}] /\ finished' \subseteq Txn
    BY <1>5 DEF RecInv, DataInv, TypeOK
  <2>3. "force" \in Phase /\ phase[t] # "none"  BY <1>2 DEF Phase
  <2>4. TypeOK'  BY <1>2, <1>3, <1>5, <1>12, <2>1, <2>2, <2>3, GoesTyped
  <2> QED  BY <1>12, <2>4 DEF DataInv
<1>15. ControlInv'
  <2>1. WritersRun'  BY <1>2, <1>4, <1>5 DEF RecInv, ControlInv, WritersRun
  <2>2. CheckpointsOnDisk'
    <3> SUFFICES ASSUME NEW j \in (durable + 1)..n, log'[j].op = "CHECKPOINT" PROVE FALSE
      BY <1>10 DEF CheckpointsOnDisk
    <3>1. j # n  BY <1>2, <1>10, <1>11
    <3>2. j \in (durable + 1)..Len(log) /\ j \in 1..Len(log)
      BY <1>1, <1>9, <3>1, LogFacts
    <3>3. log[j].op = "CHECKPOINT"  BY <1>10, <3>2
    <3> QED  BY <1>8, <3>2, <3>3, OneIsTxn DEF RecInv, ControlInv, CheckpointsOnDisk
  <2>3. ProgramState'
    BY <1>2, <1>4, <1>5, <1>6, <1>8, OneIsTxn DEF RecInv, ControlInv, ProgramState
  <2> QED  BY <2>1, <2>2, <2>3 DEF ControlInv
<1>16. ASSUME NEW c \in Block PROVE BlockInv(c)'
  <2>1. BlockInv(c)  BY <1>7 DEF RecInv, ServingInv
  <2>2. \A i \in Unfinished(c) : /\ phase[log[i].txn] \in {"active", "undo", "flush", "force"}
                                 /\ log[i].txn \in Txn
    <3>1. \A i \in Unfinished(c) : i \in 1..Len(log) /\ log[i].op = "SET"
      BY <1>9, RecentPositions DEF Unfinished
    <3> QED  BY <2>1, <3>1 DEF BlockInv, WriterHolds, RecInv, DataInv, RecordsAreWhole
  <2>3. \A i \in Unfinished(c) : phase'[log[i].txn] \in {"active", "undo", "flush", "force"}
    BY <1>4, <2>2
  <2> QED  BY <1>5, <1>9, <1>12, <2>1, <2>3, BlockKept
<1>17. ASSUME NEW u \in Txn, u # t PROVE TxnInv(u)'
  <2>1. TxnInv(u)  BY <1>7 DEF RecInv, ServingInv
  <2>2. \A j \in (Len(log) + 1)..Len(log') : log'[j].txn # u  BY <1>10, <1>11, <1>17
  <2>3. ASSUME NEW c \in Block, NEW k \in Writes(u), First(k, c)'
        PROVE  log[k].block = c /\ First(k, c)
    BY <1>12, <2>3 DEF First, Unfinished
  <2> QED  BY <1>4, <1>5, <1>9, <1>12, <1>17, <2>1, <2>2, <2>3, TxnKept
<1>18. TxnInv(t)'
  <2>0. TxnInv(t)  BY <1>7 DEF RecInv, ServingInv
  <2>1. NoEndYet(t)' /\ NoRecordYet(t)' /\ UndoneSoFar(t)'
    BY <1>4 DEF NoEndYet, NoRecordYet, UndoneSoFar
  <2>2. EndIsForced(t)'  BY <1>4, <1>10, <1>11, <1>13 DEF EndIsForced
  <2>3. RolledBack(t)'
    <3> SUFFICES ASSUME ending[t] = "ROLLBACK", NEW c \in Block, NEW i \in Writes(t), First(i, c)'
                 PROVE  buf[c].val = log'[i].val
      BY <1>4, <1>5, <1>12 DEF RolledBack
    <3>1. First(i, c)  BY <1>12 DEF First
    <3>2. log'[i] = log[i]  BY <1>10 DEF Writes
    <3> QED  BY <1>2, <2>0, <3>1, <3>2 DEF TxnInv, RolledBack
  <2>4. NoSecondStart(t)'
    <3> SUFFICES ASSUME NEW k \in EndOf(t)' \cup Writes(t)', NEW s \in k..n,
                        log'[s].txn = t, log'[s].op = "START"
                 PROVE  FALSE
      BY <1>10 DEF NoSecondStart
    <3>1. s # n  BY <1>10, <1>11
    <3>2. k \in Writes(t) /\ k \in 1..Len(log)
      <4>1. k \in Writes(t) \/ k = n  BY <1>12, <1>13
      <4>2. k # n  BY <1>10, <3>1
      <4> QED  BY <1>10, <4>1, <4>2 DEF Writes
    <3>3. s \in k..Len(log) /\ s \in 1..Len(log)  BY <1>1, <1>9, <3>1, <3>2
    <3>4. log'[s] = log[s]  BY <1>10, <3>3
    <3> QED  BY <2>0, <3>2, <3>3, <3>4 DEF TxnInv, NoSecondStart
  <2>5. Begun(t)'
    <3>1. PICK s \in 1..Len(log) :
             /\ log[s] = Record("START", t)
             /\ \A j \in s..Len(log) : log[j].txn = t /\ IsEnd(j) => j \in Recent
             /\ t # 1 => s \in Recent
      BY <1>2, <2>0 DEF TxnInv, Begun
    <3>2. s \in 1..n /\ log'[s] = Record("START", t)  BY <1>1, <1>9, <1>10, <3>1
    <3>3. ASSUME NEW j \in s..n, log'[j].txn = t, IsEnd(j)' PROVE j \in Recent'
      <4>1. CASE j = n  BY <1>10, <4>1
      <4>2. CASE j # n
        <5>1. j \in s..Len(log) /\ j \in 1..Len(log)  BY <1>1, <1>9, <3>1, <4>2
        <5>2. log'[j] = log[j]  BY <1>10, <5>1
        <5> QED  BY <1>10, <3>1, <3>3, <5>1, <5>2 DEF IsEnd
      <4> QED  BY <4>1, <4>2
    <3>4. t # 1 => s \in Recent'  BY <1>10, <3>1
    <3> QED  BY <1>4, <1>10, <3>2, <3>3, <3>4 DEF Begun, Record
  <2> QED  BY <2>1, <2>2, <2>3, <2>4, <2>5 DEF TxnInv
<1> QED  BY <1>7, <1>14, <1>15, <1>16, <1>17, <1>18 DEF RecInv, ServingInv

(* The checkpoint, when recovery has flushed what it has undone.             *)
LEMMA WriteCheckpointInv ==
    ASSUME RecInv, NEW t \in Txn, WriteEnd(t), ending[t] = "CHECKPOINT"
    PROVE  RecInv'
<1> DEFINE r == Checkpoint
<1>1. PICK n : n = Len(log) + 1  OBVIOUS
<1>2. /\ phase[t] = "flush" /\ t = 1 /\ state = "starting" /\ Recovering /\ AppendToLog(r)
      /\ \A b \in Block : buf[b].txn # t
      /\ UNCHANGED <<disk, buf, writer, program, ending, finished, bounds>>
  BY DEF WriteEnd, RecInv, ControlInv, ProgramState, Recovering
<1>3. Goes(1, "force", "CHECKPOINT", n)
  BY <1>1, <1>2 DEF WriteEnd, Goes, RecInv, DataInv, TypeOK
<1>4. /\ phase'[1] = "force" /\ ending'[1] = "CHECKPOINT" /\ cursor'[1] = n
      /\ \A u \in Txn : u # 1 => phase[u] = "none" /\ phase'[u] = "none" /\ ending'[u] = ending[u]
  <2>1. TypeOK /\ 1 \in Txn /\ state = "starting"  BY <1>2, OneIsTxn DEF RecInv, DataInv
  <2>2. \A u \in Txn : u # 1 => phase[u] = "none"  BY <2>1, StartingAlone
  <2>3. /\ phase'[1] = "force" /\ ending'[1] = "CHECKPOINT" /\ cursor'[1] = n
        /\ \A u \in Txn : u # 1 => phase'[u] = phase[u] /\ ending'[u] = ending[u]
    BY <1>3, <2>1, GoesFacts
  <2> QED  BY <2>2, <2>3
<1>5. /\ disk' = disk /\ buf' = buf /\ writer' = writer /\ state' = state
      /\ isNew' = isNew /\ lastTxn' = lastTxn /\ finished' = finished /\ writes' = writes
  BY <1>2 DEF program, bounds
<1>6. RecoveringInv /\ durable = Len(log) /\ \A b \in Block : buf[b].val = Recovered[b]
  BY <1>2 DEF RecInv, RecoveringInv, RecoveryTail, RecoveryDone
<1>7. LogTyped /\ Len(log) \in Nat /\ r \in LogRecord /\ r.op = "CHECKPOINT" /\ r.txn = -1
  <2>1. r \in LogRecord /\ r.op = "CHECKPOINT" /\ r.txn = -1
    BY RecoveryAssumption DEF Checkpoint, Record, LogRecord, Op, Val, Zero
  <2> QED  BY <2>1, TypesOfLog, LogFacts DEF RecInv, DataInv
<1>8. /\ n \in Nat /\ n >= 1 /\ Len(log') = n /\ log'[n] = r /\ durable' = durable
      /\ durable < n /\ \A i \in 1..Len(log) : log'[i] = log[i]
  BY <1>1, <1>2, <1>7, AppendFacts
<1>9. /\ StoreOK' /\ Recovered' = Recovered
      /\ EndsAfterWrites' /\ RecordsAreWhole' /\ PageIsBehind' /\ LogIsFlushedFirst'
      /\ CleanIsOnDisk' /\ RecoveredIsCommitted'
  <2>1. UNCHANGED <<disk, buf>> /\ r.op # "SET"  BY <1>5, <1>7
  <2> HIDE DEF r
  <2> QED  BY <1>1, <1>2, <1>7, <2>1, AppendKeepsData
<1>10. \A j \in (durable' + 1)..Len(log') : j = n  BY <1>1, <1>6, <1>7, <1>8
<1>11. DataInv'
  <2>1. Len(log) <= Len(log') /\ n \in 0..Len(log')  BY <1>1, <1>7, <1>8
  <2>2. /\ \A c \in Block : buf'[c].txn # 0 => writer'[c] = buf'[c].txn
        /\ writer' \in [Block -> Txn \cup {0}] /\ finished' \subseteq Txn
    BY <1>5 DEF RecInv, DataInv, TypeOK
  <2>3. "force" \in Phase /\ phase[1] # "none" /\ 1 \in Txn  BY <1>2, OneIsTxn DEF Phase
  <2>4. TypeOK'  BY <1>3, <1>5, <1>9, <2>1, <2>2, <2>3, GoesTyped
  <2> QED  BY <1>9, <2>4 DEF DataInv
<1>12. ControlInv'
  <2>1. WritersRun'  BY <1>2, <1>4, <1>5 DEF RecInv, ControlInv, WritersRun
  <2>2. CheckpointsOnDisk'  BY <1>2, <1>4, <1>5, <1>8, <1>10 DEF CheckpointsOnDisk
  <2>3. ProgramState'
    BY <1>2, <1>4, <1>5, OneIsTxn DEF RecInv, ControlInv, ProgramState
  <2> QED  BY <2>1, <2>2, <2>3 DEF ControlInv
<1>13. ~Serving' /\ Recovering'  BY <1>2, <1>4, <1>5 DEF Serving, Recovering
<1>14. RecoveringInv'
  <2>1. RecoveryBegun'
    <3>1. PICK s \in 1..Len(log) : /\ log[s] = Record("START", 1)
                                   /\ \A j \in s..Len(log) : ~(log[j].txn = 1 /\ IsEnd(j))
      BY <1>6 DEF RecoveringInv, RecoveryBegun
    <3>2. s \in 1..n /\ log'[s] = Record("START", 1)  BY <1>1, <1>7, <1>8, <3>1
    <3>3. ASSUME NEW j \in s..n PROVE ~(log'[j].txn = 1 /\ IsEnd(j)')
      <4>1. CASE j = n  BY <1>7, <1>8, <4>1
      <4>2. CASE j # n
        <5>1. j \in s..Len(log) /\ j \in 1..Len(log)  BY <1>1, <1>7, <3>1, <4>2
        <5>2. log'[j] = log[j]  BY <1>8, <5>1
        <5> QED  BY <3>1, <5>1, <5>2 DEF IsEnd
      <4> QED  BY <4>1, <4>2
    <3> QED  BY <1>8, <3>2, <3>3 DEF RecoveryBegun, Record
  <2>2. RecoveryTail'  BY <1>4, <1>8, <1>10 DEF RecoveryTail, Checkpoint, Record
  <2>3. NotYetRecovered' /\ RecoveredSoFar'  BY <1>4 DEF NotYetRecovered, RecoveredSoFar
  <2>4. RecoveryDone'  BY <1>4, <1>5, <1>6, <1>8, <1>9 DEF RecoveryDone, Checkpoint, Record
  <2> QED  BY <1>4, <2>1, <2>2, <2>3, <2>4 DEF RecoveringInv
<1> QED  BY <1>11, <1>12, <1>13, <1>14 DEF RecInv

LEMMA NewTxnInv == ASSUME RecInv, NEW t \in Txn, NewTxn(t) PROVE RecInv'
<1> DEFINE r == Record("START", t)
<1>1. PICK n : n = Len(log) + 1  OBVIOUS
<1>2. /\ state = "open" /\ t = lastTxn + 1 /\ lastTxn' = t /\ AppendToLog(r)
      /\ phase' = [phase EXCEPT ![t] = "active"]
      /\ UNCHANGED <<disk, buf, writer, state, isNew, ending, cursor, finished, writes, crashes>>
  BY DEF NewTxn
<1>3. /\ disk' = disk /\ buf' = buf /\ writer' = writer /\ state' = state /\ isNew' = isNew
      /\ ending' = ending /\ cursor' = cursor /\ finished' = finished /\ writes' = writes
  BY <1>2
<1>4. TypeOK /\ phase[1] = "ended" /\ \A u \in Txn : u \in Nat /\ lastTxn \in Nat
  BY <1>2, OneIsTxn DEF RecInv, DataInv, ControlInv, ProgramState, TypeOK
<1>5. phase[t] = "none" /\ t # 1
  <2>1. t > lastTxn  BY <1>2, <1>4
  <2> QED  BY <1>4, <2>1 DEF TypeOK
<1>6. /\ phase'[t] = "active" /\ \A u \in Txn : u # t => phase'[u] = phase[u]
      /\ phase' \in [Txn -> Phase]
  BY <1>2, <1>4 DEF TypeOK, Phase
<1>7. Serving /\ Serving' /\ ~Recovering'  BY <1>2, <1>3 DEF Serving, Recovering
<1>8. /\ \A u \in Txn : ending[u] \in {"COMMIT", "ROLLBACK"} /\ phase[u] # "recover"
      /\ finished = {}
  BY <1>7, ServingEnding, OneIsTxn DEF RecInv, ControlInv, ProgramState
<1>9. LogTyped /\ Len(log) \in Nat /\ r \in LogRecord /\ r.op = "START" /\ r.txn = t
  <2>1. r \in LogRecord /\ r.op = "START" /\ r.txn = t
    BY RecoveryAssumption DEF Record, LogRecord, Op, Val, Zero
  <2> QED  BY <2>1, TypesOfLog, LogFacts DEF RecInv, DataInv
<1>10. /\ n \in Nat /\ n >= 1 /\ Len(log') = n /\ log'[n] = r /\ durable' = durable
       /\ durable < n /\ \A i \in 1..Len(log) : log'[i] = log[i]
       /\ Recent' = Recent \cup {n} /\ \A i \in Recent : i \in 1..Len(log) /\ i < n
       /\ \A j \in (Len(log) + 1)..Len(log') : j = n
  BY <1>1, <1>2, <1>9, AppendFacts
<1>11. /\ StoreOK' /\ LogGrows /\ Recovered' = Recovered
       /\ \A c : Unfinished(c)' = Unfinished(c) /\ \A u : Writes(u)' = Writes(u)
       /\ EndsAfterWrites' /\ RecordsAreWhole' /\ PageIsBehind' /\ LogIsFlushedFirst'
       /\ CleanIsOnDisk' /\ RecoveredIsCommitted'
  <2>1. UNCHANGED <<disk, buf>> /\ r.op # "SET"  BY <1>3, <1>9
  <2> HIDE DEF r
  <2> QED  BY <1>1, <1>2, <1>9, <2>1, AppendKeepsData
<1>12. EndOf(t)' = {} /\ Writes(t)' = {}
  <2>1. EndOf(t) = {} /\ Writes(t) = {}
    BY <1>5, <1>7 DEF RecInv, ServingInv, TxnInv, NoRecordYet, EndOf, Writes
  <2>2. EndOf(t)' = EndOf(t) \cup {j \in {n} : r.txn = t /\ r.op \in {"COMMIT", "ROLLBACK"}}
    <3> HIDE DEF r
    <3> QED  BY <1>1, <1>2, <1>9, AppendSets
  <2> QED  BY <1>9, <1>11, <2>1, <2>2
<1>13. DataInv'
  <2>1. cursor' \in [Txn -> 0..Len(log')]
    <3>1. \A u \in Txn : cursor[u] \in 0..Len(log')  BY <1>1, <1>4, <1>9, <1>10 DEF TypeOK
    <3> QED  BY <1>3, <1>4, <3>1 DEF TypeOK
  <2>2. lastTxn' \in 0..(MaxClients + 1)  BY <1>2 DEF Txn
  <2>3. \A u \in Txn : u > lastTxn' <=> phase'[u] = "none"
    <3>1. ASSUME NEW u \in Txn, u # t PROVE u > t <=> phase[u] = "none"
      <4>1. u > lastTxn <=> phase[u] = "none"  BY <1>4 DEF TypeOK
      <4>2. u > t <=> u > lastTxn  BY <1>2, <1>4, <3>1
      <4> QED  BY <4>1, <4>2
    <3>2. ~(t > t)  BY <1>4
    <3> QED  BY <1>2, <1>6, <3>1, <3>2
  <2>4. ControlOK'  BY <1>3, <1>4, <1>6, <2>1, <2>2, <2>3 DEF TypeOK, ControlOK
  <2>5. TypeOK'  BY <1>11, <2>4, TypePartsNext
  <2> QED  BY <1>11, <2>5 DEF DataInv
<1>14. ControlInv'
  <2>1. WritersRun'  BY <1>3, <1>5, <1>6 DEF RecInv, ControlInv, WritersRun
  <2>2. CheckpointsOnDisk'
    <3> SUFFICES ASSUME NEW j \in (durable + 1)..n, log'[j].op = "CHECKPOINT" PROVE FALSE
      BY <1>10 DEF CheckpointsOnDisk
    <3>1. j # n  BY <1>9, <1>10
    <3>2. j \in (durable + 1)..Len(log) /\ j \in 1..Len(log)
      BY <1>1, <1>9, <3>1, LogFacts
    <3>3. log[j].op = "CHECKPOINT"  BY <1>10, <3>2
    <3> QED  BY <1>2, <3>2, <3>3 DEF RecInv, ControlInv, CheckpointsOnDisk
  <2>3. ending[t] = "COMMIT"
    BY <1>5, <1>7 DEF RecInv, ControlInv, ProgramState
  <2>4. ProgramState'
    BY <1>2, <1>3, <1>4, <1>5, <1>6, <1>8, <2>3, OneIsTxn DEF RecInv, ControlInv, ProgramState
  <2> QED  BY <2>1, <2>2, <2>4 DEF ControlInv
<1>15. ASSUME NEW c \in Block PROVE BlockInv(c)'
  <2>1. BlockInv(c)  BY <1>7 DEF RecInv, ServingInv
  <2>2. \A i \in Unfinished(c) : /\ phase[log[i].txn] \in {"active", "undo", "flush", "force"}
                                 /\ log[i].txn \in Txn
    <3>1. \A i \in Unfinished(c) : i \in 1..Len(log) /\ log[i].op = "SET"
      BY <1>9, RecentPositions DEF Unfinished
    <3> QED  BY <2>1, <3>1 DEF BlockInv, WriterHolds, RecInv, DataInv, RecordsAreWhole
  <2>3. \A i \in Unfinished(c) : phase'[log[i].txn] \in {"active", "undo", "flush", "force"}
    BY <1>6, <2>2
  <2> QED  BY <1>3, <1>9, <1>11, <2>1, <2>3, BlockKept
<1>16. ASSUME NEW u \in Txn, u # t PROVE TxnInv(u)'
  <2>1. TxnInv(u)  BY <1>7 DEF RecInv, ServingInv
  <2>2. \A j \in (Len(log) + 1)..Len(log') : log'[j].txn # u  BY <1>9, <1>10, <1>16
  <2>3. ASSUME NEW c \in Block, NEW k \in Writes(u), First(k, c)'
        PROVE  log[k].block = c /\ First(k, c)
    BY <1>11, <2>3 DEF First, Unfinished
  <2> QED  BY <1>3, <1>6, <1>9, <1>11, <1>16, <2>1, <2>2, <2>3, TxnKept
<1>17. TxnInv(t)'
  <2>1. NoEndYet(t)' /\ NoRecordYet(t)' /\ NoSecondStart(t)'
    BY <1>6, <1>12 DEF NoEndYet, NoRecordYet, NoSecondStart
  <2>2. EndIsForced(t)' /\ UndoneSoFar(t)' /\ RolledBack(t)'
    BY <1>6 DEF EndIsForced, UndoneSoFar, RolledBack
  <2>3. Begun(t)'
    <3>1. n \in 1..Len(log') /\ \A j \in n..Len(log') : j = n  BY <1>10
    <3>2. ~IsEnd(n)'  BY <1>9, <1>10 DEF IsEnd
    <3> QED  BY <1>6, <1>10, <3>1, <3>2 DEF Begun, Record
  <2> QED  BY <2>1, <2>2, <2>3 DEF TxnInv
<1> QED  BY <1>7, <1>13, <1>14, <1>15, <1>16, <1>17 DEF RecInv, ServingInv

(* A write, and the log record that goes first.                              *)
LEMMA SetFacts ==
    ASSUME RecInv, NEW t \in Txn, NEW b \in Block, Set(t, b)
    PROVE  /\ phase[t] = "active" /\ writer[b] \in {0, t} /\ writes < MaxWrites
           /\ writes' = writes + 1 /\ Serving /\ TypeOK /\ TxnInv(t) /\ EndOf(t) = {}
           /\ t \notin Finished /\ LogTyped
           /\ \A i \in Unfinished(b) : log[i].txn = t
           /\ buf[b].val \in Origin(t, b)
           /\ UNCHANGED <<disk, program, calls, clients, crashes>>
<1>1. /\ phase[t] = "active" /\ (state = "open" \/ isNew) /\ writer[b] \in {0, t}
      /\ writes < MaxWrites /\ writes' = writes + 1 /\ ending[t] = "COMMIT"
      /\ UNCHANGED <<disk, program, calls, clients, crashes>>
  BY DEF Set, RecInv, ControlInv, ProgramState
<1>2. state # "down" /\ (state = "starting" => t = 1)  BY <1>1, Running
<1>3. Serving  BY <1>1, <1>2 DEF Serving, Recovering, RecInv, DataInv, TypeOK
<1>4. TxnInv(t) /\ EndOf(t) = {} /\ BlockInv(b) /\ TypeOK
  BY <1>1, <1>3 DEF RecInv, ServingInv, TxnInv, NoEndYet, DataInv
<1>5. LogTyped /\ t \notin Finished  BY <1>4, TypesOfLog, FinishedFacts
<1>6. ASSUME NEW i \in Unfinished(b) PROVE log[i].txn = t
  <2>1. i \in 1..Len(log) /\ log[i].op = "SET"  BY <1>5, RecentPositions DEF Unfinished
  <2>2. log[i].txn \in Txn  BY <2>1 DEF RecInv, DataInv, RecordsAreWhole
  <2>3. log[i].txn # 0  BY <2>2, OneIsTxn
  <2> QED  BY <1>1, <1>4, <2>3 DEF BlockInv, WriterHolds
<1>7. buf[b].val \in Origin(t, b)
  <2>1. CASE Unfinished(b) = {}
    <3>1. buf[b].val = Recovered[b]  BY <1>2, <2>1, NothingToUndo
    <3> QED  BY <3>1 DEF Origin
  <2>2. CASE Unfinished(b) # {}  BY <1>4, <1>6, <2>2 DEF BlockInv, ValuesKnown
  <2> QED  BY <2>1, <2>2
<1> QED  BY <1>1, <1>3, <1>4, <1>5, <1>6, <1>7

(* What it does, in terms of the record r at the new LSN n.                  *)
LEMMA SetEffect ==
    ASSUME RecInv, NEW t \in Txn, NEW b \in Block, Set(t, b), NEW n, n = Len(log) + 1,
           NEW r, r = SetRecord(t, b, buf[b].val, writes')
    PROVE  /\ AppendToLog(r) /\ r \in LogRecord /\ writes' \in Val
           /\ r.op = "SET" /\ r.txn = t /\ r.block = b /\ r.val = buf[b].val /\ r.new = writes'
           /\ buf' \in [Block -> Buffer] /\ writer' \in [Block -> Txn \cup {0}]
           /\ buf'[b].val = writes' /\ buf'[b].txn = t /\ buf'[b].lsn = n /\ writer'[b] = t
           /\ \A c \in Block : c # b => buf'[c] = buf[c] /\ writer'[c] = writer[c]
<1>1. /\ buf \in [Block -> Buffer] /\ writer \in [Block -> Txn \cup {0}] /\ writes \in Val
      /\ writes < MaxWrites /\ writes' = writes + 1 /\ Len(log) \in Nat
  BY SetFacts, LogFacts DEF TypeOK
<1>2. writes' \in Val  BY <1>1, RecoveryAssumption DEF Val
<1>3. AppendToLog(r) /\ Modify(b, writes', t, n)  BY DEF Set
<1>4. buf[b].val \in Val  BY <1>1 DEF Buffer
<1>5. /\ r \in LogRecord /\ r.op = "SET" /\ r.txn = t /\ r.block = b /\ r.val = buf[b].val
      /\ r.new = writes'
  BY <1>2, <1>4 DEF SetRecord, LogRecord, Op
<1>6. [val |-> writes', txn |-> t, lsn |-> n] \in Buffer  BY <1>1, <1>2 DEF Buffer
<1>7. /\ buf' \in [Block -> Buffer] /\ buf'[b] = [val |-> writes', txn |-> t, lsn |-> n]
      /\ \A c \in Block : c # b => buf'[c] = buf[c]
  BY <1>1, <1>3, <1>6 DEF Modify
<1>8. /\ writer' \in [Block -> Txn \cup {0}] /\ writer'[b] = t
      /\ \A c \in Block : c # b => writer'[c] = writer[c]
  BY <1>1, <1>3 DEF Modify
<1> QED  BY <1>2, <1>3, <1>5, <1>7, <1>8

LEMMA SetKeepsData ==
    ASSUME RecInv, NEW t \in Txn, NEW b \in Block, Set(t, b), NEW n, n = Len(log) + 1
    PROVE  /\ StoreOK' /\ LogGrows /\ Recovered' = Recovered /\ n \in Nat /\ n >= 1
           /\ Len(log') = n /\ durable' = durable /\ durable < n
           /\ log'[n].op = "SET" /\ log'[n].txn = t /\ log'[n].block = b
           /\ log'[n].val = buf[b].val /\ log'[n].new = writes'
           /\ \A i \in 1..Len(log) : log'[i] = log[i]
           /\ Recent' = Recent \cup {n} /\ \A i \in Recent : i \in 1..Len(log) /\ i < n
           /\ \A j \in (Len(log) + 1)..Len(log') : j = n
           /\ Unfinished(b)' = Unfinished(b) \cup {n}
           /\ \A c \in Block : c # b => Unfinished(c)' = Unfinished(c)
           /\ EndOf(t)' = {} /\ Writes(t)' = Writes(t) \cup {n}
           /\ EndsAfterWrites' /\ RecordsAreWhole' /\ PageIsBehind' /\ LogIsFlushedFirst'
           /\ CleanIsOnDisk' /\ RecoveredIsCommitted'
<1>1. PICK r : r = SetRecord(t, b, buf[b].val, writes')  OBVIOUS
<1>2. /\ AppendToLog(r) /\ r \in LogRecord
      /\ r.op = "SET" /\ r.txn = t /\ r.block = b /\ r.val = buf[b].val /\ r.new = writes'
      /\ buf' \in [Block -> Buffer] /\ buf'[b].txn = t /\ buf'[b].lsn = n
      /\ \A c \in Block : c # b => buf'[c] = buf[c]
  BY <1>1, SetEffect
<1>3. /\ EndOf(t) = {} /\ t \notin Finished /\ LogTyped /\ TypeOK /\ Serving
      /\ disk' = disk
  BY SetFacts
<1>4. /\ n \in Nat /\ n >= 1 /\ Len(log') = n /\ log'[n] = r /\ durable' = durable
      /\ durable < n /\ \A i \in 1..Len(log) : log'[i] = log[i]
      /\ LogTyped' /\ LogGrows /\ Recovered' = Recovered
      /\ Recent' = Recent \cup {n} /\ \A i \in Recent : i \in 1..Len(log) /\ i < n
      /\ \A j \in (Len(log) + 1)..Len(log') : j = n
  BY <1>2, <1>3, AppendFacts
<1>5. Len(log) \in Nat /\ durable \in Nat /\ durable <= Len(log)  BY <1>3, LogFacts
<1>6. /\ \A u : EndOf(u)' = EndOf(u) \cup {j \in {n} : r.txn = u /\ r.op \in {"COMMIT", "ROLLBACK"}}
      /\ \A u : Writes(u)' = Writes(u) \cup {j \in {n} : r.txn = u /\ r.op = "SET"}
      /\ \A c : Unfinished(c)' = Unfinished(c) \cup
            {j \in {n} : r.op = "SET" /\ r.block = c /\ r.txn \notin Finished}
  BY <1>2, <1>3, AppendSets
<1>7. EndOf(t)' = {}
  <2>1. EndOf(t)' = EndOf(t) \cup {j \in {n} : r.txn = t /\ r.op \in {"COMMIT", "ROLLBACK"}}
    BY <1>6
  <2> QED  BY <1>2, <1>3, <2>1
<1>8. Writes(t)' = Writes(t) \cup {n}
  <2>1. Writes(t)' = Writes(t) \cup {j \in {n} : r.txn = t /\ r.op = "SET"}  BY <1>6
  <2> QED  BY <1>2, <2>1
<1>9. Unfinished(b)' = Unfinished(b) \cup {n}
  <2>1. Unfinished(b)' = Unfinished(b) \cup
            {j \in {n} : r.op = "SET" /\ r.block = b /\ r.txn \notin Finished}
    BY <1>6
  <2> QED  BY <1>2, <1>3, <2>1
<1>10. ASSUME NEW c \in Block, c # b PROVE Unfinished(c)' = Unfinished(c)
  <2>1. Unfinished(c)' = Unfinished(c) \cup
            {j \in {n} : r.op = "SET" /\ r.block = c /\ r.txn \notin Finished}
    BY <1>6
  <2> QED  BY <1>2, <1>10, <2>1
<1>11. StoreOK'
  <2>1. \A c \in Block : buf'[c].lsn <= Len(log')
    <3> SUFFICES ASSUME NEW c \in Block PROVE buf'[c].lsn <= n  BY <1>4
    <3>1. CASE c = b  BY <1>2, <1>4, <3>1
    <3>2. CASE c # b
      <4>1. buf[c].lsn \in Nat /\ buf[c].lsn <= Len(log)  BY <1>3 DEF TypeOK, Buffer
      <4> QED  BY <1>2, <1>5, <3>2, <4>1
    <3> QED  BY <3>1, <3>2
  <2> QED  BY <1>2, <1>3, <1>4, <2>1 DEF StoreOK, TypeOK
<1>12. EndsAfterWrites'
  <2> SUFFICES ASSUME NEW i \in Recent', NEW j \in Recent', log'[i].op = "SET", IsEnd(j)',
                      log'[i].txn = log'[j].txn
               PROVE  i < j
    BY DEF EndsAfterWrites
  <2>1. j \in Recent /\ log'[j] = log[j] /\ IsEnd(j)  BY <1>2, <1>4 DEF IsEnd
  <2>2. CASE i = n
    <3>1. j \in EndOf(t)  BY <1>2, <1>4, <2>1, <2>2 DEF EndOf
    <3> QED  BY <1>3, <3>1
  <2>3. CASE i # n
    <3>1. i \in Recent /\ log'[i] = log[i]  BY <1>4, <2>3
    <3> QED  BY <2>1, <3>1 DEF RecInv, DataInv, EndsAfterWrites
  <2> QED  BY <2>2, <2>3
<1>13. RecordsAreWhole'
  <2> SUFFICES ASSUME NEW i \in 1..n
               PROVE  /\ log'[i].op = "SET" => log'[i].block \in Block
                      /\ log'[i].op # "CHECKPOINT" => log'[i].txn \in Txn
    BY <1>4 DEF RecordsAreWhole
  <2>1. CASE i = n  BY <1>2, <1>4, <2>1
  <2>2. CASE i # n
    <3>1. i \in 1..Len(log)  BY <1>5, <2>2
    <3> QED  BY <1>4, <3>1 DEF RecInv, DataInv, RecordsAreWhole
  <2> QED  BY <2>1, <2>2
<1>14. PageIsBehind'
  <2> SUFFICES ASSUME NEW c \in Block, NEW i \in Recent', First(i, c)', i > durable
               PROVE  disk[c] = log'[i].val
    BY <1>3, <1>4 DEF PageIsBehind
  <2>1. i \in Unfinished(c)' /\ \A k \in Unfinished(c)' : i <= k  BY DEF First
  <2>2. CASE c = b /\ Unfinished(b) = {}
    <3>1. i = n  BY <1>9, <2>1, <2>2
    <3>2. buf[b].val = disk[b]  BY <1>3, <2>2, NothingToUndo DEF Serving
    <3> QED  BY <1>2, <1>4, <2>2, <3>1, <3>2
  <2>3. CASE c = b /\ Unfinished(b) # {}
    <3>1. PICK k \in Unfinished(b) : TRUE  BY <2>3
    <3>2. i <= k /\ k < n /\ k \in Nat  BY <1>4, <1>9, <2>1, <2>3, <3>1 DEF Unfinished
    <3>3. i # n  BY <1>4, <3>2
    <3>4. First(i, b) /\ i \in Recent  BY <1>9, <2>1, <2>3, <3>3 DEF First, Unfinished
    <3>5. log'[i] = log[i]  BY <1>4, <3>4
    <3> QED  BY <2>3, <3>4, <3>5 DEF RecInv, DataInv, PageIsBehind
  <2>4. CASE c # b
    <3>1. First(i, c) /\ i \in Recent  BY <1>10, <2>1, <2>4 DEF First, Unfinished
    <3>2. log'[i] = log[i]  BY <1>4, <3>1
    <3> QED  BY <3>1, <3>2 DEF RecInv, DataInv, PageIsBehind
  <2> QED  BY <2>2, <2>3, <2>4
<1>15. LogIsFlushedFirst'
  <2> SUFFICES ASSUME NEW i \in (durable + 1)..n, log'[i].op = "SET"
               PROVE  buf'[log'[i].block].lsn >= i
    BY <1>4 DEF LogIsFlushedFirst
  <2>1. CASE i = n  BY <1>2, <1>4, <2>1
  <2>2. CASE i # n
    <3>1. i \in (durable + 1)..Len(log) /\ i \in 1..Len(log)  BY <1>5, <2>2
    <3>2. log'[i] = log[i]  BY <1>4, <3>1
    <3>3. buf[log[i].block].lsn >= i /\ log[i].block \in Block
      BY <3>1, <3>2 DEF RecInv, DataInv, LogIsFlushedFirst, RecordsAreWhole
    <3>4. CASE log[i].block = b  BY <1>2, <1>4, <3>2, <3>4
    <3>5. CASE log[i].block # b  BY <1>2, <3>2, <3>3, <3>5
    <3> QED  BY <3>4, <3>5
  <2> QED  BY <2>1, <2>2
<1>16. CleanIsOnDisk'
  <2> SUFFICES ASSUME NEW c \in Block, buf'[c].txn = 0 PROVE disk[c] = buf'[c].val
    BY <1>3 DEF CleanIsOnDisk
  <2>1. c # b  BY <1>2, OneIsTxn
  <2>2. buf'[c] = buf[c]  BY <1>2, <2>1
  <2> QED  BY <2>2 DEF RecInv, DataInv, CleanIsOnDisk
<1>17. RecoveredIsCommitted'
  <2> SUFFICES ASSUME NEW c \in Block, NEW v, v = Recovered[c] PROVE CommittedValue(c, v)'
    BY <1>4 DEF RecoveredIsCommitted
  <2>1. CommittedValue(c, v)  BY DEF RecInv, DataInv, RecoveredIsCommitted
  <2>2. durable <= durable' /\ \A i \in 1..durable : log'[i] = log[i]  BY <1>4, <1>5
  <2> QED  BY <1>3, <1>4, <2>1, <2>2, CommittedValueKept
<1> QED  BY <1>2, <1>4, <1>7, <1>8, <1>9, <1>10, <1>11, <1>12, <1>13, <1>14, <1>15, <1>16, <1>17

LEMMA SetInv == ASSUME RecInv, NEW t \in Txn, NEW b \in Block, Set(t, b) PROVE RecInv'
<1>1. PICK n : n = Len(log) + 1  OBVIOUS
<1>2. /\ phase[t] = "active" /\ writer[b] \in {0, t} /\ Serving /\ TypeOK /\ TxnInv(t)
      /\ EndOf(t) = {} /\ LogTyped /\ \A i \in Unfinished(b) : log[i].txn = t
      /\ buf[b].val \in Origin(t, b)
      /\ UNCHANGED <<disk, program, calls, clients, crashes>>
  BY SetFacts
<1>3. /\ writes' \in Val
      /\ buf' \in [Block -> Buffer] /\ writer' \in [Block -> Txn \cup {0}]
      /\ buf'[b].val = writes' /\ buf'[b].txn = t /\ buf'[b].lsn = n /\ writer'[b] = t
      /\ \A c \in Block : c # b => buf'[c] = buf[c] /\ writer'[c] = writer[c]
  BY <1>1, SetEffect
<1>4. /\ StoreOK' /\ LogGrows /\ Recovered' = Recovered /\ n \in Nat /\ n >= 1
      /\ Len(log') = n /\ durable' = durable /\ durable < n
      /\ log'[n].op = "SET" /\ log'[n].txn = t /\ log'[n].block = b
      /\ log'[n].val = buf[b].val /\ log'[n].new = writes'
      /\ \A i \in 1..Len(log) : log'[i] = log[i]
      /\ Recent' = Recent \cup {n} /\ \A i \in Recent : i \in 1..Len(log) /\ i < n
      /\ \A j \in (Len(log) + 1)..Len(log') : j = n
      /\ Unfinished(b)' = Unfinished(b) \cup {n}
      /\ \A c \in Block : c # b => Unfinished(c)' = Unfinished(c)
      /\ EndOf(t)' = {} /\ Writes(t)' = Writes(t) \cup {n}
      /\ EndsAfterWrites' /\ RecordsAreWhole' /\ PageIsBehind' /\ LogIsFlushedFirst'
      /\ CleanIsOnDisk' /\ RecoveredIsCommitted'
  BY <1>1, SetKeepsData
<1>5. /\ disk' = disk /\ state' = state /\ isNew' = isNew /\ lastTxn' = lastTxn
      /\ phase' = phase /\ ending' = ending /\ cursor' = cursor /\ finished' = finished
  BY <1>2 DEF program, calls
<1>6. Len(log) \in Nat /\ durable \in Nat /\ durable <= Len(log) /\ t # 0
  BY <1>2, LogFacts, OneIsTxn
<1>7. Serving' /\ ~Recovering'  BY <1>2, <1>5, OneMode DEF Serving, Recovering
<1>8. DataInv'
  <2>1. cursor' \in [Txn -> 0..Len(log')]
    <3>1. \A u \in Txn : cursor[u] \in 0..Len(log')  BY <1>1, <1>2, <1>4, <1>6 DEF TypeOK
    <3> QED  BY <1>2, <1>5, <3>1 DEF TypeOK
  <2>2. \A c \in Block : buf'[c].txn # 0 => writer'[c] = buf'[c].txn  BY <1>2, <1>3 DEF TypeOK
  <2>3. ControlOK'  BY <1>2, <1>3, <1>5, <2>1, <2>2 DEF TypeOK, ControlOK
  <2>4. TypeOK'  BY <1>4, <2>3, TypePartsNext
  <2> QED  BY <1>4, <2>4 DEF DataInv
<1>9. ControlInv'
  <2>1. WritersRun'
    <3>1. ASSUME NEW u \in Txn, NEW c \in Block, buf'[c].txn = u
          PROVE  phase[u] \in {"active", "undo", "recover", "flush"}
      BY <1>2, <1>3, <3>1 DEF RecInv, ControlInv, WritersRun
    <3>2. ASSUME NEW u \in Txn, NEW c \in Block, writer'[c] = u
          PROVE  phase[u] \notin {"none", "ended"}
      BY <1>2, <1>3, <3>2 DEF RecInv, ControlInv, WritersRun
    <3> QED  BY <1>5, <3>1, <3>2 DEF WritersRun
  <2>2. CheckpointsOnDisk'
    <3> SUFFICES ASSUME NEW j \in (durable + 1)..n, log'[j].op = "CHECKPOINT" PROVE FALSE
      BY <1>4 DEF CheckpointsOnDisk
    <3>1. j # n  BY <1>4
    <3>2. j \in (durable + 1)..Len(log) /\ j \in 1..Len(log)  BY <1>1, <1>6, <3>1
    <3>3. log[j].op = "CHECKPOINT"  BY <1>4, <3>2
    <3>4. state = "starting" /\ ending[1] = "CHECKPOINT"
      BY <3>2, <3>3 DEF RecInv, ControlInv, CheckpointsOnDisk
    <3> QED  BY <1>2, <3>4 DEF Serving, Recovering
  <2>3. ProgramState'
    BY <1>2, <1>5 DEF Serving, RecInv, ControlInv, ProgramState
  <2> QED  BY <2>1, <2>2, <2>3 DEF ControlInv
<1>10. ASSUME NEW c \in Block PROVE BlockInv(c)'
  <2>1. BlockInv(c)  BY <1>2 DEF RecInv, ServingInv
  <2>2. CASE c # b
    <3>1. \A i \in Unfinished(c) : phase'[log[i].txn] \in {"active", "undo", "flush", "force"}
      BY <1>5, <2>1 DEF BlockInv, WriterHolds
    <3> QED  BY <1>2, <1>3, <1>4, <2>1, <2>2, <3>1, BlockKept
  <2>3. CASE c = b
    <3>1. \A i \in Unfinished(b) : log'[i] = log[i]  BY <1>4 DEF Unfinished
    <3>2. WriterHolds(b)'  BY <1>2, <1>3, <1>4, <1>5, <3>1 DEF WriterHolds
    <3>3. DirtyHasWrite(b)'  BY <1>3, <1>4 DEF DirtyHasWrite
    <3>4. Origin(t, b) \subseteq Origin(t, b)'  BY <1>2, <1>4, OriginKept
    <3>5. ValuesKnown(b)'
      <4> SUFFICES ASSUME NEW i \in Unfinished(b)', NEW u \in Txn, log'[i].txn = u
                   PROVE  log'[i].val \in Origin(u, b)' /\ buf'[b].val \in Origin(u, b)'
        BY DEF ValuesKnown
      <4>1. u = t  BY <1>2, <1>4, <3>1
      <4>2. buf'[b].val \in Origin(t, b)'  BY <1>3, <1>4 DEF Origin
      <4>3. CASE i = n  BY <1>2, <1>4, <3>4, <4>1, <4>2, <4>3
      <4>4. CASE i # n
        <5>1. i \in Unfinished(b)  BY <1>4, <4>4
        <5>2. log[i].val \in Origin(t, b)
          BY <1>2, <2>1, <2>3, <5>1 DEF BlockInv, ValuesKnown
        <5> QED  BY <3>1, <3>4, <4>1, <4>2, <5>1, <5>2
      <4> QED  BY <4>3, <4>4
    <3> QED  BY <2>3, <3>2, <3>3, <3>5 DEF BlockInv
  <2> QED  BY <2>2, <2>3
<1>11. ASSUME NEW u \in Txn, u # t PROVE TxnInv(u)'
  <2>1. TxnInv(u)  BY <1>2 DEF RecInv, ServingInv
  <2>2. \A j \in (Len(log) + 1)..Len(log') : log'[j].txn # u  BY <1>4, <1>11
  <2>3. ASSUME NEW c \in Block, NEW k \in Unfinished(c), log[k].txn = u PROVE c # b
    BY <1>2, <1>11, <2>3
  <2>4. ASSUME phase[u] = "undo", NEW k \in Writes(u)
        PROVE  buf'[log[k].block].val = buf[log[k].block].val
    <3>1. EndOf(u) = {}  BY <2>1, <2>4 DEF TxnInv, NoEndYet
    <3>2. u \notin Finished  BY <1>2, <3>1, FinishedFacts
    <3>3. k \in 1..Len(log) /\ log[k].op = "SET" /\ log[k].txn = u /\ k \in Recent
      BY <1>2, RecentPositions DEF Writes
    <3>4. log[k].block \in Block  BY <3>3 DEF RecInv, DataInv, RecordsAreWhole
    <3>5. k \in Unfinished(log[k].block)  BY <3>2, <3>3 DEF Unfinished
    <3> QED  BY <1>3, <2>3, <3>3, <3>4, <3>5
  <2>5. ASSUME NEW c \in Block, NEW k \in Writes(u), First(k, c)'
        PROVE  log[k].block = c /\ First(k, c) /\ buf'[c].val = buf[c].val
    <3>1. k \in Unfinished(c)' /\ k \in Recent /\ log[k].txn = u
      BY <2>5 DEF First, Writes
    <3>2. k # n  BY <1>4, <3>1
    <3>3. k \in Unfinished(c)  BY <1>4, <3>1, <3>2
    <3>4. c # b  BY <2>3, <3>1, <3>3
    <3> QED  BY <1>3, <1>4, <2>5, <3>3, <3>4 DEF First, Unfinished
  <2> QED  BY <1>2, <1>4, <1>5, <1>11, <2>1, <2>2, <2>4, <2>5, TxnKept
<1>12. TxnInv(t)'
  <2>1. NoEndYet(t)' /\ NoRecordYet(t)'  BY <1>2, <1>4, <1>5 DEF NoEndYet, NoRecordYet
  <2>2. EndIsForced(t)' /\ UndoneSoFar(t)' /\ RolledBack(t)'
    BY <1>2, <1>5 DEF EndIsForced, UndoneSoFar, RolledBack
  <2>3. NoSecondStart(t)'
    <3> SUFFICES ASSUME NEW k \in Writes(t)', NEW s \in k..n,
                        log'[s].txn = t, log'[s].op = "START"
                 PROVE  FALSE
      BY <1>4 DEF NoSecondStart
    <3>1. s # n  BY <1>4
    <3>2. k \in Writes(t) /\ k \in 1..Len(log)
      <4>1. k # n  BY <1>4, <3>1
      <4> QED  BY <1>4, <4>1 DEF Writes
    <3>3. s \in k..Len(log) /\ s \in 1..Len(log)  BY <1>1, <1>6, <3>1, <3>2
    <3>4. log'[s] = log[s]  BY <1>4, <3>3
    <3> QED  BY <1>2, <3>2, <3>3, <3>4 DEF TxnInv, NoSecondStart
  <2>4. Begun(t)'
    <3>1. PICK s \in 1..Len(log) :
             /\ log[s] = Record("START", t)
             /\ \A j \in s..Len(log) : log[j].txn = t /\ IsEnd(j) => j \in Recent
             /\ t # 1 => s \in Recent
      BY <1>2 DEF TxnInv, Begun
    <3>2. s \in 1..n /\ log'[s] = Record("START", t)  BY <1>1, <1>4, <1>6, <3>1
    <3>3. ASSUME NEW j \in s..n, log'[j].txn = t, IsEnd(j)' PROVE j \in Recent'
      <4>1. CASE j = n  BY <1>4, <4>1
      <4>2. CASE j # n
        <5>1. j \in s..Len(log) /\ j \in 1..Len(log)  BY <1>1, <1>6, <3>1, <4>2
        <5>2. log'[j] = log[j]  BY <1>4, <5>1
        <5> QED  BY <1>4, <3>1, <3>3, <5>1, <5>2 DEF IsEnd
      <4> QED  BY <4>1, <4>2
    <3>4. t # 1 => s \in Recent'  BY <1>4, <3>1
    <3> QED  BY <1>2, <1>4, <1>5, <3>2, <3>3, <3>4 DEF Begun, Record
  <2> QED  BY <2>1, <2>2, <2>3, <2>4 DEF TxnInv
<1> QED  BY <1>7, <1>8, <1>9, <1>10, <1>11, <1>12 DEF RecInv, ServingInv

-----------------------------------------------------------------------------
(* The program comes and goes                                                *)

LEMMA CrashKeepsStore ==
    ASSUME RecInv, Crash PROVE LastCheckpoint' = LastCheckpoint /\ Recovered' = Recovered
<1>1. /\ log' = SubSeq(log, 1, durable) /\ durable' = Len(log') /\ disk' = disk
  BY DEF Crash, CrashWithLog
<1>2. LogTyped /\ Len(log) \in Nat /\ durable \in Nat /\ durable <= Len(log) /\ log \in Seq(LogRecord)
  BY TypesOfLog, LogFacts DEF RecInv, DataInv, LogTyped
<1>3. /\ Len(log') = durable /\ log' \in Seq(LogRecord)
      /\ \A i \in 1..durable : log'[i] = log[i]
  BY <1>1, <1>2
<1>4. durable' = durable /\ LogTyped'  BY <1>1, <1>2, <1>3 DEF LogTyped
<1> QED  BY <1>1, <1>2, <1>3, <1>4, PrefixKept

LEMMA CrashInv == ASSUME RecInv, Crash PROVE RecInv'
<1>1. /\ log' = SubSeq(log, 1, durable) /\ durable' = Len(log') /\ buf' = Fresh
      /\ writer' = [b \in Block |-> 0] /\ state' = "down" /\ isNew' = FALSE /\ lastTxn' = 0
      /\ phase' = [t \in Txn |-> "none"] /\ ending' = [t \in Txn |-> "COMMIT"]
      /\ cursor' = [t \in Txn |-> 0] /\ finished' = {} /\ disk' = disk /\ writes' = writes
  BY DEF Crash, CrashWithLog
<1>2. TypeOK /\ LogTyped /\ Len(log) \in Nat /\ durable \in Nat /\ durable <= Len(log)
      /\ log \in Seq(LogRecord)
  BY TypesOfLog, LogFacts DEF RecInv, DataInv, LogTyped
<1>3. /\ Len(log') = durable /\ log' \in Seq(LogRecord)
      /\ \A i \in 1..durable : log'[i] = log[i]
  BY <1>1, <1>2
<1>4. durable' = durable /\ LogTyped'  BY <1>1, <1>2, <1>3 DEF LogTyped
<1>5. LastCheckpoint' = LastCheckpoint /\ Recovered' = Recovered  BY CrashKeepsStore
<1>6. Recent' \subseteq Recent /\ \A i \in Recent' : i \in 1..durable
  <2>1. LastCheckpoint \in 0..durable  BY <1>2, CheckpointFacts
  <2>2. Recent' = (LastCheckpoint + 1)..durable  BY <1>3, <1>5 DEF Recent
  <2>3. Recent = (LastCheckpoint + 1)..Len(log)  BY DEF Recent
  <2> QED  BY <1>2, <2>1, <2>2, <2>3
<1>7. /\ buf' \in [Block -> Buffer]
      /\ \A b \in Block : buf'[b].txn = 0 /\ buf'[b].lsn = 0 /\ buf'[b].val = disk[b]
  BY <1>1, <1>2 DEF Fresh, Buffer, TypeOK
<1>8. DataInv'
  <2>1. StoreOK'
    <3>1. \A b \in Block : buf'[b].lsn <= Len(log')  BY <1>2, <1>3, <1>7
    <3> QED  BY <1>1, <1>2, <1>4, <1>7, <3>1 DEF StoreOK, TypeOK
  <2>2. \A t \in Txn : t > lastTxn' <=> phase'[t] = "none"
    <3>1. \A t \in Txn : t > 0  BY OneIsTxn
    <3> QED  BY <1>1, <3>1
  <2>3. phase' \in [Txn -> Phase]  BY <1>1 DEF Phase
  <2>4. ControlOK'
    <3>1. lastTxn' \in 0..(MaxClients + 1)  BY <1>1, RecoveryAssumption
    <3>2. cursor' \in [Txn -> 0..Len(log')]  BY <1>1, <1>2, <1>3
    <3> QED  BY <1>1, <1>2, <1>7, <2>2, <2>3, <3>1, <3>2 DEF ControlOK, TypeOK
  <2>5. TypeOK'  BY <2>1, <2>4, TypePartsNext
  <2>6. EndsAfterWrites'
    BY <1>3, <1>6 DEF RecInv, DataInv, EndsAfterWrites, IsEnd
  <2>7. RecordsAreWhole'
    <3>1. \A i \in 1..Len(log') : i \in 1..Len(log) /\ log'[i] = log[i]  BY <1>2, <1>3
    <3> QED  BY <3>1 DEF RecInv, DataInv, RecordsAreWhole
  <2>8. PageIsBehind'
    <3>1. \A i \in Recent' : ~(i > durable')  BY <1>2, <1>4, <1>6
    <3> QED  BY <3>1 DEF PageIsBehind
  <2>9. LogIsFlushedFirst'
    <3>1. \A i \in (durable' + 1)..Len(log') : FALSE  BY <1>2, <1>3, <1>4
    <3> QED  BY <3>1 DEF LogIsFlushedFirst
  <2>10. CleanIsOnDisk'  BY <1>1, <1>7 DEF CleanIsOnDisk
  <2>11. RecoveredIsCommitted'
    <3> SUFFICES ASSUME NEW b \in Block, NEW v, v = Recovered[b] PROVE CommittedValue(b, v)'
      BY <1>5 DEF RecoveredIsCommitted
    <3>1. CommittedValue(b, v)  BY DEF RecInv, DataInv, RecoveredIsCommitted
    <3>2. durable <= durable'  BY <1>2, <1>4
    <3> QED  BY <1>2, <1>3, <1>4, <3>1, <3>2, CommittedValueKept
  <2> QED  BY <2>5, <2>6, <2>7, <2>8, <2>9, <2>10, <2>11 DEF DataInv
<1>9. ControlInv'
  <2>1. WritersRun'  BY <1>1, <1>7, OneIsTxn DEF WritersRun
  <2>2. \A i \in (durable' + 1)..Len(log') : FALSE  BY <1>2, <1>3, <1>4
  <2>3. CheckpointsOnDisk'  BY <2>2 DEF CheckpointsOnDisk
  <2>4. ProgramState'  BY <1>1, <1>3, <1>4, OneIsTxn DEF ProgramState, Fresh
  <2> QED  BY <2>1, <2>3, <2>4 DEF ControlInv
<1>10. ~Serving' /\ ~Recovering'  BY <1>1 DEF Serving, Recovering
<1> QED  BY <1>8, <1>9, <1>10 DEF RecInv

LEMMA StartInv == ASSUME RecInv, Start PROVE RecInv'
<1> DEFINE r == Record("START", 1)
<1>1. PICK n : n = Len(log) + 1  OBVIOUS
<1>2. /\ state = "down" /\ state' = "starting" /\ lastTxn' = 1 /\ AppendToLog(r)
      /\ phase' = [phase EXCEPT ![1] = "active"]
      /\ UNCHANGED <<disk, buf, writer, isNew, ending, cursor, finished, bounds>>
  BY DEF Start
<1>3. /\ disk' = disk /\ buf' = buf /\ writer' = writer /\ isNew' = isNew
      /\ ending' = ending /\ cursor' = cursor /\ finished' = finished /\ writes' = writes
  BY <1>2 DEF bounds
<1>4. /\ TypeOK /\ durable = Len(log) /\ lastTxn = 0
      /\ \A b \in Block : buf[b].txn = 0 /\ writer[b] = 0
      /\ isNew => log = <<>>
  BY <1>2 DEF RecInv, DataInv, ControlInv, ProgramState, Fresh
<1>5. \A u \in Txn : phase[u] = "none" /\ ending[u] = "COMMIT"
  <2> SUFFICES ASSUME NEW u \in Txn PROVE phase[u] = "none" /\ ending[u] = "COMMIT"  OBVIOUS
  <2>1. phase[u] = "none"  BY <1>4, OneIsTxn DEF TypeOK
  <2> QED  BY <2>1 DEF RecInv, ControlInv, ProgramState
<1>6. /\ phase'[1] = "active" /\ \A u \in Txn : u # 1 => phase'[u] = "none"
      /\ phase' \in [Txn -> Phase] /\ 1 \in Txn /\ ending[1] = "COMMIT" /\ finished = {}
  BY <1>2, <1>4, <1>5, OneIsTxn DEF TypeOK, Phase, RecInv, ControlInv, ProgramState
<1>7. LogTyped /\ Len(log) \in Nat /\ r \in LogRecord /\ r.op = "START" /\ r.txn = 1
  <2>1. r \in LogRecord /\ r.op = "START" /\ r.txn = 1
    BY RecoveryAssumption, OneIsTxn DEF Record, LogRecord, Op, Val, Zero
  <2> QED  BY <1>4, <2>1, TypesOfLog, LogFacts
<1>8. /\ n \in Nat /\ n >= 1 /\ Len(log') = n /\ log'[n] = r /\ durable' = durable
      /\ durable < n /\ Recent' = Recent \cup {n}
      /\ \A i \in 1..Len(log) : log'[i] = log[i]
  BY <1>1, <1>2, <1>7, AppendFacts
<1>9. /\ StoreOK' /\ \A c : Unfinished(c)' = Unfinished(c)
      /\ EndsAfterWrites' /\ RecordsAreWhole' /\ PageIsBehind' /\ LogIsFlushedFirst'
      /\ CleanIsOnDisk' /\ RecoveredIsCommitted'
  <2>1. UNCHANGED <<disk, buf>> /\ r.op # "SET" /\ r.txn \in Txn  BY <1>3, <1>6, <1>7
  <2> HIDE DEF r
  <2> QED  BY <1>1, <1>2, <1>7, <2>1, AppendKeepsData
<1>10. \A j \in (durable' + 1)..Len(log') : j = n  BY <1>1, <1>4, <1>7, <1>8
<1>11. DataInv'
  <2>1. cursor' \in [Txn -> 0..Len(log')]
    <3>1. \A u \in Txn : cursor[u] \in 0..Len(log')  BY <1>1, <1>4, <1>7, <1>8 DEF TypeOK
    <3> QED  BY <1>3, <1>4, <3>1 DEF TypeOK
  <2>2. lastTxn' \in 0..(MaxClients + 1)  BY <1>2, RecoveryAssumption
  <2>3. \A u \in Txn : u > lastTxn' <=> phase'[u] = "none"
    <3>1. ASSUME NEW u \in Txn PROVE u > 1 <=> u # 1  BY OneIsTxn
    <3> QED  BY <1>2, <1>6, <3>1
  <2>4. ControlOK'  BY <1>2, <1>3, <1>4, <1>6, <2>1, <2>2, <2>3 DEF TypeOK, ControlOK
  <2>5. TypeOK'  BY <1>9, <2>4, TypePartsNext
  <2> QED  BY <1>9, <2>5 DEF DataInv
<1>12. ControlInv'
  <2>1. WritersRun'  BY <1>3, <1>4, OneIsTxn DEF WritersRun
  <2>2. CheckpointsOnDisk'  BY <1>7, <1>8, <1>10 DEF CheckpointsOnDisk
  <2>3. ProgramState'  BY <1>2, <1>3, <1>5, <1>6 DEF ProgramState
  <2> QED  BY <2>1, <2>2, <2>3 DEF ControlInv
<1>13. Serving' <=> isNew  BY <1>2, <1>3, <1>6 DEF Serving, Recovering
<1>14. Recovering' <=> ~isNew  BY <1>2, <1>3, <1>6 DEF Recovering
<1>15. n \in 1..Len(log') /\ \A j \in n..Len(log') : j = n /\ ~IsEnd(j)'
  <2>1. n \in 1..Len(log') /\ \A j \in n..Len(log') : j = n  BY <1>8
  <2> QED  BY <1>7, <1>8, <2>1 DEF IsEnd
<1>16. ASSUME isNew PROVE ServingInv'
  <2>1. Recent = {} /\ Recent' = {n}
    <3>1. Len(log) = 0  BY <1>4, <1>16
    <3> QED  BY <1>7, <1>8, <3>1, RecentPositions
  <2>2. /\ \A b : Unfinished(b)' = {} /\ \A i : ~First(i, b)'
        /\ \A u : EndOf(u)' = {} /\ Writes(u)' = {}
    BY <1>7, <1>8, <1>9, <2>1 DEF Unfinished, First, EndOf, Writes, IsEnd
  <2>3. ASSUME NEW b \in Block PROVE BlockInv(b)'
    BY <1>3, <1>4, <2>2, OneIsTxn DEF BlockInv, WriterHolds, DirtyHasWrite, ValuesKnown
  <2>4. ASSUME NEW u \in Txn PROVE TxnInv(u)'
    <3>1. NoEndYet(u)' /\ NoSecondStart(u)' /\ UndoneSoFar(u)' /\ RolledBack(u)'
      BY <2>2 DEF NoEndYet, NoSecondStart, UndoneSoFar, RolledBack
    <3>2. EndIsForced(u)'  BY <1>6 DEF EndIsForced
    <3>3. NoRecordYet(u)'  BY <1>6, <1>7, <1>8, <2>1 DEF NoRecordYet
    <3>4. Begun(u)'
      <4>1. CASE u = 1  BY <1>8, <1>15, <4>1 DEF Begun, Record
      <4>2. CASE u # 1  BY <1>6, <4>2 DEF Begun
      <4> QED  BY <4>1, <4>2
    <3> QED  BY <3>1, <3>2, <3>3, <3>4 DEF TxnInv
  <2> QED  BY <2>3, <2>4 DEF ServingInv
<1>17. ASSUME ~isNew PROVE RecoveringInv'
  <2>1. RecoveryBegun'  BY <1>8, <1>15 DEF RecoveryBegun, Record
  <2>2. RecoveryTail'  BY <1>6, <1>8, <1>10 DEF RecoveryTail, Record
  <2>3. NotYetRecovered' /\ RecoveredSoFar' /\ RecoveryDone'
    BY <1>3, <1>4, <1>6 DEF NotYetRecovered, RecoveredSoFar, RecoveryDone
  <2> QED  BY <1>6, <2>1, <2>2, <2>3 DEF RecoveringInv
<1> QED  BY <1>11, <1>12, <1>13, <1>14, <1>16, <1>17 DEF RecInv

LEMMA InitInv == Init => RecInv
<1> SUFFICES ASSUME Init PROVE RecInv  OBVIOUS
<1>1. /\ disk = [b \in Block |-> Zero] /\ log = <<>> /\ durable = 0 /\ buf = Fresh
      /\ writer = [b \in Block |-> 0] /\ state = "down" /\ isNew = TRUE /\ lastTxn = 0
      /\ phase = [t \in Txn |-> "none"] /\ ending = [t \in Txn |-> "COMMIT"]
      /\ cursor = [t \in Txn |-> 0] /\ finished = {} /\ writes = 0
  BY DEF Init
<1>2. /\ log \in Seq(LogRecord) /\ Len(log) = 0 /\ LogTyped  BY <1>1 DEF LogTyped
<1>3. Recent = {} /\ 1..Len(log) = {} /\ (durable + 1)..Len(log) = {}
  BY <1>1, <1>2, RecentPositions
<1>4. Zero \in Val /\ 0 \in Val  BY RecoveryAssumption DEF Zero, Val
<1>5. /\ buf \in [Block -> Buffer]
      /\ \A b \in Block : buf[b].val = Zero /\ buf[b].txn = 0 /\ buf[b].lsn = 0
  BY <1>1, <1>4 DEF Fresh, Buffer
<1>6. TypeOK
  <2>1. StoreOK  BY <1>1, <1>2, <1>4, <1>5 DEF StoreOK
  <2>2. \A t \in Txn : t > lastTxn <=> phase[t] = "none"  BY <1>1, OneIsTxn
  <2>3. phase \in [Txn -> Phase]  BY <1>1 DEF Phase
  <2>4. lastTxn \in 0..(MaxClients + 1)  BY <1>1, RecoveryAssumption
  <2>5. ControlOK  BY <1>1, <1>2, <1>4, <1>5, <2>2, <2>3, <2>4 DEF ControlOK
  <2> QED  BY <2>1, <2>5, TypeParts
<1>7. PageIsBehind  BY <1>3 DEF PageIsBehind
<1>8. \A b \in Block : Recovered[b] = Zero
  <2>1. \A b : Unfinished(b) = {}  BY <1>3 DEF Unfinished
  <2> QED  BY <1>1, <1>2, <1>7, <2>1, RecoveredFacts
<1>9. DataInv
  BY <1>1, <1>3, <1>5, <1>6, <1>7, <1>8
     DEF DataInv, EndsAfterWrites, RecordsAreWhole, LogIsFlushedFirst, CleanIsOnDisk,
         RecoveredIsCommitted, CommittedValue
<1>10. ControlInv
  BY <1>1, <1>2, <1>3, <1>5, OneIsTxn DEF ControlInv, WritersRun, CheckpointsOnDisk, ProgramState
<1>11. ~Serving /\ ~Recovering  BY <1>1 DEF Serving, Recovering
<1> QED  BY <1>9, <1>10, <1>11 DEF RecInv

(* A step that changes nothing. *)
LEMMA StutterInv == ASSUME RecInv, UNCHANGED vars PROVE RecInv'
<1>1. UNCHANGED <<durables, buf, writer, program, calls, bounds>>  BY DEF vars
<1>2. FlushStep /\ StoreOK'  BY <1>1, NothingFlushed
<1>3. CASE state # "down"  BY <1>1, <1>2, <1>3, FlushOnly
<1>4. CASE state = "down"
  <2>1. /\ disk' = disk /\ log' = log /\ durable' = durable /\ buf' = buf /\ writer' = writer
        /\ state' = state /\ isNew' = isNew /\ lastTxn' = lastTxn /\ phase' = phase
        /\ ending' = ending /\ cursor' = cursor /\ finished' = finished /\ writes' = writes
    BY <1>1 DEF durables, program, calls, bounds
  <2>2. LogTyped /\ LogTyped'  BY <1>2, TypesOfLog DEF RecInv, DataInv, StoreOK
  <2>3. Finished' = Finished /\ Recovered' = Recovered  BY <2>1, <2>2, PrefixKept
  <2>4. Recent' = Recent /\ LastCheckpoint' = LastCheckpoint
    BY <1>2, FlushGrows DEF LogGrows
  <2>5. TypeOK'
    <3>1. ControlOK'  BY <2>1, TypeParts DEF RecInv, DataInv, ControlOK
    <3> QED  BY <1>2, <3>1, TypePartsNext
  <2>6. EndsAfterWrites' /\ RecordsAreWhole' /\ LogIsFlushedFirst' /\ CleanIsOnDisk'
    BY <2>1, <2>4
       DEF RecInv, DataInv, EndsAfterWrites, RecordsAreWhole, LogIsFlushedFirst, CleanIsOnDisk, IsEnd
  <2>7. PageIsBehind'
    BY <2>1, <2>3, <2>4 DEF RecInv, DataInv, PageIsBehind, First, Unfinished
  <2>8. RecoveredIsCommitted'
    BY <2>1, <2>3
       DEF RecInv, DataInv, RecoveredIsCommitted, CommittedValue, CommitOf, Record
  <2>9. ControlInv'
    BY <2>1 DEF RecInv, ControlInv, WritersRun, CheckpointsOnDisk, ProgramState, Fresh
  <2>10. ~Serving' /\ ~Recovering'  BY <1>4, <2>1 DEF Serving, Recovering
  <2> QED  BY <2>5, <2>6, <2>7, <2>8, <2>9, <2>10 DEF RecInv, DataInv
<1> QED  BY <1>3, <1>4

-----------------------------------------------------------------------------
(* What the invariant gives                                                  *)

(* Every state satisfies the invariant: what the log on disk makes of every *)
(* block is a committed value, whatever of a transaction, a rollback or a   *)
(* recovery has been done, and once transactions are served nobody but the  *)
(* writer of a block sees another one.                                      *)
THEOREM RecoveryInvariant == Spec => []RecInv
<1>1. Init => RecInv  BY InitInv
<1>2. RecInv /\ [Next]_vars => RecInv'
  <2> SUFFICES ASSUME RecInv, [Next]_vars PROVE RecInv'  OBVIOUS
  <2>1. CASE Crash  BY <2>1, CrashInv
  <2>2. CASE Starting
    BY <2>2, StartInv, RecoverInv, RecoverNextInv, RecoverDoneInv DEF Starting
  <2>3. CASE FullPage  BY <2>3, FullPageInv
  <2>4. ASSUME NEW b \in Block, Replace(b) PROVE RecInv'  BY <2>4, ReplaceInv
  <2>5. ASSUME NEW t \in Txn, Run(t) PROVE RecInv'
    <3>1. CASE UndoNext(t)  BY <3>1, UndoNextInv
    <3>2. CASE WriteEnd(t)  BY <3>2, WriteEndInv, WriteCheckpointInv
    <3>3. CASE ForceLog(t)  BY <3>3, ForceEndInv, ForceCheckpointInv
    <3>4. CASE Release(t)  BY <3>4, ReleaseInv
    <3>5. ASSUME NEW b \in Block, FlushOne(t, b) PROVE RecInv'  BY <3>5, FlushOneInv
    <3> QED  BY <2>5, <3>1, <3>2, <3>3, <3>4, <3>5 DEF Run
  <2>6. ASSUME NEW t \in Txn, NewTxn(t) \/ Commit(t) \/ Rollback(t) \/ UndoFails(t) PROVE RecInv'
    BY <2>6, NewTxnInv, CommitInv, RollbackInv, UndoFailsInv
  <2>7. ASSUME NEW t \in Txn, NEW b \in Block, Set(t, b) PROVE RecInv'  BY <2>7, SetInv
  <2>8. CASE UNCHANGED vars  BY <2>8, StutterInv
  <2> QED  BY <2>1, <2>2, <2>3, <2>4, <2>5, <2>6, <2>7, <2>8 DEF Next
<1> QED  BY <1>1, <1>2, PTL DEF Spec

(* The types of the variables, and the locks that go with dirty buffers.    *)
THEOREM TypeCorrect == Spec => []TypeOK
<1>1. RecInv => TypeOK  BY DEF RecInv, DataInv
<1> QED  BY <1>1, RecoveryInvariant, PTL

(* A block that nobody is writing, or whose writer has its end on disk, has *)
(* nothing a recovery would undo.                                           *)
LEMMA SeenHasNothingToUndo ==
    ASSUME RecInv, state = "open", NEW b \in Block, writer[b] = 0 \/ EndedOnDisk(writer[b])
    PROVE  Unfinished(b) = {}
<1>1. Serving /\ LogTyped  BY TypesOfLog DEF Serving, RecInv, DataInv
<1>2. Len(log) \in Nat /\ durable \in Nat /\ durable <= Len(log)  BY <1>1, LogFacts
<1> SUFFICES ASSUME NEW i \in Unfinished(b) PROVE FALSE  OBVIOUS
<1>3. PICK t : t = log[i].txn  OBVIOUS
<1>4. i \in 1..Len(log) /\ log[i].op = "SET" /\ t \notin Finished
  BY <1>1, <1>3, RecentPositions DEF Unfinished
<1>5. t \in Txn  BY <1>3, <1>4 DEF RecInv, DataInv, RecordsAreWhole
<1>6. writer[b] = t /\ phase[t] # "none"
  BY <1>1, <1>3 DEF RecInv, ServingInv, BlockInv, WriterHolds
<1>7. EndedOnDisk(t)  BY <1>5, <1>6, OneIsTxn
<1>8. PICK j \in 1..durable :
         /\ log[j].txn = t /\ IsEnd(j)
         /\ \A k \in j..Len(log) : log[k].txn = t => log[k].op # "START"
  BY <1>7 DEF EndedOnDisk
<1>9. PICK s \in 1..Len(log) :
         /\ log[s] = Record("START", t)
         /\ \A k \in s..Len(log) : log[k].txn = t /\ IsEnd(k) => k \in Recent
  BY <1>1, <1>5, <1>6 DEF RecInv, ServingInv, TxnInv, Begun
<1>10. s \notin j..Len(log)  BY <1>8, <1>9 DEF Record
<1>11. j \in s..Len(log)  BY <1>2, <1>8, <1>9, <1>10
<1>12. j \in EndOf(t) /\ j <= durable  BY <1>2, <1>8, <1>9, <1>11 DEF EndOf
<1> QED  BY <1>1, <1>4, <1>12, FinishedFacts

(* No reader sees a write that is not durably committed, and none misses    *)
(* one that is, whatever was replaced, flushed, rolled back or recovered.   *)
THEOREM SeenIsCommitted == Spec => []CommittedIsWhatIsSeen
<1>1. RecInv => CommittedIsWhatIsSeen
  <2> SUFFICES ASSUME RecInv, state = "open", NEW b \in Block,
                      writer[b] = 0 \/ EndedOnDisk(writer[b])
               PROVE  buf[b].val = Recovered[b]
    BY DEF CommittedIsWhatIsSeen
  <2>1. Unfinished(b) = {}  BY SeenHasNothingToUndo
  <2> QED  BY <2>1, NothingToUndo
<1> QED  BY <1>1, RecoveryInvariant, PTL

(* Every value shown of a block nobody is writing was written by a          *)
(* transaction whose COMMIT record is on disk.                              *)
THEOREM VisibleWasCommitted == Spec => []VisibleIsCommitted
<1>1. RecInv => VisibleIsCommitted
  <2> SUFFICES ASSUME RecInv, state = "open", NEW b \in Block, writer[b] = 0,
                      buf[b].val # Zero
               PROVE  \E i \in 1..durable :
                         log[i].block = b /\ log[i].new = buf[b].val /\ CommitOf(i) # {}
    BY DEF VisibleIsCommitted
  <2>1. Unfinished(b) = {}  BY SeenHasNothingToUndo
  <2>2. buf[b].val = Recovered[b]  BY <2>1, NothingToUndo
  <2>3. CommittedValue(b, Recovered[b])  BY DEF RecInv, DataInv, RecoveredIsCommitted
  <2> QED  BY <2>2, <2>3 DEF CommittedValue
<1> QED  BY <1>1, RecoveryInvariant, PTL

-----------------------------------------------------------------------------
(* Recovery implements AtomicStore: the blocks as the next recovery would   *)
(* leave them are the committed store, the values of the blocks that are    *)
(* locked by transactions with no end on disk are the pending writes, and   *)
(* every step of Recovery is one of AtomicStore's or changes neither.       *)

(* A write of t to b is pending. *)
Holds(t, b) == writer[b] = t /\ ~EndedOnDisk(t)

-----------------------------------------------------------------------------
(* Steps of the abstract store, block by block *)

LEMMA StoreStutters ==
    ASSUME Recovered' = Recovered,
           \A t \in Txn, b \in Block : Holds(t, b)' <=> Holds(t, b),
           \A t \in Txn, b \in Block : Holds(t, b) => buf'[b].val = buf[b].val
    PROVE  UNCHANGED Abstract!vars
BY DEF Holds, Abstract!vars

LEMMA StoreWrites ==
    ASSUME Recovered' = Recovered, NEW t \in Txn, NEW b \in Block,
           \A u \in Txn : u # t => ~Holds(u, b) /\ ~Holds(u, b)',
           Holds(t, b)', buf'[b].val \in Val,
           \A u \in Txn, c \in Block : c # b => (Holds(u, c)' <=> Holds(u, c)),
           \A u \in Txn, c \in Block : c # b /\ Holds(u, c) => buf'[c].val = buf[c].val
    PROVE  Abstract!Next
<1> DEFINE P == [u \in Txn |-> [c \in Block |->
                   IF writer[c] = u /\ ~EndedOnDisk(u) THEN buf[c].val ELSE NoVal]]
<1>1. \A u \in Txn \ {t} : P[u][b] = NoVal  BY DEF Holds
<1>2. P' = [P EXCEPT ![t][b] = buf'[b].val]
  <2>1. ASSUME NEW u \in Txn, NEW c \in Block, u # t \/ c # b PROVE P'[u][c] = P[u][c]
    <3>1. Holds(u, c)' <=> Holds(u, c)  BY <2>1
    <3>2. Holds(u, c) => buf'[c].val = buf[c].val  BY <2>1
    <3>3. P[u][c] = IF Holds(u, c) THEN buf[c].val ELSE NoVal  BY DEF Holds
    <3>4. P'[u][c] = IF Holds(u, c)' THEN buf'[c].val ELSE NoVal  BY DEF Holds
    <3> QED  BY <3>1, <3>2, <3>3, <3>4
  <2>2. P'[t][b] = buf'[b].val  BY DEF Holds
  <2>3. /\ P = [u \in Txn |-> [c \in Block |-> P[u][c]]]
        /\ P' = [u \in Txn |-> [c \in Block |-> P'[u][c]]]
    OBVIOUS
  <2> HIDE DEF P
  <2> QED  BY <2>1, <2>2, <2>3
<1>3. Abstract!Write(t, b)  BY <1>1, <1>2 DEF Abstract!Write
<1> QED  BY <1>3 DEF Abstract!Next

-----------------------------------------------------------------------------
(* The end of a transaction, in its run, is among the first d records.       *)

EndedBy(t, d) ==
    \E i \in 1..d : /\ log[i].txn = t /\ IsEnd(i)
                    /\ \A j \in i..Len(log) : log[j].txn = t => log[j].op # "START"

LEMMA EndedOnDiskIs == \A t : EndedOnDisk(t) <=> EndedBy(t, durable)
BY DEF EndedOnDisk, EndedBy

(* While transactions are served it is among the recent records.             *)
LEMMA EndIsRecent ==
    ASSUME RecInv, Serving, NEW t \in Txn, phase[t] # "none",
           NEW d \in 0..Len(log), EndedBy(t, d)
    PROVE  \E j \in EndOf(t) : j <= d
<1>1. Len(log) \in Nat  BY TypesOfLog, LogFacts DEF RecInv, DataInv
<1>2. PICK j \in 1..d :
         /\ log[j].txn = t /\ IsEnd(j)
         /\ \A k \in j..Len(log) : log[k].txn = t => log[k].op # "START"
  BY DEF EndedBy
<1>3. PICK s \in 1..Len(log) :
         /\ log[s] = Record("START", t)
         /\ \A k \in s..Len(log) : log[k].txn = t /\ IsEnd(k) => k \in Recent
  BY DEF RecInv, ServingInv, TxnInv, Begun
<1>4. s \notin j..Len(log)  BY <1>2, <1>3 DEF Record
<1>5. j \in s..Len(log)  BY <1>1, <1>2, <1>3, <1>4
<1> QED  BY <1>1, <1>2, <1>3, <1>5 DEF EndOf

LEMMA RecentIsEnd ==
    ASSUME RecInv, Serving, NEW t \in Txn, NEW d \in Nat, NEW j \in EndOf(t), j <= d
    PROVE  EndedBy(t, d)
<1>1. LogTyped  BY TypesOfLog DEF RecInv, DataInv
<1>2. j \in 1..Len(log) /\ log[j].txn = t /\ IsEnd(j)  BY <1>1, RecentPositions DEF EndOf
<1>3. \A k \in j..Len(log) : log[k].txn = t => log[k].op # "START"
  BY DEF RecInv, ServingInv, TxnInv, NoSecondStart
<1>4. j \in 1..d  BY <1>2
<1> QED  BY <1>2, <1>3, <1>4 DEF EndedBy

LEMMA RecoveryGoesOn ==
    ASSUME RecInv, Recovering, NEW d \in 0..Len(log) PROVE ~EndedBy(1, d)
<1>1. Len(log) \in Nat  BY TypesOfLog, LogFacts DEF RecInv, DataInv
<1>2. PICK s \in 1..Len(log) : /\ log[s] = Record("START", 1)
                               /\ \A j \in s..Len(log) : ~(log[j].txn = 1 /\ IsEnd(j))
  BY DEF RecInv, RecoveringInv, RecoveryBegun
<1> SUFFICES ASSUME NEW j \in 1..d, log[j].txn = 1, IsEnd(j),
                    \A k \in j..Len(log) : log[k].txn = 1 => log[k].op # "START"
             PROVE  FALSE
  BY DEF EndedBy
<1>3. s \notin j..Len(log)  BY <1>2 DEF Record
<1>4. j \in s..Len(log)  BY <1>1, <1>2, <1>3
<1> QED  BY <1>2, <1>4

(* A transaction has no end on disk until it has appended it.                *)
LEMMA RunningHasNoEnd ==
    ASSUME RecInv, NEW t \in Txn, phase[t] \in {"active", "undo", "recover", "flush"}
    PROVE  ~EndedOnDisk(t)
<1>1. durable \in 0..Len(log)  BY DEF RecInv, DataInv, TypeOK
<1>2. state # "down" /\ (state = "starting" => t = 1)  BY Running
<1>3. CASE Recovering
  <2>1. t = 1  BY <1>2, <1>3 DEF Recovering
  <2> QED  BY <1>1, <1>3, <2>1, RecoveryGoesOn, EndedOnDiskIs
<1>4. CASE Serving
  <2>1. EndOf(t) = {}
    BY <1>4, ServingEnding DEF RecInv, ServingInv, TxnInv, NoEndYet
  <2> QED  BY <1>1, <1>4, <2>1, EndIsRecent, EndedOnDiskIs
<1> QED  BY <1>2, <1>3, <1>4, Modes DEF RecInv, DataInv

(* No transaction writes a block another one holds.                          *)
LEMMA OneHolder ==
    ASSUME RecInv, NEW t \in Txn, NEW b \in Block, writer[b] \in {0, t}
    PROVE  \A u \in Txn : u # t => ~Holds(u, b)
BY OneIsTxn DEF Holds

LEMMA ValuesTyped ==
    ASSUME RecInv, NEW b \in Block PROVE buf[b].val \in Val /\ buf[b].val # NoVal
<1>1. buf[b].val \in Val  BY DEF RecInv, DataInv, TypeOK, Buffer
<1> QED  BY <1>1, RecoveryAssumption DEF Val

-----------------------------------------------------------------------------
(* Flushing: all the transactions whose ends get on disk end                 *)

LEMMA FinishedFactsNext ==
    (LogTyped => \A t : t \in Finished <=> \E j \in EndOf(t) : j <= durable)'
BY FinishedFacts, PTL

LEMMA FlushStores ==
    ASSUME RecInv, state # "down", FlushStep, NEW b \in Block
    PROVE  /\ \A t \in Txn : Holds(t, b) /\ EndedOnDisk(t)' => Recovered'[b] = buf[b].val
           /\ (\A t \in Txn : ~(Holds(t, b) /\ EndedOnDisk(t)')) => Recovered'[b] = Recovered[b]
<1>1. /\ durable \in 0..Len(log) /\ durable' \in 0..Len(log) /\ log' = log /\ Len(log) \in Nat
      /\ LogTyped /\ LogTyped' /\ Recent' = Recent /\ \A t : EndOf(t)' = EndOf(t)
  BY TypesOfLog, LogFacts, FlushGrows DEF RecInv, DataInv, TypeOK, FlushStep, LogGrows, LogTyped
<1>2. \A t : EndedOnDisk(t)' <=> EndedBy(t, durable')  BY <1>1 DEF EndedOnDisk, EndedBy, IsEnd
<1>3. /\ Unfinished(b)' = Unfinished(b) => Recovered'[b] = Recovered[b]
      /\ Unfinished(b)' # Unfinished(b) => Recovered'[b] = buf[b].val
  BY FlushKeepsData
<1>4. CASE Unfinished(b)' # Unfinished(b)
  <2>1. Unfinished(b) # {} /\ \E t \in Txn : Ends(t, b)  BY <1>4, FlushSplits
  <2>2. PICK t \in Txn : Ends(t, b)  BY <2>1
  <2>3. Serving /\ phase[t] = "force" /\ writer[b] = t  BY <2>2 DEF Ends
  <2>4. EndOf(t) = {cursor[t]} /\ cursor[t] <= durable'  BY <2>2 DEF Ends
  <2>5. EndedOnDisk(t)'  BY <1>1, <1>2, <2>3, <2>4, RecentIsEnd
  <2>6. ~EndedOnDisk(t)
    <3>1. PICK i \in Unfinished(b) : TRUE  BY <2>1
    <3>2. log[i].txn = t /\ t \notin Finished  BY <2>2 DEF Ends, Unfinished
    <3>3. \A j \in EndOf(t) : ~(j <= durable)  BY <1>1, <3>2, FinishedFacts
    <3> QED  BY <1>1, <2>3, <3>3, EndIsRecent, EndedOnDiskIs
  <2>7. Holds(t, b)  BY <2>3, <2>6 DEF Holds
  <2> QED  BY <1>3, <1>4, <2>5, <2>7
<1>5. CASE Unfinished(b)' = Unfinished(b)
  <2> SUFFICES ASSUME NEW t \in Txn, Holds(t, b), EndedOnDisk(t)'
               PROVE  Recovered[b] = buf[b].val
    BY <1>3, <1>5
  <2>1. writer[b] = t /\ phase[t] # "none"
    BY DEF Holds, RecInv, ControlInv, WritersRun
  <2>2. Unfinished(b) = {}
    <3> SUFFICES ASSUME NEW i \in Unfinished(b) PROVE FALSE  OBVIOUS
    <3>1. Serving
      <4>1. state = "starting" => t = 1  BY <2>1, Running
      <4>2. ~Recovering  BY <1>1, <1>2, <4>1, RecoveryGoesOn DEF Recovering
      <4> QED  BY <4>2, Modes DEF RecInv, DataInv
    <3>2. log[i].txn = t
      BY <2>1, <3>1 DEF RecInv, ServingInv, BlockInv, WriterHolds
    <3>3. \E j \in EndOf(t) : j <= durable'  BY <1>1, <1>2, <2>1, <3>1, EndIsRecent
    <3>4. t \in Finished'  BY <1>1, <3>3, FinishedFactsNext
    <3>5. log'[i].txn \notin Finished'  BY <1>5 DEF Unfinished
    <3> QED  BY <1>1, <3>2, <3>4, <3>5
  <2> QED  BY <2>2, NothingToUndo
<1> QED  BY <1>4, <1>5


LEMMA FlushImplements ==
    ASSUME RecInv, state # "down", FlushStep, writer' = writer
    PROVE  Abstract!Next
<1> DEFINE P == [t \in Txn |-> [b \in Block |->
                   IF writer[b] = t /\ ~EndedOnDisk(t) THEN buf[b].val ELSE NoVal]]
<1>0. PICK C : C = {t \in Txn : EndedBy(t, durable') /\ \E b \in Block : Holds(t, b)}  OBVIOUS
<1>1. ASSUME NEW t \in Txn, NEW b \in Block
      PROVE  /\ P[t][b] # NoVal <=> Holds(t, b)
             /\ Holds(t, b) => P[t][b] = buf[b].val
  BY ValuesTyped DEF Holds
<1>2. \A t \in Txn : /\ EndedOnDisk(t)' <=> EndedBy(t, durable')
                     /\ EndedOnDisk(t) => EndedBy(t, durable')
  <2>1. durable \in Nat /\ durable' \in Nat /\ durable <= durable' /\ log' = log
    BY TypesOfLog, LogFacts, FlushGrows DEF RecInv, DataInv, FlushStep, LogGrows, LogTyped
  <2> QED  BY <2>1 DEF EndedOnDisk, EndedBy, IsEnd
<1>3. Recovered' = [b \in Block |-> IF \E t \in C : P[t][b] # NoVal
                                    THEN P[CHOOSE t \in C : P[t][b] # NoVal][b]
                                    ELSE Recovered[b]]
  <2>1. ASSUME NEW b \in Block
        PROVE  Recovered'[b] = IF \E t \in C : P[t][b] # NoVal
                               THEN P[CHOOSE t \in C : P[t][b] # NoVal][b]
                               ELSE Recovered[b]
    <3>1. CASE \E t \in C : P[t][b] # NoVal
      <4>1. PICK t : t = CHOOSE u \in C : P[u][b] # NoVal  OBVIOUS
      <4>2. t \in C /\ P[t][b] # NoVal  BY <3>1, <4>1
      <4>3. Holds(t, b) /\ EndedOnDisk(t)' /\ P[t][b] = buf[b].val  BY <1>0, <1>1, <1>2, <4>2
      <4>4. Recovered'[b] = buf[b].val  BY <1>0, <4>2, <4>3, FlushStores
      <4> QED  BY <3>1, <4>1, <4>3, <4>4
    <3>2. CASE ~ \E t \in C : P[t][b] # NoVal
      <4>1. \A t \in Txn : ~(Holds(t, b) /\ EndedOnDisk(t)')  BY <1>0, <1>1, <1>2, <3>2
      <4> QED  BY <3>2, <4>1, FlushStores
    <3> QED  BY <3>1, <3>2
  <2>2. Recovered' = [b \in Block |-> Recovered'[b]]  BY DEF Recovered
  <2> HIDE DEF P
  <2> QED  BY <2>1, <2>2
<1>4. P' = [t \in Txn |-> IF t \in C \cup {} THEN [b \in Block |-> NoVal] ELSE P[t]]
  <2>1. ASSUME NEW t \in Txn, NEW b \in Block
        PROVE  P'[t][b] = IF t \in C THEN NoVal ELSE P[t][b]
    <3>1. P'[t][b] = IF writer[b] = t /\ ~EndedOnDisk(t)' THEN buf'[b].val ELSE NoVal
      OBVIOUS
    <3>2. buf'[b].val = buf[b].val  BY DEF FlushStep
    <3>3. Holds(t, b) /\ EndedOnDisk(t)' => t \in C  BY <1>0, <1>2
    <3> QED  BY <1>0, <1>1, <1>2, <3>1, <3>2, <3>3 DEF Holds
  <2>2. /\ \A t \in Txn : P[t] = [b \in Block |-> P[t][b]] /\ P'[t] = [b \in Block |-> P'[t][b]]
        /\ P' = [t \in Txn |-> P'[t]]
    OBVIOUS
  <2> HIDE DEF P
  <2>3. ASSUME NEW t \in Txn PROVE P'[t] = IF t \in C THEN [b \in Block |-> NoVal] ELSE P[t]
    BY <2>1, <2>2
  <2> QED  BY <2>2, <2>3
<1>5. C \in SUBSET {t \in Txn : P[t] # [b \in Block |-> NoVal]}  BY <1>0, <1>1
<1>6. Abstract!End(C, {})
  BY <1>3, <1>4 DEF Abstract!End, Abstract!Untouched
<1>7. C \in SUBSET Abstract!Writing
  BY <1>5 DEF Abstract!Writing, Abstract!Untouched
<1>8. {} \in SUBSET (Abstract!Writing \ C)  OBVIOUS
<1> QED  BY <1>6, <1>7, <1>8 DEF Abstract!Next


-----------------------------------------------------------------------------
(* Records that go to the end of the log, not yet on disk                    *)

LEMMA AppendKeepsEnds ==
    ASSUME LogTyped, NEW r \in LogRecord, AppendToLog(r), NEW u, r.txn = u => r.op # "START"
    PROVE  EndedOnDisk(u)' <=> EndedOnDisk(u)
<1>1. PICK n : n = Len(log) + 1  OBVIOUS
<1>2. /\ Len(log') = n /\ log'[n] = r /\ durable' = durable /\ n \in Nat
      /\ \A i \in 1..Len(log) : log'[i] = log[i]
  BY <1>1, AppendFacts
<1>3. Len(log) \in Nat /\ durable \in Nat /\ durable <= Len(log)  BY LogFacts
<1>4. ASSUME NEW i \in 1..durable
      PROVE  /\ log'[i] = log[i]
             /\ (\A j \in i..Len(log') : log'[j].txn = u => log'[j].op # "START")
                  <=> (\A j \in i..Len(log) : log[j].txn = u => log[j].op # "START")
  <2>1. \A j \in i..Len(log) : j \in i..n /\ j \in 1..Len(log)  BY <1>1, <1>3
  <2>2. \A j \in i..n : j = n \/ j \in i..Len(log)  BY <1>1, <1>3
  <2>3. i \in 1..Len(log)  BY <1>3
  <2> QED  BY <1>2, <2>1, <2>2, <2>3
<1> QED  BY <1>2, <1>4 DEF EndedOnDisk, IsEnd

LEMMA AppendImplements ==
    ASSUME RecInv, NEW r \in LogRecord, AppendToLog(r), r.op # "SET",
           r.op = "CHECKPOINT" \/ r.txn \in Txn, UNCHANGED <<disk, buf, writer>>,
           r.op = "START" => \A b \in Block : writer[b] # r.txn
    PROVE  UNCHANGED Abstract!vars
<1>1. LogTyped  BY TypesOfLog DEF RecInv, DataInv
<1>2. PICK n : n = Len(log) + 1  OBVIOUS
<1>3. Recovered' = Recovered  BY <1>2, AppendKeepsData
<1>4. \A t \in Txn, b \in Block : writer[b] = t => (EndedOnDisk(t)' <=> EndedOnDisk(t))
  BY <1>1, AppendKeepsEnds
<1>5. writer' = writer /\ buf' = buf  OBVIOUS
<1> QED  BY <1>3, <1>4, <1>5, StoreStutters DEF Holds

LEMMA StartImplements == ASSUME RecInv, Start PROVE UNCHANGED Abstract!vars
<1>1. PICK r : r = Record("START", 1)  OBVIOUS
<1>2. r \in LogRecord /\ r.op = "START" /\ r.txn = 1
  BY <1>1, OneIsTxn, RecoveryAssumption DEF Record, LogRecord, Op, Val, Zero
<1>3. AppendToLog(r) /\ UNCHANGED <<disk, buf, writer>> /\ state = "down"  BY <1>1 DEF Start
<1>4. \A b \in Block : writer[b] = 0  BY <1>3 DEF RecInv, ControlInv, ProgramState
<1> QED  BY <1>2, <1>3, <1>4, OneIsTxn, AppendImplements

LEMMA NewTxnImplements ==
    ASSUME RecInv, NEW t \in Txn, NewTxn(t) PROVE UNCHANGED Abstract!vars
<1>1. PICK r : r = Record("START", t)  OBVIOUS
<1>2. r \in LogRecord /\ r.op = "START" /\ r.txn = t
  BY <1>1, RecoveryAssumption DEF Record, LogRecord, Op, Val, Zero
<1>3. AppendToLog(r) /\ UNCHANGED <<disk, buf, writer>> /\ t = lastTxn + 1
  BY <1>1 DEF NewTxn
<1>4. t > lastTxn  BY <1>3 DEF RecInv, DataInv, TypeOK
<1>5. phase[t] = "none"  BY <1>4 DEF RecInv, DataInv, TypeOK
<1>6. \A b \in Block : writer[b] # t  BY <1>5 DEF RecInv, ControlInv, WritersRun
<1> QED  BY <1>2, <1>3, <1>6, AppendImplements

LEMMA WriteEndImplements ==
    ASSUME RecInv, NEW t \in Txn, WriteEnd(t) PROVE UNCHANGED Abstract!vars
<1>1. PICK r : r = IF ending[t] = "CHECKPOINT" THEN Checkpoint ELSE Record(ending[t], t)
  OBVIOUS
<1>2. ending[t] \in {"COMMIT", "ROLLBACK", "CHECKPOINT"}  BY DEF RecInv, DataInv, TypeOK
<1>3. /\ r \in LogRecord /\ r.op \in {"COMMIT", "ROLLBACK", "CHECKPOINT"}
      /\ r.op # "CHECKPOINT" => r.txn = t
  BY <1>1, <1>2, RecoveryAssumption DEF Checkpoint, Record, LogRecord, Op, Val, Zero
<1>4. AppendToLog(r) /\ UNCHANGED <<disk, buf, writer>>  BY <1>1 DEF WriteEnd
<1> QED  BY <1>3, <1>4, AppendImplements

-----------------------------------------------------------------------------
(* Writes, by clients and by undoing                                         *)


LEMMA SetImplements ==
    ASSUME RecInv, NEW t \in Txn, NEW b \in Block, Set(t, b) PROVE Abstract!Next
<1>1. PICK n : n = Len(log) + 1  OBVIOUS
<1>2. PICK r : r = SetRecord(t, b, buf[b].val, writes')  OBVIOUS
<1>3. /\ AppendToLog(r) /\ r \in LogRecord /\ writes' \in Val /\ r.op = "SET"
      /\ buf'[b].val = writes' /\ writer'[b] = t
      /\ \A c \in Block : c # b => buf'[c] = buf[c] /\ writer'[c] = writer[c]
  BY <1>1, <1>2, SetEffect
<1>4. /\ phase[t] = "active" /\ writer[b] \in {0, t} /\ LogTyped
      /\ UNCHANGED <<disk, program, calls, clients, crashes>>
  BY SetFacts
<1>5. Recovered' = Recovered  BY <1>1, SetKeepsData
<1>6. \A u : EndedOnDisk(u)' <=> EndedOnDisk(u)  BY <1>3, <1>4, AppendKeepsEnds
<1>7. ~EndedOnDisk(t)  BY <1>4, RunningHasNoEnd
<1>8. \A u \in Txn : u # t => ~Holds(u, b) /\ ~Holds(u, b)'
  BY <1>3, <1>4, OneHolder DEF Holds
<1>9. Holds(t, b)'  BY <1>3, <1>6, <1>7 DEF Holds
<1>10. \A u \in Txn, c \in Block : c # b => (Holds(u, c)' <=> Holds(u, c))
  BY <1>3, <1>6 DEF Holds
<1> QED  BY <1>3, <1>5, <1>8, <1>9, <1>10, StoreWrites

LEMMA ModifyImplements ==
    ASSUME RecInv, NEW t \in Txn, NEW b \in Block, NEW v \in Val, writer[b] \in {0, t},
           phase[t] \in {"undo", "recover"}, Modify(b, v, t, buf[b].lsn), UNCHANGED durables
    PROVE  Abstract!Next
<1>1. /\ buf' \in [Block -> Buffer] /\ buf'[b].val = v /\ buf'[b].txn = t
      /\ buf'[b].lsn = buf[b].lsn /\ writer'[b] = t
      /\ \A c \in Block : c # b => buf'[c] = buf[c] /\ writer'[c] = writer[c]
  BY ModifiedBuffer DEF RecInv, DataInv
<1>2. Recovered' = Recovered  BY <1>1, OneIsTxn, ModifyKeepsData
<1>3. \A u : EndedOnDisk(u)' <=> EndedOnDisk(u)  BY DEF EndedOnDisk, IsEnd, durables
<1>4. ~EndedOnDisk(t)  BY RunningHasNoEnd
<1>5. \A u \in Txn : u # t => ~Holds(u, b) /\ ~Holds(u, b)'
  BY <1>1, OneHolder DEF Holds
<1>6. Holds(t, b)'  BY <1>1, <1>3, <1>4 DEF Holds
<1>7. \A u \in Txn, c \in Block : c # b => (Holds(u, c)' <=> Holds(u, c))
  BY <1>1, <1>3 DEF Holds
<1> QED  BY <1>1, <1>2, <1>5, <1>6, <1>7, StoreWrites


LEMMA UndoNextImplements ==
    ASSUME RecInv, NEW t \in Txn, UndoNext(t)
    PROVE  UNCHANGED <<durables, buf, writer>> \/ Abstract!Next
<1>1. PICK i : i = Max({j \in 1..cursor[t] : log[j].txn = t})  OBVIOUS
<1>2. PICK b : b = log[i].block  OBVIOUS
<1>3. PICK v : v = log[i].val  OBVIOUS
<1>4. phase[t] = "undo" /\ UNCHANGED durables  BY DEF UndoNext
<1>5. CASE log[i].op = "START"
  <2>1. UNCHANGED <<buf, writer>>  BY <1>1, <1>5 DEF UndoNext
  <2> QED  BY <1>4, <2>1
<1>6. CASE log[i].op # "START"
  <2>1. log[i].op = "SET" /\ Modify(b, v, t, buf[b].lsn)
    BY <1>1, <1>2, <1>3, <1>6 DEF UndoNext
  <2>2. i \in Recent /\ log[i].txn = t  BY <1>1, <1>4, UndoFinds
  <2>3. LogTyped /\ i \in 1..Len(log)  BY <2>2, TypesOfLog, RecentPositions DEF RecInv, DataInv
  <2>4. b \in Block /\ v \in Val
    BY <1>2, <1>3, <2>1, <2>3, LogFacts DEF RecInv, DataInv, RecordsAreWhole, LogRecord
  <2>5. i \in Writes(t)  BY <2>1, <2>2 DEF Writes
  <2>6. writer[b] = t  BY <1>2, <1>4, <2>4, <2>5, UndoOwns
  <2> QED  BY <1>4, <2>1, <2>4, <2>6, ModifyImplements
<1> QED  BY <1>5, <1>6

LEMMA RecoverNextImplements ==
    ASSUME RecInv, RecoverNext
    PROVE  UNCHANGED <<durables, buf, writer>> \/ Abstract!Next
<1>1. PICK r : r = log[cursor[1]]  OBVIOUS
<1>2. /\ phase[1] = "recover" /\ cursor[1] \in Recent /\ state = "starting"
      /\ UNCHANGED durables
  BY RecoveryCursor DEF RecoverNext
<1>3. CASE UNCHANGED <<buf, writer>>  BY <1>2, <1>3
<1>4. CASE ~ UNCHANGED <<buf, writer>>
  <2>1. PICK b : b = r.block  OBVIOUS
  <2>2. PICK v : v = r.val  OBVIOUS
  <2>3. r.op = "SET" /\ Modify(b, v, 1, buf[b].lsn)  BY <1>1, <1>4, <2>1, <2>2 DEF RecoverNext
  <2>4. LogTyped /\ cursor[1] \in 1..Len(log)
    BY <1>2, TypesOfLog, RecentPositions DEF RecInv, DataInv
  <2>5. b \in Block /\ v \in Val
    BY <1>1, <2>1, <2>2, <2>3, <2>4, LogFacts
       DEF RecInv, DataInv, RecordsAreWhole, LogRecord
  <2>6. writer[b] \in {0, 1}
    <3>1. writer[b] \in Txn \cup {0}  BY <2>5 DEF RecInv, DataInv, TypeOK
    <3>2. \A u \in Txn : writer[b] = u => phase[u] # "none"
      BY <2>5 DEF RecInv, ControlInv, WritersRun
    <3> QED  BY <1>2, <3>1, <3>2, StartingAlone
  <2> QED  BY <1>2, <2>3, <2>5, <2>6, OneIsTxn, ModifyImplements
<1> QED  BY <1>3, <1>4

-----------------------------------------------------------------------------
(* The other steps                                                           *)

(* The checkpoint leaves the recovered values what they were to become.      *)
LEMMA CheckpointImplements ==
    ASSUME RecInv, NEW t \in Txn, ForceLog(t), ending[t] = "CHECKPOINT"
    PROVE  UNCHANGED Abstract!vars
<1>1. /\ state = "starting" /\ Recovering /\ \A u \in Txn : u # 1 => phase[u] = "none"
      /\ UNCHANGED <<disk, log, buf, writer>> /\ durable' = Len(log)
      /\ \A b \in Block : Recovered'[b] = Recovered[b]
  BY CheckpointForced
<1>2. Recovered' = Recovered  BY <1>1 DEF Recovered
<1>3. ~EndedOnDisk(1) /\ ~EndedOnDisk(1)'
  <2>1. durable \in 0..Len(log) /\ Len(log) \in 0..Len(log)
    BY TypesOfLog, LogFacts DEF RecInv, DataInv
  <2>2. EndedOnDisk(1)' <=> EndedBy(1, Len(log))  BY <1>1 DEF EndedOnDisk, EndedBy, IsEnd
  <2> QED  BY <1>1, <2>1, <2>2, RecoveryGoesOn, EndedOnDiskIs
<1>4. \A u \in Txn, b \in Block : writer[b] = u => u = 1
  BY <1>1 DEF RecInv, ControlInv, WritersRun
<1> QED  BY <1>1, <1>2, <1>3, <1>4, StoreStutters DEF Holds

(* The locks go when the end is on disk.                                     *)
LEMMA ReleaseImplements ==
    ASSUME RecInv, NEW t \in Txn, Release(t) PROVE UNCHANGED Abstract!vars
<1>1. /\ phase[t] = "release" /\ UNCHANGED <<durables, buf>>
      /\ writer' = [b \in Block |-> IF writer[b] = t THEN 0 ELSE writer[b]]
  BY DEF Release
<1>2. Serving
  <2>1. state # "down" /\ (state = "starting" => t = 1)  BY <1>1, Running
  <2>2. ~Recovering  BY <1>1, <2>1 DEF Recovering, RecInv, RecoveringInv
  <2> QED  BY <2>1, <2>2, Modes DEF RecInv, DataInv
<1>3. EndedOnDisk(t)
  <2>1. PICK j \in EndOf(t) : j <= durable
    BY <1>1, <1>2 DEF RecInv, ServingInv, TxnInv, EndIsForced
  <2> QED  BY <1>2, <2>1, RecentIsEnd, EndedOnDiskIs, TypesOfLog, LogFacts DEF RecInv, DataInv
<1>4. Recovered' = Recovered
  <2>1. LogTyped /\ LogTyped'  BY <1>1, TypesOfLog DEF RecInv, DataInv, LogTyped, durables
  <2> QED  BY <1>1, <2>1, PrefixKept DEF durables
<1>5. \A u : EndedOnDisk(u)' <=> EndedOnDisk(u)  BY <1>1 DEF EndedOnDisk, IsEnd, durables
<1>6. \A u \in Txn, b \in Block : Holds(u, b)' <=> Holds(u, b)
  BY <1>1, <1>3, <1>5, OneIsTxn DEF Holds
<1> QED  BY <1>1, <1>4, <1>6, StoreStutters

LEMMA CrashImplements == ASSUME RecInv, Crash PROVE Abstract!Next
<1>1. Recovered' = Recovered  BY CrashKeepsStore
<1>2. writer' = [b \in Block |-> 0]  BY DEF Crash, CrashWithLog
<1>3. \A t \in Txn, b \in Block : writer'[b] # t  BY <1>2, OneIsTxn
<1>4. Abstract!Crash
  BY <1>1, <1>3 DEF Abstract!Crash, Abstract!End, Abstract!Untouched, Recovered
<1> QED  BY <1>4 DEF Abstract!Next

LEMMA InitImplements == Init => Abstract!Init
<1> SUFFICES ASSUME Init PROVE Abstract!Init  OBVIOUS
<1>1. /\ disk = [b \in Block |-> Zero] /\ log = <<>> /\ durable = 0
      /\ writer = [b \in Block |-> 0]
  BY DEF Init
<1>2. \A b \in Block : Undone(b) = {}
  <2>1. LogTyped  BY <1>1 DEF LogTyped
  <2>2. LastCheckpoint = 0  BY <1>1, <2>1, CheckpointFacts
  <2> QED  BY <1>1, <2>2 DEF Undone, Scanned
<1>3. Recovered = [b \in Block |-> Zero]  BY <1>1, <1>2 DEF Recovered
<1>4. \A t \in Txn, b \in Block : writer[b] # t  BY <1>1, OneIsTxn
<1> QED  BY <1>3, <1>4 DEF Abstract!Init, Abstract!Untouched

LEMMA StutterImplements ==
    ASSUME RecInv, UNCHANGED <<durables, buf, writer>> PROVE UNCHANGED Abstract!vars
<1>1. LogTyped /\ LogTyped'  BY TypesOfLog DEF RecInv, DataInv, LogTyped, durables
<1>2. Recovered' = Recovered  BY <1>1, PrefixKept DEF durables
<1>3. \A u : EndedOnDisk(u)' <=> EndedOnDisk(u)  BY DEF EndedOnDisk, IsEnd, durables
<1> QED  BY <1>2, <1>3, StoreStutters DEF Holds

-----------------------------------------------------------------------------
(* The theorems                                                              *)

LEMMA StepImplements ==
    ASSUME RecInv, [Next]_vars
    PROVE  \/ UNCHANGED <<durables, buf, writer>>
           \/ UNCHANGED Abstract!vars
           \/ Abstract!Next
<1>1. CASE Crash  BY <1>1, CrashImplements
<1>2. CASE Start  BY <1>2, StartImplements
<1>3. CASE Recover
  <2>1. state # "down" /\ writer' = writer  BY <1>3 DEF Recover
  <2> QED  BY <1>3, <2>1, RecoverFlushes, FlushImplements
<1>4. CASE RecoverNext  BY <1>4, RecoverNextImplements
<1>5. CASE RecoverDone  BY <1>5 DEF RecoverDone
<1>6. CASE FullPage
  <2>1. writer' = writer  BY <1>6 DEF FullPage
  <2> QED  BY <1>6, <2>1, FullPageFlushes, FlushImplements
<1>7. ASSUME NEW b \in Block, Replace(b) PROVE Abstract!Next
  <2>1. state # "down" /\ buf[b].txn # 0 /\ FlushBuffer(b) /\ log' = log /\ writer' = writer
    BY <1>7 DEF Replace
  <2> QED  BY <2>1, PageFlushes, FlushImplements
<1>8. ASSUME NEW t \in Txn, NEW b \in Block, FlushOne(t, b) PROVE Abstract!Next
  <2>1. /\ phase[t] = "flush" /\ buf[b].txn = t /\ FlushBuffer(b) /\ log' = log
        /\ writer' = writer
    BY <1>8 DEF FlushOne
  <2>2. state # "down" /\ t # 0  BY <2>1, Running, OneIsTxn
  <2> QED  BY <2>1, <2>2, PageFlushes, FlushImplements
<1>9. ASSUME NEW t \in Txn, UndoNext(t)
      PROVE  UNCHANGED <<durables, buf, writer>> \/ Abstract!Next
  BY <1>9, UndoNextImplements
<1>10. ASSUME NEW t \in Txn, ForceLog(t) PROVE UNCHANGED Abstract!vars \/ Abstract!Next
  <2>1. writer' = writer  BY <1>10 DEF ForceLog
  <2> QED  BY <1>10, <2>1, CheckpointImplements, ForceEndFlushes, FlushImplements
<1>11. ASSUME NEW t \in Txn, WriteEnd(t) \/ Release(t) \/ NewTxn(t)
       PROVE  UNCHANGED Abstract!vars
  BY <1>11, WriteEndImplements, ReleaseImplements, NewTxnImplements
<1>12. ASSUME NEW t \in Txn, Commit(t) \/ UndoFails(t)
       PROVE  UNCHANGED <<durables, buf, writer>>
  BY <1>12 DEF Commit, UndoFails
<1>13. ASSUME NEW t \in Txn, Rollback(t) PROVE Abstract!Next
  <2>1. writer' = writer /\ state = "open"  BY <1>13 DEF Rollback
  <2> QED  BY <1>13, <2>1, RollbackFlushes, FlushImplements
<1>14. ASSUME NEW t \in Txn, NEW b \in Block, Set(t, b) PROVE Abstract!Next
  BY <1>14, SetImplements
<1>15. CASE UNCHANGED vars  BY <1>15 DEF vars
<1> QED
  BY <1>1, <1>2, <1>3, <1>4, <1>5, <1>6, <1>7, <1>8, <1>9, <1>10, <1>11, <1>12, <1>13, <1>14,
     <1>15, Zenon
     DEF Next, Starting, Run

(* Committed values change only when transactions commit, all at once, and  *)
(* only to what these have written; nothing else a transaction, a rollback, *)
(* a recovery, a replacement or a crash does is seen in them.               *)
THEOREM StoreIsAtomic == Spec => ImplementsAtomicStore
<1>1. Init => Abstract!Init  BY InitImplements
<1>2. RecInv /\ [Next]_vars =>
         [\/ UNCHANGED <<durables, buf, writer>>
          \/ UNCHANGED Abstract!vars
          \/ Abstract!Next]_vars
  BY StepImplements
<1> QED  BY <1>1, <1>2, RecoveryInvariant, PTL DEF Spec, ImplementsAtomicStore

(* So Recovery implements AtomicStore.                                      *)
THEOREM RecoveryRefines == Spec => Abstract!Spec
<1>1. Init => Abstract!Init  BY InitImplements
<1>2. RecInv /\ [Next]_vars => [Abstract!Next]_(Abstract!vars)
  BY StepImplements, StutterImplements
<1> QED  BY <1>1, <1>2, RecoveryInvariant, PTL DEF Spec, Abstract!Spec

==============================================================================
