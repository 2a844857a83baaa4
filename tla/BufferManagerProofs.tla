------------------------ MODULE BufferManagerProofs ------------------------
(***************************************************************************)
(* Proofs about BufferManager, for any finite sets of transactions and     *)
(* blocks, any number of buffers and any bounds.  The inductive invariant  *)
(* is BufferInv.  It adds to the properties what relates a dirty buffer to *)
(* the lock of its writer, a page on disk to the buffer that is ahead of   *)
(* it, and the LSN of a page to the LSN its buffer flushes the log up to.  *)
(***************************************************************************)
EXTENDS BufferManager, SetLemmas

(* A buffer list has an entry exactly for the blocks that are pinned. *)
EntriesAreWhole ==
    \A t \in Txn, b \in Block : list[t][b].count = 0 <=> list[t][b].buffer = 0

(* A thread in Pin asks for a block and has room for one more pin of it;   *)
(* only threads in Pin sleep.                                              *)
CallersAreKnown ==
    /\ \A t \in Txn : phase[t] = "Pin" => want[t] \in Block /\ list[t][want[t]].count < MaxPins
    /\ \A t \in asleep : phase[t] = "Pin"

(* A buffer has the last value written to its block. *)
BuffersAreCurrent ==
    \A i \in Buff, b \in Block : pool[i].block = b => pool[i].data = current[b]

(* A block whose page on disk is old has a dirty buffer. *)
NothingIsLost ==
    \A b \in Block :
        disk[b] # current[b] => \E i \in Buff : pool[i].block = b /\ pool[i].txn # NoTxn

(* The transaction that made a buffer dirty has not given up its lock. *)
DirtyIsLocked ==
    \A i \in Buff : pool[i].txn # NoTxn =>
        pool[i].block \in Block /\ writer[pool[i].block] = pool[i].txn

(* Flushing the log up to the LSN of a buffer is enough for its page, even *)
(* if that LSN is left over from another block; LSNs are not more than     *)
(* the writes there have been.                                             *)
LsnsInOrder ==
    /\ \A i \in Buff : /\ pool[i].lsn <= latestLsn
                       /\ pool[i].data.lsn <= durableLsn \/ pool[i].data.lsn <= pool[i].lsn
    /\ latestLsn > 0 => \E b \in Block : latestLsn <= current[b].val

(* What an account of the pins must keep. *)
PinInv ==
    /\ TypeOK /\ EntriesAreWhole /\ CallersAreKnown
    /\ PinsAreRight /\ OneBufferPerBlock /\ NobodySleepsWhileAvailable

(* What the pages must keep. *)
PageInv == BuffersAreCurrent /\ NothingIsLost /\ DirtyIsLocked /\ LsnsInOrder /\ WriteAhead

BufferInv == PinInv /\ PageInv

-----------------------------------------------------------------------------
(* Cardinalities *)

LEMMA BuffersFinite ==
    /\ IsFiniteSet(Unpinned) /\ Unpinned \subseteq Int
    /\ \A b : IsFiniteSet(Existing(b)) /\ Existing(b) \subseteq Int
<1>1. IsFiniteSet(Buff) /\ Buff \subseteq Int
  BY FS_Interval, BufferManagerAssumption DEF Buff
<1>2. Unpinned \subseteq Buff /\ \A b : Existing(b) \subseteq Buff
  BY DEF Unpinned, Existing
<1> QED  BY <1>1, <1>2, FS_Subset

LEMMA PoolBounds ==
    ASSUME NEW S, S \subseteq Buff
    PROVE  Cardinality(S) \in 0..NumBuffs
<1>1. NumBuffs \in Int /\ 1 \in Int /\ NumBuffs >= 1  BY BufferManagerAssumption
<1>2. IsFiniteSet(Buff) /\ Cardinality(Buff) = NumBuffs
  <2>1. IsFiniteSet(1..NumBuffs)  BY <1>1, FS_Interval
  <2>2. Cardinality(1..NumBuffs) = NumBuffs  BY <1>1, FS_Interval
  <2> QED  BY <2>1, <2>2 DEF Buff
<1>3. IsFiniteSet(S) /\ Cardinality(S) <= NumBuffs  BY <1>2, FS_Subset
<1>4. Cardinality(S) \in Nat  BY <1>3, FS_CardinalityType
<1> QED  BY <1>1, <1>3, <1>4

(* The buffer Pin finds, if there is one. *)
LEMMA FoundBuffer ==
    /\ \A b : Existing(b) # {} => Min(Existing(b)) \in Existing(b)
    /\ Unpinned # {} => Min(Unpinned) \in Unpinned
BY BuffersFinite, MinIsLeast

LEMMA PinsFinite ==
    ASSUME NEW i
    PROVE  IsFiniteSet(Pins(i)) /\ Cardinality(Pins(i)) \in Nat
<1>1. IsFiniteSet(1..MaxPins)  BY FS_Interval, BufferManagerAssumption
<1>2. IsFiniteSet((Txn \X Block) \X (1..MaxPins))
  BY <1>1, FS_Product, BufferManagerAssumption
<1>3. Pins(i) \subseteq (Txn \X Block) \X (1..MaxPins)  BY DEF Pins
<1>4. IsFiniteSet(Pins(i))  BY <1>2, <1>3, FS_Subset
<1> QED  BY <1>4, FS_CardinalityType

LEMMA PinsMembers ==
    ASSUME NEW i
    PROVE  /\ Pins(i) \subseteq (Txn \X Block) \X (1..MaxPins)
           /\ \A u \in Txn, c \in Block, k \in 1..MaxPins :
                 <<<<u, c>>, k>> \in Pins(i) <=> list[u][c].buffer = i /\ k <= list[u][c].count
BY DEF Pins

(* Two sets of pins are the same if they have the same triples. *)
LEMMA SamePins ==
    ASSUME NEW A, A \subseteq (Txn \X Block) \X (1..MaxPins),
           NEW B, B \subseteq (Txn \X Block) \X (1..MaxPins),
           \A u \in Txn, c \in Block, k \in 1..MaxPins : <<<<u, c>>, k>> \in A <=> <<<<u, c>>, k>> \in B
    PROVE  A = B
<1>1. ASSUME NEW p \in (Txn \X Block) \X (1..MaxPins) PROVE p \in A <=> p \in B
  <2>1. PICK q \in Txn \X Block, k \in 1..MaxPins : p = <<q, k>>  OBVIOUS
  <2>2. PICK u \in Txn, c \in Block : q = <<u, c>>  OBVIOUS
  <2> QED  BY <2>1, <2>2
<1> QED  BY <1>1

(* What a buffer list has pinned is pinned, in a buffer of the pool. *)
LEMMA ListedIsPinned ==
    ASSUME PinInv, NEW t \in Txn, NEW b \in Block, list[t][b].count > 0
    PROVE  /\ list[t][b].buffer \in Buff
           /\ pool[list[t][b].buffer].pins > 0
           /\ pool[list[t][b].buffer].block = b
<1> DEFINE i == list[t][b].buffer
<1>1. i \in 0..NumBuffs /\ list[t][b].count \in 1..MaxPins  BY DEF PinInv, TypeOK, Buffer, Entry
<1>2. i \in Buff  BY <1>1, BufferManagerAssumption DEF PinInv, EntriesAreWhole, Buff
<1>3. <<<<t, b>>, 1>> \in Pins(i)
  <2>1. <<<<t, b>>, 1>> \in (Txn \X Block) \X (1..MaxPins)
    BY <1>1, BufferManagerAssumption
  <2> QED  BY <1>1, <2>1 DEF Pins
<1>4. Cardinality(Pins(i)) # 0  BY <1>3, PinsFinite, FS_EmptySet
<1>5. pool[i].pins = Cardinality(Pins(i))  BY <1>2 DEF PinInv, PinsAreRight, PinsMatchLists
<1>6. pool[i].block = b  BY DEF PinInv, PinsAreRight, PinnedBufferKeepsBlock
<1> QED  BY <1>2, <1>4, <1>5, <1>6, PinsFinite

-----------------------------------------------------------------------------
(* Pins: the invariant PinInv *)

LEMMA InitPinInv == Init => PinInv
<1> SUFFICES ASSUME Init PROVE PinInv  OBVIOUS
<1> USE BufferManagerAssumption
<1>1. TypeOK  BY DEF Init, TypeOK, Buffer, Entry, Buff, Value, Zero, Phase
<1>2. EntriesAreWhole /\ CallersAreKnown /\ OneBufferPerBlock /\ NobodySleepsWhileAvailable
  BY DEF Init, EntriesAreWhole, CallersAreKnown, OneBufferPerBlock, NobodySleepsWhileAvailable
<1>3. NumAvailableCorrect
  <2>1. Unpinned = 1..NumBuffs  BY DEF Init, Unpinned, IsPinned, Buff
  <2>2. Cardinality(1..NumBuffs) = NumBuffs  BY FS_Interval
  <2> QED  BY <2>1, <2>2 DEF Init, NumAvailableCorrect
<1>4. PinsMatchLists
  <2>1. ASSUME NEW i \in Buff PROVE Pins(i) = {}
    BY <2>1 DEF Init, Pins, Buff
  <2> QED  BY <2>1, FS_EmptySet DEF Init, PinsMatchLists
<1>5. PinnedBufferKeepsBlock  BY DEF Init, PinnedBufferKeepsBlock
<1> QED  BY <1>1, <1>2, <1>3, <1>4, <1>5 DEF PinInv, PinsAreRight

(* Pinning a buffer that has the block, or an unpinned one that is given   *)
(* it.                                                                     *)
LEMMA PinCounted ==
    ASSUME PinInv, NEW t \in Txn, NEW i \in Buff,
           phase[t] = "Pin", t \notin asleep,
           pool[i].block = want[t] \/ (Existing(want[t]) = {} /\ ~IsPinned(i)),
           numAvailable' = numAvailable - Taken(i),
           pool' \in [Buff -> Buffer],
           \A j \in Buff : j # i => pool'[j] = pool[j],
           pool'[i].block = want[t], pool'[i].pins = pool[i].pins + 1,
           Record(t, i)
    PROVE  PinsAreRight' /\ OneBufferPerBlock' /\ EntriesAreWhole'
<1> DEFINE b == want[t]
           n == list[t][b].count + 1
<1>0. USE BufferManagerAssumption
<1>1. b \in Block /\ list[t][b].count \in 0..MaxPins /\ list[t][b].count < MaxPins
  BY DEF PinInv, TypeOK, Buffer, Entry, CallersAreKnown
<1>2. list' = [list EXCEPT ![t][b] = [buffer |-> i, count |-> n]]
  BY <1>1 DEF Record, PinInv, TypeOK, Buffer, Entry
<1>3. OneBufferPerBlock'
  BY <1>1 DEF PinInv, OneBufferPerBlock, Existing
<1>4. EntriesAreWhole'
  <2>1. i # 0 /\ n # 0  BY <1>1 DEF Buff
  <2>2. \A u \in Txn, c \in Block :
           list'[u][c] = IF u = t /\ c = b THEN [buffer |-> i, count |-> n] ELSE list[u][c]
    BY <1>1, <1>2 DEF PinInv, TypeOK, Buffer, Entry
  <2> QED  BY <2>1, <2>2 DEF PinInv, EntriesAreWhole
<1>5. NumAvailableCorrect'
  <2>1. Unpinned' = Unpinned \ {i}
    BY DEF Unpinned, IsPinned, PinInv, TypeOK, Buffer, Entry
  <2>2. i \in Unpinned <=> ~IsPinned(i)  BY DEF Unpinned
  <2>3. Cardinality(Unpinned) \in Nat  BY BuffersFinite, FS_CardinalityType
  <2>4. Cardinality(Unpinned \ {i}) =
           IF i \in Unpinned THEN Cardinality(Unpinned) - 1 ELSE Cardinality(Unpinned)
    BY BuffersFinite, FS_RemoveElement
  <2>5. Cardinality(Unpinned') = Cardinality(Unpinned) - Taken(i)
    BY <2>1, <2>2, <2>3, <2>4 DEF Taken
  <2> QED  BY <2>5 DEF NumAvailableCorrect, PinInv, PinsAreRight
<1>6. list[t][b].count > 0 => list[t][b].buffer = i
  BY <1>1, ListedIsPinned DEF PinInv, OneBufferPerBlock, Existing, IsPinned
<1>7. PinsMatchLists'
  <2> SUFFICES ASSUME NEW j \in Buff PROVE pool'[j].pins = Cardinality(Pins(j)')
    BY DEF PinsMatchLists
  <2>1. pool[j].pins = Cardinality(Pins(j))  BY DEF PinInv, PinsAreRight, PinsMatchLists
  <2> DEFINE P == (Txn \X Block) \X (1..MaxPins)
  <2>4. \A u \in Txn, c \in Block :
           list'[u][c] = IF u = t /\ c = b THEN [buffer |-> i, count |-> n] ELSE list[u][c]
    BY <1>1, <1>2 DEF PinInv, TypeOK, Buffer, Entry
  <2>5. Pins(j)' \subseteq P /\ Pins(j) \subseteq P  BY DEF Pins
  <2>6. \A u \in Txn, c \in Block, k \in 1..MaxPins :
           <<<<u, c>>, k>> \in Pins(j)' <=> list'[u][c].buffer = j /\ k <= list'[u][c].count
    BY DEF Pins
  <2>7. \A u \in Txn, c \in Block, k \in 1..MaxPins :
           <<<<u, c>>, k>> \in Pins(j) <=> list[u][c].buffer = j /\ k <= list[u][c].count
    BY DEF Pins
  <2>8. n \in 1..MaxPins /\ <<<<t, b>>, n>> \in P  BY <1>1
  <2>2. CASE j = i
    <3> DEFINE new == <<<<t, b>>, n>>
    <3>3. \A u \in Txn, c \in Block, k \in 1..MaxPins :
             <<<<u, c>>, k>> \in Pins(i)' <=> <<<<u, c>>, k>> \in Pins(i) \/ <<<<u, c>>, k>> = new
      <4> SUFFICES ASSUME NEW u \in Txn, NEW c \in Block, NEW k \in 1..MaxPins
                   PROVE  <<<<u, c>>, k>> \in Pins(i)'
                            <=> <<<<u, c>>, k>> \in Pins(i) \/ <<<<u, c>>, k>> = new
        OBVIOUS
      <4>1. CASE u = t /\ c = b
        <5>1. list'[u][c].buffer = i /\ list'[u][c].count = n  BY <2>4, <4>1
        <5>2. k <= n <=> k <= list[t][b].count \/ k = n  BY <1>1
        <5>3. k <= list[t][b].count => list[t][b].buffer = i  BY <1>1, <1>6
        <5> QED  BY <2>2, <2>6, <2>7, <4>1, <5>1, <5>2, <5>3
      <4>2. CASE ~(u = t /\ c = b)  BY <2>2, <2>4, <2>6, <2>7, <4>2
      <4> QED  BY <4>1, <4>2
    <3>1. Pins(i)' = Pins(i) \cup {new}
      <4> HIDE DEF P
      <4> QED  BY <2>2, <2>5, <2>8, <3>3, SamePins DEF P
    <3>4. new \notin Pins(i)  BY <1>1, <2>2, <2>7, <2>8
    <3>2. Cardinality(Pins(i)') = Cardinality(Pins(i)) + 1
      BY ZenonT(60), <3>1, <3>4, PinsFinite, FS_AddElement
    <3> QED  BY <2>1, <2>2, <3>2
  <2>3. CASE j # i
    <3>2. list[t][b].buffer = j => list[t][b].count = 0
      BY <1>1, <1>6, <2>3
    <3>3. \A u \in Txn, c \in Block, k \in 1..MaxPins :
             <<<<u, c>>, k>> \in Pins(j)' <=> <<<<u, c>>, k>> \in Pins(j)
      <4> SUFFICES ASSUME NEW u \in Txn, NEW c \in Block, NEW k \in 1..MaxPins
                   PROVE  <<<<u, c>>, k>> \in Pins(j)' <=> <<<<u, c>>, k>> \in Pins(j)
        OBVIOUS
      <4>1. CASE u = t /\ c = b
        <5>1. list'[u][c].buffer # j  BY <2>3, <2>4, <4>1
        <5>2. ~(list[u][c].buffer = j /\ k <= list[u][c].count)  BY <3>2, <4>1
        <5> QED  BY <2>6, <2>7, <5>1, <5>2
      <4>2. CASE ~(u = t /\ c = b)  BY <2>4, <2>6, <2>7, <4>2
      <4> QED  BY <4>1, <4>2
    <3>1. Pins(j)' = Pins(j)  BY <2>5, <3>3, SamePins
    <3> QED  BY <2>1, <2>3, <3>1
  <2> QED  BY <2>2, <2>3
<1>8. PinnedBufferKeepsBlock'
  <2> SUFFICES ASSUME NEW u \in Txn, NEW c \in Block, list'[u][c].count > 0
               PROVE  pool'[list'[u][c].buffer].block = c
    BY DEF PinnedBufferKeepsBlock
  <2>1. CASE u = t /\ c = b  BY <1>1, <1>2, <2>1 DEF PinInv, TypeOK, Buffer, Entry
  <2>2. CASE ~(u = t /\ c = b)
    <3>1. list'[u][c] = list[u][c]  BY <1>1, <1>2, <2>2 DEF PinInv, TypeOK, Buffer, Entry
    <3>2. /\ list[u][c].buffer \in Buff
          /\ pool[list[u][c].buffer].pins > 0 /\ pool[list[u][c].buffer].block = c
      BY <3>1, ListedIsPinned
    <3> QED  BY <3>1, <3>2 DEF IsPinned
  <2> QED  BY <2>1, <2>2
<1> QED  BY <1>3, <1>4, <1>5, <1>7, <1>8 DEF PinsAreRight

(* The thread leaves Pin, with a pin more. *)
LEMMA ReturnsCounted ==
    ASSUME PinInv, NEW t \in Txn, NEW i \in Buff, phase[t] = "Pin", t \notin asleep,
           numAvailable' = numAvailable - Taken(i), NumAvailableCorrect',
           pool' \in [Buff -> Buffer],
           Record(t, i), ReturnFromPin(t), UNCHANGED <<asleep, latestLsn, writer, current>>,
           disk' \in [Block -> Value], durableLsn' \in durableLsn..latestLsn
    PROVE  TypeOK' /\ CallersAreKnown'
<1> USE BufferManagerAssumption
<1>1. want[t] \in Block /\ list[t][want[t]].count < MaxPins
  BY DEF PinInv, CallersAreKnown
<1>2. list' \in [Txn -> [Block -> Entry]]
  <2>1. list[t][want[t]].count + 1 \in 0..MaxPins  BY <1>1 DEF PinInv, TypeOK, Entry
  <2>2. [buffer |-> i, count |-> list[t][want[t]].count + 1] \in Entry  BY <2>1 DEF Entry, Buff
  <2>3. list' = [list EXCEPT ![t][want[t]] = [buffer |-> i, count |-> list[t][want[t]].count + 1]]
    BY DEF Record
  <2> QED  BY <1>1, <2>2, <2>3 DEF PinInv, TypeOK
<1>3. numAvailable' \in 0..NumBuffs
  <2>1. Unpinned' \subseteq Buff  BY DEF Unpinned
  <2> QED  BY <2>1, PoolBounds DEF NumAvailableCorrect
<1>4. phase' \in [Txn -> Phase] /\ want' \in [Txn -> Block \cup {NoBlock}] /\ late' \subseteq Txn
  BY DEF PinInv, TypeOK, Buffer, Entry, ReturnFromPin, Phase
<1>5. durableLsn' \in 0..latestLsn'  BY DEF PinInv, TypeOK, Buffer, Entry
<1>6. TypeOK'  BY <1>2, <1>3, <1>4, <1>5 DEF PinInv, TypeOK, Buffer, Entry
<1>7. CallersAreKnown'
  BY <1>1 DEF PinInv, TypeOK, Buffer, Entry, CallersAreKnown, Record, ReturnFromPin
<1> QED  BY <1>6, <1>7

(* A step that leaves every buffer its block and its pins keeps the        *)
(* accounts.                                                               *)
LEMMA PinsKept ==
    ASSUME PinInv, UNCHANGED <<numAvailable, list>>,
           \A i \in Buff : pool'[i].block = pool[i].block /\ pool'[i].pins = pool[i].pins
    PROVE  /\ PinsAreRight' /\ OneBufferPerBlock' /\ EntriesAreWhole'
           /\ Unpinned' = Unpinned /\ \A b : Existing(b)' = Existing(b)
<1>1. Unpinned' = Unpinned  BY DEF Unpinned, IsPinned
<1>2. \A b : Existing(b)' = Existing(b)  BY DEF Existing
<1>3. NumAvailableCorrect'  BY <1>1 DEF NumAvailableCorrect, PinInv, PinsAreRight
<1>4. PinsMatchLists'
  <2>1. \A i : Pins(i)' = Pins(i)  BY DEF Pins
  <2> QED  BY <2>1 DEF PinsMatchLists, PinInv, PinsAreRight
<1>5. PinnedBufferKeepsBlock'
  <2> SUFFICES ASSUME NEW t \in Txn, NEW b \in Block, list[t][b].count > 0
               PROVE  pool'[list[t][b].buffer].block = b
    BY DEF PinnedBufferKeepsBlock
  <2> QED  BY ListedIsPinned
<1>6. OneBufferPerBlock'  BY DEF OneBufferPerBlock, PinInv
<1>7. EntriesAreWhole'  BY DEF EntriesAreWhole, PinInv
<1> QED  BY <1>1, <1>2, <1>3, <1>4, <1>5, <1>6, <1>7 DEF PinsAreRight

(* The steps that only change which thread is where. *)
LEMMA CallsOnly ==
    ASSUME BufferInv, UNCHANGED <<buffers, list, disk, log, writer, current>>
    PROVE  /\ PinsAreRight' /\ OneBufferPerBlock' /\ EntriesAreWhole' /\ PageInv'
           /\ Unpinned' = Unpinned /\ \A b : Existing(b)' = Existing(b)
<1>1. PageInv'
  BY DEF BufferInv, PageInv, BuffersAreCurrent, NothingIsLost, DirtyIsLocked, LsnsInOrder,
         WriteAhead, buffers, log
<1> QED  BY <1>1, PinsKept DEF BufferInv, buffers

LEMMA CallInv ==
    ASSUME BufferInv, NEW t \in Txn, NEW b \in Block, Call(t, b)
    PROVE  BufferInv'
<1>1. UNCHANGED <<buffers, list, disk, log, writer, current>>  BY DEF Call
<1>2. TypeOK'
  BY DEF BufferInv, PinInv, TypeOK, Buffer, Entry, Call, Phase, buffers, log
<1>3. CallersAreKnown'
  BY DEF BufferInv, PinInv, TypeOK, Buffer, Entry, CallersAreKnown, Call, Phase
<1>4. NobodySleepsWhileAvailable'
  BY <1>1, CallsOnly
  DEF BufferInv, PinInv, TypeOK, Buffer, Entry, CallersAreKnown, Call, NobodySleepsWhileAvailable, Unavailable
<1> QED  BY <1>1, <1>2, <1>3, <1>4, CallsOnly DEF BufferInv, PinInv

LEMMA WaitInv ==
    ASSUME BufferInv, NEW t \in Txn, Wait(t)
    PROVE  BufferInv'
<1>1. UNCHANGED <<buffers, list, disk, log, writer, current>>  BY DEF Wait
<1>2. TypeOK'  BY DEF BufferInv, PinInv, TypeOK, Buffer, Entry, Wait, buffers, log
<1>3. CallersAreKnown'  BY DEF BufferInv, PinInv, CallersAreKnown, Wait
<1>4. NobodySleepsWhileAvailable'
  BY <1>1, CallsOnly DEF BufferInv, PinInv, Wait, NobodySleepsWhileAvailable, Unavailable
<1> QED  BY <1>1, <1>2, <1>3, <1>4, CallsOnly DEF BufferInv, PinInv

LEMMA GiveUpInv ==
    ASSUME BufferInv, NEW t \in Txn, GiveUp(t)
    PROVE  BufferInv'
<1>1. UNCHANGED <<buffers, list, disk, log, writer, current>>  BY DEF GiveUp
<1>2. TypeOK'  BY DEF BufferInv, PinInv, TypeOK, Buffer, Entry, GiveUp, ReturnFromPin, Phase, buffers, log
<1>3. CallersAreKnown'
  BY DEF BufferInv, PinInv, TypeOK, Buffer, Entry, CallersAreKnown, GiveUp, ReturnFromPin
<1>4. NobodySleepsWhileAvailable'
  BY <1>1, CallsOnly
  DEF BufferInv, PinInv, TypeOK, Buffer, Entry, GiveUp, ReturnFromPin, NobodySleepsWhileAvailable, Unavailable
<1> QED  BY <1>1, <1>2, <1>3, <1>4, CallsOnly DEF BufferInv, PinInv

LEMMA WakeUpInv ==
    ASSUME BufferInv, NEW t \in Txn, WakeUp(t) \/ TimePasses(t)
    PROVE  BufferInv'
<1>1. UNCHANGED <<buffers, list, phase, want, disk, log, writer, current>> /\ asleep' \subseteq asleep
  BY DEF WakeUp, TimePasses
<1>2. late' \subseteq late \cup {t}  BY DEF WakeUp, TimePasses
<1>3. TypeOK'  BY <1>1, <1>2 DEF BufferInv, PinInv, TypeOK, Buffer, Entry, buffers, log
<1>4. CallersAreKnown'  BY <1>1 DEF BufferInv, PinInv, CallersAreKnown
<1>5. NobodySleepsWhileAvailable'
  BY <1>1, CallsOnly DEF BufferInv, PinInv, NobodySleepsWhileAvailable, Unavailable
<1> QED  BY <1>1, <1>3, <1>4, <1>5, CallsOnly DEF BufferInv, PinInv

LEMMA EndUnpinAllInv ==
    ASSUME BufferInv, NEW t \in Txn, EndUnpinAll(t)
    PROVE  BufferInv'
<1>1. UNCHANGED <<buffers, list, disk, log, writer, current>>  BY DEF EndUnpinAll
<1>2. TypeOK'  BY DEF BufferInv, PinInv, TypeOK, Buffer, Entry, EndUnpinAll, Phase, buffers, log
<1>3. CallersAreKnown'
  BY DEF BufferInv, PinInv, TypeOK, Buffer, Entry, CallersAreKnown, EndUnpinAll
<1>4. NobodySleepsWhileAvailable'
  BY <1>1, CallsOnly
  DEF BufferInv, PinInv, EndUnpinAll, NobodySleepsWhileAvailable, Unavailable
<1> QED  BY <1>1, <1>2, <1>3, <1>4, CallsOnly DEF BufferInv, PinInv

LEMMA PinExistingInv ==
    ASSUME BufferInv, NEW t \in Txn, PinExisting(t)
    PROVE  BufferInv'
<1> DEFINE i == Min(Existing(want[t]))
<1>1. i \in Buff /\ pool[i].block = want[t]
  BY FoundBuffer DEF PinExisting, Existing
<1>2. pool' = [pool EXCEPT ![i].pins = @ + 1]  BY DEF PinExisting
<1>3. /\ numAvailable' = numAvailable - Taken(i) /\ Record(t, i) /\ ReturnFromPin(t)
      /\ phase[t] = "Pin" /\ t \notin asleep
      /\ UNCHANGED <<asleep, disk, log, writer, current>>
  BY DEF PinExisting
<1>4. /\ pool' \in [Buff -> Buffer]
      /\ \A j \in Buff : j # i => pool'[j] = pool[j]
      /\ pool'[i].block = want[t] /\ pool'[i].pins = pool[i].pins + 1
  <2> HIDE DEF i
  <2>1. pool \in [Buff -> Buffer]  BY DEF BufferInv, PinInv, TypeOK
  <2>2. [pool[i] EXCEPT !.pins = @ + 1] \in Buffer  BY <1>1, <2>1 DEF Buffer
  <2>3. pool' = [pool EXCEPT ![i] = [pool[i] EXCEPT !.pins = @ + 1]]  BY <1>2
  <2> QED  BY <1>1, <2>1, <2>2, <2>3 DEF Buffer
<1>5. PinsAreRight' /\ OneBufferPerBlock' /\ EntriesAreWhole'
  <2> HIDE DEF i
  <2> QED  BY <1>1, <1>3, <1>4, PinCounted DEF BufferInv
<1>6. TypeOK' /\ CallersAreKnown'
  <2> HIDE DEF i
  <2>1. durableLsn' \in durableLsn..latestLsn /\ disk' \in [Block -> Value] /\ UNCHANGED latestLsn
    BY <1>3 DEF BufferInv, PinInv, TypeOK, log
  <2> QED  BY <1>1, <1>3, <1>4, <1>5, <2>1, ReturnsCounted DEF BufferInv, PinsAreRight
<1>7. \A j \in Buff : /\ pool'[j].block = pool[j].block /\ pool'[j].data = pool[j].data
                      /\ pool'[j].txn = pool[j].txn /\ pool'[j].lsn = pool[j].lsn
  BY <1>1, <1>2 DEF BufferInv, PinInv, TypeOK, Buffer, Entry
<1>8. PageInv'
  BY <1>3, <1>7
  DEF BufferInv, PageInv, BuffersAreCurrent, NothingIsLost, DirtyIsLocked, LsnsInOrder,
      WriteAhead, log
<1>9. NobodySleepsWhileAvailable'
  <2>1. Unpinned' \subseteq Unpinned
    BY SMTT(60), <1>1, <1>4 DEF Unpinned, IsPinned, BufferInv, PinInv, TypeOK, Buffer
  <2>2. \A b : Existing(b)' = Existing(b)  BY <1>7 DEF Existing
  <2>3. \A u \in asleep' : u \in asleep /\ want'[u] = want[u]
    BY <1>3 DEF ReturnFromPin, BufferInv, PinInv, TypeOK, Buffer, Entry
  <2> QED
    BY <2>1, <2>2, <2>3 DEF BufferInv, PinInv, NobodySleepsWhileAvailable, Unavailable
<1> QED  BY <1>5, <1>6, <1>8, <1>9 DEF BufferInv, PinInv

(* Writing the pages of dirty buffers brings those blocks up to date on    *)
(* disk, the log first.                                                    *)
LEMMA FlushEffect ==
    ASSUME BufferInv, NEW S \in SUBSET Buff, Flush(S)
    PROVE  /\ disk' \in [Block -> Value] /\ durableLsn' \in durableLsn..latestLsn
           /\ \A b \in Block : disk'[b] \in {disk[b], current[b]}
           /\ \A b \in Block : disk'[b] # current[b] =>
                 /\ disk'[b] = disk[b]
                 /\ ~ \E i \in S : pool[i].txn # NoTxn /\ pool[i].block = b
           /\ \A b \in Block : disk'[b].lsn <= durableLsn'
<1> DEFINE dirty == {i \in S : pool[i].txn # NoTxn}
           lsns == {pool[i].lsn : i \in dirty}
           page(b) == CHOOSE i \in dirty : pool[i].block = b
<1>1. /\ durableLsn' = IF dirty = {} THEN durableLsn ELSE DurableAfterFlush(Max(lsns))
      /\ disk' = [b \in Block |-> IF \E i \in dirty : pool[i].block = b
                                  THEN pool[page(b)].data ELSE disk[b]]
  BY DEF Flush
<1>2. /\ pool \in [Buff -> Buffer]
      /\ disk \in [Block -> Value] /\ current \in [Block -> Value]
      /\ latestLsn \in Nat /\ durableLsn \in 0..latestLsn
      /\ dirty \subseteq Buff
  BY BufferManagerAssumption DEF BufferInv, PinInv, TypeOK, Buffer, Entry
<1>3. durableLsn' \in durableLsn..latestLsn  BY <1>1, <1>2 DEF DurableAfterFlush
<1>4. \A i \in dirty : pool[i].data.lsn <= durableLsn'
  <2> SUFFICES ASSUME NEW i \in dirty PROVE pool[i].data.lsn <= durableLsn'  OBVIOUS
  <2>1. IsFiniteSet(lsns) /\ lsns \subseteq Int /\ pool[i].lsn \in lsns
    <3>1. lsns \subseteq -1..MaxWrites /\ pool[i].lsn \in lsns  BY <1>2 DEF Buffer
    <3>2. IsFiniteSet(-1..MaxWrites)  BY FS_Interval, BufferManagerAssumption
    <3>3. IsFiniteSet(lsns)
      <4> HIDE DEF lsns
      <4> QED  BY <3>1, <3>2, FS_Subset
    <3> QED  BY <3>1, <3>3
  <2>2. Max(lsns) \in Int /\ pool[i].lsn <= Max(lsns)
    <3> HIDE DEF lsns
    <3> QED  BY <2>1, MaxIsGreatest
  <2>3. durableLsn' = IF Max(lsns) > durableLsn THEN latestLsn ELSE durableLsn
    BY <1>1 DEF DurableAfterFlush
  <2>4. /\ pool[i].lsn <= latestLsn
        /\ pool[i].data.lsn <= durableLsn \/ pool[i].data.lsn <= pool[i].lsn
    BY <1>2 DEF BufferInv, PageInv, LsnsInOrder
  <2>5. pool[i].lsn \in Int /\ pool[i].data.lsn \in Int  BY <1>2 DEF Buffer, Value
  <2> QED  BY <1>2, <2>2, <2>3, <2>4, <2>5
<1>5. ASSUME NEW b \in Block, NEW i \in dirty, pool[i].block = b
      PROVE  disk'[b] = current[b] /\ disk'[b].lsn <= durableLsn'
  <2>1. page(b) \in dirty /\ pool[page(b)].block = b  BY <1>5
  <2>2. disk'[b] = pool[page(b)].data  BY <1>1, <1>5
  <2>3. pool[page(b)].data = current[b]
    BY <1>2, <2>1 DEF BufferInv, PageInv, BuffersAreCurrent
  <2> HIDE DEF page
  <2> QED  BY <1>4, <2>1, <2>2, <2>3
<1>6. ASSUME NEW b \in Block, ~ \E i \in dirty : pool[i].block = b
      PROVE  disk'[b] = disk[b] /\ disk'[b].lsn <= durableLsn'
  <2>1. disk'[b] = disk[b]  BY <1>1, <1>6
  <2>2. disk[b].lsn <= durableLsn /\ disk[b].lsn \in Int
    BY <1>2 DEF BufferInv, PageInv, WriteAhead, Value
  <2> QED  BY <1>2, <1>3, <2>1, <2>2
<1>7. disk' \in [Block -> Value]
  <2> HIDE DEF dirty, page
  <2>1. DOMAIN disk' = Block /\ disk' = [b \in Block |-> disk'[b]]  BY <1>1
  <2>2. \A b \in Block : disk'[b] \in Value  BY <1>2, <1>5, <1>6
  <2> QED  BY <2>1, <2>2
<1> QED  BY <1>3, <1>5, <1>6, <1>7

LEMMA PinReplacingInv ==
    ASSUME BufferInv, NEW t \in Txn, PinReplacing(t)
    PROVE  BufferInv'
<1> DEFINE i == Min(Unpinned)
           b == want[t]
<1>1. i \in Buff /\ ~IsPinned(i)  BY FoundBuffer DEF PinReplacing, Unpinned
<1>2. pool' = [pool EXCEPT ![i] = [block |-> b, pins |-> 1, txn |-> NoTxn,
                                   lsn |-> pool[i].lsn, data |-> disk[b]]]
  BY DEF PinReplacing
<1>3. /\ numAvailable' = numAvailable - Taken(i) /\ Flush({i})
      /\ Record(t, i) /\ ReturnFromPin(t)
      /\ phase[t] = "Pin" /\ t \notin asleep
      /\ Existing(b) = {} /\ Unpinned # {}
      /\ UNCHANGED <<asleep, latestLsn, writer, current>>
  BY DEF PinReplacing
<1>4. b \in Block  BY <1>3 DEF BufferInv, PinInv, CallersAreKnown
<1>5. pool \in [Buff -> Buffer] /\ disk \in [Block -> Value]
  BY DEF BufferInv, PinInv, TypeOK
<1> HIDE DEF i, b
<1>6. /\ pool' \in [Buff -> Buffer]
      /\ \A j \in Buff : j # i => pool'[j] = pool[j]
      /\ pool'[i] = [block |-> b, pins |-> 1, txn |-> NoTxn, lsn |-> pool[i].lsn, data |-> disk[b]]
  <2>2. [block |-> b, pins |-> 1, txn |-> NoTxn, lsn |-> pool[i].lsn, data |-> disk[b]] \in Buffer
    BY <1>1, <1>4, <1>5 DEF Buffer
  <2> QED  BY <1>1, <1>2, <1>5, <2>2
<1>7. pool[i].pins = 0  BY <1>1, <1>5 DEF IsPinned, Buffer
<1>8. PinsAreRight' /\ OneBufferPerBlock' /\ EntriesAreWhole'
  BY <1>1, <1>3, <1>6, <1>7, PinCounted DEF BufferInv, b
<1>9. {i} \in SUBSET Buff  BY <1>1
<1>10. /\ disk' \in [Block -> Value] /\ durableLsn' \in durableLsn..latestLsn
       /\ \A c \in Block : disk'[c] \in {disk[c], current[c]}
       /\ \A c \in Block : disk'[c] # current[c] =>
             disk'[c] = disk[c] /\ ~(pool[i].txn # NoTxn /\ pool[i].block = c)
       /\ \A c \in Block : disk'[c].lsn <= durableLsn'
  BY <1>3, <1>9, FlushEffect
<1>11. TypeOK' /\ CallersAreKnown'
  BY <1>1, <1>3, <1>6, <1>8, <1>10, ReturnsCounted DEF BufferInv, PinsAreRight
<1>12. NobodySleepsWhileAvailable'
  BY <1>3 DEF BufferInv, PinInv, NobodySleepsWhileAvailable, Unavailable
<1>13. disk[b] = current[b]
  BY <1>3, <1>4 DEF BufferInv, PageInv, NothingIsLost, Existing
<1>14. BuffersAreCurrent'
  BY <1>3, <1>6, <1>13 DEF BufferInv, PageInv, BuffersAreCurrent
<1>15. NothingIsLost'
  <2> SUFFICES ASSUME NEW c \in Block, disk'[c] # current[c]
               PROVE  \E j \in Buff : pool'[j].block = c /\ pool'[j].txn # NoTxn
    BY <1>3 DEF NothingIsLost
  <2>1. PICK j \in Buff : pool[j].block = c /\ pool[j].txn # NoTxn
    BY <1>10 DEF BufferInv, PageInv, NothingIsLost
  <2>2. j # i  BY <1>10, <2>1
  <2> QED  BY <1>6, <2>1, <2>2
<1>16. DirtyIsLocked'
  BY <1>3, <1>6 DEF BufferInv, PageInv, DirtyIsLocked
<1>17. LsnsInOrder'
  <2>1. ASSUME NEW j \in Buff
        PROVE  /\ pool'[j].lsn <= latestLsn
               /\ pool'[j].data.lsn <= durableLsn' \/ pool'[j].data.lsn <= pool'[j].lsn
    <3>1. /\ pool[j].lsn <= latestLsn
          /\ pool[j].data.lsn <= durableLsn \/ pool[j].data.lsn <= pool[j].lsn
          /\ disk[b].lsn <= durableLsn
      BY <1>4 DEF BufferInv, PageInv, LsnsInOrder, WriteAhead
    <3>2. /\ durableLsn \in Int /\ latestLsn \in Int /\ pool[j].data.lsn \in Int
          /\ disk[b].lsn \in Int /\ pool[j].lsn \in Int
      BY <1>4, <1>5, BufferManagerAssumption DEF BufferInv, PinInv, TypeOK, Buffer, Value
    <3>3. durableLsn <= durableLsn'  BY <1>10, <3>2
    <3>4. CASE j = i  BY <1>6, <1>10, <3>1, <3>2, <3>3, <3>4
    <3>5. CASE j # i  BY <1>6, <1>10, <3>1, <3>2, <3>3, <3>5
    <3> QED  BY <3>4, <3>5
  <2> QED  BY <1>3, <2>1 DEF BufferInv, PageInv, LsnsInOrder
<1>18. WriteAhead'  BY <1>10 DEF WriteAhead
<1> QED
  BY <1>8, <1>11, <1>12, <1>14, <1>15, <1>16, <1>17, <1>18 DEF BufferInv, PinInv, PageInv

(* Unpinning takes the last of the transaction's pins from the accounts.   *)
LEMMA UnpinInv ==
    ASSUME BufferInv, NEW t \in Txn, NEW b \in Block, Unpin(t, b)
    PROVE  BufferInv'
<1> USE BufferManagerAssumption
<1>0. PICK i, n : i = list[t][b].buffer /\ n = list[t][b].count  OBVIOUS
<1> DEFINE new == Unlisted(list[t][b])
<1>1. /\ n > 0 /\ pool' = [pool EXCEPT ![i].pins = @ - 1]
      /\ numAvailable' = numAvailable + Freed(i) /\ asleep' = SleepersAfterUnpin(i)
      /\ list' = [list EXCEPT ![t][b] = new]
      /\ phase[t] # "Pin"
      /\ UNCHANGED <<phase, want, late, disk, log, writer, current>>
  BY <1>0 DEF Unpin
<1>2. i \in Buff /\ pool[i].pins > 0 /\ pool[i].block = b
  BY <1>0, <1>1, ListedIsPinned DEF BufferInv
<1>3. /\ pool \in [Buff -> Buffer] /\ list \in [Txn -> [Block -> Entry]]
      /\ list[t][b] = [buffer |-> i, count |-> n] /\ n \in 1..MaxPins /\ i \in 1..NumBuffs
  BY <1>0, <1>1, <1>2 DEF BufferInv, PinInv, TypeOK, Entry, Buff
<1>4. new = [buffer |-> IF n = 1 THEN 0 ELSE i, count |-> n - 1]
  BY <1>3 DEF Unlisted
<1> HIDE DEF new
<1>5. \A u \in Txn, c \in Block : list'[u][c] = IF u = t /\ c = b THEN new ELSE list[u][c]
  BY <1>1, <1>3
<1>6. /\ pool' \in [Buff -> Buffer]
      /\ \A j \in Buff : j # i => pool'[j] = pool[j]
      /\ pool'[i] = [pool[i] EXCEPT !.pins = @ - 1]
      /\ pool'[i].pins = pool[i].pins - 1
  <2>1. pool[i].pins \in Nat /\ pool[i].pins - 1 \in Nat  BY <1>2, <1>3 DEF Buffer
  <2>2. [pool[i] EXCEPT !.pins = @ - 1] \in Buffer /\ [pool[i] EXCEPT !.pins = @ - 1].pins = pool[i].pins - 1
    BY <1>2, <1>3, <2>1 DEF Buffer
  <2>3. pool' = [pool EXCEPT ![i] = [pool[i] EXCEPT !.pins = @ - 1]]  BY <1>1
  <2> QED  BY <1>2, <1>3, <2>2, <2>3
<1>7. \A j \in Buff : /\ pool'[j].block = pool[j].block /\ pool'[j].data = pool[j].data
                      /\ pool'[j].txn = pool[j].txn /\ pool'[j].lsn = pool[j].lsn
  BY <1>2, <1>3, <1>6 DEF Buffer
<1>8. PageInv'
  BY <1>1, <1>7
  DEF BufferInv, PageInv, BuffersAreCurrent, NothingIsLost, DirtyIsLocked, LsnsInOrder,
      WriteAhead, log
<1>9. OneBufferPerBlock'  BY <1>7 DEF BufferInv, PinInv, OneBufferPerBlock
<1>10. EntriesAreWhole'
  <2>1. n - 1 = 0 <=> (IF n = 1 THEN 0 ELSE i) = 0  BY <1>3
  <2>2. new.count = 0 <=> new.buffer = 0  BY <1>4, <2>1
  <2> QED  BY <1>5, <2>2 DEF BufferInv, PinInv, EntriesAreWhole
<1>11. NumAvailableCorrect'
  <2>1. Unpinned' = IF pool[i].pins = 1 THEN Unpinned \cup {i} ELSE Unpinned
    <3>1. pool[i].pins \in Nat /\ i \notin Unpinned  BY <1>2, <1>3 DEF Buffer, Unpinned, IsPinned
    <3>2. i \in Unpinned' <=> ~(pool'[i].pins > 0)  BY <1>2 DEF Unpinned, IsPinned
    <3>5. i \in Unpinned' <=> pool[i].pins = 1  BY <1>2, <1>6, <3>1, <3>2
    <3>3. \A j \in Buff : j # i => (j \in Unpinned' <=> j \in Unpinned)
      BY <1>6 DEF Unpinned, IsPinned
    <3>4. Unpinned \subseteq Buff /\ Unpinned' \subseteq Buff  BY DEF Unpinned
    <3> QED  BY <1>2, <3>1, <3>3, <3>4, <3>5
  <2>2. i \notin Unpinned  BY <1>2, <1>3 DEF Unpinned, IsPinned
  <2>3. Cardinality(Unpinned) \in Nat  BY BuffersFinite, FS_CardinalityType
  <2>4. Cardinality(Unpinned \cup {i}) = Cardinality(Unpinned) + 1
    BY <2>2, BuffersFinite, FS_AddElement
  <2>5. Cardinality(Unpinned') = Cardinality(Unpinned) + Freed(i)
    BY <2>1, <2>3, <2>4 DEF Freed
  <2> QED  BY <1>1, <2>5 DEF NumAvailableCorrect, BufferInv, PinInv, PinsAreRight
<1>12. PinsMatchLists'
  <2> SUFFICES ASSUME NEW j \in Buff PROVE pool'[j].pins = Cardinality(Pins(j)')
    BY DEF PinsMatchLists
  <2>1. pool[j].pins = Cardinality(Pins(j))
    BY DEF BufferInv, PinInv, PinsAreRight, PinsMatchLists
  <2>2. \A u \in Txn, c \in Block, k \in 1..MaxPins :
           <<<<u, c>>, k>> \in Pins(j)' <=> list'[u][c].buffer = j /\ k <= list'[u][c].count
    BY DEF Pins
  <2>3. \A u \in Txn, c \in Block, k \in 1..MaxPins :
           <<<<u, c>>, k>> \in Pins(j) <=> list[u][c].buffer = j /\ k <= list[u][c].count
    BY DEF Pins
  <2>4. Pins(j)' \subseteq (Txn \X Block) \X (1..MaxPins) /\ Pins(j) \subseteq (Txn \X Block) \X (1..MaxPins)
    BY DEF Pins
  <2>5. CASE j = i
    <3> DEFINE last == <<<<t, b>>, n>>
    <3>1. \A u \in Txn, c \in Block, k \in 1..MaxPins :
             <<<<u, c>>, k>> \in Pins(i)' <=> <<<<u, c>>, k>> \in Pins(i) \ {last}
      <4> SUFFICES ASSUME NEW u \in Txn, NEW c \in Block, NEW k \in 1..MaxPins
                   PROVE  <<<<u, c>>, k>> \in Pins(i)'
                            <=> <<<<u, c>>, k>> \in Pins(i) /\ <<<<u, c>>, k>> # last
        OBVIOUS
      <4>1. CASE u = t /\ c = b
        <5>1. list'[u][c].count = n - 1 /\ (list'[u][c].buffer = i <=> n # 1)
          BY <1>3, <1>4, <1>5, <4>1
        <5>2. k <= n - 1 <=> k <= n /\ k # n  BY <1>3
        <5>3. k <= n - 1 => n # 1  BY <1>3
        <5>4. list[u][c].buffer = i /\ list[u][c].count = n  BY <1>3, <4>1
        <5>5. <<<<u, c>>, k>> \in Pins(i)' <=> k <= n - 1  BY <2>2, <2>5, <5>1, <5>3
        <5>6. <<<<u, c>>, k>> \in Pins(i) <=> k <= n  BY <2>3, <2>5, <5>4
        <5>7. <<<<u, c>>, k>> # last <=> k # n  BY <4>1
        <5> QED  BY <5>2, <5>5, <5>6, <5>7
      <4>2. CASE ~(u = t /\ c = b)  BY <2>2, <2>3, <2>5, <1>5, <4>2
      <4> QED  BY <4>1, <4>2
    <3>2. Pins(i)' = Pins(i) \ {last}
      <4>1. Pins(i) \ {last} \subseteq (Txn \X Block) \X (1..MaxPins)  BY <2>4, <2>5
      <4> HIDE DEF last
      <4> QED  BY <2>4, <2>5, <3>1, <4>1, SamePins
    <3>3. last \in Pins(i)  BY <1>3, <2>3, <2>5
    <3>4. Cardinality(Pins(i)') = Cardinality(Pins(i)) - 1
      BY ZenonT(60), <3>2, <3>3, PinsFinite, FS_RemoveElement
    <3> QED  BY <1>6, <2>1, <2>5, <3>4
  <2>6. CASE j # i
    <3>1. \A u \in Txn, c \in Block, k \in 1..MaxPins :
             <<<<u, c>>, k>> \in Pins(j)' <=> <<<<u, c>>, k>> \in Pins(j)
      <4> SUFFICES ASSUME NEW u \in Txn, NEW c \in Block, NEW k \in 1..MaxPins
                   PROVE  <<<<u, c>>, k>> \in Pins(j)' <=> <<<<u, c>>, k>> \in Pins(j)
        OBVIOUS
      <4>1. CASE u = t /\ c = b
        <5>1. list'[u][c].buffer # j  BY <1>4, <1>5, <2>6, <4>1 DEF Buff
        <5>2. list[u][c].buffer # j  BY <1>3, <2>6, <4>1
        <5> QED  BY <2>2, <2>3, <5>1, <5>2
      <4>2. CASE ~(u = t /\ c = b)  BY <1>5, <2>2, <2>3, <4>2
      <4> QED  BY <4>1, <4>2
    <3>2. Pins(j)' = Pins(j)  BY <2>4, <3>1, SamePins
    <3> QED  BY <1>6, <2>1, <2>6, <3>2
  <2> QED  BY <2>5, <2>6
<1>13. PinnedBufferKeepsBlock'
  <2> SUFFICES ASSUME NEW u \in Txn, NEW c \in Block, list'[u][c].count > 0
               PROVE  pool'[list'[u][c].buffer].block = c
    BY DEF PinnedBufferKeepsBlock
  <2>1. CASE u = t /\ c = b  BY <1>2, <1>3, <1>4, <1>5, <1>7, <2>1
  <2>2. CASE ~(u = t /\ c = b)
    <3>1. list'[u][c] = list[u][c]  BY <1>5, <2>2
    <3>2. list[u][c].buffer \in Buff /\ pool[list[u][c].buffer].block = c
      BY <3>1, ListedIsPinned DEF BufferInv
    <3> QED  BY <1>7, <3>1, <3>2
  <2> QED  BY <2>1, <2>2
<1>14. numAvailable' \in 0..NumBuffs
  <2>1. Unpinned' \subseteq Buff  BY DEF Unpinned
  <2> QED  BY <1>11, <2>1, PoolBounds DEF NumAvailableCorrect
<1>15. TypeOK'
  <2>1. new \in Entry  BY <1>3, <1>4 DEF Entry
  <2>2. list' \in [Txn -> [Block -> Entry]]  BY <1>1, <1>3, <2>1
  <2>3. asleep' \subseteq Txn  BY <1>1 DEF SleepersAfterUnpin, BufferInv, PinInv, TypeOK
  <2> QED  BY <1>1, <1>6, <1>14, <2>2, <2>3 DEF BufferInv, PinInv, TypeOK, log
<1>16. CallersAreKnown'
  BY <1>1, <1>5 DEF SleepersAfterUnpin, BufferInv, PinInv, CallersAreKnown
<1>17. NobodySleepsWhileAvailable'
  <2>1. CASE pool[i].pins = 1  BY <1>1, <2>1 DEF SleepersAfterUnpin, NobodySleepsWhileAvailable
  <2>2. CASE pool[i].pins # 1
    <3>1. Unpinned' \subseteq Unpinned
      <4>1. ASSUME NEW j \in Buff, ~(pool'[j].pins > 0) PROVE ~(pool[j].pins > 0)
        <5>1. CASE j = i  BY <1>2, <1>3, <1>6, <2>2, <4>1, <5>1 DEF Buffer
        <5>2. CASE j # i  BY <1>6, <4>1, <5>2
        <5> QED  BY <5>1, <5>2
      <4> QED  BY <4>1 DEF Unpinned, IsPinned
    <3>2. \A c : Existing(c)' = Existing(c)  BY <1>7 DEF Existing
    <3> QED
      BY <1>1, <2>2, <3>1, <3>2
      DEF SleepersAfterUnpin, BufferInv, PinInv, NobodySleepsWhileAvailable, Unavailable
  <2> QED  BY <2>1, <2>2
<1> QED
  BY <1>8, <1>9, <1>10, <1>11, <1>12, <1>13, <1>15, <1>16, <1>17
  DEF BufferInv, PinInv, PinsAreRight

-----------------------------------------------------------------------------
(* Pages: writing and committing *)

(* The three fields Buffer::SetModified and the write before it change.    *)
LEMMA WrittenBuffer ==
    ASSUME NEW r \in Buffer, NEW txn, NEW lsn, NEW data
    PROVE  [r EXCEPT !.data = data, !.txn = txn, !.lsn = lsn]
              = [block |-> r.block, pins |-> r.pins, txn |-> txn, lsn |-> lsn, data |-> data]
<1>1. [r EXCEPT !.data = data, !.txn = txn, !.lsn = lsn]
         = [[[r EXCEPT !.data = data] EXCEPT !.txn = txn] EXCEPT !.lsn = lsn]
  OBVIOUS
<1>2. PICK q : q = [r EXCEPT !.data = data]  OBVIOUS
<1>3. q = [block |-> r.block, pins |-> r.pins, txn |-> r.txn, lsn |-> r.lsn, data |-> data]
  BY <1>2 DEF Buffer
<1>4. PICK p : p = [q EXCEPT !.txn = txn]  OBVIOUS
<1>5. p = [block |-> r.block, pins |-> r.pins, txn |-> txn, lsn |-> r.lsn, data |-> data]
  BY <1>3, <1>4
<1>6. [p EXCEPT !.lsn = lsn]
         = [block |-> r.block, pins |-> r.pins, txn |-> txn, lsn |-> lsn, data |-> data]
  BY <1>5
<1> QED  BY <1>1, <1>2, <1>4, <1>6

(* A write needs a pin and makes the buffer dirty, under the lock.         *)
LEMMA WriteInv ==
    ASSUME BufferInv, NEW t \in Txn, NEW b \in Block, NEW okToLog \in BOOLEAN,
           Write(t, b, okToLog)
    PROVE  BufferInv'
<1> USE BufferManagerAssumption
<1>1. PICK i, lsn, new :
         /\ i = list[t][b].buffer
         /\ lsn = IF okToLog THEN latestLsn + 1 ELSE pool[i].lsn
         /\ new = [val |-> 1 + Max({current[c].val : c \in Block}),
                   lsn |-> IF okToLog THEN lsn ELSE current[b].lsn]
  OBVIOUS
<1>2. /\ phase[t] = "idle" /\ list[t][b].count > 0 /\ new.val <= MaxWrites
      /\ writer' = [writer EXCEPT ![b] = t]
      /\ latestLsn' = IF okToLog THEN lsn ELSE latestLsn
      /\ pool' = [pool EXCEPT ![i] = [pool[i] EXCEPT !.data = new, !.txn = t, !.lsn = lsn]]
      /\ current' = [current EXCEPT ![b] = new]
      /\ UNCHANGED <<numAvailable, calls, disk, durableLsn>>
  BY <1>1 DEF Write
<1>3. i \in Buff /\ pool[i].block = b  BY <1>1, <1>2, ListedIsPinned DEF BufferInv
<1>4. /\ pool \in [Buff -> Buffer] /\ current \in [Block -> Value] /\ disk \in [Block -> Value]
      /\ latestLsn \in 0..MaxWrites /\ durableLsn \in 0..latestLsn
      /\ writer \in [Block -> Txn \cup {NoTxn}]
  BY DEF BufferInv, PinInv, TypeOK
<1>5. /\ new.val \in 1..MaxWrites
      /\ \A c \in Block : current[c].val < new.val
      /\ latestLsn < new.val
  <2> DEFINE vals == {current[c].val : c \in Block}
  <2>1. vals \subseteq 0..MaxWrites /\ vals # {}  BY <1>4 DEF Value
  <2>2. IsFiniteSet(vals)
    <3>1. IsFiniteSet(0..MaxWrites)  BY FS_Interval
    <3> QED  BY <2>1, <3>1, FS_Subset
  <2>3. Max(vals) \in vals /\ \A v \in vals : v <= Max(vals)
    <3>1. vals \subseteq Int  BY <2>1
    <3> HIDE DEF vals
    <3> QED  BY <2>1, <2>2, <3>1, MaxIsGreatest
  <2>4. new.val = 1 + Max(vals)  BY <1>1
  <2>5. \A c \in Block : current[c].val \in vals  OBVIOUS
  <2>6. new.val \in 1..MaxWrites /\ \A c \in Block : current[c].val < new.val
    <3> HIDE DEF vals
    <3> QED  BY <1>2, <1>4, <2>1, <2>3, <2>4, <2>5
  <2>7. latestLsn > 0 => \E c \in Block : latestLsn <= current[c].val
    BY DEF BufferInv, PageInv, LsnsInOrder
  <2>8. \A c \in Block : current[c].val \in Int  BY <1>4 DEF Value
  <2> QED  BY <1>4, <2>6, <2>7, <2>8
<1>6. lsn \in -1..MaxWrites /\ new \in Value
  <2>1. pool[i].lsn \in -1..MaxWrites /\ current[b].lsn \in -1..MaxWrites
    BY <1>3, <1>4 DEF Buffer, Value
  <2>2. lsn \in -1..MaxWrites  BY <1>1, <1>4, <1>5, <2>1
  <2>3. (IF okToLog THEN lsn ELSE current[b].lsn) \in -1..MaxWrites  BY <2>1, <2>2
  <2> QED  BY <1>1, <1>5, <2>2, <2>3 DEF Value
<1>7. /\ pool' \in [Buff -> Buffer] /\ \A j \in Buff : j # i => pool'[j] = pool[j]
      /\ pool'[i] = [block |-> b, pins |-> pool[i].pins, txn |-> t, lsn |-> lsn, data |-> new]
  <2>1. pool[i] \in Buffer  BY <1>3, <1>4
  <2>2. [pool[i] EXCEPT !.data = new, !.txn = t, !.lsn = lsn]
           = [block |-> b, pins |-> pool[i].pins, txn |-> t, lsn |-> lsn, data |-> new]
    <3>1. [pool[i] EXCEPT !.data = new, !.txn = t, !.lsn = lsn]
             = [block |-> pool[i].block, pins |-> pool[i].pins, txn |-> t, lsn |-> lsn, data |-> new]
      BY <2>1, WrittenBuffer, Zenon
    <3> QED  BY <1>3, <3>1
  <2>3. [block |-> b, pins |-> pool[i].pins, txn |-> t, lsn |-> lsn, data |-> new] \in Buffer
    BY <1>6, <2>1 DEF Buffer
  <2> QED  BY <1>2, <1>3, <1>4, <2>2, <2>3
<1>8. \A j \in Buff : pool'[j].block = pool[j].block /\ pool'[j].pins = pool[j].pins
  BY <1>3, <1>7
<1>9. /\ PinsAreRight' /\ OneBufferPerBlock' /\ EntriesAreWhole'
      /\ Unpinned' = Unpinned /\ \A c : Existing(c)' = Existing(c)
  BY <1>2, <1>8, PinsKept DEF BufferInv, calls
<1>10. latestLsn' \in 0..MaxWrites /\ latestLsn <= latestLsn'
  <2>1. latestLsn + 1 \in 0..MaxWrites  BY <1>4, <1>5
  <2> QED  BY <1>1, <1>2, <1>4, <2>1
<1>11. TypeOK'
  <2>1. current' \in [Block -> Value] /\ writer' \in [Block -> Txn \cup {NoTxn}]
    BY <1>2, <1>4, <1>6
  <2>2. durableLsn' \in 0..latestLsn'  BY <1>2, <1>4, <1>10
  <2> QED  BY <1>2, <1>7, <1>10, <2>1, <2>2 DEF BufferInv, PinInv, TypeOK, calls
<1>12. CallersAreKnown'  BY <1>2 DEF BufferInv, PinInv, CallersAreKnown, calls
<1>13. NobodySleepsWhileAvailable'
  BY <1>2, <1>9 DEF BufferInv, PinInv, NobodySleepsWhileAvailable, Unavailable, calls
<1>14. \A j \in Buff : pool[j].block = b => j = i
  <2>1. b # NoBlock  OBVIOUS
  <2> QED  BY <1>3, <2>1 DEF BufferInv, PinInv, OneBufferPerBlock
<1>15. /\ current'[b] = new /\ \A c \in Block : c # b => current'[c] = current[c]
       /\ writer'[b] = t /\ \A c \in Block : c # b => writer'[c] = writer[c]
  BY <1>2, <1>4
<1>16. BuffersAreCurrent'
  BY <1>7, <1>14, <1>15 DEF BufferInv, PageInv, BuffersAreCurrent
<1>17. NothingIsLost'
  <2> SUFFICES ASSUME NEW c \in Block, disk[c] # current'[c]
               PROVE  \E j \in Buff : pool'[j].block = c /\ pool'[j].txn # NoTxn
    BY <1>2 DEF NothingIsLost
  <2>1. CASE c = b  BY <1>3, <1>7, <2>1
  <2>2. CASE c # b
    <3>1. PICK j \in Buff : pool[j].block = c /\ pool[j].txn # NoTxn
      BY <1>15, <2>2 DEF BufferInv, PageInv, NothingIsLost
    <3>2. j # i  BY <1>3, <2>2, <3>1
    <3> QED  BY <1>7, <3>1, <3>2
  <2> QED  BY <2>1, <2>2
<1>18. DirtyIsLocked'
  <2> SUFFICES ASSUME NEW j \in Buff, pool'[j].txn # NoTxn
               PROVE  pool'[j].block \in Block /\ writer'[pool'[j].block] = pool'[j].txn
    BY DEF DirtyIsLocked
  <2>1. CASE j = i  BY <1>7, <1>15, <2>1
  <2>2. CASE j # i
    <3>1. pool'[j] = pool[j]  BY <1>7, <2>2
    <3>2. pool[j].block \in Block /\ writer[pool[j].block] = pool[j].txn
      BY <3>1 DEF BufferInv, PageInv, DirtyIsLocked
    <3>3. pool[j].block # b  BY <1>14, <2>2
    <3> QED  BY <1>15, <3>1, <3>2, <3>3
  <2> QED  BY <2>1, <2>2
<1>19. LsnsInOrder'
  <2>1. ASSUME NEW j \in Buff
        PROVE  /\ pool'[j].lsn <= latestLsn'
               /\ pool'[j].data.lsn <= durableLsn' \/ pool'[j].data.lsn <= pool'[j].lsn
    <3>1. /\ pool[j].lsn <= latestLsn
          /\ pool[j].data.lsn <= durableLsn \/ pool[j].data.lsn <= pool[j].lsn
      BY DEF BufferInv, PageInv, LsnsInOrder
    <3>2. pool[j].lsn \in Int  BY <1>4 DEF Buffer
    <3>3. CASE j = i
      <4>1. pool[i].data = current[b]  BY <1>3 DEF BufferInv, PageInv, BuffersAreCurrent
      <4>2. lsn <= latestLsn'  BY <1>1, <1>2, <1>4, <3>1, <3>2, <3>3
      <4>3. new.lsn <= durableLsn \/ new.lsn <= lsn
        <5>1. CASE okToLog  BY <1>1, <1>6, <5>1
        <5>2. CASE ~okToLog  BY <1>1, <3>1, <3>3, <4>1, <5>2
        <5> QED  BY <5>1, <5>2
      <4> QED  BY <1>2, <1>7, <3>3, <4>2, <4>3
    <3>4. CASE j # i  BY <1>2, <1>4, <1>7, <1>10, <3>1, <3>2, <3>4
    <3> QED  BY <3>3, <3>4
  <2>2. latestLsn' <= current'[b].val
    <3>1. latestLsn' <= latestLsn + 1  BY <1>1, <1>2, <1>4
    <3> QED  BY <1>4, <1>5, <1>10, <1>15, <3>1
  <2> QED  BY <2>1, <2>2 DEF LsnsInOrder
<1>20. WriteAhead'  BY <1>2 DEF BufferInv, PageInv, WriteAhead
<1> QED
  BY <1>9, <1>11, <1>12, <1>13, <1>16, <1>17, <1>18, <1>19, <1>20 DEF BufferInv, PinInv, PageInv

(* A commit writes the transaction's dirty pages before its locks go.      *)
LEMMA FlushAllInv ==
    ASSUME BufferInv, NEW t \in Txn, FlushAll(t)
    PROVE  BufferInv'
<1> USE BufferManagerAssumption
<1>1. /\ phase[t] = "idle" /\ Flush(ModifiedBy(t))
      /\ pool' = [i \in Buff |-> IF i \in ModifiedBy(t) THEN Clean(pool[i]) ELSE pool[i]]
      /\ writer' = [b \in Block |-> IF writer[b] = t THEN NoTxn ELSE writer[b]]
      /\ phase' = [phase EXCEPT ![t] = "UnpinAll"]
      /\ UNCHANGED <<numAvailable, list, want, asleep, late, latestLsn, current>>
  BY DEF FlushAll
<1>2. /\ pool \in [Buff -> Buffer] /\ current \in [Block -> Value] /\ disk \in [Block -> Value]
      /\ latestLsn \in 0..MaxWrites /\ durableLsn \in 0..latestLsn
      /\ writer \in [Block -> Txn \cup {NoTxn}]
  BY DEF BufferInv, PinInv, TypeOK
<1>3. /\ disk' \in [Block -> Value] /\ durableLsn' \in durableLsn..latestLsn
      /\ \A b \in Block : disk'[b] # current[b] =>
            /\ disk'[b] = disk[b]
            /\ ~ \E i \in ModifiedBy(t) : pool[i].txn # NoTxn /\ pool[i].block = b
      /\ \A b \in Block : disk'[b].lsn <= durableLsn'
  <2>1. ModifiedBy(t) \in SUBSET Buff  BY DEF ModifiedBy
  <2> QED  BY <1>1, <2>1, FlushEffect
<1>4. ASSUME NEW i \in Buff
      PROVE  /\ pool'[i] \in Buffer
             /\ pool'[i].block = pool[i].block /\ pool'[i].pins = pool[i].pins
             /\ pool'[i].lsn = pool[i].lsn /\ pool'[i].data = pool[i].data
             /\ pool'[i].txn = IF pool[i].txn = t THEN NoTxn ELSE pool[i].txn
  <2>1. pool'[i] = IF i \in ModifiedBy(t) THEN Clean(pool[i]) ELSE pool[i]  BY <1>1
  <2>2. i \in ModifiedBy(t) <=> pool[i].txn = t  BY DEF ModifiedBy
  <2>3. pool[i] \in Buffer  BY <1>2
  <2>4. Clean(pool[i]) = [block |-> pool[i].block, pins |-> pool[i].pins, txn |-> NoTxn,
                          lsn |-> pool[i].lsn, data |-> pool[i].data]
    BY <2>3 DEF Buffer, Clean
  <2>5. Clean(pool[i]) \in Buffer  BY <2>3, <2>4 DEF Buffer
  <2> QED  BY <2>1, <2>2, <2>3, <2>4, <2>5
<1>5. /\ PinsAreRight' /\ OneBufferPerBlock' /\ EntriesAreWhole'
      /\ Unpinned' = Unpinned /\ \A c : Existing(c)' = Existing(c)
  BY <1>1, <1>4, PinsKept DEF BufferInv
<1>6. TypeOK'
  <2>1. pool' \in [Buff -> Buffer]  BY <1>1, <1>4
  <2>2. writer' \in [Block -> Txn \cup {NoTxn}]  BY <1>1, <1>2
  <2>3. phase' \in [Txn -> Phase]  BY <1>1 DEF BufferInv, PinInv, TypeOK, Phase
  <2>4. durableLsn' \in 0..latestLsn'  BY <1>1, <1>2, <1>3
  <2> QED  BY <1>1, <1>3, <2>1, <2>2, <2>3, <2>4 DEF BufferInv, PinInv, TypeOK
<1>7. CallersAreKnown'
  BY <1>1 DEF BufferInv, PinInv, TypeOK, CallersAreKnown
<1>8. NobodySleepsWhileAvailable'
  BY <1>1, <1>5 DEF BufferInv, PinInv, NobodySleepsWhileAvailable, Unavailable
<1>9. BuffersAreCurrent'  BY <1>1, <1>4 DEF BufferInv, PageInv, BuffersAreCurrent
<1>10. NothingIsLost'
  <2> SUFFICES ASSUME NEW b \in Block, disk'[b] # current[b]
               PROVE  \E j \in Buff : pool'[j].block = b /\ pool'[j].txn # NoTxn
    BY <1>1 DEF NothingIsLost
  <2>1. PICK j \in Buff : pool[j].block = b /\ pool[j].txn # NoTxn
    BY <1>3 DEF BufferInv, PageInv, NothingIsLost
  <2>2. pool[j].txn # t  BY <1>3, <2>1 DEF ModifiedBy
  <2> QED  BY <1>4, <2>1, <2>2
<1>11. DirtyIsLocked'
  <2> SUFFICES ASSUME NEW j \in Buff, pool'[j].txn # NoTxn
               PROVE  pool'[j].block \in Block /\ writer'[pool'[j].block] = pool'[j].txn
    BY DEF DirtyIsLocked
  <2>1. pool[j].txn # t /\ pool'[j].txn = pool[j].txn /\ pool'[j].block = pool[j].block
    BY <1>4
  <2>2. pool[j].block \in Block /\ writer[pool[j].block] = pool[j].txn
    BY <2>1 DEF BufferInv, PageInv, DirtyIsLocked
  <2> QED  BY <1>1, <2>1, <2>2
<1>12. LsnsInOrder'
  <2>1. ASSUME NEW j \in Buff
        PROVE  /\ pool'[j].lsn <= latestLsn'
               /\ pool'[j].data.lsn <= durableLsn' \/ pool'[j].data.lsn <= pool'[j].lsn
    <3>1. /\ pool[j].lsn <= latestLsn
          /\ pool[j].data.lsn <= durableLsn \/ pool[j].data.lsn <= pool[j].lsn
      BY DEF BufferInv, PageInv, LsnsInOrder
    <3>2. pool[j].data.lsn \in Int  BY <1>2 DEF Buffer, Value
    <3> QED  BY <1>1, <1>2, <1>3, <1>4, <3>1, <3>2
  <2> QED  BY <1>1, <2>1 DEF BufferInv, PageInv, LsnsInOrder
<1>13. WriteAhead'  BY <1>3 DEF WriteAhead
<1> QED
  BY <1>5, <1>6, <1>7, <1>8, <1>9, <1>10, <1>11, <1>12, <1>13 DEF BufferInv, PinInv, PageInv

-----------------------------------------------------------------------------
(* The theorems *)

LEMMA InitBufferInv == Init => BufferInv
<1> SUFFICES ASSUME Init PROVE PageInv  BY InitPinInv DEF BufferInv
<1>1. BuffersAreCurrent /\ NothingIsLost /\ DirtyIsLocked
  BY BufferManagerAssumption DEF Init, BuffersAreCurrent, NothingIsLost, DirtyIsLocked
<1>2. LsnsInOrder /\ WriteAhead  BY DEF Init, LsnsInOrder, WriteAhead, Zero
<1> QED  BY <1>1, <1>2 DEF PageInv

LEMMA NextBufferInv == BufferInv /\ [Next]_vars => BufferInv'
<1> SUFFICES ASSUME BufferInv, [Next]_vars PROVE BufferInv'  OBVIOUS
<1>1. CASE UNCHANGED vars
  <2>1. UNCHANGED <<buffers, list, phase, want, asleep, late, disk, log, writer, current>>
    BY <1>1 DEF vars, calls
  <2>2. TypeOK' /\ CallersAreKnown'
    BY <2>1 DEF BufferInv, PinInv, TypeOK, CallersAreKnown, buffers, log
  <2>3. NobodySleepsWhileAvailable'
    BY <2>1, CallsOnly DEF BufferInv, PinInv, NobodySleepsWhileAvailable, Unavailable
  <2> QED  BY <2>1, <2>2, <2>3, CallsOnly DEF BufferInv, PinInv
<1>2. CASE Next
  <2>1. PICK t \in Txn :
           \/ Run(t) \/ WakeUp(t) \/ TimePasses(t) \/ FlushAll(t)
           \/ \E b \in Block : \/ Call(t, b) \/ Unpin(t, b)
                               \/ \E okToLog \in BOOLEAN : Write(t, b, okToLog)
    BY <1>2 DEF Next
  <2>2. CASE Run(t)
    BY <2>2, PinExistingInv, PinReplacingInv, WaitInv, GiveUpInv, UnpinInv, EndUnpinAllInv DEF Run
  <2>3. CASE ~Run(t)
    BY <2>1, <2>3, WakeUpInv, FlushAllInv, CallInv, UnpinInv, WriteInv
  <2> QED  BY <2>2, <2>3
<1> QED  BY <1>1, <1>2

(* Every state satisfies the invariant: the pins, the pages and the log     *)
(* positions of all buffers are in order after any calls.                   *)
THEOREM InvariantHolds == Spec => []BufferInv
BY InitBufferInv, NextBufferInv, PTL DEF Spec

(* Variables keep the types of the code: num_available_ never exceeds the  *)
(* pool, pin counts are never negative, the log on disk is never ahead of  *)
(* the log.                                                                *)
THEOREM TypeCorrect == Spec => []TypeOK
<1>1. BufferInv => TypeOK  BY DEF BufferInv, PinInv
<1> QED  BY <1>1, InvariantHolds, PTL

(* num_available_, the pin counts of the buffers and the buffer lists of   *)
(* the transactions agree, whatever the transactions do.                   *)
THEOREM PinsAgree == Spec => []PinsAreRight
<1>1. BufferInv => PinsAreRight  BY DEF BufferInv, PinInv
<1> QED  BY <1>1, InvariantHolds, PTL

(* Pin never reads a block into a second buffer. *)
THEOREM BlocksAreNotDuplicated == Spec => []OneBufferPerBlock
<1>1. BufferInv => OneBufferPerBlock  BY DEF BufferInv, PinInv
<1> QED  BY <1>1, InvariantHolds, PTL

(* Replacement loses no write. *)
THEOREM LastWriteIsFound == Spec => []CachedOrOnDisk
<1>1. BufferInv => CachedOrOnDisk
  <2> SUFFICES ASSUME BufferInv, NEW b \in Block
               PROVE  current[b] = IF Existing(b) # {} THEN pool[Min(Existing(b))].data
                                   ELSE disk[b]
    BY DEF CachedOrOnDisk
  <2>1. CASE Existing(b) # {}
    BY <2>1, FoundBuffer DEF Existing, BufferInv, PageInv, BuffersAreCurrent
  <2>2. CASE Existing(b) = {}
    BY <2>2 DEF Existing, BufferInv, PageInv, NothingIsLost
  <2> QED  BY <2>1, <2>2
<1> QED  BY <1>1, InvariantHolds, PTL

(* Buffer::Flush keeps the write-ahead rule although a buffer that is given *)
(* another block keeps the LSN of the block it had.                         *)
THEOREM LogGoesFirst == Spec => []WriteAhead
<1>1. BufferInv => WriteAhead  BY DEF BufferInv, PageInv
<1> QED  BY <1>1, InvariantHolds, PTL

(* FlushAll and replacement between them bring every write of a transaction *)
(* to disk before its locks go.                                             *)
THEOREM CommitIsDurable == Spec => []CommittedIsOnDisk
<1>1. BufferInv => CommittedIsOnDisk
  BY DEF BufferInv, PageInv, NothingIsLost, DirtyIsLocked, CommittedIsOnDisk
<1> QED  BY <1>1, InvariantHolds, PTL

(* Unpin notifies all when a buffer comes free, and no buffer takes the     *)
(* block of a sleeper without a free one: no thread sleeps through its      *)
(* chance.                                                                  *)
THEOREM NoMissedWakeup == Spec => []NobodySleepsWhileAvailable
<1>1. BufferInv => NobodySleepsWhileAvailable  BY DEF BufferInv, PinInv
<1> QED  BY <1>1, InvariantHolds, PTL

=============================================================================
