--------------------------- MODULE LockTableProofs ---------------------------
(***************************************************************************)
(* Proofs about LockTable, for any finite set of transactions and any set  *)
(* of blocks.  The inductive invariant is LockInv: the type invariant,     *)
(* Exclusion, CountMatchesHolders, and what the thread of a request is     *)
(* known to hold while it is in the table.  The last part is what makes    *)
(* the count meaningful to a caller: an upgrade that reads 1 reads its own *)
(* shared lock.                                                            *)
(***************************************************************************)
EXTENDS LockTable, FiniteSetTheorems, TLAPS

(* A thread in SharedLock holds nothing on the block yet, and one in       *)
(* ExclusiveLock holds the shared lock it upgrades.                        *)
RequestMatchesHeld ==
    \A t \in Txn :
        /\ phase[t] = "SharedLock" => held[t][want[t].block] = "none"
        /\ phase[t] = "ExclusiveLock" => held[t][want[t].block] = "shared"

LockInv == TypeOK /\ RequestMatchesHeld /\ Exclusion /\ CountMatchesHolders

(* Holders are transactions, so there are finitely many. *)
LEMMA HoldersFinite ==
    ASSUME NEW b, NEW modes
    PROVE  /\ IsFiniteSet(Holders(b, modes))
           /\ Cardinality(Holders(b, modes)) \in Nat
<1>1. Holders(b, modes) \subseteq Txn  BY DEF Holders
<1>2. IsFiniteSet(Holders(b, modes))  BY <1>1, FS_Subset, LockTableAssumption
<1> QED  BY <1>2, FS_CardinalityType

(* A set of at most one transaction that has t in it has nobody else. *)
LEMMA AtMostOne ==
    ASSUME NEW S, IsFiniteSet(S), NEW t \in S, Cardinality(S) <= 1
    PROVE  S = {t}
<1>1. IsFiniteSet(S \ {t}) /\ Cardinality(S \ {t}) = Cardinality(S) - 1
  BY FS_RemoveElement
<1>2. Cardinality(S \ {t}) \in Nat /\ Cardinality(S) \in Nat  BY <1>1, FS_CardinalityType
<1>3. Cardinality(S \ {t}) = 0  BY <1>1, <1>2
<1>4. S \ {t} = {}  BY <1>1, <1>3, FS_EmptySet
<1> QED  BY <1>4

LEMMA InitLockInv == Init => LockInv
<1> SUFFICES ASSUME Init PROVE LockInv  OBVIOUS
<1>1. TypeOK  BY DEF Init, TypeOK, Mode, Phase
<1>2. RequestMatchesHeld /\ Exclusion  BY DEF Init, RequestMatchesHeld, Exclusion
<1>3. CountMatchesHolders
  <2> SUFFICES ASSUME NEW b \in Block
               PROVE  lockVal[b] = IF Holders(b, {"exclusive"}) # {} THEN -1
                                   ELSE Cardinality(Holders(b, {"shared"}))
    BY DEF CountMatchesHolders
  <2>1. Holders(b, {"exclusive"}) = {} /\ Holders(b, {"shared"}) = {}
    BY DEF Init, Holders
  <2>2. lockVal[b] = 0  BY DEF Init
  <2> QED  BY <2>1, <2>2, FS_EmptySet
<1> QED  BY <1>1, <1>2, <1>3 DEF LockInv

(* The steps that touch no lock only have the types and the requests to    *)
(* preserve.                                                               *)
LEMMA LocksUnchanged ==
    ASSUME LockInv, UNCHANGED <<lockVal, held>>
    PROVE  Exclusion' /\ CountMatchesHolders'
<1>1. \A b, modes : Holders(b, modes)' = Holders(b, modes)  BY DEF Holders
<1> QED  BY <1>1 DEF LockInv, Exclusion, CountMatchesHolders, Holders

(* Every step preserves the types. *)
LEMMA NextTypeOK ==
    ASSUME TypeOK, [Next]_vars
    PROVE  TypeOK'
<1> USE LockTableAssumption DEF TypeOK, Mode, Phase, Request
<1>1. CASE UNCHANGED vars  BY <1>1 DEF vars
<1>2. ASSUME NEW t \in Txn, WakeUp(t) PROVE TypeOK'  BY <1>2 DEF WakeUp
<1>3. ASSUME NEW t \in Txn, TimePasses(t) PROVE TypeOK'  BY <1>3 DEF TimePasses
<1>4. ASSUME NEW t \in Txn, Wait(t) PROVE TypeOK'  BY <1>4 DEF Wait
<1>5. ASSUME NEW t \in Txn, Abort(t) PROVE TypeOK'  BY <1>5 DEF Abort
<1>6. ASSUME NEW t \in Txn, GrantShared(t) PROVE TypeOK'
  <2>1. want[t] \in Request  BY <1>6 DEF GrantShared
  <2>2. lockVal[want[t].block] >= 0
    BY <1>6, <2>1 DEF GrantShared, Conflict, HasExclusiveLock
  <2>3. lockVal' \in [Block -> Nat \cup {-1}]  BY <1>6, <2>1, <2>2 DEF GrantShared
  <2>4. held' \in [Txn -> [Block -> Mode]]  BY <1>6, <2>1 DEF GrantShared
  <2> QED  BY <1>6, <2>1, <2>3, <2>4 DEF GrantShared
<1>7. ASSUME NEW t \in Txn, GrantExclusive(t) PROVE TypeOK'
  <2>1. want[t] \in Request  BY <1>7 DEF GrantExclusive
  <2>2. lockVal' \in [Block -> Nat \cup {-1}]  BY <1>7, <2>1 DEF GrantExclusive
  <2>3. held' \in [Txn -> [Block -> Mode]]  BY <1>7, <2>1 DEF GrantExclusive
  <2> QED  BY <1>7, <2>1, <2>2, <2>3 DEF GrantExclusive
<1>8. ASSUME NEW t \in Txn, NEW b \in Block, Unlock(t, b) PROVE TypeOK'
  BY <1>8 DEF Unlock, AfterUnlock, SleepersAfterUnlock
<1>9. ASSUME NEW t \in Txn, BeginRelease(t) PROVE TypeOK'  BY <1>9 DEF BeginRelease
<1>10. ASSUME NEW t \in Txn, EndRelease(t) PROVE TypeOK'  BY <1>10 DEF EndRelease
<1>11. ASSUME NEW t \in Txn, NEW b \in Block, NEW mode \in {"shared", "exclusive"},
              Ask(t, b, mode)
       PROVE  TypeOK'
  BY <1>11 DEF Ask
<1> QED
  BY <1>1, <1>2, <1>3, <1>4, <1>5, <1>6, <1>7, <1>8, <1>9, <1>10, <1>11 DEF Next, Run

(* A granted shared lock adds its owner, who held nothing on the block, to *)
(* the readers.                                                            *)
LEMMA GrantSharedLockInv ==
    ASSUME LockInv, NEW t \in Txn, GrantShared(t)
    PROVE  RequestMatchesHeld' /\ Exclusion' /\ CountMatchesHolders'
<1>0. PICK b \in Block : b = want[t].block
  BY DEF LockInv, TypeOK, GrantShared, Request
<1>1. phase[t] = "SharedLock" /\ held[t][b] = "none"
  BY <1>0 DEF LockInv, TypeOK, GrantShared, RequestMatchesHeld, Request
<1>2. held' = [held EXCEPT ![t][b] = "shared"] /\ lockVal' = [lockVal EXCEPT ![b] = @ + 1]
  BY <1>0 DEF GrantShared
<1>3. lockVal[b] >= 0  BY <1>0, <1>1 DEF LockInv, TypeOK, GrantShared, Conflict, HasExclusiveLock
<1>4. Holders(b, {"exclusive"}) = {}
  BY <1>1, <1>3 DEF LockInv, CountMatchesHolders
<1>5. lockVal[b] = Cardinality(Holders(b, {"shared"}))
  BY <1>1, <1>4 DEF LockInv, CountMatchesHolders
<1>6. RequestMatchesHeld'
  BY <1>0, <1>1, <1>2, LockTableAssumption
  DEF LockInv, TypeOK, RequestMatchesHeld, GrantShared, Request, Phase
<1>7. Exclusion'
  BY <1>1, <1>2, <1>4 DEF LockInv, TypeOK, Exclusion, Holders
<1>8. CountMatchesHolders'
  <2> SUFFICES ASSUME NEW c \in Block
               PROVE  lockVal'[c] = IF Holders(c, {"exclusive"})' # {} THEN -1
                                    ELSE Cardinality(Holders(c, {"shared"})')
    BY DEF CountMatchesHolders
  <2>1. CASE c = b
    <3>1. Holders(b, {"exclusive"})' = {}
      BY <1>1, <1>2, <1>4 DEF LockInv, TypeOK, Holders
    <3>2. Holders(b, {"shared"})' = Holders(b, {"shared"}) \cup {t} /\ t \notin Holders(b, {"shared"})
      BY <1>1, <1>2 DEF LockInv, TypeOK, Holders
    <3>3. Cardinality(Holders(b, {"shared"}) \cup {t}) = Cardinality(Holders(b, {"shared"})) + 1
      BY <3>2, HoldersFinite, FS_AddElement
    <3>4. lockVal'[b] = lockVal[b] + 1  BY <1>1, <1>2 DEF LockInv, TypeOK
    <3> QED  BY <2>1, <3>1, <3>2, <3>3, <3>4, <1>5
  <2>2. CASE c # b
    <3>1. \A modes : Holders(c, modes)' = Holders(c, modes)
      BY <1>1, <1>2, <2>2 DEF LockInv, TypeOK, Holders
    <3>2. lockVal'[c] = lockVal[c]  BY <1>1, <1>2, <2>2 DEF LockInv, TypeOK
    <3> QED  BY <3>1, <3>2 DEF LockInv, CountMatchesHolders
  <2> QED  BY <2>1, <2>2
<1> QED  BY <1>6, <1>7, <1>8

(* An upgrade that reads a count of at most 1 is the only holder of the    *)
(* block, because the reader it counts is itself.                          *)
LEMMA UpgraderIsAlone ==
    ASSUME LockInv, NEW t \in Txn, phase[t] = "ExclusiveLock", ~Conflict(t)
    PROVE  \A u \in Txn \ {t} : held[u][want[t].block] = "none"
<1> DEFINE b == want[t].block
<1>1. b \in Block /\ held[t][b] = "shared"
  BY DEF LockInv, TypeOK, RequestMatchesHeld, Request
<1>2. Holders(b, {"exclusive"}) = {}
  <2>1. \A u \in Txn : u # t => held[u][b] # "exclusive"
    BY <1>1 DEF LockInv, Exclusion
  <2> QED  BY <1>1, <2>1 DEF Holders
<1>3. lockVal[b] = Cardinality(Holders(b, {"shared"})) /\ lockVal[b] <= 1
  BY <1>1, <1>2 DEF LockInv, TypeOK, CountMatchesHolders, Conflict, HasOtherSharedLocks
<1>4. t \in Holders(b, {"shared"})  BY <1>1 DEF Holders
<1> HIDE DEF b
<1>5. Holders(b, {"shared"}) = {t}
  BY <1>3, <1>4, HoldersFinite, AtMostOne
<1>6. \A u \in Txn \ {t} : held[u][b] \notin {"shared", "exclusive"}
  BY <1>2, <1>5 DEF Holders
<1> QED  BY <1>1, <1>6 DEF LockInv, TypeOK, Mode, b

LEMMA GrantExclusiveLockInv ==
    ASSUME LockInv, NEW t \in Txn, GrantExclusive(t)
    PROVE  RequestMatchesHeld' /\ Exclusion' /\ CountMatchesHolders'
<1>0. PICK b \in Block : b = want[t].block
  BY DEF LockInv, TypeOK, GrantExclusive, Request
<1>1. phase[t] = "ExclusiveLock"
  BY DEF LockInv, TypeOK, GrantExclusive, Request
<1>2. held' = [held EXCEPT ![t][b] = "exclusive"] /\ lockVal' = [lockVal EXCEPT ![b] = -1]
  BY <1>0 DEF GrantExclusive
<1>3. \A u \in Txn \ {t} : held[u][b] = "none"
  BY <1>0, <1>1, UpgraderIsAlone DEF GrantExclusive
<1>4. RequestMatchesHeld'
  BY <1>0, <1>1, <1>2, LockTableAssumption
  DEF LockInv, TypeOK, RequestMatchesHeld, GrantExclusive, Request, Phase
<1>5. Exclusion'  BY <1>1, <1>2, <1>3 DEF LockInv, TypeOK, Exclusion
<1>6. CountMatchesHolders'
  <2> SUFFICES ASSUME NEW c \in Block
               PROVE  lockVal'[c] = IF Holders(c, {"exclusive"})' # {} THEN -1
                                    ELSE Cardinality(Holders(c, {"shared"})')
    BY DEF CountMatchesHolders
  <2>1. CASE c = b
    <3>1. t \in Holders(b, {"exclusive"})'  BY <1>1, <1>2 DEF LockInv, TypeOK, Holders
    <3>2. lockVal'[b] = -1  BY <1>1, <1>2 DEF LockInv, TypeOK
    <3> QED  BY <2>1, <3>1, <3>2
  <2>2. CASE c # b
    <3>1. \A modes : Holders(c, modes)' = Holders(c, modes)
      BY <1>1, <1>2, <2>2 DEF LockInv, TypeOK, Holders
    <3>2. lockVal'[c] = lockVal[c]  BY <1>1, <1>2, <2>2 DEF LockInv, TypeOK
    <3> QED  BY <3>1, <3>2 DEF LockInv, CountMatchesHolders
  <2> QED  BY <2>1, <2>2
<1> QED  BY <1>4, <1>5, <1>6

(* Unlock either takes one of several readers away, or the only holder.    *)
LEMMA UnlockLockInv ==
    ASSUME LockInv, NEW t \in Txn, NEW b \in Block, Unlock(t, b)
    PROVE  RequestMatchesHeld' /\ Exclusion' /\ CountMatchesHolders'
<1>1. held' = [held EXCEPT ![t][b] = "none"] /\ lockVal' = [lockVal EXCEPT ![b] = AfterUnlock(b)]
  BY DEF Unlock
<1>2. phase[t] = "Release" /\ held[t][b] \in {"shared", "exclusive"}
  BY DEF LockInv, TypeOK, Unlock, Mode
<1>3. RequestMatchesHeld'
  BY <1>1, <1>2 DEF LockInv, TypeOK, RequestMatchesHeld, Unlock
<1>4. Exclusion'  BY <1>1 DEF LockInv, TypeOK, Exclusion
<1>5. CountMatchesHolders'
  <2> SUFFICES ASSUME NEW c \in Block
               PROVE  lockVal'[c] = IF Holders(c, {"exclusive"})' # {} THEN -1
                                    ELSE Cardinality(Holders(c, {"shared"})')
    BY DEF CountMatchesHolders
  <2>1. CASE c = b /\ lockVal[b] > 1
    <3>1. Holders(b, {"exclusive"}) = {} /\ lockVal[b] = Cardinality(Holders(b, {"shared"}))
      BY <2>1 DEF LockInv, CountMatchesHolders
    <3>2. held[t][b] = "shared"  BY <1>2, <3>1 DEF Holders
    <3>3. Holders(b, {"exclusive"})' = {} /\ t \in Holders(b, {"shared"})
          /\ Holders(b, {"shared"})' = Holders(b, {"shared"}) \ {t}
      BY <1>1, <3>1, <3>2 DEF LockInv, TypeOK, Holders
    <3>4. Cardinality(Holders(b, {"shared"}) \ {t}) = Cardinality(Holders(b, {"shared"})) - 1
      BY <3>3, HoldersFinite, FS_RemoveElement
    <3>5. lockVal'[b] = lockVal[b] - 1
      BY <1>1, <2>1 DEF LockInv, TypeOK, AfterUnlock
    <3> QED  BY <2>1, <3>1, <3>3, <3>4, <3>5
  <2>2. CASE c = b /\ ~(lockVal[b] > 1)
    <3>1. \A u \in Txn \ {t} : held[u][b] = "none"
      <4>1. CASE held[t][b] = "exclusive"
        BY <4>1 DEF LockInv, Exclusion
      <4>2. CASE held[t][b] = "shared"
        <5>1. Holders(b, {"exclusive"}) = {}
          BY <4>2 DEF LockInv, Exclusion, Holders
        <5>2. lockVal[b] = Cardinality(Holders(b, {"shared"})) /\ lockVal[b] <= 1
          BY <5>1, <2>2 DEF LockInv, TypeOK, CountMatchesHolders
        <5>3. t \in Holders(b, {"shared"})  BY <4>2 DEF Holders
        <5>4. Holders(b, {"shared"}) = {t}  BY <5>2, <5>3, HoldersFinite, AtMostOne
        <5>5. \A u \in Txn \ {t} : held[u][b] \notin {"shared", "exclusive"}
          BY <5>1, <5>4 DEF Holders
        <5> QED  BY <5>5 DEF LockInv, TypeOK, Mode
      <4> QED  BY <1>2, <4>1, <4>2
    <3>2. Holders(b, {"exclusive"})' = {} /\ Holders(b, {"shared"})' = {}
      BY <1>1, <3>1 DEF LockInv, TypeOK, Holders
    <3>3. lockVal'[b] = 0  BY <1>1, <2>2 DEF LockInv, TypeOK, AfterUnlock
    <3> QED  BY <2>2, <3>2, <3>3, FS_EmptySet
  <2>3. CASE c # b
    <3>1. \A modes : Holders(c, modes)' = Holders(c, modes)
      BY <1>1, <2>3 DEF LockInv, TypeOK, Holders
    <3>2. lockVal'[c] = lockVal[c]  BY <1>1, <2>3 DEF LockInv, TypeOK
    <3> QED  BY <3>1, <3>2 DEF LockInv, CountMatchesHolders
  <2> QED  BY <2>1, <2>2, <2>3
<1> QED  BY <1>3, <1>4, <1>5

LEMMA NextLockInv == LockInv /\ [Next]_vars => LockInv'
<1> SUFFICES ASSUME LockInv, [Next]_vars PROVE LockInv'  OBVIOUS
<1>1. TypeOK'  BY NextTypeOK DEF LockInv
<1>2. CASE UNCHANGED vars
  BY <1>1, <1>2, LocksUnchanged DEF vars, LockInv, RequestMatchesHeld
<1>3. ASSUME NEW t \in Txn, WakeUp(t) PROVE LockInv'
  BY <1>1, <1>3, LocksUnchanged DEF WakeUp, LockInv, RequestMatchesHeld
<1>4. ASSUME NEW t \in Txn, TimePasses(t) PROVE LockInv'
  BY <1>1, <1>4, LocksUnchanged DEF TimePasses, LockInv, RequestMatchesHeld
<1>5. ASSUME NEW t \in Txn, Wait(t) PROVE LockInv'
  BY <1>1, <1>5, LocksUnchanged DEF Wait, LockInv, RequestMatchesHeld
<1>6. ASSUME NEW t \in Txn, Abort(t) PROVE LockInv'
  <2>1. RequestMatchesHeld'  BY <1>6 DEF Abort, LockInv, TypeOK, RequestMatchesHeld
  <2> QED  BY <1>1, <1>6, <2>1, LocksUnchanged DEF Abort, LockInv
<1>7. ASSUME NEW t \in Txn, GrantShared(t) PROVE LockInv'
  BY <1>1, <1>7, GrantSharedLockInv DEF LockInv
<1>8. ASSUME NEW t \in Txn, GrantExclusive(t) PROVE LockInv'
  BY <1>1, <1>8, GrantExclusiveLockInv DEF LockInv
<1>9. ASSUME NEW t \in Txn, NEW b \in Block, Unlock(t, b) PROVE LockInv'
  BY <1>1, <1>9, UnlockLockInv DEF LockInv
<1>10. ASSUME NEW t \in Txn, BeginRelease(t) PROVE LockInv'
  <2>1. RequestMatchesHeld'  BY <1>10 DEF BeginRelease, LockInv, TypeOK, RequestMatchesHeld
  <2> QED  BY <1>1, <1>10, <2>1, LocksUnchanged DEF BeginRelease, LockInv
<1>11. ASSUME NEW t \in Txn, EndRelease(t) PROVE LockInv'
  <2>1. RequestMatchesHeld'  BY <1>11 DEF EndRelease, LockInv, TypeOK, RequestMatchesHeld
  <2> QED  BY <1>1, <1>11, <2>1, LocksUnchanged DEF EndRelease, LockInv
<1>12. ASSUME NEW t \in Txn, NEW b \in Block, NEW mode \in {"shared", "exclusive"},
              Ask(t, b, mode)
       PROVE  LockInv'
  <2>1. RequestMatchesHeld'
    BY <1>12 DEF Ask, LockInv, TypeOK, RequestMatchesHeld, Mode
  <2> QED  BY <1>1, <1>12, <2>1, LocksUnchanged DEF Ask, LockInv
<1> QED
  BY <1>2, <1>3, <1>4, <1>5, <1>6, <1>7, <1>8, <1>9, <1>10, <1>11, <1>12 DEF Next, Run

THEOREM LockInvariance == Spec => []LockInv
<1> QED  BY InitLockInv, NextLockInv, PTL DEF Spec

(* The state of the lock manager has the types TypeOK gives it, however    *)
(* many transactions contend for however many blocks.                      *)
THEOREM TypeCorrect == Spec => []TypeOK
<1>1. LockInv => TypeOK  BY DEF LockInv
<1> QED  BY <1>1, LockInvariance, PTL

(* An exclusive lock excludes every other lock on its block, although the  *)
(* table counts holders and never names them.                              *)
THEOREM MutualExclusion == Spec => []Exclusion
<1>1. LockInv => Exclusion  BY DEF LockInv
<1> QED  BY <1>1, LockInvariance, PTL

(* The count in the table and the maps of the transactions never drift     *)
(* apart.                                                                  *)
THEOREM CountCorrect == Spec => []CountMatchesHolders
<1>1. LockInv => CountMatchesHolders  BY DEF LockInv
<1> QED  BY <1>1, LockInvariance, PTL

-----------------------------------------------------------------------------

LEMMA NextNoReaderSleeps ==
    ASSUME TypeOK, NoReaderSleepsThroughRelease, [Next]_vars
    PROVE  NoReaderSleepsThroughRelease'
<1> USE DEF NoReaderSleepsThroughRelease, HasExclusiveLock, TypeOK, Request
<1>1. CASE UNCHANGED vars  BY <1>1 DEF vars
<1>2. ASSUME NEW t \in Txn, WakeUp(t) PROVE NoReaderSleepsThroughRelease'
  BY <1>2 DEF WakeUp
<1>3. ASSUME NEW t \in Txn, TimePasses(t) PROVE NoReaderSleepsThroughRelease'
  BY <1>3 DEF TimePasses
<1>4. ASSUME NEW t \in Txn, Wait(t) PROVE NoReaderSleepsThroughRelease'
  BY <1>4 DEF Wait, Conflict
<1>5. ASSUME NEW t \in Txn, Abort(t) PROVE NoReaderSleepsThroughRelease'
  BY <1>5 DEF Abort
<1>6. ASSUME NEW t \in Txn, GrantShared(t) PROVE NoReaderSleepsThroughRelease'
  <2>1. PICK b \in Block : b = want[t].block  BY <1>6 DEF GrantShared
  <2>2. lockVal[b] >= 0  BY <1>6, <2>1 DEF GrantShared, Conflict
  <2>3. lockVal' = [lockVal EXCEPT ![b] = @ + 1] /\ asleep' = asleep /\ t \notin asleep
    BY <1>6, <2>1 DEF GrantShared
  <2>4. \A u \in asleep : phase'[u] = phase[u] /\ want'[u] = want[u]
    BY <1>6 DEF GrantShared
  <2>5. \A u \in asleep : phase[u] = "SharedLock" =>
           want[u].block \in Block /\ want[u].block # b
    BY <2>2
  <2> QED  BY <2>3, <2>4, <2>5
<1>7. ASSUME NEW t \in Txn, GrantExclusive(t) PROVE NoReaderSleepsThroughRelease'
  <2>1. PICK b \in Block : b = want[t].block  BY <1>7 DEF GrantExclusive
  <2>2. lockVal' = [lockVal EXCEPT ![b] = -1] /\ asleep' = asleep
    BY <1>7, <2>1 DEF GrantExclusive
  <2>3. \A u \in asleep : phase'[u] = phase[u] /\ want'[u] = want[u]
    BY <1>7 DEF GrantExclusive
  <2> QED  BY <2>2, <2>3
<1>8. ASSUME NEW t \in Txn, NEW b \in Block, Unlock(t, b)
      PROVE  NoReaderSleepsThroughRelease'
  BY <1>8 DEF Unlock, AfterUnlock, SleepersAfterUnlock
<1>9. ASSUME NEW t \in Txn, BeginRelease(t) PROVE NoReaderSleepsThroughRelease'
  BY <1>9 DEF BeginRelease
<1>10. ASSUME NEW t \in Txn, EndRelease(t) PROVE NoReaderSleepsThroughRelease'
  BY <1>10 DEF EndRelease
<1>11. ASSUME NEW t \in Txn, NEW b \in Block, NEW mode \in {"shared", "exclusive"},
              Ask(t, b, mode)
       PROVE  NoReaderSleepsThroughRelease'
  BY <1>11 DEF Ask
<1> QED
  BY <1>1, <1>2, <1>3, <1>4, <1>5, <1>6, <1>7, <1>8, <1>9, <1>10, <1>11 DEF Next, Run

(* A reader never sleeps through the release of the exclusive lock that    *)
(* keeps it waiting, although Unlock notifies only when the count reaches  *)
(* nobody.                                                                 *)
THEOREM ReadersAreWoken == Spec => []NoReaderSleepsThroughRelease
<1>1. Init => NoReaderSleepsThroughRelease  BY DEF Init, NoReaderSleepsThroughRelease
<1>2. TypeOK /\ NoReaderSleepsThroughRelease /\ [Next]_vars => NoReaderSleepsThroughRelease'
  BY NextNoReaderSleeps
<1> QED  BY <1>1, <1>2, TypeCorrect, PTL DEF Spec

-----------------------------------------------------------------------------

LEMMA InitRefines == Init => Abstract!Init
<1> QED  BY DEF Init, Abstract!Init

LEMMA NextRefines ==
    ASSUME LockInv, [Next]_vars
    PROVE  [Abstract!Next]_(Abstract!vars)
<1> DEFINE releasing == {t \in Txn : phase[t] = "Release"}
<1> USE DEF Abstract!Next, Abstract!vars
<1>1. CASE UNCHANGED vars  BY <1>1 DEF vars
<1>2. ASSUME NEW t \in Txn, WakeUp(t) \/ TimePasses(t) \/ Wait(t)
      PROVE  UNCHANGED Abstract!vars
  BY <1>2 DEF WakeUp, TimePasses, Wait
<1>3. ASSUME NEW t \in Txn, Abort(t) PROVE UNCHANGED Abstract!vars
  <2>1. releasing' = releasing  BY <1>3 DEF Abort, LockInv, TypeOK
  <2> QED  BY <1>3, <2>1 DEF Abort
<1>4. ASSUME NEW t \in Txn, NEW b \in Block, NEW mode \in {"shared", "exclusive"},
             Ask(t, b, mode)
      PROVE  UNCHANGED Abstract!vars
  <2>1. releasing' = releasing  BY <1>4 DEF Ask, LockInv, TypeOK
  <2> QED  BY <1>4, <2>1 DEF Ask
<1>5. ASSUME NEW t \in Txn, GrantShared(t) PROVE Abstract!Next
  <2>1. PICK b \in Block : b = want[t].block
    BY <1>5 DEF GrantShared, LockInv, TypeOK, Request
  <2>2. held[t][b] = "none" /\ t \notin releasing
    BY <1>5, <2>1 DEF GrantShared, LockInv, RequestMatchesHeld
  <2>3. Holders(b, {"exclusive"}) = {}
    BY <1>5, <2>1 DEF GrantShared, Conflict, HasExclusiveLock, LockInv, TypeOK,
                      CountMatchesHolders
  <2>4. Abstract!NoOther(t, b, {"exclusive"})  BY <2>3 DEF Holders, Abstract!NoOther
  <2>5. releasing' = releasing  BY <1>5 DEF GrantShared, LockInv, TypeOK
  <2>6. Abstract!Share(t, b)
    BY <1>5, <2>1, <2>2, <2>4, <2>5 DEF GrantShared, Abstract!Share
  <2> QED  BY <2>6
<1>6. ASSUME NEW t \in Txn, GrantExclusive(t) PROVE Abstract!Next
  <2>1. PICK b \in Block : b = want[t].block
    BY <1>6 DEF GrantExclusive, LockInv, TypeOK, Request
  <2>2. held[t][b] = "shared" /\ t \notin releasing
    BY <1>6, <2>1 DEF GrantExclusive, LockInv, RequestMatchesHeld
  <2>3. Abstract!NoOther(t, b, {"shared", "exclusive"})
    BY <1>6, <2>1, UpgraderIsAlone DEF GrantExclusive, Abstract!NoOther
  <2>4. releasing' = releasing  BY <1>6 DEF GrantExclusive, LockInv, TypeOK
  <2>5. Abstract!Upgrade(t, b)
    BY <1>6, <2>1, <2>2, <2>3, <2>4 DEF GrantExclusive, Abstract!Upgrade
  <2> QED  BY <2>5
<1>7. ASSUME NEW t \in Txn, NEW b \in Block, Unlock(t, b) PROVE Abstract!Next
  <2>1. Abstract!Unlock(t, b)  BY <1>7 DEF Unlock, Abstract!Unlock
  <2> QED  BY <2>1
<1>8. ASSUME NEW t \in Txn, BeginRelease(t) PROVE Abstract!Next
  <2>1. releasing' = releasing \cup {t}
    BY <1>8 DEF BeginRelease, LockInv, TypeOK
  <2>2. Abstract!BeginRelease(t)  BY <1>8, <2>1 DEF BeginRelease, Abstract!BeginRelease
  <2> QED  BY <2>2
<1>9. ASSUME NEW t \in Txn, EndRelease(t) PROVE Abstract!Next
  <2>1. releasing' = releasing \ {t}
    BY <1>9 DEF EndRelease, LockInv, TypeOK
  <2>2. Abstract!EndRelease(t)  BY <1>9, <2>1 DEF EndRelease, Abstract!EndRelease
  <2> QED  BY <2>2
<1> QED
  BY <1>1, <1>2, <1>3, <1>4, <1>5, <1>6, <1>7, <1>8, <1>9 DEF Next, Run

(* The lock table and the concurrency managers implement two-phase shared  *)
(* and exclusive locks: every step is a step of LockSpec or leaves its     *)
(* variables alone.                                                        *)
THEOREM Refinement == Spec => ImplementsLockSpec
<1>1. LockInv /\ [Next]_vars => [Abstract!Next]_(Abstract!vars)  BY NextRefines
<1> QED  BY <1>1, InitRefines, LockInvariance, PTL DEF Spec, ImplementsLockSpec, Abstract!Spec

=============================================================================
