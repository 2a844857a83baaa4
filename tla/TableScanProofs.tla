--------------------------- MODULE TableScanProofs ---------------------------
(***************************************************************************)
(* Proofs about TableScan, for any finite set of transactions, any number  *)
(* of slots and any bounds on blocks, values and writes.  The inductive    *)
(* invariant is TableInv.  It adds to the properties what relates a lock   *)
(* to what its holder has read or logged, the end of the file to the       *)
(* locks and the records there are behind it, and where a scan is to the   *)
(* call it is in.  The last part proves that the file, seen through what   *)
(* a roll back of everybody would leave of it, implements AtomicStore.     *)
(***************************************************************************)
EXTENDS TableScan, SetLemmas

-----------------------------------------------------------------------------
(* What the folds compute *)

(* The records in the log of writes to a slot. *)
WritesTo(log, p) == {i \in DOMAIN log : log[i].pos = p}

(* DoRollback leaves in a slot what the oldest record of it has saved, and  *)
(* nothing of it in a slot that has none.                                   *)
UndoStep(log, f, g, s) ==
    g[s] = IF s = {} THEN f ELSE [g[s \ {Min(s)}] EXCEPT ![log[Min(s)].pos] = log[Min(s)].old]

LEMMA SeqPositions ==
    ASSUME NEW X, NEW log \in Seq(X)
    PROVE  /\ DOMAIN log = 1..Len(log) /\ Len(log) \in Nat /\ IsFiniteSet(DOMAIN log)
           /\ \A s \in SUBSET DOMAIN log :
                 s # {} => Min(s) \in s /\ \A i \in s : Min(s) <= i
<1>1. DOMAIN log = 1..Len(log) /\ Len(log) \in Nat  OBVIOUS
<1>2. DOMAIN log \subseteq 0..Len(log)  BY <1>1
<1>3. IsFiniteSet(DOMAIN log)  BY <1>1, <1>2, PositionsFinite
<1>4. ASSUME NEW s \in SUBSET DOMAIN log, s # {}
      PROVE  Min(s) \in s /\ \A i \in s : Min(s) <= i
  <2>1. s \subseteq 0..Len(log)  BY <1>2
  <2> QED  BY <1>1, <1>4, <2>1, FirstPosition
<1> QED  BY <1>1, <1>3, <1>4

LEMMA UndoIsFold ==
    ASSUME NEW log \in Seq(SetRecord), NEW f \in [Pos -> Record]
    PROVE  \E g : /\ Undo(log, f) = g[DOMAIN log]
                  /\ \A s \in SUBSET DOMAIN log : UndoStep(log, f, g, s)
<1> DEFINE D == DOMAIN log
           V == [Pos -> Record]
           F == [i \in D |-> [v \in V |-> [v EXCEPT ![log[i].pos] = log[i].old]]]
           pick == [s \in SUBSET D |-> Min(s)]
<1>1. IsFiniteSet(D)  BY SeqPositions
<1>2. \A s \in SUBSET D : s # {} => pick[s] \in s /\ pick[s] = Min(s)  BY SeqPositions
<1>3. F \in [D -> [V -> V]]
  <2>1. \A i \in D : log[i] \in SetRecord  OBVIOUS
  <2> QED  BY <2>1 DEF SetRecord
<1>4. \A i \in D : \A v \in V : F[i][v] = [v EXCEPT ![log[i].pos] = log[i].old]  OBVIOUS
<1>5. PICK g : /\ g = [s \in SUBSET D |-> IF s = {} THEN f ELSE F[pick[s]][g[s \ {pick[s]}]]]
               /\ IsFold(g, D, f, pick, F)
  <2> HIDE DEF D, pick, F
  <2> QED  BY <1>1, <1>2, FoldExists
<1>6. \A s \in SUBSET D : g[s] \in V
  <2> HIDE DEF D, pick, F, V
  <2>1. f \in V  BY DEF V
  <2> QED  BY <1>1, <1>2, <1>3, <1>5, <2>1, FoldValues
<1> HIDE DEF F, pick, V
<1>7. ASSUME NEW s \in SUBSET D PROVE UndoStep(log, f, g, s)
  <2>1. CASE s = {}  BY <1>5, <2>1 DEF UndoStep, IsFold
  <2>2. CASE s # {}
    <3>1. PICK x \in s : x = Min(s) /\ x = pick[s]  BY <1>2, <2>2
    <3>2. g[s] = F[x][g[s \ {x}]]  BY <1>5, <2>2, <3>1 DEF IsFold
    <3>3. g[s \ {x}] \in V  BY <1>6
    <3> QED  BY <1>4, <2>2, <3>1, <3>2, <3>3 DEF UndoStep
  <2> QED  BY <2>1, <2>2
<1> DEFINE R(h) == [s \in SUBSET D |-> IF s = {} THEN f
                      ELSE [h[s \ {Min(s)}] EXCEPT ![log[Min(s)].pos] = log[Min(s)].old]]
           chosen == CHOOSE h : h = R(h)
<1>8. g = R(g)
  <2>1. g = [s \in SUBSET D |-> g[s]]  BY <1>5
  <2> QED  BY <1>7, <2>1 DEF UndoStep
<1>9. chosen = R(chosen)  BY <1>8
<1>10. Undo(log, f) = chosen[D]  BY DEF Undo, FoldRight, MapThenFoldSet
<1>11. \A s \in SUBSET D : UndoStep(log, f, chosen, s)
  <2> HIDE DEF chosen
  <2> QED  BY <1>9 DEF UndoStep
<1> QED
  <2> HIDE DEF chosen
  <2> QED  BY <1>10, <1>11

LEMMA UndoIsOldest ==
    ASSUME NEW log \in Seq(SetRecord), NEW f \in [Pos -> Record]
    PROVE  /\ Undo(log, f) \in [Pos -> Record]
           /\ \A p \in Pos :
                 Undo(log, f)[p] = IF WritesTo(log, p) = {} THEN f[p]
                                   ELSE log[Min(WritesTo(log, p))].old
<1> DEFINE D == DOMAIN log
           To(s, p) == {i \in s : log[i].pos = p}
           Result(s) == [p \in Pos |-> IF To(s, p) = {} THEN f[p] ELSE log[Min(To(s, p))].old]
<1>1. PICK g : /\ Undo(log, f) = g[D]
               /\ \A s \in SUBSET D : UndoStep(log, f, g, s)
  BY UndoIsFold
<1>2. \A i \in D : log[i].pos \in Pos /\ log[i].old \in Record /\ i \in Int
  <2>1. \A i \in D : log[i] \in SetRecord /\ i \in Int  OBVIOUS
  <2> QED  BY <2>1 DEF SetRecord
<1>3. \A s \in SUBSET D : s # {} => Min(s) \in s /\ \A i \in s : Min(s) <= i  BY SeqPositions
<1> DEFINE Good == {s \in SUBSET D : g[s] = Result(s)}
<1>4. ASSUME NEW s \in SUBSET D, \A u \in SUBSET s : u # s => u \in Good
      PROVE  s \in Good
  <2>1. CASE s = {}
    <3>1. \A p \in Pos : To(s, p) = {}  BY <2>1
    <3>2. g[s] = f  BY <1>1, <2>1 DEF UndoStep
    <3> QED  BY <3>1, <3>2
  <2>2. CASE s # {}
    <3>1. PICK m \in s : m = Min(s)  BY <1>3, <2>2
    <3>2. PICK r \in SUBSET s : r = s \ {m}  OBVIOUS
    <3>3. g[r] = Result(r)  BY <1>4, <3>2
    <3>4. g[s] = [g[r] EXCEPT ![log[m].pos] = log[m].old]
      BY <1>1, <2>2, <3>1, <3>2 DEF UndoStep
    <3>5. ASSUME NEW p \in Pos PROVE g[s][p] = Result(s)[p]
      <4>1. CASE log[m].pos = p
        <5>1. m \in To(s, p) /\ To(s, p) \subseteq s  BY <4>1
        <5>2. To(s, p) \in SUBSET D /\ To(s, p) # {}  BY <5>1
        <5>3. Min(To(s, p)) \in To(s, p) /\ Min(To(s, p)) <= m  BY <1>3, <5>1, <5>2
        <5>4. m <= Min(To(s, p))  BY <1>3, <3>1, <5>1, <5>3
        <5>5. Min(To(s, p)) = m  BY <1>2, <5>1, <5>3, <5>4
        <5>6. g[s][p] = log[m].old  BY <3>3, <3>4, <4>1
        <5> QED  BY <5>2, <5>5, <5>6
      <4>2. CASE log[m].pos # p
        <5>1. To(s, p) = To(r, p)  BY <3>2, <4>2
        <5>2. g[s][p] = g[r][p]  BY <3>3, <3>4, <4>2
        <5> QED  BY <3>3, <5>1, <5>2
      <4> QED  BY <4>1, <4>2
    <3>6. g[s] = [p \in Pos |-> g[s][p]]  BY <3>3, <3>4
    <3> QED  BY <3>5, <3>6
  <2> QED  BY <2>1, <2>2
<1>5. D \in Good
  <2>1. IsFiniteSet(D)  BY SeqPositions
  <2> HIDE DEF Good, D
  <2>2. SUBSET D \subseteq Good  BY <1>4, <2>1, SubsetInduction
  <2> QED  BY <2>2
<1>6. Undo(log, f) = Result(D)  BY <1>1, <1>5
<1>7. \A p \in Pos : To(D, p) = WritesTo(log, p)  BY DEF WritesTo
<1>8. ASSUME NEW p \in Pos PROVE Result(D)[p] \in Record
  <2>1. CASE To(D, p) = {}  BY <2>1
  <2>2. CASE To(D, p) # {}
    <3>1. Min(To(D, p)) \in To(D, p)  BY <1>3, <2>2
    <3> QED  BY <1>2, <2>2, <3>1
  <2> QED  BY <2>1, <2>2
<1> QED  BY <1>6, <1>7, <1>8

-----------------------------------------------------------------------------
(* How many logged writes the transactions under way have made, and base.  *)
Logged(u, base) == FoldFunction(LAMBDA w, n : Len(w) + n, base, u)
LoggedStep(u, base, g, s) ==
    g[s] = IF s = {} THEN base
           ELSE LET t == CHOOSE t \in s : TRUE IN Len(u[t]) + g[s \ {t}]

Logs == [Txn -> Seq(SetRecord)]

LEMMA LoggedIsFold ==
    ASSUME NEW u \in Logs, NEW base \in Nat
    PROVE  \E g : /\ Logged(u, base) = g[Txn]
                  /\ \A s \in SUBSET Txn : g[s] \in Nat /\ LoggedStep(u, base, g, s)
<1> DEFINE F == [t \in Txn |-> [n \in Nat |-> Len(u[t]) + n]]
           pick == [s \in SUBSET Txn |-> CHOOSE t \in s : TRUE]
<1>1. IsFiniteSet(Txn)  BY TableAssumption
<1>2. \A s \in SUBSET Txn : s # {} => pick[s] \in s /\ pick[s] = CHOOSE t \in s : TRUE
  OBVIOUS
<1>3. \A t \in Txn : Len(u[t]) \in Nat /\ \A n \in Nat : Len(u[t]) + n \in Nat
  <2>1. \A t \in Txn : u[t] \in Seq(SetRecord)  BY DEF Logs
  <2> QED  BY <2>1
<1>4. F \in [Txn -> [Nat -> Nat]]  BY <1>3
<1>5. \A t \in Txn : \A n \in Nat : F[t][n] = Len(u[t]) + n  OBVIOUS
<1>6. PICK g : /\ g = [s \in SUBSET Txn |-> IF s = {} THEN base ELSE F[pick[s]][g[s \ {pick[s]}]]]
               /\ IsFold(g, Txn, base, pick, F)
  <2> HIDE DEF pick, F
  <2> QED  BY <1>1, <1>2, FoldExists
<1> HIDE DEF F, pick
<1>7. \A s \in SUBSET Txn : g[s] \in Nat  BY <1>1, <1>2, <1>4, <1>6, FoldValues
<1>8. ASSUME NEW s \in SUBSET Txn PROVE LoggedStep(u, base, g, s)
  <2>1. CASE s = {}  BY <1>6, <2>1 DEF LoggedStep, IsFold
  <2>2. CASE s # {}
    <3>1. PICK x \in s : x = (CHOOSE t \in s : TRUE) /\ x = pick[s]  BY <1>2, <2>2
    <3>2. g[s] = F[x][g[s \ {x}]]  BY <1>6, <2>2, <3>1 DEF IsFold
    <3>3. g[s \ {x}] \in Nat  BY <1>7
    <3>4. g[s] = Len(u[x]) + g[s \ {x}]  BY <1>5, <3>2, <3>3
    <3> QED  BY <2>2, <3>1, <3>4 DEF LoggedStep
  <2> QED  BY <2>1, <2>2
<1> DEFINE R(h) == [s \in SUBSET Txn |-> IF s = {} THEN base
                      ELSE LET t == CHOOSE t \in s : TRUE IN Len(u[t]) + h[s \ {t}]]
           chosen == CHOOSE h : h = R(h)
<1>9. g = R(g)
  <2>1. g = [s \in SUBSET Txn |-> g[s]]  BY <1>6
  <2> QED  BY <1>8, <2>1 DEF LoggedStep
<1>10. chosen = R(chosen)  BY <1>9
<1>11. Logged(u, base) = chosen[Txn]
  <2>1. DOMAIN u = Txn  BY DEF Logs
  <2> QED  BY <2>1 DEF Logged, FoldFunction, FoldFunctionOnSet, MapThenFoldSet
<1>12. \A s \in SUBSET Txn : LoggedStep(u, base, chosen, s)
  <2> HIDE DEF chosen
  <2> QED  BY <1>10 DEF LoggedStep
<1> HIDE DEF chosen, R
<1> DEFINE Good == {s \in SUBSET Txn : chosen[s] \in Nat}
<1>13. ASSUME NEW s \in SUBSET Txn, \A v \in SUBSET s : v # s => v \in Good
       PROVE  s \in Good
  <2>1. CASE s = {}  BY <1>12, <2>1 DEF LoggedStep
  <2>2. CASE s # {}
    <3>1. PICK x \in s : x = (CHOOSE t \in s : TRUE)  BY <2>2
    <3>2. s \ {x} \in Good  BY <1>13
    <3>3. chosen[s] = Len(u[x]) + chosen[s \ {x}]  BY <1>12, <2>2, <3>1 DEF LoggedStep
    <3> QED  BY <1>3, <3>2, <3>3
  <2> QED  BY <2>1, <2>2
<1>14. SUBSET Txn \subseteq Good
  <2> HIDE DEF Good
  <2> QED  BY <1>1, <1>13, SubsetInduction
<1> QED  BY <1>11, <1>12, <1>14

LEMMA LoggedChanges ==
    ASSUME NEW u \in Logs, NEW v \in Logs, NEW a \in Nat, NEW b \in Nat,
           NEW t \in Txn, \A w \in Txn \ {t} : v[w] = u[w]
    PROVE  /\ Logged(u, a) \in Nat
           /\ Logged(u, a) >= a + Len(u[t])
           /\ Logged(v, b) - b - Len(v[t]) = Logged(u, a) - a - Len(u[t])
<1>1. PICK g : /\ Logged(u, a) = g[Txn]
               /\ \A s \in SUBSET Txn : g[s] \in Nat /\ LoggedStep(u, a, g, s)
  BY LoggedIsFold
<1>2. PICK h : /\ Logged(v, b) = h[Txn]
               /\ \A s \in SUBSET Txn : h[s] \in Nat /\ LoggedStep(v, b, h, s)
  BY LoggedIsFold
<1>3. \A w \in Txn : Len(u[w]) \in Nat /\ Len(v[w]) \in Nat
  <2>1. \A w \in Txn : u[w] \in Seq(SetRecord) /\ v[w] \in Seq(SetRecord)  BY DEF Logs
  <2> QED  BY <2>1
<1> DEFINE Ok(s) == /\ t \in s => /\ g[s] >= a + Len(u[t])
                                 /\ h[s] - b - Len(v[t]) = g[s] - a - Len(u[t])
                    /\ t \notin s => g[s] >= a /\ h[s] - b = g[s] - a
           Good == {s \in SUBSET Txn : Ok(s)}
<1>4. ASSUME NEW s \in SUBSET Txn, \A r \in SUBSET s : r # s => r \in Good
      PROVE  s \in Good
  <2> SUFFICES Ok(s)  OBVIOUS
  <2>1. CASE s = {}
    <3>1. g[s] = a /\ h[s] = b /\ t \notin s  BY <1>1, <1>2, <2>1 DEF LoggedStep
    <3> QED  BY <3>1
  <2>2. CASE s # {}
    <3>1. PICK x \in s : x = (CHOOSE y \in s : TRUE)  BY <2>2
    <3>2. PICK r \in SUBSET s : r = s \ {x}  OBVIOUS
    <3>3. Ok(r) /\ r \in SUBSET Txn  BY <1>4, <3>1, <3>2
    <3>4. g[s] = Len(u[x]) + g[r] /\ h[s] = Len(v[x]) + h[r]
      BY <1>1, <1>2, <2>2, <3>1, <3>2 DEF LoggedStep
    <3>5. PICK lx \in Nat, lu \in Nat, lv \in Nat, gr \in Nat, hr \in Nat :
             /\ lx = Len(u[x]) /\ lu = Len(u[t]) /\ lv = Len(v[t])
             /\ gr = g[r] /\ hr = h[r]
      BY <1>1, <1>2, <1>3, <3>3
    <3>6. CASE x = t
      <4>1. t \notin r /\ t \in s  BY <3>2, <3>6
      <4>2. g[s] = lu + gr /\ h[s] = lv + hr  BY <3>4, <3>5, <3>6
      <4>3. gr >= a /\ hr - b = gr - a  BY <3>3, <3>5, <4>1
      <4>4. lu + gr >= a + lu /\ lv + hr - b - lv = lu + gr - a - lu  BY <4>3
      <4>5. g[s] >= a + lu /\ h[s] - b - lv = g[s] - a - lu  BY <4>2, <4>4
      <4> QED  BY <3>5, <4>1, <4>5
    <3>7. CASE x # t
      <4>1. Len(v[x]) = lx  BY <3>5, <3>7
      <4>2. g[s] = lx + gr /\ h[s] = lx + hr  BY <3>4, <3>5, <4>1
      <4>3. t \in s <=> t \in r  BY <3>2, <3>7
      <4>4. ASSUME t \in s PROVE g[s] >= a + lu /\ h[s] - b - lv = g[s] - a - lu
        <5>1. gr >= a + lu /\ hr - b - lv = gr - a - lu  BY <3>3, <3>5, <4>3, <4>4
        <5> QED  BY <4>2, <5>1
      <4>5. ASSUME t \notin s PROVE g[s] >= a /\ h[s] - b = g[s] - a
        <5>1. gr >= a /\ hr - b = gr - a  BY <3>3, <3>5, <4>3, <4>5
        <5> QED  BY <4>2, <5>1
      <4> QED  BY <3>5, <4>4, <4>5
    <3> QED  BY <3>6, <3>7
  <2> QED  BY <2>1, <2>2
<1>5. Txn \in Good
  <2> HIDE DEF Good
  <2>1. SUBSET Txn \subseteq Good  BY <1>4, TableAssumption, SubsetInduction
  <2> QED  BY <2>1
<1> QED  BY <1>1, <1>2, <1>5

(* The logs of all transactions undone in f. *)
Committed(u, f) == FoldFunction(Undo, f, u)
CommittedStep(u, f, g, s) ==
    g[s] = IF s = {} THEN f
           ELSE LET t == CHOOSE t \in s : TRUE IN Undo(u[t], g[s \ {t}])

LEMMA CommittedIsFold ==
    ASSUME NEW u \in Logs, NEW f \in [Pos -> Record]
    PROVE  \E g : /\ Committed(u, f) = g[Txn]
                  /\ \A s \in SUBSET Txn : CommittedStep(u, f, g, s)
<1> DEFINE V == [Pos -> Record]
           F == [t \in Txn |-> [v \in V |-> Undo(u[t], v)]]
           pick == [s \in SUBSET Txn |-> CHOOSE t \in s : TRUE]
<1>1. IsFiniteSet(Txn)  BY TableAssumption
<1>2. \A s \in SUBSET Txn : s # {} => pick[s] \in s /\ pick[s] = CHOOSE t \in s : TRUE
  OBVIOUS
<1>3. \A t \in Txn : \A v \in V : Undo(u[t], v) \in V
  <2>1. \A t \in Txn : u[t] \in Seq(SetRecord)  BY DEF Logs
  <2> QED  BY <2>1, UndoIsOldest
<1>4. F \in [Txn -> [V -> V]]  BY <1>3
<1>5. \A t \in Txn : \A v \in V : F[t][v] = Undo(u[t], v)  OBVIOUS
<1> HIDE DEF F, pick
<1>6. PICK g : /\ g = [s \in SUBSET Txn |-> IF s = {} THEN f ELSE F[pick[s]][g[s \ {pick[s]}]]]
               /\ IsFold(g, Txn, f, pick, F)
  BY <1>1, <1>2, FoldExists
<1>7. \A s \in SUBSET Txn : g[s] \in V
  <2>1. f \in V  OBVIOUS
  <2> HIDE DEF V
  <2> QED  BY <1>1, <1>2, <1>4, <1>6, <2>1, FoldValues
<1>8. ASSUME NEW s \in SUBSET Txn PROVE CommittedStep(u, f, g, s)
  <2>1. CASE s = {}  BY <1>6, <2>1 DEF CommittedStep, IsFold
  <2>2. CASE s # {}
    <3>1. PICK x \in s : x = (CHOOSE t \in s : TRUE) /\ x = pick[s]  BY <1>2, <2>2
    <3>2. g[s] = F[x][g[s \ {x}]]  BY <1>6, <2>2, <3>1 DEF IsFold
    <3>3. g[s \ {x}] \in V  BY <1>7
    <3>4. g[s] = Undo(u[x], g[s \ {x}])  BY <1>5, <3>2, <3>3
    <3> QED  BY <2>2, <3>1, <3>4 DEF CommittedStep
  <2> QED  BY <2>1, <2>2
<1> DEFINE R(h) == [s \in SUBSET Txn |-> IF s = {} THEN f
                      ELSE LET t == CHOOSE t \in s : TRUE IN Undo(u[t], h[s \ {t}])]
           chosen == CHOOSE h : h = R(h)
<1>9. g = R(g)
  <2>1. g = [s \in SUBSET Txn |-> g[s]]  BY <1>6
  <2> QED  BY <1>8, <2>1 DEF CommittedStep
<1>10. chosen = R(chosen)  BY <1>9
<1>11. Committed(u, f) = chosen[Txn]
  <2>1. DOMAIN u = Txn  BY DEF Logs
  <2> QED  BY <2>1 DEF Committed, FoldFunction, FoldFunctionOnSet, MapThenFoldSet
<1>12. \A s \in SUBSET Txn : CommittedStep(u, f, chosen, s)
  <2> HIDE DEF chosen
  <2> QED  BY <1>10 DEF CommittedStep
<1> QED
  <2> HIDE DEF chosen
  <2> QED  BY <1>11, <1>12

(* When no two transactions have written to a slot, what is committed in it *)
(* is what its writer's oldest record has saved.                            *)
LEMMA CommittedIsOldest ==
    ASSUME NEW u \in Logs, NEW f \in [Pos -> Record],
           \A t, v \in Txn, p \in Pos :
              WritesTo(u[t], p) # {} /\ WritesTo(u[v], p) # {} => t = v
    PROVE  /\ Committed(u, f) \in [Pos -> Record]
           /\ \A p \in Pos : (\A t \in Txn : WritesTo(u[t], p) = {}) => Committed(u, f)[p] = f[p]
           /\ \A p \in Pos, t \in Txn :
                 WritesTo(u[t], p) # {} =>
                    Committed(u, f)[p] = u[t][Min(WritesTo(u[t], p))].old
<1>1. PICK g : /\ Committed(u, f) = g[Txn]
               /\ \A s \in SUBSET Txn : CommittedStep(u, f, g, s)
  BY CommittedIsFold
<1> DEFINE Ok(s) == /\ g[s] \in [Pos -> Record]
                    /\ \A p \in Pos : (\A t \in s : WritesTo(u[t], p) = {}) => g[s][p] = f[p]
                    /\ \A p \in Pos, t \in s :
                          WritesTo(u[t], p) # {} => g[s][p] = u[t][Min(WritesTo(u[t], p))].old
           Good == {s \in SUBSET Txn : Ok(s)}
<1>2. ASSUME NEW s \in SUBSET Txn, \A r \in SUBSET s : r # s => r \in Good
      PROVE  s \in Good
  <2> SUFFICES Ok(s)  OBVIOUS
  <2>1. CASE s = {}
    <3>1. g[s] = f  BY <1>1, <2>1 DEF CommittedStep
    <3> QED  BY <2>1, <3>1
  <2>2. CASE s # {}
    <3>1. PICK x \in s : x = (CHOOSE y \in s : TRUE)  BY <2>2
    <3>2. PICK r \in SUBSET s : r = s \ {x}  OBVIOUS
    <3>3. Ok(r)  BY ZenonT(60), <1>2, <3>1, <3>2
    <3>4. g[s] = Undo(u[x], g[r])  BY <1>1, <2>2, <3>1, <3>2 DEF CommittedStep
    <3>5. u[x] \in Seq(SetRecord)  BY DEF Logs
    <3>6. /\ g[s] \in [Pos -> Record]
          /\ \A p \in Pos : g[s][p] = IF WritesTo(u[x], p) = {} THEN g[r][p]
                                      ELSE u[x][Min(WritesTo(u[x], p))].old
      <4> HIDE DEF Ok
      <4>1. g[r] \in [Pos -> Record]  BY <3>3 DEF Ok
      <4> QED  BY <3>4, <3>5, <4>1, UndoIsOldest
    <3>7. ASSUME NEW p \in Pos, \A t \in s : WritesTo(u[t], p) = {} PROVE g[s][p] = f[p]
      BY <3>2, <3>3, <3>6, <3>7
    <3>8. ASSUME NEW p \in Pos, NEW t \in s, WritesTo(u[t], p) # {}
          PROVE  g[s][p] = u[t][Min(WritesTo(u[t], p))].old
      <4>1. CASE t = x  BY <3>6, <3>8, <4>1
      <4>2. CASE t # x
        <5>1. WritesTo(u[x], p) = {}  BY <3>8, <4>2
        <5>2. t \in r  BY <3>2, <4>2
        <5> QED  BY <3>3, <3>6, <3>8, <5>1, <5>2
      <4> QED  BY <4>1, <4>2
    <3> QED  BY <3>6, <3>7, <3>8
  <2> QED  BY <2>1, <2>2
<1>3. Txn \in Good
  <2> HIDE DEF Good
  <2>1. SUBSET Txn \subseteq Good  BY <1>2, TableAssumption, SubsetInduction
  <2> QED  BY <2>1
<1> QED  BY <1>1, <1>3

-----------------------------------------------------------------------------
(* The invariant *)

Lockable == Blocks \cup {END_OF_FILE}

(* A block that one transaction has locked exclusively is locked by nobody *)
(* else.                                                                   *)
LocksExclude ==
    \A t, u \in Txn, b \in Lockable : held[t][b] = "exclusive" /\ u # t => held[u][b] = "none"

(* Nobody has locked or written anything behind the end of the file. *)
NothingBehindEnd ==
    /\ \A p \in Pos : p[1] >= length => file[p] = Zeroed
    /\ \A t \in Txn, b \in Blocks : b >= length => held[t][b] = "none"

WritesAreBounded == Logged(undo, Cardinality(Writing)) <= MaxWrites

(* The places in a call, where the scan stands meanwhile, and what it has  *)
(* when it is about to set a flag or to append a block.                    *)
Orderly(t) ==
    /\ call[t] \in {"closed", "idle", "failed"} => at[t] = "start"
    /\ call[t] = "TableScan" => at[t] \in {"append", "format"}
    /\ call[t] = "Next" => at[t] \in {"search", "last"}
    /\ call[t] = "Insert" => at[t] # "start"
    /\ call[t] = "closed" => page[t] = None /\ slot[t] = -1
    /\ page[t] # None => page[t] < length
    /\ call[t] = "Next" => slot[t] = -1
    /\ at[t] = "flag" => slot[t] >= 0 /\ held[t][page[t]] # "none"
    /\ at[t] = "append" => pins[t] = NoPins /\ held[t][END_OF_FILE] # "none"
    /\ at[t] = "append" /\ call[t] = "TableScan" => length = 0 /\ slot[t] = -1

Pinned(t) ==
    /\ Idle(t) \/ at[t] \in {"search", "flag", "last", "format"} =>
          page[t] # None /\ pins[t] = [NoPins EXCEPT ![page[t]] = 1]
    /\ call[t] = "closed" => pins[t] = NoPins

(* A block that is being formatted is the last one, nobody else is in it   *)
(* or gets there, and it is empty.                                         *)
Fresh(t) ==
    at[t] = "format" =>
        /\ page[t] = length - 1 /\ held[t][END_OF_FILE] = "exclusive"
        /\ call[t] = "TableScan" => page[t] = 0 /\ slot[t] = -1
        /\ \A u \in Txn \ {t} : page[u] # page[t] /\ held[u][page[t]] = "none"
        /\ \A p \in Pos : p[1] = page[t] => file[p] = Zeroed

(* What a transaction has read it has locked, and exclusively what it has  *)
(* written; and it has read the blocks it has locked, unless it is about   *)
(* to format one or an exception has ended its scan.                       *)
Reads(t) ==
    /\ view[t].size # None => held[t][END_OF_FILE] # "none"
    /\ view[t].size \in {None, length}
    /\ \A b \in Blocks : view[t].block[b] # None => held[t][b] # "none"
    /\ \A b \in Blocks : view[t].block[b] \in {None, Contents(file, b)}
Seen(t) ==
    call[t] # "failed" =>
        \A b \in Blocks : held[t][b] # "none" =>
            view[t].block[b] = Contents(file, b) \/ (at[t] = "format" /\ page[t] = b)
Writes(t) == \A i \in DOMAIN undo[t] : held[t][undo[t][i].pos[1]] = "exclusive"

(* The slots a scan has passed, and what it has returned of them. *)
Passed(t) ==
    IF progress[t] = "done" \/ at[t] = "last" THEN {p \in Pos : p[1] <= page[t]} ELSE UpTo(t)

Complete(t) ==
    /\ progress[t] = "lost" => returned[t] = {}
    /\ progress[t] # "lost" =>
          /\ call[t] \in {"idle", "Next"}
          /\ returned[t] = {p \in Passed(t) : file[p].flag = "USED"}
          /\ \A p \in Passed(t) : held[t][p[1]] # "none"
    /\ progress[t] = "done" =>
          /\ Idle(t) /\ slot[t] = -1
          /\ page[t] = length - 1 /\ held[t][END_OF_FILE] # "none"

TxnInv(t) ==
    /\ Orderly(t) /\ Pinned(t) /\ Fresh(t)
    /\ Reads(t) /\ Seen(t) /\ Writes(t) /\ Complete(t)

TableInv ==
    /\ TypeOK /\ LocksExclude /\ NothingBehindEnd /\ WritesAreBounded
    /\ \A t \in Txn : TxnInv(t)

-----------------------------------------------------------------------------
(* Locks *)

LEMMA Numbers ==
    /\ NumSlots \in Nat /\ NumSlots > 0 /\ MaxBlocks \in Nat /\ MaxBlocks > 0
    /\ MaxVal \in Nat /\ MaxWrites \in Nat
    /\ \A b \in Blocks : b \in Nat /\ b < MaxBlocks /\ b # END_OF_FILE /\ b # None
    /\ \A s \in Slots : s \in Nat /\ s < NumSlots
    /\ 0 \in Blocks /\ END_OF_FILE \notin Blocks /\ None \notin Blocks
    /\ \A p \in Pos : p = <<p[1], p[2]>> /\ p[1] \in Blocks /\ p[2] \in Slots
    /\ Zeroed \in Record /\ None \notin 0..MaxBlocks
<1>1. /\ NumSlots \in Nat /\ NumSlots > 0 /\ MaxBlocks \in Nat /\ MaxBlocks > 0
      /\ MaxVal \in Nat /\ MaxWrites \in Nat /\ None \notin Nat
  BY TableAssumption
<1>2. \A b \in Blocks : b \in Nat /\ b < MaxBlocks /\ b # END_OF_FILE /\ b # None
  BY <1>1 DEF Blocks, END_OF_FILE
<1>3. \A s \in Slots : s \in Nat /\ s < NumSlots  BY <1>1 DEF Slots
<1>4. 0 \in Blocks /\ END_OF_FILE \notin Blocks /\ None \notin Blocks
  BY <1>1 DEF Blocks, END_OF_FILE
<1>5. \A p \in Pos : p = <<p[1], p[2]>> /\ p[1] \in Blocks /\ p[2] \in Slots
  BY DEF Pos
<1>6. Zeroed \in Record  BY <1>1 DEF Zeroed, Record
<1>7. None \notin 0..MaxBlocks  BY <1>1
<1> QED  BY <1>1, <1>2, <1>3, <1>4, <1>5, <1>6, <1>7

LEMMA TypesOfScans ==
    ASSUME TypeOK
    PROVE  /\ file \in [Pos -> Record] /\ length \in 0..MaxBlocks /\ length \in Nat
           /\ held \in [Txn -> [Lockable -> Lock!Mode]]
           /\ page \in [Txn -> Blocks \cup {None}] /\ slot \in [Txn -> -1..(NumSlots - 1)]
           /\ pins \in [Txn -> [Blocks -> 0..1]]
           /\ call \in [Txn -> Call] /\ at \in [Txn -> At]
           /\ undo \in [Txn -> Seq(SetRecord)]
           /\ view \in [Txn -> [block : [Blocks -> [Slots -> Record] \cup {None}],
                                size : 0..MaxBlocks \cup {None}]]
           /\ progress \in [Txn -> Progress] /\ returned \in [Txn -> SUBSET Pos]
<1>1. length \in Nat  BY Numbers DEF TypeOK
<1>2. held \in [Txn -> [Lockable -> Lock!Mode]]  BY DEF TypeOK, Lock!TypeOK, Lockable
<1> QED  BY <1>1, <1>2 DEF TypeOK

(* t has got a lock on b, and nothing else has changed. *)
Granted(t, b) ==
    /\ held' \in [Txn -> [Lockable -> Lock!Mode]]
    /\ \A u \in Txn \ {t} : held'[u] = held[u]
    /\ \A c \in Lockable \ {b} : held'[t][c] = held[t][c]
    /\ held'[t][b] # "none"
    /\ held[t][b] = "exclusive" => held'[t][b] = "exclusive"
    /\ held'[t][b] = "exclusive" => \A u \in Txn \ {t} : held[u][b] = "none"
    /\ \A u \in Txn \ {t} : held[u][b] # "exclusive"
    /\ LocksExclude'

LEMMA ShareGranted ==
    ASSUME TypeOK, LocksExclude, NEW t \in Txn, NEW b \in Lockable, SharedLock(t, b)
    PROVE  Granted(t, b)
<1>1. held \in [Txn -> [Lockable -> Lock!Mode]]  BY TypesOfScans
<1>2. CASE held[t][b] = "none"
  <2>1. /\ held' = [held EXCEPT ![t][b] = "shared"]
        /\ \A u \in Txn \ {t} : held[u][b] # "exclusive"
    BY <1>2 DEF SharedLock, Lock!Share, Lock!NoOther
  <2>2. held' \in [Txn -> [Lockable -> Lock!Mode]]  BY <1>1, <2>1 DEF Lock!Mode
  <2>3. \A u \in Txn \ {t} : held'[u] = held[u]  BY <1>1, <2>1
  <2>4. \A c \in Lockable \ {b} : held'[t][c] = held[t][c]  BY <1>1, <2>1
  <2>5. held'[t][b] = "shared"  BY <1>1, <2>1
  <2>6. LocksExclude'
    <3> SUFFICES ASSUME NEW x \in Txn, NEW y \in Txn, NEW c \in Lockable,
                        held'[x][c] = "exclusive", y # x
                 PROVE  held'[y][c] = "none"
      BY DEF LocksExclude, Lockable
    <3>1. held[x][c] = "exclusive" /\ ~(x = t /\ c = b)  BY <2>3, <2>4, <2>5
    <3>2. held[y][c] = "none"  BY <3>1 DEF LocksExclude
    <3>3. ~(y = t /\ c = b)  BY <2>1, <3>1
    <3> QED  BY <2>3, <2>4, <3>2, <3>3
  <2> QED  BY <1>2, <2>1, <2>2, <2>3, <2>4, <2>5, <2>6 DEF Granted
<1>3. CASE held[t][b] # "none"
  <2>1. held' = held  BY <1>3 DEF SharedLock
  <2>2. LocksExclude'  BY <2>1 DEF LocksExclude
  <2>3. \A u \in Txn \ {t} : held[u][b] # "exclusive"  BY <1>3 DEF LocksExclude
  <2>4. held[t][b] = "exclusive" => \A u \in Txn \ {t} : held[u][b] = "none"
    BY DEF LocksExclude
  <2> QED  BY <1>1, <1>3, <2>1, <2>2, <2>3, <2>4 DEF Granted
<1> QED  BY <1>2, <1>3

LEMMA ExclusiveGranted ==
    ASSUME TypeOK, LocksExclude, NEW t \in Txn, NEW b \in Lockable, ExclusiveLock(t, b)
    PROVE  /\ Granted(t, b) /\ held'[t][b] = "exclusive"
           /\ held[t][b] # "none"
<1>1. held \in [Txn -> [Lockable -> Lock!Mode]]  BY TypesOfScans
<1>2. CASE held[t][b] = "exclusive"
  <2>1. held' = held  BY <1>2 DEF ExclusiveLock
  <2>2. LocksExclude'  BY <2>1 DEF LocksExclude
  <2>3. \A u \in Txn \ {t} : held[u][b] = "none"  BY <1>2 DEF LocksExclude
  <2> QED  BY <1>1, <1>2, <2>1, <2>2, <2>3 DEF Granted
<1>3. CASE held[t][b] # "exclusive"
  <2>1. /\ held' = [held EXCEPT ![t][b] = "exclusive"] /\ held[t][b] = "shared"
        /\ \A u \in Txn \ {t} : held[u][b] \notin {"shared", "exclusive"}
    BY <1>3 DEF ExclusiveLock, Lock!Upgrade, Lock!NoOther
  <2>2. held' \in [Txn -> [Lockable -> Lock!Mode]]  BY <1>1, <2>1 DEF Lock!Mode
  <2>3. \A u \in Txn \ {t} : held'[u] = held[u]  BY <1>1, <2>1
  <2>4. \A c \in Lockable \ {b} : held'[t][c] = held[t][c]  BY <1>1, <2>1
  <2>5. held'[t][b] = "exclusive"  BY <1>1, <2>1
  <2>6. \A u \in Txn \ {t} : held[u][b] = "none"  BY <1>1, <2>1 DEF Lock!Mode
  <2>7. LocksExclude'
    <3> SUFFICES ASSUME NEW x \in Txn, NEW y \in Txn, NEW c \in Lockable,
                        held'[x][c] = "exclusive", y # x
                 PROVE  held'[y][c] = "none"
      BY DEF LocksExclude, Lockable
    <3>1. CASE x = t /\ c = b  BY <2>3, <2>6, <3>1
    <3>2. CASE ~(x = t /\ c = b)
      <4>1. held[x][c] = "exclusive"  BY <2>3, <2>4, <3>2
      <4>2. held[y][c] = "none"  BY <4>1 DEF LocksExclude
      <4>3. ~(y = t /\ c = b)  BY <2>1, <4>2
      <4> QED  BY <2>3, <2>4, <4>2, <4>3
    <3> QED  BY <3>1, <3>2
  <2> QED  BY <1>3, <2>1, <2>2, <2>3, <2>4, <2>5, <2>6, <2>7 DEF Granted
<1> QED  BY <1>2, <1>3

-----------------------------------------------------------------------------
(* What a step of one transaction leaves of the others *)

OthersOut(t, b) == \A u \in Txn \ {t} : held[u][b] = "none"

StaysPut(u) ==
    /\ held'[u] = held[u] /\ page'[u] = page[u] /\ slot'[u] = slot[u] /\ pins'[u] = pins[u]
    /\ call'[u] = call[u] /\ at'[u] = at[u] /\ undo'[u] = undo[u]
    /\ view'[u] = view[u] /\ progress'[u] = progress[u] /\ returned'[u] = returned[u]

StepOf(t) ==
    /\ \A u \in Txn \ {t} : StaysPut(u)
    /\ \A p \in Pos : file'[p] # file[p] => OthersOut(t, p[1])
    /\ length' = length \/ (length' = length + 1 /\ OthersOut(t, END_OF_FILE))
    /\ \A u \in Txn \ {t} : at[u] = "format" =>
          /\ page'[t] # page[u] /\ held'[t][page[u]] = "none"
          /\ \A p \in Pos : p[1] = page[u] => file'[p] = file[p]

LEMMA OthersKept ==
    ASSUME TableInv, TypeOK', NEW t \in Txn, StepOf(t), NEW u \in Txn \ {t}
    PROVE  TxnInv(u)'
<1>1. StaysPut(u) /\ TxnInv(u)  BY DEF StepOf, TableInv
<1>2. TypeOK /\ LocksExclude /\ NothingBehindEnd  BY DEF TableInv
<1>3. length \in Nat /\ length' \in Nat /\ length <= length'
  BY <1>2, TypesOfScans DEF StepOf, TypeOK
<1>4. page[u] \in Blocks \cup {None} /\ slot[u] \in -1..(NumSlots - 1)
  BY <1>2, TypesOfScans
<1>5. page[u] # None => page[u] \in Nat  BY <1>4, Numbers
<1>6. held[u][END_OF_FILE] # "none" => length' = length
  BY DEF StepOf, OthersOut
<1>7. \A p \in Pos : held[u][p[1]] # "none" => file'[p] = file[p]
  BY DEF StepOf, OthersOut
<1>8. Orderly(u)'
  <2>1. Orderly(u)  BY <1>1 DEF TxnInv
  <2>2. ASSUME page[u] # None PROVE page[u] < length'
    <3>1. page[u] \in Nat /\ page[u] < length  BY <1>5, <2>1, <2>2 DEF Orderly
    <3> QED  BY <1>3, <3>1
  <2>3. at[u] = "append" /\ call[u] = "TableScan" => length' = 0 /\ slot[u] = -1
    BY <1>6, <2>1 DEF Orderly
  <2> QED  BY <1>1, <2>1, <2>2, <2>3 DEF Orderly, StaysPut
<1>9. Pinned(u)'
  <2>1. Pinned(u)  BY <1>1 DEF TxnInv
  <2> QED  BY <1>1, <2>1 DEF Pinned, StaysPut, Idle
<1>10. Fresh(u)'
  <2> SUFFICES ASSUME at[u] = "format"
               PROVE  /\ page[u] = length' - 1 /\ held[u][END_OF_FILE] = "exclusive"
                      /\ call[u] = "TableScan" => page[u] = 0 /\ slot[u] = -1
                      /\ \A v \in Txn \ {u} : page'[v] # page[u] /\ held'[v][page[u]] = "none"
                      /\ \A p \in Pos : p[1] = page[u] => file'[p] = Zeroed
    BY <1>1 DEF Fresh, StaysPut
  <2>1. /\ page[u] = length - 1 /\ held[u][END_OF_FILE] = "exclusive"
        /\ call[u] = "TableScan" => page[u] = 0 /\ slot[u] = -1
        /\ \A v \in Txn \ {u} : page[v] # page[u] /\ held[v][page[u]] = "none"
        /\ \A p \in Pos : p[1] = page[u] => file[p] = Zeroed
    BY <1>1 DEF TxnInv, Fresh
  <2>2. /\ page'[t] # page[u] /\ held'[t][page[u]] = "none"
        /\ \A p \in Pos : p[1] = page[u] => file'[p] = file[p]
    BY DEF StepOf
  <2>3. \A v \in Txn \ {t} : page'[v] = page[v] /\ held'[v] = held[v]
    BY DEF StepOf, StaysPut
  <2>4. \A v \in Txn \ {u} : page'[v] # page[u] /\ held'[v][page[u]] = "none"
    BY <2>1, <2>2, <2>3
  <2> QED  BY <1>6, <2>1, <2>2, <2>4
<1>11. Reads(u)'
  <2>1. Reads(u)  BY <1>1 DEF TxnInv
  <2>2. ASSUME NEW b \in Blocks, view[u].block[b] # None
        PROVE  Contents(file', b) = Contents(file, b)
    <3>1. held[u][b] # "none"  BY <2>1, <2>2 DEF Reads
    <3>2. \A s \in Slots : <<b, s>> \in Pos /\ <<b, s>>[1] = b  BY DEF Pos
    <3>3. \A s \in Slots : file'[<<b, s>>] = file[<<b, s>>]  BY <1>7, <3>1, <3>2
    <3> QED  BY <3>3 DEF Contents
  <2> QED  BY <1>1, <1>6, <2>1, <2>2 DEF Reads, StaysPut
<1>12. Writes(u)'
  <2>1. Writes(u)  BY <1>1 DEF TxnInv
  <2> QED  BY <1>1, <2>1 DEF Writes, StaysPut
<1>14. Seen(u)'
  <2>1. Seen(u)  BY <1>1 DEF TxnInv
  <2>2. ASSUME NEW b \in Blocks, held[u][b] # "none"
        PROVE  Contents(file', b) = Contents(file, b)
    <3>1. \A s \in Slots : <<b, s>> \in Pos /\ <<b, s>>[1] = b  BY DEF Pos
    <3>2. \A s \in Slots : file'[<<b, s>>] = file[<<b, s>>]  BY <1>7, <2>2, <3>1
    <3> QED  BY <3>2 DEF Contents
  <2> QED  BY <1>1, <2>1, <2>2 DEF Seen, StaysPut
<1>13. Complete(u)'
  <2>1. Complete(u)  BY <1>1 DEF TxnInv
  <2>2. UpTo(u)' = UpTo(u) /\ Passed(u)' = Passed(u) /\ Passed(u) \subseteq Pos
    BY <1>1 DEF UpTo, Passed, StaysPut
  <2>3. CASE progress[u] = "lost"  BY <1>1, <2>1, <2>3 DEF Complete, StaysPut
  <2>4. CASE progress[u] # "lost"
    <3>1. \A p \in Passed(u) : held[u][p[1]] # "none"  BY <2>1, <2>4 DEF Complete
    <3>2. \A p \in Passed(u) : file'[p] = file[p]  BY <1>7, <2>2, <3>1
    <3>3. {p \in Passed(u)' : file'[p].flag = "USED"} = {p \in Passed(u) : file[p].flag = "USED"}
      BY <2>2, <3>2
    <3>4. Idle(u)' <=> Idle(u)  BY <1>1 DEF Idle, StaysPut
    <3>5. progress[u] = "done" => length' = length  BY <1>6, <2>1 DEF Complete
    <3> QED  BY <1>1, <2>1, <2>2, <2>4, <3>1, <3>3, <3>4, <3>5 DEF Complete, StaysPut
  <2> QED  BY <2>3, <2>4
<1> QED  BY <1>8, <1>9, <1>10, <1>11, <1>12, <1>13, <1>14 DEF TxnInv

(* So a step keeps the invariant when it does for the transaction itself.  *)
LEMMA StepKeeps ==
    ASSUME TableInv, NEW t \in Txn, StepOf(t), TypeOK', LocksExclude', NothingBehindEnd',
           WritesAreBounded', TxnInv(t)'
    PROVE  TableInv'
<1>1. \A u \in Txn \ {t} : TxnInv(u)'  BY OthersKept
<1>2. \A u \in Txn : TxnInv(u)'  BY <1>1
<1> QED  BY <1>2 DEF TableInv

-----------------------------------------------------------------------------
(* Parts of the steps *)

LEMMA Cases ==
    ASSUME TableInv, NEW t \in Txn
    PROVE  /\ TypeOK /\ LocksExclude /\ NothingBehindEnd /\ WritesAreBounded /\ TxnInv(t)
           /\ Orderly(t) /\ Pinned(t) /\ Fresh(t)
           /\ Reads(t) /\ Seen(t) /\ Writes(t) /\ Complete(t)
           /\ \A u \in Txn : Fresh(u)
           /\ page[t] # None => page[t] \in Blocks /\ page[t] \in Lockable /\ page[t] < length
           /\ END_OF_FILE \in Lockable
BY TypesOfScans, Numbers DEF TableInv, TxnInv, Orderly, Lockable

LEMMA TypesKept ==
    ASSUME file' \in [Pos -> Record], length' \in 0..MaxBlocks,
           held' \in [Txn -> [Lockable -> Lock!Mode]],
           page' \in [Txn -> Blocks \cup {None}], slot' \in [Txn -> -1..(NumSlots - 1)],
           pins' \in [Txn -> [Blocks -> 0..1]],
           call' \in [Txn -> Call], at' \in [Txn -> At],
           undo' \in [Txn -> Seq(SetRecord)], WritesAreBounded',
           view' \in [Txn -> [block : [Blocks -> [Slots -> Record] \cup {None}],
                              size : 0..MaxBlocks \cup {None}]],
           progress' \in [Txn -> Progress], returned' \in [Txn -> SUBSET Pos]
    PROVE  TypeOK'
<1>1. Cardinality(Writing') \in Nat
  <2>1. Writing' \subseteq Txn  BY DEF Writing
  <2> QED  BY <2>1, TableAssumption, FS_Subset, FS_CardinalityType
<1>2. ASSUME NEW t \in Txn PROVE Len(undo'[t]) <= MaxWrites
  <2>1. PICK log \in Logs : log = undo'  BY DEF Logs
  <2>2. PICK n \in Nat : n = Cardinality(Writing')  BY <1>1
  <2>3. Logged(log, n) \in Nat /\ Logged(log, n) >= n + Len(log[t])  BY LoggedChanges
  <2>4. Logged(log, n) <= MaxWrites  BY <2>1, <2>2 DEF WritesAreBounded
  <2>5. Len(log[t]) \in Nat  BY DEF Logs
  <2>6. MaxWrites \in Nat  BY TableAssumption
  <2> QED  BY <2>1, <2>3, <2>4, <2>5, <2>6
<1>3. Lock!TypeOK'  BY DEF Lock!TypeOK, Lockable
<1> QED  BY <1>2, <1>3 DEF TypeOK

(* No new Insert and no new write. *)
LEMMA BoundKept ==
    ASSUME TypeOK, WritesAreBounded, undo' = undo, Writing' \subseteq Writing
    PROVE  WritesAreBounded'
<1>1. Writing \subseteq Txn  BY DEF Writing
<1>2. IsFiniteSet(Writing)  BY <1>1, TableAssumption, FS_Subset
<1>3. /\ Cardinality(Writing) \in Nat /\ Cardinality(Writing') \in Nat
      /\ Cardinality(Writing') <= Cardinality(Writing)
  BY <1>2, FS_Subset, FS_CardinalityType
<1>4. PICK m \in Nat, n \in Nat : m = Cardinality(Writing) /\ n = Cardinality(Writing')
  BY <1>3
<1>5. undo \in Logs  BY TypesOfScans DEF Logs
<1>6. WritesAreBounded' <=> Logged(undo', Cardinality(Writing')) <= MaxWrites
  BY DEF WritesAreBounded
<1>7. CASE Txn = {}
  <2>1. Writing' = Writing  BY <1>1, <1>7
  <2> QED  BY <1>6, <2>1 DEF WritesAreBounded
<1>8. CASE Txn # {}
  <2>1. PICK t \in Txn : TRUE  BY <1>8
  <2>2. PICK k \in Nat : k = Len(undo[t])  BY <1>5 DEF Logs
  <2>3. /\ Logged(undo, m) \in Nat /\ Logged(undo, n) \in Nat
        /\ Logged(undo, n) - n - k = Logged(undo, m) - m - k
    BY <1>5, <2>2, LoggedChanges, SMTT(30)
  <2>4. Logged(undo, m) <= MaxWrites  BY <1>4 DEF WritesAreBounded
  <2>5. n <= m  BY <1>3, <1>4
  <2>6. Logged(undo, n) <= MaxWrites  BY <2>3, <2>4, <2>5, Numbers
  <2> QED  BY <1>4, <1>6, <2>6
<1> QED  BY <1>7, <1>8

(* A step that reads, and may take the lock on the page or the end of file. *)
LEMMA LockStep ==
    ASSUME TableInv, NEW t \in Txn, NEW b \in Lockable, b = END_OF_FILE \/ b = page[t],
           held' = held \/ Granted(t, b), file' = file, length' = length
    PROVE  /\ held' \in [Txn -> [Lockable -> Lock!Mode]]
           /\ \A u \in Txn \ {t} : held'[u] = held[u]
           /\ LocksExclude' /\ NothingBehindEnd'
           /\ \A u \in Txn \ {t} : at[u] = "format" => held'[t][page[u]] = "none"
           /\ \A c \in Lockable : held[t][c] # "none" => held'[t][c] # "none"
           /\ undo'[t] = undo[t] => Writes(t)'
           /\ view'[t] = view[t] => Reads(t)'
<1>1. held \in [Txn -> [Lockable -> Lock!Mode]]  BY Cases, TypesOfScans
<1>2. /\ held' \in [Txn -> [Lockable -> Lock!Mode]] /\ LocksExclude'
      /\ \A u \in Txn \ {t} : held'[u] = held[u]
  <2>1. CASE held' = held  BY <1>1, <2>1, Cases DEF LocksExclude
  <2>2. CASE Granted(t, b)  BY <2>2 DEF Granted
  <2> QED  BY <2>1, <2>2
<1>3. \A c \in Lockable : c # b => held'[t][c] = held[t][c]  BY DEF Granted
<1>4. \A c \in Lockable : /\ held[t][c] # "none" => held'[t][c] # "none"
                          /\ held[t][c] = "exclusive" => held'[t][c] = "exclusive"
  BY <1>3 DEF Granted
<1>5. NothingBehindEnd'
  <2>1. length \in Nat  BY Cases, TypesOfScans
  <2>2. ASSUME NEW u \in Txn, NEW c \in Blocks, c >= length PROVE held'[u][c] = "none"
    <3>1. held[u][c] = "none"  BY <2>2, Cases DEF NothingBehindEnd
    <3>2. c # b
      <4>1. c \in Nat /\ c # END_OF_FILE /\ c # None  BY Numbers
      <4>2. c # page[t]  BY <2>1, <2>2, <4>1, Cases
      <4> QED  BY <4>1, <4>2
    <3>3. c \in Lockable  BY DEF Lockable
    <3> QED  BY <1>2, <1>3, <3>1, <3>2, <3>3
  <2>3. \A p \in Pos : p[1] >= length => file[p] = Zeroed  BY Cases DEF NothingBehindEnd
  <2> QED  BY <2>2, <2>3 DEF NothingBehindEnd
<1>6. ASSUME NEW u \in Txn \ {t}, at[u] = "format" PROVE held'[t][page[u]] = "none"
  <2>1. page[t] # page[u] /\ held[t][page[u]] = "none"  BY <1>6, Cases DEF Fresh
  <2>2. Pinned(u)  BY Cases
  <2>3. page[u] # None  BY <1>6, <2>2 DEF Pinned
  <2>4. page[u] \in Blocks /\ page[u] \in Lockable  BY <2>3, Cases
  <2>5. page[u] # b  BY <2>1, <2>4, Numbers
  <2> QED  BY <1>3, <2>1, <2>4, <2>5
<1>7. ASSUME undo'[t] = undo[t] PROVE Writes(t)'
  <2>1. undo[t] \in Seq(SetRecord)  BY Cases, TypesOfScans
  <2>2. \A i \in DOMAIN undo[t] : undo[t][i].pos[1] \in Lockable
    <3>1. \A i \in DOMAIN undo[t] : undo[t][i] \in SetRecord  BY <2>1
    <3> QED  BY <3>1, Numbers DEF SetRecord, Lockable
  <2>3. Writes(t)  BY Cases
  <2> QED  BY <1>4, <1>7, <2>2, <2>3 DEF Writes
<1>8. ASSUME view'[t] = view[t] PROVE Reads(t)'
  <2>1. Reads(t)  BY Cases
  <2>2. END_OF_FILE \in Lockable /\ Blocks \subseteq Lockable  BY DEF Lockable
  <2> QED  BY <1>4, <1>8, <2>1, <2>2 DEF Reads
<1> QED  BY <1>2, <1>4, <1>5, <1>6, <1>7, <1>8

(* Nothing of another transaction changes but perhaps its view of the locks. *)
OthersStay(t) ==
    \A u \in Txn \ {t} :
        /\ page'[u] = page[u] /\ slot'[u] = slot[u] /\ pins'[u] = pins[u]
        /\ call'[u] = call[u] /\ at'[u] = at[u] /\ undo'[u] = undo[u]
        /\ view'[u] = view[u] /\ progress'[u] = progress[u] /\ returned'[u] = returned[u]

ScanTypes ==
    /\ page \in [Txn -> Blocks \cup {None}] /\ slot \in [Txn -> -1..(NumSlots - 1)]
    /\ pins \in [Txn -> [Blocks -> 0..1]]
    /\ call \in [Txn -> Call] /\ at \in [Txn -> At]
    /\ view \in [Txn -> [block : [Blocks -> [Slots -> Record] \cup {None}],
                         size : 0..MaxBlocks \cup {None}]]
    /\ progress \in [Txn -> Progress] /\ returned \in [Txn -> SUBSET Pos]

(* The lock on b, if it is one on a block, is got by who reads the block,   *)
(* or is about to format it.                                               *)
Sees(t, b) ==
    \/ call'[t] = "failed"
    \/ /\ call[t] # "failed"
       /\ \A c \in Blocks : view'[t].block[c] \in {view[t].block[c], Contents(file, c)}
       /\ at[t] = "format" =>
             \/ at'[t] = "format" /\ page'[t] = page[t]
             \/ view'[t].block[page[t]] = Contents(file, page[t])
       /\ \/ held' = held \/ b = END_OF_FILE
          \/ view'[t].block[b] = Contents(file, b)
          \/ at'[t] = "format" /\ page'[t] = b

LEMMA QuietInv ==
    ASSUME TableInv, NEW t \in Txn, NEW b \in Lockable, b = END_OF_FILE \/ b = page[t],
           held' = held \/ Granted(t, b), file' = file, length' = length, undo' = undo,
           ScanTypes', OthersStay(t),
           \/ page'[t] \in {page[t], None}
           \/ \A u \in Txn \ {t} : at[u] = "format" => page'[t] # page[u],
           call'[t] # "Insert" \/ call[t] = "Insert" \/ WritesAreBounded',
           Orderly(t)', Pinned(t)', Fresh(t)', Reads(t)', Sees(t, b), Complete(t)'
    PROVE  TableInv'
<1>1. /\ held' \in [Txn -> [Lockable -> Lock!Mode]]
      /\ \A u \in Txn \ {t} : held'[u] = held[u]
      /\ \A u \in Txn \ {t} : at[u] = "format" => held'[t][page[u]] = "none"
      /\ LocksExclude' /\ NothingBehindEnd' /\ Writes(t)'
  BY LockStep
<1>2. \A u \in Txn \ {t} : StaysPut(u)  BY <1>1 DEF StaysPut, OthersStay
<1>3. ASSUME NEW u \in Txn \ {t}, at[u] = "format" PROVE page'[t] # page[u]
  <2>1. page[t] # page[u]  BY <1>3, Cases DEF Fresh
  <2>2. page[u] # None
    <3>1. Pinned(u)  BY Cases
    <3> QED  BY <1>3, <3>1 DEF Pinned
  <2> QED  BY <1>3, <2>1, <2>2
<1>4. StepOf(t)  BY <1>1, <1>2, <1>3 DEF StepOf
<1>5. WritesAreBounded'
  <2>1. CASE call'[t] # "Insert" \/ call[t] = "Insert"
    <3>1. Writing' \subseteq Writing  BY <2>1 DEF Writing, OthersStay
    <3> QED  BY <3>1, Cases, BoundKept
  <2> QED  BY <2>1
<1>6. TypeOK'
  <2>1. undo' \in [Txn -> Seq(SetRecord)] /\ file' \in [Pos -> Record] /\ length' \in 0..MaxBlocks
    BY Cases, TypesOfScans
  <2> QED  BY <1>1, <1>5, <2>1, TypesKept DEF ScanTypes
<1>7. Seen(t)'
  <2>1. CASE call'[t] = "failed"  BY <2>1 DEF Seen
  <2>2. CASE call'[t] # "failed"
    <3> SUFFICES ASSUME NEW c \in Blocks, held'[t][c] # "none"
                 PROVE  \/ view'[t].block[c] = Contents(file, c)
                        \/ at'[t] = "format" /\ page'[t] = c
      BY DEF Seen
    <3>1. c \in Lockable /\ c # END_OF_FILE  BY Numbers DEF Lockable
    <3>2. CASE held[t][c] # "none"
      <4>1. view[t].block[c] = Contents(file, c) \/ (at[t] = "format" /\ page[t] = c)
        BY <2>2, <3>2, Cases DEF Seen, Sees
      <4> QED  BY <2>2, <4>1 DEF Sees
    <3>3. CASE held[t][c] = "none"
      <4>1. c = b /\ held' # held  BY <3>1, <3>3 DEF Granted
      <4> QED  BY <2>2, <3>1, <4>1 DEF Sees
    <3> QED  BY <3>2, <3>3
  <2> QED  BY <2>1, <2>2
<1> QED  BY <1>1, <1>4, <1>5, <1>6, <1>7, StepKeeps DEF TxnInv

(* The length, or the page, has been read under its lock. *)
LEMMA SizeRead ==
    ASSUME TableInv, NEW t \in Txn, file' = file, length' \in Nat,
           view' = [view EXCEPT ![t].size = length'],
           \A c \in Lockable : held[t][c] # "none" => held'[t][c] # "none",
           held'[t][END_OF_FILE] # "none"
    PROVE  Reads(t)' /\ \A b \in Blocks : view'[t].block[b] = view[t].block[b]
<1>1. Reads(t)  BY Cases
<1>2. view'[t].size = length' /\ \A b \in Blocks : view'[t].block[b] = view[t].block[b]
  BY Cases, TypesOfScans
<1>3. Blocks \subseteq Lockable  BY DEF Lockable
<1> QED  BY <1>1, <1>2, <1>3 DEF Reads

LEMMA PageRead ==
    ASSUME TableInv, NEW t \in Txn, file' = file, length' = length, page[t] # None,
           HaveRead(t),
           \A c \in Lockable : held[t][c] # "none" => held'[t][c] # "none",
           held'[t][page[t]] # "none"
    PROVE  /\ Reads(t)'
           /\ \A b \in Blocks : view'[t].block[b] \in {view[t].block[b], Contents(file, b)}
           /\ view'[t].block[page[t]] = Contents(file, page[t])
           /\ view' \in [Txn -> [block : [Blocks -> [Slots -> Record] \cup {None}],
                                 size : 0..MaxBlocks \cup {None}]]
<1>1. Reads(t) /\ page[t] \in Blocks  BY Cases
<1>2. Contents(file, page[t]) \in [Slots -> Record]
  <2>1. \A s \in Slots : <<page[t], s>> \in Pos  BY <1>1 DEF Pos
  <2>2. file \in [Pos -> Record]  BY Cases, TypesOfScans
  <2> QED  BY <2>1, <2>2 DEF Contents
<1>3. view \in [Txn -> [block : [Blocks -> [Slots -> Record] \cup {None}],
                        size : 0..MaxBlocks \cup {None}]]
  BY Cases, TypesOfScans
<1>4. /\ view'[t].size = view[t].size
      /\ view'[t].block[page[t]] = Contents(file, page[t])
      /\ \A b \in Blocks \ {page[t]} : view'[t].block[b] = view[t].block[b]
  BY <1>1, <1>3 DEF HaveRead
<1>5. Blocks \subseteq Lockable /\ END_OF_FILE \in Lockable  BY DEF Lockable
<1>6. Reads(t)'  BY <1>1, <1>4, <1>5 DEF Reads
<1>7. view' \in [Txn -> [block : [Blocks -> [Slots -> Record] \cup {None}],
                         size : 0..MaxBlocks \cup {None}]]
  BY <1>1, <1>2, <1>3 DEF HaveRead
<1> QED  BY <1>1, <1>4, <1>6, <1>7

NothingPinned(t) == pins[t] = NoPins
PagePinned(t) == page[t] # None /\ pins[t] = [NoPins EXCEPT ![page[t]] = 1]

LEMMA PinCounts ==
    ASSUME TableInv, NEW t \in Txn, PagePinned(t) \/ (page[t] = None /\ NothingPinned(t))
    PROVE  /\ Unpinned(t) = NoPins
           /\ NoPins \in [Blocks -> 0..1]
           /\ \A b \in Blocks : [Unpinned(t) EXCEPT ![b] = @ + 1] = [NoPins EXCEPT ![b] = 1]
           /\ \A b \in Blocks : [NoPins EXCEPT ![b] = 1] \in [Blocks -> 0..1]
<1>1. NoPins = [b \in Blocks |-> 0]  BY DEF NoPins
<1>2. Unpinned(t) = NoPins
  <2>1. CASE PagePinned(t)
    <3>1. page[t] \in Blocks  BY <2>1, Cases DEF PagePinned
    <3>2. Unpinned(t) = [[NoPins EXCEPT ![page[t]] = 1] EXCEPT ![page[t]] = @ - 1]
      BY <2>1 DEF Unpinned, PagePinned
    <3> QED  BY <1>1, <3>1, <3>2
  <2>2. CASE page[t] = None /\ NothingPinned(t)  BY <2>2 DEF Unpinned, NothingPinned
  <2> QED  BY <2>1, <2>2
<1>3. \A b \in Blocks : [NoPins EXCEPT ![b] = @ + 1] = [NoPins EXCEPT ![b] = 1]  BY <1>1
<1> QED  BY <1>1, <1>2, <1>3

(* An exception leaves a transaction without a scan. *)
LEMMA Thrown ==
    ASSUME TypeOK, NEW t \in Txn, Throw(t),
           pins' \in [Txn -> [Blocks -> 0..1]], \A u \in Txn \ {t} : pins'[u] = pins[u],
           view' \in [Txn -> [block : [Blocks -> [Slots -> Record] \cup {None}],
                              size : 0..MaxBlocks \cup {None}]],
           \A u \in Txn \ {t} : view'[u] = view[u], undo' = undo
    PROVE  /\ Orderly(t)' /\ Pinned(t)' /\ Fresh(t)' /\ Complete(t)'
           /\ ScanTypes' /\ OthersStay(t) /\ page'[t] = None /\ call'[t] = "failed"
<1>1. ScanTypes'
  <2>1. -1 \in -1..(NumSlots - 1)  BY Numbers
  <2>2. /\ page' \in [Txn -> Blocks \cup {None}] /\ slot' \in [Txn -> -1..(NumSlots - 1)]
        /\ call' \in [Txn -> Call] /\ at' \in [Txn -> At]
        /\ progress' \in [Txn -> Progress] /\ returned' \in [Txn -> SUBSET Pos]
    BY <2>1, TypesOfScans DEF Throw, NoScan, Goto, Call, At, Progress
  <2> QED  BY <2>2 DEF ScanTypes
<1>2. /\ page'[t] = None /\ slot'[t] = -1 /\ call'[t] = "failed" /\ at'[t] = "start"
      /\ progress'[t] = "lost" /\ returned'[t] = {}
  BY TypesOfScans DEF Throw, NoScan, Goto
<1>3. OthersStay(t)  BY TypesOfScans DEF Throw, NoScan, Goto, OthersStay
<1>4. Orderly(t)'  BY <1>2 DEF Orderly
<1>5. Pinned(t)'  BY <1>2 DEF Pinned, Idle
<1>6. Fresh(t)'  BY <1>2 DEF Fresh
<1>7. Complete(t)'  BY <1>2 DEF Complete
<1> QED  BY <1>1, <1>2, <1>3, <1>4, <1>5, <1>6, <1>7

LEMMA PinThrown ==
    ASSUME TableInv, NEW t \in Txn, NEW b \in Lockable, b = END_OF_FILE \/ b = page[t],
           held' = held \/ Granted(t, b), file' = file, length' = length, undo' = undo,
           PinThrows(t), PagePinned(t) \/ (page[t] = None /\ NothingPinned(t)), Reads(t)',
           view' \in [Txn -> [block : [Blocks -> [Slots -> Record] \cup {None}],
                              size : 0..MaxBlocks \cup {None}]],
           \A u \in Txn \ {t} : view'[u] = view[u]
    PROVE  TableInv'
<1>1. Throw(t) /\ pins' = [pins EXCEPT ![t] = NoPins]  BY PinCounts DEF PinThrows
<1>2. pins' \in [Txn -> [Blocks -> 0..1]] /\ \A u \in Txn \ {t} : pins'[u] = pins[u]
  BY <1>1, Cases, TypesOfScans, PinCounts
<1>3. /\ Orderly(t)' /\ Pinned(t)' /\ Fresh(t)' /\ Complete(t)'
      /\ ScanTypes' /\ OthersStay(t) /\ page'[t] = None /\ call'[t] = "failed"
  BY <1>1, <1>2, Cases, Thrown
<1>4. Sees(t, b)  BY <1>3 DEF Sees
<1> QED  BY <1>3, <1>4, QuietInv

-----------------------------------------------------------------------------
(* The invariant at first, and when nothing happens *)

LEMMA InitTableInv == Init => TableInv
<1> SUFFICES ASSUME Init PROVE TableInv  OBVIOUS
<1>1. held = [t \in Txn |-> [b \in Lockable |-> "none"]]  BY DEF Init, Lock!Init, Lockable
<1>2. undo = [t \in Txn |-> <<>>]  BY DEF Init
<1>3. undo \in Logs /\ \A t \in Txn : undo[t] = <<>> /\ Len(undo[t]) = 0
  <2>1. <<>> \in Seq(SetRecord) /\ Len(<<>>) = 0  OBVIOUS
  <2> QED  BY <1>2, <2>1 DEF Logs
<1>4. WritesAreBounded
  <2>1. Writing = {}  BY DEF Init, Writing
  <2>2. Cardinality(Writing) = 0  BY <2>1, FS_EmptySet
  <2>3. PICK g : /\ Logged(undo, 0) = g[Txn]
                 /\ \A s \in SUBSET Txn : g[s] \in Nat /\ LoggedStep(undo, 0, g, s)
    BY <1>3, LoggedIsFold
  <2> DEFINE Good == {s \in SUBSET Txn : g[s] = 0}
  <2>4. ASSUME NEW s \in SUBSET Txn, \A r \in SUBSET s : r # s => r \in Good
        PROVE  s \in Good
    <3>1. CASE s = {}  BY <2>3, <3>1 DEF LoggedStep
    <3>2. CASE s # {}
      <4>1. PICK x \in s : x = (CHOOSE y \in s : TRUE)  BY <3>2
      <4>2. s \ {x} \in Good  BY <2>4
      <4>3. g[s] = Len(undo[x]) + g[s \ {x}]  BY <2>3, <3>2, <4>1 DEF LoggedStep
      <4>4. Len(undo[x]) = 0 /\ g[s \ {x}] = 0  BY <1>3, <4>2
      <4>5. g[s] = 0 + 0  BY <4>3, <4>4
      <4> QED  BY <4>5
    <3> QED  BY <3>1, <3>2
  <2>5. Txn \in Good
    <3> HIDE DEF Good
    <3>1. SUBSET Txn \subseteq Good  BY <2>4, TableAssumption, SubsetInduction
    <3> QED  BY <3>1
  <2>6. Logged(undo, Cardinality(Writing)) = 0  BY <2>2, <2>3, <2>5
  <2> QED  BY <2>6, Numbers DEF WritesAreBounded
<1>5. TypeOK
  <2>1. file \in [Pos -> Record] /\ length \in 0..MaxBlocks
    <3>1. Zeroed \in Record /\ 0 \in 0..MaxBlocks  BY Numbers
    <3>2. file = [p \in Pos |-> Zeroed] /\ length = 0  BY DEF Init
    <3> QED  BY <3>1, <3>2
  <2>2. Lock!TypeOK  BY <1>1 DEF Lock!TypeOK, Lock!Mode, Lockable
  <2>3. page \in [Txn -> Blocks \cup {None}] /\ slot \in [Txn -> -1..(NumSlots - 1)]
    <3>1. -1 \in -1..(NumSlots - 1)  BY Numbers
    <3> QED  BY <3>1 DEF Init
  <2>4. pins \in [Txn -> [Blocks -> 0..1]]
    <3>1. NoPins \in [Blocks -> 0..1]  BY DEF NoPins
    <3> QED  BY <3>1 DEF Init
  <2>5. call \in [Txn -> Call] /\ at \in [Txn -> At] /\ progress \in [Txn -> Progress]
    BY DEF Init, Call, At, Progress
  <2>6. /\ undo \in [Txn -> Seq(SetRecord)]
        /\ \A t \in Txn : Len(undo[t]) <= MaxWrites
    BY <1>3, Numbers DEF Logs
  <2>7. view \in [Txn -> [block : [Blocks -> [Slots -> Record] \cup {None}],
                          size : 0..MaxBlocks \cup {None}]]
    BY DEF Init, NothingRead
  <2>8. returned \in [Txn -> SUBSET Pos]  BY DEF Init
  <2> QED  BY <2>1, <2>2, <2>3, <2>4, <2>5, <2>6, <2>7, <2>8 DEF TypeOK
<1>6. LocksExclude  BY <1>1 DEF LocksExclude
<1>7. NothingBehindEnd  BY <1>1 DEF Init, NothingBehindEnd, Lockable
<1>8. ASSUME NEW t \in Txn PROVE TxnInv(t)
  <2>1. /\ call[t] = "closed" /\ at[t] = "start" /\ page[t] = None /\ slot[t] = -1
        /\ pins[t] = NoPins /\ view[t] = NothingRead
        /\ progress[t] = "lost" /\ returned[t] = {}
    BY DEF Init
  <2>2. Orderly(t) /\ Pinned(t) /\ Fresh(t)  BY <2>1 DEF Orderly, Pinned, Fresh, Idle
  <2>3. Reads(t)
    <3>0. NothingRead.size = None /\ \A b \in Blocks : NothingRead.block[b] = None
      BY DEF NothingRead
    <3>1. view[t].size = None /\ \A b \in Blocks : view[t].block[b] = None  BY <2>1, <3>0
    <3> QED  BY <3>1 DEF Reads
  <2>6. Seen(t)
    <3>1. \A b \in Blocks : held[t][b] = "none"  BY <1>1 DEF Lockable
    <3> QED  BY <3>1 DEF Seen
  <2>4. Writes(t)
    <3>1. DOMAIN undo[t] = {}  BY <1>3
    <3> QED  BY <3>1 DEF Writes
  <2>5. Complete(t)  BY <2>1 DEF Complete
  <2> QED  BY <2>2, <2>3, <2>4, <2>5, <2>6 DEF TxnInv
<1> QED  BY <1>4, <1>5, <1>6, <1>7, <1>8 DEF TableInv

-----------------------------------------------------------------------------
(* Opening and repositioning a scan *)

LEMMA ToFirstInv ==
    ASSUME TableInv, NEW t \in Txn, ToFirst(t), length > 0,
           PagePinned(t) \/ (page[t] = None /\ NothingPinned(t)),
           held' = held \/ Granted(t, END_OF_FILE),
           \A u \in Txn \ {t} : at[u] = "format" => page[u] # 0,
           file' = file, length' = length, undo' = undo, Reads(t)',
           view' \in [Txn -> [block : [Blocks -> [Slots -> Record] \cup {None}],
                              size : 0..MaxBlocks \cup {None}]],
           \A u \in Txn \ {t} : view'[u] = view[u],
           call[t] \in {"closed", "idle"},
           \A b \in Blocks : view'[t].block[b] = view[t].block[b]
    PROVE  TableInv'
<1>1. TypeOK /\ END_OF_FILE \in Lockable  BY Cases
<1>2. CASE MoveTo(t, 0, -1) /\ Goto(t, "idle", "start")
           /\ progress' = [progress EXCEPT ![t] = "scanning"]
           /\ returned' = [returned EXCEPT ![t] = {}]
  <2>1. 0 \in Blocks /\ -1 \in -1..(NumSlots - 1) /\ 0 # None  BY Numbers
  <2>2. pins' \in [Txn -> [Blocks -> 0..1]] /\ pins'[t] = [NoPins EXCEPT ![0] = 1]
    BY ZenonT(60), <1>1, <1>2, <2>1, TypesOfScans, PinCounts DEF MoveTo
  <2>3. ScanTypes'
    <3>1. /\ page' \in [Txn -> Blocks \cup {None}] /\ slot' \in [Txn -> -1..(NumSlots - 1)]
          /\ call' \in [Txn -> Call] /\ at' \in [Txn -> At]
          /\ progress' \in [Txn -> Progress] /\ returned' \in [Txn -> SUBSET Pos]
      BY <1>1, <1>2, <2>1, TypesOfScans DEF MoveTo, Goto, Call, At, Progress
    <3> QED  BY <2>2, <3>1 DEF ScanTypes
  <2>4. /\ page'[t] = 0 /\ slot'[t] = -1 /\ call'[t] = "idle" /\ at'[t] = "start"
        /\ progress'[t] = "scanning" /\ returned'[t] = {}
    BY <1>1, <1>2, TypesOfScans DEF MoveTo, Goto
  <2>5. OthersStay(t)  BY <1>1, <1>2, TypesOfScans DEF MoveTo, Goto, OthersStay
  <2>6. Orderly(t)'  BY <2>1, <2>4 DEF Orderly
  <2>7. Pinned(t)'  BY <2>1, <2>2, <2>4 DEF Pinned
  <2>8. Fresh(t)'  BY <2>4 DEF Fresh
  <2>9. Complete(t)'
    <3>1. \A p \in Pos : ~(p[1] < 0) /\ ~(p[2] <= -1)  BY Numbers
    <3>2. UpTo(t)' = {}  BY <2>4, <3>1 DEF UpTo
    <3>3. Passed(t)' = {}  BY <2>4, <3>2 DEF Passed
    <3> QED  BY <2>4, <3>3 DEF Complete
  <2>10. Sees(t, END_OF_FILE)
    <3>1. at[t] = "start"  BY Cases DEF Orderly
    <3> QED  BY <3>1 DEF Sees
  <2> QED  BY <1>1, <2>3, <2>4, <2>5, <2>6, <2>7, <2>8, <2>9, <2>10, QuietInv
<1>3. CASE PinThrows(t)  BY <1>1, <1>3, PinThrown
<1> QED  BY <1>2, <1>3 DEF ToFirst

LEMMA BeforeFirstInv ==
    ASSUME TableInv, NEW t \in Txn, BeforeFirst(t)
    PROVE  TableInv'
<1>1. /\ call[t] = "idle" /\ ToFirst(t) /\ file' = file /\ length' = length
      /\ held' = held /\ undo' = undo /\ view' = view
  BY DEF BeforeFirst, Idle
<1>2. PagePinned(t)  BY <1>1, Cases DEF Pinned, PagePinned, Idle
<1>3. page[t] \in Nat /\ page[t] < length /\ length \in Nat
  BY <1>2, Cases, TypesOfScans, Numbers DEF PagePinned
<1>4. length > 0  BY <1>3
<1>5. ASSUME NEW u \in Txn \ {t}, at[u] = "format" PROVE page[u] # 0
  <2>1. page[u] = length - 1 /\ page[t] # page[u]  BY <1>5, Cases DEF Fresh
  <2> QED  BY <1>3, <2>1
<1>6. Reads(t)'  BY <1>1, Cases, LockStep
<1>7. view' \in [Txn -> [block : [Blocks -> [Slots -> Record] \cup {None}],
                         size : 0..MaxBlocks \cup {None}]]
  BY <1>1, Cases, TypesOfScans
<1> QED  BY <1>1, <1>2, <1>4, <1>5, <1>6, <1>7, ToFirstInv

LEMMA OpenInv ==
    ASSUME TableInv, NEW t \in Txn, Open(t)
    PROVE  TableInv'
<1>1. /\ call[t] = "closed" /\ SharedLock(t, END_OF_FILE)
      /\ view' = [view EXCEPT ![t].size = length]
      /\ file' = file /\ length' = length /\ undo' = undo
  BY DEF Open
<1>2. Granted(t, END_OF_FILE)  BY <1>1, Cases, ShareGranted
<1>3. page[t] = None /\ slot[t] = -1 /\ NothingPinned(t) /\ END_OF_FILE \in Lockable
  BY <1>1, Cases DEF Orderly, Pinned, NothingPinned
<1>4. length \in Nat  BY Cases, TypesOfScans
<1>5. Reads(t)' /\ \A b \in Blocks : view'[t].block[b] = view[t].block[b]
  <2>1. \A c \in Lockable : held[t][c] # "none" => held'[t][c] # "none"
    BY <1>1, <1>2, <1>3, LockStep
  <2> QED  BY <1>1, <1>2, <1>4, <2>1, SizeRead DEF Granted
<1>6. /\ view' \in [Txn -> [block : [Blocks -> [Slots -> Record] \cup {None}],
                            size : 0..MaxBlocks \cup {None}]]
      /\ \A u \in Txn \ {t} : view'[u] = view[u]
  BY <1>1, Cases, TypesOfScans
<1>7. CASE length = 0 /\ Goto(t, "TableScan", "append") /\ UNCHANGED <<scan, progress, returned>>
  <2>1. page' = page /\ slot' = slot /\ pins' = pins /\ progress' = progress /\ returned' = returned
    BY <1>7 DEF scan
  <2>2. call'[t] = "TableScan" /\ at'[t] = "append"  BY <1>7, Cases, TypesOfScans DEF Goto
  <2>3. ScanTypes'
    <3>1. call' \in [Txn -> Call] /\ at' \in [Txn -> At]
      BY <1>7, Cases, TypesOfScans DEF Goto, Call, At
    <3> QED  BY <1>6, <2>1, <3>1, Cases, TypesOfScans DEF ScanTypes
  <2>4. OthersStay(t)
    BY <1>1, <1>6, <1>7, <2>1, Cases, TypesOfScans DEF Goto, OthersStay
  <2>5. Orderly(t)'
    BY <1>1, <1>2, <1>3, <1>7, <2>1, <2>2 DEF Orderly, NothingPinned, Granted
  <2>6. Pinned(t)' /\ Fresh(t)'  BY <2>2 DEF Pinned, Idle, Fresh
  <2>7. Complete(t)'
    <3>1. progress[t] = "lost" /\ returned[t] = {}  BY <1>1, Cases DEF Complete
    <3> QED  BY <2>1, <3>1 DEF Complete
  <2>8. Sees(t, END_OF_FILE)
    <3>1. at[t] = "start"  BY <1>1, Cases DEF Orderly
    <3> QED  BY <1>1, <1>5, <3>1 DEF Sees
  <2> QED
    BY <1>1, <1>2, <1>3, <1>5, <2>1, <2>2, <2>3, <2>4, <2>5, <2>6, <2>7, <2>8, QuietInv
<1>8. CASE length > 0 /\ ToFirst(t)
  <2>1. ASSUME NEW u \in Txn \ {t}, at[u] = "format" PROVE page[u] # 0
    <3>1. held[u][END_OF_FILE] = "exclusive"  BY <2>1, Cases DEF Fresh
    <3> QED  BY <1>2, <3>1 DEF Granted
  <2> QED  BY <1>1, <1>2, <1>3, <1>5, <1>6, <1>8, <2>1, ToFirstInv
<1> QED  BY <1>7, <1>8 DEF Open

-----------------------------------------------------------------------------
(* Next and Insert *)

ViewType ==
    view \in [Txn -> [block : [Blocks -> [Slots -> Record] \cup {None}],
                      size : 0..MaxBlocks \cup {None}]]

LEMMA SearchStep ==
    ASSUME TableInv, NEW t \in Txn, NEW c \in {"Next", "Insert"},
           NEW flag \in {"EMPTY", "USED"}, Search(t, c, flag)
    PROVE  /\ page[t] # None /\ page[t] \in Blocks /\ page[t] < length /\ PagePinned(t)
           /\ at[t] \in {"start", "search"}
           /\ held' = held \/ Granted(t, page[t])
           /\ Reads(t)' /\ ViewType'
           /\ Sees(t, page[t])
           /\ file' = file /\ length' = length /\ page' = page /\ pins' = pins /\ undo' = undo
           /\ slot' \in [Txn -> -1..(NumSlots - 1)] /\ call' \in [Txn -> Call] /\ at' \in [Txn -> At]
           /\ \A u \in Txn \ {t} : /\ view'[u] = view[u] /\ slot'[u] = slot[u]
                                   /\ call'[u] = call[u] /\ at'[u] = at[u]
           /\ slot'[t] = -1 => call'[t] = c /\ at'[t] = "last"
           /\ slot'[t] # -1 =>
                 /\ slot'[t] \in Slots /\ slot'[t] > slot[t]
                 /\ file[<<page[t], slot'[t]>>].flag = flag
                 /\ held'[t][page[t]] # "none"
                 /\ c = "Next" => call'[t] = "idle" /\ at'[t] = "start"
                 /\ c = "Insert" => call'[t] = "Insert" /\ at'[t] = "flag"
           /\ \A s \in Slots : s > slot[t] /\ (slot'[t] = -1 \/ s < slot'[t]) =>
                 file[<<page[t], s>>].flag # flag
           /\ held'[t][page[t]] # "none" \/ slot[t] = NumSlots - 1
<1> DEFINE rest == (slot[t] + 1)..(NumSlots - 1)
           found == {s \in rest : file[<<page[t], s>>].flag = flag}
<1>1. TypeOK  BY Cases
<1>2. /\ Starts(t, c) /\ file' = file /\ length' = length /\ page' = page /\ pins' = pins
      /\ undo' = undo
      /\ IF rest = {} THEN UNCHANGED <<held, view>> ELSE SharedLock(t, page[t]) /\ HaveRead(t)
      /\ \/ found = {} /\ slot' = [slot EXCEPT ![t] = -1] /\ Goto(t, c, "last")
         \/ /\ found # {} /\ slot' = [slot EXCEPT ![t] = Min(found)]
            /\ IF c = "Next" THEN Goto(t, "idle", "start") ELSE Goto(t, c, "flag")
  BY DEF Search
<1>3. /\ page[t] # None /\ page[t] \in Blocks /\ page[t] < length /\ PagePinned(t)
      /\ at[t] \in {"start", "search"} /\ page[t] \in Lockable
  BY <1>2, Cases DEF Starts, Idle, In, Pinned, PagePinned, Orderly
<1>9. call[t] # "failed"  BY <1>2 DEF Starts, Idle, In
<1>4. /\ slot[t] \in Int /\ slot[t] >= -1 /\ slot[t] <= NumSlots - 1
      /\ NumSlots \in Nat /\ NumSlots > 0
  BY <1>1, TypesOfScans, Numbers
<1>5. /\ rest \subseteq Slots /\ \A s \in Slots : s \in rest <=> s > slot[t]
      /\ \A s \in Slots : s \in Nat /\ s \in -1..(NumSlots - 1) /\ s # -1
      /\ rest = {} => slot[t] = NumSlots - 1
  BY <1>4 DEF Slots
<1>6. found # {} => /\ Min(found) \in found /\ \A s \in found : Min(found) <= s
  <2>1. found \subseteq 0..NumSlots  BY <1>5, <1>4 DEF Slots
  <2> QED  BY <1>4, <2>1, FirstPosition
<1>7. CASE rest = {}
  <2>1. held' = held /\ view' = view /\ found = {}  BY <1>2, <1>7
  <2>2. Reads(t)'  BY <1>2, <1>3, <2>1, LockStep
  <2>3. ViewType'  BY <1>1, <2>1, TypesOfScans DEF ViewType
  <2>4. /\ slot' = [slot EXCEPT ![t] = -1] /\ Goto(t, c, "last")  BY <1>2, <2>1
  <2>5. /\ slot' \in [Txn -> -1..(NumSlots - 1)] /\ call' \in [Txn -> Call] /\ at' \in [Txn -> At]
        /\ slot'[t] = -1 /\ call'[t] = c /\ at'[t] = "last"
        /\ \A u \in Txn \ {t} : slot'[u] = slot[u] /\ call'[u] = call[u] /\ at'[u] = at[u]
    <3>1. -1 \in -1..(NumSlots - 1)  BY <1>4
    <3> QED  BY <1>1, <2>4, <3>1, TypesOfScans DEF Goto, Call, At
  <2>6. \A s \in Slots : ~(s > slot[t])  BY <1>5, <1>7
  <2>7. Sees(t, page[t])  BY <1>3, <1>9, <2>1 DEF Sees
  <2> QED  BY <1>2, <1>3, <1>5, <1>7, <2>1, <2>2, <2>3, <2>5, <2>6, <2>7
<1>8. CASE rest # {}
  <2>1. SharedLock(t, page[t]) /\ HaveRead(t)  BY <1>2, <1>8
  <2>2. Granted(t, page[t])  BY <1>3, <2>1, Cases, ShareGranted
  <2>3. held'[t][page[t]] # "none"  BY <2>2 DEF Granted
  <2>4. \A b \in Lockable : held[t][b] # "none" => held'[t][b] # "none"
    BY <1>2, <1>3, <2>2, LockStep
  <2>5. /\ Reads(t)' /\ ViewType'
        /\ \A b \in Blocks : view'[t].block[b] \in {view[t].block[b], Contents(file, b)}
        /\ view'[t].block[page[t]] = Contents(file, page[t])
    BY <1>2, <1>3, <2>1, <2>3, <2>4, PageRead DEF ViewType
  <2>9. Sees(t, page[t])  BY <1>3, <1>9, <2>5 DEF Sees
  <2>6. \A u \in Txn \ {t} : view'[u] = view[u]  BY <1>1, <2>1, TypesOfScans DEF HaveRead
  <2>7. CASE found = {}
    <3>1. /\ slot' = [slot EXCEPT ![t] = -1] /\ Goto(t, c, "last")  BY <1>2, <2>7
    <3>2. /\ slot' \in [Txn -> -1..(NumSlots - 1)] /\ call' \in [Txn -> Call] /\ at' \in [Txn -> At]
          /\ slot'[t] = -1 /\ call'[t] = c /\ at'[t] = "last"
          /\ \A u \in Txn \ {t} : slot'[u] = slot[u] /\ call'[u] = call[u] /\ at'[u] = at[u]
      <4>1. -1 \in -1..(NumSlots - 1)  BY <1>4
      <4> QED  BY <1>1, <3>1, <4>1, TypesOfScans DEF Goto, Call, At
    <3>3. \A s \in Slots : s > slot[t] => file[<<page[t], s>>].flag # flag
      BY <1>5, <2>7
    <3> QED  BY <1>2, <1>3, <2>2, <2>3, <2>5, <2>6, <2>9, <3>2, <3>3
  <2>8. CASE found # {}
    <3>1. PICK m \in Slots : m = Min(found) /\ m \in found /\ \A s \in found : m <= s
      BY <1>5, <1>6, <2>8
    <3>2. m \in -1..(NumSlots - 1) /\ m # -1 /\ m > slot[t] /\ file[<<page[t], m>>].flag = flag
      BY <1>5, <3>1
    <3>3. PICK d \in {"idle", "Insert"}, a \in {"start", "flag"} :
             /\ Goto(t, d, a)
             /\ c = "Next" => d = "idle" /\ a = "start"
             /\ c = "Insert" => d = "Insert" /\ a = "flag"
      BY <1>2, <2>8
    <3>4. slot' = [slot EXCEPT ![t] = m]  BY <1>2, <2>8, <3>1
    <3>5. /\ slot' \in [Txn -> -1..(NumSlots - 1)] /\ call' \in [Txn -> Call] /\ at' \in [Txn -> At]
          /\ slot'[t] = m /\ call'[t] = d /\ at'[t] = a
          /\ \A u \in Txn \ {t} : slot'[u] = slot[u] /\ call'[u] = call[u] /\ at'[u] = at[u]
      BY <1>1, <3>2, <3>3, <3>4, TypesOfScans DEF Goto, Call, At
    <3>6. ASSUME NEW s \in Slots, s > slot[t], s < m PROVE file[<<page[t], s>>].flag # flag
      <4>1. s \in rest /\ s \in Nat /\ m \in Nat  BY <1>5, <3>6
      <4>2. ~(m <= s)  BY <3>6, <4>1
      <4>3. s \notin found  BY <3>1, <4>2
      <4> QED  BY <4>1, <4>3
    <3>7. slot'[t] # -1  BY <3>2, <3>5
    <3> HIDE DEF found, rest
    <3> QED  BY <1>2, <1>3, <2>2, <2>3, <2>5, <2>6, <2>9, <3>2, <3>3, <3>5, <3>6, <3>7
  <2> QED  BY <2>7, <2>8
<1> QED  BY <1>7, <1>8

LEMMA NextSearchesInv ==
    ASSUME TableInv, NEW t \in Txn, NextSearches(t)
    PROVE  TableInv'
<1>1. Search(t, "Next", "USED")  BY DEF NextSearches
<1>2. /\ page[t] # None /\ page[t] \in Blocks /\ page[t] < length /\ PagePinned(t)
      /\ at[t] \in {"start", "search"}
      /\ held' = held \/ Granted(t, page[t])
      /\ Reads(t)' /\ ViewType' /\ Sees(t, page[t])
      /\ file' = file /\ length' = length /\ page' = page /\ pins' = pins /\ undo' = undo
      /\ slot' \in [Txn -> -1..(NumSlots - 1)] /\ call' \in [Txn -> Call] /\ at' \in [Txn -> At]
      /\ \A u \in Txn \ {t} : /\ view'[u] = view[u] /\ slot'[u] = slot[u]
                              /\ call'[u] = call[u] /\ at'[u] = at[u]
      /\ slot'[t] = -1 => call'[t] = "Next" /\ at'[t] = "last"
      /\ slot'[t] # -1 =>
            /\ slot'[t] \in Slots /\ slot'[t] > slot[t]
            /\ file[<<page[t], slot'[t]>>].flag = "USED" /\ held'[t][page[t]] # "none"
            /\ call'[t] = "idle" /\ at'[t] = "start"
      /\ \A s \in Slots : s > slot[t] /\ (slot'[t] = -1 \/ s < slot'[t]) =>
            file[<<page[t], s>>].flag # "USED"
      /\ held'[t][page[t]] # "none" \/ slot[t] = NumSlots - 1
  BY <1>1, SearchStep
<1>3. /\ progress' = [progress EXCEPT ![t] = ProgressOfNext(t)]
      /\ returned' = [returned EXCEPT ![t] =
            IF progress'[t] = "lost" THEN {}
            ELSE IF call'[t] = "idle" THEN returned[t] \cup {<<page[t], slot'[t]>>}
            ELSE returned[t]]
  BY DEF NextSearches
<1>4. TypeOK /\ page[t] \in Lockable  BY <1>2, Cases
<1>5. /\ progress' \in [Txn -> Progress] /\ progress'[t] = ProgressOfNext(t)
      /\ \A u \in Txn \ {t} : progress'[u] = progress[u]
  BY <1>3, <1>4, TypesOfScans DEF ProgressOfNext, Progress
<1>6. /\ returned' \in [Txn -> SUBSET Pos]
      /\ progress'[t] = "lost" => returned'[t] = {}
      /\ progress'[t] # "lost" /\ slot'[t] = -1 => returned'[t] = returned[t]
      /\ progress'[t] # "lost" /\ slot'[t] # -1 =>
            returned'[t] = returned[t] \cup {<<page[t], slot'[t]>>}
      /\ \A u \in Txn \ {t} : returned'[u] = returned[u]
  <2>1. slot'[t] # -1 => <<page[t], slot'[t]>> \in Pos  BY <1>2 DEF Pos
  <2> QED  BY <1>2, <1>3, <1>4, <2>1, TypesOfScans
<1>7. ScanTypes'
  BY <1>2, <1>4, <1>5, <1>6, TypesOfScans DEF ScanTypes, ViewType
<1>8. OthersStay(t)  BY <1>2, <1>5, <1>6 DEF OthersStay
<1>9. slot'[t] = -1 \/ slot'[t] \in Slots  BY <1>2
<1>10. Orderly(t)'  BY <1>2, <1>9, Numbers DEF Orderly
<1>11. Pinned(t)'  BY <1>2 DEF Pinned, PagePinned
<1>12. Fresh(t)'  BY <1>2 DEF Fresh
<1>13. Complete(t)'
  <2>1. CASE progress'[t] = "lost"  BY <1>6, <2>1 DEF Complete
  <2>2. CASE progress'[t] # "lost"
    <3>1. progress[t] # "lost" /\ progress[t] # "done" /\ progress'[t] # "done"
      BY <1>5, <2>2 DEF ProgressOfNext
    <3>2. Passed(t) = UpTo(t)
      <4>1. ~(progress[t] = "done" \/ at[t] = "last")  BY <1>2, <3>1
      <4> QED  BY <4>1 DEF Passed
    <3>3. /\ returned[t] = {p \in UpTo(t) : file[p].flag = "USED"}
          /\ \A p \in UpTo(t) : held[t][p[1]] # "none"
      BY <3>1, <3>2, Cases DEF Complete
    <3>4. \A b \in Lockable : held[t][b] # "none" => held'[t][b] # "none"
      BY <1>2, <1>4, LockStep
    <3>5. \A p \in UpTo(t) : held'[t][p[1]] # "none"
      BY <3>3, <3>4, Numbers DEF UpTo, Lockable
    <3>6. call'[t] \in {"idle", "Next"}  BY <1>2
    <3>7. \A p \in Pos : p = <<p[1], p[2]>> /\ p[1] \in Nat /\ p[2] \in Slots /\ p[2] \in Nat
                         /\ p[2] < NumSlots
      BY Numbers
    <3>8. page[t] \in Nat /\ slot[t] \in Int /\ NumSlots \in Nat
      BY <1>2, <1>4, TypesOfScans, Numbers
    <3>9. CASE slot'[t] = -1
      <4>1. Passed(t)' = {p \in Pos : p[1] <= page[t]}  BY <1>2, <3>9 DEF Passed
      <4>2. ASSUME NEW p \in Pos, p[1] <= page[t], p \notin UpTo(t)
            PROVE  file[p].flag # "USED" /\ held'[t][p[1]] # "none"
        <5>1. p[1] = page[t] /\ p[2] > slot[t]  BY <3>7, <3>8, <4>2 DEF UpTo
        <5>2. slot[t] # NumSlots - 1  BY <3>7, <3>8, <5>1
        <5>3. p = <<page[t], p[2]>>  BY <3>7, <5>1
        <5> QED  BY <1>2, <3>7, <3>9, <5>1, <5>2, <5>3
      <4>3. UpTo(t) \subseteq {p \in Pos : p[1] <= page[t]}  BY <3>7, <3>8 DEF UpTo
      <4>4. returned'[t] = {p \in Passed(t)' : file'[p].flag = "USED"}
        BY <1>2, <1>6, <2>2, <3>3, <3>9, <4>1, <4>2, <4>3
      <4>5. \A p \in Passed(t)' : held'[t][p[1]] # "none"  BY <3>5, <4>1, <4>2
      <4> QED  BY <2>2, <3>1, <3>6, <4>4, <4>5 DEF Complete
    <3>10. CASE slot'[t] # -1
      <4>1. PICK m \in Slots : m = slot'[t] /\ m > slot[t] /\ m \in Nat  BY <1>2, <3>10, Numbers
      <4>2. Passed(t)' = {p \in Pos : p[1] < page[t] \/ (p[1] = page[t] /\ p[2] <= m)}
        BY <1>2, <3>1, <3>10, <4>1 DEF Passed, UpTo
      <4>3. PICK q \in Pos : q = <<page[t], m>>  BY <1>2 DEF Pos
      <4>4. file[q].flag = "USED" /\ q \in Passed(t)'  BY <1>2, <3>10, <4>1, <4>2, <4>3
      <4>5. UpTo(t) \subseteq Passed(t)'  BY <3>7, <3>8, <4>1, <4>2 DEF UpTo
      <4>6. ASSUME NEW p \in Passed(t)', p \notin UpTo(t), p # q
            PROVE  file[p].flag # "USED"
        <5>1. p \in Pos /\ p[1] = page[t] /\ p[2] > slot[t] /\ p[2] <= m
          BY <3>7, <3>8, <4>2, <4>6 DEF UpTo
        <5>2. p = <<page[t], p[2]>>  BY <3>7, <5>1
        <5>3. p[2] < m  BY <3>7, <4>1, <4>3, <4>6, <5>1, <5>2
        <5> QED  BY <1>2, <3>7, <4>1, <5>1, <5>2, <5>3
      <4>7. \A p \in Passed(t)' : held'[t][p[1]] # "none"
        BY <1>2, <3>5, <3>7, <3>10, <4>2 DEF UpTo
      <4>8. returned'[t] = {p \in Passed(t)' : file'[p].flag = "USED"}
        <5>1. returned'[t] = {p \in UpTo(t) : file[p].flag = "USED"} \cup {q}
          BY <1>6, <2>2, <3>3, <3>10, <4>1, <4>3
        <5> QED  BY <1>2, <4>4, <4>5, <4>6, <5>1
      <4> QED  BY <2>2, <3>1, <3>6, <4>7, <4>8 DEF Complete
    <3> QED  BY <3>9, <3>10
  <2> QED  BY <2>1, <2>2
<1> QED  BY <1>2, <1>4, <1>7, <1>8, <1>10, <1>11, <1>12, <1>13, QuietInv

LEMMA InsertSearchesInv ==
    ASSUME TableInv, NEW t \in Txn, InsertSearches(t)
    PROVE  TableInv'
<1>1. Search(t, "Insert", "EMPTY") /\ MayWrite(t)  BY DEF InsertSearches
<1>2. /\ page[t] # None /\ page[t] \in Blocks /\ page[t] < length /\ PagePinned(t)
      /\ held' = held \/ Granted(t, page[t])
      /\ Reads(t)' /\ ViewType' /\ Sees(t, page[t])
      /\ file' = file /\ length' = length /\ page' = page /\ pins' = pins /\ undo' = undo
      /\ slot' \in [Txn -> -1..(NumSlots - 1)] /\ call' \in [Txn -> Call] /\ at' \in [Txn -> At]
      /\ \A u \in Txn \ {t} : /\ view'[u] = view[u] /\ slot'[u] = slot[u]
                              /\ call'[u] = call[u] /\ at'[u] = at[u]
      /\ slot'[t] = -1 => call'[t] = "Insert" /\ at'[t] = "last"
      /\ slot'[t] # -1 =>
            /\ slot'[t] \in Slots /\ held'[t][page[t]] # "none"
            /\ call'[t] = "Insert" /\ at'[t] = "flag"
  BY <1>1, SearchStep
<1>3. TypeOK /\ page[t] \in Lockable  BY <1>2, Cases
<1>4. /\ progress' \in [Txn -> Progress] /\ returned' \in [Txn -> SUBSET Pos]
      /\ progress'[t] = "lost" /\ returned'[t] = {}
      /\ \A u \in Txn \ {t} : progress'[u] = progress[u] /\ returned'[u] = returned[u]
  BY <1>3, TypesOfScans DEF InsertSearches, Progress
<1>5. ScanTypes'  BY <1>2, <1>3, <1>4, TypesOfScans DEF ScanTypes, ViewType
<1>6. OthersStay(t)  BY <1>2, <1>4 DEF OthersStay
<1>7. call'[t] = "Insert" /\ at'[t] \in {"last", "flag"}  BY <1>2
<1>8. slot'[t] = -1 \/ (slot'[t] \in Slots /\ slot'[t] >= 0)  BY <1>2, Numbers
<1>9. Orderly(t)'  BY <1>2, <1>7, <1>8 DEF Orderly
<1>10. Pinned(t)'  BY <1>2, <1>7 DEF Pinned, PagePinned
<1>11. Fresh(t)'  BY <1>7 DEF Fresh
<1>12. Complete(t)'  BY <1>4 DEF Complete
<1>13. WritesAreBounded'
  <2>1. Writing' = (Writing \ {t}) \cup {t}  BY <1>2, <1>7 DEF Writing
  <2>2. IsFiniteSet(Writing \ {t})
    <3>1. Writing \ {t} \subseteq Txn  BY DEF Writing
    <3> QED  BY <3>1, TableAssumption, FS_Subset
  <2>3. PICK m \in Nat : m = Cardinality(Writing \ {t})  BY <2>2, FS_CardinalityType
  <2>4. Cardinality(Writing') = m + 1  BY <2>1, <2>2, <2>3, FS_AddElement
  <2>5. Logged(undo, m) < MaxWrites
    <3>1. Logged(undo, Cardinality(Writing \ {t})) < MaxWrites  BY <1>1 DEF MayWrite, Logged, FoldFunction, FoldFunctionOnSet, MapThenFoldSet
    <3> QED  BY <2>3, <3>1
  <2>6. PICK log \in Logs : log = undo  BY <1>3, TypesOfScans DEF Logs
  <2>7. PICK k \in Nat : k = Len(log[t])  BY DEF Logs
  <2>8. m + 1 \in Nat  BY <2>3
  <2>9. /\ Logged(log, m) \in Nat /\ Logged(log, m + 1) \in Nat
        /\ Logged(log, m + 1) - (m + 1) - k = Logged(log, m) - m - k
    BY SMTT(60), <2>7, <2>8, LoggedChanges
  <2>10. Logged(log, m + 1) <= MaxWrites  BY <2>5, <2>6, <2>9, Numbers
  <2> QED  BY <1>2, <2>4, <2>6, <2>10 DEF WritesAreBounded
<1> QED
  BY <1>2, <1>3, <1>5, <1>6, <1>9, <1>10, <1>11, <1>12, <1>13, QuietInv

LEMMA LastBlockStep ==
    ASSUME TableInv, NEW t \in Txn, AtLastBlock(t), file' = file, length' = length
    PROVE  /\ Granted(t, END_OF_FILE) /\ held'[t][END_OF_FILE] # "none"
           /\ Reads(t)' /\ ViewType' /\ \A u \in Txn \ {t} : view'[u] = view[u]
           /\ \A b \in Blocks : view'[t].block[b] = view[t].block[b]
           /\ \A u \in Txn \ {t} : at[u] # "format"
           /\ \A c \in Lockable : held[t][c] # "none" => held'[t][c] # "none"
<1>1. SharedLock(t, END_OF_FILE) /\ view' = [view EXCEPT ![t].size = length']
  BY DEF AtLastBlock
<1>2. Granted(t, END_OF_FILE)  BY <1>1, Cases, ShareGranted
<1>3. held'[t][END_OF_FILE] # "none"  BY <1>2 DEF Granted
<1>4. \A c \in Lockable : held[t][c] # "none" => held'[t][c] # "none"
  BY <1>2, Cases, LockStep
<1>5. Reads(t)' /\ \A b \in Blocks : view'[t].block[b] = view[t].block[b]
  <2>1. length' \in Nat  BY Cases, TypesOfScans
  <2> QED  BY <1>1, <1>3, <1>4, <2>1, SizeRead
<1>6. ViewType' /\ \A u \in Txn \ {t} : view'[u] = view[u]
  <2>1. length \in 0..MaxBlocks  BY Cases, TypesOfScans
  <2> QED  BY <1>1, <2>1, Cases, TypesOfScans DEF ViewType
<1>7. ASSUME NEW u \in Txn \ {t}, at[u] = "format" PROVE FALSE
  <2>1. held[u][END_OF_FILE] = "exclusive"  BY <1>7, Cases DEF Fresh
  <2> QED  BY <1>2, <2>1 DEF Granted
<1> QED  BY <1>2, <1>3, <1>4, <1>5, <1>6, <1>7

LEMMA MoveOnInv ==
    ASSUME TableInv, NEW t \in Txn, NEW c \in {"Next", "Insert"}, In(t, c, "last"),
           AtLastBlock(t), page[t] # length - 1, MoveOn(t, c),
           file' = file, length' = length, undo' = undo
    PROVE  TableInv'
<1>1. TypeOK /\ END_OF_FILE \in Lockable  BY Cases
<1>2. call[t] = c /\ at[t] = "last"  BY DEF In
<1>3. PagePinned(t)  BY <1>2, Cases DEF Pinned, PagePinned
<1>4. /\ Granted(t, END_OF_FILE)
      /\ Reads(t)' /\ ViewType' /\ \A u \in Txn \ {t} : view'[u] = view[u]
      /\ \A u \in Txn \ {t} : at[u] # "format"
      /\ \A b \in Blocks : view'[t].block[b] = view[t].block[b]
      /\ \A b \in Lockable : held[t][b] # "none" => held'[t][b] # "none"
  BY LastBlockStep
<1>5. PICK b \in Blocks : b = page[t]  BY <1>3, Cases DEF PagePinned
<1>6. b \in Nat /\ length \in Nat /\ b < length /\ length <= MaxBlocks /\ MaxBlocks \in Nat
  <2>1. b \in Nat /\ b # None  BY <1>5, Numbers
  <2>2. b < length  BY <1>5, <2>1, Cases
  <2> QED  BY <1>1, <2>1, <2>2, TypesOfScans, Numbers
<1>7. b + 1 \in Blocks /\ b + 1 < length /\ b + 1 # None
  <2>1. b + 1 < length  BY <1>5, <1>6
  <2>2. b + 1 \in Blocks  BY <1>6, <2>1 DEF Blocks
  <2> QED  BY <2>1, <2>2, Numbers
<1>8. CASE MoveTo(t, page[t] + 1, -1) /\ Goto(t, c, "search") /\ UNCHANGED <<progress, returned>>
  <2>1. MoveTo(t, b + 1, -1)  BY <1>5, <1>8
  <2>2. pins' \in [Txn -> [Blocks -> 0..1]] /\ pins'[t] = [NoPins EXCEPT ![b + 1] = 1]
        /\ \A u \in Txn \ {t} : pins'[u] = pins[u]
    BY <1>1, <1>3, <1>7, <2>1, TypesOfScans, PinCounts DEF MoveTo
  <2>3. /\ page' \in [Txn -> Blocks \cup {None}] /\ slot' \in [Txn -> -1..(NumSlots - 1)]
        /\ page'[t] = b + 1 /\ slot'[t] = -1
        /\ \A u \in Txn \ {t} : page'[u] = page[u] /\ slot'[u] = slot[u]
    <3>1. -1 \in -1..(NumSlots - 1)  BY Numbers
    <3> QED  BY <1>1, <1>7, <2>1, <3>1, TypesOfScans DEF MoveTo
  <2>4. /\ call' \in [Txn -> Call] /\ at' \in [Txn -> At]
        /\ call'[t] = c /\ at'[t] = "search"
        /\ \A u \in Txn \ {t} : call'[u] = call[u] /\ at'[u] = at[u]
    BY <1>1, <1>8, TypesOfScans DEF Goto, Call, At
  <2>5. progress' = progress /\ returned' = returned  BY <1>8
  <2>6. ScanTypes'
    BY <1>1, <1>4, <2>2, <2>3, <2>4, <2>5, TypesOfScans DEF ScanTypes, ViewType
  <2>7. OthersStay(t)  BY <1>4, <2>2, <2>3, <2>4, <2>5 DEF OthersStay
  <2>8. Orderly(t)'  BY <1>7, <2>3, <2>4 DEF Orderly
  <2>9. Pinned(t)'  BY <1>7, <2>2, <2>3, <2>4 DEF Pinned
  <2>10. Fresh(t)'  BY <2>4 DEF Fresh
  <2>11. Complete(t)'
    <3>1. CASE progress[t] = "lost"  BY <2>5, <3>1, Cases DEF Complete
    <3>2. CASE progress[t] # "lost"
      <4>1. /\ call[t] = "Next" /\ progress[t] # "done"
            /\ returned[t] = {p \in Passed(t) : file[p].flag = "USED"}
            /\ \A p \in Passed(t) : held[t][p[1]] # "none"
        BY <1>2, <3>2, Cases DEF Complete, Idle
      <4>2. Passed(t) = {p \in Pos : p[1] <= b}  BY <1>2, <1>5 DEF Passed
      <4>3. Passed(t)' = {p \in Pos : p[1] < b + 1 \/ (p[1] = b + 1 /\ p[2] <= -1)}
        BY <2>3, <2>4, <2>5, <4>1 DEF Passed, UpTo
      <4>4. \A p \in Pos : p[1] \in Nat /\ p[1] \in Lockable /\ p[2] \in Nat
        BY Numbers DEF Lockable
      <4>5. Passed(t)' = Passed(t)  BY <1>6, <4>2, <4>3, <4>4
      <4>6. \A p \in Passed(t)' : held'[t][p[1]] # "none"
        BY <1>4, <4>1, <4>2, <4>4, <4>5
      <4> QED  BY <1>2, <2>4, <2>5, <3>2, <4>1, <4>5, <4>6 DEF Complete
    <3> QED  BY <3>1, <3>2
  <2>12. Sees(t, END_OF_FILE)  BY <1>2, <1>4 DEF Sees
  <2> QED
    BY <1>1, <1>2, <1>4, <2>4, <2>6, <2>7, <2>8, <2>9, <2>10, <2>11, <2>12, QuietInv
<1>9. CASE PinThrows(t)  BY <1>1, <1>3, <1>4, <1>9, PinThrown DEF ViewType
<1> QED  BY <1>8, <1>9 DEF MoveOn

LEMMA NextAtLastBlockInv ==
    ASSUME TableInv, NEW t \in Txn, NextAtLastBlock(t)
    PROVE  TableInv'
<1>1. /\ In(t, "Next", "last") /\ AtLastBlock(t)
      /\ file' = file /\ length' = length /\ undo' = undo
  BY DEF NextAtLastBlock
<1>2. CASE /\ page[t] = length - 1 /\ Goto(t, "idle", "start")
           /\ progress' = [progress EXCEPT ![t] = IF progress[t] = "scanning" THEN "done"
                                                  ELSE progress[t]]
           /\ UNCHANGED <<scan, returned>>
  <2>1. TypeOK /\ END_OF_FILE \in Lockable  BY Cases
  <2>2. call[t] = "Next" /\ at[t] = "last"  BY <1>1 DEF In
  <2>3. PagePinned(t) /\ slot[t] = -1 /\ page[t] < length
    BY <2>2, Cases DEF Pinned, PagePinned, Orderly
  <2>4. /\ Granted(t, END_OF_FILE) /\ held'[t][END_OF_FILE] # "none"
        /\ Reads(t)' /\ ViewType' /\ \A u \in Txn \ {t} : view'[u] = view[u]
        /\ \A b \in Blocks : view'[t].block[b] = view[t].block[b]
        /\ \A b \in Lockable : held[t][b] # "none" => held'[t][b] # "none"
    BY <1>1, LastBlockStep
  <2>5. page' = page /\ slot' = slot /\ pins' = pins /\ returned' = returned
    BY <1>2 DEF scan
  <2>6. /\ call' \in [Txn -> Call] /\ at' \in [Txn -> At] /\ progress' \in [Txn -> Progress]
        /\ call'[t] = "idle" /\ at'[t] = "start"
        /\ progress'[t] = IF progress[t] = "scanning" THEN "done" ELSE progress[t]
        /\ \A u \in Txn \ {t} :
              call'[u] = call[u] /\ at'[u] = at[u] /\ progress'[u] = progress[u]
    BY <1>2, <2>1, TypesOfScans DEF Goto, Call, At, Progress
  <2>7. ScanTypes'  BY <2>1, <2>4, <2>5, <2>6, TypesOfScans DEF ScanTypes, ViewType
  <2>8. OthersStay(t)  BY <1>1, <2>4, <2>5, <2>6 DEF OthersStay
  <2>9. Orderly(t)'  BY <1>1, <2>3, <2>5, <2>6 DEF Orderly
  <2>10. Pinned(t)'  BY <2>3, <2>5, <2>6 DEF Pinned, PagePinned
  <2>11. Fresh(t)'  BY <2>6 DEF Fresh
  <2>12. Complete(t)'
    <3>1. CASE progress[t] = "lost"  BY <2>5, <2>6, <3>1, Cases DEF Complete
    <3>2. CASE progress[t] # "lost"
      <4>1. /\ progress[t] # "done"
            /\ returned[t] = {p \in Passed(t) : file[p].flag = "USED"}
            /\ \A p \in Passed(t) : held[t][p[1]] # "none"
        BY <2>2, <3>2, Cases DEF Complete, Idle
      <4>2. progress'[t] = "done"
        <5>1. progress[t] \in Progress  BY <2>1, TypesOfScans
        <5> QED  BY <2>6, <3>2, <4>1, <5>1 DEF Progress
      <4>3. Passed(t) = {p \in Pos : p[1] <= page[t]}  BY <2>2 DEF Passed
      <4>4. Passed(t)' = Passed(t)  BY <2>5, <4>2, <4>3 DEF Passed
      <4>5. \A p \in Passed(t) : p[1] \in Lockable  BY <4>3, Numbers DEF Lockable
      <4>6. \A p \in Passed(t)' : held'[t][p[1]] # "none"  BY <2>4, <4>1, <4>4, <4>5
      <4>7. returned'[t] = {p \in Passed(t)' : file'[p].flag = "USED"}
        BY <1>1, <2>5, <4>1, <4>4
      <4>8. Idle(t)' /\ slot'[t] = -1 /\ page'[t] = length' - 1
        BY <1>1, <1>2, <2>3, <2>5, <2>6 DEF Idle
      <4> QED  BY <2>4, <2>6, <4>2, <4>6, <4>7, <4>8 DEF Complete
    <3> QED  BY <3>1, <3>2
  <2>13. Sees(t, END_OF_FILE)  BY <2>2, <2>4 DEF Sees
  <2> QED
    BY <1>1, <2>1, <2>4, <2>5, <2>6, <2>7, <2>8, <2>9, <2>10, <2>11, <2>12, <2>13,
       QuietInv
<1>3. CASE page[t] # length - 1 /\ MoveOn(t, "Next")  BY <1>1, <1>3, MoveOnInv
<1> QED  BY <1>2, <1>3 DEF NextAtLastBlock

LEMMA InsertAtLastBlockInv ==
    ASSUME TableInv, NEW t \in Txn, InsertAtLastBlock(t)
    PROVE  TableInv'
<1>1. /\ In(t, "Insert", "last") /\ AtLastBlock(t)
      /\ file' = file /\ length' = length /\ undo' = undo
  BY DEF InsertAtLastBlock
<1>2. CASE /\ page[t] = length - 1 /\ Goto(t, "Insert", "append")
           /\ pins' = [pins EXCEPT ![t] = Unpinned(t)]
           /\ UNCHANGED <<page, slot, progress, returned>>
  <2>1. TypeOK /\ END_OF_FILE \in Lockable  BY Cases
  <2>2. call[t] = "Insert" /\ at[t] = "last"  BY <1>1 DEF In
  <2>3. PagePinned(t) /\ page[t] < length
    BY <2>2, Cases DEF Pinned, PagePinned, Orderly
  <2>4. /\ Granted(t, END_OF_FILE) /\ held'[t][END_OF_FILE] # "none"
        /\ Reads(t)' /\ ViewType' /\ \A u \in Txn \ {t} : view'[u] = view[u]
        /\ \A b \in Blocks : view'[t].block[b] = view[t].block[b]
    BY <1>1, LastBlockStep
  <2>5. /\ pins' \in [Txn -> [Blocks -> 0..1]] /\ pins'[t] = NoPins
        /\ \A u \in Txn \ {t} : pins'[u] = pins[u]
    BY <1>2, <2>1, <2>3, TypesOfScans, PinCounts
  <2>6. /\ call' \in [Txn -> Call] /\ at' \in [Txn -> At]
        /\ call'[t] = "Insert" /\ at'[t] = "append"
        /\ \A u \in Txn \ {t} : call'[u] = call[u] /\ at'[u] = at[u]
    BY <1>2, <2>1, TypesOfScans DEF Goto, Call, At
  <2>7. ScanTypes'
    BY <1>2, <2>1, <2>4, <2>5, <2>6, TypesOfScans DEF ScanTypes, ViewType
  <2>8. OthersStay(t)  BY <1>1, <1>2, <2>4, <2>5, <2>6 DEF OthersStay
  <2>9. NoPins' = NoPins  BY DEF NoPins
  <2>10. Orderly(t)'  BY <1>1, <1>2, <2>3, <2>4, <2>5, <2>6, <2>9 DEF Orderly
  <2>11. Pinned(t)' /\ Fresh(t)'  BY <2>6 DEF Pinned, Fresh, Idle
  <2>12. Complete(t)'
    <3>1. progress[t] = "lost" /\ returned[t] = {}  BY <2>2, Cases DEF Complete
    <3> QED  BY <1>2, <3>1 DEF Complete
  <2>13. Sees(t, END_OF_FILE)  BY <2>2, <2>4 DEF Sees
  <2> QED
    BY <1>1, <1>2, <2>1, <2>2, <2>4, <2>7, <2>8, <2>10, <2>11, <2>12, <2>13, QuietInv
<1>3. CASE page[t] # length - 1 /\ MoveOn(t, "Insert")  BY <1>1, <1>3, MoveOnInv
<1> QED  BY <1>2, <1>3 DEF InsertAtLastBlock

-----------------------------------------------------------------------------
(* A new block *)

LEMMA ThrowInv ==
    ASSUME TableInv, NEW t \in Txn, NEW b \in Lockable, b = END_OF_FILE \/ b = page[t],
           held' = held \/ Granted(t, b), file' = file, length' = length, undo' = undo,
           Throw(t), pins' = pins, view' = view
    PROVE  TableInv'
<1>1. TypeOK  BY Cases
<1>2. pins' \in [Txn -> [Blocks -> 0..1]] /\ ViewType'  BY <1>1, TypesOfScans DEF ViewType
<1>3. /\ Orderly(t)' /\ Pinned(t)' /\ Fresh(t)' /\ Complete(t)'
      /\ ScanTypes' /\ OthersStay(t) /\ page'[t] = None /\ call'[t] = "failed"
  BY <1>1, <1>2, Thrown DEF ViewType
<1>4. Reads(t)' /\ Sees(t, b)  BY <1>3, LockStep DEF Sees
<1> QED  BY <1>3, <1>4, QuietInv

(* The file grows; the scan is in the new block, or gone. *)
LEMMA AppendStep ==
    ASSUME TableInv, NEW t \in Txn, at[t] = "append", ExclusiveLock(t, END_OF_FILE),
           length < MaxBlocks, length' = length + 1, file' = file, undo' = undo,
           view' = [view EXCEPT ![t].size = length + 1],
           ScanTypes', OthersStay(t),
           call'[t] \in {call[t], "failed"},
           Orderly(t)', Pinned(t)', Fresh(t)', Complete(t)'
    PROVE  TableInv'
<1>1. TypeOK /\ END_OF_FILE \in Lockable  BY Cases
<1>2. Granted(t, END_OF_FILE) /\ held'[t][END_OF_FILE] = "exclusive"
  BY <1>1, Cases, ExclusiveGranted
<1>3. /\ held' \in [Txn -> [Lockable -> Lock!Mode]] /\ LocksExclude'
      /\ \A u \in Txn \ {t} : held'[u] = held[u] /\ held[u][END_OF_FILE] = "none"
      /\ \A c \in Blocks : c \in Lockable /\ held'[t][c] = held[t][c]
  BY <1>2, Numbers DEF Granted, Lockable
<1>4. \A c \in Lockable : held[t][c] = "exclusive" => held'[t][c] = "exclusive"
  BY <1>2, <1>3 DEF Lockable
<1>5. length \in Nat /\ length' \in 0..MaxBlocks /\ MaxBlocks \in Nat
  BY <1>1, TypesOfScans, Numbers
<1>6. ASSUME NEW u \in Txn \ {t}, at[u] = "format" PROVE FALSE
  <2>1. held[u][END_OF_FILE] = "exclusive"  BY <1>6, Cases DEF Fresh
  <2> QED  BY <1>3, <2>1
<1>7. StepOf(t)
  <2>1. \A u \in Txn \ {t} : StaysPut(u)  BY <1>3 DEF StaysPut, OthersStay
  <2>2. OthersOut(t, END_OF_FILE)  BY <1>3 DEF OthersOut
  <2> QED  BY <1>6, <2>1, <2>2 DEF StepOf
<1>8. WritesAreBounded'
  <2>1. Writing' \subseteq Writing  BY DEF Writing, OthersStay
  <2> QED  BY <2>1, Cases, BoundKept
<1>9. TypeOK'
  <2>1. undo' \in [Txn -> Seq(SetRecord)] /\ file' \in [Pos -> Record]
    BY <1>1, TypesOfScans
  <2> QED  BY <1>3, <1>5, <1>8, <2>1, TypesKept DEF ScanTypes
<1>10. NothingBehindEnd'
  <2>1. \A b \in Nat : b >= length' => b >= length  BY <1>5
  <2>2. \A b \in Blocks : b \in Nat  BY Numbers
  <2>3. \A p \in Pos : p[1] >= length' => file[p] = Zeroed
    BY <2>1, <2>2, Numbers, Cases DEF NothingBehindEnd
  <2>4. \A u \in Txn, b \in Blocks : b >= length' => held'[u][b] = "none"
    BY <1>3, <2>1, <2>2, Cases DEF NothingBehindEnd
  <2> QED  BY <2>3, <2>4 DEF NothingBehindEnd
<1>11. Reads(t)'
  <2>1. view'[t].size = length' /\ \A b \in Blocks : view'[t].block[b] = view[t].block[b]
    BY <1>1, TypesOfScans
  <2>2. held'[t][END_OF_FILE] # "none"  BY <1>2
  <2> QED  BY <1>3, <2>1, <2>2, Cases DEF Reads
<1>12. Writes(t)'
  <2>1. undo[t] \in Seq(SetRecord)  BY <1>1, TypesOfScans
  <2>2. \A i \in DOMAIN undo[t] : undo[t][i].pos[1] \in Lockable
    <3>1. \A i \in DOMAIN undo[t] : undo[t][i] \in SetRecord  BY <2>1
    <3> QED  BY <3>1, Numbers DEF SetRecord, Lockable
  <2> QED  BY <1>4, <2>2, Cases DEF Writes
<1>13. Seen(t)'
  <2>1. \A b \in Blocks : view'[t].block[b] = view[t].block[b]  BY <1>1, TypesOfScans
  <2>2. call'[t] # "failed" => call[t] # "failed"  OBVIOUS
  <2> QED  BY <1>3, <2>1, <2>2, Cases DEF Seen
<1> QED  BY <1>3, <1>7, <1>8, <1>9, <1>10, <1>11, <1>12, <1>13, StepKeeps DEF TxnInv

LEMMA AppendBlockInv ==
    ASSUME TableInv, NEW t \in Txn, AppendBlock(t)
    PROVE  TableInv'
<1>1. /\ at[t] = "append" /\ ExclusiveLock(t, END_OF_FILE) /\ file' = file /\ undo' = undo
  BY DEF AppendBlock
<1>2. TypeOK /\ END_OF_FILE \in Lockable  BY Cases
<1>3. Granted(t, END_OF_FILE) /\ held'[t][END_OF_FILE] = "exclusive"
  BY <1>1, <1>2, Cases, ExclusiveGranted
<1>4. /\ call[t] \in {"TableScan", "Insert"} /\ pins[t] = NoPins
      /\ call[t] = "TableScan" => length = 0 /\ slot[t] = -1
  <2>1. call[t] \in Call  BY <1>2, TypesOfScans
  <2> QED  BY <1>1, <2>1, Cases DEF Orderly, Call
<1>5. length \in Nat  BY <1>2, TypesOfScans
<1>6. CASE length < MaxBlocks /\ length' = length + 1
           /\ view' = [view EXCEPT ![t].size = length + 1]
  <2>1. ViewType' /\ \A u \in Txn \ {t} : view'[u] = view[u]
    <3>1. length + 1 \in 0..MaxBlocks  BY <1>5, <1>6, Numbers
    <3> QED  BY <1>2, <1>6, <3>1, TypesOfScans DEF ViewType
  <2>2. CASE PinNewBlock(t, length)
    <3>1. PICK b \in Blocks : b = length  BY <1>5, <1>6, Numbers DEF Blocks
    <3>2. /\ page' = [page EXCEPT ![t] = b] /\ pins' = [pins EXCEPT ![t][b] = @ + 1]
          /\ Goto(t, call[t], "format")
          /\ slot' = slot /\ progress' = progress /\ returned' = returned
      BY <2>2, <3>1 DEF PinNewBlock
    <3>3. /\ pins' \in [Txn -> [Blocks -> 0..1]] /\ pins'[t] = [NoPins EXCEPT ![b] = 1]
          /\ \A u \in Txn \ {t} : pins'[u] = pins[u]
      <4>1. [NoPins EXCEPT ![b] = @ + 1] = [NoPins EXCEPT ![b] = 1]
            /\ [NoPins EXCEPT ![b] = 1] \in [Blocks -> 0..1]
        BY DEF NoPins
      <4>2. pins' = [pins EXCEPT ![t] = [NoPins EXCEPT ![b] = @ + 1]]  BY <1>4, <3>2
      <4> QED  BY <1>2, <4>1, <4>2, TypesOfScans
    <3>4. /\ page' \in [Txn -> Blocks \cup {None}] /\ page'[t] = b
          /\ call' \in [Txn -> Call] /\ at' \in [Txn -> At]
          /\ call'[t] = call[t] /\ at'[t] = "format"
          /\ \A u \in Txn \ {t} : page'[u] = page[u] /\ call'[u] = call[u] /\ at'[u] = at[u]
      BY <1>2, <1>4, <3>2, TypesOfScans DEF Goto, Call, At
    <3>5. ScanTypes'
      BY <1>2, <2>1, <3>2, <3>3, <3>4, TypesOfScans DEF ScanTypes, ViewType
    <3>6. OthersStay(t)  BY <1>1, <2>1, <3>2, <3>3, <3>4 DEF OthersStay
    <3>7. b < length' /\ b = length' - 1  BY <1>5, <1>6, <3>1
    <3>8. Orderly(t)'  BY <1>4, <3>4, <3>7 DEF Orderly
    <3>9. Pinned(t)'
      <4>1. b # None  BY Numbers
      <4> QED  BY <1>4, <3>3, <3>4, <4>1 DEF Pinned, Idle
    <3>10. Fresh(t)'
      <4>1. ASSUME NEW u \in Txn \ {t} PROVE page'[u] # b /\ held'[u][b] = "none"
        <5>1. b >= length /\ ~(b < length) /\ b # None  BY <1>5, <3>1, Numbers
        <5>2. held[u][b] = "none"  BY <5>1, Cases DEF NothingBehindEnd
        <5>3. held'[u] = held[u]  BY <1>3 DEF Granted
        <5>4. page[u] # b  BY <5>1, Cases
        <5> QED  BY <3>4, <5>2, <5>3, <5>4
      <4>2. \A p \in Pos : p[1] = b => file[p] = Zeroed
        <5>1. b >= length  BY <1>5, <3>1
        <5> QED  BY <5>1, Cases DEF NothingBehindEnd
      <4>3. call'[t] = "TableScan" => b = 0 /\ slot'[t] = -1  BY <1>4, <3>1, <3>2, <3>4
      <4> QED  BY <1>1, <1>3, <3>4, <3>7, <4>1, <4>2, <4>3 DEF Fresh
    <3>11. Complete(t)'
      <4>1. progress[t] = "lost" /\ returned[t] = {}  BY <1>4, Cases DEF Complete
      <4> QED  BY <3>2, <4>1 DEF Complete
    <3> QED
      BY <1>1, <1>6, <3>4, <3>5, <3>6, <3>8, <3>9, <3>10, <3>11, AppendStep
  <2>3. CASE Throw(t) /\ UNCHANGED pins
    <3>1. pins' \in [Txn -> [Blocks -> 0..1]]  BY <1>2, <2>3, TypesOfScans
    <3>2. /\ Orderly(t)' /\ Pinned(t)' /\ Fresh(t)' /\ Complete(t)'
          /\ ScanTypes' /\ OthersStay(t) /\ call'[t] = "failed"
      BY <1>1, <1>2, <2>1, <2>3, <3>1, Thrown DEF ViewType
    <3> QED  BY <1>1, <1>6, <3>2, AppendStep
  <2> QED  BY <1>1, <1>6, <2>2, <2>3 DEF AppendBlock
<1>7. CASE Throw(t) /\ UNCHANGED <<length, pins, view>>
  BY <1>1, <1>2, <1>3, <1>7, ThrowInv
<1>8. \/ /\ length < MaxBlocks /\ length' = length + 1
         /\ view' = [view EXCEPT ![t].size = length + 1]
      \/ Throw(t) /\ UNCHANGED <<length, pins, view>>
  BY DEF AppendBlock
<1> QED  BY <1>6, <1>7, <1>8

LEMMA ShareNewBlockInv ==
    ASSUME TableInv, NEW t \in Txn, ShareNewBlock(t)
    PROVE  TableInv'
<1>1. /\ at[t] = "format" /\ Lock!Share(t, page[t])
      /\ file' = file /\ length' = length /\ undo' = undo
      /\ page' = page /\ slot' = slot /\ pins' = pins /\ call' = call /\ at' = at
      /\ view' = view /\ progress' = progress /\ returned' = returned
  BY DEF ShareNewBlock, scan, where, history
<1>2. PagePinned(t) /\ page[t] \in Blocks /\ page[t] \in Lockable
  BY <1>1, Cases DEF Pinned, PagePinned
<1>3. SharedLock(t, page[t])
  <2>1. held[t][page[t]] = "none"  BY <1>1 DEF Lock!Share
  <2> QED  BY <1>1, <2>1 DEF SharedLock
<1>4. Granted(t, page[t])  BY <1>2, <1>3, Cases, ShareGranted
<1>5. /\ \A u \in Txn \ {t} : held'[u] = held[u]
      /\ held'[t][END_OF_FILE] = held[t][END_OF_FILE]
  BY <1>2, <1>4, Cases, Numbers DEF Granted
<1>6. call[t] \in {"TableScan", "Insert"}
  <2>1. call[t] \in Call  BY Cases, TypesOfScans
  <2> QED  BY <1>1, <2>1, Cases DEF Orderly, Call
<1>7. ScanTypes'  BY <1>1, Cases, TypesOfScans DEF ScanTypes
<1>8. OthersStay(t)  BY <1>1 DEF OthersStay
<1>9. Orderly(t)'
  <2>1. page[t] < length  BY <1>2, Cases DEF PagePinned
  <2> QED  BY <1>1, <1>6, <2>1 DEF Orderly
<1>10. Pinned(t)'  BY <1>1, <1>2, <1>6 DEF Pinned, PagePinned, Idle
<1>11. Fresh(t)'  BY <1>1, <1>5, Cases DEF Fresh
<1>12. Reads(t)' /\ Sees(t, page[t])
  <2>1. Reads(t)'  BY <1>1, <1>2, <1>4, LockStep
  <2> QED  BY <1>1, <1>6, <2>1 DEF Sees
<1>13. Complete(t)'
  <2>1. progress[t] = "lost" /\ returned[t] = {}  BY <1>6, Cases DEF Complete
  <2> QED  BY <1>1, <2>1 DEF Complete
<1> QED
  BY <1>1, <1>2, <1>4, <1>6, <1>7, <1>8, <1>9, <1>10, <1>11, <1>12, <1>13, QuietInv

LEMMA FormatNewBlockInv ==
    ASSUME TableInv, NEW t \in Txn, FormatNewBlock(t)
    PROVE  TableInv'
<1>1. /\ at[t] = "format" /\ ExclusiveLock(t, page[t])
      /\ file' = [p \in Pos |-> IF p[1] = page[t] THEN Zeroed ELSE file[p]]
      /\ slot' = [slot EXCEPT ![t] = -1]
      /\ view' = [view EXCEPT ![t].block[page[t]] = [s \in Slots |-> Zeroed]]
      /\ length' = length /\ page' = page /\ pins' = pins /\ undo' = undo
      /\ returned' = returned
  BY DEF FormatNewBlock
<1>2. TypeOK /\ PagePinned(t) /\ page[t] # None /\ page[t] \in Blocks /\ page[t] \in Lockable
  BY <1>1, Cases DEF Pinned, PagePinned
<1>3. Granted(t, page[t]) /\ held'[t][page[t]] # "none"
  <2>1. Granted(t, page[t])  BY <1>1, <1>2, Cases, ExclusiveGranted
  <2> QED  BY <2>1 DEF Granted
<1>4. /\ \A p \in Pos : p[1] = page[t] => file[p] = Zeroed
      /\ call[t] = "TableScan" => page[t] = 0
  BY <1>1, Cases DEF Fresh
<1>5. file' = file
  <2>1. file \in [Pos -> Record]  BY <1>2, TypesOfScans
  <2> QED  BY <1>1, <1>4, <2>1
<1>6. HaveRead(t)
  <2>1. \A s \in Slots : <<page[t], s>> \in Pos /\ <<page[t], s>>[1] = page[t]
    BY <1>2 DEF Pos
  <2>2. Contents(file, page[t]) = [s \in Slots |-> Zeroed]  BY <1>4, <2>1 DEF Contents
  <2> QED  BY <1>1, <2>2 DEF HaveRead
<1>7. /\ Reads(t)' /\ ViewType' /\ \A u \in Txn \ {t} : view'[u] = view[u]
      /\ \A b \in Blocks : view'[t].block[b] \in {view[t].block[b], Contents(file, b)}
      /\ view'[t].block[page[t]] = Contents(file, page[t])
  <2>1. \A c \in Lockable : held[t][c] # "none" => held'[t][c] # "none"
    BY <1>1, <1>2, <1>3, <1>5, LockStep
  <2>2. \A u \in Txn \ {t} : view'[u] = view[u]  BY <1>1, <1>2, TypesOfScans
  <2> QED  BY <1>1, <1>2, <1>3, <1>5, <1>6, <2>1, <2>2, PageRead DEF ViewType
<1>8. /\ slot' \in [Txn -> -1..(NumSlots - 1)] /\ slot'[t] = -1
      /\ \A u \in Txn \ {t} : slot'[u] = slot[u]
  <2>1. -1 \in -1..(NumSlots - 1)  BY Numbers
  <2> QED  BY <1>1, <1>2, <2>1, TypesOfScans
<1>9. page[t] < length  BY <1>2, Cases
<1>10. call[t] \in {"TableScan", "Insert"} => progress[t] = "lost" /\ returned[t] = {}
  BY Cases DEF Complete
<1>11. CASE call[t] = "TableScan" /\ Goto(t, "idle", "start")
            /\ progress' = [progress EXCEPT ![t] = "scanning"]
  <2>1. /\ call' \in [Txn -> Call] /\ at' \in [Txn -> At] /\ progress' \in [Txn -> Progress]
        /\ call'[t] = "idle" /\ at'[t] = "start" /\ progress'[t] = "scanning"
        /\ \A u \in Txn \ {t} :
              call'[u] = call[u] /\ at'[u] = at[u] /\ progress'[u] = progress[u]
    BY <1>2, <1>11, TypesOfScans DEF Goto, Call, At, Progress
  <2>2. ScanTypes'  BY <1>1, <1>2, <1>7, <1>8, <2>1, TypesOfScans DEF ScanTypes, ViewType
  <2>3. OthersStay(t)  BY <1>1, <1>7, <1>8, <2>1 DEF OthersStay
  <2>4. Orderly(t)'  BY <1>1, <1>2, <1>8, <1>9, <2>1 DEF Orderly
  <2>5. Pinned(t)'  BY <1>1, <1>2, <2>1 DEF Pinned, PagePinned
  <2>6. Fresh(t)'  BY <2>1 DEF Fresh
  <2>7. Complete(t)'
    <3>1. \A p \in Pos : ~(p[1] < 0) /\ ~(p[2] <= -1)  BY Numbers
    <3>2. page'[t] = 0  BY <1>1, <1>4, <1>11
    <3>3. UpTo(t)' = {}  BY <1>8, <3>1, <3>2 DEF UpTo
    <3>4. Passed(t)' = {}  BY <2>1, <3>3 DEF Passed
    <3>5. returned'[t] = {}  BY <1>1, <1>10, <1>11
    <3> QED  BY <2>1, <3>4, <3>5 DEF Complete
  <2>8. Sees(t, page[t])  BY <1>7, <1>11 DEF Sees
  <2> QED
    BY <1>1, <1>2, <1>3, <1>5, <1>7, <2>1, <2>2, <2>3, <2>4, <2>5, <2>6, <2>7, <2>8,
       QuietInv
<1>12. CASE call[t] = "Insert" /\ Goto(t, "Insert", "search") /\ UNCHANGED progress
  <2>1. /\ call' \in [Txn -> Call] /\ at' \in [Txn -> At]
        /\ call'[t] = "Insert" /\ at'[t] = "search" /\ progress' = progress
        /\ \A u \in Txn \ {t} : call'[u] = call[u] /\ at'[u] = at[u]
    BY <1>2, <1>12, TypesOfScans DEF Goto, Call, At
  <2>2. ScanTypes'  BY <1>1, <1>2, <1>7, <1>8, <2>1, TypesOfScans DEF ScanTypes, ViewType
  <2>3. OthersStay(t)  BY <1>1, <1>7, <1>8, <2>1 DEF OthersStay
  <2>4. Orderly(t)'  BY <1>1, <1>2, <1>8, <1>9, <2>1 DEF Orderly
  <2>5. Pinned(t)'  BY <1>1, <1>2, <2>1 DEF Pinned, PagePinned
  <2>6. Fresh(t)'  BY <2>1 DEF Fresh
  <2>7. Complete(t)'  BY <1>1, <1>10, <1>12 DEF Complete
  <2>8. Sees(t, page[t])  BY <1>7, <1>12 DEF Sees
  <2> QED
    BY <1>1, <1>2, <1>3, <1>5, <1>7, <1>12, <2>2, <2>3, <2>4, <2>5, <2>6, <2>7, <2>8,
       QuietInv
<1> QED  BY <1>11, <1>12 DEF FormatNewBlock

-----------------------------------------------------------------------------
(* Calls that read, and the end of a scan *)

LEMMA GetValInv ==
    ASSUME TableInv, NEW t \in Txn, GetVal(t)
    PROVE  TableInv'
<1>1. /\ call[t] = "idle" /\ slot[t] >= 0 /\ SharedLock(t, page[t]) /\ HaveRead(t)
      /\ file' = file /\ length' = length /\ undo' = undo
      /\ page' = page /\ slot' = slot /\ pins' = pins /\ call' = call /\ at' = at
      /\ progress' = progress /\ returned' = returned
  BY DEF GetVal, OnSlot, Idle, scan, where
<1>2. TypeOK /\ PagePinned(t) /\ page[t] # None /\ page[t] \in Blocks /\ page[t] \in Lockable
  BY <1>1, Cases DEF Pinned, PagePinned, Idle
<1>3. Granted(t, page[t])  BY <1>1, <1>2, Cases, ShareGranted
<1>4. \A c \in Lockable : held[t][c] # "none" => held'[t][c] # "none"
  BY <1>1, <1>2, <1>3, LockStep
<1>5. /\ Reads(t)' /\ ViewType' /\ \A u \in Txn \ {t} : view'[u] = view[u]
      /\ \A b \in Blocks : view'[t].block[b] \in {view[t].block[b], Contents(file, b)}
      /\ view'[t].block[page[t]] = Contents(file, page[t])
  <2>1. held'[t][page[t]] # "none"  BY <1>3 DEF Granted
  <2>2. \A u \in Txn \ {t} : view'[u] = view[u]  BY <1>1, <1>2, TypesOfScans DEF HaveRead
  <2> QED  BY <1>1, <1>2, <1>4, <2>1, <2>2, PageRead DEF ViewType
<1>6. ScanTypes'  BY <1>1, <1>2, <1>5, TypesOfScans DEF ScanTypes, ViewType
<1>7. OthersStay(t)  BY <1>1, <1>5 DEF OthersStay
<1>8. at[t] = "start" /\ page[t] < length  BY <1>1, <1>2, Cases DEF Orderly
<1>9. Orderly(t)'  BY <1>1, <1>8 DEF Orderly
<1>10. Pinned(t)'  BY <1>1, <1>2 DEF Pinned, PagePinned
<1>11. Fresh(t)'  BY <1>1, <1>8 DEF Fresh
<1>12. Sees(t, page[t])  BY <1>1, <1>5, <1>8 DEF Sees
<1>13. Complete(t)'
  <2>1. Passed(t)' = Passed(t)  BY <1>1 DEF Passed, UpTo
  <2>2. Passed(t) \subseteq Pos  BY DEF Passed, UpTo
  <2>3. \A p \in Passed(t) : p[1] \in Lockable  BY <2>2, Numbers DEF Lockable
  <2>4. progress[t] = "done" => slot[t] = -1  BY Cases DEF Complete
  <2>5. CASE progress[t] = "lost"  BY <1>1, <2>5, Cases DEF Complete
  <2>6. CASE progress[t] # "lost"
    <3>1. /\ progress[t] # "done"
          /\ returned[t] = {p \in Passed(t) : file[p].flag = "USED"}
          /\ \A p \in Passed(t) : held[t][p[1]] # "none"
      BY <1>1, <2>4, <2>6, Cases DEF Complete
    <3>2. \A p \in Passed(t)' : held'[t][p[1]] # "none"  BY <1>4, <2>1, <2>3, <3>1
    <3>3. returned'[t] = {p \in Passed(t)' : file'[p].flag = "USED"}  BY <1>1, <2>1, <3>1
    <3> QED  BY <1>1, <2>6, <3>1, <3>2, <3>3 DEF Complete
  <2> QED  BY <2>5, <2>6
<1> QED
  BY <1>1, <1>2, <1>3, <1>5, <1>6, <1>7, <1>9, <1>10, <1>11, <1>12, <1>13, QuietInv

LEMMA MoveToRIDInv ==
    ASSUME TableInv, NEW t \in Txn, NEW rid \in Pos, MoveToRID(t, rid)
    PROVE  TableInv'
<1>1. /\ call[t] = "idle" /\ rid[1] < length /\ file[rid].flag = "USED"
      /\ file' = file /\ length' = length /\ held' = held /\ undo' = undo /\ view' = view
  BY DEF MoveToRID, Idle
<1>2. TypeOK /\ END_OF_FILE \in Lockable /\ PagePinned(t)
  BY <1>1, Cases DEF Pinned, PagePinned, Idle
<1>3. at[t] = "start"  BY <1>1, Cases DEF Orderly
<1>4. Reads(t)' /\ ViewType'  BY <1>1, <1>2, TypesOfScans, LockStep DEF ViewType
<1>5. CASE /\ MoveTo(t, rid[1], rid[2])
           /\ progress' = [progress EXCEPT ![t] = "lost"]
           /\ returned' = [returned EXCEPT ![t] = {}]
           /\ UNCHANGED where
  <2>1. /\ rid[1] \in Blocks /\ rid[1] # None /\ rid[2] \in Slots
        /\ rid[2] \in -1..(NumSlots - 1)
    BY Numbers DEF Slots
  <2>2. PICK b \in Blocks, s \in Slots : b = rid[1] /\ s = rid[2]  BY <2>1
  <2>3. /\ pins' \in [Txn -> [Blocks -> 0..1]] /\ pins'[t] = [NoPins EXCEPT ![b] = 1]
        /\ \A u \in Txn \ {t} : pins'[u] = pins[u]
    BY <1>2, <1>5, <2>2, TypesOfScans, PinCounts DEF MoveTo
  <2>4. /\ page' \in [Txn -> Blocks \cup {None}] /\ slot' \in [Txn -> -1..(NumSlots - 1)]
        /\ page'[t] = b
        /\ \A u \in Txn \ {t} : page'[u] = page[u] /\ slot'[u] = slot[u]
    BY <1>2, <1>5, <2>1, <2>2, TypesOfScans DEF MoveTo
  <2>5. /\ progress' \in [Txn -> Progress] /\ returned' \in [Txn -> SUBSET Pos]
        /\ progress'[t] = "lost" /\ returned'[t] = {}
        /\ \A u \in Txn \ {t} : progress'[u] = progress[u] /\ returned'[u] = returned[u]
    BY <1>2, <1>5, TypesOfScans DEF Progress
  <2>6. call' = call /\ at' = at  BY <1>5 DEF where
  <2>7. ScanTypes'
    BY <1>2, <1>4, <2>3, <2>4, <2>5, <2>6, TypesOfScans DEF ScanTypes, ViewType
  <2>8. OthersStay(t)  BY <1>1, <2>3, <2>4, <2>5, <2>6 DEF OthersStay
  <2>9. ASSUME NEW u \in Txn \ {t}, at[u] = "format" PROVE page'[t] # page[u]
    <3>1. \A p \in Pos : p[1] = page[u] => file[p] = Zeroed  BY <2>9, Cases DEF Fresh
    <3>2. file[rid] # Zeroed  BY <1>1 DEF Zeroed
    <3> QED  BY <2>2, <2>4, <3>1, <3>2
  <2>10. Orderly(t)'  BY <1>1, <1>3, <2>2, <2>4, <2>6 DEF Orderly
  <2>11. Pinned(t)'
    <3>1. b # None  BY <2>1, <2>2
    <3> QED  BY <1>1, <2>3, <2>4, <2>6, <3>1 DEF Pinned
  <2>12. Fresh(t)'  BY <1>3, <2>6 DEF Fresh
  <2>13. Complete(t)'  BY <2>5 DEF Complete
  <2>14. Sees(t, END_OF_FILE)  BY <1>1, <1>3 DEF Sees
  <2> QED
    BY <1>1, <1>2, <1>4, <2>6, <2>7, <2>8, <2>9, <2>10, <2>11, <2>12, <2>13, <2>14, QuietInv
<1>6. CASE PinThrows(t)  BY <1>1, <1>2, <1>4, <1>6, PinThrown DEF ViewType
<1> QED  BY <1>5, <1>6 DEF MoveToRID

LEMMA CloseInv ==
    ASSUME TableInv, NEW t \in Txn, Close(t)
    PROVE  TableInv'
<1>1. /\ call[t] = "idle" /\ pins' = [pins EXCEPT ![t] = Unpinned(t)] /\ NoScan(t)
      /\ Goto(t, "closed", "start")
      /\ file' = file /\ length' = length /\ held' = held /\ undo' = undo /\ view' = view
  BY DEF Close, Idle
<1>2. TypeOK /\ END_OF_FILE \in Lockable /\ PagePinned(t)
  BY <1>1, Cases DEF Pinned, PagePinned, Idle
<1>3. at[t] = "start"  BY <1>1, Cases DEF Orderly
<1>4. Reads(t)' /\ ViewType'  BY <1>1, <1>2, TypesOfScans, LockStep DEF ViewType
<1>5. /\ pins' \in [Txn -> [Blocks -> 0..1]] /\ pins'[t] = NoPins
      /\ \A u \in Txn \ {t} : pins'[u] = pins[u]
  BY <1>1, <1>2, TypesOfScans, PinCounts
<1>6. /\ page' \in [Txn -> Blocks \cup {None}] /\ slot' \in [Txn -> -1..(NumSlots - 1)]
      /\ progress' \in [Txn -> Progress] /\ returned' \in [Txn -> SUBSET Pos]
      /\ page'[t] = None /\ slot'[t] = -1 /\ progress'[t] = "lost" /\ returned'[t] = {}
      /\ \A u \in Txn \ {t} : /\ page'[u] = page[u] /\ slot'[u] = slot[u]
                              /\ progress'[u] = progress[u] /\ returned'[u] = returned[u]
  <2>1. -1 \in -1..(NumSlots - 1)  BY Numbers
  <2> QED  BY <1>1, <1>2, <2>1, TypesOfScans DEF NoScan, Progress
<1>7. /\ call' \in [Txn -> Call] /\ at' \in [Txn -> At]
      /\ call'[t] = "closed" /\ at'[t] = "start"
      /\ \A u \in Txn \ {t} : call'[u] = call[u] /\ at'[u] = at[u]
  BY <1>1, <1>2, TypesOfScans DEF Goto, Call, At
<1>8. ScanTypes'  BY <1>4, <1>5, <1>6, <1>7 DEF ScanTypes, ViewType
<1>9. OthersStay(t)  BY <1>1, <1>5, <1>6, <1>7 DEF OthersStay
<1>10. Orderly(t)'  BY <1>6, <1>7 DEF Orderly
<1>11. Pinned(t)'
  <2>1. NoPins' = NoPins  BY DEF NoPins
  <2> QED  BY <1>5, <1>7, <2>1 DEF Pinned, Idle
<1>12. Fresh(t)'  BY <1>7 DEF Fresh
<1>13. Complete(t)'  BY <1>6 DEF Complete
<1>14. Sees(t, END_OF_FILE)  BY <1>1, <1>3 DEF Sees
<1> QED
  BY <1>1, <1>2, <1>4, <1>6, <1>7, <1>8, <1>9, <1>10, <1>11, <1>12, <1>13, <1>14, QuietInv

LEMMA LockAbortInv ==
    ASSUME TableInv, NEW t \in Txn, LockAbort(t)
    PROVE  TableInv'
<1>1. /\ Throw(t)
      /\ file' = file /\ length' = length /\ held' = held /\ pins' = pins
      /\ undo' = undo /\ view' = view
  BY DEF LockAbort
<1>2. END_OF_FILE \in Lockable  BY Cases
<1> QED  BY <1>1, <1>2, ThrowInv

-----------------------------------------------------------------------------
(* Logged writes *)

LEMMA Written ==
    ASSUME TableInv, NEW t \in Txn, NEW s \in Slots, NEW r \in Record, Write(t, s, r),
           page[t] # None, length' = length
    PROVE  /\ Granted(t, page[t]) /\ held'[t][page[t]] = "exclusive" /\ held[t][page[t]] # "none"
           /\ \A u \in Txn \ {t} : held[u][page[t]] = "none"
           /\ \A c \in Lockable : held[t][c] # "none" => held'[t][c] # "none"
           /\ \A c \in Lockable : held[t][c] = "exclusive" => held'[t][c] = "exclusive"
           /\ <<page[t], s>> \in Pos /\ file' \in [Pos -> Record]
           /\ file'[<<page[t], s>>] = r
           /\ \A q \in Pos : q # <<page[t], s>> => file'[q] = file[q]
<1>1. page[t] \in Blocks /\ page[t] \in Lockable /\ TypeOK  BY Cases
<1>2. /\ ExclusiveLock(t, page[t])
      /\ file' = [file EXCEPT ![<<page[t], s>>] = r]
  BY DEF Write
<1>3. Granted(t, page[t]) /\ held'[t][page[t]] = "exclusive" /\ held[t][page[t]] # "none"
  BY <1>1, <1>2, Cases, ExclusiveGranted
<1>4. <<page[t], s>> \in Pos  BY <1>1 DEF Pos
<1>5. /\ file' \in [Pos -> Record] /\ file'[<<page[t], s>>] = r
      /\ \A q \in Pos : q # <<page[t], s>> => file'[q] = file[q]
  <2>1. file \in [Pos -> Record]  BY <1>1, TypesOfScans
  <2> QED  BY <1>2, <1>4, <2>1
<1>6. \A c \in Lockable : /\ held[t][c] # "none" => held'[t][c] # "none"
                          /\ held[t][c] = "exclusive" => held'[t][c] = "exclusive"
  BY <1>3 DEF Granted
<1> QED  BY <1>3, <1>4, <1>5, <1>6 DEF Granted

(* One more write is within the bound, for the one who may make it. *)
LEMMA BoundWritten ==
    ASSUME TableInv, NEW t \in Txn, call[t] = "Insert" \/ (call[t] = "idle" /\ MayWrite(t)),
           NEW p, NEW old, [pos |-> p, old |-> old] \in SetRecord,
           undo' = [undo EXCEPT ![t] = Append(undo[t], [pos |-> p, old |-> old])],
           call'[t] = "idle", \A u \in Txn \ {t} : call'[u] = call[u]
    PROVE  /\ WritesAreBounded' /\ undo' \in [Txn -> Seq(SetRecord)]
           /\ \A u \in Txn \ {t} : undo'[u] = undo[u]
<1>1. undo \in Logs  BY Cases, TypesOfScans DEF Logs
<1>2. undo[t] \in Seq(SetRecord)  BY <1>1 DEF Logs
<1>3. undo' \in Logs /\ \A u \in Txn \ {t} : undo'[u] = undo[u]
  BY <1>1, <1>2 DEF Logs
<1>4. Len(undo'[t]) = Len(undo[t]) + 1  BY <1>1, <1>2 DEF Logs
<1>5. Writing' = Writing \ {t}  BY DEF Writing
<1>6. IsFiniteSet(Writing) /\ IsFiniteSet(Writing \ {t})
  <2>1. Writing \subseteq Txn /\ Writing \ {t} \subseteq Txn  BY DEF Writing
  <2> QED  BY <2>1, TableAssumption, FS_Subset
<1>7. PICK m \in Nat : m = Cardinality(Writing \ {t})  BY <1>6, FS_CardinalityType
<1>8. PICK k \in Nat : k = Len(undo[t])  BY <1>2
<1>9. PICK log \in Logs : log = undo  BY <1>1
<1>10. Logged(log, m) < MaxWrites
  <2>1. CASE call[t] = "Insert"
    <3>1. Writing = (Writing \ {t}) \cup {t}  BY <2>1 DEF Writing
    <3>2. Cardinality(Writing) = m + 1  BY <1>6, <1>7, <3>1, FS_AddElement
    <3>3. Logged(log, m + 1) <= MaxWrites  BY <1>9, <3>2, Cases DEF WritesAreBounded
    <3>4. m + 1 \in Nat  BY <1>7
    <3>5. /\ Logged(log, m) \in Nat /\ Logged(log, m + 1) \in Nat
          /\ Logged(log, m + 1) - (m + 1) - k = Logged(log, m) - m - k
      <4>1. Len(log[t]) = k  BY <1>8, <1>9
      <4> QED  BY SMTT(60), <3>4, <4>1, LoggedChanges
    <3> QED  BY <3>3, <3>5, Numbers
  <2>2. CASE call[t] = "idle" /\ MayWrite(t)
    <3>1. Logged(undo, Cardinality(Writing \ {t})) < MaxWrites
      BY <2>2 DEF MayWrite, Logged, FoldFunction, FoldFunctionOnSet, MapThenFoldSet
    <3> QED  BY <1>7, <1>9, <3>1
  <2> QED  BY <2>1, <2>2
<1>11. PICK next \in Logs : next = undo'  BY <1>3
<1>12. /\ Logged(log, m) \in Nat /\ Logged(next, m) \in Nat
       /\ Logged(next, m) - m - (k + 1) = Logged(log, m) - m - k
  <2>1. \A u \in Txn \ {t} : next[u] = log[u]  BY <1>3, <1>9, <1>11
  <2>2. Len(log[t]) = k /\ Len(next[t]) = k + 1  BY <1>4, <1>8, <1>9, <1>11
  <2>3. /\ Logged(log, m) \in Nat /\ Logged(next, m) \in Nat
        /\ Logged(next, m) - m - Len(next[t]) = Logged(log, m) - m - Len(log[t])
    BY <2>1, LoggedChanges
  <2> QED  BY <2>2, <2>3
<1>13. Logged(next, m) <= MaxWrites  BY <1>10, <1>12, Numbers
<1>14. WritesAreBounded'  BY <1>5, <1>7, <1>11, <1>13 DEF WritesAreBounded
<1> QED  BY <1>3, <1>14 DEF Logs

LEMMA WriteInv ==
    ASSUME TableInv, NEW t \in Txn, NEW s \in Slots, NEW r \in Record, Write(t, s, r),
           \/ call[t] = "Insert" /\ at[t] = "flag"
           \/ call[t] = "idle" /\ at[t] = "start" /\ MayWrite(t),
           length' = length, page' = page, slot' = slot, pins' = pins, progress' = progress,
           call' \in [Txn -> Call], at' \in [Txn -> At], returned' \in [Txn -> SUBSET Pos],
           call'[t] = "idle", at'[t] = "start",
           \A u \in Txn \ {t} :
              call'[u] = call[u] /\ at'[u] = at[u] /\ returned'[u] = returned[u],
           Complete(t)'
    PROVE  TableInv'
<1>1. /\ TypeOK /\ PagePinned(t) /\ page[t] # None /\ page[t] \in Blocks /\ page[t] \in Lockable
      /\ page[t] < length /\ length \in Nat
  BY Cases, TypesOfScans DEF Pinned, PagePinned, Idle
<1>2. PICK b \in Blocks : b = page[t] /\ b \in Lockable /\ b < length  BY <1>1
<1>3. PICK p \in Pos : p = <<b, s>>  BY DEF Pos
<1>4. /\ Granted(t, b) /\ held'[t][b] = "exclusive" /\ held[t][b] # "none"
      /\ \A u \in Txn \ {t} : held[u][b] = "none"
      /\ \A c \in Lockable : held[t][c] # "none" => held'[t][c] # "none"
      /\ \A c \in Lockable : held[t][c] = "exclusive" => held'[t][c] = "exclusive"
      /\ file' \in [Pos -> Record] /\ file'[p] = r
      /\ \A q \in Pos : q # p => file'[q] = file[q]
  BY <1>1, <1>2, <1>3, Written
<1>5. /\ held' \in [Txn -> [Lockable -> Lock!Mode]] /\ LocksExclude'
      /\ \A u \in Txn \ {t} : held'[u] = held[u]
      /\ \A c \in Lockable \ {b} : held'[t][c] = held[t][c]
  BY <1>4 DEF Granted
<1>6. /\ undo' = [undo EXCEPT ![t] = Append(undo[t], [pos |-> p, old |-> file[p]])]
      /\ view' = [view EXCEPT ![t].block[b][s] = r]
  BY <1>2, <1>3 DEF Write
<1>7. file[p] \in Record /\ [pos |-> p, old |-> file[p]] \in SetRecord
  BY <1>1, TypesOfScans DEF SetRecord
<1>8. /\ WritesAreBounded' /\ undo' \in [Txn -> Seq(SetRecord)]
      /\ \A u \in Txn \ {t} : undo'[u] = undo[u]
  <2>1. PICK old : old = file[p]  OBVIOUS
  <2> QED  BY <1>6, <1>7, <2>1, BoundWritten
<1>9. Contents(file, b) \in [Slots -> Record]
  <2>1. \A i \in Slots : <<b, i>> \in Pos  BY DEF Pos
  <2>2. file \in [Pos -> Record]  BY <1>1, TypesOfScans
  <2> QED  BY <2>1, <2>2 DEF Contents
<1>10. view[t].block[b] = Contents(file, b)  BY <1>2, <1>4, Cases DEF Seen
<1>11. /\ ViewType' /\ \A u \in Txn \ {t} : view'[u] = view[u]
       /\ view'[t].size = view[t].size
       /\ view'[t].block[b] = [Contents(file, b) EXCEPT ![s] = r]
       /\ \A c \in Blocks \ {b} : view'[t].block[c] = view[t].block[c]
  <2>1. view \in [Txn -> [block : [Blocks -> [Slots -> Record] \cup {None}],
                          size : 0..MaxBlocks \cup {None}]]
    BY <1>1, TypesOfScans
  <2>2. [Contents(file, b) EXCEPT ![s] = r] \in [Slots -> Record]  BY <1>9
  <2>3. view' = [view EXCEPT ![t].block[b] = [Contents(file, b) EXCEPT ![s] = r]]
    BY <1>6, <1>10, <2>1
  <2> QED  BY <2>1, <2>2, <2>3 DEF ViewType
<1>12. Contents(file', b) = [Contents(file, b) EXCEPT ![s] = r]
  <2>1. \A i \in Slots : <<b, i>> \in Pos /\ (i # s => <<b, i>> # p)  BY <1>3 DEF Pos
  <2>2. \A i \in Slots : file'[<<b, i>>] = IF i = s THEN r ELSE file[<<b, i>>]
    BY <1>3, <1>4, <2>1
  <2> QED  BY <2>2 DEF Contents
<1>13. ASSUME NEW c \in Blocks, c # b PROVE Contents(file', c) = Contents(file, c)
  <2>1. \A i \in Slots : <<c, i>> \in Pos /\ <<c, i>> # p  BY <1>3, <1>13 DEF Pos
  <2>2. \A i \in Slots : file'[<<c, i>>] = file[<<c, i>>]  BY <1>4, <2>1
  <2> QED  BY <2>2 DEF Contents
<1>14. StepOf(t)
  <2>1. \A u \in Txn \ {t} : StaysPut(u)  BY <1>5, <1>8, <1>11 DEF StaysPut
  <2>2. \A q \in Pos : file'[q] # file[q] => OthersOut(t, q[1])
    BY <1>3, <1>4 DEF OthersOut
  <2>3. ASSUME NEW u \in Txn \ {t}, at[u] = "format"
        PROVE  /\ page'[t] # page[u] /\ held'[t][page[u]] = "none"
               /\ \A q \in Pos : q[1] = page[u] => file'[q] = file[q]
    <3>1. page[t] # page[u] /\ held[t][page[u]] = "none"  BY <2>3, Cases DEF Fresh
    <3>2. page[u] \in Lockable
      <4>1. Pinned(u)  BY Cases
      <4> QED  BY <2>3, <4>1, Cases DEF Pinned
    <3> QED  BY <1>2, <1>3, <1>4, <1>5, <3>1, <3>2
  <2> QED  BY <2>1, <2>2, <2>3 DEF StepOf
<1>15. TypeOK'
  <2>1. /\ page' \in [Txn -> Blocks \cup {None}] /\ slot' \in [Txn -> -1..(NumSlots - 1)]
        /\ pins' \in [Txn -> [Blocks -> 0..1]] /\ progress' \in [Txn -> Progress]
        /\ length' \in 0..MaxBlocks
    BY <1>1, TypesOfScans
  <2> QED  BY <1>4, <1>5, <1>8, <1>11, <2>1, TypesKept DEF ViewType
<1>16. NothingBehindEnd'
  <2>1. b \in Nat /\ ~(b >= length)  BY <1>1, <1>2, Numbers
  <2>2. \A q \in Pos : q[1] >= length => q # p  BY <1>3, <2>1
  <2>3. \A q \in Pos : q[1] >= length => file'[q] = Zeroed
    BY <1>4, <2>2, Cases DEF NothingBehindEnd
  <2>4. \A c \in Blocks : c >= length => c # b /\ c \in Lockable  BY <2>1 DEF Lockable
  <2>5. \A u \in Txn, c \in Blocks : c >= length => held'[u][c] = "none"
    BY <1>5, <2>4, Cases DEF NothingBehindEnd
  <2> QED  BY <2>3, <2>5 DEF NothingBehindEnd
<1>17. Reads(t)'
  <2>1. \A c \in Blocks : c \in Lockable  BY DEF Lockable
  <2>2. view'[t].size # None => held'[t][END_OF_FILE] # "none"
    BY <1>4, <1>11, Cases DEF Reads
  <2>3. \A c \in Blocks : view'[t].block[c] # None => held'[t][c] # "none"
    BY <1>4, <1>11, <2>1, Cases DEF Reads
  <2>4. \A c \in Blocks : view'[t].block[c] \in {None, Contents(file', c)}
    BY <1>11, <1>12, <1>13, Cases DEF Reads
  <2>5. view'[t].size \in {None, length'}  BY <1>11, Cases DEF Reads
  <2> QED  BY <2>2, <2>3, <2>4, <2>5 DEF Reads
<1>18. Seen(t)'
  <2> SUFFICES ASSUME NEW c \in Blocks, held'[t][c] # "none"
               PROVE  view'[t].block[c] = Contents(file', c)
    BY DEF Seen
  <2>1. CASE c = b  BY <1>11, <1>12, <2>1
  <2>2. CASE c # b
    <3>1. held[t][c] # "none"  BY <1>5, <2>2 DEF Lockable
    <3>2. view[t].block[c] = Contents(file, c)  BY <3>1, Cases DEF Seen
    <3> QED  BY <1>11, <1>13, <2>2, <3>2
  <2> QED  BY <2>1, <2>2
<1>19. Writes(t)'
  <2>1. undo[t] \in Seq(SetRecord)  BY <1>1, TypesOfScans
  <2>2. undo'[t] = Append(undo[t], [pos |-> p, old |-> file[p]])
    BY <1>1, <1>6, TypesOfScans
  <2>3. \A i \in DOMAIN undo[t] : undo[t][i].pos[1] \in Lockable
    <3>1. \A i \in DOMAIN undo[t] : undo[t][i] \in SetRecord  BY <2>1
    <3> QED  BY <3>1, Numbers DEF SetRecord, Lockable
  <2>4. ASSUME NEW i \in DOMAIN undo'[t] PROVE held'[t][undo'[t][i].pos[1]] = "exclusive"
    <3>1. CASE i \in DOMAIN undo[t]
      <4>1. undo'[t][i] = undo[t][i]  BY <2>1, <2>2, <3>1
      <4>2. held[t][undo[t][i].pos[1]] = "exclusive"  BY <3>1, Cases DEF Writes
      <4> QED  BY <1>4, <2>3, <3>1, <4>1, <4>2
    <3>2. CASE i \notin DOMAIN undo[t]
      <4>1. undo'[t][i] = [pos |-> p, old |-> file[p]]
        <5>1. PICK log \in Seq(SetRecord), e \in SetRecord :
                 log = undo[t] /\ e = [pos |-> p, old |-> file[p]]
          BY <1>7, <2>1
        <5>2. i \in DOMAIN Append(log, e) /\ i \notin DOMAIN log  BY <2>2, <2>4, <3>2, <5>1
        <5>3. Append(log, e)[i] = e  BY <5>2
        <5> QED  BY <2>2, <5>1, <5>3
      <4> QED  BY <1>3, <1>4, <4>1
    <3> QED  BY <3>1, <3>2
  <2> QED  BY <2>4 DEF Writes
<1>20. Orderly(t)'  BY <1>1 DEF Orderly
<1>21. Pinned(t)'  BY <1>1 DEF Pinned, PagePinned
<1>22. Fresh(t)'  BY DEF Fresh
<1> QED
  BY <1>5, <1>8, <1>14, <1>15, <1>16, <1>17, <1>18, <1>19, <1>20, <1>21, <1>22, StepKeeps
     DEF TxnInv

LEMMA InsertSetsFlagInv ==
    ASSUME TableInv, NEW t \in Txn, InsertSetsFlag(t)
    PROVE  TableInv'
<1>1. /\ call[t] = "Insert" /\ at[t] = "flag"
      /\ Write(t, slot[t], [file[<<page[t], slot[t]>>] EXCEPT !.flag = "USED"])
      /\ Goto(t, "idle", "start")
      /\ length' = length /\ page' = page /\ slot' = slot /\ pins' = pins
      /\ progress' = progress /\ returned' = returned
  BY DEF InsertSetsFlag, In, scan
<1>2. TypeOK /\ page[t] \in Blocks  BY <1>1, Cases DEF Pinned
<1>3. PICK s \in Slots : s = slot[t]
  <2>1. slot[t] \in -1..(NumSlots - 1) /\ slot[t] >= 0  BY <1>1, <1>2, Cases, TypesOfScans DEF Orderly
  <2> QED  BY <2>1, Numbers DEF Slots
<1>4. PICK r \in Record : r = [file[<<page[t], s>>] EXCEPT !.flag = "USED"]
  <2>1. <<page[t], s>> \in Pos  BY <1>2 DEF Pos
  <2>2. file[<<page[t], s>>] \in Record  BY <1>2, <2>1, TypesOfScans
  <2> QED  BY <2>2 DEF Record
<1>5. Write(t, s, r)  BY <1>1, <1>3, <1>4
<1>6. /\ call' \in [Txn -> Call] /\ at' \in [Txn -> At] /\ returned' \in [Txn -> SUBSET Pos]
      /\ call'[t] = "idle" /\ at'[t] = "start"
      /\ \A u \in Txn \ {t} : call'[u] = call[u] /\ at'[u] = at[u]
  BY <1>1, <1>2, TypesOfScans DEF Goto, Call, At
<1>7. Complete(t)'
  <2>1. progress[t] = "lost" /\ returned[t] = {}  BY <1>1, Cases DEF Complete
  <2> QED  BY <1>1, <2>1 DEF Complete
<1> QED  BY <1>1, <1>5, <1>6, <1>7, WriteInv

(* A write on the current slot, after which the scan has still returned the *)
(* records it has passed.                                                  *)
LEMMA SlotWritten ==
    ASSUME TableInv, NEW t \in Txn, NEW s \in Slots, NEW r \in Record, Write(t, s, r),
           OnSlot(t), s = slot[t], MayWrite(t),
           length' = length, page' = page, slot' = slot, pins' = pins, progress' = progress,
           call' = call, at' = at,
           returned' = [returned EXCEPT ![t] = IF r.flag = file[<<page[t], s>>].flag THEN returned[t]
                                               ELSE returned[t] \ {<<page[t], s>>}],
           r.flag \in {"EMPTY", file[<<page[t], s>>].flag}
    PROVE  TableInv'
<1>1. call[t] = "idle" /\ slot[t] >= 0  BY DEF OnSlot, Idle
<1>2. TypeOK /\ page[t] \in Blocks /\ page[t] # None /\ at[t] = "start"
  BY <1>1, Cases DEF Pinned, Idle, Orderly
<1>3. PICK p \in Pos : p = <<page[t], s>>  BY <1>2 DEF Pos
<1>4. /\ returned' \in [Txn -> SUBSET Pos] /\ \A u \in Txn \ {t} : returned'[u] = returned[u]
      /\ r.flag = file[p].flag => returned'[t] = returned[t]
      /\ r.flag # file[p].flag => returned'[t] = returned[t] \ {p}
  BY <1>2, <1>3, TypesOfScans
<1>5. /\ call' \in [Txn -> Call] /\ at' \in [Txn -> At] /\ call'[t] = "idle" /\ at'[t] = "start"
  BY <1>1, <1>2, TypesOfScans
<1>6. /\ \A c \in Lockable : held[t][c] # "none" => held'[t][c] # "none"
      /\ file'[p] = r /\ \A q \in Pos : q # p => file'[q] = file[q]
  BY <1>2, <1>3, Written
<1>7. Complete(t)'
  <2>1. Passed(t)' = Passed(t)  BY DEF Passed, UpTo
  <2>2. \A q \in Passed(t) : q \in Pos /\ q[1] \in Lockable
    BY Numbers DEF Passed, UpTo, Lockable
  <2>3. CASE progress[t] = "lost"
    <3>1. returned[t] = {}  BY <2>3, Cases DEF Complete
    <3> QED  BY <1>4, <2>3, <3>1 DEF Complete
  <2>4. CASE progress[t] # "lost"
    <3>1. /\ progress[t] # "done"
          /\ returned[t] = {q \in Passed(t) : file[q].flag = "USED"}
          /\ \A q \in Passed(t) : held[t][q[1]] # "none"
      BY <1>1, <2>4, Cases DEF Complete
    <3>2. \A q \in Passed(t)' : held'[t][q[1]] # "none"  BY <1>6, <2>1, <2>2, <3>1
    <3>3. returned'[t] = {q \in Passed(t)' : file'[q].flag = "USED"}
      <4>1. CASE r.flag = file[p].flag
        <5>1. \A q \in Pos : file'[q].flag = file[q].flag  BY <1>6, <4>1
        <5> QED  BY <1>4, <2>1, <2>2, <3>1, <4>1, <5>1
      <4>2. CASE r.flag # file[p].flag
        <5>1. file'[p].flag = "EMPTY"  BY <1>3, <1>6, <4>2
        <5> QED  BY <1>4, <1>6, <2>1, <2>2, <3>1, <4>2, <5>1
      <4> QED  BY <4>1, <4>2
    <3> QED  BY <1>5, <2>4, <3>1, <3>2, <3>3 DEF Complete
  <2> QED  BY <2>3, <2>4
<1> QED  BY <1>1, <1>2, <1>4, <1>5, <1>7, WriteInv

LEMMA SetValInv ==
    ASSUME TableInv, NEW t \in Txn, NEW v \in 0..MaxVal, SetVal(t, v)
    PROVE  TableInv'
<1>1. /\ OnSlot(t) /\ MayWrite(t)
      /\ Write(t, slot[t], [file[<<page[t], slot[t]>>] EXCEPT !.val = v])
      /\ length' = length /\ page' = page /\ slot' = slot /\ pins' = pins
      /\ call' = call /\ at' = at /\ progress' = progress /\ returned' = returned
  BY DEF SetVal, scan, where
<1>2. TypeOK /\ page[t] \in Blocks  BY <1>1, Cases DEF Pinned, OnSlot
<1>3. PICK s \in Slots : s = slot[t]
  <2>1. slot[t] \in -1..(NumSlots - 1) /\ slot[t] >= 0  BY <1>1, <1>2, TypesOfScans DEF OnSlot
  <2> QED  BY <2>1, Numbers DEF Slots
<1>4. file[<<page[t], s>>] \in Record
  <2>1. <<page[t], s>> \in Pos  BY <1>2 DEF Pos
  <2> QED  BY <1>2, <2>1, TypesOfScans
<1>5. PICK r \in Record : r = [file[<<page[t], s>>] EXCEPT !.val = v]
  BY <1>4 DEF Record
<1>6. r.flag = file[<<page[t], s>>].flag  BY <1>4, <1>5 DEF Record
<1>7. returned' = [returned EXCEPT ![t] = returned[t]]  BY <1>1, <1>2, TypesOfScans
<1>8. Write(t, s, r)  BY <1>1, <1>3, <1>5
<1> QED  BY <1>1, <1>3, <1>6, <1>7, <1>8, SlotWritten

LEMMA DeleteInv ==
    ASSUME TableInv, NEW t \in Txn, Delete(t)
    PROVE  TableInv'
<1>1. /\ OnSlot(t) /\ MayWrite(t)
      /\ Write(t, slot[t], [file[<<page[t], slot[t]>>] EXCEPT !.flag = "EMPTY"])
      /\ returned' = [returned EXCEPT ![t] = returned[t] \ {<<page[t], slot[t]>>}]
      /\ length' = length /\ page' = page /\ slot' = slot /\ pins' = pins
      /\ call' = call /\ at' = at /\ progress' = progress
  BY DEF Delete, scan, where
<1>2. TypeOK /\ page[t] \in Blocks /\ at[t] = "start"
  BY <1>1, Cases DEF Pinned, OnSlot, Idle, Orderly
<1>3. PICK s \in Slots : s = slot[t]
  <2>1. slot[t] \in -1..(NumSlots - 1) /\ slot[t] >= 0  BY <1>1, <1>2, TypesOfScans DEF OnSlot
  <2> QED  BY <2>1, Numbers DEF Slots
<1>4. file[<<page[t], s>>] \in Record /\ <<page[t], s>> \in Pos
  <2>1. <<page[t], s>> \in Pos  BY <1>2 DEF Pos
  <2> QED  BY <1>2, <2>1, TypesOfScans
<1>5. PICK r \in Record : r = [file[<<page[t], s>>] EXCEPT !.flag = "EMPTY"] /\ r.flag = "EMPTY"
  <2>1. PICK old \in Record : old = file[<<page[t], s>>]  BY <1>4
  <2>2. [old EXCEPT !.flag = "EMPTY"] \in Record /\ [old EXCEPT !.flag = "EMPTY"].flag = "EMPTY"
    BY DEF Record
  <2> QED  BY <2>1, <2>2
<1>6. returned' = [returned EXCEPT ![t] = IF r.flag = file[<<page[t], s>>].flag THEN returned[t]
                                          ELSE returned[t] \ {<<page[t], s>>}]
  <2>1. CASE file[<<page[t], s>>].flag # "EMPTY"  BY <1>1, <1>3, <1>5, <2>1
  <2>2. CASE file[<<page[t], s>>].flag = "EMPTY"
    <3>1. <<page[t], s>> \notin returned[t]  BY <2>2, Cases DEF Complete
    <3>2. returned[t] \ {<<page[t], s>>} = returned[t]  BY <3>1
    <3> QED  BY <1>1, <1>3, <1>5, <2>2, <3>2
  <2> QED  BY <2>1, <2>2
<1>7. Write(t, s, r)  BY <1>1, <1>3, <1>5
<1> QED  BY <1>1, <1>3, <1>5, <1>6, <1>7, SlotWritten

-----------------------------------------------------------------------------
(* The end of a transaction *)

LEMMA EndInv ==
    ASSUME TableInv, NEW t \in Txn, End(t), file' \in [Pos -> Record],
           \A p \in Pos : file'[p] # file[p] => held[t][p[1]] = "exclusive"
    PROVE  TableInv'
<1>1. /\ call[t] \in {"closed", "idle", "failed"}
      /\ held' = [held EXCEPT ![t] = [b \in DOMAIN held[t] |-> "none"]]
      /\ pins' = [pins EXCEPT ![t] = NoPins]
      /\ Goto(t, "closed", "start")
      /\ undo' = [undo EXCEPT ![t] = <<>>]
      /\ view' = [view EXCEPT ![t] = NothingRead]
      /\ NoScan(t) /\ length' = length
  BY DEF End
<1>2. TypeOK  BY Cases
<1>3. /\ held' \in [Txn -> [Lockable -> Lock!Mode]]
      /\ \A b \in Lockable : held'[t][b] = "none"
      /\ \A u \in Txn \ {t} : held'[u] = held[u]
  <2>1. held \in [Txn -> [Lockable -> Lock!Mode]]  BY <1>2, TypesOfScans
  <2>2. held' = [held EXCEPT ![t] = [b \in Lockable |-> "none"]]  BY <1>1, <2>1
  <2>3. [b \in Lockable |-> "none"] \in [Lockable -> Lock!Mode]  BY DEF Lock!Mode
  <2> QED  BY <2>1, <2>2, <2>3
<1>4. /\ pins' \in [Txn -> [Blocks -> 0..1]] /\ pins'[t] = NoPins
      /\ \A u \in Txn \ {t} : pins'[u] = pins[u]
  <2>1. NoPins \in [Blocks -> 0..1]  BY DEF NoPins
  <2> QED  BY <1>1, <1>2, <2>1, TypesOfScans
<1>5. /\ page' \in [Txn -> Blocks \cup {None}] /\ slot' \in [Txn -> -1..(NumSlots - 1)]
      /\ progress' \in [Txn -> Progress] /\ returned' \in [Txn -> SUBSET Pos]
      /\ page'[t] = None /\ slot'[t] = -1 /\ progress'[t] = "lost" /\ returned'[t] = {}
      /\ \A u \in Txn \ {t} : /\ page'[u] = page[u] /\ slot'[u] = slot[u]
                              /\ progress'[u] = progress[u] /\ returned'[u] = returned[u]
  <2>1. -1 \in -1..(NumSlots - 1)  BY Numbers
  <2> QED  BY <1>1, <1>2, <2>1, TypesOfScans DEF NoScan, Progress
<1>6. /\ call' \in [Txn -> Call] /\ at' \in [Txn -> At]
      /\ call'[t] = "closed" /\ at'[t] = "start"
      /\ \A u \in Txn \ {t} : call'[u] = call[u] /\ at'[u] = at[u]
  BY <1>1, <1>2, TypesOfScans DEF Goto, Call, At
<1>7. /\ ViewType' /\ view'[t].size = None /\ \A b \in Blocks : view'[t].block[b] = None
      /\ \A u \in Txn \ {t} : view'[u] = view[u]
  <2>1. view \in [Txn -> [block : [Blocks -> [Slots -> Record] \cup {None}],
                          size : 0..MaxBlocks \cup {None}]]
    BY <1>2, TypesOfScans
  <2>2. /\ NothingRead \in [block : [Blocks -> [Slots -> Record] \cup {None}],
                            size : 0..MaxBlocks \cup {None}]
        /\ NothingRead.size = None /\ \A b \in Blocks : NothingRead.block[b] = None
    BY DEF NothingRead
  <2> QED  BY <1>1, <2>1, <2>2 DEF ViewType
<1>8. /\ undo' \in [Txn -> Seq(SetRecord)] /\ undo'[t] = <<>>
      /\ \A u \in Txn \ {t} : undo'[u] = undo[u]
  <2>1. undo \in [Txn -> Seq(SetRecord)] /\ <<>> \in Seq(SetRecord)  BY <1>2, TypesOfScans
  <2> QED  BY <1>1, <2>1
<1>9. WritesAreBounded'
  <2>1. Writing' = Writing  BY <1>1, <1>6 DEF Writing
  <2>2. PICK log \in Logs, next \in Logs : log = undo /\ next = undo'
    BY <1>2, <1>8, TypesOfScans DEF Logs
  <2>3. PICK k \in Nat : k = Len(log[t])  BY DEF Logs
  <2>4. Len(next[t]) = 0  BY <1>8, <2>2
  <2>5. PICK n \in Nat : n = Cardinality(Writing)
    <3>1. Writing \subseteq Txn  BY DEF Writing
    <3> QED  BY <3>1, TableAssumption, FS_Subset, FS_CardinalityType
  <2>6. \A u \in Txn \ {t} : next[u] = log[u]  BY <1>8, <2>2
  <2>7. /\ Logged(log, n) \in Nat /\ Logged(next, n) \in Nat
        /\ Logged(next, n) - n - Len(next[t]) = Logged(log, n) - n - Len(log[t])
    BY <2>6, LoggedChanges
  <2>8. Logged(log, n) <= MaxWrites  BY <2>2, <2>5, Cases DEF WritesAreBounded
  <2>9. Logged(next, n) <= MaxWrites  BY <2>3, <2>4, <2>7, <2>8, Numbers
  <2> QED  BY <2>1, <2>2, <2>5, <2>9 DEF WritesAreBounded
<1>10. TypeOK'
  <2>1. length' \in 0..MaxBlocks  BY <1>1, <1>2, TypesOfScans
  <2> QED  BY <1>3, <1>4, <1>5, <1>6, <1>7, <1>8, <1>9, <2>1, TypesKept DEF ViewType
<1>11. LocksExclude'
  <2> SUFFICES ASSUME NEW u \in Txn, NEW v \in Txn, NEW b \in Lockable,
                      held'[u][b] = "exclusive", v # u
               PROVE  held'[v][b] = "none"
    BY DEF LocksExclude, Lockable
  <2>1. u # t /\ held[u][b] = "exclusive"  BY <1>3
  <2> QED  BY <1>3, <2>1, Cases DEF LocksExclude
<1>12. NothingBehindEnd'
  <2>1. \A p \in Pos : p[1] >= length => file'[p] = Zeroed
    BY Cases, Numbers DEF NothingBehindEnd
  <2>2. \A u \in Txn, b \in Blocks : b >= length => held'[u][b] = "none"
    BY <1>3, Cases DEF NothingBehindEnd, Lockable
  <2> QED  BY <1>1, <2>1, <2>2 DEF NothingBehindEnd
<1>13. StepOf(t)
  <2>1. \A u \in Txn \ {t} : StaysPut(u)
    BY <1>3, <1>4, <1>5, <1>6, <1>7, <1>8 DEF StaysPut
  <2>2. \A p \in Pos : file'[p] # file[p] => OthersOut(t, p[1])
    BY Cases, Numbers DEF OthersOut, LocksExclude, Lockable
  <2>3. ASSUME NEW u \in Txn \ {t}, at[u] = "format"
        PROVE  /\ page'[t] # page[u] /\ held'[t][page[u]] = "none"
               /\ \A p \in Pos : p[1] = page[u] => file'[p] = file[p]
    <3>1. held[t][page[u]] = "none"  BY <2>3, Cases DEF Fresh
    <3>2. page[u] # None /\ page[u] \in Lockable
      <4>1. Pinned(u)  BY Cases
      <4> QED  BY <2>3, <4>1, Cases DEF Pinned
    <3> QED  BY <1>3, <1>5, <3>1, <3>2
  <2> QED  BY <1>1, <2>1, <2>2, <2>3 DEF StepOf
<1>14. Orderly(t)' /\ Fresh(t)'  BY <1>5, <1>6 DEF Orderly, Fresh
<1>15. Pinned(t)'
  <2>1. NoPins' = NoPins  BY DEF NoPins
  <2> QED  BY <1>4, <1>6, <2>1 DEF Pinned, Idle
<1>16. Reads(t)'  BY <1>7 DEF Reads
<1>17. Seen(t)'  BY <1>3 DEF Seen, Lockable
<1>18. Writes(t)'
  <2>1. DOMAIN undo'[t] = {}  BY <1>8
  <2> QED  BY <2>1 DEF Writes
<1>19. Complete(t)'  BY <1>5 DEF Complete
<1> QED
  BY <1>9, <1>10, <1>11, <1>12, <1>13, <1>14, <1>15, <1>16, <1>17, <1>18, <1>19, StepKeeps
     DEF TxnInv

LEMMA CommitInv ==
    ASSUME TableInv, NEW t \in Txn, Commit(t)
    PROVE  TableInv'
<1>1. End(t) /\ file' = file  BY DEF Commit
<1>2. file' \in [Pos -> Record]  BY <1>1, Cases, TypesOfScans
<1> QED  BY <1>1, <1>2, EndInv

(* Only slots of blocks that are locked exclusively are undone. *)
LEMMA RollbackInv ==
    ASSUME TableInv, NEW t \in Txn, Rollback(t)
    PROVE  TableInv'
<1>1. End(t) /\ file' = Undo(undo[t], file)  BY DEF Rollback
<1>2. PICK log \in Seq(SetRecord), f \in [Pos -> Record] : log = undo[t] /\ f = file
  BY Cases, TypesOfScans
<1>3. /\ file' \in [Pos -> Record]
      /\ \A p \in Pos : WritesTo(log, p) = {} => file'[p] = file[p]
  BY <1>1, <1>2, UndoIsOldest
<1>4. ASSUME NEW p \in Pos, file'[p] # file[p] PROVE held[t][p[1]] = "exclusive"
  <2>1. PICK i \in DOMAIN log : log[i].pos = p  BY <1>3, <1>4 DEF WritesTo
  <2> QED  BY <1>2, <2>1, Cases DEF Writes
<1> QED  BY <1>1, <1>3, <1>4, EndInv

-----------------------------------------------------------------------------
(* The theorems *)

LEMMA NextTableInv == TableInv /\ [Next]_vars => TableInv'
<1> SUFFICES ASSUME TableInv, [Next]_vars PROVE TableInv'  OBVIOUS
<1>1. CASE UNCHANGED vars
  <2>1. /\ file' = file /\ length' = length /\ held' = held /\ page' = page /\ slot' = slot
        /\ pins' = pins /\ call' = call /\ at' = at /\ undo' = undo /\ view' = view
        /\ progress' = progress /\ returned' = returned
    BY <1>1 DEF vars, scan, where, history
  <2>2. TypeOK'  BY <2>1 DEF TableInv, TypeOK, Lock!TypeOK
  <2>3. LocksExclude' /\ NothingBehindEnd' /\ WritesAreBounded'
    BY <2>1 DEF TableInv, LocksExclude, NothingBehindEnd, WritesAreBounded, Writing
  <2>4. ASSUME NEW t \in Txn PROVE TxnInv(t)'
    <3>1. Orderly(t)' /\ Pinned(t)' /\ Fresh(t)'
      BY <2>1, Cases DEF Orderly, Pinned, Fresh, Idle
    <3>2. Reads(t)' /\ Seen(t)' /\ Writes(t)'  BY <2>1, Cases DEF Reads, Seen, Writes
    <3>3. Complete(t)'
      <4>1. Passed(t)' = Passed(t) /\ (Idle(t)' <=> Idle(t))  BY <2>1 DEF Passed, UpTo, Idle
      <4> QED  BY <2>1, <4>1, Cases DEF Complete
    <3> QED  BY <3>1, <3>2, <3>3 DEF TxnInv
  <2> QED  BY <2>2, <2>3, <2>4 DEF TableInv
<1>2. ASSUME NEW t \in Txn, Open(t) PROVE TableInv'  BY <1>2, OpenInv
<1>3. ASSUME NEW t \in Txn, NextSearches(t) PROVE TableInv'  BY <1>3, NextSearchesInv
<1>4. ASSUME NEW t \in Txn, NextAtLastBlock(t) PROVE TableInv'  BY <1>4, NextAtLastBlockInv
<1>5. ASSUME NEW t \in Txn, InsertSearches(t) PROVE TableInv'  BY <1>5, InsertSearchesInv
<1>6. ASSUME NEW t \in Txn, InsertSetsFlag(t) PROVE TableInv'  BY <1>6, InsertSetsFlagInv
<1>7. ASSUME NEW t \in Txn, InsertAtLastBlock(t) PROVE TableInv'
  BY <1>7, InsertAtLastBlockInv
<1>8. ASSUME NEW t \in Txn, AppendBlock(t) PROVE TableInv'  BY <1>8, AppendBlockInv
<1>9. ASSUME NEW t \in Txn, FormatNewBlock(t) PROVE TableInv'  BY <1>9, FormatNewBlockInv
<1>10. ASSUME NEW t \in Txn, ShareNewBlock(t) PROVE TableInv'  BY <1>10, ShareNewBlockInv
<1>11. ASSUME NEW t \in Txn, GetVal(t) PROVE TableInv'  BY <1>11, GetValInv
<1>12. ASSUME NEW t \in Txn, Delete(t) PROVE TableInv'  BY <1>12, DeleteInv
<1>13. ASSUME NEW t \in Txn, BeforeFirst(t) PROVE TableInv'  BY <1>13, BeforeFirstInv
<1>14. ASSUME NEW t \in Txn, Close(t) PROVE TableInv'  BY <1>14, CloseInv
<1>15. ASSUME NEW t \in Txn, LockAbort(t) PROVE TableInv'  BY <1>15, LockAbortInv
<1>16. ASSUME NEW t \in Txn, Commit(t) PROVE TableInv'  BY <1>16, CommitInv
<1>17. ASSUME NEW t \in Txn, Rollback(t) PROVE TableInv'  BY <1>17, RollbackInv
<1>18. ASSUME NEW t \in Txn, NEW v \in 0..MaxVal, SetVal(t, v) PROVE TableInv'
  BY <1>18, SetValInv
<1>19. ASSUME NEW t \in Txn, NEW rid \in Pos, MoveToRID(t, rid) PROVE TableInv'
  BY <1>19, MoveToRIDInv
<1> QED
  BY <1>1, <1>2, <1>3, <1>4, <1>5, <1>6, <1>7, <1>8, <1>9, <1>10, <1>11, <1>12, <1>13,
     <1>14, <1>15, <1>16, <1>17, <1>18, <1>19 DEF Next

(* The invariant holds in every state. *)
THEOREM InvariantHolds == Spec => []TableInv
BY InitTableInv, NextTableInv, PTL DEF Spec

(* Every variable keeps its type, and the logs of the transactions under   *)
(* way stay within the bound.                                              *)
THEOREM TypeCorrect == Spec => []TypeOK
<1>1. TableInv => TypeOK  BY DEF TableInv
<1> QED  BY <1>1, InvariantHolds, PTL

(* What a transaction has read through RecordPage and Transaction::Size is *)
(* what it would read now, until it ends: the locks of ConcurrencyManager  *)
(* are enough for it, phantoms and roll backs of others included.          *)
THEOREM RepeatableReads == Spec => []ReadsAreRepeatable
<1>1. TableInv => ReadsAreRepeatable  BY DEF TableInv, TxnInv, Reads, ReadsAreRepeatable
<1> QED  BY <1>1, InvariantHolds, PTL

(* TableScan::Next returns every record from the first one on, and no other *)
(* slot, whatever else the transaction and others do meanwhile.            *)
THEOREM CompleteScans == Spec => []ScanReturnsTheTable
<1>1. TableInv => ScanReturnsTheTable
  <2> SUFFICES ASSUME TableInv, NEW t \in Txn, Idle(t), progress[t] # "lost"
               PROVE  returned[t] = {p \in IF progress[t] = "done" THEN Pos ELSE UpTo(t) :
                                        file[p].flag = "USED"}
    BY DEF ScanReturnsTheTable
  <2>1. returned[t] = {p \in Passed(t) : file[p].flag = "USED"} /\ at[t] = "start"
    BY Cases DEF Complete, Orderly, Idle
  <2>2. CASE progress[t] = "done"
    <3>1. page[t] = length - 1 /\ Passed(t) = {p \in Pos : p[1] <= page[t]}
      BY <2>2, Cases DEF Complete, Passed
    <3>2. length \in Nat /\ \A p \in Pos : p[1] \in Nat  BY Cases, TypesOfScans, Numbers
    <3>3. \A p \in Pos : p \notin Passed(t) => file[p] = Zeroed
      BY <3>1, <3>2, Cases DEF NothingBehindEnd
    <3>4. Zeroed.flag # "USED"  BY DEF Zeroed
    <3> QED  BY <2>1, <2>2, <3>1, <3>3, <3>4
  <2>3. CASE progress[t] # "done"
    <3>1. ~(progress[t] = "done" \/ at[t] = "last")  BY <2>1, <2>3
    <3>2. Passed(t) = UpTo(t)  BY <3>1 DEF Passed
    <3> QED  BY <2>1, <2>3, <3>2
  <2> QED  BY <2>2, <2>3
<1> QED  BY <1>1, InvariantHolds, PTL

(* A scan has its page pinned when it is about to use it, and pins nothing *)
(* else: no GetInt or SetInt throws for a block that is not pinned, and    *)
(* Close gives back all the pins.                                          *)
THEOREM PinnedPages == Spec => []PageIsPinned
<1>1. TableInv => PageIsPinned  BY DEF TableInv, TxnInv, Pinned, PageIsPinned
<1> QED  BY <1>1, InvariantHolds, PTL

-----------------------------------------------------------------------------
(* The file as an atomic store *)

(* What the abstract store and its pending writes are mapped to. *)
Stored == Committed(undo, file)
Wrote(t, p) == WritesTo(undo[t], p) # {}
Oldest(t, p) == undo[t][Min(WritesTo(undo[t], p))].old
Pending == [t \in Txn |-> [p \in Pos |-> IF Wrote(t, p) THEN file[p] ELSE None]]

(* Nobody but its writer has written to a slot, and what is stored in it is *)
(* what the first write found there.                                       *)
StoreIsRight ==
    /\ Stored \in [Pos -> Record]
    /\ \A p \in Pos : (\A t \in Txn : ~Wrote(t, p)) => Stored[p] = file[p]
    /\ \A p \in Pos, t \in Txn : Wrote(t, p) => Stored[p] = Oldest(t, p)
    /\ \A t, u \in Txn, p \in Pos : Wrote(t, p) /\ Wrote(u, p) => t = u

LEMMA StoredValues == TableInv => StoreIsRight
<1> SUFFICES ASSUME TableInv PROVE StoreIsRight  OBVIOUS
<1>1. PICK u \in Logs, f \in [Pos -> Record] : u = undo /\ f = file
  <2>1. TypeOK  BY DEF TableInv
  <2> QED  BY <2>1, TypesOfScans DEF Logs
<1>2. ASSUME NEW t \in Txn, NEW v \in Txn, NEW p \in Pos, Wrote(t, p), Wrote(v, p)
      PROVE  t = v
  <2>1. Writes(t) /\ Writes(v) /\ LocksExclude  BY Cases
  <2>2. p[1] \in Lockable  BY Numbers DEF Lockable
  <2>3. held[t][p[1]] = "exclusive" /\ held[v][p[1]] = "exclusive"
    BY <1>2, <2>1 DEF Wrote, WritesTo, Writes
  <2> QED  BY <2>1, <2>2, <2>3 DEF LocksExclude
<1>3. \A t, v \in Txn, p \in Pos : WritesTo(u[t], p) # {} /\ WritesTo(u[v], p) # {} => t = v
  BY <1>1, <1>2 DEF Wrote
<1>4. /\ Committed(u, f) \in [Pos -> Record]
      /\ \A p \in Pos : (\A t \in Txn : WritesTo(u[t], p) = {}) => Committed(u, f)[p] = f[p]
      /\ \A p \in Pos, t \in Txn :
            WritesTo(u[t], p) # {} => Committed(u, f)[p] = u[t][Min(WritesTo(u[t], p))].old
  BY <1>3, CommittedIsOldest
<1>5. Stored = Committed(u, f)  BY <1>1 DEF Stored
<1> HIDE DEF Stored
<1> QED  BY <1>1, <1>2, <1>4, <1>5 DEF StoreIsRight, Wrote, Oldest

LEMMA StoredNext == TableInv' => StoreIsRight'
BY StoredValues, PTL

LEMMA MappedPending ==
    TypeOK => Pending = [t \in Txn |-> LET written == WrittenBy(t) IN
                            [p \in Pos |-> IF p \in written THEN file[p] ELSE None]]
<1>1. \A t \in Txn, p \in Pos : Wrote(t, p) <=> p \in WrittenBy(t)
  BY DEF Wrote, WritesTo, WrittenBy
<1> QED  BY <1>1 DEF Pending

LEMMA MappedNext ==
    TypeOK' => Pending' = [t \in Txn |-> LET written == WrittenBy(t)' IN
                            [p \in Pos |-> IF p \in written THEN file'[p] ELSE None]]
<1>1. \A t \in Txn, p \in Pos : Wrote(t, p)' <=> p \in WrittenBy(t)'
  BY DEF Wrote, WritesTo, WrittenBy
<1> QED  BY <1>1 DEF Pending

LEMMA MappedStore == Stored = FoldFunction(Undo, file, undo) /\ Stored' = FoldFunction(Undo, file', undo')
BY DEF Stored, Committed

LEMMA MappedStutter ==
    ASSUME TypeOK, TypeOK', Stored' = Stored, Pending' = Pending
    PROVE  UNCHANGED Abstract!vars
BY MappedPending, MappedNext, MappedStore DEF Abstract!vars

LEMMA MappedWrite ==
    ASSUME TypeOK, TypeOK', NEW t \in Txn, NEW p \in Pos, NEW r \in Record,
           \A u \in Txn \ {t} : Pending[u][p] = None,
           Pending' = [Pending EXCEPT ![t][p] = r], Stored' = Stored
    PROVE  Abstract!Write(t, p)
BY MappedPending, MappedNext, MappedStore DEF Abstract!Write

LEMMA MappedEnd ==
    ASSUME TypeOK, TypeOK', NEW C \in SUBSET Txn, NEW A \in SUBSET Txn,
           Stored' = [p \in Pos |-> IF \E t \in C : Pending[t][p] # None
                                    THEN Pending[CHOOSE t \in C : Pending[t][p] # None][p]
                                    ELSE Stored[p]],
           Pending' = [t \in Txn |-> IF t \in C \cup A THEN [p \in Pos |-> None] ELSE Pending[t]]
    PROVE  Abstract!End(C, A)
<1> DEFINE P == [t \in Txn |-> LET written == WrittenBy(t) IN
                   [p \in Pos |-> IF p \in written THEN file[p] ELSE None]]
<1> DEFINE S == FoldFunction(Undo, file, undo)
<1>1. Pending = P /\ Pending' = P' /\ Stored = S /\ Stored' = S'
  BY MappedPending, MappedNext, MappedStore
<1>2. /\ S' = [p \in Pos |-> IF \E t \in C : P[t][p] # None
                              THEN P[CHOOSE t \in C : P[t][p] # None][p] ELSE S[p]]
      /\ P' = [t \in Txn |-> IF t \in C \cup A THEN [p \in Pos |-> None] ELSE P[t]]
  <2> HIDE DEF P, S, Pending, Stored
  <2> QED  BY <1>1
<1>3. Abstract!Untouched = [p \in Pos |-> None]  BY DEF Abstract!Untouched
<1> QED  BY <1>2, <1>3, Zenon DEF Abstract!End

(* A record more in the log: the first writes stay, or there is a new one. *)
FirstsKept(log, longer, p, old) ==
    /\ \A q \in Pos \ {p} : WritesTo(longer, q) = WritesTo(log, q)
    /\ \A q \in Pos : WritesTo(log, q) # {} =>
          longer[Min(WritesTo(longer, q))] = log[Min(WritesTo(log, q))]
    /\ WritesTo(longer, p) # {}
    /\ WritesTo(log, p) = {} => longer[Min(WritesTo(longer, p))].old = old

LEMMA WritesToAppended ==
    ASSUME NEW log \in Seq(SetRecord), NEW p \in Pos, NEW old \in Record,
           NEW longer, longer = Append(log, [pos |-> p, old |-> old])
    PROVE  FirstsKept(log, longer, p, old)
<1> DEFINE e == [pos |-> p, old |-> old]
<1>1. PICK n \in Nat : n = Len(log) /\ DOMAIN log = 1..n /\ DOMAIN longer = 1..(n + 1)
  BY DEF SetRecord
<1>2. /\ \A i \in 1..n : longer[i] = log[i]
      /\ longer[n + 1] = e
  BY <1>1 DEF SetRecord
<1>3. longer[n + 1].pos = p /\ longer[n + 1].old = old
  <2>1. e.pos = p /\ e.old = old  OBVIOUS
  <2> HIDE DEF e
  <2> QED  BY <1>2, <2>1
<1>4. longer \in Seq(SetRecord)  BY DEF SetRecord
<1>5. /\ \A s \in SUBSET (1..n) : s # {} => Min(s) \in s /\ \A i \in s : Min(s) <= i
      /\ \A s \in SUBSET (1..(n + 1)) : s # {} => Min(s) \in s /\ \A i \in s : Min(s) <= i
  BY <1>1, <1>4, SeqPositions
<1> HIDE DEF e
<1>6. \A q \in Pos \ {p} : WritesTo(longer, q) = WritesTo(log, q)
  BY <1>1, <1>2, <1>3 DEF WritesTo
<1>7. WritesTo(longer, p) = WritesTo(log, p) \cup {n + 1}
  BY <1>1, <1>2, <1>3 DEF WritesTo
<1>8. \A q \in Pos : WritesTo(log, q) \in SUBSET (1..n)  BY <1>1 DEF WritesTo
<1>9. ASSUME NEW q \in Pos, WritesTo(log, q) # {}
      PROVE  longer[Min(WritesTo(longer, q))] = log[Min(WritesTo(log, q))]
  <2>1. PICK m \in 1..n : m = Min(WritesTo(log, q)) /\ m \in WritesTo(log, q)
                          /\ \A i \in WritesTo(log, q) : m <= i
    BY <1>5, <1>8, <1>9
  <2>2. Min(WritesTo(longer, q)) = m
    <3>1. CASE q # p  BY <1>6, <2>1, <3>1
    <3>2. CASE q = p
      <4>1. WritesTo(longer, p) \in SUBSET (1..(n + 1)) /\ WritesTo(longer, p) # {}
        BY <1>7, <1>8
      <4>2. PICK k \in 1..(n + 1) : k = Min(WritesTo(longer, p)) /\ k \in WritesTo(longer, p)
                                    /\ \A i \in WritesTo(longer, p) : k <= i
        BY <1>5, <4>1
      <4>3. k <= m  BY <1>7, <2>1, <3>2, <4>2
      <4>4. k # n + 1  BY <2>1, <4>3
      <4>5. m <= k  BY <1>7, <2>1, <3>2, <4>2, <4>4
      <4> QED  BY <3>2, <4>2, <4>3, <4>5
    <3> QED  BY <3>1, <3>2
  <2> QED  BY <1>2, <2>1, <2>2
<1>10. ASSUME WritesTo(log, p) = {} PROVE longer[Min(WritesTo(longer, p))].old = old
  <2>1. WritesTo(longer, p) = {n + 1} /\ {n + 1} \in SUBSET (1..(n + 1))  BY <1>7, <1>10
  <2>2. Min({n + 1}) = n + 1  BY <1>5, <2>1
  <2> QED  BY <1>3, <2>1, <2>2
<1> QED  BY <1>6, <1>7, <1>9, <1>10 DEF FirstsKept

LEMMA WriteImplements ==
    ASSUME TableInv, TableInv', NEW t \in Txn, NEW s \in Slots, NEW r \in Record,
           Write(t, s, r), page[t] # None, length' = length
    PROVE  Abstract!Next
<1>1. TypeOK /\ page[t] \in Blocks  BY Cases
<1>2. PICK p \in Pos : p = <<page[t], s>>  BY <1>1 DEF Pos
<1>3. /\ held[t][p[1]] # "none" /\ \A u \in Txn \ {t} : held[u][p[1]] = "none"
      /\ file' \in [Pos -> Record] /\ file'[p] = r
      /\ \A q \in Pos : q # p => file'[q] = file[q]
  BY <1>2, Written
<1>4. PICK log \in Seq(SetRecord), old \in Record, longer \in Seq(SetRecord) :
         /\ log = undo[t] /\ old = file[p] /\ longer = Append(log, [pos |-> p, old |-> old])
  <2>1. undo[t] \in Seq(SetRecord) /\ file[p] \in Record  BY <1>1, TypesOfScans
  <2>2. [pos |-> p, old |-> file[p]] \in SetRecord  BY <2>1 DEF SetRecord
  <2>3. Append(undo[t], [pos |-> p, old |-> file[p]]) \in Seq(SetRecord)  BY <2>1, <2>2
  <2> QED  BY <2>1, <2>3, Zenon
<1>5. undo' = [undo EXCEPT ![t] = longer]  BY <1>2, <1>4 DEF Write
<1>6. undo'[t] = longer /\ \A u \in Txn \ {t} : undo'[u] = undo[u]
  BY <1>1, <1>5, TypesOfScans
<1>7. FirstsKept(log, longer, p, old)
  <2>1. longer = Append(log, [pos |-> p, old |-> old])  BY <1>4
  <2> QED  BY <2>1, WritesToAppended, Zenon
<1>8. /\ \A u \in Txn, q \in Pos : u # t \/ q # p => (Wrote(u, q)' <=> Wrote(u, q))
      /\ \A u \in Txn, q \in Pos : Wrote(u, q) => Oldest(u, q)' = Oldest(u, q)
      /\ Wrote(t, p)' /\ (~Wrote(t, p) => Oldest(t, p)' = file[p])
  BY <1>4, <1>6, <1>7 DEF Wrote, Oldest, FirstsKept
<1>9. ASSUME NEW u \in Txn \ {t} PROVE ~Wrote(u, p)
  <2>1. Writes(u)  BY Cases
  <2> QED  BY <1>3, <2>1 DEF Wrote, WritesTo, Writes
<1>10. StoreIsRight /\ StoreIsRight'  BY StoredValues, StoredNext
<1>11. Stored' = Stored
  <2>1. ASSUME NEW q \in Pos PROVE Stored'[q] = Stored[q]
    <3>1. CASE \E u \in Txn : Wrote(u, q)
      <4>1. PICK u \in Txn : Wrote(u, q)  BY <3>1
      <4>2. Wrote(u, q)' /\ Oldest(u, q)' = Oldest(u, q)  BY <1>8, <4>1
      <4> QED  BY <1>10, <4>1, <4>2 DEF StoreIsRight
    <3>2. CASE \A u \in Txn : ~Wrote(u, q)
      <4>1. Stored[q] = file[q]  BY <1>10, <3>2 DEF StoreIsRight
      <4>2. CASE q = p
        <5>1. Stored'[p] = Oldest(t, p)'  BY <1>8, <1>10 DEF StoreIsRight
        <5> QED  BY <1>8, <3>2, <4>1, <4>2, <5>1
      <4>3. CASE q # p
        <5>1. \A u \in Txn : ~Wrote(u, q)'  BY <1>8, <3>2, <4>3
        <5>2. Stored'[q] = file'[q]  BY <1>10, <5>1 DEF StoreIsRight
        <5> QED  BY <1>3, <4>1, <4>3, <5>2
      <4> QED  BY <4>2, <4>3
    <3> QED  BY <3>1, <3>2
  <2>2. Stored \in [Pos -> Record] /\ Stored' \in [Pos -> Record]  BY <1>10 DEF StoreIsRight
  <2> QED  BY <2>1, <2>2
<1>12. Pending' = [Pending EXCEPT ![t][p] = r]
  <2>1. ASSUME NEW u \in Txn, NEW q \in Pos
        PROVE  Pending'[u][q] = IF u = t /\ q = p THEN r ELSE Pending[u][q]
    <3>1. Pending'[u][q] = IF Wrote(u, q)' THEN file'[q] ELSE None  BY DEF Pending
    <3>2. Pending[u][q] = IF Wrote(u, q) THEN file[q] ELSE None  BY DEF Pending
    <3> QED  BY <1>3, <1>8, <1>9, <3>1, <3>2
  <2>2. Pending' = [u \in Txn |-> [q \in Pos |-> Pending'[u][q]]]  BY DEF Pending
  <2>3. Pending = [u \in Txn |-> [q \in Pos |-> Pending[u][q]]]  BY DEF Pending
  <2> HIDE DEF Pending
  <2> QED  BY <2>1, <2>2, <2>3
<1>13. \A u \in Txn \ {t} : Pending[u][p] = None  BY <1>9 DEF Pending
<1>14. TypeOK'  BY DEF TableInv
<1>15. Abstract!Write(t, p)  BY <1>1, <1>11, <1>12, <1>13, <1>14, MappedWrite
<1> QED  BY <1>15 DEF Abstract!Next

(* What a transaction that ends, with or without its writes, leaves. *)
LEMMA EndLeaves ==
    ASSUME TableInv, NEW t \in Txn, End(t)
    PROVE  /\ \A p \in Pos : ~Wrote(t, p)'
           /\ \A u \in Txn \ {t}, p \in Pos :
                 (Wrote(u, p)' <=> Wrote(u, p)) /\ Oldest(u, p)' = Oldest(u, p)
           /\ \A p \in Pos : Wrote(t, p) => \A u \in Txn \ {t} : ~Wrote(u, p)
<1>1. undo' = [undo EXCEPT ![t] = <<>>]  BY DEF End
<1>2. undo'[t] = <<>> /\ \A u \in Txn \ {t} : undo'[u] = undo[u]
  <2>1. undo \in [Txn -> Seq(SetRecord)]  BY Cases, TypesOfScans
  <2> QED  BY <1>1, <2>1
<1>3. DOMAIN undo'[t] = {}  BY <1>2
<1>4. \A p \in Pos : ~Wrote(t, p)'  BY <1>3 DEF Wrote, WritesTo
<1>5. ASSUME NEW u \in Txn \ {t}, NEW p \in Pos
      PROVE  (Wrote(u, p)' <=> Wrote(u, p)) /\ Oldest(u, p)' = Oldest(u, p)
  <2>1. undo'[u] = undo[u]  BY <1>2
  <2> QED  BY <2>1 DEF Wrote, Oldest
<1>6. \A p \in Pos : Wrote(t, p) => \A u \in Txn \ {t} : ~Wrote(u, p)
  BY StoredValues DEF StoreIsRight
<1> QED  BY <1>4, <1>5, <1>6

LEMMA CommitImplements ==
    ASSUME TableInv, TableInv', NEW t \in Txn, Commit(t)
    PROVE  UNCHANGED Abstract!vars \/ Abstract!Next
<1>1. End(t) /\ file' = file  BY DEF Commit
<1>2. TypeOK /\ TypeOK'  BY DEF TableInv
<1>3. /\ \A p \in Pos : ~Wrote(t, p)'
      /\ \A u \in Txn \ {t}, p \in Pos :
            (Wrote(u, p)' <=> Wrote(u, p)) /\ Oldest(u, p)' = Oldest(u, p)
      /\ \A p \in Pos : Wrote(t, p) => \A u \in Txn \ {t} : ~Wrote(u, p)
  BY <1>1, EndLeaves
<1>4. StoreIsRight /\ StoreIsRight'  BY StoredValues, StoredNext
<1>5. \A p \in Pos : file[p] # None
  <2>1. file \in [Pos -> Record]  BY <1>2, TypesOfScans
  <2>2. None \notin Record  BY TableAssumption DEF Record
  <2> QED  BY <2>1, <2>2
<1>6. ASSUME NEW p \in Pos PROVE Stored'[p] = IF Wrote(t, p) THEN file[p] ELSE Stored[p]
  <2>1. CASE Wrote(t, p)
    <3>1. \A u \in Txn : ~Wrote(u, p)'  BY <1>3, <2>1
    <3> QED  BY <1>1, <1>4, <2>1, <3>1 DEF StoreIsRight
  <2>2. CASE ~Wrote(t, p) /\ \E u \in Txn : Wrote(u, p)
    <3>1. PICK u \in Txn \ {t} : Wrote(u, p) /\ Wrote(u, p)' /\ Oldest(u, p)' = Oldest(u, p)
      BY <1>3, <2>2
    <3> QED  BY <1>4, <2>2, <3>1 DEF StoreIsRight
  <2>3. CASE \A u \in Txn : ~Wrote(u, p)
    <3>1. \A u \in Txn : ~Wrote(u, p)'  BY <1>3, <2>3
    <3> QED  BY <1>1, <1>4, <2>3, <3>1 DEF StoreIsRight
  <2> QED  BY <2>1, <2>2, <2>3
<1>7. Stored \in [Pos -> Record] /\ Stored' \in [Pos -> Record]  BY <1>4 DEF StoreIsRight
<1>8. Pending' = [u \in Txn |-> IF u = t THEN [p \in Pos |-> None] ELSE Pending[u]]
  BY <1>1, <1>3 DEF Pending
<1>9. \A p \in Pos : Pending[t][p] = IF Wrote(t, p) THEN file[p] ELSE None  BY DEF Pending
<1>10. Pending = [u \in Txn |-> Pending[u]] /\ Pending[t] = [p \in Pos |-> Pending[t][p]]
  BY DEF Pending
<1> HIDE DEF Pending, Stored
<1>11. CASE \A p \in Pos : ~Wrote(t, p)
  <2>1. Stored' = Stored  BY <1>6, <1>7, <1>11
  <2>2. Pending' = Pending
    <3>1. Pending[t] = [p \in Pos |-> None]  BY <1>9, <1>10, <1>11
    <3> QED  BY <1>8, <1>10, <3>1
  <2> QED  BY <1>2, <2>1, <2>2, MappedStutter
<1>12. CASE \E p \in Pos : Wrote(t, p)
  <2>1. Stored' = [p \in Pos |-> IF \E u \in {t} : Pending[u][p] # None
                                 THEN Pending[CHOOSE u \in {t} : Pending[u][p] # None][p]
                                 ELSE Stored[p]]
    <3>1. \A p \in Pos : Pending[t][p] # None <=> Wrote(t, p)  BY <1>5, <1>9
    <3>2. \A p \in Pos : Wrote(t, p) => (CHOOSE u \in {t} : Pending[u][p] # None) = t
      BY <3>1
    <3> QED  BY <1>6, <1>7, <1>9, <3>1, <3>2
  <2>2. Pending' = [u \in Txn |-> IF u \in {t} \cup {} THEN [p \in Pos |-> None] ELSE Pending[u]]
    BY <1>8
  <2>3. Abstract!End({t}, {})  BY <1>2, <2>1, <2>2, MappedEnd
  <2>4. t \in Abstract!Writing
    <3>1. PICK p \in Pos : Pending[t][p] # None  BY <1>5, <1>9, <1>12
    <3>2. Pending[t] # [q \in Pos |-> None]  BY <3>1
    <3> QED  BY <1>2, <3>2, MappedPending DEF Abstract!Writing, Abstract!Untouched
  <2> QED  BY <2>3, <2>4 DEF Abstract!Next
<1> QED  BY <1>11, <1>12

LEMMA RollbackImplements ==
    ASSUME TableInv, TableInv', NEW t \in Txn, Rollback(t)
    PROVE  UNCHANGED Abstract!vars \/ Abstract!Next
<1>1. End(t) /\ file' = Undo(undo[t], file)  BY DEF Rollback
<1>2. TypeOK /\ TypeOK'  BY DEF TableInv
<1>3. /\ \A p \in Pos : ~Wrote(t, p)'
      /\ \A u \in Txn \ {t}, p \in Pos :
            (Wrote(u, p)' <=> Wrote(u, p)) /\ Oldest(u, p)' = Oldest(u, p)
      /\ \A p \in Pos : Wrote(t, p) => \A u \in Txn \ {t} : ~Wrote(u, p)
  BY <1>1, EndLeaves
<1>4. StoreIsRight /\ StoreIsRight'  BY StoredValues, StoredNext
<1>5. \A p \in Pos : file'[p] = IF Wrote(t, p) THEN Oldest(t, p) ELSE file[p]
  <2>1. PICK log \in Seq(SetRecord), f \in [Pos -> Record] : log = undo[t] /\ f = file
    BY <1>2, TypesOfScans
  <2>2. \A p \in Pos : Undo(log, f)[p] = IF WritesTo(log, p) = {} THEN f[p]
                                         ELSE log[Min(WritesTo(log, p))].old
    BY UndoIsOldest
  <2> QED  BY <1>1, <2>1, <2>2 DEF Wrote, Oldest
<1>6. ASSUME NEW p \in Pos PROVE Stored'[p] = Stored[p]
  <2>1. CASE Wrote(t, p)
    <3>1. \A u \in Txn : ~Wrote(u, p)'  BY <1>3, <2>1
    <3> QED  BY <1>4, <1>5, <2>1, <3>1 DEF StoreIsRight
  <2>2. CASE ~Wrote(t, p) /\ \E u \in Txn : Wrote(u, p)
    <3>1. PICK u \in Txn \ {t} : Wrote(u, p) /\ Wrote(u, p)' /\ Oldest(u, p)' = Oldest(u, p)
      BY <1>3, <2>2
    <3> QED  BY <1>4, <3>1 DEF StoreIsRight
  <2>3. CASE \A u \in Txn : ~Wrote(u, p)
    <3>1. \A u \in Txn : ~Wrote(u, p)'  BY <1>3, <2>3
    <3> QED  BY <1>4, <1>5, <2>3, <3>1 DEF StoreIsRight
  <2> QED  BY <2>1, <2>2, <2>3
<1>7. Stored' = Stored
  <2>1. Stored \in [Pos -> Record] /\ Stored' \in [Pos -> Record]  BY <1>4 DEF StoreIsRight
  <2> QED  BY <1>6, <2>1
<1>8. Pending' = [u \in Txn |-> IF u = t THEN [p \in Pos |-> None] ELSE Pending[u]]
  <2>1. \A u \in Txn \ {t}, p \in Pos : Wrote(u, p) => file'[p] = file[p]
    BY <1>3, <1>5
  <2> QED  BY <1>3, <2>1 DEF Pending
<1>9. \A p \in Pos : ~Wrote(t, p) => Pending[t][p] = None  BY DEF Pending
<1>10. Pending = [u \in Txn |-> Pending[u]] /\ Pending[t] = [p \in Pos |-> Pending[t][p]]
  BY DEF Pending
<1> HIDE DEF Pending, Stored
<1>11. CASE Pending[t] = [p \in Pos |-> None]
  <2>1. Pending' = Pending  BY <1>8, <1>10, <1>11
  <2> QED  BY <1>2, <1>7, <2>1, MappedStutter
<1>12. CASE Pending[t] # [p \in Pos |-> None]
  <2>1. Stored' = [p \in Pos |-> IF \E u \in {} : Pending[u][p] # None
                                 THEN Pending[CHOOSE u \in {} : Pending[u][p] # None][p]
                                 ELSE Stored[p]]
    <3>1. Stored \in [Pos -> Record]  BY <1>4 DEF StoreIsRight
    <3> QED  BY <1>7, <3>1
  <2>2. Pending' = [u \in Txn |-> IF u \in {} \cup {t} THEN [p \in Pos |-> None] ELSE Pending[u]]
    BY <1>8
  <2>3. Abstract!End({}, {t})  BY <1>2, <2>1, <2>2, MappedEnd
  <2>4. t \in Abstract!Writing
    BY <1>2, <1>12, MappedPending DEF Abstract!Writing, Abstract!Untouched
  <2> QED  BY <2>3, <2>4 DEF Abstract!Next
<1> QED  BY <1>11, <1>12


(* The slot that is written, and what it holds. *)
LEMMA SlotImplements ==
    ASSUME TableInv, TableInv', NEW t \in Txn, page[t] # None, slot[t] >= 0, length' = length,
           NEW old \in Record, old = file[<<page[t], slot[t]>>],
           NEW r \in Record, Write(t, slot[t], r)
    PROVE  Abstract!Next
<1>1. PICK s \in Slots : s = slot[t]
  <2>1. slot[t] \in -1..(NumSlots - 1)  BY Cases, TypesOfScans
  <2> QED  BY <2>1, Numbers DEF Slots
<1>2. Write(t, s, r)  BY <1>1
<1> QED  BY <1>2, WriteImplements

LEMMA SlotFilled ==
    ASSUME TypeOK, NEW t \in Txn, page[t] # None, slot[t] >= 0
    PROVE  file[<<page[t], slot[t]>>] \in Record
<1>1. page[t] \in Blocks /\ slot[t] \in Slots
  <2>1. page[t] \in Blocks \cup {None} /\ slot[t] \in -1..(NumSlots - 1)  BY TypesOfScans
  <2> QED  BY <2>1, Numbers DEF Slots
<1>2. <<page[t], slot[t]>> \in Pos  BY <1>1 DEF Pos
<1> QED  BY <1>2, TypesOfScans

LEMMA InsertImplements ==
    ASSUME TableInv, TableInv', NEW t \in Txn, InsertSetsFlag(t)
    PROVE  Abstract!Next
<1>1. /\ at[t] = "flag" /\ length' = length
      /\ Write(t, slot[t], [file[<<page[t], slot[t]>>] EXCEPT !.flag = "USED"])
  BY DEF InsertSetsFlag, In
<1>2. page[t] # None /\ slot[t] >= 0  BY <1>1, Cases DEF Pinned, Orderly
<1>3. PICK old \in Record : old = file[<<page[t], slot[t]>>]  BY <1>2, Cases, SlotFilled
<1>4. PICK r \in Record : r = [old EXCEPT !.flag = "USED"]  BY DEF Record
<1>5. Write(t, slot[t], r)  BY <1>1, <1>3, <1>4
<1> QED  BY <1>1, <1>2, <1>3, <1>5, SlotImplements

LEMMA SetValImplements ==
    ASSUME TableInv, TableInv', NEW t \in Txn, NEW v \in 0..MaxVal, SetVal(t, v)
    PROVE  Abstract!Next
<1>1. /\ OnSlot(t) /\ length' = length
      /\ Write(t, slot[t], [file[<<page[t], slot[t]>>] EXCEPT !.val = v])
  BY DEF SetVal
<1>2. page[t] # None /\ slot[t] >= 0  BY <1>1, Cases DEF Pinned, OnSlot
<1>3. PICK old \in Record : old = file[<<page[t], slot[t]>>]  BY <1>2, Cases, SlotFilled
<1>4. PICK r \in Record : r = [old EXCEPT !.val = v]  BY DEF Record
<1>5. Write(t, slot[t], r)  BY <1>1, <1>3, <1>4
<1> QED  BY <1>1, <1>2, <1>3, <1>5, SlotImplements

LEMMA DeleteImplements ==
    ASSUME TableInv, TableInv', NEW t \in Txn, Delete(t)
    PROVE  Abstract!Next
<1>1. /\ OnSlot(t) /\ length' = length
      /\ Write(t, slot[t], [file[<<page[t], slot[t]>>] EXCEPT !.flag = "EMPTY"])
  BY DEF Delete
<1>2. page[t] # None /\ slot[t] >= 0  BY <1>1, Cases DEF Pinned, OnSlot
<1>3. PICK old \in Record : old = file[<<page[t], slot[t]>>]  BY <1>2, Cases, SlotFilled
<1>4. PICK r \in Record : r = [old EXCEPT !.flag = "EMPTY"]  BY DEF Record
<1>5. Write(t, slot[t], r)  BY <1>1, <1>3, <1>4
<1> QED  BY <1>1, <1>2, <1>3, <1>5, SlotImplements

(* The block that is formatted holds zeroes already. *)
LEMMA FormatKeeps ==
    ASSUME TableInv, NEW t \in Txn, FormatNewBlock(t)
    PROVE  file' = file
<1>1. /\ at[t] = "format"
      /\ file' = [p \in Pos |-> IF p[1] = page[t] THEN Zeroed ELSE file[p]]
  BY DEF FormatNewBlock
<1>2. \A p \in Pos : p[1] = page[t] => file[p] = Zeroed  BY <1>1, Cases DEF Fresh
<1>3. file \in [Pos -> Record]  BY Cases, TypesOfScans
<1> QED  BY <1>1, <1>2, <1>3

LEMMA StepImplements ==
    ASSUME TableInv, TableInv', [Next]_vars
    PROVE  \/ UNCHANGED <<file, undo>>
           \/ UNCHANGED Abstract!vars
           \/ Abstract!Next
<1>1. CASE UNCHANGED vars  BY <1>1 DEF vars
<1>2. ASSUME NEW t \in Txn, Open(t) PROVE UNCHANGED <<file, undo>>  BY <1>2 DEF Open
<1>3. ASSUME NEW t \in Txn, NextSearches(t) \/ InsertSearches(t)
      PROVE  UNCHANGED <<file, undo>>
  BY <1>3 DEF NextSearches, InsertSearches, Search
<1>4. ASSUME NEW t \in Txn, NextAtLastBlock(t) \/ InsertAtLastBlock(t)
      PROVE  UNCHANGED <<file, undo>>
  BY <1>4 DEF NextAtLastBlock, InsertAtLastBlock
<1>5. ASSUME NEW t \in Txn, AppendBlock(t) \/ ShareNewBlock(t) PROVE UNCHANGED <<file, undo>>
  BY <1>5 DEF AppendBlock, ShareNewBlock
<1>6. ASSUME NEW t \in Txn, FormatNewBlock(t) PROVE UNCHANGED <<file, undo>>
  BY <1>6, FormatKeeps DEF FormatNewBlock
<1>7. ASSUME NEW t \in Txn, GetVal(t) \/ BeforeFirst(t) \/ Close(t) \/ LockAbort(t)
      PROVE  UNCHANGED <<file, undo>>
  BY <1>7 DEF GetVal, BeforeFirst, Close, LockAbort
<1>8. ASSUME NEW t \in Txn, NEW rid \in Pos, MoveToRID(t, rid) PROVE UNCHANGED <<file, undo>>
  BY <1>8 DEF MoveToRID
<1>9. ASSUME NEW t \in Txn, InsertSetsFlag(t) PROVE Abstract!Next  BY <1>9, InsertImplements
<1>10. ASSUME NEW t \in Txn, Delete(t) PROVE Abstract!Next  BY <1>10, DeleteImplements
<1>11. ASSUME NEW t \in Txn, NEW v \in 0..MaxVal, SetVal(t, v) PROVE Abstract!Next
  BY <1>11, SetValImplements
<1>12. ASSUME NEW t \in Txn, Commit(t) PROVE UNCHANGED Abstract!vars \/ Abstract!Next
  BY <1>12, CommitImplements
<1>13. ASSUME NEW t \in Txn, Rollback(t) PROVE UNCHANGED Abstract!vars \/ Abstract!Next
  BY <1>13, RollbackImplements
<1> QED
  BY <1>1, <1>2, <1>3, <1>4, <1>5, <1>6, <1>7, <1>8, <1>9, <1>10, <1>11, <1>12, <1>13, Zenon
     DEF Next

LEMMA InitImplements == Init => Abstract!Init
<1> SUFFICES ASSUME Init PROVE Abstract!Init  OBVIOUS
<1>1. file = [p \in Pos |-> Zeroed] /\ undo = [t \in Txn |-> <<>>]  BY DEF Init
<1>2. TableInv  BY InitTableInv
<1>3. StoreIsRight /\ TypeOK  BY <1>2, StoredValues DEF TableInv
<1>4. \A t \in Txn, p \in Pos : ~Wrote(t, p)
  <2>1. \A t \in Txn : DOMAIN undo[t] = {}  BY <1>1
  <2> QED  BY <2>1 DEF Wrote, WritesTo
<1>5. Stored = [p \in Pos |-> Zeroed]
  <2>1. Stored \in [Pos -> Record] /\ \A p \in Pos : Stored[p] = file[p]
    BY <1>3, <1>4 DEF StoreIsRight
  <2> HIDE DEF Stored
  <2> QED  BY <1>1, <2>1
<1>6. Pending = [t \in Txn |-> [p \in Pos |-> None]]  BY <1>4 DEF Pending
<1>7. Abstract!Untouched = [p \in Pos |-> None]  BY DEF Abstract!Untouched
<1> DEFINE P == [t \in Txn |-> LET written == WrittenBy(t) IN
                   [p \in Pos |-> IF p \in written THEN file[p] ELSE None]]
<1> DEFINE S == FoldFunction(Undo, file, undo)
<1>8. S = [p \in Pos |-> Zeroed] /\ P = [t \in Txn |-> [p \in Pos |-> None]]
  <2>1. Pending = P /\ Stored = S  BY <1>3, MappedPending, MappedStore
  <2> HIDE DEF P, S, Pending, Stored
  <2> QED  BY <1>5, <1>6, <2>1
<1> QED  BY <1>7, <1>8, Zenon DEF Abstract!Init

LEMMA StutterImplements ==
    ASSUME TableInv, TableInv', UNCHANGED <<file, undo>>
    PROVE  UNCHANGED Abstract!vars
<1>1. TypeOK /\ TypeOK'  BY DEF TableInv
<1>2. Stored' = Stored  BY DEF Stored, Committed
<1>3. Pending' = Pending  BY DEF Pending, Wrote
<1> QED  BY <1>1, <1>2, <1>3, MappedStutter

(* Another transaction's records are seen when it has committed, all its    *)
(* changes at once; what it changes is nobody else's until then; a roll     *)
(* back, a new block, a lock or an exception changes none of what is seen.  *)
THEOREM FileIsAtomic == Spec => ImplementsAtomicStore
<1>1. Init => Abstract!Init  BY InitImplements
<1>2. TableInv /\ TableInv' /\ [Next]_vars =>
         [\/ UNCHANGED <<file, undo>>
          \/ UNCHANGED Abstract!vars
          \/ Abstract!Next]_vars
  BY StepImplements
<1> QED  BY <1>1, <1>2, InvariantHolds, PTL DEF Spec, ImplementsAtomicStore

(* So TableScan implements AtomicStore.                                     *)
THEOREM TableRefines == Spec => Abstract!Spec
<1>1. Init => Abstract!Init  BY InitImplements
<1>2. TableInv /\ TableInv' /\ [Next]_vars => [Abstract!Next]_(Abstract!vars)
  BY StepImplements, StutterImplements
<1> QED  BY <1>1, <1>2, InvariantHolds, PTL DEF Spec, Abstract!Spec

=============================================================================
