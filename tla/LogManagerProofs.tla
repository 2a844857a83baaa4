-------------------------- MODULE LogManagerProofs --------------------------
(***************************************************************************)
(* Theorems about LogManager.                                              *)
(*                                                                         *)
(* PageInv holds for any threads: the pages are well formed, no page grows *)
(* over its boundary, and one thread at a time is in AppendNewBlock.       *)
(*                                                                         *)
(* LogInv holds for one thread: it says where the tail of the log is in    *)
(* each step of Append and of Flush, that the records on disk come first   *)
(* in the log, what the LSNs count, and what an iterator has still to      *)
(* read.  The other theorems, and the refinement of LogSpec, follow.       *)
(***************************************************************************)
EXTENDS LogManager, SetLemmas, SequenceTheorems

-----------------------------------------------------------------------------
(* What the folds compute *)

Sized == [id : Nat, size : Nat]
Page == {ZeroPage} \cup Seq(Record)

LEMMA RecordTypes ==
    /\ Record \subseteq Sized /\ Blank \in Sized /\ Blank \notin Record
    /\ \A r \in Record : r.size \in 1..(BlockSize - 2)
    /\ ZeroPage \in Seq(Sized) /\ ZeroPage \in Seq({Blank})
    /\ Seq(Record) \subseteq Seq(Sized) /\ Page \subseteq Seq(Sized)
    /\ BlockSize \in Nat
<1>1. BlockSize \in Nat /\ RecordSize \subseteq 1..(BlockSize - 2) /\ MaxRecords \in Nat
  BY LogManagerAssumption
<1>2. RecordSize \subseteq Nat /\ 1..MaxRecords \subseteq Nat  BY <1>1
<1>3. Record \subseteq Sized  BY <1>2 DEF Record, Sized
<1>4. Blank \in Sized /\ Blank.id = 0  BY DEF Blank, Sized
<1>5. \A r \in Record : r.id \in 1..MaxRecords /\ r.size \in RecordSize  BY DEF Record
<1>6. Blank \notin Record  BY <1>1, <1>4, <1>5
<1>7. ZeroPage \in Seq(Sized) /\ ZeroPage \in Seq({Blank})  BY <1>1, <1>4 DEF ZeroPage
<1>8. Seq(Record) \subseteq Seq(Sized)  BY <1>3
<1> QED  BY <1>1, <1>3, <1>4, <1>5, <1>6, <1>7, <1>8 DEF Page

(* Used adds up the records of a page, one after the other. *)
UsedSteps(p) == [i \in 1..Len(p) |-> [v \in Int |-> v + p[i].size + 1]]

LEMMA UsedIsFold ==
    ASSUME NEW p \in Seq(Sized)
    PROVE  \E g : /\ Used(p) = g[1..Len(p)]
                  /\ IsFold(g, 1..Len(p), 0, LastOf(Len(p)), UsedSteps(p))
                  /\ \A s \in SUBSET (1..Len(p)) : g[s] \in Int
<1> DEFINE D == DOMAIN p
           F == UsedSteps(p)
           pick == LastOf(Len(p))
<1>1. D = 1..Len(p) /\ Len(p) \in Nat  OBVIOUS
<1>2. IsFiniteSet(D) /\ \A s \in SUBSET D : s # {} => pick[s] \in s /\ pick[s] = Max(s)
  BY <1>1, LastOfPicks
<1>3. \A i \in D : p[i].size \in Int
  <2>1. \A i \in D : p[i] \in Sized  BY <1>1
  <2> QED  BY <2>1 DEF Sized
<1>4. \A i \in D : \A v \in Int : F[i][v] = v + p[i].size + 1  BY <1>1 DEF UsedSteps
<1>5. F \in [D -> [Int -> Int]]  BY <1>1, <1>3 DEF UsedSteps
<1> HIDE DEF D, F, pick
<1>6. PICK g : /\ g = [s \in SUBSET D |-> IF s = {} THEN 0 ELSE F[pick[s]][g[s \ {pick[s]}]]]
               /\ IsFold(g, D, 0, pick, F)
  BY <1>2, FoldExists
<1>7. \A s \in SUBSET D : g[s] \in Int
  <2>1. 0 \in Int  OBVIOUS
  <2> QED  BY <1>2, <1>5, <1>6, <2>1, FoldValues
<1>8. ASSUME NEW s \in SUBSET D
      PROVE  g[s] = IF s = {} THEN 0 ELSE g[s \ {Max(s)}] + p[Max(s)].size + 1
  <2>1. CASE s = {}  BY <1>6, <2>1 DEF IsFold
  <2>2. CASE s # {}
    <3>1. PICK x \in s : x = Max(s) /\ x = pick[s]  BY <1>2, <2>2
    <3>2. g[s] = F[x][g[s \ {x}]]  BY <1>6, <2>2, <3>1 DEF IsFold
    <3>3. g[s \ {x}] \in Int  BY <1>7
    <3> QED  BY <1>4, <2>2, <3>1, <3>2, <3>3
  <2> QED  BY <2>1, <2>2
<1> USE DEF D
<1> DEFINE R(h) == [s \in SUBSET D |-> IF s = {} THEN 0
                      ELSE h[s \ {Max(s)}] + p[Max(s)].size + 1]
           chosen == CHOOSE h : h = R(h)
<1>9. g = R(g)
  <2>1. g = [s \in SUBSET D |-> g[s]]  BY <1>6
  <2> QED  BY <1>8, <2>1
<1>10. chosen = R(chosen)  BY <1>9
<1>11. Used(p) = chosen[D]  BY DEF Used, FoldLeft, MapThenFoldSet
<1> HIDE DEF D, chosen
<1>12. chosen[D] = g[D]
  <2> DEFINE Good == {s \in SUBSET D : chosen[s] = g[s]}
  <2>1. ASSUME NEW s \in SUBSET D, \A u \in SUBSET s : u # s => u \in Good
        PROVE  s \in Good
    <3>1. CASE s = {}  BY <1>8, <1>10, <3>1
    <3>2. CASE s # {}
      <4>1. PICK x \in s : x = Max(s)  BY <1>2, <3>2
      <4>2. s \ {x} \in Good  BY <2>1
      <4>3. chosen[s] = chosen[s \ {x}] + p[x].size + 1  BY <1>10, <3>2, <4>1
      <4>4. g[s] = g[s \ {x}] + p[x].size + 1  BY <1>8, <3>2, <4>1
      <4> QED  BY <4>2, <4>3, <4>4
    <3> QED  BY <3>1, <3>2
  <2>2. SUBSET D \subseteq Good
    <3> HIDE DEF Good
    <3> QED  BY <1>2, <2>1, SubsetInduction
  <2> QED  BY <2>2
<1> QED  BY <1>1, <1>6, <1>7, <1>11, <1>12 DEF F, pick

LEMMA UsedValues ==
    /\ Used(<<>>) = 0
    /\ \A p \in Seq(Sized) : Used(p) \in Int
    /\ \A p \in Seq(Sized), r \in Sized : Used(Append(p, r)) = Used(p) + r.size + 1
    /\ Used(ZeroPage) >= BlockSize
<1>1. Used(<<>>) = 0
  <2>1. <<>> \in Seq(Sized) /\ Len(<<>>) = 0 /\ 1..0 = {}  OBVIOUS
  <2>2. PICK g : Used(<<>>) = g[1..0] /\ IsFold(g, 1..0, 0, LastOf(0), UsedSteps(<<>>))
    BY <2>1, UsedIsFold
  <2>3. g[{}] = 0  BY <2>1, <2>2 DEF IsFold
  <2> QED  BY <2>1, <2>2, <2>3
<1>2. ASSUME NEW p \in Seq(Sized) PROVE Used(p) \in Int
  BY UsedIsFold
<1>3. ASSUME NEW p \in Seq(Sized), NEW r \in Sized
      PROVE  Used(Append(p, r)) = Used(p) + r.size + 1
  <2>1. PICK n \in Nat : n = Len(p)  OBVIOUS
  <2>2. PICK q \in Seq(Sized) : q = Append(p, r)  BY AppendProperties
  <2>3. /\ Len(q) = n + 1 /\ q[n + 1] = r
        /\ \A i \in 1..n : q[i] = p[i]
    BY <2>1, <2>2
  <2>4. PICK g : /\ Used(p) = g[1..n] /\ g[1..n] \in Int
                 /\ IsFold(g, 1..n, 0, LastOf(n), UsedSteps(p))
    BY <2>1, UsedIsFold
  <2>5. PICK h : /\ Used(q) = h[1..(n + 1)]
                 /\ IsFold(h, 1..(n + 1), 0, LastOf(n + 1), UsedSteps(q))
    BY <2>3, UsedIsFold
  <2>6. \A i \in 1..n : UsedSteps(p)[i] = UsedSteps(q)[i]
    BY <2>1, <2>3 DEF UsedSteps
  <2>7. h[1..(n + 1)] = UsedSteps(q)[n + 1][g[1..n]]
    BY <2>4, <2>5, <2>6, FoldGrows
  <2>8. n + 1 \in 1..Len(q)  BY <2>3
  <2>9. UsedSteps(q)[n + 1][g[1..n]] = g[1..n] + r.size + 1
    BY <2>3, <2>4, <2>8 DEF UsedSteps
  <2> QED  BY <2>2, <2>4, <2>5, <2>7, <2>9
<1>4. Used(ZeroPage) >= BlockSize
  <2>1. ZeroPage \in Seq(Sized) /\ BlockSize \in Nat  BY RecordTypes
  <2>2. Len(ZeroPage) = BlockSize /\ \A i \in 1..BlockSize : ZeroPage[i].size = 0
    BY <2>1 DEF ZeroPage, Blank
  <2>3. PICK n \in Nat : n = BlockSize  BY <2>1
  <2>4. PICK D : D = 1..n  OBVIOUS
  <2>5. PICK F : /\ F = UsedSteps(ZeroPage)
                 /\ \A i \in D : \A v \in Int : F[i][v] = v + 1
    <3>1. \A i \in D : \A v \in Int : UsedSteps(ZeroPage)[i][v] = v + 0 + 1
      BY <2>2, <2>3, <2>4 DEF UsedSteps
    <3> QED  BY <3>1
  <2>6. PICK g : /\ Used(ZeroPage) = g[D] /\ \A s \in SUBSET D : g[s] \in Int
                 /\ IsFold(g, D, 0, LastOf(n), F)
    BY <2>1, <2>2, <2>3, <2>5, <2>4, UsedIsFold
  <2>7. IsFiniteSet(D) /\ \A s \in SUBSET D : s # {} => LastOf(n)[s] \in s
    BY <2>4, LastOfPicks
  <2> DEFINE Good == {s \in SUBSET D : g[s] = Cardinality(s)}
  <2>8. ASSUME NEW s \in SUBSET D, \A u \in SUBSET s : u # s => u \in Good
        PROVE  s \in Good
    <3>1. CASE s = {}  BY <2>6, <3>1, FS_EmptySet DEF IsFold
    <3>2. CASE s # {}
      <4>1. PICK x \in s : x = LastOf(n)[s]  BY <2>7, <3>2
      <4>2. g[s \ {x}] = Cardinality(s \ {x})  BY <2>8
      <4>3. g[s] = F[x][g[s \ {x}]]  BY <2>6, <3>2, <4>1 DEF IsFold
      <4>4. g[s] = g[s \ {x}] + 1  BY <2>5, <2>6, <4>3
      <4>5. Cardinality(s \ {x}) = Cardinality(s) - 1 /\ Cardinality(s) \in Int
        <5>1. IsFiniteSet(s)  BY <2>7, FS_Subset
        <5>2. Cardinality(s) \in Nat  BY <5>1, FS_CardinalityType
        <5>3. Cardinality(s \ {x}) = Cardinality(s) - 1  BY <5>1, FS_RemoveElement
        <5> QED  BY <5>2, <5>3
      <4> QED  BY <4>2, <4>4, <4>5
    <3> QED  BY <3>1, <3>2
  <2>9. SUBSET D \subseteq Good
    <3> HIDE DEF Good
    <3> QED  BY <2>7, <2>8, SubsetInduction
  <2>10. Cardinality(D) = n
    <3>1. 1 \in Int /\ n \in Int  OBVIOUS
    <3>2. Cardinality(D) = IF 1 > n THEN 0 ELSE n - 1 + 1  BY <2>4, <3>1, FS_Interval
    <3> QED  BY <3>2
  <2>11. g[D] = n  BY <2>9, <2>10
  <2> QED  BY <2>3, <2>6, <2>11
<1> QED  BY <1>1, <1>2, <1>3, <1>4

(* Records strings together what is in the blocks. *)
RecordSteps(d) == [i \in 1..Len(d) |-> [v \in Seq(Record) |-> v \o RecordsOf(d[i])]]

LEMMA RecordsOfPage == \A p \in Page : RecordsOf(p) \in Seq(Record)
BY DEF Page, RecordsOf

LEMMA RecordsIsFold ==
    ASSUME NEW d \in Seq(Page)
    PROVE  \E g : /\ Records(d) = g[1..Len(d)]
                  /\ IsFold(g, 1..Len(d), <<>>, LastOf(Len(d)), RecordSteps(d))
                  /\ \A s \in SUBSET (1..Len(d)) : g[s] \in Seq(Record)
<1> DEFINE D == DOMAIN d
           F == RecordSteps(d)
           pick == LastOf(Len(d))
           V == Seq(Record)
<1>1. D = 1..Len(d) /\ Len(d) \in Nat  OBVIOUS
<1>2. IsFiniteSet(D) /\ \A s \in SUBSET D : s # {} => pick[s] \in s /\ pick[s] = Max(s)
  BY <1>1, LastOfPicks
<1>3. \A i \in D : RecordsOf(d[i]) \in V  BY RecordsOfPage
<1>4. \A i \in D : \A v \in V : F[i][v] = v \o RecordsOf(d[i])  BY <1>1 DEF RecordSteps
<1>5. F \in [D -> [V -> V]]
  <2>1. \A v \in V, w \in V : v \o w \in V  BY ConcatProperties
  <2> QED  BY <1>1, <1>3, <2>1 DEF RecordSteps
<1> HIDE DEF D, F, pick
<1>6. <<>> \in V  OBVIOUS
<1> HIDE DEF V
<1>7. PICK g : /\ g = [s \in SUBSET D |-> IF s = {} THEN <<>> ELSE F[pick[s]][g[s \ {pick[s]}]]]
               /\ IsFold(g, D, <<>>, pick, F)
  BY <1>2, FoldExists
<1>8. \A s \in SUBSET D : g[s] \in V  BY <1>2, <1>5, <1>6, <1>7, FoldValues
<1>9. ASSUME NEW s \in SUBSET D
      PROVE  g[s] = IF s = {} THEN <<>> ELSE g[s \ {Max(s)}] \o RecordsOf(d[Max(s)])
  <2>1. CASE s = {}  BY <1>7, <2>1 DEF IsFold
  <2>2. CASE s # {}
    <3>1. PICK x \in s : x = Max(s) /\ x = pick[s]  BY <1>2, <2>2
    <3>2. g[s] = F[x][g[s \ {x}]]  BY <1>7, <2>2, <3>1 DEF IsFold
    <3>3. g[s \ {x}] \in V  BY <1>8
    <3> QED  BY <1>4, <2>2, <3>1, <3>2, <3>3
  <2> QED  BY <2>1, <2>2
<1> USE DEF D
<1> DEFINE R(h) == [s \in SUBSET D |-> IF s = {} THEN <<>>
                      ELSE h[s \ {Max(s)}] \o RecordsOf(d[Max(s)])]
           chosen == CHOOSE h : h = R(h)
<1>10. g = R(g)
  <2>1. g = [s \in SUBSET D |-> g[s]]  BY <1>7
  <2> QED  BY <1>9, <2>1
<1>11. chosen = R(chosen)  BY <1>10
<1>12. Records(d) = chosen[D]  BY DEF Records, FoldLeft, MapThenFoldSet
<1> HIDE DEF D, chosen
<1>13. chosen[D] = g[D]
  <2> DEFINE Good == {s \in SUBSET D : chosen[s] = g[s]}
  <2>1. ASSUME NEW s \in SUBSET D, \A u \in SUBSET s : u # s => u \in Good
        PROVE  s \in Good
    <3>1. CASE s = {}  BY <1>9, <1>11, <3>1
    <3>2. CASE s # {}
      <4>1. PICK x \in s : x = Max(s)  BY <1>2, <3>2
      <4>2. s \ {x} \in Good  BY <2>1
      <4>3. chosen[s] = chosen[s \ {x}] \o RecordsOf(d[x])  BY <1>11, <3>2, <4>1
      <4>4. g[s] = g[s \ {x}] \o RecordsOf(d[x])  BY <1>9, <3>2, <4>1
      <4> QED  BY <4>2, <4>3, <4>4
    <3> QED  BY <3>1, <3>2
  <2>2. SUBSET D \subseteq Good
    <3> HIDE DEF Good
    <3> QED  BY <1>2, <2>1, SubsetInduction
  <2> QED  BY <2>2
<1> QED  BY <1>1, <1>7, <1>8, <1>12, <1>13 DEF F, pick, V

LEMMA RecordsValues ==
    /\ Records(<<>>) = <<>>
    /\ \A d \in Seq(Page) : Records(d) \in Seq(Record)
    /\ \A d \in Seq(Page), p \in Page : Records(Append(d, p)) = Records(d) \o RecordsOf(p)
<1>1. Records(<<>>) = <<>>
  <2>1. <<>> \in Seq(Page) /\ Len(<<>>) = 0 /\ 1..0 = {}  OBVIOUS
  <2>2. PICK g : Records(<<>>) = g[1..0] /\ IsFold(g, 1..0, <<>>, LastOf(0), RecordSteps(<<>>))
    BY <2>1, RecordsIsFold
  <2>3. g[{}] = <<>>  BY <2>1, <2>2 DEF IsFold
  <2> QED  BY <2>1, <2>2, <2>3
<1>2. ASSUME NEW d \in Seq(Page) PROVE Records(d) \in Seq(Record)
  BY RecordsIsFold
<1>3. ASSUME NEW d \in Seq(Page), NEW p \in Page
      PROVE  Records(Append(d, p)) = Records(d) \o RecordsOf(p)
  <2>1. PICK n \in Nat : n = Len(d)  OBVIOUS
  <2>2. PICK e \in Seq(Page) : e = Append(d, p)  BY AppendProperties
  <2>3. /\ Len(e) = n + 1 /\ e[n + 1] = p
        /\ \A i \in 1..n : e[i] = d[i]
    BY <2>1, <2>2
  <2>4. PICK g : /\ Records(d) = g[1..n] /\ g[1..n] \in Seq(Record)
                 /\ IsFold(g, 1..n, <<>>, LastOf(n), RecordSteps(d))
    BY <2>1, RecordsIsFold
  <2>5. PICK h : /\ Records(e) = h[1..(n + 1)]
                 /\ IsFold(h, 1..(n + 1), <<>>, LastOf(n + 1), RecordSteps(e))
    BY <2>3, RecordsIsFold
  <2>6. ASSUME NEW i \in 1..n PROVE RecordSteps(d)[i] = RecordSteps(e)[i]
    <3>1. i \in 1..Len(d) /\ i \in 1..Len(e)  BY <2>1, <2>3
    <3>2. RecordSteps(d)[i] = [v \in Seq(Record) |-> v \o RecordsOf(d[i])]
      BY <3>1 DEF RecordSteps
    <3>3. RecordSteps(e)[i] = [v \in Seq(Record) |-> v \o RecordsOf(e[i])]
      BY <3>1 DEF RecordSteps
    <3>4. d[i] = e[i]  BY <2>3
    <3> QED  BY <3>2, <3>3, <3>4, Zenon
  <2>7. h[1..(n + 1)] = RecordSteps(e)[n + 1][g[1..n]]
    BY <2>4, <2>5, <2>6, FoldGrows
  <2>8. n + 1 \in 1..Len(e)  BY <2>3
  <2>9. RecordSteps(e)[n + 1][g[1..n]] = g[1..n] \o RecordsOf(p)
    BY <2>3, <2>4, <2>8 DEF RecordSteps
  <2> QED  BY <2>2, <2>4, <2>5, <2>7, <2>9
<1> QED  BY <1>1, <1>2, <1>3

-----------------------------------------------------------------------------
(* The pages, for any threads *)

(* A page as Append leaves it: its records leave room for the boundary. *)
Fitting == {p \in Page : p = ZeroPage \/ Boundary(p) >= 1}

(* Where a thread may be in the method it is in. *)
InPlace(t) ==
    \/ op[t] = "none" /\ pc[t] = "idle"
    \/ op[t] = "Start" /\ ~running /\ pc[t] \in {"Extend", "Blank", "Format", "Switch"}
    \/ /\ op[t] = "Append" /\ running /\ record[t] \in Record
       /\ pc[t] \in {"Write", "Save", "Extend", "Blank", "Format", "Switch", "Put"}
    \/ op[t] = "Flush" /\ running /\ pc[t] \in {"Write", "Save"}
    \/ op[t] = "Iterator" /\ running /\ pc[t] \in {"Write", "Save", "Open"}

ThreadsAreSound ==
    /\ op \in [Thread -> Operation] /\ pc \in [Thread -> Place]
    /\ record \in [Thread -> Record \cup {Blank}] /\ running \in BOOLEAN
    /\ \A t \in Thread : InPlace(t)

(* One constructor runs, alone, and one Append at a time. *)
MutexHolds ==
    \A t, u \in Thread : op[t] = op[u] /\ op[t] \in {"Start", "Append"} => t = u

PagesFit == disk \in Seq(Fitting) /\ page \in Fitting /\ appended \in 0..MaxRecords

NewPageIsEmpty == \A t \in Thread : pc[t] \in {"Format", "Switch", "Put"} => page = <<>>

PageInv == ThreadsAreSound /\ MutexHolds /\ PagesFit /\ NewPageIsEmpty

LEMMA FittingPages ==
    /\ Fitting \subseteq Page /\ ZeroPage \in Fitting /\ <<>> \in Fitting
    /\ \A p \in Fitting, r \in Record : Fits(p, r.size) => Append(p, r) \in Fitting
    /\ \A r \in Record : Fits(<<>>, r.size)
<1>1. BlockSize \in Nat  BY RecordTypes
<1>2. ZeroPage \in Fitting /\ Fitting \subseteq Page  BY DEF Fitting, Page
<1>3. <<>> \in Fitting
  <2>1. <<>> \in Page  BY DEF Page
  <2>2. CASE BlockSize = 0  BY <2>1, <2>2 DEF Fitting, ZeroPage
  <2>3. CASE BlockSize # 0
    <3>1. Boundary(<<>>) = BlockSize - 0  BY UsedValues DEF Boundary
    <3> QED  BY <1>1, <2>1, <2>3, <3>1 DEF Fitting
  <2> QED  BY <2>2, <2>3
<1>4. ASSUME NEW p \in Fitting, NEW r \in Record, Fits(p, r.size)
      PROVE  Append(p, r) \in Fitting
  <2>1. /\ p \in Seq(Sized) /\ r \in Sized /\ r.size \in Int
        /\ Used(p) \in Int /\ Used(Append(p, r)) = Used(p) + r.size + 1
    <3>1. p \in Seq(Sized) /\ r \in Sized  BY RecordTypes DEF Fitting
    <3>2. r.size \in Int  BY <3>1 DEF Sized
    <3> QED  BY <3>1, <3>2, UsedValues
  <2>2. BlockSize - Used(p) - (r.size + 1) >= 1  BY <1>4 DEF Fits, Boundary
  <2>3. Boundary(Append(p, r)) >= 1  BY <1>1, <2>1, <2>2 DEF Boundary
  <2>4. p # ZeroPage
    <3> SUFFICES ASSUME p = ZeroPage PROVE FALSE  OBVIOUS
    <3>1. Used(p) >= BlockSize  BY UsedValues
    <3>2. r.size >= 1  BY RecordTypes
    <3> QED  BY <1>1, <2>1, <2>2, <3>1, <3>2
  <2>5. p \in Seq(Record)  BY <2>4 DEF Fitting, Page
  <2>6. Append(p, r) \in Seq(Record)  BY <2>5, AppendProperties
  <2> QED  BY <2>3, <2>6 DEF Fitting, Page
<1>5. ASSUME NEW r \in Record PROVE Fits(<<>>, r.size)
  <2>1. r.size \in 1..(BlockSize - 2)  BY RecordTypes
  <2>2. Boundary(<<>>) = BlockSize - 0  BY UsedValues DEF Boundary
  <2> QED  BY <1>1, <2>1, <2>2 DEF Fits
<1> QED  BY <1>2, <1>3, <1>4, <1>5

LEMMA BlockWritten ==
    ASSUME NEW X, NEW d \in Seq(X), NEW k, NEW p \in X
    PROVE  [d EXCEPT ![k] = p] \in Seq(X)
<1>1. CASE k \in 1..Len(d)  BY <1>1, ExceptSeq
<1>2. CASE k \notin 1..Len(d)
  <2>1. [d EXCEPT ![k] = p] = d  BY <1>2
  <2> QED  BY <2>1
<1> QED  BY <1>1, <1>2

LEMMA InitPageInv == Init => PageInv
<1> SUFFICES ASSUME Init PROVE PageInv  OBVIOUS
<1>1. /\ op = [t \in Thread |-> "none"] /\ pc = [t \in Thread |-> "idle"]
      /\ record = [t \in Thread |-> Blank] /\ running = FALSE
      /\ disk = <<>> /\ page = <<>> /\ appended = 0
  BY DEF Init
<1>2. ThreadsAreSound /\ MutexHolds /\ NewPageIsEmpty
  BY <1>1 DEF ThreadsAreSound, MutexHolds, NewPageIsEmpty, InPlace, Operation, Place
<1>3. PagesFit  BY <1>1, FittingPages, LogManagerAssumption DEF PagesFit
<1> QED  BY <1>2, <1>3 DEF PageInv

(* A step of one thread, of which nobody else has a part. *)
Moves(t) ==
    /\ op' \in [Thread -> Operation] /\ pc' \in [Thread -> Place]
    /\ record' \in [Thread -> Record \cup {Blank}] /\ running' \in BOOLEAN
    /\ \A u \in Thread \ {t} : op'[u] = op[u] /\ pc'[u] = pc[u] /\ record'[u] = record[u]

LEMMA MovesKeep ==
    ASSUME ThreadsAreSound, MutexHolds, NEW t \in Thread, Moves(t), InPlace(t)',
           \/ running' = running
           \/ running' = TRUE /\ op[t] = "Start" /\ op'[t] = "none",
           \/ op'[t] = op[t]
           \/ op'[t] \in {"none", "Flush", "Iterator"}
           \/ op'[t] \in {"Append", "Start"} /\ \A u \in Thread : op[u] # op'[t],
           running' = running \/ \A u \in Thread : op[u] = "Start" \/ op[u] = "none"
    PROVE  ThreadsAreSound' /\ MutexHolds'
<1>1. ASSUME NEW u \in Thread \ {t} PROVE InPlace(u)'
  <2>1. op'[u] = op[u] /\ pc'[u] = pc[u] /\ record'[u] = record[u] /\ InPlace(u)
    BY DEF Moves, ThreadsAreSound
  <2>2. running' = running \/ op[u] = "none"
    BY DEF MutexHolds
  <2> QED  BY <2>1, <2>2 DEF InPlace
<1>2. ThreadsAreSound'  BY <1>1 DEF ThreadsAreSound, Moves
<1>3. MutexHolds'
  <2> SUFFICES ASSUME NEW u \in Thread, NEW v \in Thread, op'[u] = op'[v],
                      op'[u] \in {"Start", "Append"}, u # v
               PROVE  FALSE
    BY DEF MutexHolds
  <2>1. CASE u # t /\ v # t  BY <2>1 DEF MutexHolds, Moves
  <2>2. CASE u = t \/ v = t
    <3>1. PICK w \in Thread \ {t} : op[w] = op'[t] /\ op'[t] \in {"Start", "Append"}
      BY <2>2 DEF Moves
    <3>2. op'[t] = op[t]  BY <3>1
    <3> QED  BY <3>1, <3>2 DEF MutexHolds
  <2> QED  BY <2>1, <2>2
<1> QED  BY <1>2, <1>3

-----------------------------------------------------------------------------
(* One lemma per action: the step keeps PageInv. *)

LEMMA BusyWithNewBlock ==
    ASSUME ThreadsAreSound, MutexHolds, NEW t \in Thread, op[t] = "Append",
           NEW u \in Thread, pc[u] \in {"Extend", "Blank", "Format", "Switch", "Put"}
    PROVE  u = t
<1>1. InPlace(t) /\ InPlace(u)  BY DEF ThreadsAreSound
<1>2. op[u] = "Append"  BY <1>1 DEF InPlace
<1> QED  BY <1>2 DEF MutexHolds

LEMMA StutterKeepsPageInv == PageInv /\ UNCHANGED vars => PageInv'
BY DEF PageInv, ThreadsAreSound, MutexHolds, PagesFit, NewPageIsEmpty, InPlace,
       vars, memory, threads, history

LEMMA ExtendKeepsPageInv ==
    ASSUME PageInv, NEW t \in Thread, Extend(t)
    PROVE  PageInv'
<1>1. /\ ThreadsAreSound /\ MutexHolds /\ PagesFit /\ NewPageIsEmpty /\ InPlace(t)
  BY DEF PageInv, ThreadsAreSound
<1>2. /\ pc[t] = "Extend" /\ pc' = [pc EXCEPT ![t] = "Blank"]
      /\ disk' = Append(disk, ZeroPage)
      /\ op' = op /\ record' = record /\ running' = running /\ page' = page
      /\ appended' = appended
  BY DEF Extend, Goto, memory, history
<1>3. Moves(t) /\ InPlace(t)'
  BY <1>1, <1>2 DEF Moves, ThreadsAreSound, InPlace, Place
<1>4. ThreadsAreSound' /\ MutexHolds'  BY <1>1, <1>2, <1>3, MovesKeep
<1>5. PagesFit'
  <2>1. Append(disk, ZeroPage) \in Seq(Fitting)
    BY <1>1, FittingPages, AppendProperties DEF PagesFit
  <2> QED  BY <1>1, <1>2, <2>1 DEF PagesFit
<1>6. NewPageIsEmpty'
  BY <1>1, <1>2 DEF NewPageIsEmpty, ThreadsAreSound
<1> QED  BY <1>4, <1>5, <1>6 DEF PageInv

LEMMA BlankPageKeepsPageInv ==
    ASSUME PageInv, NEW t \in Thread, BlankPage(t)
    PROVE  PageInv'
<1>1. /\ ThreadsAreSound /\ MutexHolds /\ PagesFit /\ NewPageIsEmpty /\ InPlace(t)
  BY DEF PageInv, ThreadsAreSound
<1>2. /\ pc[t] = "Blank" /\ pc' = [pc EXCEPT ![t] = "Format"] /\ page' = <<>>
      /\ op' = op /\ record' = record /\ running' = running /\ disk' = disk
      /\ appended' = appended
  BY DEF BlankPage, Goto, history
<1>3. Moves(t) /\ InPlace(t)'
  BY <1>1, <1>2 DEF Moves, ThreadsAreSound, InPlace, Place
<1>4. ThreadsAreSound' /\ MutexHolds'  BY <1>1, <1>2, <1>3, MovesKeep
<1>5. PagesFit'  BY <1>1, <1>2, FittingPages DEF PagesFit
<1>6. NewPageIsEmpty'  BY <1>2 DEF NewPageIsEmpty
<1> QED  BY <1>4, <1>5, <1>6 DEF PageInv

LEMMA FormatKeepsPageInv ==
    ASSUME PageInv, NEW t \in Thread, Format(t)
    PROVE  PageInv'
<1>1. /\ ThreadsAreSound /\ MutexHolds /\ PagesFit /\ NewPageIsEmpty /\ InPlace(t)
  BY DEF PageInv, ThreadsAreSound
<1>2. /\ pc[t] = "Format" /\ pc' = [pc EXCEPT ![t] = "Switch"]
      /\ disk' = [disk EXCEPT ![Len(disk)] = page]
      /\ op' = op /\ record' = record /\ running' = running /\ page' = page
      /\ appended' = appended
  BY DEF Format, Goto, memory, history
<1>3. Moves(t) /\ InPlace(t)'
  BY <1>1, <1>2 DEF Moves, ThreadsAreSound, InPlace, Place
<1>4. ThreadsAreSound' /\ MutexHolds'  BY <1>1, <1>2, <1>3, MovesKeep
<1>5. PagesFit'
  <2>1. Len(disk) \in Int  BY <1>1 DEF PagesFit
  <2>2. [disk EXCEPT ![Len(disk)] = page] \in Seq(Fitting)
    BY <1>1, <2>1, BlockWritten DEF PagesFit
  <2> QED  BY <1>1, <1>2, <2>2 DEF PagesFit
<1>6. NewPageIsEmpty'
  BY <1>1, <1>2 DEF NewPageIsEmpty, ThreadsAreSound
<1> QED  BY <1>4, <1>5, <1>6 DEF PageInv

LEMMA SwitchKeepsPageInv ==
    ASSUME PageInv, NEW t \in Thread, Switch(t)
    PROVE  PageInv'
<1>1. /\ ThreadsAreSound /\ MutexHolds /\ PagesFit /\ NewPageIsEmpty /\ InPlace(t)
  BY DEF PageInv, ThreadsAreSound
<1>2. /\ pc[t] = "Switch" /\ page' = page /\ disk' = disk /\ appended' = appended
  BY DEF Switch, history
<1>3. /\ Moves(t) /\ InPlace(t)'
      /\ \/ running' = running
         \/ running' = TRUE /\ op[t] = "Start" /\ op'[t] = "none"
      /\ op'[t] = op[t] \/ op'[t] = "none"
      /\ running' = running \/ \A u \in Thread : op[u] = "Start" \/ op[u] = "none"
  <2>1. CASE op[t] = "Start" /\ running' = TRUE /\ Return(t)
    <3>1. /\ op' = [op EXCEPT ![t] = "none"] /\ pc' = [pc EXCEPT ![t] = "idle"]
          /\ record' = [record EXCEPT ![t] = Blank]
      BY <2>1 DEF Return, Goto
    <3>2. ~running  BY <1>1, <2>1 DEF InPlace
    <3>3. \A u \in Thread : op[u] = "Start" \/ op[u] = "none"
      BY <1>1, <3>2 DEF ThreadsAreSound, InPlace
    <3>4. Moves(t)  BY <1>1, <2>1, <3>1 DEF Moves, ThreadsAreSound, Operation, Place
    <3>5. InPlace(t)'  BY <1>1, <3>1 DEF InPlace, ThreadsAreSound
    <3>6. op'[t] = "none"  BY <1>1, <3>1 DEF ThreadsAreSound
    <3> QED  BY <2>1, <3>3, <3>4, <3>5, <3>6
  <2>2. CASE op[t] = "Append" /\ Goto(t, "Put") /\ UNCHANGED <<running, op, record, lsnArg>>
    <3>1. pc' = [pc EXCEPT ![t] = "Put"]  BY <2>2 DEF Goto
    <3>2. Moves(t)  BY <1>1, <2>2, <3>1 DEF Moves, ThreadsAreSound, Place
    <3>3. InPlace(t)'  BY <1>1, <2>2, <3>1 DEF InPlace, ThreadsAreSound
    <3> QED  BY <2>2, <3>2, <3>3
  <2> QED  BY <2>1, <2>2 DEF Switch
<1>4. ThreadsAreSound' /\ MutexHolds'  BY <1>1, <1>3, MovesKeep
<1>5. PagesFit'  BY <1>1, <1>2 DEF PagesFit
<1>6. NewPageIsEmpty'
  <2>1. page = <<>>  BY <1>1, <1>2 DEF NewPageIsEmpty
  <2> QED  BY <1>2, <2>1 DEF NewPageIsEmpty
<1> QED  BY <1>4, <1>5, <1>6 DEF PageInv

LEMMA StartNewKeepsPageInv ==
    ASSUME PageInv, NEW t \in Thread, StartNew(t)
    PROVE  PageInv'
<1>1. /\ ThreadsAreSound /\ MutexHolds /\ PagesFit /\ NewPageIsEmpty /\ InPlace(t)
  BY DEF PageInv, ThreadsAreSound
<1>2. /\ ~running /\ \A u \in Thread : op[u] = "none"
      /\ op' = [op EXCEPT ![t] = "Start"] /\ pc' = [pc EXCEPT ![t] = "Extend"]
      /\ record' = record /\ running' = running /\ page' = page /\ disk' = disk
      /\ appended' = appended
  BY DEF StartNew, Enter, Goto, memory, history
<1>3. Moves(t) /\ InPlace(t)' /\ op'[t] = "Start"
  BY <1>1, <1>2 DEF Moves, ThreadsAreSound, InPlace, Place, Operation
<1>4. ThreadsAreSound' /\ MutexHolds'
  <2>1. op'[t] \in {"Append", "Start"} /\ \A u \in Thread : op[u] # op'[t]
    BY <1>2, <1>3
  <2> QED  BY <1>1, <1>2, <1>3, <2>1, MovesKeep
<1>5. PagesFit'  BY <1>1, <1>2 DEF PagesFit
<1>6. NewPageIsEmpty'  BY <1>1, <1>2 DEF NewPageIsEmpty, ThreadsAreSound
<1> QED  BY <1>4, <1>5, <1>6 DEF PageInv

LEMMA StartOldKeepsPageInv ==
    ASSUME PageInv, StartOld
    PROVE  PageInv'
<1>1. /\ ThreadsAreSound /\ MutexHolds /\ PagesFit
  BY DEF PageInv
<1>2. /\ disk # <<>> /\ page' = Last(disk) /\ running' = TRUE /\ disk' = disk
      /\ op' = op /\ pc' = pc /\ record' = record /\ appended' = appended
      /\ \A u \in Thread : op[u] = "none"
  BY DEF StartOld, threads, history
<1>3. \A u \in Thread : pc[u] = "idle"  BY <1>1, <1>2 DEF ThreadsAreSound, InPlace
<1>4. ThreadsAreSound'  BY <1>1, <1>2, <1>3 DEF ThreadsAreSound, InPlace
<1>5. MutexHolds'  BY <1>1, <1>2 DEF MutexHolds
<1>6. PagesFit'
  <2>1. disk[Len(disk)] \in Fitting  BY <1>1, <1>2 DEF PagesFit
  <2> QED  BY <1>1, <1>2, <2>1 DEF PagesFit, Last
<1>7. NewPageIsEmpty'  BY <1>2, <1>3 DEF NewPageIsEmpty
<1> QED  BY <1>4, <1>5, <1>6, <1>7 DEF PageInv

LEMMA FlushPageKeepsPageInv ==
    ASSUME PageInv, NEW t \in Thread, FlushPage(t)
    PROVE  PageInv'
<1>1. /\ ThreadsAreSound /\ MutexHolds /\ PagesFit /\ NewPageIsEmpty /\ InPlace(t)
  BY DEF PageInv, ThreadsAreSound
<1>2. /\ pc[t] = "Write" /\ pc' = [pc EXCEPT ![t] = "Save"]
      /\ disk' = [disk EXCEPT ![current + 1] = page]
      /\ op' = op /\ record' = record /\ running' = running /\ page' = page
      /\ appended' = appended
  BY DEF FlushPage, Goto, memory, history
<1>3. Moves(t) /\ InPlace(t)'
  BY <1>1, <1>2 DEF Moves, ThreadsAreSound, InPlace, Place
<1>4. ThreadsAreSound' /\ MutexHolds'  BY <1>1, <1>2, <1>3, MovesKeep
<1>5. PagesFit'
  <2>1. [disk EXCEPT ![current + 1] = page] \in Seq(Fitting)
    BY <1>1, BlockWritten DEF PagesFit
  <2> QED  BY <1>1, <1>2, <2>1 DEF PagesFit
<1>6. NewPageIsEmpty'
  BY <1>1, <1>2 DEF NewPageIsEmpty, ThreadsAreSound
<1> QED  BY <1>4, <1>5, <1>6 DEF PageInv

LEMMA SaveLsnKeepsPageInv ==
    ASSUME PageInv, NEW t \in Thread, SaveLsn(t)
    PROVE  PageInv'
<1>1. /\ ThreadsAreSound /\ MutexHolds /\ PagesFit /\ NewPageIsEmpty /\ InPlace(t)
  BY DEF PageInv, ThreadsAreSound
<1>2. /\ pc[t] = "Save" /\ page' = page /\ disk' = disk /\ running' = running
      /\ appended' = appended
  BY DEF SaveLsn
<1>3. PICK place \in {"Extend", "Open", "idle"} :
         /\ pc' = [pc EXCEPT ![t] = place]
         /\ Moves(t) /\ InPlace(t)'
         /\ op'[t] = op[t] \/ op'[t] = "none"
  <2>1. CASE op[t] = "Append" /\ Goto(t, "Extend") /\ UNCHANGED <<op, record, lsnArg, acked>>
    <3>1. pc' = [pc EXCEPT ![t] = "Extend"]  BY <2>1 DEF Goto
    <3>2. Moves(t)  BY <1>1, <1>2, <2>1, <3>1 DEF Moves, ThreadsAreSound, Place
    <3>3. InPlace(t)'  BY <1>1, <1>2, <2>1, <3>1 DEF InPlace, ThreadsAreSound
    <3> QED  BY <2>1, <3>1, <3>2, <3>3
  <2>2. CASE op[t] = "Iterator" /\ Goto(t, "Open") /\ UNCHANGED <<op, record, lsnArg, acked>>
    <3>1. pc' = [pc EXCEPT ![t] = "Open"]  BY <2>2 DEF Goto
    <3>2. Moves(t)  BY <1>1, <1>2, <2>2, <3>1 DEF Moves, ThreadsAreSound, Place
    <3>3. InPlace(t)'  BY <1>1, <1>2, <2>2, <3>1 DEF InPlace, ThreadsAreSound
    <3> QED  BY <2>2, <3>1, <3>2, <3>3
  <2>3. CASE op[t] = "Flush" /\ Return(t)
    <3>1. /\ op' = [op EXCEPT ![t] = "none"] /\ pc' = [pc EXCEPT ![t] = "idle"]
          /\ record' = [record EXCEPT ![t] = Blank]
      BY <2>3 DEF Return, Goto
    <3>2. Moves(t)  BY <1>1, <1>2, <3>1 DEF Moves, ThreadsAreSound, Operation, Place
    <3>3. InPlace(t)' /\ op'[t] = "none"  BY <1>1, <3>1 DEF InPlace, ThreadsAreSound
    <3> QED  BY <3>1, <3>2, <3>3
  <2> QED  BY <2>1, <2>2, <2>3 DEF SaveLsn
<1>4. ThreadsAreSound' /\ MutexHolds'  BY <1>1, <1>2, <1>3, MovesKeep
<1>5. PagesFit'  BY <1>1, <1>2 DEF PagesFit
<1>6. NewPageIsEmpty'  BY <1>1, <1>2, <1>3 DEF NewPageIsEmpty, ThreadsAreSound
<1> QED  BY <1>4, <1>5, <1>6 DEF PageInv

LEMMA FlushKeepsPageInv ==
    ASSUME PageInv, NEW t \in Thread, NEW lsn, Flush(t, lsn)
    PROVE  PageInv'
<1>1. /\ ThreadsAreSound /\ MutexHolds /\ PagesFit /\ NewPageIsEmpty /\ InPlace(t)
  BY DEF PageInv, ThreadsAreSound
<1>2. /\ running /\ op[t] = "none" /\ page' = page /\ disk' = disk /\ running' = running
      /\ appended' = appended /\ record' = record
  BY DEF Flush, Enter, memory
<1>3. CASE op' = op /\ pc' = pc
  BY <1>1, <1>2, <1>3
  DEF PageInv, ThreadsAreSound, MutexHolds, PagesFit, NewPageIsEmpty, InPlace
<1>4. CASE Enter(t, "Flush", "Write")
  <2>1. op' = [op EXCEPT ![t] = "Flush"] /\ pc' = [pc EXCEPT ![t] = "Write"]
    BY <1>4 DEF Enter, Goto
  <2>2. Moves(t) /\ InPlace(t)' /\ op'[t] = "Flush"
    BY <1>1, <1>2, <2>1 DEF Moves, ThreadsAreSound, InPlace, Place, Operation
  <2>3. ThreadsAreSound' /\ MutexHolds'
    <3>1. op'[t] \in {"none", "Flush", "Iterator"}  BY <2>2
    <3> QED  BY <1>1, <1>2, <2>2, <3>1, MovesKeep
  <2>4. PagesFit'  BY <1>1, <1>2 DEF PagesFit
  <2>5. NewPageIsEmpty'  BY <1>1, <1>2, <2>1 DEF NewPageIsEmpty, ThreadsAreSound
  <2> QED  BY <2>3, <2>4, <2>5 DEF PageInv
<1> QED  BY <1>3, <1>4 DEF Flush

LEMMA AppendThatFitsKeepsPageInv ==
    ASSUME PageInv, NEW t \in Thread, NEW size \in RecordSize, AppendThatFits(t, size)
    PROVE  PageInv'
<1> DEFINE r == [id |-> appended + 1, size |-> size]
<1>1. /\ ThreadsAreSound /\ MutexHolds /\ PagesFit /\ NewPageIsEmpty
  BY DEF PageInv
<1>2. /\ running /\ \A u \in Thread : op[u] # "Append"
      /\ appended < MaxRecords /\ appended' = appended + 1
      /\ Fits(page, size) /\ page' = Append(page, r)
      /\ disk' = disk /\ running' = running /\ op' = op /\ pc' = pc /\ record' = record
  BY DEF AppendThatFits, Store, threads, MutexFree
<1>3. r \in Record /\ r.size = size /\ appended' \in 0..MaxRecords
  <2>1. appended \in 0..MaxRecords /\ MaxRecords \in Nat
    BY <1>1, LogManagerAssumption DEF PagesFit
  <2>2. appended + 1 \in 1..MaxRecords  BY <1>2, <2>1
  <2>3. appended' \in 0..MaxRecords  BY <1>2, <2>1
  <2> QED  BY <2>2, <2>3 DEF Record
<1> HIDE DEF r
<1>4. ThreadsAreSound' /\ MutexHolds'
  BY <1>1, <1>2 DEF ThreadsAreSound, MutexHolds, InPlace
<1>5. PagesFit'
  <2>1. Append(page, r) \in Fitting  BY <1>1, <1>2, <1>3, FittingPages DEF PagesFit
  <2> QED  BY <1>1, <1>2, <1>3, <2>1 DEF PagesFit
<1>6. NewPageIsEmpty'
  <2>1. \A u \in Thread : InPlace(u)  BY <1>1 DEF ThreadsAreSound
  <2>2. \A u \in Thread : pc[u] \notin {"Format", "Switch", "Put"}
    BY <1>2, <2>1 DEF InPlace
  <2> QED  BY <1>2, <2>2 DEF NewPageIsEmpty
<1> QED  BY <1>4, <1>5, <1>6 DEF PageInv

LEMMA AppendThatDoesNotFitKeepsPageInv ==
    ASSUME PageInv, NEW t \in Thread, NEW size \in RecordSize, AppendThatDoesNotFit(t, size)
    PROVE  PageInv'
<1> DEFINE r == [id |-> appended + 1, size |-> size]
<1>1. /\ ThreadsAreSound /\ MutexHolds /\ PagesFit /\ NewPageIsEmpty
  BY DEF PageInv
<1>2. /\ running /\ \A u \in Thread : op[u] # "Append"
      /\ appended < MaxRecords /\ appended' = appended + 1
      /\ op' = [op EXCEPT ![t] = "Append"] /\ pc' = [pc EXCEPT ![t] = "Write"]
      /\ record' = [record EXCEPT ![t] = r]
      /\ disk' = disk /\ running' = running /\ page' = page
  BY DEF AppendThatDoesNotFit, Enter, Goto, memory, MutexFree
<1>3. r \in Record /\ appended' \in 0..MaxRecords
  <2>1. appended \in 0..MaxRecords /\ MaxRecords \in Nat
    BY <1>1, LogManagerAssumption DEF PagesFit
  <2>2. appended + 1 \in 1..MaxRecords  BY <1>2, <2>1
  <2>3. appended' \in 0..MaxRecords  BY <1>2, <2>1
  <2> QED  BY <2>2, <2>3 DEF Record
<1> HIDE DEF r
<1>4. Moves(t) /\ InPlace(t)' /\ op'[t] = "Append"
  BY <1>1, <1>2, <1>3 DEF Moves, ThreadsAreSound, InPlace, Place, Operation
<1>5. ThreadsAreSound' /\ MutexHolds'
  <2>1. op'[t] \in {"Append", "Start"} /\ \A u \in Thread : op[u] # op'[t]
    BY <1>2, <1>4
  <2> QED  BY <1>1, <1>2, <1>4, <2>1, MovesKeep
<1>6. PagesFit'  BY <1>1, <1>2, <1>3 DEF PagesFit
<1>7. NewPageIsEmpty'  BY <1>1, <1>2 DEF NewPageIsEmpty, ThreadsAreSound
<1> QED  BY <1>5, <1>6, <1>7 DEF PageInv

LEMMA PutKeepsPageInv ==
    ASSUME PageInv, NEW t \in Thread, Put(t)
    PROVE  PageInv'
<1>1. /\ ThreadsAreSound /\ MutexHolds /\ PagesFit /\ NewPageIsEmpty /\ InPlace(t)
  BY DEF PageInv, ThreadsAreSound
<1>2. /\ pc[t] = "Put" /\ page' = Append(page, record[t])
      /\ op' = [op EXCEPT ![t] = "none"] /\ pc' = [pc EXCEPT ![t] = "idle"]
      /\ record' = [record EXCEPT ![t] = Blank]
      /\ disk' = disk /\ running' = running /\ appended' = appended
  BY DEF Put, Store, Return, Goto
<1>3. op[t] = "Append" /\ record[t] \in Record /\ page = <<>>
  BY <1>1, <1>2 DEF InPlace, NewPageIsEmpty
<1>4. Moves(t) /\ InPlace(t)' /\ op'[t] = "none"
  BY <1>1, <1>2 DEF Moves, ThreadsAreSound, InPlace, Place, Operation
<1>5. ThreadsAreSound' /\ MutexHolds'
  <2>1. op'[t] \in {"none", "Flush", "Iterator"}  BY <1>4
  <2> QED  BY <1>1, <1>2, <1>4, <2>1, MovesKeep
<1>6. PagesFit'
  <2>1. Fits(page, record[t].size)  BY <1>3, FittingPages
  <2>2. Append(page, record[t]) \in Fitting  BY <1>1, <1>3, <2>1, FittingPages DEF PagesFit
  <2> QED  BY <1>1, <1>2, <2>2 DEF PagesFit
<1>7. NewPageIsEmpty'
  <2>1. \A u \in Thread : pc[u] \in {"Format", "Switch", "Put"} => u = t
    BY <1>1, <1>3, BusyWithNewBlock
  <2> QED  BY <1>1, <1>2, <2>1 DEF NewPageIsEmpty, ThreadsAreSound
<1> QED  BY <1>5, <1>6, <1>7 DEF PageInv

LEMMA IteratorKeepsPageInv ==
    ASSUME PageInv, NEW t \in Thread, Iterator(t)
    PROVE  PageInv'
<1>1. /\ ThreadsAreSound /\ MutexHolds /\ PagesFit /\ NewPageIsEmpty /\ InPlace(t)
  BY DEF PageInv, ThreadsAreSound
<1>2. /\ running /\ op[t] = "none" /\ page' = page /\ disk' = disk /\ running' = running
      /\ appended' = appended /\ record' = record
      /\ op' = [op EXCEPT ![t] = "Iterator"] /\ pc' = [pc EXCEPT ![t] = "Write"]
  BY DEF Iterator, Enter, Goto, memory, history
<1>3. Moves(t) /\ InPlace(t)' /\ op'[t] = "Iterator"
  BY <1>1, <1>2 DEF Moves, ThreadsAreSound, InPlace, Place, Operation
<1>4. ThreadsAreSound' /\ MutexHolds'
  <2>1. op'[t] \in {"none", "Flush", "Iterator"}  BY <1>3
  <2> QED  BY <1>1, <1>2, <1>3, <2>1, MovesKeep
<1>5. PagesFit'  BY <1>1, <1>2 DEF PagesFit
<1>6. NewPageIsEmpty'  BY <1>1, <1>2 DEF NewPageIsEmpty, ThreadsAreSound
<1> QED  BY <1>4, <1>5, <1>6 DEF PageInv

LEMMA OpenIteratorKeepsPageInv ==
    ASSUME PageInv, NEW t \in Thread, OpenIterator(t)
    PROVE  PageInv'
<1>1. /\ ThreadsAreSound /\ MutexHolds /\ PagesFit /\ NewPageIsEmpty /\ InPlace(t)
  BY DEF PageInv, ThreadsAreSound
<1>2. /\ page' = page /\ disk' = disk /\ running' = running /\ appended' = appended
      /\ op' = [op EXCEPT ![t] = "none"] /\ pc' = [pc EXCEPT ![t] = "idle"]
      /\ record' = [record EXCEPT ![t] = Blank]
  BY DEF OpenIterator, Return, Goto, memory, history
<1>3. Moves(t) /\ InPlace(t)' /\ op'[t] = "none"
  BY <1>1, <1>2 DEF Moves, ThreadsAreSound, InPlace, Place, Operation
<1>4. ThreadsAreSound' /\ MutexHolds'
  <2>1. op'[t] \in {"none", "Flush", "Iterator"}  BY <1>3
  <2> QED  BY <1>1, <1>2, <1>3, <2>1, MovesKeep
<1>5. PagesFit'  BY <1>1, <1>2 DEF PagesFit
<1>6. NewPageIsEmpty'  BY <1>1, <1>2 DEF NewPageIsEmpty, ThreadsAreSound
<1> QED  BY <1>4, <1>5, <1>6 DEF PageInv

LEMMA NextRecordKeepsPageInv ==
    ASSUME PageInv, NEW t \in Thread, NextRecord(t)
    PROVE  PageInv'
<1>1. /\ page' = page /\ disk' = disk /\ running' = running /\ appended' = appended
      /\ op' = op /\ pc' = pc /\ record' = record
  BY DEF NextRecord, memory, history
<1> QED
  BY <1>1 DEF PageInv, ThreadsAreSound, MutexHolds, PagesFit, NewPageIsEmpty, InPlace

LEMMA CrashKeepsPageInv ==
    ASSUME PageInv, Crash
    PROVE  PageInv'
<1>1. /\ op' = [t \in Thread |-> "none"] /\ pc' = [t \in Thread |-> "idle"]
      /\ record' = [t \in Thread |-> Blank] /\ running' = FALSE
      /\ disk' = disk /\ page' = <<>> /\ appended' = appended
  BY DEF Crash
<1>2. ThreadsAreSound' /\ MutexHolds' /\ NewPageIsEmpty'
  BY <1>1 DEF ThreadsAreSound, MutexHolds, NewPageIsEmpty, InPlace, Operation, Place
<1>3. PagesFit'  BY <1>1, FittingPages DEF PageInv, PagesFit
<1> QED  BY <1>2, <1>3 DEF PageInv

LEMMA NextKeepsPageInv == PageInv /\ [Next]_vars => PageInv'
<1> SUFFICES ASSUME PageInv, [Next]_vars PROVE PageInv'  OBVIOUS
<1>1. CASE UNCHANGED vars  BY <1>1, StutterKeepsPageInv
<1>2. CASE Crash  BY <1>2, CrashKeepsPageInv
<1>3. CASE StartOld  BY <1>3, StartOldKeepsPageInv
<1>4. ASSUME NEW t \in Thread, StartNew(t) PROVE PageInv'  BY <1>4, StartNewKeepsPageInv
<1>5. ASSUME NEW t \in Thread, AppendNewBlock(t) PROVE PageInv'
  BY <1>5, ExtendKeepsPageInv, BlankPageKeepsPageInv, FormatKeepsPageInv, SwitchKeepsPageInv
  DEF AppendNewBlock
<1>6. ASSUME NEW t \in Thread, FlushPage(t) PROVE PageInv'  BY <1>6, FlushPageKeepsPageInv
<1>7. ASSUME NEW t \in Thread, SaveLsn(t) PROVE PageInv'  BY <1>7, SaveLsnKeepsPageInv
<1>8. ASSUME NEW t \in Thread, Put(t) PROVE PageInv'  BY <1>8, PutKeepsPageInv
<1>9. ASSUME NEW t \in Thread, Iterator(t) PROVE PageInv'  BY <1>9, IteratorKeepsPageInv
<1>10. ASSUME NEW t \in Thread, OpenIterator(t) PROVE PageInv'
  BY <1>10, OpenIteratorKeepsPageInv
<1>11. ASSUME NEW t \in Thread, NextRecord(t) PROVE PageInv'  BY <1>11, NextRecordKeepsPageInv
<1>12. ASSUME NEW t \in Thread, NEW lsn \in 1..latestLsn, Flush(t, lsn) PROVE PageInv'
  BY <1>12, FlushKeepsPageInv
<1>13. ASSUME NEW t \in Thread, NEW size \in RecordSize,
              AppendThatFits(t, size) \/ AppendThatDoesNotFit(t, size)
       PROVE  PageInv'
  BY <1>13, AppendThatFitsKeepsPageInv, AppendThatDoesNotFitKeepsPageInv
<1> QED
  BY <1>1, <1>2, <1>3, <1>4, <1>5, <1>6, <1>7, <1>8, <1>9, <1>10, <1>11, <1>12, <1>13 DEF Next

(* Whatever threads call the log manager and wherever it crashes, its      *)
(* pages and its threads are as PageInv says.                              *)
THEOREM PagesAreSound == Spec => []PageInv
BY InitPageInv, NextKeepsPageInv, PTL DEF Spec

(* The page in memory never grows over its boundary (log_manager.cpp,      *)
(* Append), for any block size and any threads: also where Flush, which    *)
(* takes no lock, writes the page while another thread moves it to a new   *)
(* block.                                                                  *)
THEOREM PagesNeverOverflow == Spec => []PageNeverOverflows
<1>1. PageInv => PageNeverOverflows
  BY DEF PageInv, PagesFit, Fitting, PageNeverOverflows
<1> QED  BY <1>1, PagesAreSound, PTL

-----------------------------------------------------------------------------
(* Lemmas about pages, blocks and the records in them *)

LEMMA PagesOfRecords ==
    /\ \A p \in Seq(Record) : RecordsOf(p) = p
    /\ RecordsOf(ZeroPage) = <<>> /\ RecordsOf(<<>>) = <<>>
    /\ <<>> \in Page /\ ZeroPage \in Page
    /\ \A p \in Fitting, r \in Record : Fits(p, r.size) => p \in Seq(Record)
<1>1. ASSUME NEW p \in Seq(Record) PROVE RecordsOf(p) = p
  <2> SUFFICES ASSUME p = ZeroPage, p # <<>> PROVE FALSE  BY DEF RecordsOf
  <2>1. 1 \in 1..Len(p)  BY <1>1
  <2>2. p[1] \in Record  BY <1>1, <2>1
  <2>3. p[1] = Blank
    <3>1. ZeroPage \in Seq({Blank})  BY RecordTypes
    <3>2. ZeroPage[1] \in {Blank}  BY <2>1, <3>1
    <3> QED  BY <3>2
  <2> QED  BY <2>2, <2>3, RecordTypes
<1>2. ASSUME NEW p \in Fitting, NEW r \in Record, Fits(p, r.size) PROVE p \in Seq(Record)
  <2>1. BlockSize \in Nat /\ r.size \in 1..(BlockSize - 2) /\ p \in Seq(Sized)
    BY RecordTypes DEF Fitting
  <2>2. Used(p) \in Int /\ Used(ZeroPage) >= BlockSize  BY <2>1, UsedValues
  <2>3. BlockSize - Used(p) - (r.size + 1) >= 1  BY <1>2 DEF Fits, Boundary
  <2>4. p # ZeroPage  BY <2>1, <2>2, <2>3
  <2> QED  BY <2>4 DEF Fitting, Page
<1>3. RecordsOf(ZeroPage) = <<>> /\ <<>> \in Page /\ ZeroPage \in Page
  BY DEF RecordsOf, Page
<1>4. RecordsOf(<<>>) = <<>>  BY DEF RecordsOf
<1> QED  BY <1>1, <1>2, <1>3, <1>4

LEMMA SameFirsts ==
    ASSUME NEW X, NEW d \in Seq(X), NEW e \in Seq(X), NEW k \in Nat,
           k <= Len(d), k <= Len(e), \A i \in 1..k : d[i] = e[i]
    PROVE  SubSeq(d, 1, k) = SubSeq(e, 1, k)
<1>1. /\ \A i \in 1..k : d[i] \in X /\ e[i] \in X
      /\ 1 \in Int /\ k \in Int /\ k - 1 + 1 = k /\ (1 <= k \/ k = 0)
  OBVIOUS
<1>2. /\ SubSeq(d, 1, k) \in Seq(X) /\ Len(SubSeq(d, 1, k)) = k
      /\ \A i \in 1..k : SubSeq(d, 1, k)[i] = d[i]
  BY <1>1, SubSeqProperties
<1>3. /\ SubSeq(e, 1, k) \in Seq(X) /\ Len(SubSeq(e, 1, k)) = k
      /\ \A i \in 1..k : SubSeq(e, 1, k)[i] = e[i]
  BY <1>1, SubSeqProperties
<1> QED  BY <1>2, <1>3, SeqEqual

LEMMA AllButLast ==
    ASSUME NEW d \in Seq(Page), NEW e \in Seq(Page), d # <<>>, Len(e) = Len(d),
           \A k \in 1..(Len(d) - 1) : e[k] = d[k]
    PROVE  SubSeq(e, 1, Len(e) - 1) = SubSeq(d, 1, Len(d) - 1)
<1>1. PICK n \in Nat \ {0} : n = Len(d)  BY EmptySeq
<1>2. n - 1 \in Nat /\ n - 1 <= Len(d) /\ n - 1 <= Len(e)  BY <1>1
<1>3. \A i \in 1..(n - 1) : e[i] = d[i]  BY <1>1
<1>4. SubSeq(e, 1, n - 1) = SubSeq(d, 1, n - 1)  BY <1>2, <1>3, SameFirsts
<1> QED  BY <1>1, <1>4

LEMMA FirstBlocks ==
    ASSUME NEW d \in Seq(Page), NEW k \in 1..Len(d)
    PROVE  /\ d[k] \in Page /\ SubSeq(d, 1, k - 1) \in Seq(Page)
           /\ SubSeq(d, 1, k) = Append(SubSeq(d, 1, k - 1), d[k])
           /\ Records(SubSeq(d, 1, k)) = Records(SubSeq(d, 1, k - 1)) \o RecordsOf(d[k])
<1>1. d[k] \in Page  OBVIOUS
<1>2. SubSeq(d, 1, k - 1) \in Seq(Page)
  <2>1. k - 1 \in Int /\ 1 \in Int /\ \A i \in 1..(k - 1) : d[i] \in Page  OBVIOUS
  <2> QED  BY <2>1, SubSeqProperties
<1>3. SubSeq(d, 1, k) = SubSeq(d, 1, k - 1) \o <<d[k]>>
  <2>1. 1 \in 1..Len(d) /\ k \in 1..Len(d)  OBVIOUS
  <2> QED  BY <2>1, SubSeqRecursiveSecond
<1>4. SubSeq(d, 1, k) = Append(SubSeq(d, 1, k - 1), d[k])
  BY <1>1, <1>2, <1>3, AppendIsConcat
<1> QED  BY <1>1, <1>2, <1>4, RecordsValues

LEMMA AllBlocks ==
    ASSUME NEW d \in Seq(Page), d # <<>>
    PROVE  /\ Len(d) \in Nat /\ Len(d) \in 1..Len(d) /\ d[Len(d)] \in Page
           /\ SubSeq(d, 1, Len(d) - 1) \in Seq(Page)
           /\ Records(d) = Records(SubSeq(d, 1, Len(d) - 1)) \o RecordsOf(d[Len(d)])
<1>1. Len(d) \in 1..Len(d) /\ Len(d) \in Nat  BY EmptySeq
<1>2. SubSeq(d, 1, Len(d)) = d  BY SubSeqFull
<1> QED  BY <1>1, <1>2, FirstBlocks

(* e is d with the page p for one block more. *)
Extends(e, d, p) ==
    /\ e \in Seq(Page) /\ e # <<>> /\ Len(e) = Len(d) + 1 /\ e[Len(e)] = p
    /\ \A k \in 1..Len(d) : e[k] = d[k]
    /\ Records(e) = Records(d) \o RecordsOf(p)

LEMMA BlockExtended ==
    ASSUME NEW d \in Seq(Page), NEW p \in Page, NEW e, e = Append(d, p)
    PROVE  Extends(e, d, p)
<1>1. /\ e \in Seq(Page) /\ e # <<>> /\ Len(e) = Len(d) + 1 /\ e[Len(d) + 1] = p
      /\ \A k \in 1..Len(d) : e[k] = d[k]
  BY AppendProperties
<1>2. Records(e) = Records(d) \o RecordsOf(p)  BY RecordsValues
<1> QED  BY <1>1, <1>2 DEF Extends

(* e is d with the page p in its last block. *)
Rewrites(e, d, p) ==
    /\ e \in Seq(Page) /\ e # <<>> /\ Len(e) = Len(d) /\ e[Len(e)] = p
    /\ \A k \in 1..(Len(d) - 1) : e[k] = d[k]
    /\ SubSeq(e, 1, Len(e) - 1) = SubSeq(d, 1, Len(d) - 1)
    /\ Records(e) = Records(SubSeq(d, 1, Len(d) - 1)) \o RecordsOf(p)

LEMMA LastBlockWritten ==
    ASSUME NEW d \in Seq(Page), d # <<>>, NEW p \in Page,
           NEW e, e = [d EXCEPT ![Len(d)] = p]
    PROVE  Rewrites(e, d, p)
<1>1. Len(d) \in 1..Len(d) /\ Len(d) \in Nat  BY AllBlocks
<1>2. /\ e \in Seq(Page) /\ Len(e) = Len(d)
      /\ \A k \in 1..Len(d) : e[k] = IF k = Len(d) THEN p ELSE d[k]
  BY <1>1, ExceptSeq
<1>3. e[Len(e)] = p /\ \A k \in 1..(Len(d) - 1) : e[k] = d[k]
  <2>1. e[Len(d)] = p  BY <1>1, <1>2
  <2>2. \A k \in 1..(Len(d) - 1) : k \in 1..Len(d) /\ k # Len(d)  BY <1>1
  <2> QED  BY <1>2, <2>1, <2>2
<1>4. e # <<>>  BY <1>1, <1>2
<1>5. SubSeq(e, 1, Len(e) - 1) = SubSeq(d, 1, Len(d) - 1)
  <2>1. Len(e) = Len(d)  BY <1>2
  <2>2. e \in Seq(Page)  BY <1>2
  <2>3. \A k \in 1..(Len(d) - 1) : e[k] = d[k]  BY <1>3
  <2> QED  BY <1>4, <2>1, <2>2, <2>3, AllButLast, Zenon
<1>6. Records(e) = Records(SubSeq(d, 1, Len(d) - 1)) \o RecordsOf(p)
  BY <1>2, <1>3, <1>4, <1>5, AllBlocks
<1> QED  BY <1>2, <1>3, <1>4, <1>5, <1>6 DEF Rewrites

(* What an iterator has still to return of a page: the page, unless it has *)
(* blank records only.                                                     *)
LeftOf(p) == IF p \in Seq({Blank}) THEN <<>> ELSE p

LEMMA LeftOfPages ==
    /\ \A p \in Page : LeftOf(p) = RecordsOf(p)
    /\ \A p \in Page : p \in Seq(Record) \cup Seq({Blank})
    /\ \A p \in Seq(Record) : LeftOf(p) = p
<1>1. ASSUME NEW p \in Seq(Record) PROVE LeftOf(p) = p
  <2> SUFFICES ASSUME p \in Seq({Blank}), p # <<>> PROVE FALSE  BY DEF LeftOf
  <2>1. 1 \in 1..Len(p)  OBVIOUS
  <2>2. p[1] \in Record /\ p[1] \in {Blank}  BY <2>1
  <2> QED  BY <2>2, RecordTypes
<1>2. ZeroPage \in Seq({Blank}) /\ LeftOf(ZeroPage) = <<>>  BY RecordTypes DEF LeftOf
<1> QED  BY <1>1, <1>2, PagesOfRecords DEF Page

(* How many empty records an iterator has still to return of a page. *)
BlanksOf(p) == IF p \in Seq({Blank}) THEN Len(p) ELSE 0

LEMMA BlanksOfPages ==
    /\ BlanksOf(<<>>) = 0
    /\ \A p \in Page : BlanksOf(p) = IF p = ZeroPage THEN BlockSize ELSE 0
    /\ \A p \in Seq(Record) : BlanksOf(p) = 0
    /\ \A p \in Seq(Record) \cup Seq({Blank}) : BlanksOf(p) \in Nat
<1>1. BlanksOf(<<>>) = 0  BY DEF BlanksOf
<1>2. ASSUME NEW p \in Seq(Record) PROVE BlanksOf(p) = 0
  <2>1. LeftOf(p) = p  BY LeftOfPages
  <2> QED  BY <1>1, <2>1 DEF LeftOf, BlanksOf
<1>3. BlanksOf(ZeroPage) = BlockSize
  <2>1. ZeroPage \in Seq({Blank})  BY RecordTypes
  <2>2. Len(ZeroPage) = BlockSize  BY LogManagerAssumption DEF ZeroPage
  <2> QED  BY <2>1, <2>2 DEF BlanksOf
<1>4. \A p \in Seq(Record) \cup Seq({Blank}) : BlanksOf(p) \in Nat  BY DEF BlanksOf
<1> QED  BY <1>1, <1>2, <1>3, <1>4 DEF Page

-----------------------------------------------------------------------------
(* What is counted of records and blocks *)

LEMMA CountOneMore ==
    ASSUME NEW n \in Nat, NEW S, S \subseteq 1..n
    PROVE  /\ IsFiniteSet(S) /\ Cardinality(S) \in Nat
           /\ Cardinality(S \cup {n + 1}) = Cardinality(S) + 1
<1>1. IsFiniteSet(1..n)
  <2>1. 1 \in Int /\ n \in Int  OBVIOUS
  <2> QED  BY <2>1, FS_Interval
<1>2. IsFiniteSet(S)  BY <1>1, FS_Subset
<1>3. n + 1 \notin S  OBVIOUS
<1> QED  BY <1>2, <1>3, FS_CardinalityType, FS_AddElement

LEMMA WrittenValues ==
    ASSUME NEW s \in Seq(Record \cup {Blank})
    PROVE  /\ \A i \in 0..Len(s) : Written(s, i) \in Nat /\ Written(s, i) <= Written(s, Len(s))
           /\ \A i \in 1..Len(s) : s[i] # Blank => Written(s, i) >= 1
<1> DEFINE Those(i) == {k \in 1..i : s[k] # Blank}
<1>1. \A i \in Nat : IsFiniteSet(Those(i)) /\ Cardinality(Those(i)) \in Nat
  <2> SUFFICES ASSUME NEW i \in Nat
               PROVE  IsFiniteSet(Those(i)) /\ Cardinality(Those(i)) \in Nat
    OBVIOUS
  <2>1. Those(i) \subseteq 1..i  OBVIOUS
  <2> QED  BY <2>1, CountOneMore
<1>2. \A i \in Nat : Written(s, i) = Cardinality(Those(i))  BY DEF Written
<1>3. ASSUME NEW i \in 0..Len(s)
      PROVE  Written(s, i) \in Nat /\ Written(s, i) <= Written(s, Len(s))
  <2>1. i \in Nat /\ Len(s) \in Nat /\ Those(i) \in SUBSET Those(Len(s))  OBVIOUS
  <2>2. Cardinality(Those(i)) <= Cardinality(Those(Len(s)))
    <3> HIDE DEF Those
    <3> QED  BY <1>1, <2>1, FS_Subset
  <2> QED  BY <1>1, <1>2, <2>1, <2>2
<1>4. ASSUME NEW i \in 1..Len(s), s[i] # Blank PROVE Written(s, i) >= 1
  <2>1. i \in Nat /\ Those(i) # {}  BY <1>4
  <2>2. Cardinality(Those(i)) # 0
    <3> HIDE DEF Those
    <3> QED  BY <1>1, <2>1, FS_EmptySet
  <2>3. Written(s, i) \in Nat /\ Written(s, i) # 0
    <3> HIDE DEF Those
    <3> QED  BY <1>1, <1>2, <2>1, <2>2
  <2> QED  BY <2>3
<1> QED  BY <1>3, <1>4

LEMMA WrittenAppended ==
    ASSUME NEW s \in Seq(Record \cup {Blank}), NEW r \in Record \cup {Blank}
    PROVE  /\ \A i \in 0..Len(s) : Written(Append(s, r), i) = Written(s, i)
           /\ Written(Append(s, r), Len(s) + 1) =
                 IF r = Blank THEN Written(s, Len(s)) ELSE Written(s, Len(s)) + 1
<1>1. PICK n \in Nat, z \in {Append(s, r)} : n = Len(s)  OBVIOUS
<1>2. z[n + 1] = r /\ \A k \in 1..n : z[k] = s[k]  BY <1>1, AppendProperties
<1>3. \A i \in 0..n : Written(z, i) = Written(s, i)
  <2> SUFFICES ASSUME NEW i \in 0..n PROVE Written(z, i) = Written(s, i)  OBVIOUS
  <2>1. {k \in 1..i : z[k] # Blank} = {k \in 1..i : s[k] # Blank}  BY <1>2
  <2> QED  BY <2>1 DEF Written
<1>4. PICK S : S = {k \in 1..n : s[k] # Blank}  OBVIOUS
<1>5. S \subseteq 1..n /\ Written(s, n) = Cardinality(S)  BY <1>4 DEF Written
<1>6. {k \in 1..(n + 1) : z[k] # Blank} = IF r = Blank THEN S ELSE S \cup {n + 1}
  BY <1>2, <1>4
<1>7. Written(z, n + 1) = IF r = Blank THEN Cardinality(S) ELSE Cardinality(S) + 1
  BY <1>5, <1>6, CountOneMore DEF Written
<1> QED  BY <1>1, <1>3, <1>5, <1>7

LEMMA NoneWritten == Written(<<>>, 0) = 0 /\ Len(<<>>) = 0
<1>1. {k \in 1..0 : <<>>[k] # Blank} = {}  OBVIOUS
<1> QED  BY <1>1, FS_EmptySet DEF Written

LEMMA ZeroedBlocks ==
    /\ Zeroed(0) = 0
    /\ \A b \in Nat : Zeroed(b) \in Nat
    /\ \A b \in Nat : Zeroed(b + 1) = IF disk[b + 1] = ZeroPage THEN Zeroed(b) + 1 ELSE Zeroed(b)
<1>1. Zeroed(0) = 0
  <2>1. {k \in 1..0 : disk[k] = ZeroPage} = {}  OBVIOUS
  <2> QED  BY <2>1, FS_EmptySet DEF Zeroed
<1>2. ASSUME NEW b \in Nat
      PROVE  /\ Zeroed(b) \in Nat
             /\ Zeroed(b + 1) = IF disk[b + 1] = ZeroPage THEN Zeroed(b) + 1 ELSE Zeroed(b)
  <2>1. PICK S : S = {k \in 1..b : disk[k] = ZeroPage}  OBVIOUS
  <2>2. S \subseteq 1..b /\ Zeroed(b) = Cardinality(S)  BY <2>1 DEF Zeroed
  <2>3. {k \in 1..(b + 1) : disk[k] = ZeroPage} =
        IF disk[b + 1] = ZeroPage THEN S \cup {b + 1} ELSE S
    BY <2>1
  <2> QED  BY <2>2, <2>3, CountOneMore DEF Zeroed
<1> QED  BY <1>1, <1>2

-----------------------------------------------------------------------------
(* The log, for one thread *)

(* Flush takes no lock: with a second thread it may write a page whose      *)
(* block has moved on.  What follows is for a log manager that one thread   *)
(* calls.                                                                   *)
OneThread == \A t, u \in Thread : t = u

Busy(places) == \E t \in Thread : pc[t] \in places

(* The tail of the log is in the page only, while nothing is flushed. *)
TailInMemory ==
    running /\ ~Busy({"Save", "Open", "Extend", "Blank", "Format", "Switch", "Put"})

Earlier == SubSeq(disk, 1, Len(disk) - 1)
LastBlock == disk[Len(disk)]

IteratorState ==
    [block : Nat, left : Seq(Record) \cup Seq({Blank}),
     seen : Seq(Record \cup {Blank}), end : Nat, zeroed : Nat]

TypesOfLog ==
    /\ log \in Seq(Record) /\ lsnArg \in [Thread -> Nat]
    /\ latestLsn \in Nat /\ lastSavedLsn \in Nat /\ base \in Nat /\ acked \in Nat
    /\ current \in Nat
    /\ iter \in [Thread -> IteratorState]

(* Where the end of the log is. *)
LogIsWhole ==
    /\ TailInMemory => log = Records(Earlier) \o RecordsOf(page)
    /\ ~TailInMemory => log = DiskRecords
    /\ Busy({"Save", "Open", "Put"}) => LastBlock = page
    /\ Busy({"Blank", "Format"}) => LastBlock = ZeroPage
    /\ Busy({"Switch"}) => LastBlock = <<>>

BlocksAreKnown ==
    /\ running \/ Busy({"Blank", "Format", "Switch"}) => disk # <<>>
    /\ running /\ ~Busy({"Blank", "Format", "Switch"}) => current + 1 = Len(disk)

(* Also while a thread moves the page to a new block. *)
DiskComesFirst ==
    /\ Len(DiskRecords) <= Len(log)
    /\ \A i \in 1..Len(DiskRecords) : DiskRecords[i] = log[i]

LsnsAgree ==
    /\ base + latestLsn = Len(log)
    /\ base + lastSavedLsn <= Len(DiskRecords) /\ lastSavedLsn <= latestLsn
    /\ \A t \in Thread : lsnArg[t] <= latestLsn
    /\ acked <= Len(DiskRecords)

(* What an iterator has still to return of the appended records is the     *)
(* start of the log it was opened on, what it has returned of them is the  *)
(* rest, backwards.  Of the empty records it has still to return those of  *)
(* its page and of the zeroed blocks before it.                            *)
Unread(it) == Records(SubSeq(disk, 1, it.block)) \o LeftOf(it.left)
UnreadBlanks(it) == BlanksOf(it.left) + BlockSize * Zeroed(it.block)

Returned(it) == Written(it.seen, Len(it.seen))

IteratorIsSound(it) ==
    /\ it.block = 0 \/ it.block < Len(disk)
    /\ Returned(it) <= it.end /\ it.end <= Len(log)
    /\ \A i \in 1..Len(it.seen) : it.seen[i] # Blank =>
          it.seen[i] = log[it.end + 1 - Written(it.seen, i)]
    /\ Unread(it) = SubSeq(log, 1, it.end - Returned(it))
    /\ Len(it.seen) - Returned(it) + UnreadBlanks(it) = BlockSize * it.zeroed

IteratorsAreSound == \A t \in Thread : IteratorIsSound(iter[t])

LogInv ==
    /\ PageInv /\ TypesOfLog /\ LogIsWhole /\ BlocksAreKnown /\ DiskComesFirst
    /\ LsnsAgree /\ IteratorsAreSound

LEMMA LogFacts ==
    ASSUME LogInv
    PROVE  /\ disk \in Seq(Page) /\ page \in Page
           /\ Len(disk) \in Nat /\ Len(DiskRecords) \in Nat /\ Len(log) \in Nat
           /\ DiskRecords \in Seq(Record) /\ log \in Seq(Record)
           /\ RecordsOf(page) \in Seq(Record)
<1>1. disk \in Seq(Page) /\ page \in Page
  BY FittingPages DEF LogInv, PageInv, PagesFit
<1>2. DiskRecords \in Seq(Record)  BY <1>1, RecordsValues DEF DiskRecords
<1>3. log \in Seq(Record)  BY DEF LogInv, TypesOfLog
<1> QED  BY <1>1, <1>2, <1>3, RecordsOfPage

LEMMA BlockFacts ==
    ASSUME LogInv, disk # <<>>
    PROVE  /\ Len(disk) \in 1..Len(disk) /\ LastBlock \in Page /\ Earlier \in Seq(Page)
           /\ Records(Earlier) \in Seq(Record)
           /\ DiskRecords = Records(Earlier) \o RecordsOf(LastBlock)
<1>1. disk \in Seq(Page)  BY LogFacts
<1> QED  BY <1>1, AllBlocks, RecordsValues DEF Earlier, LastBlock, DiskRecords

LEMMA OnlyThread ==
    ASSUME OneThread, NEW t \in Thread
    PROVE  /\ \A u \in Thread : u = t
           /\ \A places : Busy(places) <=> pc[t] \in places
           /\ \A places : Busy(places)' <=> pc'[t] \in places
BY DEF OneThread, Busy

(* Nothing an iterator has seen or has still to see changes while the log  *)
(* only grows and blocks before the last one stay as they are.             *)
LogGrows ==
    /\ log' \in Seq(Record) /\ Len(log) <= Len(log')
    /\ \A i \in 1..Len(log) : log'[i] = log[i]

BlocksGrow ==
    /\ disk' \in Seq(Page) /\ Len(disk) <= Len(disk')
    /\ \A k \in 1..(Len(disk) - 1) : disk'[k] = disk[k]

LEMMA IteratorStaysSound ==
    ASSUME LogInv, LogGrows, BlocksGrow,
           NEW it \in IteratorState,
           IteratorIsSound(it)
    PROVE  IteratorIsSound(it)'
<1>1. /\ disk \in Seq(Page) /\ disk' \in Seq(Page)
      /\ log \in Seq(Record) /\ log' \in Seq(Record)
      /\ it.block \in Nat /\ it.end \in Nat /\ Returned(it) \in Nat
      /\ it.seen \in Seq(Record \cup {Blank})
  <2>1. /\ it.block \in Nat /\ it.end \in Nat /\ it.seen \in Seq(Record \cup {Blank})
        /\ Len(it.seen) \in 0..Len(it.seen)
    BY DEF IteratorState
  <2>2. Returned(it) \in Nat  BY <2>1, WrittenValues DEF Returned
  <2> QED  BY <2>1, <2>2, LogFacts DEF LogGrows, BlocksGrow
<1>2. PICK n \in Nat, m \in Nat, l \in Nat, k \in Nat :
         n = Len(disk) /\ m = Len(disk') /\ l = Len(log) /\ k = Len(log')
  BY <1>1
<1>3. n <= m /\ l <= k  BY <1>2 DEF LogGrows, BlocksGrow
<1>4. PICK b \in Nat, s \in Nat, x \in Nat : b = it.block /\ s = Returned(it) /\ x = it.end
  BY <1>1
<1>5. (b = 0 \/ b < n) /\ s <= x /\ x <= l  BY <1>2, <1>4 DEF IteratorIsSound
<1>6. SubSeq(disk', 1, b) = SubSeq(disk, 1, b)
  <2>1. b <= n /\ b <= m  BY <1>3, <1>5
  <2>2. \A i \in 1..b : disk[i] = disk'[i]
    <3>1. \A i \in 1..b : i \in 1..(n - 1)  BY <1>5
    <3> QED  BY <1>2, <3>1 DEF BlocksGrow
  <2> QED  BY <1>1, <1>2, <2>1, <2>2, SameFirsts
<1>7. SubSeq(log', 1, x - s) = SubSeq(log, 1, x - s)
  <2>1. x - s \in Nat /\ x - s <= l /\ x - s <= k  BY <1>3, <1>5
  <2>2. \A i \in 1..(x - s) : log[i] = log'[i]
    <3>1. \A i \in 1..(x - s) : i \in 1..l  BY <1>5
    <3> QED  BY <1>2, <3>1 DEF LogGrows
  <2> QED  BY <1>1, <1>2, <2>1, <2>2, SameFirsts
<1>8. Unread(it)' = SubSeq(log', 1, x - s)
  <2>1. Unread(it)' = Unread(it)  BY <1>4, <1>6 DEF Unread
  <2>2. Unread(it) = SubSeq(log, 1, x - s)  BY <1>4 DEF IteratorIsSound
  <2> QED  BY <1>7, <2>1, <2>2
<1>9. \A i \in 1..Len(it.seen) : it.seen[i] # Blank =>
         it.seen[i] = log'[x + 1 - Written(it.seen, i)]
  <2> SUFFICES ASSUME NEW i \in 1..Len(it.seen), it.seen[i] # Blank
               PROVE  it.seen[i] = log'[x + 1 - Written(it.seen, i)]
    OBVIOUS
  <2>1. PICK w \in Nat : w = Written(it.seen, i) /\ 1 <= w /\ w <= s
    <3>1. i \in 0..Len(it.seen) /\ it.seen \in Seq(Record \cup {Blank})
      BY <1>1 DEF IteratorState
    <3> QED  BY <1>4, <3>1, WrittenValues DEF Returned
  <2>2. x + 1 - w \in 1..l  BY <1>5, <2>1
  <2>3. it.seen[i] = log[x + 1 - w]  BY <1>4, <2>1 DEF IteratorIsSound
  <2>4. log[x + 1 - w] = log'[x + 1 - w]  BY <1>2, <2>2 DEF LogGrows
  <2> QED  BY <2>1, <2>3, <2>4
<1>10. (b = 0 \/ b < m) /\ x <= k  BY <1>3, <1>5
<1>11. UnreadBlanks(it)' = UnreadBlanks(it)
  <2>1. \A i \in 1..b : disk'[i] = disk[i]
    <3>1. \A i \in 1..b : i \in 1..(n - 1)  BY <1>5
    <3> QED  BY <1>2, <3>1 DEF BlocksGrow
  <2>2. {i \in 1..b : disk'[i] = ZeroPage} = {i \in 1..b : disk[i] = ZeroPage}  BY <2>1
  <2>3. Zeroed(b)' = Zeroed(b)  BY <2>2 DEF Zeroed
  <2> QED  BY <1>4, <2>3 DEF UnreadBlanks
<1> QED  BY <1>2, <1>4, <1>5, <1>8, <1>9, <1>10, <1>11 DEF IteratorIsSound, Returned

LEMMA IteratorsStaySound ==
    ASSUME LogInv, LogGrows, BlocksGrow, iter' = iter
    PROVE  IteratorsAreSound'
<1> SUFFICES ASSUME NEW t \in Thread PROVE IteratorIsSound(iter[t])'
  BY DEF IteratorsAreSound
<1>1. PICK it : it = iter[t]  OBVIOUS
<1>2. /\ it \in IteratorState
      /\ IteratorIsSound(it)
  BY <1>1 DEF LogInv, TypesOfLog, IteratorsAreSound
<1>3. IteratorIsSound(it)'  BY <1>2, IteratorStaysSound
<1>4. iter'[t] = it  BY <1>1
<1> QED  BY <1>3, <1>4 DEF IteratorIsSound, Unread, UnreadBlanks, Returned, Zeroed

(* Steps that leave the log and its numbers alone. *)
LEMMA LsnsStay ==
    ASSUME LogInv, UNCHANGED <<latestLsn, lastSavedLsn, lsnArg, base, acked, log>>,
           DiskRecords' \in Seq(Record), Len(DiskRecords) <= Len(DiskRecords')
    PROVE  LsnsAgree'
<1>1. /\ base \in Nat /\ acked \in Nat /\ lastSavedLsn \in Nat /\ latestLsn \in Nat
      /\ LsnsAgree /\ Len(DiskRecords) \in Nat
  BY LogFacts DEF LogInv, TypesOfLog
<1>2. PICK n \in Nat, m \in Nat : n = Len(DiskRecords) /\ m = Len(DiskRecords') /\ n <= m
  BY <1>1
<1>3. base + lastSavedLsn <= n /\ acked <= n  BY <1>1, <1>2 DEF LsnsAgree
<1>4. base + lastSavedLsn <= m /\ acked <= m  BY <1>1, <1>2, <1>3
<1> QED  BY <1>1, <1>2, <1>4 DEF LsnsAgree

LEMMA LogStays == ASSUME LogInv, log' = log PROVE LogGrows
BY LogFacts DEF LogGrows

LEMMA DiskStays ==
    ASSUME LogInv, disk' = disk
    PROVE  /\ BlocksGrow /\ DiskRecords' = DiskRecords /\ Earlier' = Earlier
           /\ LastBlock' = LastBlock
BY LogFacts DEF BlocksGrow, DiskRecords, Earlier, LastBlock

-----------------------------------------------------------------------------
(* One lemma per action: the step of the only thread keeps LogInv. *)

LEMMA StutterKeepsLogInv == LogInv /\ UNCHANGED vars => LogInv'
<1> SUFFICES ASSUME LogInv, UNCHANGED vars PROVE LogInv'  OBVIOUS
<1>1. /\ disk' = disk /\ running' = running /\ page' = page /\ current' = current
      /\ latestLsn' = latestLsn /\ lastSavedLsn' = lastSavedLsn /\ pc' = pc
      /\ lsnArg' = lsnArg /\ iter' = iter /\ log' = log /\ base' = base /\ acked' = acked
  BY DEF vars, memory, threads, history
<1>2. DiskRecords' = DiskRecords /\ Earlier' = Earlier /\ LastBlock' = LastBlock
  BY <1>1, DiskStays
<1>3. PageInv'  BY StutterKeepsPageInv DEF LogInv
<1>4. TypesOfLog'  BY <1>1 DEF LogInv, TypesOfLog
<1>5. LogIsWhole' /\ BlocksAreKnown' /\ DiskComesFirst'
  BY <1>1, <1>2 DEF LogInv, LogIsWhole, BlocksAreKnown, DiskComesFirst, TailInMemory, Busy
<1>6. LsnsAgree'  BY <1>1, <1>2, LogFacts, LsnsStay
<1>7. IteratorsAreSound'  BY <1>1, LogStays, DiskStays, IteratorsStaySound
<1> QED  BY <1>3, <1>4, <1>5, <1>6, <1>7 DEF LogInv

LEMMA ExtendKeepsLogInv ==
    ASSUME OneThread, LogInv, NEW t \in Thread, Extend(t)
    PROVE  LogInv'
<1>1. /\ pc[t] = "Extend" /\ pc'[t] = "Blank"
      /\ disk' = Append(disk, ZeroPage)
      /\ running' = running /\ iter' = iter /\ current' = current
      /\ UNCHANGED <<latestLsn, lastSavedLsn, lsnArg, base, acked, log>>
  BY DEF Extend, Goto, memory, history, LogInv, PageInv, ThreadsAreSound
<1>2. log = DiskRecords
  BY <1>1, OnlyThread DEF LogInv, LogIsWhole, TailInMemory
<1>3. /\ disk' \in Seq(Page) /\ disk' # <<>> /\ Len(disk') = Len(disk) + 1
      /\ disk'[Len(disk')] = ZeroPage /\ \A k \in 1..Len(disk) : disk'[k] = disk[k]
      /\ DiskRecords' = DiskRecords
  <2>1. disk \in Seq(Page) /\ DiskRecords \in Seq(Record)  BY LogFacts
  <2>2. ZeroPage \in Page /\ RecordsOf(ZeroPage) = <<>>  BY PagesOfRecords
  <2>3. Extends(disk', disk, ZeroPage)  BY <1>1, <2>1, <2>2, BlockExtended
  <2>4. DiskRecords' = DiskRecords \o <<>>  BY <2>2, <2>3 DEF DiskRecords, Extends
  <2>5. DiskRecords' = DiskRecords  BY <2>1, <2>4, ConcatEmptySeq
  <2> QED  BY <2>3, <2>5 DEF Extends
<1>4. PageInv'  BY ExtendKeepsPageInv DEF LogInv
<1>5. TypesOfLog'  BY <1>1 DEF LogInv, TypesOfLog
<1>6. LogIsWhole' /\ BlocksAreKnown'
  BY <1>1, <1>2, <1>3, OnlyThread DEF LogIsWhole, BlocksAreKnown, TailInMemory, LastBlock
<1>7. DiskComesFirst'  BY <1>1, <1>3 DEF LogInv, DiskComesFirst
<1>8. LsnsAgree'  BY <1>1, <1>3, LogFacts, LsnsStay
<1>9. IteratorsAreSound'
  <2>1. BlocksGrow  BY <1>3, LogFacts DEF BlocksGrow
  <2> QED  BY <1>1, <2>1, LogStays, IteratorsStaySound
<1> QED  BY <1>4, <1>5, <1>6, <1>7, <1>8, <1>9 DEF LogInv

LEMMA BlankPageKeepsLogInv ==
    ASSUME OneThread, LogInv, NEW t \in Thread, BlankPage(t)
    PROVE  LogInv'
<1>1. /\ pc[t] = "Blank" /\ pc'[t] = "Format" /\ disk' = disk
      /\ running' = running /\ iter' = iter /\ current' = current
      /\ UNCHANGED <<latestLsn, lastSavedLsn, lsnArg, base, acked, log>>
  BY DEF BlankPage, Goto, history, LogInv, PageInv, ThreadsAreSound
<1>2. DiskRecords' = DiskRecords /\ LastBlock' = LastBlock  BY <1>1, DiskStays
<1>3. PageInv'  BY BlankPageKeepsPageInv DEF LogInv
<1>4. TypesOfLog'  BY <1>1 DEF LogInv, TypesOfLog
<1>5. LogIsWhole' /\ BlocksAreKnown'
  BY <1>1, <1>2, OnlyThread DEF LogInv, LogIsWhole, BlocksAreKnown, TailInMemory
<1>6. DiskComesFirst'  BY <1>1, <1>2 DEF LogInv, DiskComesFirst
<1>7. LsnsAgree'  BY <1>1, <1>2, LogFacts, LsnsStay
<1>8. IteratorsAreSound'  BY <1>1, LogStays, DiskStays, IteratorsStaySound
<1> QED  BY <1>3, <1>4, <1>5, <1>6, <1>7, <1>8 DEF LogInv

LEMMA FormatKeepsLogInv ==
    ASSUME OneThread, LogInv, NEW t \in Thread, Format(t)
    PROVE  LogInv'
<1>1. /\ pc[t] = "Format" /\ pc'[t] = "Switch"
      /\ disk' = [disk EXCEPT ![Len(disk)] = page]
      /\ running' = running /\ iter' = iter /\ current' = current
      /\ UNCHANGED <<latestLsn, lastSavedLsn, lsnArg, base, acked, log>>
  BY DEF Format, Goto, memory, history, LogInv, PageInv, ThreadsAreSound
<1>2. page = <<>>  BY <1>1 DEF LogInv, PageInv, NewPageIsEmpty
<1>3. log = DiskRecords /\ LastBlock = ZeroPage /\ disk # <<>>
  BY <1>1, OnlyThread DEF LogInv, LogIsWhole, BlocksAreKnown, TailInMemory
<1>4. /\ disk' \in Seq(Page) /\ disk' # <<>> /\ Len(disk') = Len(disk)
      /\ LastBlock' = <<>> /\ \A k \in 1..(Len(disk) - 1) : disk'[k] = disk[k]
      /\ DiskRecords' = DiskRecords
  <2>1. disk \in Seq(Page)  BY LogFacts
  <2>2. /\ <<>> \in Page /\ RecordsOf(ZeroPage) = <<>> /\ RecordsOf(<<>>) = <<>>
    BY PagesOfRecords
  <2>3. Rewrites(disk', disk, <<>>)
    BY <1>1, <1>2, <1>3, <2>1, <2>2, LastBlockWritten
  <2>5. DiskRecords = Records(Earlier) \o RecordsOf(LastBlock)  BY <1>3, BlockFacts
  <2>6. DiskRecords' = DiskRecords
    BY <1>3, <2>2, <2>3, <2>5 DEF DiskRecords, Earlier, Rewrites
  <2> QED  BY <2>3, <2>6 DEF LastBlock, Rewrites
<1>5. PageInv'  BY FormatKeepsPageInv DEF LogInv
<1>6. TypesOfLog'  BY <1>1 DEF LogInv, TypesOfLog
<1>7. LogIsWhole' /\ BlocksAreKnown'
  <2>1. \A places : Busy(places)' <=> "Switch" \in places  BY <1>1, OnlyThread
  <2>2. log' = DiskRecords' /\ LastBlock' = <<>> /\ disk' # <<>>  BY <1>1, <1>3, <1>4
  <2> QED  BY <2>1, <2>2 DEF LogIsWhole, BlocksAreKnown, TailInMemory
<1>8. DiskComesFirst'  BY <1>1, <1>4 DEF LogInv, DiskComesFirst
<1>9. LsnsAgree'
  <2>1. DiskRecords' = DiskRecords  BY <1>4
  <2> QED  BY <1>1, <2>1, LogFacts, LsnsStay
<1>10. IteratorsAreSound'
  <2>1. BlocksGrow  BY <1>4, LogFacts DEF BlocksGrow
  <2> QED  BY <1>1, <2>1, LogStays, IteratorsStaySound
<1> QED  BY <1>5, <1>6, <1>7, <1>8, <1>9, <1>10 DEF LogInv

LEMMA SwitchKeepsLogInv ==
    ASSUME OneThread, LogInv, NEW t \in Thread, Switch(t)
    PROVE  LogInv'
<1>1. /\ pc[t] = "Switch" /\ disk' = disk /\ page' = page /\ iter' = iter
      /\ current' = Len(disk) - 1
      /\ UNCHANGED <<latestLsn, lastSavedLsn, base, acked, log>>
  BY DEF Switch, history
<1>2. \/ running' = TRUE /\ pc'[t] = "idle" /\ lsnArg' = [lsnArg EXCEPT ![t] = 0]
      \/ running' = running /\ pc'[t] = "Put" /\ lsnArg' = lsnArg
  BY DEF Switch, Return, Goto, LogInv, PageInv, ThreadsAreSound
<1>3. page = <<>>  BY <1>1 DEF LogInv, PageInv, NewPageIsEmpty
<1>4. log = DiskRecords /\ LastBlock = <<>> /\ disk # <<>>
  BY <1>1, OnlyThread DEF LogInv, LogIsWhole, BlocksAreKnown, TailInMemory
<1>5. /\ DiskRecords' = DiskRecords /\ Earlier' = Earlier /\ LastBlock' = LastBlock
  BY <1>1, DiskStays
<1>6. log = Records(Earlier) \o RecordsOf(page)  BY <1>3, <1>4, BlockFacts
<1>7. PageInv'  BY SwitchKeepsPageInv DEF LogInv
<1>8. TypesOfLog'
  <2>1. current' \in Nat  BY <1>1, <1>4, BlockFacts, LogFacts
  <2>2. lsnArg' \in [Thread -> Nat]
    <3>1. lsnArg \in [Thread -> Nat]  BY DEF LogInv, TypesOfLog
    <3> QED  BY <1>2, <3>1
  <2> QED  BY <1>1, <2>1, <2>2 DEF LogInv, TypesOfLog
<1>9. LogIsWhole'
  <2>1. /\ log' = Records(Earlier') \o RecordsOf(page') /\ log' = DiskRecords'
        /\ LastBlock' = page'
    BY <1>1, <1>3, <1>4, <1>5, <1>6
  <2>2. \A places : Busy(places)' => "idle" \in places \/ "Put" \in places
    BY <1>2, OnlyThread
  <2> QED  BY <2>1, <2>2 DEF LogIsWhole
<1>10. BlocksAreKnown'
  <2>1. Len(disk) \in Nat  BY LogFacts
  <2> QED  BY <1>1, <1>2, <1>4, <2>1, OnlyThread DEF BlocksAreKnown
<1>11. DiskComesFirst'  BY <1>1, <1>5 DEF LogInv, DiskComesFirst
<1>12. LsnsAgree'
  <2>1. \A u \in Thread : lsnArg'[u] <= latestLsn'
    <3>1. /\ lsnArg \in [Thread -> Nat] /\ latestLsn \in Nat /\ latestLsn' = latestLsn
          /\ \A u \in Thread : lsnArg[u] <= latestLsn
      BY <1>1 DEF LogInv, LsnsAgree, TypesOfLog
    <3> QED  BY <1>2, <3>1
  <2> QED  BY <1>1, <1>5, <2>1 DEF LogInv, LsnsAgree
<1>13. IteratorsAreSound'  BY <1>1, LogStays, DiskStays, IteratorsStaySound
<1> QED  BY <1>7, <1>8, <1>9, <1>10, <1>11, <1>12, <1>13 DEF LogInv

LEMMA StartNewKeepsLogInv ==
    ASSUME OneThread, LogInv, NEW t \in Thread, StartNew(t)
    PROVE  LogInv'
<1>1. /\ ~running /\ running' = running /\ op[t] = "none" /\ pc'[t] = "Extend"
      /\ disk' = disk /\ iter' = iter /\ current' = current
      /\ UNCHANGED <<latestLsn, lastSavedLsn, lsnArg, base, acked, log>>
  BY DEF StartNew, Enter, Goto, memory, history, LogInv, PageInv, ThreadsAreSound
<1>2. DiskRecords' = DiskRecords  BY <1>1, DiskStays
<1>3. log = DiskRecords  BY <1>1 DEF LogInv, LogIsWhole, TailInMemory
<1>4. PageInv'  BY StartNewKeepsPageInv DEF LogInv
<1>5. TypesOfLog'  BY <1>1 DEF LogInv, TypesOfLog
<1>6. LogIsWhole' /\ BlocksAreKnown'
  BY <1>1, <1>2, <1>3, OnlyThread DEF LogIsWhole, BlocksAreKnown, TailInMemory
<1>7. DiskComesFirst'  BY <1>1, <1>2 DEF LogInv, DiskComesFirst
<1>8. LsnsAgree'  BY <1>1, <1>2, LogFacts, LsnsStay
<1>9. IteratorsAreSound'  BY <1>1, LogStays, DiskStays, IteratorsStaySound
<1> QED  BY <1>4, <1>5, <1>6, <1>7, <1>8, <1>9 DEF LogInv

LEMMA StartOldKeepsLogInv ==
    ASSUME LogInv, StartOld
    PROVE  LogInv'
<1>1. /\ ~running /\ running' = TRUE /\ disk # <<>> /\ disk' = disk /\ iter' = iter
      /\ current' = Len(disk) - 1 /\ page' = Last(disk) /\ pc' = pc
      /\ \A u \in Thread : op[u] = "none"
      /\ UNCHANGED <<latestLsn, lastSavedLsn, lsnArg, base, acked, log>>
  BY DEF StartOld, threads, history
<1>2. /\ DiskRecords' = DiskRecords /\ Earlier' = Earlier /\ LastBlock' = LastBlock
  BY <1>1, DiskStays
<1>3. log = Records(Earlier) \o RecordsOf(LastBlock)
  BY <1>1, BlockFacts DEF LogInv, LogIsWhole, TailInMemory
<1>4. \A places : "idle" \notin places => ~Busy(places)'
  <2>1. \A u \in Thread : pc'[u] = "idle"
    BY <1>1 DEF LogInv, PageInv, ThreadsAreSound, InPlace
  <2> QED  BY <2>1 DEF Busy
<1>5. PageInv'  BY StartOldKeepsPageInv DEF LogInv
<1>6. TypesOfLog'
  <2>1. current' \in Nat  BY <1>1, BlockFacts, LogFacts
  <2> QED  BY <1>1, <2>1 DEF LogInv, TypesOfLog
<1>7. LogIsWhole'
  <2>1. page' = LastBlock  BY <1>1 DEF LastBlock, Last
  <2> QED  BY <1>1, <1>2, <1>3, <1>4, <2>1 DEF LogIsWhole, TailInMemory
<1>8. BlocksAreKnown'
  <2>1. Len(disk) \in Nat  BY LogFacts
  <2> QED  BY <1>1, <2>1 DEF BlocksAreKnown
<1>9. DiskComesFirst'  BY <1>1, <1>2 DEF LogInv, DiskComesFirst
<1>10. LsnsAgree'  BY <1>1, <1>2, LogFacts, LsnsStay
<1>11. IteratorsAreSound'  BY <1>1, LogStays, DiskStays, IteratorsStaySound
<1> QED  BY <1>5, <1>6, <1>7, <1>8, <1>9, <1>10, <1>11 DEF LogInv

LEMMA FlushPageKeepsLogInv ==
    ASSUME OneThread, LogInv, NEW t \in Thread, FlushPage(t)
    PROVE  LogInv'
<1>1. /\ pc[t] = "Write" /\ pc'[t] = "Save"
      /\ disk' = [disk EXCEPT ![current + 1] = page]
      /\ running' = running /\ iter' = iter /\ page' = page /\ current' = current
      /\ UNCHANGED <<latestLsn, lastSavedLsn, lsnArg, base, acked, log>>
  BY DEF FlushPage, Goto, memory, history, LogInv, PageInv, ThreadsAreSound
<1>2. running  BY <1>1 DEF LogInv, PageInv, ThreadsAreSound, InPlace
<1>3. /\ log = Records(Earlier) \o RecordsOf(page)
      /\ disk # <<>> /\ current + 1 = Len(disk)
  BY <1>1, <1>2, OnlyThread DEF LogInv, LogIsWhole, BlocksAreKnown, TailInMemory
<1>4. Rewrites(disk', disk, page)
  <2>1. disk \in Seq(Page) /\ page \in Page  BY LogFacts
  <2>2. disk' = [disk EXCEPT ![Len(disk)] = page]  BY <1>1, <1>3
  <2> QED  BY <1>3, <2>1, <2>2, LastBlockWritten
<1>5. DiskRecords' = log  BY <1>3, <1>4 DEF Rewrites, DiskRecords, Earlier
<1>6. PageInv'  BY FlushPageKeepsPageInv DEF LogInv
<1>7. TypesOfLog'  BY <1>1 DEF LogInv, TypesOfLog
<1>8. LogIsWhole' /\ BlocksAreKnown'
  <2>1. \A places : Busy(places)' <=> "Save" \in places  BY <1>1, OnlyThread
  <2>2. log' = DiskRecords'  BY <1>1, <1>5
  <2>3. LastBlock' = page' /\ disk' # <<>> /\ current' + 1 = Len(disk')
    BY <1>1, <1>3, <1>4 DEF Rewrites, LastBlock
  <2> QED  BY <2>1, <2>2, <2>3 DEF LogIsWhole, BlocksAreKnown, TailInMemory
<1>9. DiskComesFirst'
  <2>1. log' = log /\ Len(log) \in Nat  BY <1>1, LogFacts
  <2> QED  BY <1>5, <2>1 DEF DiskComesFirst
<1>10. LsnsAgree'
  <2>1. DiskRecords' \in Seq(Record)  BY <1>5, LogFacts
  <2>2. Len(DiskRecords) <= Len(DiskRecords')  BY <1>5 DEF LogInv, DiskComesFirst
  <2> QED  BY <1>1, <2>1, <2>2, LsnsStay
<1>11. IteratorsAreSound'
  <2>1. BlocksGrow  BY <1>4, LogFacts DEF BlocksGrow, Rewrites
  <2> QED  BY <1>1, <2>1, LogStays, IteratorsStaySound
<1> QED  BY <1>6, <1>7, <1>8, <1>9, <1>10, <1>11 DEF LogInv

(* The numbers, as naturals. *)
LEMMA LsnFacts ==
    ASSUME LogInv
    PROVE  /\ base \in Nat /\ acked \in Nat /\ latestLsn \in Nat /\ lastSavedLsn \in Nat
           /\ lsnArg \in [Thread -> Nat] /\ \A t \in Thread : lsnArg[t] <= latestLsn
           /\ base + latestLsn = Len(log) /\ base + lastSavedLsn <= Len(DiskRecords)
           /\ lastSavedLsn <= latestLsn /\ acked <= Len(DiskRecords)
           /\ Len(DiskRecords) \in Nat /\ Len(log) \in Nat /\ Len(DiskRecords) <= Len(log)
BY LogFacts DEF LogInv, TypesOfLog, LsnsAgree, DiskComesFirst

LEMMA SaveLsnKeepsLogInv ==
    ASSUME OneThread, LogInv, NEW t \in Thread, SaveLsn(t)
    PROVE  LogInv'
<1>1. /\ pc[t] = "Save" /\ disk' = disk /\ running' = running /\ iter' = iter
      /\ page' = page /\ current' = current /\ lastSavedLsn' = latestLsn
      /\ UNCHANGED <<latestLsn, base, log>>
  BY DEF SaveLsn
<1>2. /\ pc'[t] \in {"Extend", "Open", "idle"}
      /\ lsnArg' = lsnArg \/ lsnArg' = [lsnArg EXCEPT ![t] = 0]
      /\ acked' = acked \/ acked' = base + lsnArg[t]
  BY DEF SaveLsn, Return, Goto, LogInv, PageInv, ThreadsAreSound
<1>3. running  BY <1>1 DEF LogInv, PageInv, ThreadsAreSound, InPlace
<1>4. /\ log = DiskRecords /\ LastBlock = page /\ disk # <<>> /\ current + 1 = Len(disk)
  BY <1>1, <1>3, OnlyThread DEF LogInv, LogIsWhole, BlocksAreKnown, TailInMemory
<1>5. DiskRecords' = DiskRecords /\ Earlier' = Earlier /\ LastBlock' = LastBlock
  BY <1>1, DiskStays
<1>6. log = Records(Earlier) \o RecordsOf(page)  BY <1>4, BlockFacts
<1>7. PageInv'  BY SaveLsnKeepsPageInv DEF LogInv
<1>8. /\ lsnArg' \in [Thread -> Nat] /\ \A u \in Thread : lsnArg'[u] <= latestLsn
  BY <1>2, LsnFacts
<1>9. acked' \in Nat /\ acked' <= Len(DiskRecords)
  BY <1>2, <1>4, LsnFacts
<1>10. TypesOfLog'  BY <1>1, <1>8, <1>9, LsnFacts DEF LogInv, TypesOfLog
<1>11. LogIsWhole' /\ BlocksAreKnown'
  <2>1. /\ log' = Records(Earlier') \o RecordsOf(page') /\ log' = DiskRecords'
        /\ LastBlock' = page' /\ disk' # <<>> /\ current' + 1 = Len(disk')
    BY <1>1, <1>4, <1>5, <1>6
  <2>2. \A places : Busy(places)' => "Extend" \in places \/ "Open" \in places \/ "idle" \in places
    BY <1>2, OnlyThread
  <2> QED  BY <2>1, <2>2 DEF LogIsWhole, BlocksAreKnown
<1>12. DiskComesFirst'  BY <1>1, <1>5 DEF LogInv, DiskComesFirst
<1>13. LsnsAgree'
  <2>1. base + latestLsn = Len(DiskRecords) /\ latestLsn \in Nat  BY <1>4, LsnFacts
  <2> QED  BY <1>1, <1>4, <1>5, <1>8, <1>9, <2>1 DEF LsnsAgree
<1>14. IteratorsAreSound'  BY <1>1, LogStays, DiskStays, IteratorsStaySound
<1> QED  BY <1>7, <1>10, <1>11, <1>12, <1>13, <1>14 DEF LogInv

LEMMA FlushKeepsLogInv ==
    ASSUME OneThread, LogInv, NEW t \in Thread, NEW lsn \in 1..latestLsn, Flush(t, lsn)
    PROVE  LogInv'
<1>1. /\ running /\ op[t] = "none" /\ disk' = disk /\ running' = running /\ iter' = iter
      /\ page' = page /\ current' = current
      /\ UNCHANGED <<latestLsn, lastSavedLsn, base, log>>
  BY DEF Flush, Enter, memory
<1>2. lsn \in Nat /\ lsn <= latestLsn  BY LsnFacts
<1>3. /\ pc'[t] \in {"Write", "idle"}
      /\ lsnArg' = lsnArg \/ lsnArg' = [lsnArg EXCEPT ![t] = lsn]
      /\ acked' = acked \/ (acked' = base + lsn /\ ~(lsn > lastSavedLsn))
  BY DEF Flush, Enter, Goto, FlushNeeded, LogInv, PageInv, ThreadsAreSound, InPlace
<1>4. pc[t] = "idle"  BY <1>1 DEF LogInv, PageInv, ThreadsAreSound, InPlace
<1>5. /\ log = Records(Earlier) \o RecordsOf(page) /\ disk # <<>> /\ current + 1 = Len(disk)
  BY <1>1, <1>4, OnlyThread DEF LogInv, LogIsWhole, BlocksAreKnown, TailInMemory
<1>6. DiskRecords' = DiskRecords /\ Earlier' = Earlier  BY <1>1, DiskStays
<1>7. PageInv'  BY FlushKeepsPageInv DEF LogInv
<1>8. /\ lsnArg' \in [Thread -> Nat] /\ \A u \in Thread : lsnArg'[u] <= latestLsn
  BY <1>2, <1>3, LsnFacts
<1>9. acked' \in Nat /\ acked' <= Len(DiskRecords)
  BY <1>2, <1>3, LsnFacts
<1>10. TypesOfLog'  BY <1>1, <1>8, <1>9, LsnFacts DEF LogInv, TypesOfLog
<1>11. LogIsWhole' /\ BlocksAreKnown'
  <2>1. /\ log' = Records(Earlier') \o RecordsOf(page')
        /\ disk' # <<>> /\ current' + 1 = Len(disk') /\ running'
    BY <1>1, <1>5, <1>6
  <2>2. \A places : Busy(places)' => "Write" \in places \/ "idle" \in places
    BY <1>3, OnlyThread
  <2> QED  BY <2>1, <2>2 DEF LogIsWhole, BlocksAreKnown, TailInMemory
<1>12. DiskComesFirst'  BY <1>1, <1>6 DEF LogInv, DiskComesFirst
<1>13. LsnsAgree'  BY <1>1, <1>6, <1>8, <1>9, LsnFacts DEF LsnsAgree
<1>14. IteratorsAreSound'  BY <1>1, LogStays, DiskStays, IteratorsStaySound
<1> QED  BY <1>7, <1>10, <1>11, <1>12, <1>13, <1>14 DEF LogInv

(* Entering Append or Iterator, to flush first. *)
LEMMA EnterKeepsLogInv ==
    ASSUME OneThread, LogInv, NEW t \in Thread, running, op[t] = "none", pc'[t] = "Write",
           UNCHANGED <<disk, running, page, current, iter>>,
           UNCHANGED <<latestLsn, lastSavedLsn, lsnArg, base, acked, log>>,
           PageInv'
    PROVE  LogInv'
<1>1. pc[t] = "idle"  BY DEF LogInv, PageInv, ThreadsAreSound, InPlace
<1>2. /\ log = Records(Earlier) \o RecordsOf(page) /\ disk # <<>> /\ current + 1 = Len(disk)
  BY <1>1, OnlyThread DEF LogInv, LogIsWhole, BlocksAreKnown, TailInMemory
<1>3. DiskRecords' = DiskRecords /\ Earlier' = Earlier  BY DiskStays
<1>4. TypesOfLog'  BY DEF LogInv, TypesOfLog
<1>5. LogIsWhole' /\ BlocksAreKnown'
  <2>1. /\ log' = Records(Earlier') \o RecordsOf(page')
        /\ disk' # <<>> /\ current' + 1 = Len(disk') /\ running'
    BY <1>2, <1>3
  <2>2. \A places : Busy(places)' => "Write" \in places  BY OnlyThread
  <2> QED  BY <2>1, <2>2 DEF LogIsWhole, BlocksAreKnown, TailInMemory
<1>6. DiskComesFirst'  BY <1>3 DEF LogInv, DiskComesFirst
<1>7. LsnsAgree'  BY <1>3, LogFacts, LsnsStay
<1>8. IteratorsAreSound'  BY LogStays, DiskStays, IteratorsStaySound
<1> QED  BY <1>4, <1>5, <1>6, <1>7, <1>8 DEF LogInv

LEMMA AppendThatDoesNotFitKeepsLogInv ==
    ASSUME OneThread, LogInv, NEW t \in Thread, NEW size \in RecordSize,
           AppendThatDoesNotFit(t, size)
    PROVE  LogInv'
<1>1. /\ running /\ op[t] = "none" /\ pc'[t] = "Write"
      /\ UNCHANGED <<disk, running, page, current, iter>>
      /\ UNCHANGED <<latestLsn, lastSavedLsn, lsnArg, base, acked, log>>
  BY DEF AppendThatDoesNotFit, Enter, Goto, memory, LogInv, PageInv, ThreadsAreSound
<1>2. PageInv'  BY AppendThatDoesNotFitKeepsPageInv DEF LogInv
<1> QED  BY <1>1, <1>2, EnterKeepsLogInv

LEMMA IteratorKeepsLogInv ==
    ASSUME OneThread, LogInv, NEW t \in Thread, Iterator(t)
    PROVE  LogInv'
<1>1. /\ running /\ op[t] = "none" /\ pc'[t] = "Write"
      /\ UNCHANGED <<disk, running, page, current, iter>>
      /\ UNCHANGED <<latestLsn, lastSavedLsn, lsnArg, base, acked, log>>
  BY DEF Iterator, Enter, Goto, memory, history, LogInv, PageInv, ThreadsAreSound
<1>2. PageInv'  BY IteratorKeepsPageInv DEF LogInv
<1> QED  BY <1>1, <1>2, EnterKeepsLogInv

LEMMA ConcatAppend ==
    ASSUME NEW X, NEW s \in Seq(X), NEW p \in Seq(X), NEW r \in X
    PROVE  s \o Append(p, r) = Append(s \o p, r)
<1>1. s \o p \in Seq(X) /\ <<r>> \in Seq(X)  BY ConcatProperties
<1>2. Append(p, r) = p \o <<r>> /\ Append(s \o p, r) = (s \o p) \o <<r>>
  BY <1>1, AppendIsConcat
<1> QED  BY <1>1, <1>2, ConcatAssociative

(* A record stored in the page is the new end of the log. *)
LEMMA StoreKeepsLogInv ==
    ASSUME OneThread, LogInv, NEW t \in Thread, NEW r \in Record,
           running, page \in Seq(Record), log = Records(Earlier) \o page,
           disk # <<>>, current + 1 = Len(disk),
           page' = Append(page, r), log' = Append(log, r), latestLsn' = latestLsn + 1,
           pc'[t] = "idle", lsnArg' = lsnArg \/ lsnArg' = [lsnArg EXCEPT ![t] = 0],
           UNCHANGED <<disk, running, current, iter, lastSavedLsn, base, acked>>,
           PageInv'
    PROVE  LogInv'
<1>1. DiskRecords' = DiskRecords /\ Earlier' = Earlier  BY DiskStays
<1>2. /\ log' \in Seq(Record) /\ Len(log') = Len(log) + 1
      /\ \A i \in 1..Len(log) : log'[i] = log[i]
  BY LogFacts, AppendProperties
<1>3. PICK n \in Nat, m \in Nat : n = Len(log) /\ m = Len(DiskRecords) /\ m <= n
  BY LsnFacts
<1>4. Len(log') = n + 1  BY <1>2, <1>3
<1>5. LogGrows  BY <1>2, <1>3, <1>4 DEF LogGrows
<1>6. log' = Records(Earlier') \o RecordsOf(page')
  <2>1. Records(Earlier) \in Seq(Record)  BY BlockFacts
  <2>2. Append(page, r) \in Seq(Record)  BY AppendProperties
  <2>3. RecordsOf(page') = Append(page, r)  BY <2>2, PagesOfRecords
  <2>4. Records(Earlier) \o Append(page, r) = Append(Records(Earlier) \o page, r)
    BY <2>1, ConcatAppend
  <2> QED  BY <1>1, <2>3, <2>4
<1>7. /\ lsnArg' \in [Thread -> Nat] /\ \A u \in Thread : lsnArg'[u] <= latestLsn'
  <2>1. /\ lsnArg \in [Thread -> Nat] /\ latestLsn \in Nat
        /\ \A u \in Thread : lsnArg[u] <= latestLsn
    BY LsnFacts
  <2>2. \A u \in Thread : lsnArg[u] \in Nat  BY <2>1
  <2>3. \A u \in Thread : lsnArg[u] <= latestLsn + 1  BY <2>1, <2>2
  <2>4. lsnArg' \in [Thread -> Nat]  BY <2>1
  <2>5. \A u \in Thread : lsnArg'[u] = lsnArg[u] \/ lsnArg'[u] = 0  BY <2>1
  <2>6. latestLsn' = latestLsn + 1 /\ 0 <= latestLsn + 1  BY <2>1
  <2> QED  BY <2>3, <2>4, <2>5, <2>6
<1>8. TypesOfLog'
  <2>1. latestLsn' \in Nat  BY LsnFacts
  <2> QED  BY <1>2, <1>7, <2>1 DEF LogInv, TypesOfLog
<1>9. LogIsWhole' /\ BlocksAreKnown'
  <2>1. \A places : Busy(places)' => "idle" \in places  BY OnlyThread
  <2>2. disk' # <<>> /\ current' + 1 = Len(disk') /\ running'  OBVIOUS
  <2> QED  BY <1>6, <2>1, <2>2 DEF LogIsWhole, BlocksAreKnown, TailInMemory
<1>10. DiskComesFirst'
  <2>1. \A i \in 1..m : DiskRecords[i] = log[i] /\ i \in 1..n
    BY <1>3 DEF LogInv, DiskComesFirst
  <2>2. \A i \in 1..m : DiskRecords[i] = log'[i]  BY <1>2, <1>3, <2>1
  <2>3. m <= n + 1  BY <1>3
  <2> QED  BY <1>1, <1>3, <1>4, <2>2, <2>3 DEF DiskComesFirst
<1>11. LsnsAgree'
  <2>1. base + latestLsn + 1 = n + 1 /\ lastSavedLsn <= latestLsn + 1  BY <1>3, LsnFacts
  <2>2. /\ base' = base /\ lastSavedLsn' = lastSavedLsn /\ acked' = acked
        /\ base + lastSavedLsn <= m /\ acked <= m
    BY <1>3, LsnFacts
  <2>3. base + (latestLsn + 1) = n + 1  BY <2>1, LsnFacts
  <2> QED  BY <1>1, <1>3, <1>4, <1>7, <2>1, <2>2, <2>3 DEF LsnsAgree
<1>12. IteratorsAreSound'  BY <1>5, DiskStays, IteratorsStaySound
<1> QED  BY <1>8, <1>9, <1>10, <1>11, <1>12 DEF LogInv

LEMMA AppendThatFitsKeepsLogInv ==
    ASSUME OneThread, LogInv, NEW t \in Thread, NEW size \in RecordSize, AppendThatFits(t, size)
    PROVE  LogInv'
<1> DEFINE r == [id |-> appended + 1, size |-> size]
<1>1. /\ running /\ op[t] = "none" /\ pc' = pc /\ lsnArg' = lsnArg
      /\ appended < MaxRecords /\ Fits(page, size)
      /\ page' = Append(page, r) /\ log' = Append(log, r) /\ latestLsn' = latestLsn + 1
      /\ UNCHANGED <<disk, running, current, iter, lastSavedLsn, base, acked>>
  BY DEF AppendThatFits, Store, threads
<1>2. pc[t] = "idle"  BY <1>1 DEF LogInv, PageInv, ThreadsAreSound, InPlace
<1>3. /\ log = Records(Earlier) \o RecordsOf(page) /\ disk # <<>> /\ current + 1 = Len(disk)
  BY <1>1, <1>2, OnlyThread DEF LogInv, LogIsWhole, BlocksAreKnown, TailInMemory
<1>4. r \in Record /\ r.size = size
  <2>1. appended \in 0..MaxRecords /\ MaxRecords \in Nat
    BY LogManagerAssumption DEF LogInv, PageInv, PagesFit
  <2>2. appended + 1 \in 1..MaxRecords  BY <1>1, <2>1
  <2> QED  BY <2>2 DEF Record
<1>5. page \in Seq(Record) /\ RecordsOf(page) = page
  <2> HIDE DEF r
  <2>1. page \in Seq(Record)  BY <1>1, <1>4, PagesOfRecords DEF LogInv, PageInv, PagesFit
  <2> QED  BY <2>1, PagesOfRecords
<1>6. PageInv'  BY AppendThatFitsKeepsPageInv DEF LogInv
<1> HIDE DEF r
<1>7. log = Records(Earlier) \o page  BY <1>3, <1>5
<1>8. pc'[t] = "idle"  BY <1>1, <1>2
<1> QED  BY <1>1, <1>3, <1>4, <1>5, <1>6, <1>7, <1>8, StoreKeepsLogInv

LEMMA PutKeepsLogInv ==
    ASSUME OneThread, LogInv, NEW t \in Thread, Put(t)
    PROVE  LogInv'
<1>1. /\ pc[t] = "Put" /\ pc'[t] = "idle" /\ lsnArg' = [lsnArg EXCEPT ![t] = 0]
      /\ page' = Append(page, record[t]) /\ log' = Append(log, record[t])
      /\ latestLsn' = latestLsn + 1
      /\ UNCHANGED <<disk, running, current, iter, lastSavedLsn, base, acked>>
  BY DEF Put, Store, Return, Goto, LogInv, PageInv, ThreadsAreSound
<1>2. running /\ record[t] \in Record /\ page = <<>>
  BY <1>1 DEF LogInv, PageInv, ThreadsAreSound, NewPageIsEmpty, InPlace
<1>3. log = DiskRecords /\ LastBlock = page /\ disk # <<>> /\ current + 1 = Len(disk)
  BY <1>1, <1>2, OnlyThread DEF LogInv, LogIsWhole, BlocksAreKnown, TailInMemory
<1>4. page \in Seq(Record) /\ log = Records(Earlier) \o page
  <2>1. page \in Seq(Record) /\ RecordsOf(page) = page  BY <1>2, PagesOfRecords
  <2> QED  BY <1>3, <2>1, BlockFacts
<1>5. PageInv'  BY PutKeepsPageInv DEF LogInv
<1>6. PICK r \in Record : r = record[t]  BY <1>2
<1>7. page' = Append(page, r) /\ log' = Append(log, r)  BY <1>1, <1>6
<1> QED  BY <1>1, <1>2, <1>3, <1>4, <1>5, <1>7, StoreKeepsLogInv

LEMMA OpenIteratorKeepsLogInv ==
    ASSUME OneThread, LogInv, NEW t \in Thread, OpenIterator(t)
    PROVE  LogInv'
<1>0. PICK it : it = [block |-> current, left |-> disk[current + 1], seen |-> <<>>,
                      end |-> Len(log), zeroed |-> Zeroed(current + 1)]
  OBVIOUS
<1>1. /\ pc[t] = "Open" /\ pc'[t] = "idle" /\ lsnArg' = [lsnArg EXCEPT ![t] = 0]
      /\ UNCHANGED <<disk, running, page, current>>
      /\ UNCHANGED <<latestLsn, lastSavedLsn, base, acked, log>>
      /\ iter' = [iter EXCEPT ![t] = it]
  BY <1>0 DEF OpenIterator, Return, Goto, memory, history, LogInv, PageInv, ThreadsAreSound
<1>2. running  BY <1>1 DEF LogInv, PageInv, ThreadsAreSound, InPlace
<1>3. log = DiskRecords /\ LastBlock = page /\ disk # <<>> /\ current + 1 = Len(disk)
  BY <1>1, <1>2, OnlyThread DEF LogInv, LogIsWhole, BlocksAreKnown, TailInMemory
<1>4. DiskRecords' = DiskRecords /\ Earlier' = Earlier /\ LastBlock' = LastBlock
  BY <1>1, DiskStays
<1>5. log = Records(Earlier) \o RecordsOf(LastBlock)  BY <1>3, BlockFacts
<1>6. PICK n \in Nat : n = Len(disk) /\ n >= 1
  BY <1>3, LogFacts, BlockFacts
<1>7. PageInv'  BY OpenIteratorKeepsPageInv DEF LogInv
<1>8. current \in Nat /\ current = n - 1 /\ LastBlock = disk[current + 1]
  <2>1. current \in Nat  BY DEF LogInv, TypesOfLog
  <2> QED  BY <1>3, <1>6, <2>1 DEF LastBlock
<1>9. /\ it.block = current /\ it.left = LastBlock /\ it.seen = <<>> /\ it.end = Len(log)
      /\ it.zeroed = Zeroed(current + 1) /\ it \in IteratorState
  <2>1. LastBlock \in Seq(Record) \cup Seq({Blank})  BY <1>3, BlockFacts, LeftOfPages
  <2>2. Len(log) \in Nat /\ <<>> \in Seq(Record \cup {Blank})  BY LogFacts
  <2>3. current + 1 \in Nat /\ Zeroed(current + 1) \in Nat  BY <1>8, ZeroedBlocks
  <2> QED  BY <1>0, <1>8, <2>1, <2>2, <2>3 DEF IteratorState
<1>10. TypesOfLog'
  <2>1. /\ lsnArg' \in [Thread -> Nat]
        /\ iter' \in [Thread -> IteratorState]
    BY <1>1, <1>9 DEF LogInv, TypesOfLog
  <2> QED  BY <1>1, <2>1 DEF LogInv, TypesOfLog
<1>11. LogIsWhole' /\ BlocksAreKnown'
  <2>1. /\ log' = Records(Earlier') \o RecordsOf(page')
        /\ disk' # <<>> /\ current' + 1 = Len(disk') /\ running'
    BY <1>1, <1>2, <1>3, <1>4, <1>5
  <2>2. \A places : Busy(places)' => "idle" \in places  BY <1>1, OnlyThread
  <2> QED  BY <2>1, <2>2 DEF LogIsWhole, BlocksAreKnown, TailInMemory
<1>12. DiskComesFirst'  BY <1>1, <1>4 DEF LogInv, DiskComesFirst
<1>13. LsnsAgree'
  <2>1. \A u \in Thread : lsnArg'[u] <= latestLsn'  BY <1>1, LsnFacts
  <2> QED  BY <1>1, <1>4, <2>1 DEF LogInv, LsnsAgree
<1>14. IteratorsAreSound'
  <2>1. \A u \in Thread : iter'[u] = it  BY <1>1, OnlyThread DEF LogInv, TypesOfLog
  <2>2. IteratorIsSound(it)'
    <3>1. Unread(it)' = log
      <4>1. disk' = disk /\ SubSeq(disk, 1, current) = Earlier
        BY <1>1, <1>6, <1>8 DEF Earlier
      <4>2. LeftOf(LastBlock) = RecordsOf(LastBlock)  BY <1>3, BlockFacts, LeftOfPages
      <4> QED  BY <1>5, <1>9, <4>1, <4>2 DEF Unread
    <3>2. SubSeq(log, 1, Len(log)) = log /\ Len(log) \in Nat  BY LogFacts, SubSeqFull
    <3>3. Len(it.seen) = 0 /\ Returned(it) = 0  BY <1>9, NoneWritten DEF Returned
    <3>4. it.block < Len(disk) /\ Len(disk') = Len(disk)  BY <1>1, <1>6, <1>8, <1>9
    <3>5. it.end - Returned(it) = Len(log) /\ it.end = Len(log)  BY <1>9, <3>2, <3>3
    <3>6. log' = log  BY <1>1
    <3>7. UnreadBlanks(it)' = BlockSize * it.zeroed
      <4>1. UnreadBlanks(it)' = UnreadBlanks(it)  BY <1>1 DEF UnreadBlanks, Zeroed
      <4>2. PICK c \in Nat, z \in Nat : c = BlockSize /\ z = Zeroed(current)
        BY <1>8, LogManagerAssumption, ZeroedBlocks
      <4>3. /\ it.zeroed = IF LastBlock = ZeroPage THEN z + 1 ELSE z
            /\ BlanksOf(LastBlock) = IF LastBlock = ZeroPage THEN c ELSE 0
        BY <1>3, <1>8, <1>9, <4>2, BlockFacts, ZeroedBlocks, BlanksOfPages
      <4>4. c * (z + 1) = c + c * z  BY <4>2
      <4>5. UnreadBlanks(it) = BlanksOf(LastBlock) + c * z  BY <1>9, <4>2 DEF UnreadBlanks
      <4> QED  BY <4>1, <4>2, <4>3, <4>4, <4>5
    <3>8. Returned(it)' = 0 /\ 0 - 0 + BlockSize * it.zeroed = BlockSize * it.zeroed
      BY <1>9, <3>3, LogManagerAssumption DEF Returned, IteratorState
    <3> QED  BY <1>9, <3>1, <3>2, <3>3, <3>4, <3>5, <3>6, <3>7, <3>8 DEF IteratorIsSound
  <2> QED  BY <2>1, <2>2 DEF IteratorsAreSound, IteratorIsSound, Unread, UnreadBlanks, Returned, Zeroed
<1> QED  BY <1>7, <1>10, <1>11, <1>12, <1>13, <1>14 DEF LogInv

LEMMA EndOfSeq ==
    ASSUME NEW X, NEW s \in Seq(X), s # <<>>
    PROVE  Front(s) \in Seq(X) /\ Last(s) \in X /\ s = Append(Front(s), Last(s))
<1>1. PICK n \in Nat \ {0} : n = Len(s)  BY EmptySeq
<1>2. Last(s) \in X  BY <1>1 DEF Last
<1>3. Front(s) \in Seq(X)
  <2>1. 1 \in Int /\ n - 1 \in Int /\ \A i \in 1..(n - 1) : s[i] \in X  BY <1>1
  <2> QED  BY <1>1, <2>1, SubSeqProperties DEF Front
<1>4. SubSeq(s, 1, n) = SubSeq(s, 1, n - 1) \o <<s[n]>>
  <2>1. 1 \in 1..Len(s) /\ n \in 1..Len(s)  BY <1>1
  <2> QED  BY <2>1, SubSeqRecursiveSecond
<1>5. s = Front(s) \o <<Last(s)>>  BY <1>1, <1>4, SubSeqFull DEF Front, Last
<1> QED  BY <1>2, <1>3, <1>5, AppendIsConcat

(* Taking the last element off both sides. *)
LEMMA EndOfFirsts ==
    ASSUME NEW X, NEW l \in Seq(X), NEW u \in Seq(X), NEW r \in X,
           NEW m \in Nat, m <= Len(l), Append(u, r) = SubSeq(l, 1, m)
    PROVE  m >= 1 /\ r = l[m] /\ u = SubSeq(l, 1, m - 1)
<1>1. m >= 1
  <2> SUFFICES ASSUME m = 0 PROVE FALSE  OBVIOUS
  <2>1. Append(u, r) = <<>>  BY SubSeqEmpty
  <2>2. Append(u, r) # <<>>  BY AppendProperties
  <2> QED  BY <2>1, <2>2
<1>2. SubSeq(l, 1, m) = SubSeq(l, 1, m - 1) \o <<l[m]>>
  <2>1. 1 \in 1..Len(l) /\ m \in 1..Len(l)  BY <1>1
  <2> QED  BY <2>1, SubSeqRecursiveSecond
<1>3. l[m] \in X /\ SubSeq(l, 1, m - 1) \in Seq(X)
  <2>1. 1 \in Int /\ m - 1 \in Int /\ \A i \in 1..(m - 1) : l[i] \in X  BY <1>1
  <2>2. SubSeq(l, 1, m - 1) \in Seq(X)  BY <2>1, SubSeqProperties
  <2> QED  BY <1>1, <2>2
<1>4. Append(u, r) = Append(SubSeq(l, 1, m - 1), l[m])  BY <1>2, <1>3, AppendIsConcat
<1> QED  BY <1>1, <1>3, <1>4, AppendInjective

LEMMA AtNextBlockIsSound ==
    ASSUME LogInv, NEW it \in IteratorState, IteratorIsSound(it), HasNext(it)
    PROVE  AtNextBlock(it) \in IteratorState /\ IteratorIsSound(AtNextBlock(it))
<1>1. CASE it.left # <<>>  BY <1>1 DEF AtNextBlock
<1>2. CASE it.left = <<>>
  <2>1. PICK b \in Nat, n \in Nat : b = it.block /\ n = Len(disk)
    BY LogFacts DEF IteratorState
  <2>2. b > 0 /\ b < n  BY <1>2, <2>1 DEF HasNext, IteratorIsSound
  <2>3. PICK jt : jt = [it EXCEPT !.block = b - 1, !.left = disk[b]]  OBVIOUS
  <2>4. AtNextBlock(it) = jt  BY <1>2, <2>1, <2>3 DEF AtNextBlock
  <2>5. /\ disk \in Seq(Page) /\ b \in 1..Len(disk)  BY <2>1, <2>2, LogFacts
  <2>6. /\ disk[b] \in Page /\ Records(SubSeq(disk, 1, b)) \in Seq(Record)
        /\ Records(SubSeq(disk, 1, b)) = Records(SubSeq(disk, 1, b - 1)) \o RecordsOf(disk[b])
    <3>1. /\ disk[b] \in Page /\ SubSeq(disk, 1, b - 1) \in Seq(Page)
          /\ Records(SubSeq(disk, 1, b)) = Records(SubSeq(disk, 1, b - 1)) \o RecordsOf(disk[b])
      BY <2>5, FirstBlocks
    <3>2. RecordsOf(disk[b]) \in Seq(Record) /\ Records(SubSeq(disk, 1, b - 1)) \in Seq(Record)
      BY <3>1, RecordsOfPage, RecordsValues
    <3> QED  BY <3>1, <3>2, ConcatProperties
  <2>7. /\ jt.block = b - 1 /\ jt.left = disk[b] /\ jt.seen = it.seen /\ jt.end = it.end
        /\ jt.zeroed = it.zeroed /\ jt \in IteratorState
    <3>1. disk[b] \in Seq(Record) \cup Seq({Blank}) /\ b - 1 \in Nat
      BY <2>2, <2>6, LeftOfPages
    <3> QED  BY <2>3, <3>1 DEF IteratorState
  <2>8. Unread(it) = Records(SubSeq(disk, 1, b))
    <3>1. LeftOf(<<>>) = <<>>  BY DEF LeftOf
    <3> QED  BY <1>2, <2>1, <2>6, <3>1, ConcatEmptySeq DEF Unread
  <2>9. Unread(jt) = Records(SubSeq(disk, 1, b))
    <3>1. LeftOf(disk[b]) = RecordsOf(disk[b])  BY <2>6, LeftOfPages
    <3> QED  BY <2>6, <2>7, <3>1 DEF Unread
  <2>10. b - 1 < Len(disk)  BY <2>1, <2>2
  <2>11. UnreadBlanks(jt) = UnreadBlanks(it)
    <3>1. PICK a \in Nat, c \in Nat, z \in Nat :
             a = b - 1 /\ b = a + 1 /\ c = BlockSize /\ z = Zeroed(a)
      <4>1. b - 1 \in Nat /\ b = (b - 1) + 1  BY <2>2
      <4> QED  BY <4>1, LogManagerAssumption, ZeroedBlocks
    <3>2. /\ Zeroed(b) = IF disk[b] = ZeroPage THEN z + 1 ELSE z
          /\ BlanksOf(disk[b]) = IF disk[b] = ZeroPage THEN c ELSE 0
          /\ BlanksOf(<<>>) = 0
      BY <2>6, <3>1, ZeroedBlocks, BlanksOfPages
    <3>3. UnreadBlanks(jt) = BlanksOf(disk[b]) + c * z  BY <2>7, <3>1 DEF UnreadBlanks
    <3>4. UnreadBlanks(it) = 0 + c * Zeroed(b)  BY <1>2, <2>1, <3>1, <3>2 DEF UnreadBlanks
    <3>5. c * (z + 1) = c + c * z  BY <3>1
    <3> QED  BY <3>1, <3>2, <3>3, <3>4, <3>5
  <2>12. Returned(jt) = Returned(it)  BY <2>7 DEF Returned
  <2>13. IteratorIsSound(jt)
    BY <2>7, <2>8, <2>9, <2>10, <2>11, <2>12 DEF IteratorIsSound
  <2> QED  BY <2>4, <2>7, <2>13
<1> QED  BY <1>1, <1>2

(* The iterator once it has returned the last record left of its page. *)
Stepped(it) == [it EXCEPT !.left = Front(@), !.seen = Append(@, Last(it.left))]

LEMMA SteppedIsSound ==
    ASSUME LogInv, NEW it \in IteratorState, IteratorIsSound(it), it.left # <<>>
    PROVE  Stepped(it) \in IteratorState /\ IteratorIsSound(Stepped(it))
<1>1. PICK p \in {it.left}, s \in Seq(Record \cup {Blank}), x \in Nat, jt \in {Stepped(it)} :
         p = it.left /\ s = it.seen /\ x = it.end /\ jt = Stepped(it)
  BY DEF IteratorState
<1>2. p # <<>> /\ (p \in Seq(Record) \/ p \in Seq({Blank}))  BY <1>1 DEF IteratorState
<1>3. /\ jt.block = it.block /\ jt.left = Front(p) /\ jt.end = x /\ jt.zeroed = it.zeroed
      /\ jt.seen = Append(s, Last(p))
  BY <1>1 DEF Stepped, IteratorState
<1>4. jt = [block |-> it.block, left |-> jt.left, seen |-> jt.seen, end |-> x,
            zeroed |-> it.zeroed]
  BY <1>1, <1>3 DEF Stepped, IteratorState
<1>5. /\ it.block \in Nat /\ (it.block = 0 \/ it.block < Len(disk)) /\ it.zeroed \in Nat
      /\ log \in Seq(Record) /\ disk \in Seq(Page)
  BY LogFacts DEF IteratorState, IteratorIsSound
<1>6. PICK n \in Nat, l \in Nat, w \in Nat :
         n = Len(s) /\ l = Len(log) /\ w = Written(s, n)
  <2>1. Len(s) \in 0..Len(s) /\ Len(s) \in Nat /\ Len(log) \in Nat  BY <1>5
  <2> QED  BY <2>1, WrittenValues
<1>7. PICK y \in Nat, c \in Nat :
         y = BlockSize * Zeroed(it.block) /\ c = BlockSize * it.zeroed
  <2>1. PICK a \in Nat, e \in Nat : a = BlockSize /\ e = Zeroed(it.block)
    BY <1>5, LogManagerAssumption, ZeroedBlocks
  <2>2. a * e \in Nat /\ a * it.zeroed \in Nat  BY <1>5
  <2> QED  BY <2>1, <2>2
<1>8. /\ w <= x /\ x <= l
      /\ \A i \in 1..n : s[i] # Blank => s[i] = log[x + 1 - Written(s, i)]
      /\ Unread(it) = SubSeq(log, 1, x - w)
      /\ n - w + (BlanksOf(p) + y) = c
  BY <1>1, <1>6, <1>7 DEF IteratorIsSound, Returned, UnreadBlanks
<1>9. PICK r \in Record \cup {Blank}, z \in Seq(Record \cup {Blank}) :
         r = Last(p) /\ z = Append(s, r)
  <2>1. Last(p) \in Record \/ Last(p) \in {Blank}  BY <1>2, EndOfSeq
  <2> QED  BY <2>1, AppendProperties
<1>10. /\ Len(z) = n + 1 /\ z[n + 1] = r
       /\ \A i \in 1..n : z[i] = s[i] /\ Written(z, i) = Written(s, i)
       /\ Written(z, n + 1) = IF r = Blank THEN w ELSE w + 1
       /\ jt.seen = z
  <2>1. \A i \in 1..n : i \in 0..Len(s)  BY <1>6
  <2> QED  BY <1>3, <1>6, <1>9, <2>1, AppendProperties, WrittenAppended
<1>11. CASE p \in Seq({Blank})
  <2>1. Front(p) \in Seq({Blank}) /\ r = Blank /\ p = Append(Front(p), r)
    <3>1. Front(p) \in Seq({Blank}) /\ Last(p) \in {Blank} /\ p = Append(Front(p), Last(p))
      BY <1>2, <1>11, EndOfSeq
    <3> QED  BY <1>9, <3>1
  <2>2. jt \in IteratorState  BY <1>3, <1>4, <1>5, <1>10, <2>1 DEF IteratorState
  <2>3. Unread(jt) = Unread(it)  BY <1>1, <1>3, <1>11, <2>1 DEF Unread, LeftOf
  <2>4. Returned(jt) = w  BY <1>10, <2>1 DEF Returned
  <2>5. \A i \in 1..(n + 1) : z[i] # Blank => z[i] = log[x + 1 - Written(z, i)]
    <3> SUFFICES ASSUME NEW i \in 1..(n + 1), z[i] # Blank
                 PROVE  z[i] = log[x + 1 - Written(z, i)]
      OBVIOUS
    <3>1. i \in 1..n  BY <1>10, <2>1
    <3> QED  BY <1>8, <1>10, <3>1
  <2>6. n + 1 - w + UnreadBlanks(jt) = c
    <3>1. BlanksOf(p) = BlanksOf(Front(p)) + 1
      <4>1. PICK q \in Seq({Blank}) : q = Front(p) /\ p = Append(q, r)  BY <2>1
      <4>2. Len(Append(q, r)) = Len(q) + 1  BY <2>1, AppendProperties
      <4> QED  BY <1>11, <4>1, <4>2 DEF BlanksOf
    <3>2. UnreadBlanks(jt) = BlanksOf(Front(p)) + y  BY <1>3, <1>7 DEF UnreadBlanks
    <3>3. BlanksOf(Front(p)) \in Nat  BY <2>1, BlanksOfPages
    <3> QED  BY <1>8, <3>1, <3>2, <3>3
  <2>7. IteratorIsSound(jt)
    <3>1. jt.seen = z /\ Len(z) = n + 1 /\ jt.end = x /\ w <= x /\ x <= Len(log)
      BY <1>3, <1>6, <1>8, <1>10
    <3>2. jt.block = 0 \/ jt.block < Len(disk)  BY <1>3, <1>5
    <3>3. BlockSize * jt.zeroed = c  BY <1>3, <1>7
    <3>4. Unread(jt) = SubSeq(log, 1, x - w)  BY <1>8, <2>3
    <3> QED  BY <2>4, <2>5, <2>6, <3>1, <3>2, <3>3, <3>4 DEF IteratorIsSound
  <2> QED  BY <1>1, <2>2, <2>7
<1>12. CASE p \in Seq(Record)
  <2>1. PICK q \in Seq(Record) : q = Front(p) /\ r \in Record /\ p = Append(q, r)
    <3>1. Front(p) \in Seq(Record) /\ Last(p) \in Record /\ p = Append(Front(p), Last(p))
      BY <1>2, <1>12, EndOfSeq
    <3> QED  BY <1>9, <3>1
  <2>2. r # Blank  BY <2>1, RecordTypes
  <2>3. Returned(jt) = w + 1  BY <1>10, <2>2 DEF Returned
  <2>4. jt \in IteratorState  BY <1>3, <1>4, <1>5, <1>10, <2>1 DEF IteratorState
  <2>5. PICK u \in Seq(Record) : u = Unread(jt) /\ Append(u, r) = Unread(it)
    <3>1. PICK v \in Seq(Record) : v = Records(SubSeq(disk, 1, it.block))
      <4>1. SubSeq(disk, 1, it.block) \in Seq(Page)
        <5>1. 1 \in Int /\ it.block \in Int /\ \A i \in 1..it.block : disk[i] \in Page
          BY <1>5
        <5> QED  BY <5>1, SubSeqProperties
      <4> QED  BY <4>1, RecordsValues
    <3>2. LeftOf(p) = p /\ LeftOf(q) = q  BY <1>12, LeftOfPages
    <3>3. Unread(it) = v \o p /\ Unread(jt) = v \o q
      BY <1>1, <1>3, <2>1, <3>1, <3>2 DEF Unread
    <3>4. v \o Append(q, r) = Append(v \o q, r)  BY <2>1, ConcatAppend
    <3>5. v \o q \in Seq(Record)  BY ConcatProperties
    <3> QED  BY <2>1, <3>3, <3>4, <3>5
  <2>6. PICK m \in Nat : m = x - w /\ m <= l  BY <1>8
  <2>7. m >= 1 /\ r = log[m] /\ u = SubSeq(log, 1, m - 1)
    <3>1. PICK k \in Seq(Record) : k = log  BY <1>5
    <3>2. Append(u, r) = SubSeq(k, 1, m) /\ m <= Len(k)  BY <1>6, <1>8, <2>5, <2>6, <3>1
    <3> QED  BY <2>1, <3>1, <3>2, EndOfFirsts
  <2>8. \A i \in 1..(n + 1) : z[i] # Blank => z[i] = log[x + 1 - Written(z, i)]
    <3> SUFFICES ASSUME NEW i \in 1..(n + 1), z[i] # Blank
                 PROVE  z[i] = log[x + 1 - Written(z, i)]
      OBVIOUS
    <3>1. CASE i \in 1..n  BY <1>8, <1>10, <3>1
    <3>2. CASE i = n + 1
      <4>1. Written(z, i) = w + 1 /\ x + 1 - (w + 1) = m  BY <1>10, <2>2, <2>6, <3>2
      <4> QED  BY <1>10, <2>7, <3>2, <4>1
    <3>3. i \in 1..n \/ i = n + 1  OBVIOUS
    <3> QED  BY <3>1, <3>2, <3>3
  <2>9. w + 1 <= x /\ x - (w + 1) = m - 1  BY <2>6, <2>7
  <2>10. n + 1 - (w + 1) + UnreadBlanks(jt) = c
    <3>1. BlanksOf(p) = 0 /\ BlanksOf(q) = 0  BY <1>12, BlanksOfPages
    <3>2. UnreadBlanks(jt) = 0 + y  BY <1>3, <1>7, <2>1, <3>1 DEF UnreadBlanks
    <3> QED  BY <1>8, <3>1, <3>2
  <2>11. IteratorIsSound(jt)
    <3>1. jt.seen = z /\ Len(z) = n + 1 /\ jt.end = x /\ x <= Len(log)
      BY <1>3, <1>6, <1>8, <1>10
    <3>2. jt.block = 0 \/ jt.block < Len(disk)  BY <1>3, <1>5
    <3>3. BlockSize * jt.zeroed = c  BY <1>3, <1>7
    <3>4. Unread(jt) = SubSeq(log, 1, x - (w + 1)) /\ w + 1 <= x  BY <2>5, <2>7, <2>9
    <3> QED  BY <2>3, <2>8, <2>10, <3>1, <3>2, <3>3, <3>4 DEF IteratorIsSound
  <2> QED  BY <1>1, <2>4, <2>11
<1> QED  BY <1>2, <1>11, <1>12

LEMMA NextRecordKeepsLogInv ==
    ASSUME OneThread, LogInv, NEW t \in Thread, NextRecord(t)
    PROVE  LogInv'
<1>1. /\ HasNext(iter[t]) /\ AtNextBlock(iter[t]).left # <<>>
      /\ iter' = [iter EXCEPT ![t] = Stepped(AtNextBlock(iter[t]))]
      /\ UNCHANGED <<disk, running, page, current, pc, lsnArg>>
      /\ UNCHANGED <<latestLsn, lastSavedLsn, base, acked, log>>
  BY DEF NextRecord, Stepped, memory, history
<1>2. PICK it \in IteratorState : it = iter[t] /\ IteratorIsSound(it) /\ HasNext(it)
  BY <1>1 DEF LogInv, TypesOfLog, IteratorsAreSound
<1>3. PICK jt \in IteratorState : jt = AtNextBlock(it) /\ IteratorIsSound(jt) /\ jt.left # <<>>
  BY <1>1, <1>2, AtNextBlockIsSound
<1>4. PICK kt \in IteratorState : kt = Stepped(jt) /\ IteratorIsSound(kt)
  BY <1>3, SteppedIsSound
<1>5. iter' = [iter EXCEPT ![t] = kt]  BY <1>1, <1>2, <1>3, <1>4
<1>6. DiskRecords' = DiskRecords /\ Earlier' = Earlier /\ LastBlock' = LastBlock
  BY <1>1, DiskStays
<1>7. PageInv'  BY NextRecordKeepsPageInv DEF LogInv
<1>8. TypesOfLog'  BY <1>1, <1>5 DEF LogInv, TypesOfLog
<1>9. LogIsWhole' /\ BlocksAreKnown' /\ DiskComesFirst'
  BY <1>1, <1>6 DEF LogInv, LogIsWhole, BlocksAreKnown, DiskComesFirst, TailInMemory, Busy
<1>10. LsnsAgree'  BY <1>1, <1>6, LogFacts, LsnsStay
<1>11. IteratorsAreSound'
  <2>1. \A u \in Thread : iter'[u] = kt  BY <1>5, OnlyThread DEF LogInv, TypesOfLog
  <2>2. IteratorIsSound(kt)'  BY <1>1, <1>4, LogStays, DiskStays, IteratorStaysSound
  <2> QED  BY <2>1, <2>2 DEF IteratorsAreSound, IteratorIsSound, Unread, UnreadBlanks, Returned, Zeroed
<1> QED  BY <1>7, <1>8, <1>9, <1>10, <1>11 DEF LogInv

LEMMA NothingUnread == ASSUME NEW it, it.block = 0, it.left = <<>> PROVE Unread(it) = <<>>
<1>1. SubSeq(disk, 1, 0) = <<>>  BY SubSeqEmpty
<1>2. LeftOf(<<>>) = <<>>  BY DEF LeftOf
<1>3. Records(<<>>) = <<>>  BY RecordsValues
<1>4. <<>> \o <<>> = <<>>  OBVIOUS
<1> QED  BY <1>1, <1>2, <1>3, <1>4 DEF Unread

LEMMA NoIteratorIsSound ==
    /\ NoIterator \in IteratorState
    /\ disk \in Seq(Page) /\ log \in Seq(Record) => IteratorIsSound(NoIterator)
<1>1. NoIterator \in IteratorState  BY DEF NoIterator, IteratorState
<1>2. ASSUME disk \in Seq(Page), log \in Seq(Record) PROVE IteratorIsSound(NoIterator)
  <2>1. /\ NoIterator.block = 0 /\ NoIterator.left = <<>> /\ NoIterator.seen = <<>>
        /\ NoIterator.end = 0 /\ NoIterator.zeroed = 0 /\ Len(NoIterator.seen) = 0
        /\ 0 <= Len(log)
    BY <1>2 DEF NoIterator
  <2>2. SubSeq(log, 1, 0) = <<>>  BY SubSeqEmpty
  <2>3. Unread(NoIterator) = <<>>  BY <2>1, NothingUnread
  <2>4. 1..0 = {} /\ 0 - 0 = 0  OBVIOUS
  <2>5. Returned(NoIterator) = 0  BY <2>1, NoneWritten DEF Returned
  <2>6. UnreadBlanks(NoIterator) = BlockSize * 0 /\ BlockSize * 0 = 0
    <3>1. BlanksOf(<<>>) = 0 /\ Zeroed(0) = 0  BY BlanksOfPages, ZeroedBlocks
    <3>2. BlockSize * 0 = 0  BY LogManagerAssumption
    <3> QED  BY <2>1, <3>1, <3>2 DEF UnreadBlanks
  <2> QED  BY <2>1, <2>2, <2>3, <2>4, <2>5, <2>6 DEF IteratorIsSound
<1> QED  BY <1>1, <1>2

LEMMA CrashKeepsLogInv ==
    ASSUME LogInv, Crash
    PROVE  LogInv'
<1>1. /\ ~running' /\ disk' = disk /\ pc' = [u \in Thread |-> "idle"]
      /\ lsnArg' = [u \in Thread |-> 0] /\ iter' = [u \in Thread |-> NoIterator]
      /\ latestLsn' = 0 /\ lastSavedLsn' = 0 /\ current' = 0 /\ acked' = acked
      /\ log' = DiskRecords /\ base' = Len(DiskRecords)
  BY DEF Crash
<1>2. DiskRecords' = DiskRecords  BY <1>1, DiskStays
<1>3. PICK n \in Nat : n = Len(DiskRecords) /\ acked <= n /\ acked \in Nat
  BY LogFacts DEF LogInv, LsnsAgree, TypesOfLog
<1>4. PageInv'  BY CrashKeepsPageInv DEF LogInv
<1>5. TypesOfLog'
  <2>1. lsnArg' \in [Thread -> Nat] /\ iter' \in [Thread -> IteratorState]
    BY <1>1, NoIteratorIsSound
  <2>2. log' \in Seq(Record)  BY <1>1, LogFacts
  <2> QED  BY <1>1, <1>3, <2>1, <2>2 DEF TypesOfLog
<1>6. \A places : Busy(places)' => "idle" \in places  BY <1>1 DEF Busy
<1>7. LogIsWhole' /\ BlocksAreKnown'
  BY <1>1, <1>2, <1>6 DEF LogIsWhole, BlocksAreKnown, TailInMemory
<1>8. DiskComesFirst'  BY <1>1, <1>2, <1>3 DEF DiskComesFirst
<1>9. LsnsAgree'  BY <1>1, <1>2, <1>3 DEF LsnsAgree
<1>10. IteratorsAreSound'
  <2>1. disk' \in Seq(Page) /\ log' \in Seq(Record)  BY <1>1, LogFacts
  <2>2. PICK it : it = NoIterator  OBVIOUS
  <2>3. IteratorIsSound(it)'
    <3>1. (disk \in Seq(Page) /\ log \in Seq(Record) => IteratorIsSound(NoIterator))'
      BY NoIteratorIsSound, PTL
    <3> QED  BY <2>1, <2>2, <3>1 DEF NoIterator, IteratorIsSound, Unread, UnreadBlanks, Returned, Zeroed
  <2> QED  BY <1>1, <2>2, <2>3 DEF IteratorsAreSound, IteratorIsSound, Unread, UnreadBlanks, Returned, Zeroed
<1> QED  BY <1>4, <1>5, <1>7, <1>8, <1>9, <1>10 DEF LogInv

LEMMA InitLogInv == Init => LogInv
<1> SUFFICES ASSUME Init PROVE LogInv  OBVIOUS
<1>1. /\ ~running /\ disk = <<>> /\ pc = [u \in Thread |-> "idle"]
      /\ lsnArg = [u \in Thread |-> 0] /\ iter = [u \in Thread |-> NoIterator]
      /\ latestLsn = 0 /\ lastSavedLsn = 0 /\ current = 0 /\ acked = 0
      /\ log = <<>> /\ base = 0
  BY DEF Init
<1>2. DiskRecords = <<>>  BY <1>1, RecordsValues DEF DiskRecords
<1>3. log \in Seq(Record) /\ disk \in Seq(Page) /\ Len(log) = 0 /\ 1..0 = {}  BY <1>1
<1>4. PageInv  BY InitPageInv
<1>5. TypesOfLog
  <2>1. lsnArg \in [Thread -> Nat] /\ iter \in [Thread -> IteratorState]
    BY <1>1, NoIteratorIsSound
  <2> QED  BY <1>1, <1>3, <2>1 DEF TypesOfLog
<1>6. \A places : Busy(places) => "idle" \in places  BY <1>1 DEF Busy
<1>7. LogIsWhole /\ BlocksAreKnown
  BY <1>1, <1>2, <1>6 DEF LogIsWhole, BlocksAreKnown, TailInMemory
<1>8. DiskComesFirst  BY <1>1, <1>2, <1>3 DEF DiskComesFirst
<1>9. LsnsAgree  BY <1>1, <1>2, <1>3 DEF LsnsAgree
<1>10. IteratorsAreSound
  <2>1. \A u \in Thread : iter[u] = NoIterator  BY <1>1
  <2>2. IteratorIsSound(NoIterator)  BY <1>3, NoIteratorIsSound
  <2> QED  BY <2>1, <2>2 DEF IteratorsAreSound
<1> QED  BY <1>4, <1>5, <1>7, <1>8, <1>9, <1>10 DEF LogInv

LEMMA NextKeepsLogInv == ASSUME OneThread PROVE LogInv /\ [Next]_vars => LogInv'
<1> SUFFICES ASSUME LogInv, [Next]_vars PROVE LogInv'  OBVIOUS
<1>1. CASE UNCHANGED vars  BY <1>1, StutterKeepsLogInv
<1>2. CASE Crash  BY <1>2, CrashKeepsLogInv
<1>3. CASE StartOld  BY <1>3, StartOldKeepsLogInv
<1>4. ASSUME NEW t \in Thread, StartNew(t) PROVE LogInv'  BY <1>4, StartNewKeepsLogInv
<1>5. ASSUME NEW t \in Thread, AppendNewBlock(t) PROVE LogInv'
  BY <1>5, ExtendKeepsLogInv, BlankPageKeepsLogInv, FormatKeepsLogInv, SwitchKeepsLogInv
  DEF AppendNewBlock
<1>6. ASSUME NEW t \in Thread, FlushPage(t) PROVE LogInv'  BY <1>6, FlushPageKeepsLogInv
<1>7. ASSUME NEW t \in Thread, SaveLsn(t) PROVE LogInv'  BY <1>7, SaveLsnKeepsLogInv
<1>8. ASSUME NEW t \in Thread, Put(t) PROVE LogInv'  BY <1>8, PutKeepsLogInv
<1>9. ASSUME NEW t \in Thread, Iterator(t) PROVE LogInv'  BY <1>9, IteratorKeepsLogInv
<1>10. ASSUME NEW t \in Thread, OpenIterator(t) PROVE LogInv'
  BY <1>10, OpenIteratorKeepsLogInv
<1>11. ASSUME NEW t \in Thread, NextRecord(t) PROVE LogInv'  BY <1>11, NextRecordKeepsLogInv
<1>12. ASSUME NEW t \in Thread, NEW lsn \in 1..latestLsn, Flush(t, lsn) PROVE LogInv'
  BY <1>12, FlushKeepsLogInv
<1>13. ASSUME NEW t \in Thread, NEW size \in RecordSize, AppendThatFits(t, size) PROVE LogInv'
  BY <1>13, AppendThatFitsKeepsLogInv
<1>14. ASSUME NEW t \in Thread, NEW size \in RecordSize, AppendThatDoesNotFit(t, size)
       PROVE  LogInv'
  BY <1>14, AppendThatDoesNotFitKeepsLogInv
<1> QED
  BY <1>1, <1>2, <1>3, <1>4, <1>5, <1>6, <1>7, <1>8, <1>9, <1>10, <1>11, <1>12, <1>13, <1>14
  DEF Next

(* For one thread, in every run and through every crash: where the end of  *)
(* the log is, how the disk, the LSNs and the iterators relate to it.      *)
THEOREM LogIsSound == ASSUME OneThread PROVE Spec => []LogInv
BY InitLogInv, NextKeepsLogInv, PTL DEF Spec

(* The type invariant of the log manager, for one thread. *)
THEOREM TypeCorrect == ASSUME OneThread PROVE Spec => []TypeOK
<1>1. LogInv => TypeOK
  <2> SUFFICES ASSUME LogInv PROVE TypeOK  OBVIOUS
  <2>1. \A n \in DOMAIN disk : disk[n] = ZeroPage \/ disk[n] \in Seq(Record)
    BY LogFacts DEF Page
  <2>2. page = ZeroPage \/ page \in Seq(Record)  BY LogFacts DEF Page
  <2>3. /\ running \in BOOLEAN /\ op \in [Thread -> Operation] /\ pc \in [Thread -> Place]
        /\ \A t \in Thread : pc[t] = "idle" <=> op[t] = "none"
    BY DEF LogInv, PageInv, ThreadsAreSound, InPlace
  <2>4. current \in Nat /\ log \in Seq(Record)  BY DEF LogInv, TypesOfLog
  <2>5. lastSavedLsn \in 0..latestLsn /\ base \in 0..Len(log) /\ acked \in 0..Len(log)
    <3>1. PICK n \in Nat, l \in Nat : n = Len(DiskRecords) /\ l = Len(log)  BY LogFacts
    <3>2. /\ base \in Nat /\ latestLsn \in Nat /\ lastSavedLsn \in Nat /\ acked \in Nat
          /\ base + latestLsn = l /\ lastSavedLsn <= latestLsn /\ acked <= n /\ n <= l
      BY <3>1 DEF LogInv, TypesOfLog, LsnsAgree, DiskComesFirst
    <3> QED  BY <3>1, <3>2
  <2> QED  BY <2>1, <2>2, <2>3, <2>4, <2>5 DEF TypeOK
<1> QED  BY <1>1, LogIsSound, PTL

(* A crash between any two steps, those of AppendNewBlock included, loses  *)
(* the end of the log only and leaves no hole in it.                       *)
THEOREM DiskHoldsPrefix == ASSUME OneThread PROVE Spec => []DiskIsPrefixOfLog
<1>1. LogInv => DiskIsPrefixOfLog
  <2> SUFFICES ASSUME LogInv PROVE DiskIsPrefixOfLog  OBVIOUS
  <2>1. PICK d \in Seq(Record), l \in Seq(Record) : d = DiskRecords /\ l = log  BY LogFacts
  <2>2. Len(d) <= Len(l) /\ \A i \in 1..Len(d) : d[i] = l[i]
    BY <2>1 DEF LogInv, DiskComesFirst
  <2>3. SubSeq(d, 1, Len(d)) = SubSeq(l, 1, Len(d))  BY <2>2, SameFirsts
  <2>4. d = SubSeq(l, 1, Len(d))  BY <2>3, SubSeqFull
  <2> QED  BY <2>1, <2>2, <2>4 DEF DiskIsPrefixOfLog, IsPrefix
<1> QED  BY <1>1, LogIsSound, PTL

(* What Flush(lsn) has answered for stays on disk, through crashes and     *)
(* restarts, also where Flush trusts last_saved_lsn_ and writes nothing.   *)
THEOREM FlushedStays == ASSUME OneThread PROVE Spec => []AckedIsDurable
<1>1. LogInv => AckedIsDurable
  <2> SUFFICES ASSUME LogInv, NEW i \in 1..acked PROVE log[i] \in ToSet(DiskRecords)
    BY DEF AckedIsDurable
  <2>1. PICK d \in Seq(Record) : d = DiskRecords  BY LogFacts
  <2>2. acked \in Nat /\ acked <= Len(d)  BY <2>1 DEF LogInv, LsnsAgree, TypesOfLog
  <2>3. i \in 1..Len(d)  BY <2>2
  <2>4. d[i] = log[i]  BY <2>1, <2>3 DEF LogInv, DiskComesFirst
  <2> QED  BY <2>1, <2>3, <2>4 DEF ToSet
<1> QED  BY <1>1, LogIsSound, PTL

(* An iterator returns the appended records of the log it was opened on,   *)
(* newest first, and all of them by the time HasNext turns false, whatever *)
(* is appended meanwhile; besides them it returns one empty record for     *)
(* each word of each block that was zeroed, and no other.                  *)
THEOREM IteratorsReadBackwards == ASSUME OneThread PROVE Spec => []IteratorReadsLogBackwards
<1>1. LogInv => IteratorReadsLogBackwards
  <2> SUFFICES ASSUME LogInv, NEW t \in Thread,
                      NEW it, it = iter[t], NEW n, n = Len(it.seen)
               PROVE  /\ \A i \in 1..n : it.seen[i] # Blank =>
                            it.seen[i] = log[it.end + 1 - Written(it.seen, i)]
                      /\ n - Written(it.seen, n) <= it.zeroed * BlockSize
                      /\ ~HasNext(it) => /\ Written(it.seen, n) = it.end
                                         /\ n - Written(it.seen, n) = it.zeroed * BlockSize
    BY DEF IteratorReadsLogBackwards
  <2>1. it \in IteratorState /\ IteratorIsSound(it)
    BY DEF LogInv, TypesOfLog, IteratorsAreSound
  <2>2. PICK w \in Nat, x \in Nat, l \in Seq(Record) :
           n \in Nat /\ w = Written(it.seen, n) /\ x = it.end /\ l = log
    <3>1. Len(it.seen) \in Nat /\ Len(it.seen) \in 0..Len(it.seen)  BY <2>1 DEF IteratorState
    <3> QED  BY <2>1, <3>1, LogFacts, WrittenValues DEF IteratorState
  <2>3. PICK c \in Nat, y \in Nat, z \in Nat :
           c = BlockSize /\ y = Zeroed(it.block) /\ z = it.zeroed
    BY <2>1, LogManagerAssumption, ZeroedBlocks DEF IteratorState
  <2>4. /\ w <= x /\ x <= Len(l) /\ Unread(it) = SubSeq(l, 1, x - w)
        /\ \A i \in 1..n : it.seen[i] # Blank => it.seen[i] = l[x + 1 - Written(it.seen, i)]
        /\ n - w + (BlanksOf(it.left) + c * y) = c * z
    BY <2>1, <2>2, <2>3 DEF IteratorIsSound, Returned, UnreadBlanks
  <2>5. n - w <= z * c
    <3>1. c * y \in Nat /\ c * z \in Nat /\ c * z = z * c  BY <2>3
    <3>2. PICK a \in Nat, b \in Nat, d \in Nat :
             a = BlanksOf(it.left) /\ b = c * y /\ d = c * z /\ d = z * c
      <4>1. BlanksOf(it.left) \in Nat  BY <2>1, BlanksOfPages DEF IteratorState
      <4> QED  BY <3>1, <4>1
    <3>3. n - w + (a + b) = d  BY <2>4, <3>2
    <3>4. n - w <= d  BY <2>2, <3>3
    <3> QED  BY <3>2, <3>4
  <2>6. ASSUME ~HasNext(it) PROVE w = x /\ n - w = z * c
    <3>1. it.left = <<>> /\ it.block = 0  BY <2>1, <2>6 DEF HasNext, IteratorState
    <3>2. Unread(it) = <<>>  BY <3>1, NothingUnread
    <3>3. w = x
      <4>1. PICK m \in Nat : m = x - w /\ m <= Len(l)  BY <2>4
      <4>2. SUFFICES ASSUME m # 0 PROVE FALSE  BY <2>4, <4>1
      <4>3. 1 \in Int /\ m \in Int /\ \A i \in 1..m : l[i] \in Record  BY <4>1
      <4>4. Len(SubSeq(l, 1, m)) = m  BY <4>2, <4>3, SubSeqProperties
      <4> QED  BY <2>4, <3>2, <4>1, <4>2, <4>4
    <3>4. BlanksOf(it.left) = 0 /\ y = 0  BY <2>3, <3>1, BlanksOfPages, ZeroedBlocks
    <3>5. c * 0 = 0 /\ c * z = z * c /\ c * z \in Nat  BY <2>3
    <3>6. n - w + (0 + 0) = c * z  BY <2>4, <3>4, <3>5
    <3> QED  BY <2>2, <3>3, <3>5, <3>6
  <2> QED  BY <2>2, <2>3, <2>4, <2>5, <2>6
<1> QED  BY <1>1, LogIsSound, PTL

-----------------------------------------------------------------------------
(* The refinement of LogSpec, for one thread *)

(* A step that appends nothing either writes what was appended or leaves   *)
(* the file alone.                                                         *)
LEMMA SaveImplements ==
    ASSUME LogInv, LogInv', log' = log, disk' = disk \/ ~TailInMemory'
    PROVE  Abstract!Next
<1>1. PICK n \in Nat, m \in Nat, l \in Nat :
         n = Len(DiskRecords) /\ m = Len(DiskRecords') /\ l = Len(log)
  <2>1. Len(DiskRecords) \in Nat /\ Len(log) \in Nat  BY LogFacts
  <2>2. DiskRecords' \in Seq(Record)
    <3>1. (LogInv => DiskRecords \in Seq(Record))'  BY LogFacts, PTL
    <3> QED  BY <3>1
  <2> QED  BY <2>1, <2>2
<1>2. n <= l  BY <1>1 DEF LogInv, DiskComesFirst
<1>3. m <= l  BY <1>1 DEF LogInv, DiskComesFirst
<1>4. n <= m
  <2>1. CASE disk' = disk  BY <1>1, <2>1, DiskStays
  <2>2. CASE ~TailInMemory'
    <3>1. log' = DiskRecords'  BY <2>2 DEF LogInv, LogIsWhole
    <3> QED  BY <1>1, <1>2, <3>1
  <2> QED  BY <2>1, <2>2
<1>5. m \in n..l  BY <1>2, <1>3, <1>4
<1>6. Abstract!Save  BY <1>1, <1>5 DEF Abstract!Save
<1> QED  BY <1>6 DEF Abstract!Next

LEMMA AppendImplements ==
    ASSUME LogInv, disk' = disk, NEW r \in Record, log' = Append(log, r)
    PROVE  Abstract!Next
<1>1. DiskRecords' = DiskRecords  BY DiskStays
<1>2. Abstract!Append1(r)  BY <1>1 DEF Abstract!Append1
<1> QED  BY <1>2 DEF Abstract!Next

LEMMA CrashImplements ==
    ASSUME LogInv, Crash
    PROVE  Abstract!Next
<1>1. disk' = disk /\ log' = DiskRecords  BY DEF Crash
<1>2. DiskRecords' = DiskRecords  BY <1>1, DiskStays
<1>3. PICK d \in Seq(Record), l \in Seq(Record) : d = DiskRecords /\ l = log  BY LogFacts
<1>4. Len(d) <= Len(l) /\ \A i \in 1..Len(d) : d[i] = l[i]
  BY <1>3 DEF LogInv, DiskComesFirst
<1>5. SubSeq(d, 1, Len(d)) = SubSeq(l, 1, Len(d))  BY <1>4, SameFirsts
<1>6. d = SubSeq(l, 1, Len(d))  BY <1>5, SubSeqFull
<1>7. Abstract!Crash  BY <1>1, <1>2, <1>3, <1>6 DEF Abstract!Crash
<1> QED  BY <1>7 DEF Abstract!Next

LEMMA StepImplements == LogInv /\ LogInv' /\ [Next]_vars => Abstract!Next
<1> SUFFICES ASSUME LogInv, LogInv', [Next]_vars PROVE Abstract!Next  OBVIOUS
<1>1. CASE UNCHANGED vars
  <2>1. disk' = disk /\ log' = log  BY <1>1 DEF vars, history
  <2> QED  BY <2>1, SaveImplements
<1>2. CASE Crash  BY <1>2, CrashImplements
<1>3. CASE StartOld
  <2>1. disk' = disk /\ log' = log  BY <1>3 DEF StartOld, history
  <2> QED  BY <2>1, SaveImplements
<1>4. ASSUME NEW t \in Thread, BlankPage(t) \/ Switch(t) \/ StartNew(t) \/ SaveLsn(t)
      PROVE  Abstract!Next
  <2>1. disk' = disk /\ log' = log
    BY <1>4 DEF BlankPage, Switch, StartNew, SaveLsn, history
  <2> QED  BY <2>1, SaveImplements
<1>5. ASSUME NEW t \in Thread, Iterator(t) \/ OpenIterator(t) \/ NextRecord(t)
      PROVE  Abstract!Next
  <2>1. disk' = disk /\ log' = log
    BY <1>5 DEF Iterator, OpenIterator, NextRecord, history
  <2> QED  BY <2>1, SaveImplements
<1>6. ASSUME NEW t \in Thread, Extend(t) \/ Format(t) \/ FlushPage(t)
      PROVE  Abstract!Next
  <2>1. log' = log /\ pc'[t] \in {"Blank", "Switch", "Save"}
    BY <1>6 DEF Extend, Format, FlushPage, Goto, history, LogInv, PageInv, ThreadsAreSound
  <2>2. ~TailInMemory'  BY <2>1 DEF TailInMemory, Busy
  <2> QED  BY <2>1, <2>2, SaveImplements
<1>7. ASSUME NEW t \in Thread, NEW lsn \in 1..latestLsn, Flush(t, lsn)
      PROVE  Abstract!Next
  <2>1. disk' = disk /\ log' = log  BY <1>7 DEF Flush
  <2> QED  BY <2>1, SaveImplements
<1>8. ASSUME NEW t \in Thread, NEW size \in RecordSize, AppendThatDoesNotFit(t, size)
      PROVE  Abstract!Next
  <2>1. disk' = disk /\ log' = log  BY <1>8 DEF AppendThatDoesNotFit
  <2> QED  BY <2>1, SaveImplements
<1>9. ASSUME NEW t \in Thread, NEW size \in RecordSize, AppendThatFits(t, size)
      PROVE  Abstract!Next
  <2>1. PICK r : r = [id |-> appended + 1, size |-> size]  OBVIOUS
  <2>2. disk' = disk /\ log' = Append(log, r) /\ appended < MaxRecords
    BY <1>9, <2>1 DEF AppendThatFits, Store
  <2>3. appended \in 0..MaxRecords /\ MaxRecords \in Nat
    BY LogManagerAssumption DEF LogInv, PageInv, PagesFit
  <2>4. appended + 1 \in 1..MaxRecords  BY <2>2, <2>3
  <2>5. r \in Record  BY <2>1, <2>4 DEF Record
  <2> QED  BY <2>2, <2>5, AppendImplements
<1>10. ASSUME NEW t \in Thread, Put(t) PROVE Abstract!Next
  <2>1. disk' = disk /\ log' = Append(log, record[t]) /\ pc[t] = "Put"
    BY <1>10 DEF Put, Store
  <2>2. record[t] \in Record  BY <2>1 DEF LogInv, PageInv, ThreadsAreSound, InPlace
  <2> QED  BY <2>1, <2>2, AppendImplements
<1> QED
  BY <1>1, <1>2, <1>3, <1>4, <1>5, <1>6, <1>7, <1>8, <1>9, <1>10 DEF Next, AppendNewBlock

(* The log manager, called by one thread and restarted after crashes,      *)
(* implements a sequence that grows at its end and of which a crash loses  *)
(* no more than what is not on disk: every step is a step of LogSpec.      *)
THEOREM LogRefines == ASSUME OneThread PROVE Spec => ImplementsLogSpec
<1>1. Init => Abstract!Init
  <2> SUFFICES ASSUME Init PROVE Abstract!Init  OBVIOUS
  <2>1. log = <<>> /\ disk = <<>>  BY DEF Init
  <2>2. Len(DiskRecords) = 0  BY <2>1, RecordsValues DEF DiskRecords
  <2> QED  BY <2>1, <2>2 DEF Abstract!Init
<1>2. LogInv /\ LogInv' /\ [Next]_vars => [Abstract!Next]_(Abstract!vars)
  BY StepImplements
<1> QED  BY <1>1, <1>2, LogIsSound, PTL DEF Spec, ImplementsLogSpec, Abstract!Spec

=============================================================================
