----------------------------- MODULE SetLemmas -----------------------------
(***************************************************************************)
(* Facts about Max and Min of FiniteSetsExt, which choose an extremum, and *)
(* so are one only where there is one.  They need an induction over finite *)
(* sets; it is had from the well-foundedness of inclusion, applied to a    *)
(* family of subsets.                                                      *)
(***************************************************************************)
EXTENDS Integers, FiniteSetsExt, FiniteSetTheorems, TLAPS

(* A finite set of integers that is not empty has a greatest element, and   *)
(* Max finds it.  The sets of the elements above an element are finite, so  *)
(* one of them is minimal, and it is empty.                                 *)
LEMMA MaxIsGreatest ==
    ASSUME NEW S, IsFiniteSet(S), S \subseteq Int, S # {}
    PROVE  Max(S) \in S /\ \A x \in S : x <= Max(S)
<1> DEFINE Above(x) == {y \in S : y > x}
           T == {Above(x) : x \in S}
<1>1. T \subseteq FiniteSubsetsOf(S) /\ T # {}
  <2>1. T \subseteq SUBSET S /\ T # {}  OBVIOUS
  <2>2. FiniteSubsetsOf(S) = SUBSET S  BY FS_FiniteSubsetsOfFinite
  <2> QED  BY <2>1, <2>2
<1>2. \E A \in T : \A B \in T : <<B, A>> \notin StrictSubsetOrdering(S)
  <2> HIDE DEF T
  <2> QED  BY <1>1, FS_StrictSubsetOrderingWellFounded, WFMin
<1>3. PICK m \in S : \A x \in S : <<Above(x), Above(m)>> \notin StrictSubsetOrdering(S)
  BY <1>2
<1>4. \A x \in S : x <= m
  <2> SUFFICES ASSUME NEW x \in S, x > m PROVE FALSE  OBVIOUS
  <2>1. x \in Int /\ m \in Int  OBVIOUS
  <2>2. \A y \in S : y \in Int /\ (y > x => y > m)  BY <2>1
  <2>3. Above(x) \subseteq Above(m)  BY <2>2
  <2>4. x \in Above(m) /\ x \notin Above(x)  BY <2>1
  <2>5. <<Above(x), Above(m)>> \in StrictSubsetOrdering(S)
    BY <2>3, <2>4 DEF StrictSubsetOrdering
  <2> QED  BY <1>3, <2>5
<1> QED  BY <1>4 DEF Max

LEMMA MinIsLeast ==
    ASSUME NEW S, IsFiniteSet(S), S \subseteq Int, S # {}
    PROVE  Min(S) \in S /\ \A x \in S : Min(S) <= x
<1> DEFINE Below(x) == {y \in S : y < x}
           T == {Below(x) : x \in S}
<1>1. T \subseteq FiniteSubsetsOf(S) /\ T # {}
  <2>1. T \subseteq SUBSET S /\ T # {}  OBVIOUS
  <2>2. FiniteSubsetsOf(S) = SUBSET S  BY FS_FiniteSubsetsOfFinite
  <2> QED  BY <2>1, <2>2
<1>2. \E A \in T : \A B \in T : <<B, A>> \notin StrictSubsetOrdering(S)
  <2> HIDE DEF T
  <2> QED  BY <1>1, FS_StrictSubsetOrderingWellFounded, WFMin
<1>3. PICK m \in S : \A x \in S : <<Below(x), Below(m)>> \notin StrictSubsetOrdering(S)
  BY <1>2
<1>4. \A x \in S : m <= x
  <2> SUFFICES ASSUME NEW x \in S, x < m PROVE FALSE  OBVIOUS
  <2>1. x \in Int /\ m \in Int  OBVIOUS
  <2>2. \A y \in S : y \in Int /\ (y < x => y < m)  BY <2>1
  <2>3. Below(x) \subseteq Below(m)  BY <2>2
  <2>4. x \in Below(m) /\ x \notin Below(x)  BY <2>1
  <2>5. <<Below(x), Below(m)>> \in StrictSubsetOrdering(S)
    BY <2>3, <2>4 DEF StrictSubsetOrdering
  <2> QED  BY <1>3, <2>5
<1> QED  BY <1>4 DEF Min

(* A set of positions in a sequence is finite. *)
LEMMA PositionsFinite ==
    ASSUME NEW n \in Nat, NEW S, S \subseteq 0..n
    PROVE  IsFiniteSet(S) /\ S \subseteq Int
<1>1. IsFiniteSet(0..n)
  <2>1. 0 \in Int /\ n \in Int  OBVIOUS
  <2> QED  BY <2>1, FS_Interval
<1>2. IsFiniteSet(S)  BY <1>1, FS_Subset
<1>3. S \subseteq Int  OBVIOUS
<1> QED  BY <1>2, <1>3

LEMMA LastPosition ==
    ASSUME NEW n \in Nat, NEW S, S \subseteq 0..n, S # {}
    PROVE  Max(S) \in S /\ \A x \in S : x <= Max(S)
BY PositionsFinite, MaxIsGreatest

LEMMA FirstPosition ==
    ASSUME NEW n \in Nat, NEW S, S \subseteq 0..n, S # {}
    PROVE  Min(S) \in S /\ \A x \in S : Min(S) <= x
BY PositionsFinite, MinIsLeast

(* What is left behind a later position is left behind an earlier one.      *)
LEMMA TailShrinks ==
    ASSUME NEW a \in Int, NEW b \in Int, a <= b, NEW n \in Int
    PROVE  \A j \in (b + 1)..n : j \in (a + 1)..n
OBVIOUS

-----------------------------------------------------------------------------
(* Folds *)

(* Induction over the subsets of a finite set: a family that has every      *)
(* subset all of whose proper subsets it has, has them all.                 *)
LEMMA SubsetInduction ==
    ASSUME NEW S, IsFiniteSet(S), NEW Good,
           \A s \in SUBSET S : (\A u \in SUBSET s : u # s => u \in Good) => s \in Good
    PROVE  SUBSET S \subseteq Good
<1> DEFINE Bad == {s \in SUBSET S : s \notin Good}
<1> SUFFICES ASSUME Bad # {} PROVE FALSE  OBVIOUS
<1>1. Bad \subseteq FiniteSubsetsOf(S)
  <2>1. FiniteSubsetsOf(S) = SUBSET S  BY FS_FiniteSubsetsOfFinite
  <2> QED  BY <2>1
<1>2. PICK s \in Bad : \A u \in Bad : <<u, s>> \notin StrictSubsetOrdering(S)
  <2> HIDE DEF Bad
  <2> QED  BY <1>1, FS_StrictSubsetOrderingWellFounded, WFMin
<1>3. \A u \in SUBSET s : u # s => u \in Good
  <2> SUFFICES ASSUME NEW u \in SUBSET s, u # s, u \notin Good PROVE FALSE  OBVIOUS
  <2>1. u \in Bad /\ u \subseteq S /\ s \subseteq S  OBVIOUS
  <2>2. <<u, s>> \in StrictSubsetOrdering(S)  BY <2>1 DEF StrictSubsetOrdering
  <2> QED  BY <1>2, <2>1, <2>2
<1> QED  BY <1>3

(* A fold: g has the value base on the empty set; on any other set it takes *)
(* out the element that pick chooses and applies F to it and to the value   *)
(* on the rest.                                                             *)
IsFold(g, T, base, pick, F) ==
    \A s \in SUBSET T : g[s] = IF s = {} THEN base ELSE F[pick[s]][g[s \ {pick[s]}]]

LEMMA FoldUnique ==
    ASSUME NEW S, IsFiniteSet(S), NEW base, NEW F,
           NEW pick, \A s \in SUBSET S : s # {} => pick[s] \in s,
           NEW T \in SUBSET S, NEW U \in SUBSET S, NEW g, NEW h,
           IsFold(g, T, base, pick, F), IsFold(h, U, base, pick, F)
    PROVE  \A s \in SUBSET (T \cap U) : g[s] = h[s]
<1> DEFINE Good == {s \in SUBSET S : s \subseteq T \cap U => g[s] = h[s]}
<1>1. ASSUME NEW s \in SUBSET S, \A u \in SUBSET s : u # s => u \in Good
      PROVE  s \in Good
  <2> SUFFICES ASSUME s \subseteq T \cap U PROVE g[s] = h[s]  OBVIOUS
  <2>1. s \in SUBSET T /\ s \in SUBSET U  OBVIOUS
  <2>2. CASE s = {}  BY <2>1, <2>2 DEF IsFold
  <2>3. CASE s # {}
    <3>1. PICK x \in s : x = pick[s]  BY <2>3
    <3>2. s \ {x} \in Good  BY <1>1
    <3>3. g[s \ {x}] = h[s \ {x}]  BY <3>2
    <3>4. g[s] = F[x][g[s \ {x}]] /\ h[s] = F[x][h[s \ {x}]]  BY <2>1, <2>3, <3>1 DEF IsFold
    <3> QED  BY <3>3, <3>4
  <2> QED  BY <2>2, <2>3
<1>2. SUBSET S \subseteq Good
  <2> HIDE DEF Good
  <2> QED  BY <1>1, SubsetInduction
<1> QED  BY <1>2

LEMMA FoldExists ==
    ASSUME NEW S, IsFiniteSet(S), NEW base, NEW F,
           NEW pick, \A s \in SUBSET S : s # {} => pick[s] \in s
    PROVE  \E g : /\ g = [s \in SUBSET S |-> IF s = {} THEN base
                                             ELSE F[pick[s]][g[s \ {pick[s]}]]]
                  /\ IsFold(g, S, base, pick, F)
<1> DEFINE Good == {s \in SUBSET S : \E g : IsFold(g, s, base, pick, F)}
<1>1. ASSUME NEW s \in SUBSET S, \A u \in SUBSET s : u # s => u \in Good
      PROVE  s \in Good
  <2> DEFINE h(u) == CHOOSE g : IsFold(g, u, base, pick, F)
             proper(u) == h(u)[u]
             g == [u \in SUBSET s |-> IF u # s THEN proper(u)
                     ELSE IF s = {} THEN base ELSE F[pick[s]][proper(s \ {pick[s]})]]
  <2>1. \A u \in SUBSET s : u # s => IsFold(h(u), u, base, pick, F)
    <3> SUFFICES ASSUME NEW u \in SUBSET s, u # s PROVE IsFold(h(u), u, base, pick, F)
      OBVIOUS
    <3>1. \E k : IsFold(k, u, base, pick, F)  BY <1>1
    <3> QED  BY <3>1
  <2> HIDE DEF h
  <2>2. ASSUME NEW u \in SUBSET s
        PROVE  g[u] = IF u = {} THEN base ELSE F[pick[u]][g[u \ {pick[u]}]]
    <3>1. CASE u = {} /\ u = s  BY <3>1
    <3>2. CASE u = {} /\ u # s
      <4>1. IsFold(h(u), u, base, pick, F)  BY <2>1, <3>2
      <4>2. proper(u) = base  BY <4>1, <3>2 DEF IsFold
      <4> QED  BY <3>2, <4>2
    <3>3. CASE u # {}
      <4>1. PICK x \in u : x = pick[u]  BY <3>3
      <4>2. PICK v \in SUBSET s : v = u \ {x}  OBVIOUS
      <4>3. v # s /\ g[v] = proper(v)  BY <4>1, <4>2
      <4>4. CASE u = s
        <5>1. g[u] = F[x][proper(v)]  BY <3>3, <4>1, <4>2, <4>4
        <5> QED  BY <3>3, <4>1, <4>2, <4>3, <5>1
      <4>5. CASE u # s
        <5>1. IsFold(h(u), u, base, pick, F) /\ IsFold(h(v), v, base, pick, F)
          BY <2>1, <4>3, <4>5
        <5>2. h(u)[u] = F[x][h(u)[v]]  BY <5>1, <3>3, <4>1, <4>2 DEF IsFold
        <5>3. h(u)[v] = h(v)[v]
          <6>1. u \in SUBSET S /\ v \in SUBSET S /\ v \in SUBSET (u \cap v)  BY <4>2
          <6> HIDE DEF g
          <6> QED  BY <5>1, <6>1, FoldUnique
        <5>4. g[u] = proper(u)  BY <4>5
        <5>5. g[u] = F[x][g[v]]  BY <5>2, <5>3, <5>4, <4>3
        <5> QED  BY <3>3, <4>1, <4>2, <5>5
      <4> QED  BY <4>4, <4>5
    <3> QED  BY <3>1, <3>2, <3>3
  <2>3. IsFold(g, s, base, pick, F)
    <3> HIDE DEF g
    <3> QED  BY <2>2 DEF IsFold
  <2> QED
    <3> HIDE DEF g
    <3> QED  BY <2>3
<1>2. S \in Good
  <2> HIDE DEF Good
  <2>1. SUBSET S \subseteq Good  BY <1>1, SubsetInduction
  <2> QED  BY <2>1
<1>3. PICK k : IsFold(k, S, base, pick, F)  BY <1>2
<1>4. PICK g : g = [s \in SUBSET S |-> k[s]]  OBVIOUS
<1>5. ASSUME NEW s \in SUBSET S
      PROVE  g[s] = IF s = {} THEN base ELSE F[pick[s]][g[s \ {pick[s]}]]
  <2>1. k[s] = IF s = {} THEN base ELSE F[pick[s]][k[s \ {pick[s]}]]  BY <1>3 DEF IsFold
  <2>2. s \ {pick[s]} \in SUBSET S  OBVIOUS
  <2> QED  BY <1>4, <2>1, <2>2
<1>6. IsFold(g, S, base, pick, F)  BY <1>5 DEF IsFold
<1>7. g = [s \in SUBSET S |-> IF s = {} THEN base ELSE F[pick[s]][g[s \ {pick[s]}]]]
  BY <1>4, <1>5
<1> QED  BY <1>6, <1>7

LEMMA FoldValues ==
    ASSUME NEW S, IsFiniteSet(S), NEW V, NEW base \in V, NEW F \in [S -> [V -> V]],
           NEW pick, \A s \in SUBSET S : s # {} => pick[s] \in s,
           NEW g, IsFold(g, S, base, pick, F)
    PROVE  \A s \in SUBSET S : g[s] \in V
<1> DEFINE Good == {s \in SUBSET S : g[s] \in V}
<1>1. ASSUME NEW s \in SUBSET S, \A u \in SUBSET s : u # s => u \in Good
      PROVE  s \in Good
  <2>1. CASE s = {}  BY <2>1 DEF IsFold
  <2>2. CASE s # {}
    <3>1. PICK x \in s : x = pick[s]  BY <2>2
    <3>2. s \ {x} \in Good  BY <1>1
    <3>3. g[s] = F[x][g[s \ {x}]]  BY <2>2, <3>1 DEF IsFold
    <3> QED  BY <3>2, <3>3
  <2> QED  BY <2>1, <2>2
<1>2. SUBSET S \subseteq Good
  <2> HIDE DEF Good
  <2> QED  BY <1>1, SubsetInduction
<1> QED  BY <1>2

(* Folds over the positions of a sequence, which take out the last one.     *)
LastOf(n) == [s \in SUBSET (1..n) |-> Max(s)]

LEMMA LastOfPicks ==
    ASSUME NEW n \in Nat
    PROVE  /\ IsFiniteSet(1..n)
           /\ \A s \in SUBSET (1..n) : s # {} => LastOf(n)[s] \in s /\ LastOf(n)[s] = Max(s)
<1>1. 1..n \subseteq 0..n  OBVIOUS
<1>2. ASSUME NEW s \in SUBSET (1..n), s # {} PROVE Max(s) \in s
  <2>1. s \subseteq 0..n  BY <1>1
  <2> QED  BY <1>2, <2>1, LastPosition
<1> QED  BY <1>1, <1>2, PositionsFinite DEF LastOf

LEMMA LastOfAll ==
    ASSUME NEW n \in Nat
    PROVE  LastOf(n + 1)[1..(n + 1)] = n + 1 /\ (1..(n + 1)) \ {n + 1} = 1..n
<1> DEFINE S == 1..(n + 1)
<1>1. S \subseteq 0..(n + 1) /\ S # {} /\ n + 1 \in S
  <2>1. n + 1 \in 1..(n + 1) /\ \A i \in 1..(n + 1) : i \in 0..(n + 1)  OBVIOUS
  <2> QED  BY <2>1
<1>2. PICK m \in S : m = Max(S) /\ \A i \in S : i <= m
  <2>1. n + 1 \in Nat  OBVIOUS
  <2> HIDE DEF S
  <2> QED  BY <1>1, <2>1, LastPosition
<1>3. m = n + 1
  <2>1. n + 1 <= m  BY <1>1, <1>2
  <2> QED  BY <2>1
<1>4. S \in SUBSET S  OBVIOUS
<1> QED  BY <1>2, <1>3, <1>4 DEF LastOf

(* What one position more adds. *)
LEMMA FoldGrows ==
    ASSUME NEW n \in Nat, NEW base, NEW F, NEW G, \A i \in 1..n : F[i] = G[i],
           NEW g, IsFold(g, 1..n, base, LastOf(n), F),
           NEW h, IsFold(h, 1..(n + 1), base, LastOf(n + 1), G)
    PROVE  h[1..(n + 1)] = G[n + 1][g[1..n]]
<1>1. PICK T, S : T = 1..n /\ S = 1..(n + 1) /\ T \in SUBSET S /\ T \in SUBSET (T \cap S)
  <2>1. 1..n \subseteq 1..(n + 1)  OBVIOUS
  <2> QED  BY <2>1
<1>2. ASSUME NEW s \in SUBSET T
      PROVE  g[s] = IF s = {} THEN base ELSE G[LastOf(n + 1)[s]][g[s \ {LastOf(n + 1)[s]}]]
  <2>1. g[s] = IF s = {} THEN base ELSE F[LastOf(n)[s]][g[s \ {LastOf(n)[s]}]]
    BY <1>1 DEF IsFold
  <2>2. ASSUME s # {} PROVE LastOf(n)[s] = LastOf(n + 1)[s] /\ LastOf(n)[s] \in 1..n
    <3>1. n + 1 \in Nat /\ s \in SUBSET (1..(n + 1))  BY <1>1
    <3> QED  BY <1>1, <2>2, <3>1, LastOfPicks
  <2> QED  BY <2>1, <2>2
<1>3. IsFold(g, T, base, LastOf(n + 1), G)  BY <1>2 DEF IsFold
<1>4. IsFiniteSet(S) /\ \A s \in SUBSET S : s # {} => LastOf(n + 1)[s] \in s
  <2>1. n + 1 \in Nat  OBVIOUS
  <2> QED  BY <1>1, <2>1, LastOfPicks
<1>5. IsFold(h, S, base, LastOf(n + 1), G)  BY <1>1
<1>6. \A s \in SUBSET (T \cap S) : g[s] = h[s]
  <2>1. S \in SUBSET S /\ T \in SUBSET S  BY <1>1
  <2>2. \A s \in SUBSET S : s # {} => LastOf(n + 1)[s] \in s  BY <1>4
  <2>3. PICK pick : pick = LastOf(n + 1)  OBVIOUS
  <2>4. IsFold(g, T, base, pick, G) /\ IsFold(h, S, base, pick, G)  BY <1>3, <1>5, <2>3
  <2>5. \A s \in SUBSET S : s # {} => pick[s] \in s  BY <2>2, <2>3
  <2> QED  BY <1>4, <2>1, <2>4, <2>5, FoldUnique
<1>7. g[T] = h[T]
  <2>1. T \in SUBSET (T \cap S)  BY <1>1
  <2> QED  BY <1>6, <2>1
<1>8. LastOf(n + 1)[S] = n + 1 /\ S \ {n + 1} = T  BY <1>1, LastOfAll
<1>9. S \in SUBSET S /\ S # {}  BY <1>1
<1>10. h[S] = G[n + 1][h[T]]
  <2>1. h[S] = IF S = {} THEN base
               ELSE G[LastOf(n + 1)[S]][h[S \ {LastOf(n + 1)[S]}]]
    BY <1>5, <1>9 DEF IsFold
  <2> QED  BY <1>8, <1>9, <2>1
<1> QED  BY <1>1, <1>7, <1>10

=============================================================================
