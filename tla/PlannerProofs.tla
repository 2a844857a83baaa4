--------------------------- MODULE PlannerProofs ---------------------------
(***************************************************************************)
(* Proofs about what the planners rest on: the catalog, which tells them   *)
(* what there is, and the updates of a table.  The two are independent.    *)
(*                                                                         *)
(* Catalog, for any transactions, tables, fields and bounds.  The          *)
(* inductive invariant is CatInv.  Its heart is Shape: each table of       *)
(* table_catalog has its rows in field_catalog, together and in order, and *)
(* nothing else is there.  It holds of what is committed, and of the two   *)
(* tables as they are but for a transaction that is between its two        *)
(* inserts, or has failed there.  What a transaction was told stays true   *)
(* because of the locks it has kept since.                                 *)
(*                                                                         *)
(* TableUpdates, for any tables, statements, values and bounds.  The       *)
(* inductive invariant is UpdateInv.  Its heart is HalfwayAt: the records  *)
(* that satisfied the predicate and that the cursor has passed have been   *)
(* dealt with and counted, and no other record has changed.                *)
(***************************************************************************)
EXTENDS Catalog, TableUpdates, SetLemmas, SequenceTheorems, TLAPS

TableCatalog == "table_catalog"
FieldCatalog == "field_catalog"

-----------------------------------------------------------------------------
(* The two tables of the catalog *)

(* The name n is in the column tc exactly once. *)
OnceIn(tc, n) ==
    \E i \in 1..Len(tc) : tc[i] = n /\ \A j \in 1..Len(tc) : tc[j] = n => j = i

(* The rows fc have those of n, one after the other, and no other row of n. *)
Group(fc, n) ==
    \E p \in Nat :
        /\ p + Len(Fields[n]) <= Len(fc)
        /\ \A i \in 1..Len(fc) :
              IF i \in (p + 1)..(p + Len(Fields[n])) THEN fc[i] = RowsOf(n)[i - p]
              ELSE fc[i].table # n

Shape(tc, fc) ==
    /\ \A i \in 1..Len(fc) : \E j \in 1..Len(tc) : fc[i].table = tc[j]
    /\ \A j \in 1..Len(tc) : \E i \in 1..Len(fc) : fc[i].table = tc[j]
    /\ \A n \in Name : OnceIn(tc, n) => Group(fc, n)

-----------------------------------------------------------------------------
(* The invariant *)

Ops == {"none", "idle", "create", "query", "insert", "failed"}
Places == {"start", "tcat", "fcat", "mutex", "count", "row"}
Stat == [records : Nat, age : Nat, by : Txn \cup {None}]
CatalogTables == [tcat : Seq(Name), fcat : Seq(Row), rows : [Name -> 0..MaxRows]]

CatTyped ==
    /\ server \in {"down", "starting", "up", "failed"} /\ is_new \in BOOLEAN
    /\ tcat \in Seq(Name) /\ fcat \in Seq(Row) /\ rows \in [Name -> 0..MaxRows]
    /\ committed \in CatalogTables
    /\ op \in [Txn -> Ops] /\ at \in [Txn -> Places]
    /\ name \in [Txn -> Name \cup {None}] /\ todo \in [Txn -> Seq(Name)]
    /\ answer \in [Txn -> [Name -> Seq(STRING) \cup {None}]]
    /\ mutex \in Txn \cup {None} /\ num_calls \in 0..RefreshAfter
    /\ stats \in [Name -> Stat \cup {None}]

LocksExclude ==
    /\ held \in [Txn -> [Name -> Lock!Mode]]
    /\ \A t, u \in Txn, n \in Name : held[t][n] = "exclusive" /\ u # t => held[u][n] = "none"

(* The fields of a table are written after its name, and read after it. *)
InPlace(t) ==
    /\ op[t] = "none" => \A n \in Name : held[t][n] = "none"
    /\ op[t] \in {"create", "query", "insert"} => name[t] \in UserTable
    /\ op[t] = "create" /\ at[t] = "fcat" => held[t][TableCatalog] = "exclusive"
    /\ op[t] \in {"query", "insert"} /\ at[t] # "tcat" =>
          held[t][TableCatalog] # "none" /\ Listed(name[t])
    /\ held[t][FieldCatalog] = "exclusive" => held[t][TableCatalog] = "exclusive"
    /\ mutex = t => at[t] = "count"
    /\ op[t] \in {"none", "idle", "failed"} => at[t] = "start"
    /\ server # "up" => op[t] = "none"

InPlaces == \A t \in Txn : InPlace(t)

(* A table has its name in the catalog and not its fields; or had them not *)
(* when the transaction failed.                                            *)
Naming(t) == op[t] = "create" /\ at[t] = "fcat"
HalfWay(t) == held[t][TableCatalog] = "exclusive" /\ (op[t] = "failed" \/ Naming(t))

CatalogIsWhole ==
    /\ (\A t \in Txn : ~HalfWay(t)) => Shape(tcat, fcat)
    /\ \A t \in Txn : Naming(t) =>
          \E tc \in Seq(Name) : tcat = Append(tc, name[t]) /\ Shape(tc, fcat)
    /\ server \in {"starting", "up"} =>
          \A i \in DOMAIN System : OnceIn(tcat, System[i]) /\ Group(fcat, System[i])

CommittedIsWhole ==
    /\ Shape(committed.tcat, committed.fcat)
    /\ \A i \in DOMAIN System, j \in DOMAIN committed.tcat :
          committed.tcat[j] = System[i] => OnceIn(committed.tcat, System[i])
    /\ server = "up" => \A i \in DOMAIN System : OnceIn(committed.tcat, System[i])
    /\ server \in {"down", "failed"} => tcat = committed.tcat /\ fcat = committed.fcat

(* Who changes a table holds its lock. *)
WritesAreLocked ==
    server = "up" =>
      /\ (\A t \in Txn : held[t][TableCatalog] # "exclusive") => tcat = committed.tcat
      /\ (\A t \in Txn : held[t][FieldCatalog] # "exclusive") => fcat = committed.fcat

AnswersAreRight ==
    \A t \in Txn, n \in Name :
        /\ answer[t][n] # None => held[t][TableCatalog] # "none"
        /\ answer[t][n] = Absent => ~Listed(n)
        /\ answer[t][n] \notin {None, Absent} /\ OnceIn(tcat, n) => answer[t][n] = Fields[n]

StatsAreSound ==
    \A n \in Counted :
        /\ stats[n].age <= num_calls
        /\ \A t \in Txn : stats[n].by = t =>
              /\ held[t][n] # "none"
              /\ held[t][n] # "exclusive" => stats[n].records = Records(n)

CatInv ==
    /\ CatTyped /\ LocksExclude /\ InPlaces /\ CatalogIsWhole /\ CommittedIsWhole
    /\ WritesAreLocked /\ AnswersAreRight /\ StatsAreSound

-----------------------------------------------------------------------------
(* The two tables of the catalog, as sequences *)

LEMMA RowsFacts ==
    ASSUME NEW n \in Name
    PROVE  /\ Fields[n] \in Seq(STRING) /\ Len(Fields[n]) \in Nat \ {0}
           /\ RowsOf(n) \in Seq(Row) /\ Len(RowsOf(n)) = Len(Fields[n])
           /\ \A i \in 1..Len(Fields[n]) :
                 RowsOf(n)[i].table = n /\ RowsOf(n)[i].field = Fields[n][i]
<1>1. Fields[n] \in Seq(STRING) /\ Fields[n] # <<>>  BY CatalogAssumption
<1>2. PICK k \in Nat \ {0} : k = Len(Fields[n])  BY <1>1, EmptySeq
<1>3. DOMAIN Fields[n] = 1..k  BY <1>1, <1>2
<1>4. RowsOf(n) = [i \in 1..k |-> [table |-> n, field |-> Fields[n][i]]]
  BY <1>3 DEF RowsOf
<1>5. \A i \in 1..k : [table |-> n, field |-> Fields[n][i]] \in Row
  <2>1. \A i \in 1..k : Fields[n][i] \in STRING  BY <1>1, <1>2
  <2> QED  BY <2>1 DEF Row
<1>6. RowsOf(n) \in Seq(Row) /\ Len(RowsOf(n)) = k  BY <1>4, <1>5
<1>7. \A i \in 1..k : RowsOf(n)[i].table = n /\ RowsOf(n)[i].field = Fields[n][i]
  BY <1>4
<1> QED  BY <1>1, <1>2, <1>6, <1>7

(* fd is fc and k rows more, those of n; td is tc and the name n more. *)
RowsFollow(fd, fc, l, k, n) ==
    /\ fd \in Seq(Row) /\ Len(fd) = l + k
    /\ \A i \in 1..l : fd[i] = fc[i]
    /\ \A i \in (l + 1)..(l + k) : fd[i] = RowsOf(n)[i - l] /\ fd[i].table = n

NameFollows(td, tc, h, n) ==
    /\ td \in Seq(Name) /\ Len(td) = h + 1 /\ td[h + 1] = n
    /\ \A j \in 1..h : td[j] = tc[j]

LEMMA NameAdded ==
    ASSUME NEW tc \in Seq(Name), NEW n \in Name
    PROVE  NameFollows(Append(tc, n), tc, Len(tc), n)
BY AppendProperties DEF NameFollows

LEMMA RowsAdded ==
    ASSUME NEW fc \in Seq(Row), NEW n \in Name
    PROVE  RowsFollow(fc \o RowsOf(n), fc, Len(fc), Len(Fields[n]), n)
<1>1. RowsOf(n) \in Seq(Row) /\ Len(RowsOf(n)) = Len(Fields[n])  BY RowsFacts
<1>2. PICK r \in Seq(Row) : r = RowsOf(n)  BY <1>1
<1>3. PICK k \in Nat, l \in Nat : k = Len(Fields[n]) /\ k = Len(r) /\ l = Len(fc)
  BY <1>1, <1>2
<1>4. /\ fc \o r \in Seq(Row) /\ Len(fc \o r) = l + k
      /\ \A i \in 1..l : (fc \o r)[i] = fc[i]
      /\ \A i \in (l + 1)..(l + k) : (fc \o r)[i] = r[i - l]
  BY <1>3
<1>5. \A i \in (l + 1)..(l + k) : r[i - l].table = n
  <2>1. \A i \in (l + 1)..(l + k) : i - l \in 1..k  OBVIOUS
  <2> QED  BY <1>2, <1>3, <2>1, RowsFacts
<1> QED  BY <1>2, <1>3, <1>4, <1>5 DEF RowsFollow

LEMMA GroupStays ==
    ASSUME NEW fc \in Seq(Row), NEW m \in Name, NEW n \in Name, m # n, Group(fc, m)
    PROVE  Group(fc \o RowsOf(n), m)
<1>0. PICK fd \in {fc \o RowsOf(n)}, l \in Nat, k \in Nat :
         fd = fc \o RowsOf(n) /\ l = Len(fc) /\ k = Len(Fields[n])
  BY RowsFacts
<1>1. /\ fd \in Seq(Row) /\ Len(fd) = l + k
      /\ \A i \in 1..l : fd[i] = fc[i]
      /\ \A i \in (l + 1)..(l + k) : fd[i].table = n
  BY <1>0, RowsAdded DEF RowsFollow
<1>2. PICK p \in Nat, f \in Nat :
         /\ f = Len(Fields[m]) /\ p + f <= l
         /\ \A i \in 1..l : IF i \in (p + 1)..(p + f) THEN fc[i] = RowsOf(m)[i - p]
                            ELSE fc[i].table # m
  <2>1. Len(Fields[m]) \in Nat  BY RowsFacts
  <2> QED  BY <1>0, <2>1 DEF Group
<1>3. ASSUME NEW i \in 1..(l + k)
      PROVE  IF i \in (p + 1)..(p + f) THEN fd[i] = RowsOf(m)[i - p] ELSE fd[i].table # m
  <2>1. CASE i \in 1..l  BY <1>1, <1>2, <2>1
  <2>2. CASE i \in (l + 1)..(l + k)
    <3>1. i \notin (p + 1)..(p + f)  BY <1>2, <2>2
    <3> QED  BY <1>1, <2>2, <3>1
  <2>3. i \in 1..l \/ i \in (l + 1)..(l + k)  OBVIOUS
  <2> QED  BY <2>1, <2>2, <2>3
<1>4. p + f <= l + k  BY <1>2
<1> QED  BY <1>0, <1>1, <1>2, <1>3, <1>4 DEF Group

LEMMA GroupComes ==
    ASSUME NEW fc \in Seq(Row), NEW n \in Name, \A i \in 1..Len(fc) : fc[i].table # n
    PROVE  Group(fc \o RowsOf(n), n)
<1>0. PICK fd \in {fc \o RowsOf(n)}, l \in Nat, k \in Nat :
         fd = fc \o RowsOf(n) /\ l = Len(fc) /\ k = Len(Fields[n])
  BY RowsFacts
<1>1. /\ Len(fd) = l + k /\ \A i \in 1..l : fd[i] = fc[i]
      /\ \A i \in (l + 1)..(l + k) : fd[i] = RowsOf(n)[i - l]
  BY <1>0, RowsAdded DEF RowsFollow
<1>2. ASSUME NEW i \in 1..(l + k)
      PROVE  IF i \in (l + 1)..(l + k) THEN fd[i] = RowsOf(n)[i - l] ELSE fd[i].table # n
  <2>1. CASE i \in (l + 1)..(l + k)  BY <1>1, <2>1
  <2>2. CASE i \notin (l + 1)..(l + k)
    <3>1. i \in 1..l  BY <2>2
    <3> QED  BY <1>0, <1>1, <2>2, <3>1
  <2> QED  BY <2>1, <2>2
<1> QED  BY <1>0, <1>1, <1>2 DEF Group

LEMMA OnceAppended ==
    ASSUME NEW tc \in Seq(Name), NEW n \in Name, NEW m \in Name
    PROVE  /\ m # n => (OnceIn(Append(tc, n), m) <=> OnceIn(tc, m))
           /\ OnceIn(Append(tc, n), n) <=> \A j \in 1..Len(tc) : tc[j] # n
<1>0. PICK td \in {Append(tc, n)}, l \in Nat : td = Append(tc, n) /\ l = Len(tc)  OBVIOUS
<1>1. Len(td) = l + 1 /\ td[l + 1] = n /\ \A j \in 1..l : td[j] = tc[j]
  BY <1>0, NameAdded DEF NameFollows
<1>2. \A j \in 1..(l + 1) : j \in 1..l \/ j = l + 1  OBVIOUS
<1>3. 1..l \subseteq 1..(l + 1) /\ l + 1 \in 1..(l + 1) /\ l + 1 \notin 1..l  OBVIOUS
<1>4. ASSUME m # n PROVE OnceIn(td, m) <=> OnceIn(tc, m)
  BY <1>0, <1>1, <1>2, <1>3, <1>4 DEF OnceIn
<1>5. OnceIn(td, n) <=> \A j \in 1..Len(tc) : tc[j] # n
  BY <1>0, <1>1, <1>2, <1>3 DEF OnceIn
<1> QED  BY <1>0, <1>4, <1>5

(* CreateTable, as a whole. *)
LEMMA ShapeGrows ==
    ASSUME NEW tc \in Seq(Name), NEW fc \in Seq(Row), NEW n \in Name, Shape(tc, fc)
    PROVE  Shape(Append(tc, n), fc \o RowsOf(n))
<1>0. PICK fd \in {fc \o RowsOf(n)}, l \in Nat, k \in Nat \ {0}, td \in {Append(tc, n)}, h \in Nat :
         /\ fd = fc \o RowsOf(n) /\ l = Len(fc) /\ k = Len(Fields[n])
         /\ td = Append(tc, n) /\ h = Len(tc)
  BY RowsFacts
<1>1. /\ l = Len(fc) /\ Len(fd) = l + k /\ \A i \in 1..l : fd[i] = fc[i]
      /\ \A i \in (l + 1)..(l + k) : fd[i].table = n
  BY <1>0, RowsAdded DEF RowsFollow
<1>2. /\ h = Len(tc) /\ Len(td) = h + 1 /\ td[h + 1] = n
      /\ \A j \in 1..h : td[j] = tc[j]
  BY <1>0, NameAdded DEF NameFollows
<1>3. ASSUME NEW i \in 1..Len(fd) PROVE \E j \in 1..Len(td) : fd[i].table = td[j]
  <2>1. CASE i \in 1..l
    <3>1. PICK j \in 1..h : fc[i].table = tc[j]  BY <1>1, <1>2, <2>1 DEF Shape
    <3>2. j \in 1..(h + 1)  OBVIOUS
    <3> QED  BY <1>1, <1>2, <2>1, <3>1, <3>2
  <2>2. CASE i \in (l + 1)..(l + k)
    <3>1. h + 1 \in 1..(h + 1)  OBVIOUS
    <3> QED  BY <1>1, <1>2, <2>2, <3>1
  <2>3. i \in 1..l \/ i \in (l + 1)..(l + k)  BY <1>1
  <2> QED  BY <2>1, <2>2, <2>3
<1>4. ASSUME NEW j \in 1..Len(td) PROVE \E i \in 1..Len(fd) : fd[i].table = td[j]
  <2>1. CASE j \in 1..h
    <3>1. PICK i \in 1..l : fc[i].table = tc[j]  BY <1>1, <1>2, <2>1 DEF Shape
    <3>2. i \in 1..(l + k)  OBVIOUS
    <3> QED  BY <1>1, <1>2, <2>1, <3>1, <3>2
  <2>2. CASE j = h + 1
    <3>1. l + 1 \in 1..(l + k) /\ l + 1 \in (l + 1)..(l + k)  OBVIOUS
    <3> QED  BY <1>1, <1>2, <2>2, <3>1
  <2>3. j \in 1..h \/ j = h + 1  BY <1>2
  <2> QED  BY <2>1, <2>2, <2>3
<1>5. ASSUME NEW m \in Name, OnceIn(td, m) PROVE Group(fd, m)
  <2>1. CASE m = n
    <3>1. \A j \in 1..Len(tc) : tc[j] # n  BY <1>0, <1>5, <2>1, OnceAppended
    <3>2. \A i \in 1..Len(fc) : fc[i].table # n  BY <3>1 DEF Shape
    <3> QED  BY <1>0, <2>1, <3>2, GroupComes
  <2>2. CASE m # n
    <3>1. Group(fc, m)  BY <1>0, <1>5, <2>2, OnceAppended DEF Shape
    <3> QED  BY <1>0, <2>2, <3>1, GroupStays
  <2> QED  BY <2>1, <2>2
<1> QED  BY <1>0, <1>3, <1>4, <1>5 DEF Shape

(* GetLayout: where the rows of the table begin, and where they end.       *)
Begin(n) == Min({i \in 1..Len(fcat) : fcat[i].table = n})
Others(n) == {i \in Begin(n)..Len(fcat) : fcat[i].table # n}
Final(n) == IF Others(n) = {} THEN Len(fcat) ELSE Min(Others(n)) - 1

LEMMA LayoutIs ==
    ASSUME NEW n, NEW j \in 1..Len(fcat), fcat[j].table = n
    PROVE  LayoutOf(n) = [i \in 1..(Final(n) - Begin(n) + 1) |-> fcat[Begin(n) + i - 1].field]
<1>1. PICK first : first = SelectInSeq(fcat, LAMBDA r : r.table = n)  OBVIOUS
<1>2. {i \in 1..Len(fcat) : fcat[i].table = n} # {}  OBVIOUS
<1>3. first = Begin(n)  BY <1>1, <1>2 DEF SelectInSeq, Begin
<1>4. LayoutOf(n) = LET after == {i \in first..Len(fcat) : fcat[i].table # n}
                        last == IF after = {} THEN Len(fcat) ELSE Min(after) - 1
                    IN [i \in 1..(last - first + 1) |-> fcat[first + i - 1].field]
  BY <1>1 DEF LayoutOf
<1> QED  BY <1>3, <1>4 DEF Others, Final

LEMMA LayoutTyped ==
    ASSUME fcat \in Seq(Row), NEW n, NEW j \in 1..Len(fcat), fcat[j].table = n
    PROVE  LayoutOf(n) \in Seq(STRING) /\ LayoutOf(n) # <<>>
<1>1. PICK l \in Nat : l = Len(fcat)  OBVIOUS
<1>2. PICK I : I = {i \in 1..l : fcat[i].table = n}  OBVIOUS
<1>3. PICK b \in 1..l : b = Begin(n) /\ fcat[b].table = n
  <2>1. I \subseteq 0..l /\ I # {}  BY <1>1, <1>2
  <2>2. Min(I) \in I  BY <2>1, FirstPosition
  <2> QED  BY <1>1, <1>2, <2>2 DEF Begin
<1>4. PICK e \in b..l : e = Final(n)
  <2>1. CASE Others(n) = {}  BY <1>1, <1>3, <2>1 DEF Final
  <2>2. CASE Others(n) # {}
    <3>1. PICK O : O = {i \in b..l : fcat[i].table # n}  OBVIOUS
    <3>2. O = Others(n)  BY <1>1, <1>3, <3>1 DEF Others
    <3>3. O \subseteq 0..l /\ O # {}  BY <2>2, <3>1, <3>2
    <3>4. Min(O) \in O  BY <3>3, FirstPosition
    <3>5. Min(O) \in b..l /\ Min(O) # b  BY <1>3, <3>1, <3>4
    <3>6. Min(O) - 1 \in b..l  BY <3>5
    <3> QED  BY <2>2, <3>2, <3>6 DEF Final
  <2> QED  BY <2>1, <2>2
<1>5. LayoutOf(n) = [i \in 1..(e - b + 1) |-> fcat[b + i - 1].field]
  BY <1>3, <1>4, LayoutIs
<1>6. \A i \in 1..(e - b + 1) : fcat[b + i - 1].field \in STRING
  <2>1. \A i \in 1..(e - b + 1) : b + i - 1 \in 1..l  OBVIOUS
  <2>2. \A i \in 1..l : fcat[i] \in Row  BY <1>1
  <2>3. \A r \in Row : r.field \in STRING  BY DEF Row
  <2> QED  BY <2>1, <2>2, <2>3
<1>7. e - b + 1 \in Nat /\ e - b + 1 # 0  OBVIOUS
<1>8. PICK k \in Nat \ {0} : k = e - b + 1  BY <1>7
<1>9. LayoutOf(n) \in Seq(STRING) /\ Len(LayoutOf(n)) = k  BY <1>5, <1>6, <1>8
<1> QED  BY <1>8, <1>9

LEMMA LayoutOfGroup ==
    ASSUME fcat \in Seq(Row), NEW n \in Name, Group(fcat, n)
    PROVE  LayoutOf(n) = Fields[n]
<1>1. PICK l \in Nat, f \in Nat \ {0} : l = Len(fcat) /\ f = Len(Fields[n])  BY RowsFacts
<1>2. PICK p \in Nat :
         /\ p + f <= l
         /\ \A i \in 1..l : IF i \in (p + 1)..(p + f) THEN fcat[i] = RowsOf(n)[i - p]
                            ELSE fcat[i].table # n
  BY <1>1 DEF Group
<1>3. \A i \in (p + 1)..(p + f) : /\ i \in 1..l /\ fcat[i].table = n
                                  /\ fcat[i].field = Fields[n][i - p]
  <2> SUFFICES ASSUME NEW i \in (p + 1)..(p + f)
               PROVE  i \in 1..l /\ fcat[i].table = n /\ fcat[i].field = Fields[n][i - p]
    OBVIOUS
  <2>1. i \in 1..l /\ i - p \in 1..f  BY <1>2
  <2>2. fcat[i] = RowsOf(n)[i - p]  BY <1>2, <2>1
  <2> QED  BY <1>1, <2>1, <2>2, RowsFacts
<1>4. \A i \in 1..l : fcat[i].table = n <=> i \in (p + 1)..(p + f)  BY <1>2, <1>3
<1>5. Begin(n) = p + 1
  <2>1. PICK I : I = {i \in 1..l : fcat[i].table = n}  OBVIOUS
  <2>2. p + 1 \in I /\ I \subseteq 0..l
    <3>1. p + 1 \in (p + 1)..(p + f)  OBVIOUS
    <3> QED  BY <1>3, <2>1, <3>1
  <2>3. Min(I) \in I /\ \A i \in I : Min(I) <= i  BY <2>2, FirstPosition
  <2>4. \A i \in I : i \in (p + 1)..(p + f)  BY <1>4, <2>1
  <2>5. Min(I) \in (p + 1)..(p + f) /\ Min(I) <= p + 1  BY <2>2, <2>3, <2>4
  <2>6. Min(I) = p + 1  BY <2>5
  <2> QED  BY <1>1, <2>1, <2>6 DEF Begin
<1>6. PICK O : O = Others(n)  OBVIOUS
<1>7. O = (p + f + 1)..l
  <2>1. O = {i \in (p + 1)..l : fcat[i].table # n}  BY <1>1, <1>5, <1>6 DEF Others
  <2>2. \A i \in (p + 1)..l : i \in 1..l /\ (i \notin (p + 1)..(p + f) <=> i \in (p + f + 1)..l)
    OBVIOUS
  <2>3. (p + f + 1)..l \subseteq (p + 1)..l  OBVIOUS
  <2> QED  BY <1>4, <2>1, <2>2, <2>3
<1>8. Final(n) = p + f
  <2>1. CASE O = {}
    <3>1. l = p + f
      <4> SUFFICES ASSUME l # p + f PROVE FALSE  OBVIOUS
      <4>1. p + f + 1 \in (p + f + 1)..l  BY <1>2
      <4> QED  BY <1>7, <2>1, <4>1
    <3> QED  BY <1>1, <1>6, <2>1, <3>1 DEF Final
  <2>2. CASE O # {}
    <3>1. PICK x \in O : TRUE  BY <2>2
    <3>2. x \in (p + f + 1)..l  BY <1>7, <3>1
    <3>3. p + f + 1 \in (p + f + 1)..l  BY <3>2
    <3>4. p + f + 1 \in O /\ O \subseteq 0..l  BY <1>7, <3>3
    <3>5. Min(O) \in O /\ \A i \in O : Min(O) <= i  BY <3>4, FirstPosition
    <3>6. Min(O) \in (p + f + 1)..l /\ Min(O) <= p + f + 1  BY <1>7, <3>4, <3>5
    <3>7. Min(O) - 1 = p + f  BY <3>6
    <3> QED  BY <1>6, <2>2, <3>7 DEF Final
  <2> QED  BY <2>1, <2>2
<1>9. LayoutOf(n) = [i \in 1..f |-> fcat[p + i].field]
  <2>1. p + 1 \in 1..Len(fcat) /\ fcat[p + 1].table = n
    <3>1. p + 1 \in (p + 1)..(p + f)  OBVIOUS
    <3> QED  BY <1>1, <1>3, <3>1
  <2>2. PICK b, e : b = Begin(n) /\ e = Final(n)  OBVIOUS
  <2>3. LayoutOf(n) = [i \in 1..(e - b + 1) |-> fcat[b + i - 1].field]  BY <2>1, <2>2, LayoutIs
  <2>4. b = p + 1 /\ e = p + f  BY <1>5, <1>8, <2>2
  <2>5. e - b + 1 = f /\ \A i \in 1..f : b + i - 1 = p + i  BY <2>4
  <2> QED  BY <2>3, <2>5
<1>10. \A i \in 1..f : fcat[p + i].field = Fields[n][i]
  <2>1. \A i \in 1..f : p + i \in (p + 1)..(p + f) /\ p + i - p = i  OBVIOUS
  <2> QED  BY <1>3, <2>1
<1>11. Fields[n] = [i \in 1..f |-> Fields[n][i]]  BY <1>1, RowsFacts
<1> QED  BY <1>9, <1>10, <1>11

LEMMA OnceIs == \A n \in Name : tcat \in Seq(Name) => (Once(n) <=> OnceIn(tcat, n))
<1> SUFFICES ASSUME NEW n \in Name, tcat \in Seq(Name) PROVE Once(n) <=> OnceIn(tcat, n)
  OBVIOUS
<1>0. PICK l \in Nat : l = Len(tcat)  OBVIOUS
<1>1. PICK I : l = Len(tcat) /\ I = {i \in 1..l : tcat[i] = n}  BY <1>0
<1>2. Once(n) <=> Cardinality(I) = 1
  <2>1. DOMAIN tcat = 1..l  BY <1>0
  <2> QED  BY <1>1, <2>1 DEF Once
<1>3. IsFiniteSet(I)
  <2>1. I \subseteq 0..l  BY <1>1
  <2> QED  BY <2>1, PositionsFinite
<1>4. Cardinality(I) = 1 <=> \E x : I = {x}  BY <1>3, FS_Singleton
<1>5. (\E x : I = {x}) <=> OnceIn(tcat, n)
  <2>1. ASSUME NEW x, I = {x} PROVE OnceIn(tcat, n)
    <3>1. x \in I /\ \A j \in I : j = x  BY <2>1
    <3> QED  BY <1>1, <3>1 DEF OnceIn
  <2>2. ASSUME OnceIn(tcat, n) PROVE \E x : I = {x}
    <3>1. PICK i \in 1..l : tcat[i] = n /\ \A j \in 1..l : tcat[j] = n => j = i
      BY <1>1, <2>2 DEF OnceIn
    <3>2. I = {i}  BY <1>1, <3>1
    <3> QED  BY <3>2
  <2> QED  BY <2>1, <2>2
<1> QED  BY <1>2, <1>4, <1>5

(* The catalog of a new server. *)
LEMMA SystemRows ==
    LET fc == FlattenSeq([i \in DOMAIN System |-> RowsOf(System[i])])
    IN  /\ System \in Seq(Name) /\ DOMAIN System = 1..2
        /\ fc \in Seq(Row) /\ Shape(System, fc)
        /\ \A i \in 1..2 : OnceIn(System, System[i])
<1> DEFINE R == [i \in DOMAIN System |-> RowsOf(System[i])]
<1>1. /\ System[1] = TableCatalog /\ System[2] = FieldCatalog /\ DOMAIN System = 1..2
      /\ Len(System) = 2 /\ TableCatalog # FieldCatalog
  BY DEF System, TableCatalog, FieldCatalog
<1>2. PICK t \in Name, f \in Name : t = TableCatalog /\ f = FieldCatalog
  <2>1. System[1] \in ToSet(System) /\ System[2] \in ToSet(System)  BY <1>1 DEF ToSet
  <2> QED  BY <1>1, <2>1 DEF Name
<1>3. System = Append(Append(<<>>, t), f) /\ System \in Seq(Name)
  BY <1>2 DEF System, TableCatalog, FieldCatalog
<1>4. PICK r1 \in Seq(Row), r2 \in Seq(Row) : r1 = RowsOf(t) /\ r2 = RowsOf(f)
  BY RowsFacts
<1>5. FlattenSeq(R) = r1 \o r2
  <2>1. Len(R) = 2 /\ R[1] = r1 /\ R[2] = r2
    BY <1>1, <1>2, <1>4
  <2> HIDE DEF R
  <2> DEFINE G(h) == [i \in 1..2 |-> IF i = 1 THEN R[i] ELSE h[i - 1] \o R[i]]
             chosen == CHOOSE h : h = G(h)
  <2>2. FlattenSeq(R) = chosen[2]  BY <2>1 DEF FlattenSeq
  <2>3. PICK g : g = [i \in 1..2 |-> IF i = 1 THEN r1 ELSE r1 \o r2]  OBVIOUS
  <2>4. g[1] = r1 /\ g[2] = r1 \o r2  BY <2>3
  <2>5. g = G(g)
    <3>1. \A i \in 1..2 : i = 1 \/ (i = 2 /\ i - 1 = 1)  OBVIOUS
    <3>2. \A i \in 1..2 : g[i] = IF i = 1 THEN R[i] ELSE g[i - 1] \o R[i]
      BY <2>1, <2>4, <3>1
    <3>3. g = [i \in 1..2 |-> g[i]]  BY <2>3
    <3> QED  BY <3>2, <3>3
  <2>6. chosen = G(chosen)
    <3> HIDE DEF G
    <3> QED  BY <2>5
  <2>7. chosen[1] = R[1] /\ chosen[2] = chosen[1] \o R[2]
    <3> HIDE DEF chosen
    <3>1. chosen = [i \in 1..2 |-> IF i = 1 THEN R[i] ELSE chosen[i - 1] \o R[i]]  BY <2>6
    <3>2. 1 \in 1..2 /\ 2 \in 1..2 /\ 2 - 1 = 1 /\ 2 # 1  OBVIOUS
    <3> QED  BY <3>1, <3>2
  <2> HIDE DEF chosen
  <2> QED  BY <2>1, <2>2, <2>7
<1>6. Shape(<<>>, <<>>)
  <2>1. 1..Len(<<>>) = {}  OBVIOUS
  <2> QED  BY <2>1 DEF Shape, OnceIn
<1>7. Shape(Append(<<>>, t), <<>> \o r1)
  <2>1. <<>> \in Seq(Name) /\ <<>> \in Seq(Row)  OBVIOUS
  <2> QED  BY <1>4, <1>6, <2>1, ShapeGrows
<1>8. <<>> \o r1 = r1 /\ r1 \o r2 \in Seq(Row)  OBVIOUS
<1>9. Shape(System, r1 \o r2)
  <2>1. PICK tc \in Seq(Name) : tc = Append(<<>>, t)
    <3>1. <<>> \in Seq(Name)  OBVIOUS
    <3>2. Append(<<>>, t) \in Seq(Name)  BY <3>1, AppendProperties
    <3> QED  BY <3>2
  <2>2. Shape(tc, r1)  BY <1>7, <1>8, <2>1
  <2>3. Shape(Append(tc, f), r1 \o r2)  BY <1>4, <2>2, ShapeGrows
  <2> QED  BY <1>3, <2>1, <2>3
<1>10. \A i \in 1..2 : OnceIn(System, System[i])
  <2>1. \A j \in 1..2 : j = 1 \/ j = 2  OBVIOUS
  <2> QED  BY <1>1, <2>1 DEF OnceIn
<1> HIDE DEF R
<1> QED  BY <1>1, <1>3, <1>5, <1>8, <1>9, <1>10 DEF R

-----------------------------------------------------------------------------
(* Facts about names, locks and places *)

LEMMA Names ==
    /\ TableCatalog \in Name /\ FieldCatalog \in Name /\ TableCatalog # FieldCatalog
    /\ TableCatalog \notin UserTable /\ FieldCatalog \notin UserTable /\ UserTable \subseteq Name
    /\ DOMAIN System = 1..2
    /\ \A i \in DOMAIN System : System[i] \in Name /\ System[i] \notin UserTable
<1>1. /\ System[1] = TableCatalog /\ System[2] = FieldCatalog /\ DOMAIN System = 1..2
      /\ TableCatalog # FieldCatalog
  BY DEF System, TableCatalog, FieldCatalog
<1>2. \A i \in DOMAIN System : System[i] \in ToSet(System)  BY DEF ToSet
<1>3. ToSet(System) \cap UserTable = {}  BY CatalogAssumption
<1>4. TableCatalog \in ToSet(System) /\ FieldCatalog \in ToSet(System)  BY <1>1, <1>2
<1> QED  BY <1>1, <1>2, <1>3, <1>4 DEF Name

LEMMA ListedIs == \A n : tcat \in Seq(Name) => (Listed(n) <=> \E j \in 1..Len(tcat) : tcat[j] = n)
<1> SUFFICES ASSUME NEW n, tcat \in Seq(Name)
             PROVE  Listed(n) <=> \E j \in 1..Len(tcat) : tcat[j] = n
  OBVIOUS
<1>1. DOMAIN tcat = 1..Len(tcat)  OBVIOUS
<1> QED  BY <1>1 DEF Listed, ToSet

(* What a lock does: others keep theirs, and t may gain the one for n.     *)
Gains(t, n) ==
    /\ LocksExclude' /\ held'[t][n] # "none"
    /\ \A u \in Txn, m \in Name : u # t \/ m # n => held'[u][m] = held[u][m]

LEMMA SharedLockGains ==
    ASSUME LocksExclude, NEW t \in Txn, NEW n \in Name, SharedLock(t, n)
    PROVE  Gains(t, n) /\ (held'[t][n] = "exclusive" <=> held[t][n] = "exclusive")
<1>1. CASE held[t][n] # "none"
  <2>1. held' = held  BY <1>1 DEF SharedLock
  <2> QED  BY <1>1, <2>1 DEF LocksExclude, Gains
<1>2. CASE held[t][n] = "none"
  <2>1. /\ held' = [held EXCEPT ![t][n] = "shared"]
        /\ \A u \in Txn \ {t} : held[u][n] # "exclusive"
    BY <1>2 DEF SharedLock, Lock!Share, Lock!NoOther
  <2>2. held' \in [Txn -> [Name -> Lock!Mode]]  BY <2>1 DEF LocksExclude, Lock!Mode
  <2>3. /\ held'[t][n] = "shared"
        /\ \A u \in Txn, m \in Name : u # t \/ m # n => held'[u][m] = held[u][m]
    BY <2>1 DEF LocksExclude
  <2> QED  BY <1>2, <2>1, <2>2, <2>3 DEF LocksExclude, Gains
<1> QED  BY <1>1, <1>2

LEMMA ExclusiveLockGains ==
    ASSUME LocksExclude, NEW t \in Txn, NEW n \in Name, ExclusiveLock(t, n)
    PROVE  /\ Gains(t, n) /\ held'[t][n] = "exclusive"
           /\ \A u \in Txn : u # t => held[u][n] = "none"
<1>1. CASE held[t][n] = "exclusive"
  <2>1. held' = held  BY <1>1 DEF ExclusiveLock
  <2> QED  BY <1>1, <2>1 DEF LocksExclude, Gains
<1>2. CASE held[t][n] # "exclusive"
  <2>1. /\ held' = [held EXCEPT ![t][n] = "exclusive"]
        /\ \A u \in Txn \ {t} : held[u][n] \notin {"shared", "exclusive"}
    BY <1>2 DEF ExclusiveLock, Lock!Upgrade, Lock!NoOther
  <2>2. held' \in [Txn -> [Name -> Lock!Mode]]  BY <2>1 DEF LocksExclude, Lock!Mode
  <2>3. /\ held'[t][n] = "exclusive"
        /\ \A u \in Txn, m \in Name : u # t \/ m # n => held'[u][m] = held[u][m]
    BY <2>1 DEF LocksExclude
  <2>4. \A u \in Txn : u # t => held[u][n] = "none"
    BY <2>1 DEF LocksExclude, Lock!Mode
  <2> QED  BY <2>1, <2>2, <2>3, <2>4 DEF LocksExclude, Gains
<1> QED  BY <1>1, <1>2

(* What a step of t does to its place in a call. *)
Moved(t, o, a, n) ==
    /\ op' \in [Txn -> Ops] /\ at' \in [Txn -> Places] /\ name' \in [Txn -> Name \cup {None}]
    /\ op'[t] = o /\ at'[t] = a /\ name'[t] = n
    /\ \A u \in Txn : u # t => op'[u] = op[u] /\ at'[u] = at[u] /\ name'[u] = name[u]

LEMMA GotoMoves ==
    ASSUME CatTyped, NEW t \in Txn, NEW a \in Places, Goto(t, a)
    PROVE  Moved(t, op[t], a, name[t])
BY DEF CatTyped, Goto, Moved

LEMMA ReturnMoves ==
    ASSUME CatTyped, NEW t \in Txn, NEW o \in Ops, Return(t, o)
    PROVE  Moved(t, o, "start", None)
BY DEF CatTyped, Return, Moved, Places

LEMMA StayMoves ==
    ASSUME CatTyped, NEW t \in Txn, UNCHANGED <<op, at, name>>
    PROVE  Moved(t, op[t], at[t], name[t])
BY DEF CatTyped, Moved

-----------------------------------------------------------------------------
(* Steps that leave the catalog alone: a lock may be gained, but none that  *)
(* lets a transaction change the catalog.                                   *)

Keeps(t) ==
    /\ LocksExclude'
    /\ \A u \in Txn, m \in Name : u # t => held'[u][m] = held[u][m]
    /\ \A m \in Name : held[t][m] # "none" => held'[t][m] # "none"
    /\ \A m \in Name : held[t][m] = "exclusive" => held'[t][m] = "exclusive"
    /\ \A m \in {TableCatalog, FieldCatalog} :
          held'[t][m] = "exclusive" => held[t][m] = "exclusive"

Calm(t) ==
    /\ UNCHANGED <<server, tcat, fcat, committed>>
    /\ Keeps(t) /\ Moved(t, op'[t], at'[t], name'[t])
    /\ HalfWay(t) => HalfWay(t)'
    /\ Naming(t)' => Naming(t) /\ name'[t] = name[t]
    /\ mutex' \in {mutex, t, None}

LEMMA CalmKeeps ==
    ASSUME CatInv, NEW t \in Txn, Calm(t)
    PROVE  /\ LocksExclude' /\ CatalogIsWhole' /\ CommittedIsWhole' /\ WritesAreLocked'
           /\ \A u \in Txn : u # t => InPlace(u)'
<1>1. /\ server' = server /\ tcat' = tcat /\ fcat' = fcat /\ committed' = committed
      /\ mutex' \in {mutex, t, None} /\ LocksExclude'
      /\ \A u \in Txn, m \in Name : u # t => held'[u][m] = held[u][m]
      /\ \A u \in Txn : u # t => op'[u] = op[u] /\ at'[u] = at[u] /\ name'[u] = name[u]
  BY DEF Calm, Keeps, Moved
<1>2. TableCatalog \in Name /\ FieldCatalog \in Name  BY Names
<1>3. \A u \in Txn, m \in {TableCatalog, FieldCatalog} :
         held'[u][m] = "exclusive" <=> held[u][m] = "exclusive"
  BY <1>2 DEF Calm, Keeps
<1>4. \A u \in Txn : HalfWay(u) => HalfWay(u)'
  BY <1>1, <1>2 DEF Calm, HalfWay, Naming
<1>5. \A u \in Txn : Naming(u)' => Naming(u) /\ name'[u] = name[u]
  BY <1>1 DEF Calm, Naming
<1>6. CatalogIsWhole'
  <2>1. (\A u \in Txn : ~HalfWay(u)') => Shape(tcat', fcat')
    BY <1>1, <1>4 DEF CatInv, CatalogIsWhole
  <2>2. \A u \in Txn : Naming(u)' =>
           \E tc \in Seq(Name) : tcat' = Append(tc, name'[u]) /\ Shape(tc, fcat')
    BY <1>1, <1>5 DEF CatInv, CatalogIsWhole
  <2>3. server' \in {"starting", "up"} =>
           \A i \in DOMAIN System : OnceIn(tcat', System[i]) /\ Group(fcat', System[i])
    BY <1>1 DEF CatInv, CatalogIsWhole
  <2> QED  BY <2>1, <2>2, <2>3 DEF CatalogIsWhole
<1>7. CommittedIsWhole'  BY <1>1 DEF CatInv, CommittedIsWhole
<1>8. WritesAreLocked'  BY <1>1, <1>3 DEF CatInv, WritesAreLocked
<1>9. ASSUME NEW u \in Txn, u # t PROVE InPlace(u)'
  <2>1. InPlace(u)  BY DEF CatInv, InPlaces
  <2>2. Listed(name[u])' <=> Listed(name[u])  BY <1>1, <1>9 DEF Listed
  <2>3. mutex' = u => mutex = u  BY <1>1, <1>9, CatalogAssumption
  <2> QED  BY <1>1, <1>2, <1>9, <2>1, <2>2, <2>3 DEF InPlace, Listed
<1> QED  BY <1>1, <1>6, <1>7, <1>8, <1>9

LEMMA AnswersStay ==
    ASSUME CatInv, answer' = answer, tcat' = tcat,
           \A u \in Txn, m \in Name : held[u][m] # "none" => held'[u][m] # "none"
    PROVE  AnswersAreRight'
<1>1. TableCatalog \in Name  BY Names
<1>2. \A n : Listed(n)' <=> Listed(n)  BY DEF Listed
<1> QED  BY <1>1, <1>2 DEF CatInv, AnswersAreRight

LEMMA StatsStay ==
    ASSUME CatInv, stats' = stats, num_calls' = num_calls,
           \A u \in Txn, m \in Name : held[u][m] # "none" => held'[u][m] # "none",
           \A u \in Txn, m \in Name : held[u][m] = "exclusive" => held'[u][m] = "exclusive",
           \A u \in Txn, m \in Name : held[u][m] # "none" /\ held'[u][m] # "exclusive"
                                         => Records(m)' = Records(m)
    PROVE  StatsAreSound'
<1> SUFFICES ASSUME NEW n \in Name, stats[n] # None
             PROVE  /\ stats[n].age <= num_calls
                    /\ \A u \in Txn : stats[n].by = u =>
                         /\ held'[u][n] # "none"
                         /\ held'[u][n] # "exclusive" => stats[n].records = Records(n)'
  BY DEF StatsAreSound, Counted
<1>1. n \in Counted  BY DEF Counted
<1>2. /\ stats[n].age <= num_calls
      /\ \A u \in Txn : stats[n].by = u =>
           held[u][n] # "none" /\ (held[u][n] # "exclusive" => stats[n].records = Records(n))
  BY <1>1 DEF CatInv, StatsAreSound
<1> QED  BY <1>2

LEMMA CalmStep ==
    ASSUME CatInv, NEW t \in Txn, Calm(t), CatTyped', InPlace(t)', AnswersAreRight', StatsAreSound'
    PROVE  CatInv'
<1>1. /\ LocksExclude' /\ CatalogIsWhole' /\ CommittedIsWhole' /\ WritesAreLocked'
      /\ \A u \in Txn : u # t => InPlace(u)'
  BY CalmKeeps
<1>2. InPlaces'  BY <1>1 DEF InPlaces
<1> QED  BY <1>1, <1>2 DEF CatInv

LEMMA SharedKeeps ==
    ASSUME CatInv, NEW t \in Txn, NEW n \in Name, SharedLock(t, n)
    PROVE  /\ Keeps(t) /\ held'[t][n] # "none"
           /\ \A u \in Txn, m \in Name : held[u][m] # "none" => held'[u][m] # "none"
           /\ \A u \in Txn, m \in Name : held'[u][m] = "exclusive" <=> held[u][m] = "exclusive"
<1>1. Gains(t, n) /\ (held'[t][n] = "exclusive" <=> held[t][n] = "exclusive")
  BY SharedLockGains DEF CatInv
<1>2. TableCatalog \in Name /\ FieldCatalog \in Name  BY Names
<1> QED  BY <1>1, <1>2 DEF Gains, Keeps

LEMMA HeldKeeps ==
    ASSUME CatInv, NEW t \in Txn, held' = held
    PROVE  /\ Keeps(t)
           /\ \A u \in Txn, m \in Name : held[u][m] # "none" => held'[u][m] # "none"
           /\ \A u \in Txn, m \in Name : held'[u][m] = "exclusive" <=> held[u][m] = "exclusive"
BY DEF CatInv, LocksExclude, Keeps

(* Statistics that stay, in a step that changes no table.                  *)
LEMMA StatsStayCalm ==
    ASSUME CatInv, NEW t \in Txn, Keeps(t), UNCHANGED <<stats, num_calls, data>>
    PROVE  StatsAreSound'
<1>1. \A u \in Txn, m \in Name : /\ held[u][m] # "none" => held'[u][m] # "none"
                                 /\ held[u][m] = "exclusive" => held'[u][m] = "exclusive"
  BY DEF Keeps
<1>2. \A m : Records(m)' = Records(m)  BY DEF Records, data
<1> QED  BY <1>1, <1>2, StatsStay

LEMMA AnswersStayCalm ==
    ASSUME CatInv, NEW t \in Txn, Keeps(t), answer' = answer, tcat' = tcat
    PROVE  AnswersAreRight'
<1>1. \A u \in Txn, m \in Name : held[u][m] # "none" => held'[u][m] # "none"
  BY DEF Keeps
<1> QED  BY <1>1, AnswersStay

-----------------------------------------------------------------------------
(* Every action keeps the invariant *)

LEMMA StutterKeepsCatInv ==
    ASSUME CatInv, UNCHANGED vars
    PROVE  CatInv'
BY DEF CatInv, CatTyped, LocksExclude, InPlaces, InPlace, CatalogIsWhole, Naming, HalfWay,
       CommittedIsWhole, WritesAreLocked, AnswersAreRight, StatsAreSound, Counted, Records,
       Listed, vars, data, statistics, calls

LEMMA StatementKeepsCatInv ==
    ASSUME CatInv, NEW t \in Txn, NEW o \in {"create", "query", "insert"}, NEW n \in UserTable,
           Statement(t, o, n)
    PROVE  CatInv'
<1>1. /\ Moved(t, o, "tcat", n) /\ op[t] \in {"none", "idle"} /\ server = "up"
      /\ UNCHANGED <<server, is_new, tcat, fcat, rows, committed, held, todo, answer,
                     mutex, stats, num_calls>>
  <2>1. n \in Name /\ o \in Ops /\ "tcat" \in Places  BY Names DEF Ops, Places
  <2> QED  BY <2>1 DEF Statement, Moved, CatInv, CatTyped, data, statistics
<1>2. Keeps(t)  BY <1>1, HeldKeeps
<1>3. Calm(t)  BY <1>1, <1>2 DEF Calm, HalfWay, Naming, Moved
<1>4. CatTyped'  BY <1>1 DEF CatInv, CatTyped, Moved
<1>5. InPlace(t)'
  <2>1. InPlace(t)  BY DEF CatInv, InPlaces
  <2> QED  BY <1>1, <2>1 DEF InPlace, Moved
<1>6. AnswersAreRight'  BY <1>1, <1>2, AnswersStayCalm
<1>7. StatsAreSound'  BY <1>1, <1>2, StatsStayCalm DEF data
<1> QED  BY <1>3, <1>4, <1>5, <1>6, <1>7, CalmStep

LEMMA CreateTableSearchesKeepsCatInv ==
    ASSUME CatInv, NEW t \in Txn, CreateTableSearches(t)
    PROVE  CatInv'
<1>0. PICK n \in Name : SharedLock(t, n) /\ op[t] = "create" /\ server = "up"
  <2>1. TableCatalog \in Name /\ FieldCatalog \in Name  BY Names
  <2> QED  BY <2>1 DEF CreateTableSearches, Searches, In, TableCatalog, FieldCatalog
<1>1. /\ Moved(t, op[t], at[t], name[t])
      /\ UNCHANGED <<server, is_new, tcat, fcat, rows, committed, op, at, name, todo, answer,
                     mutex, stats, num_calls>>
  <2>1. UNCHANGED <<server, is_new, tcat, fcat, rows, committed, op, at, name, todo, answer,
                     mutex, stats, num_calls>>
    BY DEF CreateTableSearches, data, calls, statistics
  <2> QED  BY <2>1, StayMoves DEF CatInv
<1>2. /\ Keeps(t)
      /\ \A m \in Name : held[t][m] # "none" => held'[t][m] # "none"
      /\ \A m \in Name : held'[t][m] = "exclusive" <=> held[t][m] = "exclusive"
  BY <1>0, SharedKeeps
<1>3. Calm(t)
  <2>1. TableCatalog \in Name  BY Names
  <2> QED  BY <1>1, <1>2, <2>1 DEF Calm, HalfWay, Naming
<1>4. CatTyped'  BY <1>1 DEF CatInv, CatTyped
<1>5. InPlace(t)'
  <2>1. InPlace(t)  BY DEF CatInv, InPlaces
  <2>2. TableCatalog \in Name /\ FieldCatalog \in Name  BY Names
  <2> QED  BY <1>0, <1>1, <1>2, <2>1, <2>2 DEF InPlace, Listed
<1>6. AnswersAreRight'  BY <1>1, <1>2, AnswersStayCalm
<1>7. StatsAreSound'  BY <1>1, <1>2, StatsStayCalm DEF data
<1> QED  BY <1>3, <1>4, <1>5, <1>6, <1>7, CalmStep

LEMMA GetLayoutFindsTableKeepsCatInv ==
    ASSUME CatInv, NEW t \in Txn, GetLayoutFindsTable(t)
    PROVE  CatInv'
<1>0. /\ TableCatalog \in Name /\ FieldCatalog \in Name /\ InPlace(t)
      /\ op[t] \in {"query", "insert"} /\ at[t] = "tcat" /\ server = "up"
      /\ SharedLock(t, TableCatalog)
      /\ UNCHANGED <<server, is_new, tcat, fcat, rows, committed, todo, mutex, stats, num_calls>>
  BY Names DEF GetLayoutFindsTable, In, CatInv, InPlaces, TableCatalog, data, statistics
<1>1. name[t] \in UserTable /\ name[t] \in Name  BY <1>0, Names DEF InPlace
<1>2. /\ Keeps(t) /\ held'[t][TableCatalog] # "none"
      /\ \A u \in Txn, m \in Name : held[u][m] # "none" => held'[u][m] # "none"
      /\ \A m \in Name : held'[t][m] = "exclusive" <=> held[t][m] = "exclusive"
  BY <1>0, SharedKeeps
<1>3. \/ Listed(name[t]) /\ Goto(t, "fcat") /\ answer' = answer
      \/ /\ ~Listed(name[t]) /\ Return(t, "idle")
         /\ answer' = [answer EXCEPT ![t][name[t]] = Absent]
  BY DEF GetLayoutFindsTable, Told
<1>4. \/ Listed(name[t]) /\ Moved(t, op[t], "fcat", name[t])
      \/ Moved(t, "idle", "start", None)
  <2>1. "fcat" \in Places /\ "idle" \in Ops  BY DEF Places, Ops
  <2> QED  BY <1>3, <2>1, GotoMoves, ReturnMoves DEF CatInv
<1>5. Calm(t)  BY <1>0, <1>2, <1>4 DEF Calm, HalfWay, Naming, Moved
<1>6. answer' \in [Txn -> [Name -> Seq(STRING) \cup {None}]]
  <2>0. Absent \in Seq(STRING)  BY DEF Absent
  <2>1. PICK x \in Seq(STRING) : x = Absent  BY <2>0
  <2>2. answer' = answer \/ answer' = [answer EXCEPT ![t][name[t]] = x]  BY <1>3, <2>1
  <2>3. answer \in [Txn -> [Name -> Seq(STRING) \cup {None}]]  BY DEF CatInv, CatTyped
  <2>4. [answer EXCEPT ![t][name[t]] = x] \in [Txn -> [Name -> Seq(STRING) \cup {None}]]
    BY <1>1, <2>3
  <2> QED  BY <2>2, <2>3, <2>4
<1>7. CatTyped'  BY <1>0, <1>4, <1>6 DEF CatInv, CatTyped, Moved
<1>8. InPlace(t)'
  <2>1. Listed(name[t]) /\ name'[t] = name[t] => Listed(name[t])'  BY <1>0 DEF Listed
  <2>2. CASE Moved(t, "idle", "start", None)
    BY <1>0, <1>2, <2>2 DEF InPlace, Moved
  <2>3. CASE Listed(name[t]) /\ Moved(t, op[t], "fcat", name[t])
    BY <1>0, <1>2, <2>1, <2>3 DEF InPlace, Moved
  <2> QED  BY <1>4, <2>2, <2>3
<1>9. AnswersAreRight'
  <2>1. CASE answer' = answer  BY <1>0, <1>2, <2>1, AnswersStayCalm
  <2>2. CASE ~Listed(name[t]) /\ answer' = [answer EXCEPT ![t][name[t]] = Absent]
    <3>1. /\ answer'[t][name[t]] = Absent
          /\ \A u \in Txn, n \in Name : u # t \/ n # name[t] => answer'[u][n] = answer[u][n]
      BY <1>1, <2>2 DEF CatInv, CatTyped
    <3>2. \A n : Listed(n)' <=> Listed(n)  BY <1>0 DEF Listed
    <3> HIDE DEF Absent
    <3> QED  BY <1>0, <1>2, <2>2, <3>1, <3>2 DEF CatInv, AnswersAreRight
  <2> QED  BY <1>3, <2>1, <2>2
<1>10. StatsAreSound'  BY <1>0, <1>2, StatsStayCalm DEF data
<1> QED  BY <1>5, <1>7, <1>8, <1>9, <1>10, CalmStep

(* Who reads the fields of a table has the lock on table_catalog, so nobody *)
(* is between the two inserts.                                              *)
LEMMA ReaderSeesWhole ==
    ASSUME CatInv, NEW t \in Txn, op[t] \in {"query", "insert"}, at[t] # "tcat"
    PROVE  Shape(tcat, fcat) /\ Listed(name[t]) /\ held[t][TableCatalog] # "none"
<1>1. /\ op[t] \in {"query", "insert"} /\ InPlace(t) /\ TableCatalog \in Name
  BY Names DEF CatInv, InPlaces
<1>2. Listed(name[t]) /\ held[t][TableCatalog] # "none"  BY <1>1 DEF InPlace
<1>3. \A u \in Txn : ~HalfWay(u)
  BY <1>1, <1>2 DEF CatInv, LocksExclude, HalfWay, Naming
<1> QED  BY <1>2, <1>3 DEF CatInv, CatalogIsWhole

LEMMA GetLayoutReadsFieldsKeepsCatInv ==
    ASSUME CatInv, NEW t \in Txn, GetLayoutReadsFields(t)
    PROVE  CatInv'
<1>0. /\ TableCatalog \in Name /\ FieldCatalog \in Name /\ InPlace(t)
      /\ op[t] \in {"query", "insert"} /\ at[t] = "fcat" /\ server = "up"
      /\ SharedLock(t, FieldCatalog) /\ Goto(t, "mutex")
      /\ answer' = [answer EXCEPT ![t][name[t]] = LayoutOf(name[t])]
      /\ UNCHANGED <<server, is_new, tcat, fcat, rows, committed, todo, mutex, stats, num_calls>>
  BY Names DEF GetLayoutReadsFields, In, CatInv, InPlaces, FieldCatalog, Told, data, statistics
<1>1. name[t] \in UserTable /\ name[t] \in Name  BY <1>0, Names DEF InPlace
<1>2. /\ Keeps(t)
      /\ \A u \in Txn, m \in Name : held[u][m] # "none" => held'[u][m] # "none"
      /\ \A m \in Name : held'[t][m] = "exclusive" <=> held[t][m] = "exclusive"
  BY <1>0, SharedKeeps
<1>3. Moved(t, op[t], "mutex", name[t])
  <2>1. "mutex" \in Places  BY DEF Places
  <2> QED  BY <1>0, <2>1, GotoMoves DEF CatInv
<1>4. Shape(tcat, fcat) /\ Listed(name[t]) /\ held[t][TableCatalog] # "none"
  BY <1>0, ReaderSeesWhole
<1>5. tcat \in Seq(Name) /\ fcat \in Seq(Row)  BY DEF CatInv, CatTyped
<1>6. PICK x \in Seq(STRING) : x = LayoutOf(name[t]) /\ x # Absent
  <2>1. PICK j \in 1..Len(tcat) : tcat[j] = name[t]  BY <1>4, <1>5, ListedIs
  <2>2. PICK i \in 1..Len(fcat) : fcat[i].table = name[t]  BY <1>4, <2>1 DEF Shape
  <2> QED  BY <1>5, <2>2, LayoutTyped DEF Absent
<1>7. OnceIn(tcat, name[t]) => x = Fields[name[t]]
  BY <1>1, <1>4, <1>5, <1>6, LayoutOfGroup DEF Shape
<1>8. answer' = [answer EXCEPT ![t][name[t]] = x]  BY <1>0, <1>6
<1>9. Calm(t)  BY <1>0, <1>2, <1>3 DEF Calm, HalfWay, Naming, Moved
<1>10. answer' \in [Txn -> [Name -> Seq(STRING) \cup {None}]]
  BY <1>1, <1>8 DEF CatInv, CatTyped
<1>11. CatTyped'  BY <1>0, <1>3, <1>10 DEF CatInv, CatTyped, Moved
<1>12. InPlace(t)'
  <2>1. Listed(name[t])' <=> Listed(name[t])  BY <1>0, <1>3 DEF Listed, Moved
  <2> QED  BY <1>0, <1>2, <1>3, <1>4, <2>1 DEF InPlace, Moved
<1>13. AnswersAreRight'
  <2>1. /\ answer'[t][name[t]] = x
        /\ \A u \in Txn, n \in Name : u # t \/ n # name[t] => answer'[u][n] = answer[u][n]
    BY <1>1, <1>8 DEF CatInv, CatTyped
  <2>2. \A n : Listed(n)' <=> Listed(n)  BY <1>0 DEF Listed
  <2>3. held'[t][TableCatalog] # "none"  BY <1>0, <1>2, <1>4
  <2> QED  BY <1>0, <1>2, <1>6, <1>7, <2>1, <2>2, <2>3 DEF CatInv, AnswersAreRight
<1>14. StatsAreSound'  BY <1>0, <1>2, StatsStayCalm DEF data
<1> QED  BY <1>9, <1>11, <1>12, <1>13, <1>14, CalmStep

LEMMA GetStatInfoKeepsCatInv ==
    ASSUME CatInv, NEW t \in Txn, GetStatInfo(t)
    PROVE  CatInv'
<1>0. /\ InPlace(t) /\ op[t] \in {"query", "insert"} /\ at[t] = "mutex" /\ server = "up"
      /\ mutex' = t /\ Goto(t, "count")
      /\ UNCHANGED <<server, is_new, tcat, fcat, rows, committed, held, answer>>
  BY DEF GetStatInfo, In, CatInv, InPlaces, data
<1>1. name[t] \in UserTable /\ name[t] \in Name  BY <1>0, Names DEF InPlace
<1>2. /\ Keeps(t)
      /\ \A m \in Name : held'[t][m] = "exclusive" <=> held[t][m] = "exclusive"
  BY <1>0, HeldKeeps
<1>3. Moved(t, op[t], "count", name[t])
  <2>1. "count" \in Places  BY DEF Places
  <2> QED  BY <1>0, <2>1, GotoMoves DEF CatInv
<1>4. PICK k \in Nat : k = num_calls /\ k <= RefreshAfter /\ RefreshAfter \in Nat
  BY CatalogAssumption DEF CatInv, CatTyped
<1>5. \/ num_calls' = 0 /\ stats' = EveryTable(None)
      \/ k + 1 <= RefreshAfter /\ num_calls' = k + 1 /\ stats' = Older(stats)
  BY <1>4 DEF GetStatInfo
<1>6. \E s \in Seq(Name) : todo' = [todo EXCEPT ![t] = s]
  <2>1. <<>> \in Seq(Name) /\ <<name[t]>> \in Seq(Name) /\ tcat \in Seq(Name)
    BY <1>1 DEF CatInv, CatTyped
  <2>2. \/ todo' = [todo EXCEPT ![t] = tcat]
        \/ todo' = [todo EXCEPT ![t] = <<>>]
        \/ todo' = [todo EXCEPT ![t] = <<name[t]>>]
    BY DEF GetStatInfo
  <2> QED  BY <2>1, <2>2
<1>7. todo' \in [Txn -> Seq(Name)]  BY <1>6 DEF CatInv, CatTyped
<1>8. num_calls' \in 0..RefreshAfter  BY <1>4, <1>5
<1>9. ASSUME stats' = Older(stats), NEW n \in Name
      PROVE  /\ stats'[n] \in Stat \cup {None}
             /\ stats[n] = None => stats'[n] = None
             /\ stats[n] # None /\ stats'[n] # None =>
                  /\ stats[n].age \in Nat /\ stats'[n].age = stats[n].age + 1
                  /\ stats'[n].by = stats[n].by /\ stats'[n].records = stats[n].records
  <2>1. stats'[n] = IF stats[n] = None THEN None ELSE [stats[n] EXCEPT !.age = @ + 1]
    BY <1>9 DEF Older
  <2>2. CASE stats[n] = None  BY <2>1, <2>2
  <2>3. CASE stats[n] # None
    <3>1. stats[n] \in Stat  BY <2>3 DEF CatInv, CatTyped
    <3>2. stats'[n] = [stats[n] EXCEPT !.age = stats[n].age + 1]  BY <2>1, <2>3
    <3>3. /\ stats'[n] \in Stat /\ stats[n].age \in Nat /\ stats'[n].age = stats[n].age + 1
          /\ stats'[n].by = stats[n].by /\ stats'[n].records = stats[n].records
      BY <3>1, <3>2 DEF Stat
    <3> QED  BY <2>3, <3>3
  <2> QED  BY <2>2, <2>3
<1>10. stats' \in [Name -> Stat \cup {None}]
  <2>1. CASE stats' = EveryTable(None)  BY <2>1 DEF EveryTable
  <2>2. CASE stats' = Older(stats)
    <3>1. stats' = [n \in Name |-> stats'[n]]  BY <2>2 DEF Older
    <3> QED  BY <1>9, <2>2, <3>1
  <2> QED  BY <1>5, <2>1, <2>2
<1>11. Calm(t)  BY <1>0, <1>2, <1>3 DEF Calm, HalfWay, Naming, Moved
<1>12. CatTyped'  BY <1>0, <1>3, <1>7, <1>8, <1>10 DEF CatInv, CatTyped, Moved
<1>13. InPlace(t)'
  <2>1. Listed(name[t])' <=> Listed(name[t])  BY <1>0, <1>3 DEF Listed, Moved
  <2> QED  BY <1>0, <1>3, <2>1 DEF InPlace, Moved
<1>14. AnswersAreRight'  BY <1>0, <1>2, AnswersStayCalm
<1>15. StatsAreSound'
  <2> SUFFICES ASSUME NEW n \in Name, stats'[n] # None
               PROVE  /\ stats'[n].age <= num_calls'
                      /\ \A u \in Txn : stats'[n].by = u =>
                           /\ held'[u][n] # "none"
                           /\ held'[u][n] # "exclusive" => stats'[n].records = Records(n)'
    BY DEF StatsAreSound, Counted
  <2>1. stats' = Older(stats) /\ num_calls' = k + 1  BY <1>5 DEF EveryTable
  <2>2. /\ stats[n] # None /\ stats[n].age \in Nat /\ stats'[n].age = stats[n].age + 1
        /\ stats'[n].by = stats[n].by /\ stats'[n].records = stats[n].records
    BY <1>9, <2>1
  <2>3. stats[n].age <= k
        /\ \A u \in Txn : stats[n].by = u =>
             /\ held[u][n] # "none"
             /\ held[u][n] # "exclusive" => stats[n].records = Records(n)
    BY <1>4, <2>2 DEF CatInv, StatsAreSound, Counted
  <2>4. Records(n)' = Records(n)  BY <1>0 DEF Records
  <2>5. stats[n].age + 1 <= k + 1  BY <2>2, <2>3
  <2> QED  BY <1>0, <2>1, <2>2, <2>3, <2>4, <2>5
<1> QED  BY <1>11, <1>12, <1>13, <1>14, <1>15, CalmStep

LEMMA RecordsTyped ==
    ASSUME CatTyped, NEW n \in Name
    PROVE  Records(n) \in Nat
<1>1. MaxRows \in Nat /\ rows[n] \in 0..MaxRows  BY CatalogAssumption DEF CatTyped
<1>2. Len(tcat) \in Nat /\ Len(fcat) \in Nat  BY DEF CatTyped
<1>3. rows[n] \in Nat  BY <1>1
<1> QED  BY <1>2, <1>3 DEF Records

LEMMA CalculateTableStatsKeepsCatInv ==
    ASSUME CatInv, NEW t \in Txn, CalculateTableStats(t)
    PROVE  CatInv'
<1>0. /\ InPlace(t) /\ op[t] \in {"query", "insert"} /\ at[t] = "count" /\ server = "up"
      /\ todo[t] # <<>> /\ todo' = [todo EXCEPT ![t] = Tail(@)]
      /\ UNCHANGED <<server, is_new, tcat, fcat, rows, committed, op, at, name, answer,
                     mutex, num_calls>>
  BY DEF CalculateTableStats, In, CatInv, InPlaces, data
<1>1. PICK n \in Name : n = Head(todo[t])
  <2>1. todo[t] \in Seq(Name) /\ todo[t] # <<>>  BY <1>0 DEF CatInv, CatTyped
  <2> QED  BY <2>1, HeadTailProperties
<1>2. PICK r \in Nat : r = Records(n)  BY RecordsTyped DEF CatInv
<1>3. /\ SharedLock(t, n)
      /\ stats' = [stats EXCEPT ![n] = IF @ = None THEN [records |-> r, age |-> 0, by |-> t] ELSE @]
  BY <1>1, <1>2 DEF CalculateTableStats
<1>4. /\ Keeps(t) /\ held'[t][n] # "none"
      /\ \A u \in Txn, m \in Name : held[u][m] # "none" => held'[u][m] # "none"
      /\ \A u \in Txn, m \in Name : held'[u][m] = "exclusive" <=> held[u][m] = "exclusive"
  BY <1>3, SharedKeeps
<1>5. Moved(t, op[t], at[t], name[t])  BY <1>0, StayMoves DEF CatInv
<1>6. Calm(t)
  <2>1. TableCatalog \in Name  BY Names
  <2> QED  BY <1>0, <1>4, <1>5, <2>1 DEF Calm, HalfWay, Naming
<1>7. todo' \in [Txn -> Seq(Name)]
  <2>1. todo[t] \in Seq(Name) /\ todo[t] # <<>>  BY <1>0 DEF CatInv, CatTyped
  <2>2. PICK s \in Seq(Name) : s = Tail(todo[t])  BY <2>1, HeadTailProperties
  <2>3. todo' = [todo EXCEPT ![t] = s]  BY <1>0, <2>2
  <2> QED  BY <2>3 DEF CatInv, CatTyped
<1>8. PICK s \in Stat : s = [records |-> r, age |-> 0, by |-> t]  BY DEF Stat
<1>9. \A m \in Name : IF m = n /\ stats[n] = None THEN stats'[m] = s ELSE stats'[m] = stats[m]
  BY <1>3, <1>8 DEF CatInv, CatTyped
<1>10. stats' \in [Name -> Stat \cup {None}]
  <2>1. stats \in [Name -> Stat \cup {None}]  BY DEF CatInv, CatTyped
  <2>2. CASE stats[n] = None
    <3>1. stats' = [stats EXCEPT ![n] = s]  BY <1>3, <1>8, <2>1, <2>2
    <3> QED  BY <2>1, <3>1
  <2>3. CASE stats[n] # None  BY <1>3, <2>1, <2>3
  <2> QED  BY <2>2, <2>3
<1>11. CatTyped'  BY <1>0, <1>7, <1>10 DEF CatInv, CatTyped
<1>12. InPlace(t)'
  <2>1. Listed(name[t])' <=> Listed(name[t])  BY <1>0 DEF Listed
  <2>2. TableCatalog \in Name /\ FieldCatalog \in Name  BY Names
  <2> QED  BY <1>0, <1>4, <2>1, <2>2 DEF InPlace
<1>13. AnswersAreRight'  BY <1>0, <1>4, AnswersStayCalm
<1>14. StatsAreSound'
  <2> SUFFICES ASSUME NEW m \in Name, stats'[m] # None
               PROVE  /\ stats'[m].age <= num_calls
                      /\ \A u \in Txn : stats'[m].by = u =>
                           /\ held'[u][m] # "none"
                           /\ held'[u][m] # "exclusive" => stats'[m].records = Records(m)
    <3>1. \A m : Records(m)' = Records(m)  BY <1>0 DEF Records
    <3> QED  BY <1>0, <3>1 DEF StatsAreSound, Counted
  <2>1. CASE m = n /\ stats[n] = None
    <3>1. stats'[m] = s /\ s.age = 0 /\ s.by = t /\ s.records = r  BY <1>8, <1>9, <2>1
    <3>2. num_calls \in Nat  BY CatalogAssumption DEF CatInv, CatTyped
    <3>3. 0 <= num_calls  BY <3>2
    <3> QED  BY <1>2, <1>4, <2>1, <3>1, <3>3
  <2>2. CASE ~(m = n /\ stats[n] = None)
    <3>1. stats'[m] = stats[m] /\ stats[m] # None  BY <1>9, <2>2
    <3> QED  BY <1>4, <3>1 DEF CatInv, StatsAreSound, Counted
  <2> QED  BY <2>1, <2>2
<1> QED  BY <1>6, <1>11, <1>12, <1>13, <1>14, CalmStep

LEMMA GetStatInfoReturnsKeepsCatInv ==
    ASSUME CatInv, NEW t \in Txn, GetStatInfoReturns(t)
    PROVE  CatInv'
<1>0. /\ InPlace(t) /\ op[t] \in {"query", "insert"} /\ at[t] = "count" /\ server = "up"
      /\ mutex' = None
      /\ UNCHANGED <<server, is_new, tcat, fcat, rows, committed, held, todo, answer,
                     stats, num_calls>>
  BY DEF GetStatInfoReturns, In, CatInv, InPlaces, data
<1>1. Moved(t, "idle", "start", None) \/ Moved(t, op[t], "row", name[t])
  <2>1. "idle" \in Ops /\ "row" \in Places  BY DEF Ops, Places
  <2>2. Return(t, "idle") \/ Goto(t, "row")  BY DEF GetStatInfoReturns
  <2> QED  BY <2>1, <2>2, GotoMoves, ReturnMoves DEF CatInv
<1>2. Keeps(t)  BY <1>0, HeldKeeps
<1>3. Calm(t)  BY <1>0, <1>1, <1>2 DEF Calm, HalfWay, Naming, Moved
<1>4. CatTyped'  BY <1>0, <1>1 DEF CatInv, CatTyped, Moved
<1>5. InPlace(t)'
  <2>1. Listed(name[t]) /\ name'[t] = name[t] => Listed(name[t])'  BY <1>0 DEF Listed
  <2>2. CASE Moved(t, "idle", "start", None)
    BY <1>0, <2>2, CatalogAssumption DEF InPlace, Moved
  <2>3. CASE Moved(t, op[t], "row", name[t])
    BY <1>0, <2>1, <2>3, CatalogAssumption DEF InPlace, Moved
  <2> QED  BY <1>1, <2>2, <2>3
<1>6. AnswersAreRight'  BY <1>0, <1>2, AnswersStayCalm
<1>7. StatsAreSound'  BY <1>0, <1>2, StatsStayCalm DEF data
<1> QED  BY <1>3, <1>4, <1>5, <1>6, <1>7, CalmStep

LEMMA InsertSearchesKeepsCatInv ==
    ASSUME CatInv, NEW t \in Txn, InsertSearches(t)
    PROVE  CatInv'
<1>0. /\ InPlace(t) /\ op[t] = "insert" /\ at[t] = "row" /\ server = "up"
      /\ SharedLock(t, name[t])
      /\ UNCHANGED <<server, is_new, tcat, fcat, rows, committed, op, at, name, todo, answer,
                     mutex, stats, num_calls>>
  BY DEF InsertSearches, Searches, In, CatInv, InPlaces, data, calls, statistics
<1>1. name[t] \in Name  BY <1>0, Names DEF InPlace
<1>2. /\ Keeps(t)
      /\ \A m \in Name : held[t][m] # "none" => held'[t][m] # "none"
      /\ \A m \in Name : held'[t][m] = "exclusive" <=> held[t][m] = "exclusive"
  BY <1>0, <1>1, SharedKeeps
<1>3. Moved(t, op[t], at[t], name[t])  BY <1>0, StayMoves DEF CatInv
<1>4. Calm(t)  BY <1>0, <1>2, <1>3 DEF Calm, HalfWay, Naming
<1>5. CatTyped'  BY <1>0 DEF CatInv, CatTyped
<1>6. InPlace(t)'
  <2>1. Listed(name[t])' <=> Listed(name[t])  BY <1>0 DEF Listed
  <2>2. TableCatalog \in Name /\ FieldCatalog \in Name  BY Names
  <2> QED  BY <1>0, <1>2, <2>1, <2>2 DEF InPlace
<1>7. AnswersAreRight'  BY <1>0, <1>2, AnswersStayCalm
<1>8. StatsAreSound'  BY <1>0, <1>2, StatsStayCalm DEF data
<1> QED  BY <1>4, <1>5, <1>6, <1>7, <1>8, CalmStep

(* The table it grows is a client's, which nobody else has counted.        *)
LEMMA InsertKeepsCatInv ==
    ASSUME CatInv, NEW t \in Txn, Insert(t)
    PROVE  CatInv'
<1>0. /\ InPlace(t) /\ op[t] = "insert" /\ at[t] = "row" /\ server = "up"
      /\ ExclusiveLock(t, name[t]) /\ rows[name[t]] < MaxRows
      /\ rows' = [rows EXCEPT ![name[t]] = @ + 1] /\ Return(t, "idle")
      /\ UNCHANGED <<server, is_new, tcat, fcat, committed, todo, answer,
                     mutex, stats, num_calls>>
  BY DEF Insert, Inserts, In, CatInv, InPlaces, statistics
<1>1. PICK n \in UserTable : n = name[t] /\ n \in Name  BY <1>0, Names DEF InPlace
<1>2. /\ TableCatalog \in Name /\ FieldCatalog \in Name /\ n # TableCatalog /\ n # FieldCatalog
  BY Names
<1>3. /\ Gains(t, n) /\ held'[t][n] = "exclusive"
      /\ \A u \in Txn : u # t => held[u][n] = "none"
  BY <1>0, <1>1, ExclusiveLockGains DEF CatInv
<1>4. /\ Keeps(t)
      /\ \A u \in Txn, m \in Name : held[u][m] # "none" => held'[u][m] # "none"
      /\ \A u \in Txn, m \in Name : held[u][m] = "exclusive" => held'[u][m] = "exclusive"
      /\ \A m \in {TableCatalog, FieldCatalog} : held'[t][m] = held[t][m]
  BY <1>1, <1>2, <1>3 DEF Gains, Keeps
<1>5. Moved(t, "idle", "start", None)
  <2>1. "idle" \in Ops  BY DEF Ops
  <2> QED  BY <1>0, <2>1, ReturnMoves DEF CatInv
<1>6. Calm(t)  BY <1>0, <1>4, <1>5 DEF Calm, HalfWay, Naming, Moved
<1>7. /\ rows' \in [Name -> 0..MaxRows]
      /\ \A m \in Name : m # n => rows'[m] = rows[m]
  <2>1. rows[n] \in 0..MaxRows /\ MaxRows \in Nat /\ rows[n] < MaxRows
    BY <1>0, <1>1, CatalogAssumption DEF CatInv, CatTyped
  <2>2. PICK k \in 0..MaxRows : k = rows[n] + 1  BY <2>1
  <2>3. rows' = [rows EXCEPT ![n] = k]  BY <1>0, <1>1, <2>2
  <2> QED  BY <1>1, <2>3 DEF CatInv, CatTyped
<1>8. CatTyped'  BY <1>0, <1>5, <1>7 DEF CatInv, CatTyped, Moved
<1>9. InPlace(t)'
  <2>1. mutex # t  BY <1>0 DEF InPlace
  <2> QED  BY <1>0, <1>4, <1>5, <2>1 DEF InPlace, Moved
<1>10. AnswersAreRight'  BY <1>0, <1>4, AnswersStayCalm
<1>11. StatsAreSound'
  <2>1. ASSUME NEW u \in Txn, NEW m \in Name, held[u][m] # "none", held'[u][m] # "exclusive"
        PROVE  Records(m)' = Records(m)
    <3>1. m # n  BY <1>3, <2>1
    <3> QED  BY <1>0, <1>7, <3>1 DEF Records
  <2> QED  BY <1>0, <1>4, <2>1, StatsStay
<1> QED  BY <1>6, <1>8, <1>9, <1>10, <1>11, CalmStep

LEMMA NoRoomKeepsCatInv ==
    ASSUME CatInv, NEW t \in Txn, NoRoom(t)
    PROVE  CatInv'
<1>0. /\ InPlace(t) /\ op[t] = "insert" /\ at[t] = "row" /\ server = "up" /\ Return(t, "idle")
      /\ UNCHANGED <<server, is_new, tcat, fcat, rows, committed, held, todo, answer,
                     mutex, stats, num_calls>>
  BY DEF NoRoom, In, CatInv, InPlaces, data, statistics
<1>1. Keeps(t)  BY <1>0, HeldKeeps
<1>2. Moved(t, "idle", "start", None)
  <2>1. "idle" \in Ops  BY DEF Ops
  <2> QED  BY <1>0, <2>1, ReturnMoves DEF CatInv
<1>3. Calm(t)  BY <1>0, <1>1, <1>2 DEF Calm, HalfWay, Naming, Moved
<1>4. CatTyped'  BY <1>0, <1>2 DEF CatInv, CatTyped, Moved
<1>5. InPlace(t)'  BY <1>0, <1>2 DEF InPlace, Moved
<1>6. AnswersAreRight'  BY <1>0, <1>1, AnswersStayCalm
<1>7. StatsAreSound'  BY <1>0, <1>1, StatsStayCalm DEF data
<1> QED  BY <1>3, <1>4, <1>5, <1>6, <1>7, CalmStep

LEMMA LockAbortKeepsCatInv ==
    ASSUME CatInv, NEW t \in Txn, LockAbort(t)
    PROVE  CatInv'
<1>0. /\ InPlace(t) /\ server = "up" /\ Return(t, "failed")
      /\ todo' = [todo EXCEPT ![t] = <<>>] /\ mutex' = IF mutex = t THEN None ELSE mutex
      /\ UNCHANGED <<server, is_new, tcat, fcat, rows, committed, held, answer, stats, num_calls>>
  BY DEF LockAbort, CatInv, InPlaces, data
<1>1. Keeps(t)  BY <1>0, HeldKeeps
<1>2. Moved(t, "failed", "start", None)
  <2>1. "failed" \in Ops  BY DEF Ops
  <2> QED  BY <1>0, <2>1, ReturnMoves DEF CatInv
<1>3. Calm(t)  BY <1>0, <1>1, <1>2 DEF Calm, HalfWay, Naming, Moved
<1>4. CatTyped'
  <2>1. todo' \in [Txn -> Seq(Name)] /\ mutex' \in Txn \cup {None}
    BY <1>0 DEF CatInv, CatTyped
  <2> QED  BY <1>0, <1>2, <2>1 DEF CatInv, CatTyped, Moved
<1>5. InPlace(t)'
  <2>1. mutex' # t  BY <1>0, CatalogAssumption
  <2> QED  BY <1>0, <1>2, <2>1 DEF InPlace, Moved
<1>6. AnswersAreRight'  BY <1>0, <1>1, AnswersStayCalm
<1>7. StatsAreSound'  BY <1>0, <1>1, StatsStayCalm DEF data
<1> QED  BY <1>3, <1>4, <1>5, <1>6, <1>7, CalmStep

(* CreateTable writes the name under the exclusive lock on table_catalog:  *)
(* nobody else has been told anything, or is between the two inserts.      *)
LEMMA CreateTableRowKeepsCatInv ==
    ASSUME CatInv, NEW t \in Txn, CreateTableRow(t)
    PROVE  CatInv'
<1>0. /\ InPlace(t) /\ op[t] = "create" /\ at[t] = "tcat" /\ server = "up"
      /\ ExclusiveLock(t, TableCatalog) /\ Goto(t, "fcat")
      /\ tcat' = Append(tcat, name[t]) /\ answer' = [answer EXCEPT ![t][name[t]] = None]
      /\ UNCHANGED <<server, is_new, fcat, rows, committed, todo, mutex, stats, num_calls>>
  BY DEF CreateTableRow, Inserts, In, CatInv, InPlaces, TableCatalog, statistics
<1>1. PICK n \in UserTable : n = name[t] /\ n \in Name  BY <1>0, Names DEF InPlace
<1>2. /\ TableCatalog \in Name /\ FieldCatalog \in Name /\ TableCatalog # FieldCatalog
      /\ \A i \in DOMAIN System : System[i] \in Name /\ System[i] # n
  BY Names
<1>3. /\ LocksExclude' /\ held'[t][TableCatalog] = "exclusive"
      /\ \A u \in Txn : u # t => held[u][TableCatalog] = "none" /\ held'[u][TableCatalog] = "none"
      /\ \A u \in Txn, m \in Name : u # t \/ m # TableCatalog => held'[u][m] = held[u][m]
  BY <1>0, <1>2, ExclusiveLockGains DEF CatInv, Gains
<1>4. Moved(t, "create", "fcat", n)
  <2>1. "fcat" \in Places  BY DEF Places
  <2> QED  BY <1>0, <1>1, <2>1, GotoMoves DEF CatInv
<1>5. PICK tc \in Seq(Name) : tc = tcat  BY DEF CatInv, CatTyped
<1>6. /\ tcat' = Append(tc, n) /\ tcat' \in Seq(Name)
      /\ \A m \in Name : m # n => (OnceIn(tcat', m) <=> OnceIn(tcat, m))
  <2>1. Append(tc, n) \in Seq(Name)  BY <1>1, AppendProperties
  <2> QED  BY <1>0, <1>1, <1>5, <2>1, OnceAppended
<1>7. \A m : Listed(m)' <=> Listed(m) \/ m = n
  <2>1. PICK l \in Nat : l = Len(tc)  OBVIOUS
  <2>2. Len(tcat') = l + 1 /\ tcat'[l + 1] = n /\ \A j \in 1..l : tcat'[j] = tc[j]
    BY <1>1, <1>6, <2>1, NameAdded DEF NameFollows
  <2>3. \A m : Listed(m)' <=> \E j \in 1..(l + 1) : tcat'[j] = m
    <3>1. DOMAIN tcat' = 1..(l + 1)  BY <1>6, <2>2
    <3> QED  BY <3>1 DEF Listed, ToSet
  <2>4. \A m : Listed(m) <=> \E j \in 1..l : tc[j] = m
    BY <1>5, <2>1, ListedIs
  <2>5. \A j \in 1..(l + 1) : j \in 1..l \/ j = l + 1  OBVIOUS
  <2>6. l + 1 \in 1..(l + 1) /\ 1..l \subseteq 1..(l + 1)  OBVIOUS
  <2> QED  BY <2>2, <2>3, <2>4, <2>5, <2>6
<1>8. CatTyped'
  <2>1. answer' \in [Txn -> [Name -> Seq(STRING) \cup {None}]]
    BY <1>0, <1>1 DEF CatInv, CatTyped
  <2> QED  BY <1>0, <1>4, <1>6, <2>1 DEF CatInv, CatTyped, Moved
<1>9. InPlaces'
  <2>1. ASSUME NEW u \in Txn, u # t PROVE InPlace(u)'
    <3>1. InPlace(u) /\ name'[u] = name[u] /\ op'[u] = op[u] /\ at'[u] = at[u]
      BY <1>4, <2>1 DEF CatInv, InPlaces, Moved
    <3>2. Listed(name[u]) => Listed(name[u])'  BY <1>7, <3>1
    <3> QED  BY <1>0, <1>2, <1>3, <2>1, <3>1, <3>2 DEF InPlace
  <2>2. InPlace(t)'
    <3>1. mutex' # t  BY <1>0 DEF InPlace
    <3> QED  BY <1>0, <1>1, <1>3, <1>4, <3>1 DEF InPlace, Moved
  <2> QED  BY <2>1, <2>2 DEF InPlaces
<1>10. CatalogIsWhole'
  <2>1. HalfWay(t)'  BY <1>3, <1>4 DEF HalfWay, Naming, Moved
  <2>2. \A u \in Txn : Naming(u)' => u = t
    BY <1>3, <1>4 DEF CatInv, InPlaces, InPlace, Naming, Moved
  <2>3. Shape(tcat, fcat)
    <3>1. \A u \in Txn : ~HalfWay(u)  BY <1>0, <1>3 DEF HalfWay, Naming
    <3> QED  BY <3>1 DEF CatInv, CatalogIsWhole
  <2>4. tcat' = Append(tc, name'[t]) /\ Shape(tc, fcat')  BY <1>0, <1>4, <1>5, <1>6, <2>3 DEF Moved
  <2>5. \A i \in DOMAIN System : OnceIn(tcat', System[i]) /\ Group(fcat', System[i])
    BY <1>0, <1>2, <1>6 DEF CatInv, CatalogIsWhole
  <2> QED  BY <2>1, <2>2, <2>4, <2>5 DEF CatalogIsWhole
<1>11. CommittedIsWhole'  BY <1>0 DEF CatInv, CommittedIsWhole
<1>12. WritesAreLocked'  BY <1>0, <1>2, <1>3 DEF CatInv, WritesAreLocked
<1>13. AnswersAreRight'
  <2>1. /\ answer'[t][n] = None
        /\ \A u \in Txn, m \in Name : u # t \/ m # n => answer'[u][m] = answer[u][m]
    BY <1>0, <1>1 DEF CatInv, CatTyped
  <2>2. \A u \in Txn, m \in Name : u # t => answer[u][m] = None
    BY <1>3 DEF CatInv, AnswersAreRight
  <2>3. None # Absent  BY CatalogAssumption DEF Absent
  <2> QED  BY <1>3, <1>6, <1>7, <2>1, <2>2, <2>3 DEF CatInv, AnswersAreRight
<1>14. StatsAreSound'
  <2>1. ASSUME NEW u \in Txn, NEW m \in Name, held[u][m] # "none", held'[u][m] # "exclusive"
        PROVE  Records(m)' = Records(m)
    <3>1. m # TableCatalog  BY <1>3, <2>1
    <3> QED  BY <1>0, <3>1 DEF Records, TableCatalog
  <2>2. \A u \in Txn, m \in Name : /\ held[u][m] # "none" => held'[u][m] # "none"
                                   /\ held[u][m] = "exclusive" => held'[u][m] = "exclusive"
    BY <1>3
  <2> QED  BY <1>0, <2>1, <2>2, StatsStay
<1> QED  BY <1>3, <1>8, <1>9, <1>10, <1>11, <1>12, <1>13, <1>14 DEF CatInv

(* And the fields under both: the catalog is whole again.                  *)
LEMMA CreateFieldRowsKeepsCatInv ==
    ASSUME CatInv, NEW t \in Txn, CreateFieldRows(t)
    PROVE  CatInv'
<1>0. /\ InPlace(t) /\ op[t] = "create" /\ at[t] = "fcat" /\ server = "up"
      /\ ExclusiveLock(t, FieldCatalog) /\ Return(t, "idle")
      /\ fcat' = fcat \o RowsOf(name[t])
      /\ UNCHANGED <<server, is_new, tcat, rows, committed, todo, answer, mutex, stats, num_calls>>
  BY DEF CreateFieldRows, Inserts, In, CatInv, InPlaces, FieldCatalog, statistics
<1>1. PICK n \in UserTable : n = name[t] /\ n \in Name  BY <1>0, Names DEF InPlace
<1>2. /\ TableCatalog \in Name /\ FieldCatalog \in Name /\ TableCatalog # FieldCatalog
      /\ \A i \in DOMAIN System : System[i] \in Name /\ System[i] # n
  BY Names
<1>3. /\ LocksExclude' /\ held'[t][FieldCatalog] = "exclusive"
      /\ \A u \in Txn : u # t => held[u][FieldCatalog] = "none"
      /\ \A u \in Txn, m \in Name : u # t \/ m # FieldCatalog => held'[u][m] = held[u][m]
  BY <1>0, <1>2, ExclusiveLockGains DEF CatInv, Gains
<1>4. /\ held[t][TableCatalog] = "exclusive" /\ held'[t][TableCatalog] = "exclusive"
      /\ \A u \in Txn : u # t => held[u][TableCatalog] = "none"
  BY <1>0, <1>2, <1>3 DEF InPlace, CatInv, LocksExclude
<1>5. Moved(t, "idle", "start", None)
  <2>1. "idle" \in Ops  BY DEF Ops
  <2> QED  BY <1>0, <2>1, ReturnMoves DEF CatInv
<1>6. PICK fc \in Seq(Row) : fc = fcat  BY DEF CatInv, CatTyped
<1>7. PICK tc \in Seq(Name) : tcat = Append(tc, n) /\ Shape(tc, fc)
  BY <1>0, <1>1, <1>6 DEF CatInv, CatalogIsWhole, Naming
<1>8. /\ fcat' = fc \o RowsOf(n) /\ fcat' \in Seq(Row) /\ Shape(tcat', fcat')
      /\ \A m \in Name : m # n /\ Group(fcat, m) => Group(fcat', m)
  <2>1. fcat' = fc \o RowsOf(n)  BY <1>0, <1>1, <1>6
  <2>2. fc \o RowsOf(n) \in Seq(Row)  BY <1>1, RowsAdded DEF RowsFollow
  <2>3. Shape(Append(tc, n), fc \o RowsOf(n))  BY <1>1, <1>7, ShapeGrows
  <2>4. \A m \in Name : m # n /\ Group(fc, m) => Group(fc \o RowsOf(n), m)
    BY <1>1, GroupStays
  <2> QED  BY <1>0, <1>6, <1>7, <2>1, <2>2, <2>3, <2>4
<1>9. CatTyped'  BY <1>0, <1>5, <1>8 DEF CatInv, CatTyped, Moved
<1>10. InPlaces'
  <2>1. ASSUME NEW u \in Txn, u # t PROVE InPlace(u)'
    <3>1. InPlace(u) /\ name'[u] = name[u] /\ op'[u] = op[u] /\ at'[u] = at[u]
      BY <1>5, <2>1 DEF CatInv, InPlaces, Moved
    <3>2. Listed(name[u]) => Listed(name[u])'  BY <1>0, <3>1 DEF Listed
    <3> QED  BY <1>0, <1>2, <1>3, <2>1, <3>1, <3>2 DEF InPlace
  <2>2. InPlace(t)'
    <3>1. mutex' # t  BY <1>0 DEF InPlace
    <3> QED  BY <1>0, <1>3, <1>4, <1>5, <3>1 DEF InPlace, Moved
  <2> QED  BY <2>1, <2>2 DEF InPlaces
<1>11. CatalogIsWhole'
  <2>1. \A u \in Txn : ~Naming(u)'
    BY <1>4, <1>5 DEF CatInv, InPlaces, InPlace, Naming, Moved
  <2>2. \A i \in DOMAIN System : OnceIn(tcat', System[i]) /\ Group(fcat', System[i])
    BY <1>0, <1>2, <1>8 DEF CatInv, CatalogIsWhole
  <2> QED  BY <1>8, <2>1, <2>2 DEF CatalogIsWhole
<1>12. CommittedIsWhole'  BY <1>0 DEF CatInv, CommittedIsWhole
<1>13. WritesAreLocked'  BY <1>0, <1>3, <1>4 DEF CatInv, WritesAreLocked
<1>14. \A u \in Txn, m \in Name : /\ held[u][m] # "none" => held'[u][m] # "none"
                                  /\ held[u][m] = "exclusive" => held'[u][m] = "exclusive"
  BY <1>3
<1>15. AnswersAreRight'  BY <1>0, <1>14, AnswersStay
<1>16. StatsAreSound'
  <2>1. ASSUME NEW u \in Txn, NEW m \in Name, held[u][m] # "none", held'[u][m] # "exclusive"
        PROVE  Records(m)' = Records(m)
    <3>1. m # FieldCatalog  BY <1>3, <2>1
    <3> QED  BY <1>0, <3>1 DEF Records, FieldCatalog
  <2> QED  BY <1>0, <1>14, <2>1, StatsStay
<1> QED  BY <1>3, <1>9, <1>10, <1>11, <1>12, <1>13, <1>15, <1>16 DEF CatInv

(* The end of a transaction.  What it has written is locked exclusively,   *)
(* and so of no concern to the others.                                     *)
LEMMA MergeIs ==
    ASSUME NEW t \in Txn, NEW old \in CatalogTables, NEW new \in CatalogTables
    PROVE  /\ Merge(t, old, new) \in CatalogTables
           /\ Merge(t, old, new).tcat = IF held[t][TableCatalog] = "exclusive" THEN new.tcat ELSE old.tcat
           /\ Merge(t, old, new).fcat = IF held[t][FieldCatalog] = "exclusive" THEN new.fcat ELSE old.fcat
           /\ \A n \in Name : Merge(t, old, new).rows[n] =
                                 IF held[t][n] = "exclusive" THEN new.rows[n] ELSE old.rows[n]
BY DEF Merge, CatalogTables, TableCatalog, FieldCatalog

LEMMA CurrentTyped == CatTyped => Current \in CatalogTables
BY DEF CatTyped, Current, CatalogTables

LEMMA EndFacts ==
    ASSUME CatInv, NEW t \in Txn, End(t)
    PROVE  /\ UNCHANGED <<server, is_new, at, name, todo, mutex, num_calls>>
           /\ op' \in [Txn -> Ops] /\ op'[t] = "none" /\ \A u \in Txn : u # t => op'[u] = op[u]
           /\ held' \in [Txn -> [Name -> Lock!Mode]]
           /\ \A n \in Name : held'[t][n] = "none"
           /\ \A u \in Txn, n \in Name : u # t => held'[u][n] = held[u][n]
           /\ answer' \in [Txn -> [Name -> Seq(STRING) \cup {None}]]
           /\ \A n \in Name : answer'[t][n] = None
           /\ \A u \in Txn, n \in Name : u # t => answer'[u][n] = answer[u][n]
<1>1. /\ UNCHANGED <<server, is_new, at, name, todo, mutex, num_calls>>
      /\ op' = [op EXCEPT ![t] = "none"]
      /\ held' = [held EXCEPT ![t] = [n \in Name |-> "none"]]
      /\ answer' = [answer EXCEPT ![t] = [n \in Name |-> None]]
  BY DEF End, EveryTable
<1>2. op' \in [Txn -> Ops] /\ op'[t] = "none" /\ \A u \in Txn : u # t => op'[u] = op[u]
  BY <1>1 DEF CatInv, CatTyped, Ops
<1>3. /\ held' \in [Txn -> [Name -> Lock!Mode]]
      /\ \A n \in Name : held'[t][n] = "none"
      /\ \A u \in Txn, n \in Name : u # t => held'[u][n] = held[u][n]
  BY <1>1 DEF CatInv, LocksExclude, Lock!Mode
<1>4. /\ answer' \in [Txn -> [Name -> Seq(STRING) \cup {None}]]
      /\ \A n \in Name : answer'[t][n] = None
      /\ \A u \in Txn, n \in Name : u # t => answer'[u][n] = answer[u][n]
  BY <1>1 DEF CatInv, CatTyped
<1> QED  BY <1>1, <1>2, <1>3, <1>4

LEMMA EndStats ==
    ASSUME CatInv, NEW t \in Txn, End(t), NEW n \in Name
    PROVE  /\ stats' \in [Name -> Stat \cup {None}]
           /\ stats'[n] # None => /\ stats[n] # None /\ stats'[n].age = stats[n].age
                                  /\ stats'[n].records = stats[n].records
                                  /\ stats'[n].by # t
                                  /\ \A u \in Txn : stats'[n].by = u => stats[n].by = u
<1> DEFINE S(m) == IF stats[m] # None /\ stats[m].by = t
                   THEN [stats[m] EXCEPT !.by = None] ELSE stats[m]
<1>1. stats' = [m \in Name |-> S(m)]  BY DEF End
<1>2. ASSUME NEW m \in Name
      PROVE  /\ S(m) \in Stat \cup {None}
             /\ S(m) # None => /\ stats[m] # None /\ S(m).age = stats[m].age
                               /\ S(m).records = stats[m].records
                               /\ S(m).by # t
                               /\ \A u \in Txn : S(m).by = u => stats[m].by = u
  <2>1. stats[m] \in Stat \cup {None}  BY DEF CatInv, CatTyped
  <2>2. CASE stats[m] # None /\ stats[m].by = t
    <3>1. PICK s \in Stat : s = stats[m]  BY <2>1, <2>2
    <3>2. S(m) = [s EXCEPT !.by = None]  BY <2>2, <3>1
    <3>3. S(m) \in Stat /\ S(m).age = s.age /\ S(m).records = s.records /\ S(m).by = None
      BY <3>1, <3>2 DEF Stat
    <3> HIDE DEF S
    <3> QED  BY <2>2, <3>1, <3>3, CatalogAssumption
  <2>3. CASE ~(stats[m] # None /\ stats[m].by = t)  BY <2>1, <2>3
  <2> QED  BY <2>2, <2>3
<1> HIDE DEF S
<1> QED  BY <1>1, <1>2

LEMMA EndKeeps ==
    ASSUME CatInv, NEW t \in Txn, server = "up", op[t] \in {"idle", "failed"}, End(t),
           held[t][TableCatalog] # "exclusive" => tcat' = tcat,
           \A m \in Name : held[t][m] # "exclusive" => Records(m)' = Records(m)
    PROVE  LocksExclude' /\ InPlaces' /\ AnswersAreRight' /\ StatsAreSound'
<1>0. TableCatalog \in Name /\ FieldCatalog \in Name  BY Names
<1>1. /\ UNCHANGED <<server, is_new, at, name, todo, mutex, num_calls>>
      /\ op'[t] = "none" /\ \A u \in Txn : u # t => op'[u] = op[u]
      /\ held' \in [Txn -> [Name -> Lock!Mode]]
      /\ \A n \in Name : held'[t][n] = "none"
      /\ \A u \in Txn, n \in Name : u # t => held'[u][n] = held[u][n]
  BY EndFacts
<1>2. /\ \A n \in Name : answer'[t][n] = None
      /\ \A u \in Txn, n \in Name : u # t => answer'[u][n] = answer[u][n]
  BY EndFacts
<1>3. LocksExclude'  BY <1>1 DEF CatInv, LocksExclude
<1>4. \A u \in Txn : u # t /\ held[u][TableCatalog] # "none" => tcat' = tcat
  BY <1>0 DEF CatInv, LocksExclude
<1>5. InPlaces'
  <2>1. ASSUME NEW u \in Txn, u # t PROVE InPlace(u)'
    <3>1. InPlace(u)  BY DEF CatInv, InPlaces
    <3>2. held[u][TableCatalog] # "none" /\ Listed(name[u]) => Listed(name[u])'
      BY <1>1, <1>4, <2>1 DEF Listed
    <3> QED  BY <1>0, <1>1, <2>1, <3>1, <3>2 DEF InPlace
  <2>2. InPlace(t)'
    <3>1. mutex # t /\ at[t] = "start" /\ InPlace(t)  BY DEF CatInv, InPlaces, InPlace
    <3> QED  BY <1>0, <1>1, <3>1 DEF InPlace
  <2> QED  BY <2>1, <2>2 DEF InPlaces
<1>6. AnswersAreRight'
  <2> SUFFICES ASSUME NEW u \in Txn, NEW n \in Name
               PROVE  /\ answer'[u][n] # None => held'[u][TableCatalog] # "none"
                      /\ answer'[u][n] = Absent => ~Listed(n)'
                      /\ answer'[u][n] \notin {None, Absent} /\ OnceIn(tcat', n) =>
                            answer'[u][n] = Fields[n]
    BY DEF AnswersAreRight
  <2>1. CASE answer'[u][n] = None  BY <2>1, CatalogAssumption DEF Absent
  <2>2. CASE answer'[u][n] # None
    <3>1. u # t /\ answer'[u][n] = answer[u][n]  BY <1>2, <2>2
    <3>2. held[u][TableCatalog] # "none"  BY <2>2, <3>1 DEF CatInv, AnswersAreRight
    <3>3. tcat' = tcat  BY <1>4, <3>1, <3>2
    <3>4. Listed(n)' <=> Listed(n)  BY <3>3 DEF Listed
    <3> QED  BY <1>0, <1>1, <2>2, <3>1, <3>2, <3>3, <3>4 DEF CatInv, AnswersAreRight
  <2> QED  BY <2>1, <2>2
<1>7. StatsAreSound'
  <2> SUFFICES ASSUME NEW n \in Name, stats'[n] # None
               PROVE  /\ stats'[n].age <= num_calls
                      /\ \A u \in Txn : stats'[n].by = u =>
                           /\ held'[u][n] # "none"
                           /\ held'[u][n] # "exclusive" => stats'[n].records = Records(n)'
    BY <1>1 DEF StatsAreSound, Counted
  <2>1. /\ stats[n] # None /\ stats'[n].age = stats[n].age
        /\ stats'[n].records = stats[n].records /\ stats'[n].by # t
        /\ \A u \in Txn : stats'[n].by = u => stats[n].by = u
    BY EndStats
  <2>2. /\ stats[n].age <= num_calls
        /\ \A u \in Txn : stats[n].by = u =>
             held[u][n] # "none" /\ (held[u][n] # "exclusive" => stats[n].records = Records(n))
    BY <2>1 DEF CatInv, StatsAreSound, Counted
  <2>3. ASSUME NEW u \in Txn, stats'[n].by = u
        PROVE  /\ held'[u][n] # "none"
               /\ held'[u][n] # "exclusive" => stats'[n].records = Records(n)'
    <3>1. u # t /\ stats[n].by = u  BY <2>1, <2>3
    <3>2. held[u][n] # "none" /\ held'[u][n] = held[u][n]  BY <1>1, <2>2, <3>1
    <3>3. held[t][n] # "exclusive"  BY <3>1, <3>2 DEF CatInv, LocksExclude
    <3> QED  BY <2>1, <2>2, <3>1, <3>2, <3>3
  <2> QED  BY <2>1, <2>2, <2>3
<1> QED  BY <1>3, <1>5, <1>6, <1>7

(* Who has the exclusive lock on table_catalog is alone with the catalog.  *)
LEMMA Alone ==
    ASSUME CatInv, NEW t \in Txn, server = "up"
    PROVE  /\ held[t][TableCatalog] = "exclusive" =>
                /\ \A u \in Txn : u # t => /\ held[u][TableCatalog] # "exclusive"
                                           /\ held[u][FieldCatalog] # "exclusive"
                                           /\ ~HalfWay(u) /\ ~Naming(u)
                /\ held[t][FieldCatalog] # "exclusive" => fcat = committed.fcat
           /\ held[t][TableCatalog] # "exclusive" =>
                held[t][FieldCatalog] # "exclusive" /\ ~HalfWay(t) /\ ~Naming(t)
<1>0. TableCatalog \in Name /\ FieldCatalog \in Name  BY Names
<1>1. \A u \in Txn : InPlace(u)  BY DEF CatInv, InPlaces
<1>2. ASSUME held[t][TableCatalog] = "exclusive", NEW u \in Txn, u # t
      PROVE  held[u][TableCatalog] # "exclusive" /\ held[u][FieldCatalog] # "exclusive"
             /\ ~HalfWay(u) /\ ~Naming(u)
  BY <1>0, <1>1, <1>2 DEF CatInv, LocksExclude, InPlace, HalfWay, Naming
<1>3. ASSUME held[t][TableCatalog] = "exclusive", held[t][FieldCatalog] # "exclusive"
      PROVE  fcat = committed.fcat
  <2>1. \A u \in Txn : held[u][FieldCatalog] # "exclusive"  BY <1>2, <1>3
  <2> QED  BY <2>1 DEF CatInv, WritesAreLocked
<1>4. ASSUME held[t][TableCatalog] # "exclusive"
      PROVE  held[t][FieldCatalog] # "exclusive" /\ ~HalfWay(t) /\ ~Naming(t)
  BY <1>1, <1>4 DEF InPlace, HalfWay, Naming
<1> QED  BY <1>2, <1>3, <1>4

LEMMA CommitKeepsCatInv ==
    ASSUME CatInv, NEW t \in Txn, Commit(t)
    PROVE  CatInv'
<1>0. /\ server = "up" /\ op[t] = "idle" /\ End(t)
      /\ committed' = Merge(t, committed, Current)
      /\ tcat' = tcat /\ fcat' = fcat /\ rows' = rows
  BY DEF Commit, data
<1>1. /\ UNCHANGED <<server, is_new, at, name, todo, mutex, num_calls>>
      /\ op' \in [Txn -> Ops] /\ op'[t] = "none" /\ \A u \in Txn : u # t => op'[u] = op[u]
      /\ \A n \in Name : held'[t][n] = "none"
      /\ \A u \in Txn, n \in Name : u # t => held'[u][n] = held[u][n]
      /\ answer' \in [Txn -> [Name -> Seq(STRING) \cup {None}]]
  BY <1>0, EndFacts
<1>2. TableCatalog \in Name /\ FieldCatalog \in Name  BY Names
<1>3. /\ committed' \in CatalogTables
      /\ committed'.tcat = IF held[t][TableCatalog] = "exclusive" THEN tcat ELSE committed.tcat
      /\ committed'.fcat = IF held[t][FieldCatalog] = "exclusive" THEN fcat ELSE committed.fcat
  <2>1. committed \in CatalogTables /\ Current \in CatalogTables  BY CurrentTyped DEF CatInv, CatTyped
  <2>2. Current.tcat = tcat /\ Current.fcat = fcat  BY DEF Current
  <2> HIDE DEF Merge
  <2> QED  BY <1>0, <2>1, <2>2, MergeIs
<1>4. CatTyped'
  <2>1. stats' \in [Name -> Stat \cup {None}]  BY <1>0, <1>2, EndStats
  <2> QED  BY <1>0, <1>1, <1>3, <2>1 DEF CatInv, CatTyped
<1>5. LocksExclude' /\ InPlaces' /\ AnswersAreRight' /\ StatsAreSound'
  <2>1. \A m \in Name : Records(m)' = Records(m)  BY <1>0 DEF Records
  <2> QED  BY <1>0, <2>1, EndKeeps
<1>6. CatalogIsWhole'
  <2>1. \A u \in Txn : /\ HalfWay(u) => HalfWay(u)'
                       /\ Naming(u)' => Naming(u) /\ name'[u] = name[u]
    BY <1>0, <1>1, <1>2 DEF HalfWay, Naming
  <2>2. (\A u \in Txn : ~HalfWay(u)') => Shape(tcat', fcat')
    BY <1>0, <2>1 DEF CatInv, CatalogIsWhole
  <2>3. \A u \in Txn : Naming(u)' =>
           \E tc \in Seq(Name) : tcat' = Append(tc, name'[u]) /\ Shape(tc, fcat')
    BY <1>0, <2>1 DEF CatInv, CatalogIsWhole
  <2>4. \A i \in DOMAIN System : OnceIn(tcat', System[i]) /\ Group(fcat', System[i])
    BY <1>0 DEF CatInv, CatalogIsWhole
  <2> QED  BY <2>2, <2>3, <2>4 DEF CatalogIsWhole
<1>7. /\ Shape(committed'.tcat, committed'.fcat)
      /\ \A i \in DOMAIN System : OnceIn(committed'.tcat, System[i])
  <2>1. CASE held[t][TableCatalog] = "exclusive"
    <3>1. committed'.tcat = tcat /\ committed'.fcat = fcat  BY <1>0, <1>3, <2>1, Alone
    <3>2. Shape(tcat, fcat)
      <4>1. ~HalfWay(t)  BY <1>0 DEF HalfWay, Naming
      <4>2. \A u \in Txn : ~HalfWay(u)  BY <1>0, <2>1, <4>1, Alone
      <4> QED  BY <4>2 DEF CatInv, CatalogIsWhole
    <3> QED  BY <1>0, <3>1, <3>2 DEF CatInv, CatalogIsWhole
  <2>2. CASE held[t][TableCatalog] # "exclusive"
    <3>1. committed'.tcat = committed.tcat /\ committed'.fcat = committed.fcat
      BY <1>0, <1>3, <2>2, Alone
    <3> QED  BY <1>0, <3>1 DEF CatInv, CommittedIsWhole
  <2> QED  BY <2>1, <2>2
<1>8. CommittedIsWhole'  BY <1>0, <1>1, <1>7 DEF CommittedIsWhole
<1>9. WritesAreLocked'
  <2>1. ASSUME \A u \in Txn : held'[u][TableCatalog] # "exclusive"
        PROVE  tcat' = committed'.tcat
    <3>1. CASE held[t][TableCatalog] = "exclusive"  BY <1>0, <1>3, <3>1
    <3>2. CASE held[t][TableCatalog] # "exclusive"
      <4>1. \A u \in Txn : held[u][TableCatalog] # "exclusive"  BY <1>1, <1>2, <2>1, <3>2
      <4> QED  BY <1>0, <1>3, <3>2, <4>1 DEF CatInv, WritesAreLocked
    <3> QED  BY <3>1, <3>2
  <2>2. ASSUME \A u \in Txn : held'[u][FieldCatalog] # "exclusive"
        PROVE  fcat' = committed'.fcat
    <3>1. CASE held[t][FieldCatalog] = "exclusive"  BY <1>0, <1>3, <3>1
    <3>2. CASE held[t][FieldCatalog] # "exclusive"
      <4>1. \A u \in Txn : held[u][FieldCatalog] # "exclusive"  BY <1>1, <1>2, <2>2, <3>2
      <4> QED  BY <1>0, <1>3, <3>2, <4>1 DEF CatInv, WritesAreLocked
    <3> QED  BY <3>1, <3>2
  <2> QED  BY <2>1, <2>2 DEF WritesAreLocked
<1> QED  BY <1>4, <1>5, <1>6, <1>8, <1>9 DEF CatInv

LEMMA RollbackKeepsCatInv ==
    ASSUME CatInv, NEW t \in Txn, Rollback(t)
    PROVE  CatInv'
<1>0. /\ server = "up" /\ op[t] \in {"idle", "failed"} /\ End(t) /\ committed' = committed
  BY DEF Rollback
<1>1. /\ UNCHANGED <<server, is_new, at, name, todo, mutex, num_calls>>
      /\ op' \in [Txn -> Ops] /\ op'[t] = "none" /\ \A u \in Txn : u # t => op'[u] = op[u]
      /\ \A n \in Name : held'[t][n] = "none"
      /\ \A u \in Txn, n \in Name : u # t => held'[u][n] = held[u][n]
      /\ answer' \in [Txn -> [Name -> Seq(STRING) \cup {None}]]
  BY <1>0, EndFacts
<1>2. TableCatalog \in Name /\ FieldCatalog \in Name  BY Names
<1>3. /\ tcat' \in Seq(Name) /\ fcat' \in Seq(Row) /\ rows' \in [Name -> 0..MaxRows]
      /\ tcat' = IF held[t][TableCatalog] = "exclusive" THEN committed.tcat ELSE tcat
      /\ fcat' = IF held[t][FieldCatalog] = "exclusive" THEN committed.fcat ELSE fcat
      /\ \A n \in Name : held[t][n] # "exclusive" => rows'[n] = rows[n]
  <2>1. committed \in CatalogTables /\ Current \in CatalogTables  BY CurrentTyped DEF CatInv, CatTyped
  <2>2. Current.tcat = tcat /\ Current.fcat = fcat /\ Current.rows = rows  BY DEF Current
  <2>3. PICK d \in CatalogTables : d = Merge(t, Current, committed)  BY <2>1, MergeIs
  <2>4. /\ d.tcat = IF held[t][TableCatalog] = "exclusive" THEN committed.tcat ELSE tcat
        /\ d.fcat = IF held[t][FieldCatalog] = "exclusive" THEN committed.fcat ELSE fcat
        /\ \A n \in Name : held[t][n] # "exclusive" => d.rows[n] = rows[n]
    BY <2>1, <2>2, <2>3, MergeIs
  <2>5. tcat' = d.tcat /\ fcat' = d.fcat /\ rows' = d.rows
    BY <2>3 DEF Rollback, BecomesCurrent
  <2>6. d.tcat \in Seq(Name) /\ d.fcat \in Seq(Row) /\ d.rows \in [Name -> 0..MaxRows]
    BY DEF CatalogTables
  <2> QED  BY <2>4, <2>5, <2>6
<1>4. CatTyped'
  <2>1. stats' \in [Name -> Stat \cup {None}]  BY <1>0, <1>2, EndStats
  <2> QED  BY <1>0, <1>1, <1>3, <2>1 DEF CatInv, CatTyped
<1>5. LocksExclude' /\ InPlaces' /\ AnswersAreRight' /\ StatsAreSound'
  <2>1. \A m \in Name : held[t][m] # "exclusive" => Records(m)' = Records(m)
    BY <1>2, <1>3 DEF Records, TableCatalog, FieldCatalog
  <2> QED  BY <1>0, <1>3, <2>1, EndKeeps
<1>6. CatalogIsWhole'
  <2>1. CASE held[t][TableCatalog] = "exclusive"
    <3>1. tcat' = committed.tcat /\ fcat' = committed.fcat  BY <1>0, <1>3, <2>1, Alone
    <3>2. Shape(tcat', fcat')  BY <3>1 DEF CatInv, CommittedIsWhole
    <3>3. \A u \in Txn : ~Naming(u)'
      <4>1. \A u \in Txn : u # t => ~Naming(u)  BY <1>0, <2>1, Alone
      <4> QED  BY <1>1, <4>1 DEF Naming
    <3>4. \A i \in DOMAIN System : OnceIn(tcat', System[i]) /\ Group(fcat', System[i])
      <4>1. \A i \in DOMAIN System : OnceIn(tcat', System[i]) /\ System[i] \in Name
        BY <1>0, <3>1, Names DEF CatInv, CommittedIsWhole
      <4> QED  BY <3>2, <4>1 DEF Shape
    <3> QED  BY <3>2, <3>3, <3>4 DEF CatalogIsWhole
  <2>2. CASE held[t][TableCatalog] # "exclusive"
    <3>1. tcat' = tcat /\ fcat' = fcat /\ ~HalfWay(t) /\ ~Naming(t)
      BY <1>0, <1>3, <2>2, Alone
    <3>2. \A u \in Txn : /\ HalfWay(u) => HalfWay(u)'
                         /\ Naming(u)' => Naming(u) /\ name'[u] = name[u]
      BY <1>1, <1>2, <3>1 DEF HalfWay, Naming
    <3>3. (\A u \in Txn : ~HalfWay(u)') => Shape(tcat', fcat')
      BY <3>1, <3>2 DEF CatInv, CatalogIsWhole
    <3>4. \A u \in Txn : Naming(u)' =>
             \E tc \in Seq(Name) : tcat' = Append(tc, name'[u]) /\ Shape(tc, fcat')
      BY <3>1, <3>2 DEF CatInv, CatalogIsWhole
    <3>5. \A i \in DOMAIN System : OnceIn(tcat', System[i]) /\ Group(fcat', System[i])
      BY <1>0, <3>1 DEF CatInv, CatalogIsWhole
    <3> QED  BY <3>3, <3>4, <3>5 DEF CatalogIsWhole
  <2> QED  BY <2>1, <2>2
<1>7. CommittedIsWhole'  BY <1>0, <1>1 DEF CatInv, CommittedIsWhole
<1>8. WritesAreLocked'
  <2>1. ASSUME \A u \in Txn : held'[u][TableCatalog] # "exclusive"
        PROVE  tcat' = committed.tcat
    <3>1. CASE held[t][TableCatalog] = "exclusive"  BY <1>3, <3>1
    <3>2. CASE held[t][TableCatalog] # "exclusive"
      <4>1. \A u \in Txn : held[u][TableCatalog] # "exclusive"  BY <1>1, <1>2, <2>1, <3>2
      <4> QED  BY <1>0, <1>3, <3>2, <4>1 DEF CatInv, WritesAreLocked
    <3> QED  BY <3>1, <3>2
  <2>2. ASSUME \A u \in Txn : held'[u][FieldCatalog] # "exclusive"
        PROVE  fcat' = committed.fcat
    <3>1. CASE held[t][FieldCatalog] = "exclusive"  BY <1>3, <3>1
    <3>2. CASE held[t][FieldCatalog] # "exclusive"
      <4>1. \A u \in Txn : held[u][FieldCatalog] # "exclusive"  BY <1>1, <1>2, <2>2, <3>2
      <4> QED  BY <1>0, <1>3, <3>2, <4>1 DEF CatInv, WritesAreLocked
    <3> QED  BY <3>1, <3>2
  <2> QED  BY <1>0, <2>1, <2>2 DEF WritesAreLocked
<1> QED  BY <1>4, <1>5, <1>6, <1>7, <1>8 DEF CatInv

(* A server that is not up has no transactions.                            *)
Quiet ==
    /\ \A t \in Txn : op[t] = "none" /\ at[t] = "start" /\ mutex # t
    /\ \A t \in Txn, n \in Name : held[t][n] = "none" /\ answer[t][n] = None

LEMMA DownIsQuiet ==
    ASSUME CatInv, server # "up"
    PROVE  Quiet
<1>1. ASSUME NEW t \in Txn PROVE op[t] = "none" /\ at[t] = "start" /\ mutex # t
  <2>1. InPlace(t)  BY DEF CatInv, InPlaces
  <2> QED  BY <2>1 DEF InPlace
<1>2. ASSUME NEW t \in Txn, NEW n \in Name PROVE held[t][n] = "none"
  <2>1. InPlace(t)  BY DEF CatInv, InPlaces
  <2> QED  BY <1>1, <2>1 DEF InPlace
<1>3. ASSUME NEW t \in Txn, NEW n \in Name PROVE answer[t][n] = None
  <2>1. TableCatalog \in Name  BY Names
  <2> QED  BY <1>2, <2>1 DEF CatInv, AnswersAreRight
<1> QED  BY <1>1, <1>2, <1>3 DEF Quiet

(* Of a quiet server, only the catalog matters.                            *)
LEMMA QuietIsEnough ==
    (Quiet /\ CatTyped /\ CatalogIsWhole /\ CommittedIsWhole /\ WritesAreLocked
       /\ held \in [Txn -> [Name -> Lock!Mode]]
       /\ \A n \in Name : stats[n] # None => stats[n].age <= num_calls /\ stats[n].by \notin Txn)
    => CatInv
<1> SUFFICES ASSUME Quiet, CatTyped, CatalogIsWhole, CommittedIsWhole, WritesAreLocked,
                    held \in [Txn -> [Name -> Lock!Mode]],
                    \A n \in Name : stats[n] # None =>
                       stats[n].age <= num_calls /\ stats[n].by \notin Txn
             PROVE  CatInv
  OBVIOUS
<1>0. TableCatalog \in Name /\ FieldCatalog \in Name  BY Names
<1>1. LocksExclude  BY DEF Quiet, LocksExclude
<1>2. InPlaces  BY <1>0 DEF Quiet, InPlaces, InPlace
<1>3. AnswersAreRight
  <2>1. None # Absent  BY CatalogAssumption DEF Absent
  <2> QED  BY <2>1 DEF Quiet, AnswersAreRight
<1>4. StatsAreSound  BY DEF StatsAreSound, Counted
<1> QED  BY <1>1, <1>2, <1>3, <1>4 DEF CatInv

LEMMA QuietIsEnoughNext ==
    (Quiet /\ CatTyped /\ CatalogIsWhole /\ CommittedIsWhole /\ WritesAreLocked
       /\ held \in [Txn -> [Name -> Lock!Mode]]
       /\ \A n \in Name : stats[n] # None => stats[n].age <= num_calls /\ stats[n].by \notin Txn)'
    => CatInv'
BY QuietIsEnough, PTL

(* When nobody is half way, the catalog is whole.                          *)
LEMMA QuietIsWhole ==
    ASSUME CatInv, server # "up"
    PROVE  /\ Quiet /\ Shape(tcat, fcat)
           /\ \A t \in Txn : ~Naming(t) /\ ~HalfWay(t)
<1>1. Quiet  BY DownIsQuiet
<1>2. \A t \in Txn : ~Naming(t) /\ ~HalfWay(t)
  BY <1>1, Names DEF Quiet, Naming, HalfWay
<1> QED  BY <1>1, <1>2 DEF CatInv, CatalogIsWhole

LEMMA StartsKeepsCatInv ==
    ASSUME CatInv, server \in {"down", "failed"}, Starts, is_new' \in BOOLEAN,
           tcat' \in Seq(Name), fcat' \in Seq(Row), Shape(tcat', fcat'),
           \A i \in DOMAIN System : OnceIn(tcat', System[i])
    PROVE  CatInv'
<1>0. /\ server' = "starting" /\ stats' = AllCounted(tcat')
      /\ UNCHANGED <<rows, committed, held, op, at, name, todo, answer, mutex, num_calls>>
  BY DEF Starts, calls
<1>1. Quiet /\ \A t \in Txn : ~Naming(t)  BY QuietIsWhole
<1>2. Quiet'  BY <1>0, <1>1 DEF Quiet
<1>3. ASSUME NEW n \in Name
      PROVE  /\ stats'[n] \in Stat \cup {None}
             /\ stats'[n] # None => stats'[n].age = 0 /\ stats'[n].by = None
  <2> DEFINE c == CASE n = "table_catalog" -> Len(tcat')
                    [] n = "field_catalog" -> Len(fcat')
                    [] OTHER -> rows[n]
  <2>1. c \in Nat
    <3>1. Len(tcat') \in Nat /\ Len(fcat') \in Nat  OBVIOUS
    <3>2. rows[n] \in 0..MaxRows /\ MaxRows \in Nat  BY CatalogAssumption DEF CatInv, CatTyped
    <3>3. rows[n] \in Nat  BY <3>2
    <3> QED  BY <3>1, <3>3
  <2>2. stats'[n] = IF n \in ToSet(tcat') THEN [records |-> c, age |-> 0, by |-> None] ELSE None
    BY <1>0 DEF AllCounted
  <2> HIDE DEF c
  <2>3. PICK s \in Stat : s = [records |-> c, age |-> 0, by |-> None]  BY <2>1 DEF Stat
  <2>4. s.age = 0 /\ s.by = None  BY <2>3
  <2> QED  BY <2>2, <2>3, <2>4
<1>4. stats' \in [Name -> Stat \cup {None}]
  <2>1. stats' = [n \in Name |-> stats'[n]]  BY <1>0 DEF AllCounted
  <2> QED  BY <1>3, <2>1
<1>5. CatTyped'  BY <1>0, <1>4 DEF CatInv, CatTyped
<1>6. \A t \in Txn : ~Naming(t)'  BY <1>2 DEF Quiet, Naming
<1>7. CatalogIsWhole'
  <2>1. \A i \in DOMAIN System : Group(fcat', System[i])  BY Names DEF Shape
  <2> QED  BY <1>6, <2>1 DEF CatalogIsWhole
<1>8. CommittedIsWhole'  BY <1>0 DEF CatInv, CommittedIsWhole
<1>9. WritesAreLocked'  BY <1>0 DEF WritesAreLocked
<1>10. held' \in [Txn -> [Name -> Lock!Mode]]  BY <1>0 DEF CatInv, LocksExclude
<1>11. \A n \in Name : stats'[n] # None => stats'[n].age <= num_calls' /\ stats'[n].by \notin Txn
  <2>1. num_calls \in Nat  BY CatalogAssumption DEF CatInv, CatTyped
  <2>2. 0 <= num_calls  BY <2>1
  <2> QED  BY <1>0, <1>3, <2>2, CatalogAssumption
<1> QED  BY <1>2, <1>5, <1>7, <1>8, <1>9, <1>10, <1>11, QuietIsEnoughNext

LEMMA StartNewKeepsCatInv ==
    ASSUME CatInv, StartNew
    PROVE  CatInv'
<1>1. /\ server \in {"down", "failed"} /\ is_new' = FALSE /\ Starts /\ tcat' = System
      /\ fcat' = FlattenSeq([i \in DOMAIN System |-> RowsOf(System[i])])
  BY DEF StartNew
<1>2. /\ tcat' \in Seq(Name) /\ fcat' \in Seq(Row) /\ Shape(tcat', fcat')
      /\ \A i \in DOMAIN System : OnceIn(tcat', System[i])
  BY <1>1, SystemRows
<1> QED  BY <1>1, <1>2, StartsKeepsCatInv

LEMMA StartOldKeepsCatInv ==
    ASSUME CatInv, StartOld
    PROVE  CatInv'
<1>1. /\ server \in {"down", "failed"} /\ \A i \in DOMAIN System : Listed(System[i])
      /\ Starts /\ UNCHANGED <<is_new, tcat, fcat>>
  BY DEF StartOld
<1>2. tcat \in Seq(Name) /\ fcat \in Seq(Row) /\ is_new \in BOOLEAN  BY DEF CatInv, CatTyped
<1>3. Shape(tcat, fcat)  BY <1>1, QuietIsWhole
<1>4. ASSUME NEW i \in DOMAIN System PROVE OnceIn(tcat, System[i])
  <2>1. tcat = committed.tcat  BY <1>1 DEF CatInv, CommittedIsWhole
  <2>2. PICK j \in DOMAIN tcat : tcat[j] = System[i]  BY <1>1 DEF Listed, ToSet
  <2> QED  BY <2>1, <2>2 DEF CatInv, CommittedIsWhole
<1> QED  BY <1>1, <1>2, <1>3, <1>4, StartsKeepsCatInv

LEMMA StartFailsKeepsCatInv ==
    ASSUME CatInv, StartFails
    PROVE  CatInv'
<1>0. /\ server \in {"down", "failed"} /\ server' = "failed"
      /\ UNCHANGED <<is_new, tcat, fcat, rows, committed, held, op, at, name, todo, answer,
                     mutex, stats, num_calls>>
  BY DEF StartFails, data, calls, statistics
<1>1. Quiet /\ Shape(tcat, fcat) /\ \A t \in Txn : ~Naming(t)  BY <1>0, QuietIsWhole
<1>2. Quiet'  BY <1>0, <1>1 DEF Quiet
<1>3. CatTyped'  BY <1>0 DEF CatInv, CatTyped
<1>4. CatalogIsWhole'
  <2>1. \A t \in Txn : ~Naming(t)'  BY <1>2 DEF Quiet, Naming
  <2> QED  BY <1>0, <1>1, <2>1 DEF CatalogIsWhole
<1>5. CommittedIsWhole'  BY <1>0 DEF CatInv, CommittedIsWhole
<1>6. WritesAreLocked'  BY <1>0 DEF WritesAreLocked
<1>7. held' \in [Txn -> [Name -> Lock!Mode]]  BY <1>0 DEF CatInv, LocksExclude
<1>8. \A n \in Name : stats'[n] # None => stats'[n].age <= num_calls' /\ stats'[n].by \notin Txn
  <2>1. \A n \in Name : stats[n] # None => stats[n].age <= num_calls /\ stats[n].by \notin Txn
    BY <1>1 DEF CatInv, StatsAreSound, Counted, Quiet
  <2> QED  BY <1>0, <2>1
<1> QED  BY <1>2, <1>3, <1>4, <1>5, <1>6, <1>7, <1>8, QuietIsEnoughNext

LEMMA StartCommitsKeepsCatInv ==
    ASSUME CatInv, StartCommits
    PROVE  CatInv'
<1>0. /\ server = "starting" /\ server' = "up" /\ committed' = Current
      /\ UNCHANGED <<is_new, tcat, fcat, rows, held, op, at, name, todo, answer,
                     mutex, stats, num_calls>>
  BY DEF StartCommits, data, calls, statistics
<1>1. Quiet /\ Shape(tcat, fcat) /\ \A t \in Txn : ~Naming(t)  BY <1>0, QuietIsWhole
<1>2. Quiet'  BY <1>0, <1>1 DEF Quiet
<1>3. committed' \in CatalogTables /\ committed'.tcat = tcat /\ committed'.fcat = fcat
  <2>1. Current.tcat = tcat /\ Current.fcat = fcat  BY DEF Current
  <2> QED  BY <1>0, <2>1, CurrentTyped DEF CatInv
<1>4. CatTyped'  BY <1>0, <1>3 DEF CatInv, CatTyped
<1>5. \A i \in DOMAIN System : OnceIn(tcat, System[i]) /\ Group(fcat, System[i])
  BY <1>0 DEF CatInv, CatalogIsWhole
<1>6. CatalogIsWhole'
  <2>1. \A t \in Txn : ~Naming(t)'  BY <1>2 DEF Quiet, Naming
  <2> QED  BY <1>0, <1>1, <1>5, <2>1 DEF CatalogIsWhole
<1>7. CommittedIsWhole'  BY <1>0, <1>1, <1>3, <1>5 DEF CommittedIsWhole
<1>8. WritesAreLocked'  BY <1>0, <1>3 DEF WritesAreLocked
<1>9. held' \in [Txn -> [Name -> Lock!Mode]]  BY <1>0 DEF CatInv, LocksExclude
<1>10. \A n \in Name : stats'[n] # None => stats'[n].age <= num_calls' /\ stats'[n].by \notin Txn
  <2>1. \A n \in Name : stats[n] # None => stats[n].age <= num_calls /\ stats[n].by \notin Txn
    BY <1>1 DEF CatInv, StatsAreSound, Counted, Quiet
  <2> QED  BY <1>0, <2>1
<1> QED  BY <1>2, <1>4, <1>6, <1>7, <1>8, <1>9, <1>10, QuietIsEnoughNext

(* After a crash the catalog is what the last commit has left.             *)
LEMMA CrashKeepsCatInv ==
    ASSUME CatInv, Crash
    PROVE  CatInv'
<1>0. /\ server' = "down" /\ tcat' = committed.tcat /\ fcat' = committed.fcat
      /\ rows' = committed.rows /\ committed' = committed /\ is_new' = is_new
      /\ op' = [t \in Txn |-> "none"] /\ at' = [t \in Txn |-> "start"]
      /\ name' = [t \in Txn |-> None] /\ todo' = [t \in Txn |-> <<>>]
      /\ answer' = [t \in Txn |-> [n \in Name |-> None]]
      /\ held' = [t \in Txn |-> [n \in Name |-> "none"]]
      /\ mutex' = None /\ stats' = [n \in Name |-> None] /\ num_calls' = 0
  BY DEF Crash, BecomesCurrent, Everybody, EveryTable
<1>1. Quiet'  BY <1>0, CatalogAssumption DEF Quiet
<1>2. CatTyped'
  <2>1. committed \in CatalogTables /\ is_new \in BOOLEAN  BY DEF CatInv, CatTyped
  <2>2. /\ committed.tcat \in Seq(Name) /\ committed.fcat \in Seq(Row)
        /\ committed.rows \in [Name -> 0..MaxRows]
    BY <2>1 DEF CatalogTables
  <2>3. 0 \in 0..RefreshAfter  BY CatalogAssumption
  <2>4. /\ op' \in [Txn -> Ops] /\ at' \in [Txn -> Places] /\ name' \in [Txn -> Name \cup {None}]
        /\ todo' \in [Txn -> Seq(Name)]
    BY <1>0 DEF Ops, Places
  <2>5. answer' \in [Txn -> [Name -> Seq(STRING) \cup {None}]]  BY <1>0
  <2>6. stats' \in [Name -> Stat \cup {None}]  BY <1>0
  <2> QED  BY <1>0, <2>1, <2>2, <2>3, <2>4, <2>5, <2>6 DEF CatTyped
<1>3. CatalogIsWhole'
  <2>1. \A t \in Txn : ~Naming(t)'  BY <1>1 DEF Quiet, Naming
  <2> QED  BY <1>0, <2>1 DEF CatInv, CommittedIsWhole, CatalogIsWhole
<1>4. CommittedIsWhole'  BY <1>0 DEF CatInv, CommittedIsWhole
<1>5. WritesAreLocked'  BY <1>0 DEF WritesAreLocked
<1>6. held' \in [Txn -> [Name -> Lock!Mode]]  BY <1>0 DEF Lock!Mode
<1>7. \A n \in Name : stats'[n] # None => stats'[n].age <= num_calls' /\ stats'[n].by \notin Txn
  BY <1>0
<1> QED  BY <1>1, <1>2, <1>3, <1>4, <1>5, <1>6, <1>7, QuietIsEnoughNext

-----------------------------------------------------------------------------
(* The theorems *)

LEMMA InitCatInv == Init => CatInv
<1> SUFFICES ASSUME Init PROVE CatInv  OBVIOUS
<1>0. /\ server = "down" /\ is_new = TRUE /\ tcat = <<>> /\ fcat = <<>>
      /\ rows = [n \in Name |-> 0]
      /\ committed = [tcat |-> tcat, fcat |-> fcat, rows |-> rows]
      /\ op = [t \in Txn |-> "none"] /\ at = [t \in Txn |-> "start"]
      /\ name = [t \in Txn |-> None] /\ todo = [t \in Txn |-> <<>>]
      /\ answer = [t \in Txn |-> [n \in Name |-> None]]
      /\ held = [t \in Txn |-> [n \in Name |-> "none"]]
      /\ mutex = None /\ stats = [n \in Name |-> None] /\ num_calls = 0
  BY DEF Init, Everybody, EveryTable
<1>1. Quiet  BY <1>0, CatalogAssumption DEF Quiet
<1>2. CatTyped
  <2>1. tcat \in Seq(Name) /\ fcat \in Seq(Row) /\ rows \in [Name -> 0..MaxRows]
    BY <1>0, CatalogAssumption
  <2>2. committed \in CatalogTables  BY <1>0, <2>1 DEF CatalogTables
  <2>3. 0 \in 0..RefreshAfter  BY CatalogAssumption
  <2>4. /\ op \in [Txn -> Ops] /\ at \in [Txn -> Places] /\ name \in [Txn -> Name \cup {None}]
        /\ todo \in [Txn -> Seq(Name)]
    BY <1>0 DEF Ops, Places
  <2>5. answer \in [Txn -> [Name -> Seq(STRING) \cup {None}]]  BY <1>0
  <2>6. stats \in [Name -> Stat \cup {None}]  BY <1>0
  <2> QED  BY <1>0, <2>1, <2>2, <2>3, <2>4, <2>5, <2>6 DEF CatTyped
<1>3. Shape(tcat, fcat)
  <2>1. 1..Len(<<>>) = {}  OBVIOUS
  <2> QED  BY <1>0, <2>1 DEF Shape, OnceIn
<1>4. CatalogIsWhole  BY <1>0, <1>1, <1>3 DEF CatalogIsWhole, Quiet, Naming
<1>5. CommittedIsWhole
  <2>1. committed.tcat = tcat /\ committed.fcat = fcat /\ DOMAIN committed.tcat = {}  BY <1>0
  <2> QED  BY <1>0, <1>3, <2>1 DEF CommittedIsWhole
<1>6. WritesAreLocked  BY <1>0 DEF WritesAreLocked
<1>7. held \in [Txn -> [Name -> Lock!Mode]]  BY <1>0 DEF Lock!Mode
<1>8. \A n \in Name : stats[n] # None => stats[n].age <= num_calls /\ stats[n].by \notin Txn
  BY <1>0
<1> QED  BY <1>1, <1>2, <1>4, <1>5, <1>6, <1>7, <1>8, QuietIsEnough

LEMMA NextKeepsCatInv == CatInv /\ [Next]_vars => CatInv'
<1> SUFFICES ASSUME CatInv, [Next]_vars PROVE CatInv'  OBVIOUS
<1>1. CASE UNCHANGED vars  BY <1>1, StutterKeepsCatInv
<1>2. CASE \E t \in Txn, o \in {"create", "query", "insert"}, n \in UserTable : Statement(t, o, n)
  BY <1>2, StatementKeepsCatInv
<1>3. ASSUME NEW t \in Txn, Run(t) PROVE CatInv'
  <2>1. CASE CreateTableSearches(t)  BY <2>1, CreateTableSearchesKeepsCatInv
  <2>2. CASE CreateTableRow(t)  BY <2>2, CreateTableRowKeepsCatInv
  <2>3. CASE CreateFieldRows(t)  BY <2>3, CreateFieldRowsKeepsCatInv
  <2>4. CASE GetLayoutFindsTable(t)  BY <2>4, GetLayoutFindsTableKeepsCatInv
  <2>5. CASE GetLayoutReadsFields(t)  BY <2>5, GetLayoutReadsFieldsKeepsCatInv
  <2>6. CASE GetStatInfo(t)  BY <2>6, GetStatInfoKeepsCatInv
  <2>7. CASE CalculateTableStats(t)  BY <2>7, CalculateTableStatsKeepsCatInv
  <2>8. CASE GetStatInfoReturns(t)  BY <2>8, GetStatInfoReturnsKeepsCatInv
  <2>9. CASE InsertSearches(t)  BY <2>9, InsertSearchesKeepsCatInv
  <2>10. CASE Insert(t)  BY <2>10, InsertKeepsCatInv
  <2>11. CASE NoRoom(t)  BY <2>11, NoRoomKeepsCatInv
  <2>12. CASE LockAbort(t)  BY <2>12, LockAbortKeepsCatInv
  <2> QED  BY <1>3, <2>1, <2>2, <2>3, <2>4, <2>5, <2>6, <2>7, <2>8, <2>9, <2>10, <2>11, <2>12
           DEF Run
<1>4. CASE \E t \in Txn : Commit(t)  BY <1>4, CommitKeepsCatInv
<1>5. CASE \E t \in Txn : Rollback(t)  BY <1>5, RollbackKeepsCatInv
<1>6. CASE StartNew  BY <1>6, StartNewKeepsCatInv
<1>7. CASE StartOld  BY <1>7, StartOldKeepsCatInv
<1>8. CASE StartFails  BY <1>8, StartFailsKeepsCatInv
<1>9. CASE StartCommits  BY <1>9, StartCommitsKeepsCatInv
<1>10. CASE Crash  BY <1>10, CrashKeepsCatInv
<1> QED  BY <1>1, <1>2, <1>3, <1>4, <1>5, <1>6, <1>7, <1>8, <1>9, <1>10 DEF Next

(* The invariant holds in every reachable state: the catalog is whole but  *)
(* for who is between its two inserts, whatever the transactions do, and   *)
(* wherever they fail or the server crashes.                               *)
THEOREM CatalogInvariant == Spec => []CatInv
<1>1. Init => CatInv  BY InitCatInv
<1>2. CatInv /\ [Next]_vars => CatInv'  BY NextKeepsCatInv
<1> QED  BY <1>1, <1>2, PTL DEF Spec

(* Type correctness of TableManager and StatManager; who holds the mutex   *)
(* of the statistics is inside GetStatInfo.                                *)
LEMMA CatInvTypes == CatInv => TypeOK
<1> SUFFICES ASSUME CatInv PROVE TypeOK  OBVIOUS
<1>1. Lock!TypeOK  BY DEF CatInv, LocksExclude, Lock!TypeOK
<1>2. mutex # None => at[mutex] = "count"
  BY DEF CatInv, CatTyped, InPlaces, InPlace
<1>3. \A t \in Txn : name[t] \in Name \cup {None} /\ todo[t] \in Seq(Name)
  BY DEF CatInv, CatTyped
<1> QED  BY <1>1, <1>2, <1>3 DEF CatInv, CatTyped, Ops, Places, TypeOK

THEOREM TypeCorrect == Spec => []TypeOK
<1>1. CatInv => TypeOK  BY CatInvTypes
<1> QED  BY <1>1, CatalogInvariant, PTL

(* LayoutIsRight: GetLayout tells a transaction the fields the table was   *)
(* created with, and that stays so until the transaction ends; and the     *)
(* catalog of a running server describes itself.                           *)
LEMMA CatInvLayouts == CatInv => LayoutIsRight
<1> SUFFICES ASSUME CatInv PROVE LayoutIsRight  OBVIOUS
<1>1. tcat \in Seq(Name) /\ fcat \in Seq(Row)  BY DEF CatInv, CatTyped
<1>2. \A n \in Name : Once(n) <=> OnceIn(tcat, n)  BY <1>1, OnceIs
<1>3. \A t \in Txn, n \in Name :
         /\ answer[t][n] = Absent => ~Listed(n)
         /\ answer[t][n] \notin {None, Absent} /\ Once(n) => answer[t][n] = Fields[n]
  BY <1>2 DEF CatInv, AnswersAreRight
<1>4. ASSUME server = "up", NEW i \in DOMAIN System
      PROVE  Once(System[i]) /\ LayoutOf(System[i]) = Fields[System[i]]
  <2>1. System[i] \in Name  BY Names
  <2>2. OnceIn(tcat, System[i]) /\ Group(fcat, System[i])
    BY <1>4 DEF CatInv, CatalogIsWhole
  <2> QED  BY <1>1, <1>2, <2>1, <2>2, LayoutOfGroup
<1> QED  BY <1>3, <1>4 DEF LayoutIsRight

THEOREM LayoutsAreRight == Spec => []LayoutIsRight
<1>1. CatInv => LayoutIsRight  BY CatInvLayouts
<1> QED  BY <1>1, CatalogInvariant, PTL

(* StatsAreFresh: no estimate is older than the calls after which all are  *)
(* counted again, and a transaction's own counts stay exact.               *)
LEMMA CatInvStats == CatInv => StatsAreFresh
<1> SUFFICES ASSUME CatInv, NEW n \in Counted
             PROVE  /\ stats[n].age <= RefreshAfter
                    /\ \A t \in Txn : stats[n].by = t /\ held[t][n] # "exclusive"
                                         => stats[n].records = Records(n)
  BY DEF StatsAreFresh
<1>1. /\ stats[n].age <= num_calls
      /\ \A t \in Txn : stats[n].by = t /\ held[t][n] # "exclusive" => stats[n].records = Records(n)
  BY DEF CatInv, StatsAreSound
<1>2. PICK a \in Nat : a = stats[n].age
  <2>1. stats[n] \in Stat  BY DEF Counted, CatInv, CatTyped
  <2> QED  BY <2>1 DEF Stat
<1>3. PICK k \in 0..RefreshAfter : k = num_calls /\ RefreshAfter \in Nat
  BY CatalogAssumption DEF CatInv, CatTyped
<1>4. a <= RefreshAfter  BY <1>1, <1>2, <1>3
<1> QED  BY <1>1, <1>2, <1>4

THEOREM StatisticsAreFresh == Spec => []StatsAreFresh
<1>1. CatInv => StatsAreFresh  BY CatInvStats
<1> QED  BY <1>1, CatalogInvariant, PTL

-----------------------------------------------------------------------------
(* Updates of a table: the cursor                                          *)

(* The order of the positions in a table is a strict total order. *)
LEMMA BeforeIsAnOrder ==
    ASSUME NEW p \in Int \X Int, NEW q \in Int \X Int
    PROVE  /\ ~Before(p, p)
           /\ Before(p, q) => ~Before(q, p)
           /\ p = q \/ Before(p, q) \/ Before(q, p)
BY DEF Before

LEMMA BeforeIsTransitive ==
    ASSUME NEW p \in Int \X Int, NEW q \in Int \X Int, NEW r \in Int \X Int,
           Before(p, q), Before(q, r)
    PROVE  Before(p, r)
BY DEF Before

(* Positions that are not empty have a first one, in the first row that has *)
(* any, and First finds it.                                                 *)
LEMMA FirstSlot ==
    ASSUME NEW m \in Nat, NEW n \in Nat,
           NEW S, S \subseteq (1..m) \X (1..n), S # {}
    PROVE  First(S) \in S /\ \A q \in S \ {First(S)} : Before(First(S), q)
<1> DEFINE Rows == {p[1] : p \in S}
<1>1. Rows \subseteq 0..m /\ Rows # {}  OBVIOUS
<1>2. PICK r \in Rows : \A x \in Rows : r <= x
  <2> HIDE DEF Rows
  <2> QED  BY <1>1, FirstPosition
<1> DEFINE Cols == {p[2] : p \in {q \in S : q[1] = r}}
<1>3. Cols \subseteq 0..n /\ Cols # {}  OBVIOUS
<1>4. PICK c \in Cols : \A x \in Cols : c <= x
  <2> HIDE DEF Rows, Cols
  <2> QED  BY <1>3, FirstPosition
<1>5. PICK p \in S : p[1] = r /\ p[2] = c  OBVIOUS
<1>6. ASSUME NEW q \in S \ {p} PROVE Before(p, q)
  <2>1. q[1] \in Rows /\ (q[1] = r => q[2] \in Cols)  OBVIOUS
  <2>2. r <= q[1] /\ (q[1] = r => c <= q[2])  BY <1>2, <1>4, <2>1
  <2>3. p \in (1..m) \X (1..n) /\ q \in (1..m) \X (1..n) /\ p # q  OBVIOUS
  <2> HIDE DEF Rows, Cols
  <2> QED  BY <1>5, <2>2, <2>3 DEF Before
<1> QED  BY <1>6 DEF First

(* The positions in the blocks of a table. *)
Positions(blocks) == (1..Len(blocks)) \X Slots

(* A scan of table t whose cursor is at a position. *)
CursorAt(t, here) == [op |-> "table", table |-> t, at |-> here]

(* From any cursor the scan goes to the next record, or finds none.         *)
LEMMA NextRecord ==
    ASSUME UpdateTypeOK, NEW t \in Tables, NEW here \in Int \X Int
    PROVE  \/ /\ TableNext(CursorAt(t, here)).found = FALSE
              /\ \A p \in Positions(tables[t]) : Before(here, p) => tables[t][p[1]][p[2]] = Empty
           \/ /\ TableNext(CursorAt(t, here)).found = TRUE
              /\ \E p \in Positions(tables[t]) :
                    /\ TableNext(CursorAt(t, here)).scan = CursorAt(t, p)
                    /\ Before(here, p) /\ tables[t][p[1]][p[2]] # Empty
                    /\ \A q \in Positions(tables[t]) :
                          Before(here, q) /\ Before(q, p) => tables[t][q[1]][q[2]] = Empty
<1> DEFINE s == CursorAt(t, here)
           rest == {p \in Used(t) : Before(here, p)}
<1>1. /\ tables[t] \in Seq(Block(t)) /\ NumSlots \in Nat
      /\ Len(tables[t]) \in Nat /\ DOMAIN tables[t] = 1..Len(tables[t])
  BY UpdateAssumption DEF UpdateTypeOK
<1>2. /\ s.table = t /\ s.at = here
      /\ \A p : [s EXCEPT !.at = p] = CursorAt(t, p)
  BY DEF CursorAt
<1>3. \A p \in Positions(tables[t]) : p \in rest <=> Before(here, p) /\ tables[t][p[1]][p[2]] # Empty
  BY <1>1 DEF Used, Positions
<1>4. rest \subseteq Positions(tables[t])  BY <1>1 DEF Used, Positions
<1>5. TableNext(s) = IF rest = {}
                     THEN [found |-> FALSE, scan |-> [s EXCEPT !.at = <<Len(tables[t]), 0>>]]
                     ELSE [found |-> TRUE, scan |-> [s EXCEPT !.at = First(rest)]]
  BY <1>2 DEF TableNext
<1> HIDE DEF rest, s
<1>6. CASE rest = {}
  <2>1. TableNext(s).found = FALSE  BY <1>5, <1>6
  <2> QED  BY <1>3, <1>6, <2>1 DEF s
<1>7. CASE rest # {}
  <2>1. rest \subseteq (1..Len(tables[t])) \X (1..NumSlots)  BY <1>4 DEF Positions, Slots
  <2>2. PICK p : p = First(rest)  OBVIOUS
  <2>3. p \in rest /\ \A q \in rest \ {p} : Before(p, q)  BY <1>1, <1>7, <2>1, <2>2, FirstSlot
  <2>4. TableNext(s).found = TRUE /\ TableNext(s).scan = CursorAt(t, p)
    BY <1>2, <1>5, <1>7, <2>2
  <2>5. ASSUME NEW q \in Positions(tables[t]), Before(here, q), Before(q, p)
        PROVE  tables[t][q[1]][q[2]] = Empty
    <3>1. p \in Int \X Int /\ q \in Int \X Int  BY <1>1, <1>4, <2>3 DEF Positions, Slots
    <3>2. ~Before(p, q) /\ q # p  BY <2>5, <3>1, BeforeIsAnOrder
    <3>3. q \notin rest  BY <2>3, <3>2
    <3> QED  BY <1>3, <2>5, <3>3
  <2> QED  BY <1>3, <1>4, <2>3, <2>4, <2>5 DEF s
<1> QED  BY <1>6, <1>7

-----------------------------------------------------------------------------
(* Updates of a table: the records an update deals with                    *)

(* The records that satisfy the predicate of u; those a cursor has passed. *)
Chosen(old, u) ==
    {p \in Positions(old) : /\ old[p[1]][p[2]] # Empty
                          /\ IsSatisfied(u.where, old[p[1]][p[2]])}
Dealt(old, u, here) == {p \in Chosen(old, u) : ~Before(here, p)}

(* What the table is now, new, when u began with old and its cursor is here. *)
Partly(old, new, u, here) ==
    /\ Len(new) = Len(old)
    /\ \A p \in Positions(old) :
          new[p[1]][p[2]] = IF p \in Dealt(old, u, here) THEN Updated(u, old[p[1]][p[2]])
                            ELSE old[p[1]][p[2]]

(* There are as many positions as slots.                                    *)
LEMMA PositionsInBlocks ==
    ASSUME NEW t, NEW old \in Seq(Block(t)), NEW S, S \subseteq Positions(old)
    PROVE  /\ IsFiniteSet(S) /\ Cardinality(S) \in 0..(NumSlots * Len(old))
           /\ Positions(old) \subseteq Int \X Int
<1>1. PICK m, n \in Nat : m = Len(old) /\ n = NumSlots  BY UpdateAssumption
<1>2. IsFiniteSet(1..m) /\ Cardinality(1..m) = m /\ IsFiniteSet(1..n) /\ Cardinality(1..n) = n
  <2>1. 1 \in Int /\ m \in Int /\ n \in Int  OBVIOUS
  <2> QED  BY <2>1, FS_Interval
<1>3. Positions(old) = (1..m) \X (1..n)  BY <1>1 DEF Positions, Slots
<1>4. IsFiniteSet(Positions(old)) /\ Cardinality(Positions(old)) = m * n
  <2>1. /\ IsFiniteSet((1..m) \X (1..n))
        /\ Cardinality((1..m) \X (1..n)) = Cardinality(1..m) * Cardinality(1..n)
    BY <1>2, FS_Product, Zenon
  <2> QED  BY <1>2, <1>3, <2>1, Zenon
<1>5. IsFiniteSet(S) /\ Cardinality(S) <= Cardinality(Positions(old))  BY <1>4, FS_Subset
<1>6. Cardinality(S) \in Nat  BY <1>5, FS_CardinalityType
<1>7. m * n = NumSlots * Len(old) /\ m * n \in Nat  BY <1>1
<1>8. Positions(old) \subseteq Int \X Int  BY <1>3
<1> QED  BY <1>4, <1>5, <1>6, <1>7, <1>8

(* At the start no record has been dealt with. *)
LEMMA DealtAtStart ==
    ASSUME NEW t, NEW old \in Seq(Block(t)), NEW u
    PROVE  /\ Dealt(old, u, FirstBlock) = {}
           /\ Partly(old, old, u, FirstBlock)
<1>1. ASSUME NEW p \in Positions(old) PROVE Before(FirstBlock, p)
  <2>1. p[1] \in 1..Len(old) /\ p[2] \in 1..NumSlots  BY DEF Positions, Slots
  <2>2. Len(old) \in Nat /\ NumSlots \in Nat  BY UpdateAssumption
  <2>3. FirstBlock[1] = 1 /\ FirstBlock[2] = 0  BY DEF FirstBlock
  <2> QED  BY <2>1, <2>2, <2>3 DEF Before
<1>2. Dealt(old, u, FirstBlock) = {}  BY <1>1 DEF Dealt, Chosen
<1> QED  BY <1>2 DEF Partly

(* A record p is the next one after a cursor: others are behind the one      *)
(* exactly when they are behind the other.                                  *)
LEMMA NothingBetween ==
    ASSUME NEW t, NEW old \in Seq(Block(t)),
           NEW here \in Int \X Int, NEW p \in Positions(old), Before(here, p),
           \A q \in Positions(old) : Before(here, q) /\ Before(q, p) => old[q[1]][q[2]] = Empty,
           NEW q \in Positions(old), q # p, old[q[1]][q[2]] # Empty
    PROVE  Before(p, q) <=> Before(here, q)
<1>1. p \in Int \X Int /\ q \in Int \X Int  BY PositionsInBlocks
<1>2. Before(p, q) => Before(here, q)  BY <1>1, BeforeIsTransitive
<1>3. ASSUME Before(here, q), ~Before(p, q) PROVE FALSE
  <2>1. Before(q, p)  BY <1>1, <1>3, BeforeIsAnOrder
  <2> QED  BY <1>3, <2>1
<1> QED  BY <1>2, <1>3

(* An update's cursor goes on to p.                                         *)
LEMMA DealtOnTheWay ==
    ASSUME NEW t, NEW old \in Seq(Block(t)), NEW u,
           NEW here \in Int \X Int, NEW p \in Positions(old), Before(here, p),
           old[p[1]][p[2]] # Empty,
           \A q \in Positions(old) : Before(here, q) /\ Before(q, p) => old[q[1]][q[2]] = Empty
    PROVE  /\ p \notin Dealt(old, u, here)
           /\ IsSatisfied(u.where, old[p[1]][p[2]])
                 => Dealt(old, u, p) = Dealt(old, u, here) \cup {p}
           /\ ~IsSatisfied(u.where, old[p[1]][p[2]])
                 => Dealt(old, u, p) = Dealt(old, u, here)
<1>1. p \in Int \X Int  BY PositionsInBlocks
<1>2. ASSUME NEW q \in Positions(old), q # p, old[q[1]][q[2]] # Empty
      PROVE  Before(p, q) <=> Before(here, q)
  BY <1>2, NothingBetween
<1>3. ~Before(p, p)  BY <1>1, BeforeIsAnOrder
<1>4. \A q \in Chosen(old, u) : q \in Positions(old) /\ old[q[1]][q[2]] # Empty
  BY DEF Chosen
<1>5. p \in Chosen(old, u) <=> IsSatisfied(u.where, old[p[1]][p[2]])  BY DEF Chosen
<1> QED  BY <1>2, <1>3, <1>4, <1>5 DEF Dealt

(* No record is left: all have been dealt with.                             *)
LEMMA DealtAtEnd ==
    ASSUME NEW old, NEW u, NEW here,
           \A q \in Positions(old) : Before(here, q) => old[q[1]][q[2]] = Empty
    PROVE  Dealt(old, u, here) = Chosen(old, u)
BY DEF Dealt, Chosen

-----------------------------------------------------------------------------
(* Updates of a table: the invariant                                       *)

(* An update is under way, and its cursor is at a position.                 *)
HalfwayAt(here) ==
    /\ scan = [op |-> "select", pred |-> stmt.where, scan |-> CursorAt(stmt.table, here)]
    /\ count = Cardinality(Dealt(before[stmt.table], stmt, here))
    /\ Partly(before[stmt.table], tables[stmt.table], stmt, here)

Halfway ==
    /\ before[stmt.table] \in Seq(Block(stmt.table))
    /\ \A t \in Tables \ {stmt.table} : tables[t] = before[t]
    /\ \E here \in Int \X Int : HalfwayAt(here)

UpdateInv ==
    /\ UpdateTypeOK
    /\ stmt.kind \in {"delete", "modify"} => stmt \in Updates
    /\ Updating => Halfway
    /\ UpdatesAreExact

(* What a turn of the loop meets.                                           *)
MeetsNone(here) ==
    /\ TableNext(scan.scan).found = FALSE
    /\ Dealt(before[stmt.table], stmt, here) = Chosen(before[stmt.table], stmt)

Meets(here, p) ==
    LET old == before[stmt.table]
        n == TableNext(scan.scan)
    IN /\ n.found = TRUE /\ n.scan = CursorAt(stmt.table, p)
       /\ tables[stmt.table][p[1]][p[2]] = old[p[1]][p[2]]
       /\ p \notin Dealt(old, stmt, here)
       /\ Dealt(old, stmt, p) = IF IsSatisfied(stmt.where, old[p[1]][p[2]])
                                THEN Dealt(old, stmt, here) \cup {p}
                                ELSE Dealt(old, stmt, here)

LEMMA TurnMeets ==
    ASSUME UpdateInv, Updating
    PROVE  /\ stmt \in Updates /\ stmt.table \in Tables /\ scan.pred = stmt.where
           /\ \E here \in Int \X Int :
                 /\ HalfwayAt(here)
                 /\ MeetsNone(here) \/ \E p \in Positions(before[stmt.table]) : Meets(here, p)
<1>1. stmt \in Updates /\ stmt.table \in Tables
  BY UpdateAssumption DEF UpdateInv, Updating
<1>2. PICK here \in Int \X Int : HalfwayAt(here)  BY DEF UpdateInv, Halfway
<1>3. scan.pred = stmt.where /\ scan.scan = CursorAt(stmt.table, here)
  BY <1>2 DEF HalfwayAt
<1>4. PICK T, old, new, u : T = stmt.table /\ old = before[T] /\ new = tables[T] /\ u = stmt
  OBVIOUS
<1>5. old \in Seq(Block(T)) /\ Partly(old, new, u, here)
  BY <1>2, <1>4 DEF UpdateInv, Halfway, HalfwayAt
<1>6. Positions(new) = Positions(old)  BY <1>5 DEF Partly, Positions
<1>7. ASSUME NEW p \in Positions(old), Before(here, p)
      PROVE  new[p[1]][p[2]] = old[p[1]][p[2]]
  BY <1>5, <1>7 DEF Partly, Dealt
<1>8. UpdateTypeOK  BY DEF UpdateInv
<1>9. CASE /\ TableNext(scan.scan).found = FALSE
           /\ \A p \in Positions(new) : Before(here, p) => new[p[1]][p[2]] = Empty
  <2>1. Dealt(old, u, here) = Chosen(old, u)  BY <1>6, <1>7, <1>9, DealtAtEnd
  <2>2. MeetsNone(here)  BY <1>4, <1>9, <2>1 DEF MeetsNone
  <2> QED  BY <1>1, <1>2, <1>3, <2>2
<1>10. CASE /\ TableNext(scan.scan).found = TRUE
            /\ \E p \in Positions(new) :
                  /\ TableNext(scan.scan).scan = CursorAt(T, p)
                  /\ Before(here, p) /\ new[p[1]][p[2]] # Empty
                  /\ \A q \in Positions(new) :
                        Before(here, q) /\ Before(q, p) => new[q[1]][q[2]] = Empty
  <2>1. PICK p \in Positions(old) :
           /\ TableNext(scan.scan).scan = CursorAt(T, p)
           /\ Before(here, p) /\ new[p[1]][p[2]] # Empty
           /\ \A q \in Positions(old) :
                 Before(here, q) /\ Before(q, p) => new[q[1]][q[2]] = Empty
    BY <1>6, <1>10
  <2>2. new[p[1]][p[2]] = old[p[1]][p[2]]  BY <1>7, <2>1
  <2>3. \A q \in Positions(old) : Before(here, q) /\ Before(q, p) => old[q[1]][q[2]] = Empty
    BY <1>7, <2>1
  <2>4. /\ p \notin Dealt(old, u, here)
        /\ IsSatisfied(u.where, old[p[1]][p[2]])
              => Dealt(old, u, p) = Dealt(old, u, here) \cup {p}
        /\ ~IsSatisfied(u.where, old[p[1]][p[2]])
              => Dealt(old, u, p) = Dealt(old, u, here)
    BY <1>5, <2>1, <2>2, <2>3, DealtOnTheWay
  <2>5. Meets(here, p)  BY <1>4, <1>10, <2>1, <2>2, <2>4 DEF Meets
  <2> QED  BY <1>1, <1>2, <1>3, <1>4, <2>5
<1>11. T \in Tables /\ scan.scan = CursorAt(T, here) /\ new = tables[T]  BY <1>1, <1>3, <1>4
<1>12. \/ /\ TableNext(scan.scan).found = FALSE
          /\ \A p \in Positions(new) : Before(here, p) => new[p[1]][p[2]] = Empty
       \/ /\ TableNext(scan.scan).found = TRUE
          /\ \E p \in Positions(new) :
                /\ TableNext(scan.scan).scan = CursorAt(T, p)
                /\ Before(here, p) /\ new[p[1]][p[2]] # Empty
                /\ \A q \in Positions(new) :
                      Before(here, q) /\ Before(q, p) => new[q[1]][q[2]] = Empty
  <2>1. \/ /\ TableNext(CursorAt(T, here)).found = FALSE
           /\ \A p \in Positions(tables[T]) : Before(here, p) => tables[T][p[1]][p[2]] = Empty
        \/ /\ TableNext(CursorAt(T, here)).found = TRUE
           /\ \E p \in Positions(tables[T]) :
                 /\ TableNext(CursorAt(T, here)).scan = CursorAt(T, p)
                 /\ Before(here, p) /\ tables[T][p[1]][p[2]] # Empty
                 /\ \A q \in Positions(tables[T]) :
                       Before(here, q) /\ Before(q, p) => tables[T][q[1]][q[2]] = Empty
    BY <1>8, <1>11, NextRecord
  <2> QED  BY <1>11, <2>1, Zenon
<1> QED  BY <1>9, <1>10, <1>12

(* The tables become new: slot p of table t gets a record, or is emptied.   *)
SlotBecomes(new, t, p, x) ==
    /\ DOMAIN new = Tables
    /\ \A s \in Tables : new[s] \in Seq(Block(s)) /\ Len(new[s]) = Len(tables[s])
    /\ \A s \in Tables \ {t} : new[s] = tables[s]
    /\ \A q \in Positions(tables[t]) :
          new[t][q[1]][q[2]] = IF q = p THEN x ELSE tables[t][q[1]][q[2]]

LEMMA SlotChanges ==
    ASSUME UpdateTypeOK, NEW t \in Tables, NEW p \in Positions(tables[t]),
           NEW x \in RecordsOf(t) \cup {Empty},
           NEW new, new = [tables EXCEPT ![t][p[1]][p[2]] = x]
    PROVE  SlotBecomes(new, t, p, x)
<1>1. /\ DOMAIN tables = Tables /\ \A s \in Tables : tables[s] \in Seq(Block(s))
  BY DEF UpdateTypeOK
<1>2. PICK old : old = tables[t]  OBVIOUS
<1>3. PICK i, j : i = p[1] /\ j = p[2]  OBVIOUS
<1>4. /\ old \in Seq(Block(t)) /\ Len(old) \in Nat /\ DOMAIN old = 1..Len(old)
      /\ i \in 1..Len(old) /\ j \in Slots /\ p = <<i, j>>
  BY <1>1, <1>2, <1>3 DEF Positions
<1>5. old[i] \in Block(t)  BY <1>4
<1>6. PICK b : b = [old[i] EXCEPT ![j] = x]  OBVIOUS
<1>7. b \in Block(t) /\ \A k \in Slots : b[k] = IF k = j THEN x ELSE old[i][k]
  BY <1>4, <1>5, <1>6 DEF Block
<1>8. PICK c : c = [old EXCEPT ![i] = b]  OBVIOUS
<1>9. /\ c \in Seq(Block(t)) /\ Len(c) = Len(old)
      /\ \A k \in 1..Len(old) : c[k] = IF k = i THEN b ELSE old[k]
  BY <1>4, <1>7, <1>8, ExceptSeq
<1>10. new = [tables EXCEPT ![t] = c]  BY <1>2, <1>3, <1>6, <1>8
<1>11. /\ DOMAIN new = Tables /\ new[t] = c
       /\ \A s \in Tables \ {t} : new[s] = tables[s]
  BY <1>1, <1>10
<1>12. ASSUME NEW q \in Positions(tables[t])
       PROVE  new[t][q[1]][q[2]] = IF q = p THEN x ELSE tables[t][q[1]][q[2]]
  <2>1. PICK k \in 1..Len(old), l \in Slots : q = <<k, l>>  BY <1>2 DEF Positions
  <2>2. c[k][l] = IF k = i /\ l = j THEN x ELSE old[k][l]  BY <1>7, <1>9
  <2> QED  BY <1>2, <1>4, <1>11, <2>1, <2>2
<1> QED  BY <1>1, <1>2, <1>9, <1>11, <1>12 DEF SlotBecomes

LEMMA UpdatedIsRecord ==
    ASSUME NEW u \in Updates, NEW r \in RecordsOf(u.table)
    PROVE  Updated(u, r) \in RecordsOf(u.table) \cup {Empty}
<1>1. CASE u.kind = "delete"  BY <1>1 DEF Updated
<1>2. CASE u.kind = "modify"
  <2>1. u.field \in FieldsOf[u.table] /\ Evaluate(u.value, r) \in Values
    BY <1>2, UpdateAssumption
  <2>2. [r EXCEPT ![u.field] = Evaluate(u.value, r)] \in RecordsOf(u.table)
    BY <2>1 DEF RecordsOf
  <2> QED  BY <1>2, <2>2 DEF Updated
<1> QED  BY <1>1, <1>2, UpdateAssumption

(* A statement has no more positions to count than its table has slots. *)
LEMMA CountIsBounded ==
    ASSUME NEW m \in 1..MaxBlocks
    PROVE  0..(NumSlots * m) \subseteq 0..(NumSlots * MaxBlocks)
<1>1. NumSlots \in Nat /\ MaxBlocks \in Nat  BY UpdateAssumption
<1>2. PICK d \in Nat : MaxBlocks = m + d  BY <1>1
<1>3. NumSlots * MaxBlocks = NumSlots * m + NumSlots * d  BY <1>1, <1>2
<1>4. NumSlots * d \in Nat /\ NumSlots * m \in Nat  BY <1>1
<1> QED  BY <1>3, <1>4

(* A selection that is open is not NoScan. *)
LEMMA SelectionIsAScan ==
    ASSUME NEW sc, sc.op = "select"
    PROVE  sc # NoScan
BY DEF NoScan

-----------------------------------------------------------------------------
(* Updates of a table: the actions keep the invariant                      *)

(* A record that does not satisfy the predicate is not to be dealt with.     *)
LEMMA PassKeepsUpdateInv ==
    ASSUME UpdateInv, Pass
    PROVE  UpdateInv'
<1>1. /\ Updating /\ TableNext(scan.scan).found
      /\ scan' = [scan EXCEPT !.scan = TableNext(scan.scan).scan]
      /\ UNCHANGED <<tables, stmt, status, count, before>>
  BY DEF Pass
<1>2. PICK p : p = TableNext(scan.scan).scan.at  OBVIOUS
<1>3. ~IsSatisfied(scan.pred, tables[stmt.table][p[1]][p[2]])  BY <1>2 DEF Pass
<1>4. /\ stmt \in Updates /\ stmt.table \in Tables /\ scan.pred = stmt.where
      /\ \E here \in Int \X Int :
            /\ HalfwayAt(here)
            /\ MeetsNone(here) \/ \E q \in Positions(before[stmt.table]) : Meets(here, q)
  BY <1>1, TurnMeets
<1>5. PICK here \in Int \X Int :
         /\ HalfwayAt(here)
         /\ MeetsNone(here) \/ \E q \in Positions(before[stmt.table]) : Meets(here, q)
  BY <1>4
<1>6. ~MeetsNone(here)  BY <1>1 DEF MeetsNone
<1>7. PICK q \in Positions(before[stmt.table]) : Meets(here, q)  BY <1>5, <1>6
<1>8. PICK T, old, u : T = stmt.table /\ old = before[T] /\ u = stmt  OBVIOUS
<1>9. TableNext(scan.scan).scan = CursorAt(T, q) /\ q = p
  BY <1>2, <1>7, <1>8 DEF Meets, CursorAt
<1>10. Dealt(old, u, q) = Dealt(old, u, here)
  <2>1. ~IsSatisfied(u.where, old[q[1]][q[2]])  BY <1>3, <1>4, <1>7, <1>8, <1>9 DEF Meets
  <2> QED  BY <1>7, <1>8, <2>1 DEF Meets
<1>11. scan' = [op |-> "select", pred |-> u.where, scan |-> CursorAt(T, q)]
  BY <1>1, <1>5, <1>8, <1>9 DEF HalfwayAt
<1>12. HalfwayAt(q)'
  <2>1. count = Cardinality(Dealt(old, u, q)) /\ Partly(old, tables[T], u, q)
    BY <1>5, <1>8, <1>10 DEF HalfwayAt, Partly
  <2> QED  BY <1>1, <1>8, <1>11, <2>1 DEF HalfwayAt
<1>13. Halfway'
  <2>1. old \in Seq(Block(T)) /\ q \in Int \X Int
    <3>1. old \in Seq(Block(T))  BY <1>1, <1>8 DEF UpdateInv, Halfway
    <3> QED  BY <1>7, <1>8, <3>1, PositionsInBlocks
  <2>2. before[stmt.table] \in Seq(Block(stmt.table))
        /\ \A t \in Tables \ {stmt.table} : tables[t] = before[t]
    BY <1>1 DEF UpdateInv, Halfway
  <2>3. (before[stmt.table] \in Seq(Block(stmt.table))
        /\ \A t \in Tables \ {stmt.table} : tables[t] = before[t])'
    BY <1>1, <2>2
  <2> QED  BY <1>12, <2>1, <2>3 DEF Halfway
<1>14. UpdateTypeOK'
  <2>1. scan' # NoScan  BY <1>11, SelectionIsAScan
  <2> QED  BY <1>1, <2>1 DEF UpdateInv, UpdateTypeOK, Updating
<1>15. UpdatesAreExact'  BY <1>1 DEF Updating, UpdatesAreExact
<1> QED  BY <1>1, <1>13, <1>14, <1>15 DEF UpdateInv

(* The record at the cursor becomes what the statement makes of it; it is   *)
(* not met again, since the cursor goes on from there.                      *)
LEMMA ChangeKeepsUpdateInv ==
    ASSUME UpdateInv, Change
    PROVE  UpdateInv'
<1>1. /\ Updating /\ TableNext(scan.scan).found
      /\ count' = count + 1
      /\ scan' = [scan EXCEPT !.scan = TableNext(scan.scan).scan]
      /\ UNCHANGED <<stmt, status, before>>
  BY DEF Change
<1>2. PICK p : p = TableNext(scan.scan).scan.at  OBVIOUS
<1>3. PICK here \in Int \X Int :
         /\ HalfwayAt(here)
         /\ MeetsNone(here) \/ \E q \in Positions(before[stmt.table]) : Meets(here, q)
  BY <1>1, TurnMeets
<1>4. PICK T, old, new, u : T = stmt.table /\ old = before[T] /\ new = tables[T] /\ u = stmt
  OBVIOUS
<1>5. /\ IsSatisfied(scan.pred, new[p[1]][p[2]])
      /\ tables' = [tables EXCEPT ![T][p[1]][p[2]] = Updated(u, new[p[1]][p[2]])]
  BY <1>2, <1>3, <1>4 DEF Change
<1>6. u \in Updates /\ T \in Tables /\ scan.pred = u.where  BY <1>1, <1>3, <1>4, TurnMeets
<1>7. ~MeetsNone(here)  BY <1>1 DEF MeetsNone
<1>8. PICK q \in Positions(old) : Meets(here, q)  BY <1>3, <1>4, <1>7
<1>9. /\ TableNext(scan.scan).scan = CursorAt(T, p) /\ q = p
      /\ new[p[1]][p[2]] = old[p[1]][p[2]] /\ p \notin Dealt(old, u, here)
      /\ Dealt(old, u, p) = Dealt(old, u, here) \cup {p}
  BY <1>2, <1>3, <1>4, <1>5, <1>6, <1>8, SMTT(30) DEF Meets, CursorAt
<1>10. /\ UpdateTypeOK /\ old \in Seq(Block(T))
      /\ \A t \in Tables \ {T} : tables[t] = before[t]
  BY <1>1, <1>3, <1>4 DEF UpdateInv, Halfway
<1>11. /\ Partly(old, new, u, here) /\ count = Cardinality(Dealt(old, u, here))
       /\ scan = [op |-> "select", pred |-> u.where, scan |-> CursorAt(T, here)]
  BY <1>3, <1>4 DEF HalfwayAt
<1>12. PICK x : x = Updated(u, new[p[1]][p[2]])  OBVIOUS
<1>13. p \in Positions(new) /\ Positions(new) = Positions(old) /\ Len(new) = Len(old)
  BY <1>8, <1>9, <1>11 DEF Partly, Positions
<1>14. new[p[1]][p[2]] \in RecordsOf(T) \cup {Empty}
  <2>1. new \in Seq(Block(T)) /\ p[1] \in 1..Len(new) /\ p[2] \in Slots
    BY <1>3, <1>4, <1>6, <1>10, <1>13 DEF UpdateTypeOK, Positions
  <2>2. new[p[1]] \in Block(T)
    <3>1. Len(new) \in Nat /\ DOMAIN new = 1..Len(new)  BY <2>1
    <3> QED  BY <2>1, <3>1
  <2> QED  BY <2>1, <2>2 DEF Block
<1>15. x \in RecordsOf(T) \cup {Empty}
  <2>1. old[p[1]][p[2]] # Empty
    <3>1. p \in Dealt(old, u, p)  BY <1>9
    <3> QED  BY <3>1 DEF Dealt, Chosen
  <2>2. new[p[1]][p[2]] \in RecordsOf(u.table)  BY <1>3, <1>4, <1>9, <1>14, <2>1
  <2> QED  BY <1>3, <1>4, <1>6, <1>12, <2>2, UpdatedIsRecord
<1>16. /\ DOMAIN tables' = Tables
       /\ \A s \in Tables : tables'[s] \in Seq(Block(s)) /\ Len(tables'[s]) = Len(tables[s])
       /\ \A s \in Tables \ {T} : tables'[s] = tables[s]
       /\ \A r \in Positions(new) : tables'[T][r[1]][r[2]] = IF r = p THEN x ELSE new[r[1]][r[2]]
  <2>1. PICK tbl : tbl = tables'  OBVIOUS
  <2>2. tbl = [tables EXCEPT ![T][p[1]][p[2]] = x] /\ p \in Positions(tables[T])
    BY <1>3, <1>4, <1>5, <1>12, <1>13, <2>1
  <2>3. UpdateTypeOK /\ T \in Tables /\ x \in RecordsOf(T) \cup {Empty}  BY <1>6, <1>10, <1>15
  <2>4. SlotBecomes(tbl, T, p, x)  BY <2>2, <2>3, SlotChanges
  <2> QED  BY <1>3, <1>4, <2>1, <2>4 DEF SlotBecomes
<1>17. /\ Cardinality(Dealt(old, u, p)) = count + 1
       /\ count + 1 \in 0..(NumSlots * MaxBlocks)
  <2>1. Dealt(old, u, here) \subseteq Positions(old) /\ Dealt(old, u, p) \subseteq Positions(old)
    BY DEF Dealt, Chosen
  <2>2. IsFiniteSet(Dealt(old, u, here))  BY <1>10, <2>1, PositionsInBlocks
  <2>3. Cardinality(Dealt(old, u, p)) = Cardinality(Dealt(old, u, here)) + 1
    BY <1>9, <2>2, FS_AddElement
  <2>4. Cardinality(Dealt(old, u, p)) \in 0..(NumSlots * Len(old))
    BY <1>10, <2>1, PositionsInBlocks
  <2>5. Len(old) \in 1..MaxBlocks  BY <1>3, <1>4, <1>6, <1>10, <1>13 DEF UpdateTypeOK
  <2>6. Cardinality(Dealt(old, u, p)) \in 0..(NumSlots * MaxBlocks)
    BY <2>4, <2>5, CountIsBounded
  <2> QED  BY <1>11, <2>3, <2>6
<1>18. Partly(old, tables'[T], u, p)
  <2>1. Len(tables'[T]) = Len(old)  BY <1>3, <1>4, <1>6, <1>13, <1>16
  <2>2. ASSUME NEW r \in Positions(old)
        PROVE  tables'[T][r[1]][r[2]] = IF r \in Dealt(old, u, p) THEN Updated(u, old[r[1]][r[2]])
                                        ELSE old[r[1]][r[2]]
    <3>1. tables'[T][r[1]][r[2]] = IF r = p THEN x ELSE new[r[1]][r[2]]  BY <1>13, <1>16
    <3>2. CASE r = p  BY <1>9, <1>12, <3>1, <3>2
    <3>3. CASE r # p
      <4>1. new[r[1]][r[2]] = IF r \in Dealt(old, u, here) THEN Updated(u, old[r[1]][r[2]])
                              ELSE old[r[1]][r[2]]
        BY <1>11 DEF Partly
      <4> QED  BY <1>9, <3>1, <3>3, <4>1
    <3> QED  BY <3>2, <3>3
  <2> QED  BY <2>1, <2>2 DEF Partly
<1>19. scan' = [op |-> "select", pred |-> u.where, scan |-> CursorAt(T, p)]
  BY <1>1, <1>9, <1>11
<1>20. HalfwayAt(p)'  BY <1>1, <1>3, <1>4, <1>17, <1>18, <1>19 DEF HalfwayAt
<1>21. Halfway'
  <2>1. p \in Int \X Int  BY <1>8, <1>9, <1>10, PositionsInBlocks
  <2>2. (before[stmt.table] \in Seq(Block(stmt.table))
        /\ \A t \in Tables \ {stmt.table} : tables[t] = before[t])'
    BY <1>1, <1>3, <1>4, <1>10, <1>16
  <2> QED  BY <1>20, <2>1, <2>2 DEF Halfway
<1>22. UpdateTypeOK'
  <2>1. scan' # NoScan  BY <1>19, SelectionIsAScan
  <2> QED  BY <1>1, <1>10, <1>16, <1>17, <2>1 DEF UpdateTypeOK, Updating
<1>23. UpdatesAreExact'  BY <1>1 DEF Updating, UpdatesAreExact
<1> QED  BY <1>1, <1>3, <1>4, <1>6, <1>21, <1>22, <1>23 DEF UpdateInv

(* What is at a position of a table, if it has that position.               *)
RecordAt(blocks, p) == IF p[1] \in DOMAIN blocks THEN blocks[p[1]][p[2]] ELSE Empty

(* At the end the positions dealt with are all that were to be.             *)
LEMMA FinishKeepsUpdateInv ==
    ASSUME UpdateInv, Finish
    PROVE  UpdateInv'
<1>1. /\ Updating /\ ~TableNext(scan.scan).found
      /\ status' = "ended" /\ scan' = NoScan
      /\ UNCHANGED <<tables, stmt, count, before>>
  BY DEF Finish
<1>2. PICK here \in Int \X Int :
         /\ HalfwayAt(here)
         /\ MeetsNone(here) \/ \E q \in Positions(before[stmt.table]) : Meets(here, q)
  BY <1>1, TurnMeets
<1>3. PICK T, old, new, u : T = stmt.table /\ old = before[T] /\ new = tables[T] /\ u = stmt
  OBVIOUS
<1>4. Dealt(old, u, here) = Chosen(old, u)  BY <1>1, <1>2, <1>3 DEF Meets, MeetsNone
<1>5. /\ Partly(old, new, u, here) /\ count = Cardinality(Chosen(old, u))
  BY <1>2, <1>3, <1>4 DEF HalfwayAt
<1>6. /\ UpdateTypeOK /\ old \in Seq(Block(T)) /\ u \in Updates /\ T \in Tables
      /\ u.kind \in {"delete", "modify"}
      /\ \A t \in Tables \ {T} : tables[t] = before[t]
  BY <1>1, <1>2, <1>3, TurnMeets DEF UpdateInv, Halfway, Updating
<1>7. new \in Seq(Block(T))  BY <1>2, <1>3, <1>6 DEF UpdateTypeOK
<1>8. /\ DOMAIN old = 1..Len(old) /\ DOMAIN new = DOMAIN old
      /\ Positions(old) = (DOMAIN new) \X Slots
  BY <1>5, <1>6, <1>7 DEF Partly, Positions
<1> DEFINE hits == {p \in (DOMAIN new) \X Slots :
                      RecordAt(old, p) # Empty /\ IsSatisfied(u.where, RecordAt(old, p))}
<1>9. \A p \in Positions(old) :
         /\ p[1] \in DOMAIN old /\ RecordAt(old, p) = old[p[1]][p[2]]
         /\ RecordAt(new, p) = new[p[1]][p[2]]
  BY <1>8 DEF RecordAt
<1>10. hits = Chosen(old, u)  BY <1>8, <1>9 DEF Chosen
<1>11. count = Cardinality(hits)  BY <1>5, <1>10
<1>12. \A p \in Positions(old) :
          RecordAt(new, p) = IF p \notin hits THEN RecordAt(old, p) ELSE Updated(u, RecordAt(old, p))
  <2> HIDE DEF hits
  <2> QED  BY <1>4, <1>5, <1>9, <1>10 DEF Partly
<1>13. UpdatesAreExact'
  <2> HIDE DEF hits
  <2> QED  BY <1>1, <1>2, <1>3, <1>6, <1>8, <1>11, <1>12 DEF UpdatesAreExact, RecordAt, hits
<1>14. UpdateTypeOK'  BY <1>1, <1>2, <1>3, <1>6 DEF UpdateTypeOK
<1> QED  BY <1>1, <1>2, <1>3, <1>6, <1>13, <1>14 DEF UpdateInv, Updating

(* An update begins before the first record.                                *)
LEMMA BeginUpdateKeepsUpdateInv ==
    ASSUME UpdateInv, NEW u \in Updates, BeginUpdate(u)
    PROVE  UpdateInv'
<1>1. /\ stmt' = u /\ scan' = Selected(u.table, u.where) /\ before' = tables
      /\ status' = "open" /\ count' = 0 /\ tables' = tables
  BY DEF BeginUpdate, Begins
<1>2. u.kind \in {"delete", "modify"} /\ u.table \in Tables  BY UpdateAssumption
<1>3. PICK old : old = tables[u.table]  OBVIOUS
<1>4. old \in Seq(Block(u.table))  BY <1>2, <1>3 DEF UpdateInv, UpdateTypeOK
<1>5. Dealt(old, u, FirstBlock) = {} /\ Partly(old, old, u, FirstBlock)
  BY <1>4, DealtAtStart
<1>6. scan' = [op |-> "select", pred |-> u.where, scan |-> CursorAt(u.table, FirstBlock)]
  BY <1>1 DEF Selected, CursorAt
<1>7. HalfwayAt(FirstBlock)'
  <2>1. PICK here : here = FirstBlock  OBVIOUS
  <2>2. HalfwayAt(here)'
    <3>1. count' = Cardinality(Dealt(old, u, here))  BY <1>1, <1>5, <2>1, FS_EmptySet
    <3> QED  BY <1>1, <1>3, <1>5, <1>6, <2>1, <3>1 DEF HalfwayAt
  <2> QED  BY <2>1, <2>2
<1>8. FirstBlock \in Int \X Int  BY DEF FirstBlock
<1>9. Halfway'
  <2>1. (before[stmt.table] \in Seq(Block(stmt.table))
        /\ \A t \in Tables \ {stmt.table} : tables[t] = before[t])'
    BY <1>1, <1>3, <1>4
  <2> QED  BY <1>7, <1>8, <2>1 DEF Halfway
<1>10. UpdateTypeOK'
  <2>1. scan' # NoScan  BY <1>6, SelectionIsAScan
  <2>2. 0 \in 0..(NumSlots * MaxBlocks)
    <3>1. NumSlots \in Nat /\ MaxBlocks \in Nat  BY UpdateAssumption
    <3>2. NumSlots * MaxBlocks \in Nat  BY <3>1
    <3> QED  BY <3>2
  <2> QED  BY <1>1, <1>2, <2>1, <2>2 DEF UpdateInv, UpdateTypeOK
<1>11. UpdatesAreExact'  BY <1>1 DEF UpdatesAreExact
<1> QED  BY <1>1, <1>9, <1>10, <1>11 DEF UpdateInv

(* A record is put at a position that had none, and nowhere else.           *)
Inserted(old, new, p, r) ==
    /\ p \in (DOMAIN new) \X Slots
    /\ RecordAt(old, p) = Empty /\ RecordAt(new, p) = r
    /\ \A q \in (DOMAIN new) \X Slots : q # p => RecordAt(new, q) = RecordAt(old, q)

LEMMA InsertUsesASlot ==
    ASSUME UpdateTypeOK, NEW t \in Tables, NEW r \in RecordsOf(t), InsertRecord(t, r),
           ((DOMAIN tables[t]) \X Slots) \ Used(t) # {}
    PROVE  /\ DOMAIN tables' = Tables
           /\ \A s \in Tables : tables'[s] \in Seq(Block(s)) /\ Len(tables'[s]) = Len(tables[s])
           /\ \A s \in Tables \ {t} : tables'[s] = tables[s]
           /\ \E p \in (DOMAIN tables[t]) \X Slots : Inserted(tables[t], tables'[t], p, r)
<1>1. PICK free : free = ((DOMAIN tables[t]) \X Slots) \ Used(t)  OBVIOUS
<1>2. PICK p : p = First(free)  OBVIOUS
<1>3. tables' = [tables EXCEPT ![t][p[1]][p[2]] = r]  BY <1>1, <1>2 DEF InsertRecord
<1>4. PICK old, new : old = tables[t] /\ new = tables'  OBVIOUS
<1>5. /\ old \in Seq(Block(t)) /\ Len(old) \in Nat /\ DOMAIN old = 1..Len(old)
      /\ Positions(old) = (DOMAIN old) \X Slots
  BY <1>4 DEF UpdateTypeOK, Positions
<1>6. p \in free
  <2>1. free \subseteq (1..Len(old)) \X (1..NumSlots)  BY <1>1, <1>4, <1>5 DEF Slots
  <2>2. NumSlots \in Nat  BY UpdateAssumption
  <2> QED  BY <1>1, <1>2, <1>5, <2>1, <2>2, FirstSlot
<1>7. p \in Positions(old) /\ old[p[1]][p[2]] = Empty  BY <1>1, <1>4, <1>5, <1>6 DEF Used
<1>8. SlotBecomes(new, t, p, r)
  <2>1. r \in RecordsOf(t) \cup {Empty} /\ p \in Positions(tables[t])  BY <1>4, <1>7
  <2>2. new = [tables EXCEPT ![t][p[1]][p[2]] = r]  BY <1>3, <1>4
  <2> QED  BY <2>1, <2>2, SlotChanges
<1>9. /\ DOMAIN new[t] = DOMAIN old
      /\ \A q \in Positions(old) : new[t][q[1]][q[2]] = IF q = p THEN r ELSE old[q[1]][q[2]]
  <2>1. new[t] \in Seq(Block(t)) /\ Len(new[t]) = Len(old)  BY <1>4, <1>8 DEF SlotBecomes
  <2> QED  BY <1>4, <1>5, <1>8, <2>1 DEF SlotBecomes
<1>10. Inserted(old, new[t], p, r)  BY <1>5, <1>7, <1>9 DEF Inserted, RecordAt
<1> QED  BY <1>4, <1>5, <1>7, <1>8, <1>10 DEF SlotBecomes

LEMMA InsertAppendsABlock ==
    ASSUME UpdateTypeOK, NEW t \in Tables, NEW r \in RecordsOf(t), InsertRecord(t, r),
           ((DOMAIN tables[t]) \X Slots) \ Used(t) = {}
    PROVE  /\ DOMAIN tables' = Tables
           /\ \A s \in Tables : tables'[s] \in Seq(Block(s)) /\ Len(tables'[s]) \in 1..MaxBlocks
           /\ \A s \in Tables \ {t} : tables'[s] = tables[s]
           /\ \E p \in (DOMAIN tables'[t]) \X Slots : Inserted(tables[t], tables'[t], p, r)
<1>1. PICK b : b = [EmptyBlock EXCEPT ![1] = r]  OBVIOUS
<1>2. PICK old, new : old = tables[t] /\ new = Append(old, b)  OBVIOUS
<1>3. tables' = [tables EXCEPT ![t] = new] /\ Len(old) < MaxBlocks
  BY <1>1, <1>2 DEF InsertRecord
<1>4. 1 \in Slots  BY UpdateAssumption DEF Slots
<1>5. b \in Block(t) /\ b[1] = r /\ \A j \in Slots : j # 1 => b[j] = Empty
  BY <1>1, <1>4 DEF EmptyBlock, Block
<1>6. /\ old \in Seq(Block(t)) /\ Len(old) \in Nat /\ DOMAIN old = 1..Len(old)
      /\ MaxBlocks \in Nat /\ DOMAIN tables = Tables
  BY <1>2, UpdateAssumption DEF UpdateTypeOK
<1>7. /\ new \in Seq(Block(t)) /\ Len(new) = Len(old) + 1
      /\ new[Len(old) + 1] = b /\ \A i \in 1..Len(old) : new[i] = old[i]
  BY <1>2, <1>5, <1>6, AppendProperties
<1>8. DOMAIN new = 1..(Len(old) + 1)  BY <1>7
<1>9. PICK p : p = <<Len(old) + 1, 1>>  OBVIOUS
<1>10. p \in (DOMAIN new) \X Slots  BY <1>4, <1>6, <1>8, <1>9
<1>11. ASSUME NEW q \in (DOMAIN new) \X Slots, q # p
       PROVE  RecordAt(new, q) = RecordAt(old, q)
  <2>1. PICK i \in DOMAIN new, j \in Slots : q = <<i, j>>  OBVIOUS
  <2>2. CASE i \in 1..Len(old)  BY <1>6, <1>7, <2>1, <2>2 DEF RecordAt
  <2>3. CASE i = Len(old) + 1
    <3>1. j # 1 /\ i \notin DOMAIN old  BY <1>6, <1>9, <1>11, <2>1, <2>3
    <3>2. new[i][j] = Empty  BY <1>5, <1>7, <2>3, <3>1
    <3> QED  BY <2>1, <3>1, <3>2 DEF RecordAt
  <2>4. i \in 1..Len(old) \/ i = Len(old) + 1  BY <1>6, <1>8
  <2> QED  BY <2>2, <2>3, <2>4
<1>12. RecordAt(old, p) = Empty /\ RecordAt(new, p) = r
  BY <1>5, <1>6, <1>7, <1>8, <1>9 DEF RecordAt
<1>13. Inserted(old, new, p, r)  BY <1>10, <1>11, <1>12 DEF Inserted
<1>14. Len(new) \in 1..MaxBlocks  BY <1>3, <1>6, <1>7
<1>15. /\ DOMAIN tables' = Tables /\ tables'[t] = new
       /\ \A s \in Tables \ {t} : tables'[s] = tables[s]
  BY <1>3, <1>6
<1>16. ASSUME NEW s \in Tables
       PROVE  tables'[s] \in Seq(Block(s)) /\ Len(tables'[s]) \in 1..MaxBlocks
  BY <1>7, <1>14, <1>15 DEF UpdateTypeOK
<1> QED  BY <1>2, <1>10, <1>13, <1>15, <1>16

(* The record that was inserted is the one position that differs.           *)
LEMMA InsertKeepsUpdateInv ==
    ASSUME UpdateInv, NEW t \in Tables, NEW r \in RecordsOf(t), InsertRecord(t, r)
    PROVE  UpdateInv'
<1>1. /\ stmt' = [kind |-> "insert", table |-> t, record |-> r] /\ scan' = NoScan
      /\ before' = tables /\ count' = 1 /\ status' = "ended"
  BY DEF InsertRecord, Begins
<1>2. UpdateTypeOK  BY DEF UpdateInv
<1>3. /\ DOMAIN tables' = Tables
      /\ \A s \in Tables : tables'[s] \in Seq(Block(s)) /\ Len(tables'[s]) \in 1..MaxBlocks
      /\ \A s \in Tables \ {t} : tables'[s] = tables[s]
      /\ \E p \in (DOMAIN tables'[t]) \X Slots : Inserted(tables[t], tables'[t], p, r)
  <2>1. CASE ((DOMAIN tables[t]) \X Slots) \ Used(t) # {}
    <3>1. /\ DOMAIN tables' = Tables
          /\ \A s \in Tables : tables'[s] \in Seq(Block(s)) /\ Len(tables'[s]) = Len(tables[s])
          /\ \A s \in Tables \ {t} : tables'[s] = tables[s]
          /\ \E p \in (DOMAIN tables[t]) \X Slots : Inserted(tables[t], tables'[t], p, r)
      BY <1>2, <2>1, InsertUsesASlot
    <3> QED  BY <1>2, <3>1 DEF UpdateTypeOK, Inserted
  <2>2. CASE ((DOMAIN tables[t]) \X Slots) \ Used(t) = {}
    BY <1>2, <2>2, InsertAppendsABlock
  <2> QED  BY <2>1, <2>2
<1>4. PICK old, new : old = tables[t] /\ new = tables'[t]  OBVIOUS
<1>5. PICK p \in (DOMAIN new) \X Slots : Inserted(old, new, p, r)  BY <1>3, <1>4
<1>6. r # Empty  BY UpdateAssumption
<1> DEFINE hits == {q \in (DOMAIN new) \X Slots : RecordAt(old, q) # RecordAt(new, q)}
<1>7. hits = {p} /\ RecordAt(old, p) = Empty /\ RecordAt(new, p) = r
      /\ \A q \in (DOMAIN new) \X Slots : q \notin hits => RecordAt(new, q) = RecordAt(old, q)
  BY <1>5, <1>6 DEF Inserted
<1>8. Cardinality(hits) = 1  BY <1>7, FS_Singleton
<1>9. UpdatesAreExact'
  <2>1. stmt'.kind = "insert" /\ stmt'.table = t /\ stmt'.record = r  BY <1>1
  <2>2. \A s \in Tables \ {t} : tables'[s] = before'[s]  BY <1>1, <1>3
  <2>3. old = before'[t] /\ new = tables'[t]  BY <1>1, <1>4
  <2>4. PICK h : h = hits  OBVIOUS
  <2>5. /\ count' = Cardinality(h)
        /\ \A q \in (DOMAIN new) \X Slots :
              RecordAt(new, q) = IF q \notin h THEN RecordAt(old, q) ELSE r
        /\ \A q \in h : RecordAt(old, q) = Empty
    BY <1>1, <1>7, <1>8, <2>4
  <2> QED  BY <2>1, <2>2, <2>3, <2>4, <2>5 DEF UpdatesAreExact, RecordAt
<1>10. UpdateTypeOK'
  <2>1. 1 \in 0..(NumSlots * MaxBlocks)
    <3>1. 1 \in 1..MaxBlocks /\ NumSlots * 1 = NumSlots /\ 1 \in 0..NumSlots
      BY UpdateAssumption
    <3>2. 0..(NumSlots * 1) \subseteq 0..(NumSlots * MaxBlocks)  BY <3>1, CountIsBounded
    <3> QED  BY <3>1, <3>2
  <2> QED  BY <1>1, <1>3, <2>1 DEF UpdateTypeOK
<1> QED  BY <1>1, <1>9, <1>10 DEF UpdateInv, Updating

(* Statements that read, the first state, and steps that change nothing.    *)
LEMMA ReadsKeepsUpdateInv ==
    ASSUME UpdateInv, Reads
    PROVE  UpdateInv'
<1>1. /\ stmt'.kind \in {"none", "query"} /\ status' \in {"open", "ended"}
      /\ scan' # NoScan <=> stmt'.kind = "query"
      /\ status' = "open" => stmt'.kind = "query"
      /\ count' \in {0, count} /\ tables' = tables
  BY DEF Reads
<1>2. UpdateTypeOK'
  <2>1. 0 \in 0..(NumSlots * MaxBlocks)
    <3>1. NumSlots \in Nat /\ MaxBlocks \in Nat  BY UpdateAssumption
    <3>2. NumSlots * MaxBlocks \in Nat  BY <3>1
    <3> QED  BY <3>2
  <2> QED  BY <1>1, <2>1 DEF UpdateInv, UpdateTypeOK
<1>3. stmt'.kind \notin {"insert", "delete", "modify"}  BY <1>1
<1> QED  BY <1>2, <1>3 DEF UpdateInv, Updating, UpdatesAreExact

LEMMA InitHasUpdateInv ==
    ASSUME UpdateInit
    PROVE  UpdateInv
<1>1. /\ tables = [t \in Tables |-> <<EmptyBlock>>] /\ stmt.kind = "none"
      /\ status = "ended" /\ scan = NoScan /\ count = 0
  BY DEF UpdateInit, NoStatement
<1>2. ASSUME NEW t \in Tables
      PROVE  tables[t] \in Seq(Block(t)) /\ Len(tables[t]) \in 1..MaxBlocks
  <2>1. EmptyBlock \in Block(t)  BY DEF EmptyBlock, Block
  <2>2. tables[t] = <<EmptyBlock>>  BY <1>1
  <2> QED  BY <2>1, <2>2, UpdateAssumption
<1>3. 0 \in 0..(NumSlots * MaxBlocks)
  <2>1. NumSlots \in Nat /\ MaxBlocks \in Nat  BY UpdateAssumption
  <2>2. NumSlots * MaxBlocks \in Nat  BY <2>1
  <2> QED  BY <2>2
<1>4. UpdateTypeOK  BY <1>1, <1>2, <1>3 DEF UpdateTypeOK
<1> QED  BY <1>1, <1>4 DEF UpdateInv, Updating, UpdatesAreExact

LEMMA StutterKeepsUpdateInv ==
    ASSUME UpdateInv, UNCHANGED updateVars
    PROVE  UpdateInv'
<1>1. UNCHANGED <<tables, stmt, status, scan, count, before>>  BY DEF updateVars
<1>2. UpdateTypeOK' /\ (stmt'.kind \in {"delete", "modify"} => stmt' \in Updates)
  BY <1>1 DEF UpdateInv, UpdateTypeOK
<1>3. UpdatesAreExact'  BY <1>1 DEF UpdateInv, UpdatesAreExact
<1>4. Updating' => Halfway'
  BY <1>1 DEF UpdateInv, Updating, Halfway, HalfwayAt
<1> QED  BY <1>2, <1>3, <1>4 DEF UpdateInv

-----------------------------------------------------------------------------
(* Updates of a table: what holds of every behaviour                       *)

LEMMA UpdateStepKeepsUpdateInv ==
    UpdateInv /\ [UpdateActions \/ Reads]_updateVars => UpdateInv'
<1> SUFFICES ASSUME UpdateInv, [UpdateActions \/ Reads]_updateVars PROVE UpdateInv'
  OBVIOUS
<1>1. ASSUME NEW t \in Tables, NEW r \in RecordsOf(t), InsertRecord(t, r) PROVE UpdateInv'
  BY <1>1, InsertKeepsUpdateInv
<1>2. ASSUME NEW u \in Updates, BeginUpdate(u) PROVE UpdateInv'
  BY <1>2, BeginUpdateKeepsUpdateInv
<1>3. CASE Pass  BY <1>3, PassKeepsUpdateInv
<1>4. CASE Change  BY <1>4, ChangeKeepsUpdateInv
<1>5. CASE Finish  BY <1>5, FinishKeepsUpdateInv
<1>6. CASE Reads  BY <1>6, ReadsKeepsUpdateInv
<1>7. CASE UNCHANGED updateVars  BY <1>7, StutterKeepsUpdateInv
<1> QED  BY <1>1, <1>2, <1>3, <1>4, <1>5, <1>6, <1>7 DEF UpdateActions

(* The inductive invariant holds at every step of every statement. *)
THEOREM UpdateInvariant == UpdateSpec => []UpdateInv
<1>1. UpdateInit => UpdateInv  BY InitHasUpdateInv
<1>2. UpdateInv /\ [UpdateActions \/ Reads]_updateVars => UpdateInv'
  BY UpdateStepKeepsUpdateInv
<1> QED  BY <1>1, <1>2, PTL DEF UpdateSpec

(* Type correctness of the update planners: slots hold records of their     *)
(* table, a scan is open exactly when a statement has one, and no statement *)
(* counts more records than its table can have.                             *)
THEOREM UpdatesTyped == UpdateSpec => []UpdateTypeOK
<1>1. UpdateInv => UpdateTypeOK  BY DEF UpdateInv
<1> QED  BY <1>1, UpdateInvariant, PTL

(* UpdatesAreExact: ExecuteInsert, ExecuteDelete and ExecuteModify change   *)
(* exactly the records they should, each once, and report their number.     *)
THEOREM UpdatesExact == UpdateSpec => []UpdatesAreExact
<1>1. UpdateInv => UpdatesAreExact  BY DEF UpdateInv
<1> QED  BY <1>1, UpdateInvariant, PTL

-----------------------------------------------------------------------------
(* Scans: what their clients see                                           *)

(* A scan lists m rows.  Its states are D; next is what Next says in each   *)
(* and home where BeforeFirst takes it.  On has the states that are on a    *)
(* row, with its number; 0 is before the first row.                         *)
Lists(D, next, home, On, m) ==
    /\ next \in [D -> [found : BOOLEAN, scan : D]] /\ home \in [D -> D]
    /\ On \subseteq D \X (0..m)
    /\ \A s \in D : <<home[s], 0>> \in On
    /\ \A s \in D, i \in 0..m : <<s, i>> \in On =>
          /\ next[s].found = (i < m)
          /\ i < m => <<next[s].scan, i + 1>> \in On

(* A scan of a table: where its cursor can stand, what its Next says and    *)
(* where its BeforeFirst goes.  A record's number counts the records that   *)
(* the cursor has not to come to any more when it is on it.                 *)
TableStates(t) == {CursorAt(t, p) : p \in (1..Len(tables[t])) \X (0..NumSlots)}
TableNextOf(t) == [s \in TableStates(t) |-> TableNext(s)]
TableHomeOf(t) == [s \in TableStates(t) |-> CursorAt(t, FirstBlock)]
Passed(t, p) == {q \in Used(t) : ~Before(p, q)}
TableOn(t) ==
    {x \in TableStates(t) \X (0..Cardinality(Used(t))) :
        /\ x[1].at \in Used(t) \cup {FirstBlock}
        /\ x[2] = Cardinality(Passed(t, x[1].at))}

LEMMA CursorIs ==
    ASSUME NEW t, NEW p
    PROVE  /\ CursorAt(t, p).table = t /\ CursorAt(t, p).at = p
           /\ \A q : [CursorAt(t, p) EXCEPT !.at = q] = CursorAt(t, q)
BY DEF CursorAt

LEMMA TableFacts ==
    ASSUME UpdateTypeOK, NEW t \in Tables
    PROVE  /\ tables[t] \in Seq(Block(t)) /\ Len(tables[t]) \in Nat /\ 1 <= Len(tables[t])
           /\ NumSlots \in Nat
           /\ Used(t) = {p \in Positions(tables[t]) : tables[t][p[1]][p[2]] # Empty}
           /\ Used(t) \subseteq (1..Len(tables[t])) \X (0..NumSlots)
           /\ FirstBlock \in (1..Len(tables[t])) \X (0..NumSlots)
           /\ (1..Len(tables[t])) \X (0..NumSlots) \subseteq Int \X Int
           /\ IsFiniteSet(Used(t)) /\ Cardinality(Used(t)) \in Nat
<1>1. /\ tables[t] \in Seq(Block(t)) /\ NumSlots \in Nat /\ Len(tables[t]) \in 1..MaxBlocks
      /\ MaxBlocks \in Nat
  BY UpdateAssumption DEF UpdateTypeOK
<1>2. Len(tables[t]) \in Nat /\ 1 <= Len(tables[t]) /\ DOMAIN tables[t] = 1..Len(tables[t])
  BY <1>1
<1>3. Used(t) = {p \in Positions(tables[t]) : tables[t][p[1]][p[2]] # Empty}
  BY <1>2 DEF Used, Positions
<1>4. IsFiniteSet(Used(t))  BY <1>1, <1>3, PositionsInBlocks
<1>5. Cardinality(Used(t)) \in Nat  BY <1>4, FS_CardinalityType
<1>6. PICK m, n \in Nat : m = Len(tables[t]) /\ n = NumSlots  BY <1>1, <1>2
<1>7. (1..m) \X (1..n) \subseteq (1..m) \X (0..n)  OBVIOUS
<1>8. <<1, 0>> \in (1..m) \X (0..n)  BY <1>2, <1>6
<1>9. (1..m) \X (0..n) \subseteq Int \X Int  OBVIOUS
<1>10. Used(t) \subseteq (1..m) \X (0..n)  BY <1>3, <1>6, <1>7 DEF Positions, Slots
<1> QED  BY <1>1, <1>2, <1>3, <1>4, <1>5, <1>6, <1>8, <1>9, <1>10 DEF FirstBlock

(* What a cursor has passed. *)
LEMMA PassedCount ==
    ASSUME UpdateTypeOK, NEW t \in Tables, NEW p
    PROVE  /\ IsFiniteSet(Passed(t, p)) /\ Cardinality(Passed(t, p)) \in Nat
           /\ Cardinality(Passed(t, p)) <= Cardinality(Used(t))
<1>1. IsFiniteSet(Used(t)) /\ Passed(t, p) \in SUBSET Used(t)  BY TableFacts DEF Passed
<1>2. IsFiniteSet(Passed(t, p)) /\ Cardinality(Passed(t, p)) <= Cardinality(Used(t))
  BY <1>1, FS_Subset
<1> QED  BY <1>2, FS_CardinalityType

LEMMA PassedAtStart ==
    ASSUME UpdateTypeOK, NEW t \in Tables
    PROVE  Cardinality(Passed(t, FirstBlock)) = 0
<1>1. \A q \in Used(t) : Before(FirstBlock, q)
  <2> SUFFICES ASSUME NEW q \in Used(t) PROVE Before(FirstBlock, q)  OBVIOUS
  <2>1. q \in Positions(tables[t])  BY TableFacts
  <2>2. q[1] \in 1..Len(tables[t]) /\ q[2] \in 1..NumSlots  BY <2>1 DEF Positions, Slots
  <2>3. Len(tables[t]) \in Nat /\ NumSlots \in Nat  BY TableFacts
  <2>4. FirstBlock[1] = 1 /\ FirstBlock[2] = 0  BY DEF FirstBlock
  <2> QED  BY <2>2, <2>3, <2>4 DEF Before
<1>2. Passed(t, FirstBlock) = {}  BY <1>1 DEF Passed
<1> QED  BY <1>2, FS_EmptySet

LEMMA PassedOneMore ==
    ASSUME UpdateTypeOK, NEW t \in Tables,
           NEW here \in (1..Len(tables[t])) \X (0..NumSlots),
           NEW p \in Positions(tables[t]), Before(here, p), tables[t][p[1]][p[2]] # Empty,
           \A q \in Positions(tables[t]) :
              Before(here, q) /\ Before(q, p) => tables[t][q[1]][q[2]] = Empty
    PROVE  /\ p \in Used(t)
           /\ Cardinality(Passed(t, p)) = Cardinality(Passed(t, here)) + 1
<1>1. /\ tables[t] \in Seq(Block(t)) /\ here \in Int \X Int /\ p \in Int \X Int
      /\ Used(t) = {q \in Positions(tables[t]) : tables[t][q[1]][q[2]] # Empty}
  <2>1. tables[t] \in Seq(Block(t))  BY TableFacts
  <2> QED  BY <2>1, TableFacts, PositionsInBlocks
<1>2. p \in Used(t)  BY <1>1
<1>3. \A q \in Used(t) : q # p => (Before(p, q) <=> Before(here, q))
  <2> SUFFICES ASSUME NEW q \in Used(t), q # p PROVE Before(p, q) <=> Before(here, q)
    OBVIOUS
  <2>1. q \in Positions(tables[t]) /\ tables[t][q[1]][q[2]] # Empty  BY <1>1
  <2> QED  BY <1>1, <2>1, NothingBetween
<1>4. ~Before(p, p)  BY <1>1, BeforeIsAnOrder
<1>5. Passed(t, p) = Passed(t, here) \cup {p} /\ p \notin Passed(t, here)
  BY <1>2, <1>3, <1>4 DEF Passed
<1>6. IsFiniteSet(Passed(t, here))  BY PassedCount
<1> QED  BY <1>2, <1>5, <1>6, FS_AddElement

(* The scan of a table lists its records: from before the first slot Next   *)
(* comes to each of them, in the order of their slots, and to each once,    *)
(* whatever slots are empty; and so again after BeforeFirst.                *)
LEMMA RecordsAreListed ==
    ASSUME UpdateTypeOK, NEW t \in Tables
    PROVE  /\ Lists(TableStates(t), TableNextOf(t), TableHomeOf(t), TableOn(t),
                    Cardinality(Used(t)))
           /\ \A p \in Used(t), q \in Used(t) :
                 Before(p, q) => Cardinality(Passed(t, p)) < Cardinality(Passed(t, q))
<1> DEFINE D == TableStates(t)
           next == TableNextOf(t)
           home == TableHomeOf(t)
           On == TableOn(t)
           m == Cardinality(Used(t))
           Cursors == (1..Len(tables[t])) \X (0..NumSlots)
<1>1. /\ Used(t) \subseteq Cursors /\ FirstBlock \in Cursors /\ Cursors \subseteq Int \X Int
      /\ IsFiniteSet(Used(t)) /\ m \in Nat
      /\ Used(t) = {p \in Positions(tables[t]) : tables[t][p[1]][p[2]] # Empty}
  BY TableFacts
<1>2. \A p \in Cursors : CursorAt(t, p) \in D  BY DEF TableStates
<1>3. \A s \in D : \E p \in Cursors : s = CursorAt(t, p)  BY DEF TableStates
<1>4. ASSUME NEW p \in Used(t) \cup {FirstBlock}
      PROVE  <<CursorAt(t, p), Cardinality(Passed(t, p))>> \in On
  <2> DEFINE x == <<CursorAt(t, p), Cardinality(Passed(t, p))>>
  <2>1. p \in Cursors  BY <1>1
  <2>2. x[1] = CursorAt(t, p) /\ x[2] = Cardinality(Passed(t, p))  OBVIOUS
  <2>3. x[1].at = p  BY <2>2, CursorIs
  <2>4. x \in D \X (0..m)
    <3>1. Cardinality(Passed(t, p)) \in Nat /\ Cardinality(Passed(t, p)) <= m
      BY PassedCount
    <3>2. Cardinality(Passed(t, p)) \in 0..m
      <4> HIDE DEF m
      <4> QED  BY <1>1, <3>1
    <3> QED  BY <1>2, <2>1, <3>2
  <2> HIDE DEF x
  <2>5. x \in On  BY <2>2, <2>3, <2>4 DEF TableOn
  <2> QED  BY <2>5 DEF x
<1>5. next \in [D -> [found : BOOLEAN, scan : D]]
  <2>1. \A s \in D : TableNext(s) \in [found : BOOLEAN, scan : D]
    <3> SUFFICES ASSUME NEW s \in D PROVE TableNext(s) \in [found : BOOLEAN, scan : D]
      OBVIOUS
    <3>1. PICK p \in Cursors : s = CursorAt(t, p)  BY <1>3
    <3> DEFINE rest == {q \in Used(t) : Before(p, q)}
    <3>2. TableNext(s) =
            IF rest = {}
            THEN [found |-> FALSE, scan |-> CursorAt(t, <<Len(tables[t]), 0>>)]
            ELSE [found |-> TRUE, scan |-> CursorAt(t, First(rest))]
      <4>1. s.table = t /\ s.at = p  BY <3>1, CursorIs
      <4>2. \A q : [s EXCEPT !.at = q] = CursorAt(t, q)  BY <3>1, CursorIs
      <4> QED  BY <4>1, <4>2 DEF TableNext
    <3>3. <<Len(tables[t]), 0>> \in Cursors  BY TableFacts
    <3>4. ASSUME rest # {} PROVE First(rest) \in Cursors
      <4>1. PICK a \in Nat : a = Len(tables[t])  BY TableFacts
      <4>2. PICK b \in Nat : b = NumSlots  BY TableFacts
      <4>3. rest \subseteq (1..a) \X (1..b)
        BY <1>1, <4>1, <4>2 DEF Positions, Slots
      <4> HIDE DEF rest
      <4>4. First(rest) \in rest  BY <3>4, <4>3, FirstSlot
      <4> QED  BY <1>1, <4>4 DEF rest
    <3> HIDE DEF D, Cursors, rest
    <3> QED  BY <1>2, <3>2, <3>3, <3>4
  <2>2. next = [s \in D |-> TableNext(s)]  BY DEF TableNextOf
  <2> HIDE DEF D, next
  <2> QED  BY <2>1, <2>2
<1>6. home \in [D -> D] /\ \A s \in D : <<home[s], 0>> \in On
  <2>1. CursorAt(t, FirstBlock) \in D  BY <1>1, <1>2
  <2>2. home = [s \in D |-> CursorAt(t, FirstBlock)]  BY DEF TableHomeOf
  <2>3. <<CursorAt(t, FirstBlock), 0>> \in On
    <3>1. Cardinality(Passed(t, FirstBlock)) = 0  BY PassedAtStart
    <3>2. <<CursorAt(t, FirstBlock), Cardinality(Passed(t, FirstBlock))>> \in On  BY <1>4
    <3> HIDE DEF On
    <3> QED  BY <3>1, <3>2
  <2> HIDE DEF D, home, On
  <2> QED  BY <2>1, <2>2, <2>3
<1>7. On \subseteq D \X (0..m)  BY DEF TableOn
<1>8. ASSUME NEW s \in D, NEW k \in 0..m, <<s, k>> \in On
      PROVE  /\ next[s].found = (k < m)
             /\ k < m => <<next[s].scan, k + 1>> \in On
  <2>1. PICK here \in Cursors : s = CursorAt(t, here)  BY <1>3
  <2>2. k = Cardinality(Passed(t, here))
    <3>1. s.at = here  BY <2>1, CursorIs
    <3> QED  BY <1>8, <3>1 DEF TableOn
  <2>3. next[s] = TableNext(CursorAt(t, here))  BY <2>1 DEF TableNextOf
  <2>4. k \in Nat /\ k <= m /\ here \in Int \X Int  BY <1>1, <2>1
  <2>5. CASE /\ TableNext(CursorAt(t, here)).found = FALSE
             /\ \A p \in Positions(tables[t]) :
                   Before(here, p) => tables[t][p[1]][p[2]] = Empty
    <3>1. Passed(t, here) = Used(t)  BY <1>1, <2>5 DEF Passed
    <3>2. ~(k < m)
      <4>1. k = m  BY <2>2, <3>1
      <4> HIDE DEF m
      <4> QED  BY <1>1, <4>1
    <3>3. (k < m) = FALSE  BY <3>2
    <3> QED  BY <2>3, <2>5, <3>2, <3>3, Zenon
  <2>6. CASE /\ TableNext(CursorAt(t, here)).found = TRUE
             /\ \E p \in Positions(tables[t]) :
                   /\ TableNext(CursorAt(t, here)).scan = CursorAt(t, p)
                   /\ Before(here, p) /\ tables[t][p[1]][p[2]] # Empty
                   /\ \A q \in Positions(tables[t]) :
                         Before(here, q) /\ Before(q, p) => tables[t][q[1]][q[2]] = Empty
    <3>1. PICK p \in Positions(tables[t]) :
             /\ TableNext(CursorAt(t, here)).scan = CursorAt(t, p)
             /\ Before(here, p) /\ tables[t][p[1]][p[2]] # Empty
             /\ \A q \in Positions(tables[t]) :
                   Before(here, q) /\ Before(q, p) => tables[t][q[1]][q[2]] = Empty
      BY <2>6
    <3>2. p \in Used(t) /\ Cardinality(Passed(t, p)) = k + 1
      BY <2>2, <3>1, PassedOneMore
    <3>3. k < m
      <4>1. Cardinality(Passed(t, p)) <= m  BY PassedCount
      <4> QED  BY <1>1, <2>4, <3>2, <4>1
    <3>4. <<CursorAt(t, p), Cardinality(Passed(t, p))>> \in On  BY <1>4, <3>2
    <3>5. <<next[s].scan, k + 1>> \in On
      <4> HIDE DEF On, next
      <4> QED  BY <2>3, <3>1, <3>2, <3>4
    <3>6. (k < m) = TRUE  BY <3>3
    <3> QED  BY <2>3, <2>6, <3>5, <3>6, Zenon
  <2> QED  BY <2>4, <2>5, <2>6, NextRecord
<1>9. ASSUME NEW p \in Used(t), NEW q \in Used(t), Before(p, q)
      PROVE  Cardinality(Passed(t, p)) < Cardinality(Passed(t, q))
  <2>1. p \in Int \X Int /\ q \in Int \X Int /\ Used(t) \subseteq Int \X Int  BY <1>1
  <2>2. q \notin Passed(t, p)  BY <1>9 DEF Passed
  <2>3. Passed(t, p) \cup {q} \subseteq Passed(t, q)
    <3>1. ~Before(q, q)  BY <2>1, BeforeIsAnOrder
    <3>2. ASSUME NEW r \in Used(t), ~Before(p, r) PROVE ~Before(q, r)
      <4>1. r \in Int \X Int  BY <2>1
      <4> QED  BY <1>9, <2>1, <3>2, <4>1, BeforeIsTransitive
    <3> QED  BY <3>1, <3>2 DEF Passed
  <2>4. /\ IsFiniteSet(Passed(t, p)) /\ IsFiniteSet(Passed(t, q))
        /\ Cardinality(Passed(t, p)) \in Nat /\ Cardinality(Passed(t, q)) \in Nat
    BY PassedCount
  <2>5. Cardinality(Passed(t, p) \cup {q}) = Cardinality(Passed(t, p)) + 1
    BY <2>2, <2>4, FS_AddElement
  <2>6. Cardinality(Passed(t, p) \cup {q}) <= Cardinality(Passed(t, q))
    BY <2>3, <2>4, FS_Subset
  <2> QED  BY <2>4, <2>5, <2>6
<1>10. \A s \in D, k \in 0..m : <<s, k>> \in On =>
          next[s].found = (k < m) /\ (k < m => <<next[s].scan, k + 1>> \in On)
  BY <1>8
<1> HIDE DEF D, next, home, On, m
<1>11. Lists(D, next, home, On, m)  BY <1>5, <1>6, <1>7, <1>10 DEF Lists
<1> QED  BY <1>9, <1>11 DEF D, next, home, On, m

-----------------------------------------------------------------------------
(* Scans: selections                                                       *)

(* A selection on such a scan: its states, where its BeforeFirst goes, and  *)
(* the rows it keeps.  What Next says of it is sel: a function that has in  *)
(* each state the value that one turn of the loop of Next gives it.         *)
(* passes says of which states the record satisfies the predicate.          *)
Select(pred, a) == [op |-> "select", pred |-> pred, scan |-> a]
SelectStates(pred, D) == {Select(pred, a) : a \in D}
SelectHomeOf(pred, D, home) == [s \in SelectStates(pred, D) |-> Select(pred, home[s.scan])]
SelectOn(pred, D, On, Kept) ==
    {x \in SelectStates(pred, D) \X (0..Cardinality(Kept)) :
        \E i \in Kept \cup {0} : /\ <<x[1].scan, i>> \in On
                                 /\ x[2] = Cardinality({j \in Kept : j <= i})}
SelectNextIs(pred, D, next, passes, sel) ==
    /\ sel \in [SelectStates(pred, D) -> [found : BOOLEAN, scan : SelectStates(pred, D)]]
    /\ \A a \in D : sel[Select(pred, a)] =
                      SelectNext(Select(pred, a), next[a], passes[next[a].scan],
                                 sel[Select(pred, next[a].scan)])

LEMMA SelectIs ==
    ASSUME NEW pred, NEW a, NEW l, NEW ok, NEW again
    PROVE  /\ Select(pred, a).scan = a
           /\ l.found /\ ~ok => SelectNext(Select(pred, a), l, ok, again) = again
BY DEF Select, SelectNext

LEMMA SelectStops ==
    ASSUME NEW pred, NEW a, NEW l, NEW ok, NEW again, ~(l.found /\ ~ok)
    PROVE  SelectNext(Select(pred, a), l, ok, again) =
             [found |-> l.found, scan |-> Select(pred, l.scan)]
<1>1. SelectNext(Select(pred, a), l, ok, again) =
        [found |-> l.found, scan |-> [Select(pred, a) EXCEPT !.scan = l.scan]]
  BY Zenon DEF SelectNext
<1>2. [Select(pred, a) EXCEPT !.scan = l.scan] = Select(pred, l.scan)  BY DEF Select
<1> QED  BY <1>1, <1>2, Zenon

(* From row i Next goes to the next row that is kept, if there is one.      *)
GoesTo(pred, sel, D, On, Kept, a, i) ==
    \/ sel[Select(pred, a)].found = FALSE /\ \A j \in Kept : j <= i
    \/ /\ sel[Select(pred, a)].found = TRUE
       /\ \E k \in Kept, b \in D : /\ i < k /\ \A j \in Kept : j <= i \/ k <= j
                                   /\ sel[Select(pred, a)].scan = Select(pred, b)
                                   /\ <<b, k>> \in On

LEMMA SelectGoesOn ==
    ASSUME NEW D, NEW next, NEW home, NEW On, NEW m \in Nat, Lists(D, next, home, On, m),
           NEW pred, NEW passes \in [D -> BOOLEAN], NEW Kept, Kept \subseteq 1..m,
           \A a \in D, i \in 1..m : <<a, i>> \in On => passes[a] = (i \in Kept),
           NEW sel, SelectNextIs(pred, D, next, passes, sel)
    PROVE  \A a \in D, i \in 0..m : <<a, i>> \in On => GoesTo(pred, sel, D, On, Kept, a, i)
<1> DEFINE Bad == {i \in 0..m : \E a \in D : /\ <<a, i>> \in On
                                             /\ ~GoesTo(pred, sel, D, On, Kept, a, i)}
<1> SUFFICES ASSUME Bad # {} PROVE FALSE  OBVIOUS
<1>1. PICK i \in Bad : \A x \in Bad : x <= i
  <2>1. Bad \subseteq 0..m  OBVIOUS
  <2> HIDE DEF Bad
  <2> QED  BY <2>1, LastPosition
<1>2. i \in 0..m  OBVIOUS
<1>3. PICK a \in D : <<a, i>> \in On /\ ~GoesTo(pred, sel, D, On, Kept, a, i)  OBVIOUS
<1> DEFINE l == next[a]
<1>4. /\ l.found = (i < m) /\ (i < m => <<l.scan, i + 1>> \in On)
      /\ l.scan \in D
  BY <1>2, <1>3 DEF Lists
<1>5. sel[Select(pred, a)] =
        SelectNext(Select(pred, a), l, passes[l.scan], sel[Select(pred, l.scan)])
  BY <1>2, <1>3 DEF SelectNextIs
<1> HIDE DEF Bad, l
<1>6. CASE i = m
  <2>1. ~l.found /\ l.found = FALSE
    <3>1. (i < m) = FALSE  BY <1>6
    <3> QED  BY <1>4, <3>1, Zenon
  <2>2. sel[Select(pred, a)].found = FALSE
    <3>1. sel[Select(pred, a)] = [found |-> l.found, scan |-> Select(pred, l.scan)]
      <4> DEFINE again == sel[Select(pred, l.scan)]
      <4>1. SelectNext(Select(pred, a), l, passes[l.scan], again) =
              [found |-> l.found, scan |-> Select(pred, l.scan)]
        <5> HIDE DEF again
        <5> QED  BY <2>1, SelectStops
      <4> QED  BY <1>5, <4>1, Zenon
    <3> QED  BY <2>1, <3>1
  <2>3. \A j \in Kept : j <= i  BY <1>6
  <2> QED  BY <1>3, <2>2, <2>3 DEF GoesTo
<1>7. CASE i < m
  <2>1. l.found /\ l.found = TRUE /\ <<l.scan, i + 1>> \in On
    <3>1. (i < m) = TRUE  BY <1>7
    <3> QED  BY <1>4, <3>1, Zenon
  <2>2. i + 1 \in 1..m /\ i + 1 \in 0..m /\ ~(i + 1 <= i)  BY <1>2, <1>7
  <2>3. passes[l.scan] = (i + 1 \in Kept)  BY <1>4, <2>1, <2>2
  <2>4. \A j \in Kept : j <= i \/ i + 1 <= j
    <3>1. \A j \in Kept : j \in 1..m  OBVIOUS
    <3> QED  BY <1>2, <3>1
  <2>5. CASE i + 1 \in Kept
    <3>1. sel[Select(pred, a)] = [found |-> l.found, scan |-> Select(pred, l.scan)]
      <4>1. passes[l.scan]  BY <2>3, <2>5, Zenon
      <4> DEFINE again == sel[Select(pred, l.scan)]
                 ok == passes[l.scan]
      <4>2. SelectNext(Select(pred, a), l, ok, again) =
              [found |-> l.found, scan |-> Select(pred, l.scan)]
        <5>1. ~(l.found /\ ~ok)  BY <4>1
        <5> HIDE DEF again, ok
        <5> QED  BY <5>1, SelectStops
      <4> QED  BY <1>5, <4>2, Zenon
    <3>2. sel[Select(pred, a)].found = TRUE /\ sel[Select(pred, a)].scan = Select(pred, l.scan)
      BY <2>1, <3>1
    <3>3. i < i + 1  BY <1>2
    <3> QED  BY <1>3, <1>4, <2>1, <2>4, <2>5, <3>2, <3>3, Zenon DEF GoesTo
  <2>6. CASE i + 1 \notin Kept
    <3>1. sel[Select(pred, a)] = sel[Select(pred, l.scan)]
      <4>1. ~passes[l.scan]  BY <2>3, <2>6, Zenon
      <4> DEFINE again == sel[Select(pred, l.scan)]
      <4>2. SelectNext(Select(pred, a), l, passes[l.scan], again) = again
        BY <2>1, <4>1, SelectIs
      <4> QED  BY <1>5, <4>2, Zenon
    <3>2. GoesTo(pred, sel, D, On, Kept, l.scan, i + 1)
      <4>1. i + 1 \notin Bad  BY <1>1, <2>2
      <4> QED  BY <1>4, <2>1, <2>2, <4>1 DEF Bad
    <3>3. \A j \in Kept : j \in Nat /\ j # i + 1  BY <2>6
    <3>4. CASE sel[Select(pred, l.scan)].found = FALSE /\ \A j \in Kept : j <= i + 1
      <4>1. \A j \in Kept : j <= i  BY <1>2, <3>3, <3>4
      <4> QED  BY <1>3, <3>1, <3>4, <4>1 DEF GoesTo
    <3>5. CASE /\ sel[Select(pred, l.scan)].found = TRUE
               /\ \E k \in Kept, b \in D : /\ i + 1 < k /\ \A j \in Kept : j <= i + 1 \/ k <= j
                                           /\ sel[Select(pred, l.scan)].scan = Select(pred, b)
                                           /\ <<b, k>> \in On
      <4>1. PICK k \in Kept : \E b \in D : /\ i + 1 < k /\ \A j \in Kept : j <= i + 1 \/ k <= j
                                           /\ sel[Select(pred, l.scan)].scan = Select(pred, b)
                                           /\ <<b, k>> \in On
        BY <3>5
      <4>2. PICK b \in D : /\ i + 1 < k /\ \A j \in Kept : j <= i + 1 \/ k <= j
                           /\ sel[Select(pred, l.scan)].scan = Select(pred, b)
                           /\ <<b, k>> \in On
        BY <4>1
      <4>3. i < k /\ \A j \in Kept : j <= i \/ k <= j  BY <1>2, <3>3, <4>2
      <4> QED  BY <1>3, <3>1, <3>5, <4>2, <4>3, Zenon DEF GoesTo
    <3> QED  BY <3>2, <3>4, <3>5, Zenon DEF GoesTo
  <2> QED  BY <2>5, <2>6
<1> QED  BY <1>2, <1>6, <1>7

(* A selection on a scan that lists its rows lists those whose record       *)
(* satisfies the predicate, in their order, and no others: the loop of      *)
(* SelectScan::Next stops at the first one after the row it is on, or ends. *)
LEMMA KeptRowsAreListed ==
    ASSUME NEW D, NEW next, NEW home, NEW On, NEW m \in Nat, Lists(D, next, home, On, m),
           NEW pred, NEW passes \in [D -> BOOLEAN], NEW Kept, Kept \subseteq 1..m,
           \A a \in D, i \in 1..m : <<a, i>> \in On => passes[a] = (i \in Kept),
           NEW sel, SelectNextIs(pred, D, next, passes, sel)
    PROVE  Lists(SelectStates(pred, D), sel, SelectHomeOf(pred, D, home),
                 SelectOn(pred, D, On, Kept), Cardinality(Kept))
<1> DEFINE E == SelectStates(pred, D)
           back == SelectHomeOf(pred, D, home)
           Now == SelectOn(pred, D, On, Kept)
           n == Cardinality(Kept)
           Upto(i) == {j \in Kept : j <= i}
<1>1. IsFiniteSet(Kept) /\ n \in Nat
  <2>1. Kept \subseteq 0..m  OBVIOUS
  <2>2. IsFiniteSet(Kept)  BY <2>1, PositionsFinite
  <2> QED  BY <2>2, FS_CardinalityType
<1>2. ASSUME NEW i PROVE /\ IsFiniteSet(Upto(i))
                         /\ Cardinality(Upto(i)) \in Nat /\ Cardinality(Upto(i)) <= n
  <2>1. Upto(i) \in SUBSET Kept  OBVIOUS
  <2>2. IsFiniteSet(Upto(i)) /\ Cardinality(Upto(i)) <= n  BY <1>1, <2>1, FS_Subset
  <2> QED  BY <2>2, FS_CardinalityType
<1>3. ASSUME NEW a \in D, NEW i \in Kept \cup {0}, <<a, i>> \in On
      PROVE  <<Select(pred, a), Cardinality(Upto(i))>> \in Now
  <2> DEFINE x == <<Select(pred, a), Cardinality(Upto(i))>>
  <2>1. Cardinality(Upto(i)) \in 0..n
    <3>1. Cardinality(Upto(i)) \in Nat /\ Cardinality(Upto(i)) <= n  BY <1>2
    <3> HIDE DEF n, Upto
    <3> QED  BY <1>1, <3>1
  <2>2. x \in E \X (0..n)  BY <2>1 DEF SelectStates
  <2>3. x[1].scan = a /\ x[2] = Cardinality(Upto(i))
    <3>1. x[1] = Select(pred, a)  OBVIOUS
    <3> QED  BY <3>1, SelectIs
  <2> HIDE DEF x
  <2>4. x \in Now  BY <1>3, <2>2, <2>3 DEF SelectOn
  <2> QED  BY <2>4 DEF x
<1>4. sel \in [E -> [found : BOOLEAN, scan : E]]  BY DEF SelectNextIs
<1>5. /\ home \in [D -> D] /\ \A a \in D : <<home[a], 0>> \in On
      /\ On \subseteq D \X (0..m)
  BY DEF Lists
<1>6. back \in [E -> E] /\ \A s \in E : <<back[s], 0>> \in Now
  <2>1. ASSUME NEW s \in E PROVE back[s] \in E /\ <<back[s], 0>> \in Now
    <3>1. PICK a \in D : s = Select(pred, a)  BY DEF SelectStates
    <3>2. s.scan = a  BY <3>1, SelectIs
    <3>3. back[s] = Select(pred, home[a])  BY <3>2 DEF SelectHomeOf
    <3>4. home[a] \in D /\ <<home[a], 0>> \in On  BY <1>5
    <3>5. Cardinality(Upto(0)) = 0
      <4>1. Upto(0) = {}
        <5>1. \A j \in Kept : j \in 1..m  OBVIOUS
        <5>2. \A j \in Kept : ~(j <= 0)  BY <5>1
        <5> QED  BY <5>2, Zenon
      <4> QED  BY <4>1, FS_EmptySet
    <3>6. <<Select(pred, home[a]), Cardinality(Upto(0))>> \in Now  BY <1>3, <3>4
    <3>7. Select(pred, home[a]) \in E  BY <3>4 DEF SelectStates
    <3> HIDE DEF E, Now, back, Upto
    <3> QED  BY <3>3, <3>5, <3>6, <3>7
  <2>2. back = [s \in E |-> back[s]]  BY DEF SelectHomeOf
  <2> HIDE DEF E, Now, back
  <2> QED  BY <2>1, <2>2
<1>7. Now \subseteq E \X (0..n)  BY DEF SelectOn
<1>8. ASSUME NEW s \in E, NEW k \in 0..n, <<s, k>> \in Now
      PROVE  /\ sel[s].found = (k < n)
             /\ k < n => <<sel[s].scan, k + 1>> \in Now
  <2>1. PICK a \in D : s = Select(pred, a)  BY DEF SelectStates
  <2>2. s.scan = a  BY <2>1, SelectIs
  <2>3. PICK i \in Kept \cup {0} : <<a, i>> \in On /\ k = Cardinality(Upto(i))
    BY <1>8, <2>2 DEF SelectOn
  <2>4. i \in 0..m /\ i \in Nat  BY <1>5, <2>3
  <2>5. GoesTo(pred, sel, D, On, Kept, a, i)  BY <2>3, <2>4, SelectGoesOn
  <2>6. k \in Nat /\ k <= n  BY <1>2, <2>3
  <2>7. CASE sel[Select(pred, a)].found = FALSE /\ \A j \in Kept : j <= i
    <3>1. Upto(i) = Kept  BY <2>7
    <3>2. ~(k < n)
      <4>1. k = n  BY <2>3, <3>1
      <4> HIDE DEF n
      <4> QED  BY <1>1, <4>1
    <3>3. (k < n) = FALSE  BY <3>2
    <3> QED  BY <2>1, <2>7, <3>2, <3>3, Zenon
  <2>8. CASE /\ sel[Select(pred, a)].found = TRUE
             /\ \E x \in Kept, b \in D : /\ i < x /\ \A j \in Kept : j <= i \/ x <= j
                                         /\ sel[Select(pred, a)].scan = Select(pred, b)
                                         /\ <<b, x>> \in On
    <3>1. PICK x \in Kept : \E b \in D : /\ i < x /\ \A j \in Kept : j <= i \/ x <= j
                                         /\ sel[Select(pred, a)].scan = Select(pred, b)
                                         /\ <<b, x>> \in On
      BY <2>8
    <3>2. PICK b \in D : /\ i < x /\ \A j \in Kept : j <= i \/ x <= j
                         /\ sel[Select(pred, a)].scan = Select(pred, b)
                         /\ <<b, x>> \in On
      BY <3>1
    <3>3. b \in D /\ x \in Nat  BY <1>5, <3>2
    <3>4. Upto(x) = Upto(i) \cup {x} /\ x \notin Upto(i)
      <4>1. \A j \in Kept : j \in Nat  OBVIOUS
      <4>2. \A j \in Kept : j <= x <=> j <= i \/ j = x  BY <2>4, <3>2, <3>3, <4>1
      <4>3. ~(x <= i)  BY <2>4, <3>2, <3>3
      <4> QED  BY <4>2, <4>3, Zenon
    <3>5. Cardinality(Upto(x)) = k + 1
      <4>1. IsFiniteSet(Upto(i))  BY <1>2
      <4>2. k = Cardinality(Upto(i))  BY <2>3
      <4> HIDE DEF Upto
      <4>3. Cardinality(Upto(i) \cup {x}) = Cardinality(Upto(i)) + 1
        BY <3>4, <4>1, FS_AddElement
      <4> QED  BY <3>4, <4>2, <4>3, Zenon
    <3>6. k < n
      <4>1. Cardinality(Upto(x)) <= n  BY <1>2
      <4> QED  BY <1>1, <2>6, <3>5, <4>1
    <3>7. <<Select(pred, b), Cardinality(Upto(x))>> \in Now  BY <1>3, <3>2, <3>3
    <3>8. <<sel[s].scan, k + 1>> \in Now
      <4> HIDE DEF Now, Upto
      <4> QED  BY <2>1, <3>2, <3>5, <3>7
    <3>9. (k < n) = TRUE  BY <3>6
    <3> QED  BY <2>1, <2>8, <3>8, <3>9, Zenon
  <2> QED  BY <2>5, <2>7, <2>8, Zenon DEF GoesTo
<1>9. \A s \in E, k \in 0..n : <<s, k>> \in Now =>
         sel[s].found = (k < n) /\ (k < n => <<sel[s].scan, k + 1>> \in Now)
  BY <1>8
<1> HIDE DEF E, back, Now, n
<1>10. Lists(E, sel, back, Now, n)  BY <1>4, <1>6, <1>7, <1>9 DEF Lists
<1> QED  BY <1>10 DEF E, back, Now, n

-----------------------------------------------------------------------------
(* Scans: products                                                         *)

(* A product, whose sides are such scans: its states, what its Next says,   *)
(* where its BeforeFirst takes it, and the rows its sides are on.           *)
ProductStates(D1, D2) == {Product(a, b) : a \in D1, b \in D2}

ProductNextOf(D1, D2, next1, next2, home2) ==
    [s \in ProductStates(D1, D2) |->
       LET r == next2[s.right]
           back == home2[r.scan]
       IN ProductNext(s, next1[s.left], r, back, next2[back])]

ProductHomeOf(D1, D2, next1, home1, home2) ==
    [s \in ProductStates(D1, D2) |->
       ProductBeforeFirst(s, next1[home1[s.left]], home2[s.right])]

(* Row j of the right side with row i of the left one is row (i - 1)n + j.  *)
ProductOn(D1, D2, On1, On2, m, n) ==
    {x \in ProductStates(D1, D2) \X (0..(m * n)) :
        \E i \in 1..m, j \in 0..n :
           /\ <<x[1].left, i>> \in On1 /\ <<x[1].right, j>> \in On2
           /\ i = 1 \/ j # 0
           /\ x[2] = (i - 1) * n + j}

LEMMA RowNumbers ==
    ASSUME NEW m \in Nat, NEW n \in Nat, NEW i \in 1..m, NEW j \in 0..n
    PROVE  /\ (i - 1) * n + j \in 0..(m * n)
           /\ (i - 1) * n + n = i * n
           /\ j < n => (i - 1) * n + j < m * n
           /\ i < m /\ n # 0 => i * n < m * n
           /\ n = 0 => m * n = 0 /\ (i - 1) * n + j = 0
<1>1. PICK d \in Nat : m = i + d  OBVIOUS
<1>2. i \in Nat /\ i - 1 \in Nat /\ j \in Nat  OBVIOUS
<1>3. PICK a, b \in Nat : a = (i - 1) * n /\ b = d * n  BY <1>2
<1>4. i * n = a + n  BY <1>2, <1>3
<1>5. m * n = a + n + b
  <2>1. m * n = i * n + d * n  BY <1>1, <1>2
  <2> QED  BY <1>3, <1>4, <2>1
<1>6. i < m /\ n # 0 => b > 0
  <2> SUFFICES ASSUME i < m, n # 0 PROVE b > 0  OBVIOUS
  <2>1. PICK e \in Nat : d = e + 1  BY <1>1, <1>2
  <2>2. b = e * n + n /\ e * n \in Nat  BY <1>3, <2>1
  <2> QED  BY <2>2
<1>7. n = 0 => a = 0 /\ b = 0  BY <1>2, <1>3
<1> QED  BY <1>2, <1>3, <1>4, <1>5, <1>6, <1>7

(* No two pairs of rows have the same number. *)
LEMMA RowNumbersDiffer ==
    ASSUME NEW n \in Nat, NEW i \in Nat \ {0}, NEW k \in Nat \ {0},
           NEW j \in 1..n, NEW l \in 1..n, (i - 1) * n + j = (k - 1) * n + l
    PROVE  i = k /\ j = l
<1>1. ASSUME NEW a \in Nat \ {0}, NEW b \in Nat \ {0}, NEW x \in 1..n, NEW y \in 1..n,
             a < b
      PROVE  (a - 1) * n + x < (b - 1) * n + y
  <2>1. a \in 1..b /\ x \in 0..n /\ a \in 1..(b - 1) /\ b - 1 \in Nat  BY <1>1
  <2>2. (a - 1) * n + n = a * n  BY <2>1, RowNumbers
  <2>3. a * n <= (b - 1) * n
    <3>1. PICK d \in Nat : b - 1 = a + d  BY <2>1
    <3>2. (b - 1) * n = a * n + d * n /\ d * n \in Nat /\ a * n \in Nat  BY <3>1
    <3> QED  BY <3>2
  <2>4. (a - 1) * n \in Nat /\ (b - 1) * n \in Nat /\ a * n \in Nat  BY <2>1
  <2> QED  BY <2>2, <2>3, <2>4
<1>2. ~(i < k) /\ ~(k < i)
  <2>1. (i - 1) * n \in Nat /\ (k - 1) * n \in Nat  OBVIOUS
  <2>2. i < k => (i - 1) * n + j < (k - 1) * n + l  BY <1>1
  <2>3. k < i => (k - 1) * n + l < (i - 1) * n + j  BY <1>1
  <2> QED  BY <2>1, <2>2, <2>3
<1>3. i = k  BY <1>2
<1>4. (i - 1) * n \in Nat  OBVIOUS
<1> QED  BY <1>3, <1>4

(* A product scan with its sides moved. *)
Right(p, d) == [p EXCEPT !.right = d]
Sides(p, c, d) == [p EXCEPT !.left = c, !.right = d]

LEMMA ProductIs ==
    ASSUME NEW a, NEW b, NEW c, NEW d
    PROVE  /\ Product(a, b).left = a /\ Product(a, b).right = b
           /\ Right(Product(a, b), d) = Product(a, d)
           /\ Sides(Product(a, b), c, d) = Product(c, d)
<1> DEFINE p == [op |-> "product", left |-> a, right |-> b]
           q == [op |-> "product", left |-> c, right |-> b]
<1>1. p.left = a /\ p.right = b  OBVIOUS
<1>2. [p EXCEPT !.right = d] = [op |-> "product", left |-> a, right |-> d]  OBVIOUS
<1>3. [p EXCEPT !.left = c] = q  OBVIOUS
<1>4. [q EXCEPT !.right = d] = [op |-> "product", left |-> c, right |-> d]  OBVIOUS
<1>5. [p EXCEPT !.left = c, !.right = d] = [[p EXCEPT !.left = c] EXCEPT !.right = d]
  OBVIOUS
<1> HIDE DEF p, q
<1>6. [p EXCEPT !.left = c, !.right = d] = [op |-> "product", left |-> c, right |-> d]
  BY <1>3, <1>4, <1>5, Zenon
<1> QED  BY <1>1, <1>2, <1>6, Zenon DEF Product, Right, Sides, p

LEMMA ProductNextIs ==
    ASSUME NEW D1, NEW D2, NEW next1, NEW next2, NEW home2, NEW a \in D1, NEW b \in D2
    PROVE  ProductNextOf(D1, D2, next1, next2, home2)[Product(a, b)] =
             LET r == next2[b]
                 l == next1[a]
                 back == home2[r.scan]
                 again == next2[back]
             IN IF r.found THEN [found |-> TRUE, scan |-> Product(a, r.scan)]
                ELSE IF l.found
                THEN [found |-> again.found, scan |-> Product(l.scan, again.scan)]
                ELSE [found |-> FALSE, scan |-> Product(l.scan, back)]
<1> DEFINE p == Product(a, b)
           back == home2[next2[b].scan]
<1>1. p \in ProductStates(D1, D2)  BY DEF ProductStates
<1>2. p.left = a /\ p.right = b  BY ProductIs
<1>3. ProductNextOf(D1, D2, next1, next2, home2)[p] =
        ProductNext(p, next1[p.left], next2[p.right], home2[next2[p.right].scan],
                    next2[home2[next2[p.right].scan]])
  <2> HIDE DEF p
  <2> QED  BY <1>1, Zenon DEF ProductNextOf
<1>4. ProductNextOf(D1, D2, next1, next2, home2)[p] =
        ProductNext(p, next1[a], next2[b], back, next2[back])
  BY <1>2, <1>3, Zenon
<1>5. ASSUME NEW l, NEW r, NEW h, NEW again
      PROVE  ProductNext(p, l, r, h, again) =
               IF r.found THEN [found |-> TRUE, scan |-> Product(a, r.scan)]
               ELSE IF l.found
               THEN [found |-> again.found, scan |-> Product(l.scan, again.scan)]
               ELSE [found |-> FALSE, scan |-> Product(l.scan, h)]
  <2>1. ProductNext(p, l, r, h, again) =
          IF r.found THEN [found |-> TRUE, scan |-> Right(p, r.scan)]
          ELSE IF l.found
          THEN [found |-> again.found, scan |-> Sides(p, l.scan, again.scan)]
          ELSE [found |-> FALSE, scan |-> Sides(p, l.scan, h)]
    BY Zenon DEF ProductNext, Right, Sides
  <2>2. /\ Right(p, r.scan) = Product(a, r.scan)
        /\ Sides(p, l.scan, again.scan) = Product(l.scan, again.scan)
        /\ Sides(p, l.scan, h) = Product(l.scan, h)
    BY ProductIs
  <2> HIDE DEF p
  <2> QED  BY <2>1, <2>2
<1> HIDE DEF p
<1>6. ProductNextOf(D1, D2, next1, next2, home2)[p] =
        IF next2[b].found THEN [found |-> TRUE, scan |-> Product(a, next2[b].scan)]
        ELSE IF next1[a].found
        THEN [found |-> next2[back].found, scan |-> Product(next1[a].scan, next2[back].scan)]
        ELSE [found |-> FALSE, scan |-> Product(next1[a].scan, back)]
  <2> DEFINE r == next2[b]
             l == next1[a]
             again == next2[back]
  <2>1. ProductNext(p, l, r, back, again) =
          IF r.found THEN [found |-> TRUE, scan |-> Product(a, r.scan)]
          ELSE IF l.found
          THEN [found |-> again.found, scan |-> Product(l.scan, again.scan)]
          ELSE [found |-> FALSE, scan |-> Product(l.scan, back)]
    <3> HIDE DEF p, back, r, l, again
    <3> QED  BY <1>5
  <2> QED  BY <1>4, <2>1, Zenon
<1> QED  BY <1>6, Zenon DEF p, back

LEMMA ProductHomeIs ==
    ASSUME NEW D1, NEW D2, NEW next1, NEW home1, NEW home2, NEW a \in D1, NEW b \in D2
    PROVE  ProductHomeOf(D1, D2, next1, home1, home2)[Product(a, b)] =
             Product(next1[home1[a]].scan, home2[b])
<1> DEFINE p == Product(a, b)
<1>1. p \in ProductStates(D1, D2)  BY DEF ProductStates
<1>2. p.left = a /\ p.right = b  BY ProductIs
<1>3. ProductHomeOf(D1, D2, next1, home1, home2)[p] =
        ProductBeforeFirst(p, next1[home1[p.left]], home2[p.right])
  <2> HIDE DEF p
  <2> QED  BY <1>1, Zenon DEF ProductHomeOf
<1>4. ASSUME NEW l, NEW h PROVE ProductBeforeFirst(p, l, h) = Product(l.scan, h)
  <2>1. ProductBeforeFirst(p, l, h) = Sides(p, l.scan, h)
    BY Zenon DEF ProductBeforeFirst, Sides
  <2>2. Sides(p, l.scan, h) = Product(l.scan, h)  BY ProductIs
  <2> QED  BY <2>1, <2>2
<1> HIDE DEF p
<1> QED  BY <1>2, <1>3, <1>4, Zenon DEF p

LEMMA ProductTyped ==
    ASSUME NEW D1, NEW next1 \in [D1 -> [found : BOOLEAN, scan : D1]], NEW home1 \in [D1 -> D1],
           NEW D2, NEW next2 \in [D2 -> [found : BOOLEAN, scan : D2]], NEW home2 \in [D2 -> D2]
    PROVE  /\ ProductNextOf(D1, D2, next1, next2, home2) \in
                [ProductStates(D1, D2) -> [found : BOOLEAN, scan : ProductStates(D1, D2)]]
           /\ ProductHomeOf(D1, D2, next1, home1, home2) \in
                [ProductStates(D1, D2) -> ProductStates(D1, D2)]
<1> DEFINE D == ProductStates(D1, D2)
           next == ProductNextOf(D1, D2, next1, next2, home2)
           home == ProductHomeOf(D1, D2, next1, home1, home2)
<1>s. \A s \in D : \E a \in D1, b \in D2 : s = Product(a, b)  BY DEF ProductStates
<1>p. \A a \in D1, b \in D2 : Product(a, b) \in D  BY DEF ProductStates
<1>n. /\ \A a \in D1 : next1[a].found \in BOOLEAN /\ next1[a].scan \in D1 /\ home1[a] \in D1
      /\ \A b \in D2 : next2[b].found \in BOOLEAN /\ next2[b].scan \in D2 /\ home2[b] \in D2
  OBVIOUS
<1>3. next \in [D -> [found : BOOLEAN, scan : D]]
  <2>1. \A s \in D : next[s] \in [found : BOOLEAN, scan : D]
    <3> SUFFICES ASSUME NEW s \in D PROVE next[s] \in [found : BOOLEAN, scan : D]  OBVIOUS
    <3>1. PICK a \in D1 : \E b \in D2 : s = Product(a, b)  BY <1>s
    <3>2. PICK b \in D2 : s = Product(a, b)  BY <3>1
    <3> DEFINE r == next2[b]
               l == next1[a]
               back == home2[r.scan]
               again == next2[back]
    <3>3. /\ l.scan \in D1 /\ l.found \in BOOLEAN
          /\ r.scan \in D2 /\ back \in D2 /\ again.found \in BOOLEAN /\ again.scan \in D2
      BY <1>n
    <3>4. /\ Product(a, r.scan) \in D /\ Product(l.scan, again.scan) \in D
          /\ Product(l.scan, back) \in D
      BY <1>p, <3>3
    <3>5. next[s] = IF r.found THEN [found |-> TRUE, scan |-> Product(a, r.scan)]
                    ELSE IF l.found
                    THEN [found |-> again.found, scan |-> Product(l.scan, again.scan)]
                    ELSE [found |-> FALSE, scan |-> Product(l.scan, back)]
      BY <3>2, ProductNextIs
    <3> HIDE DEF D, next, r, l, back, again
    <3> QED  BY <3>3, <3>4, <3>5
  <2>2. next = [s \in D |-> next[s]]  BY DEF ProductNextOf
  <2> HIDE DEF D, next
  <2> QED  BY <2>1, <2>2
<1>4. home \in [D -> D]
  <2>1. \A s \in D : home[s] \in D
    <3> SUFFICES ASSUME NEW s \in D PROVE home[s] \in D  OBVIOUS
    <3>1. PICK a \in D1 : \E b \in D2 : s = Product(a, b)  BY <1>s
    <3>2. PICK b \in D2 : s = Product(a, b)  BY <3>1
    <3>3. home[Product(a, b)] = Product(next1[home1[a]].scan, home2[b])
      BY ProductHomeIs DEF home
    <3> HIDE DEF home
    <3> QED  BY <1>n, <1>p, <3>2, <3>3
  <2>2. home = [s \in D |-> home[s]]  BY DEF ProductHomeOf
  <2> HIDE DEF D, home
  <2> QED  BY <2>1, <2>2
<1> QED  BY <1>3, <1>4

(* A product of two scans, each of which lists its rows, lists the pairs of *)
(* them, the right side's rows for each of the left side's in turn, however *)
(* often one starts over.  The left side must have a row: with none,        *)
(* BeforeFirst goes on all the same, and Next then goes through the right   *)
(* side's rows.                                                             *)
LEMMA PairsAreListed ==
    ASSUME NEW D1, NEW next1, NEW home1, NEW On1, NEW m \in Nat \ {0},
           Lists(D1, next1, home1, On1, m),
           NEW D2, NEW next2, NEW home2, NEW On2, NEW n \in Nat,
           Lists(D2, next2, home2, On2, n)
    PROVE  Lists(ProductStates(D1, D2), ProductNextOf(D1, D2, next1, next2, home2),
                 ProductHomeOf(D1, D2, next1, home1, home2),
                 ProductOn(D1, D2, On1, On2, m, n), m * n)
<1> DEFINE D == ProductStates(D1, D2)
           next == ProductNextOf(D1, D2, next1, next2, home2)
           home == ProductHomeOf(D1, D2, next1, home1, home2)
           On == ProductOn(D1, D2, On1, On2, m, n)
<1>s. \A s \in D : \E a \in D1, b \in D2 : s = Product(a, b)  BY DEF ProductStates
<1>p. \A a \in D1, b \in D2 : Product(a, b) \in D  BY DEF ProductStates
<1>1. /\ next1 \in [D1 -> [found : BOOLEAN, scan : D1]] /\ home1 \in [D1 -> D1]
      /\ next2 \in [D2 -> [found : BOOLEAN, scan : D2]] /\ home2 \in [D2 -> D2]
  BY DEF Lists
<1>2. /\ \A s \in D1 : <<home1[s], 0>> \in On1
      /\ \A s \in D1, i \in 0..m : <<s, i>> \in On1 =>
           next1[s].found = (i < m) /\ (i < m => <<next1[s].scan, i + 1>> \in On1)
      /\ \A s \in D2 : <<home2[s], 0>> \in On2
      /\ \A s \in D2, j \in 0..n : <<s, j>> \in On2 =>
           next2[s].found = (j < n) /\ (j < n => <<next2[s].scan, j + 1>> \in On2)
  BY DEF Lists
<1>n. /\ \A a \in D1 : next1[a].found \in BOOLEAN /\ next1[a].scan \in D1 /\ home1[a] \in D1
      /\ \A b \in D2 : next2[b].found \in BOOLEAN /\ next2[b].scan \in D2 /\ home2[b] \in D2
  BY <1>1
<1>o. ASSUME NEW a \in D1, NEW b \in D2, NEW i \in 1..m, NEW j \in 0..n,
             <<a, i>> \in On1, <<b, j>> \in On2, i = 1 \/ j # 0
      PROVE  <<Product(a, b), (i - 1) * n + j>> \in On
  <2>1. (i - 1) * n + j \in 0..(m * n)  BY RowNumbers
  <2> DEFINE x == <<Product(a, b), (i - 1) * n + j>>
  <2>2. x \in D \X (0..(m * n)) /\ x[1] = Product(a, b) /\ x[2] = (i - 1) * n + j
    BY <1>p, <2>1
  <2>3. x[1].left = a /\ x[1].right = b  BY <2>2, ProductIs
  <2> HIDE DEF x
  <2>4. x \in On  BY <1>o, <2>2, <2>3 DEF ProductOn
  <2> QED  BY <2>4 DEF x
<1>3. next \in [D -> [found : BOOLEAN, scan : D]] /\ home \in [D -> D]
  BY <1>1, ProductTyped
<1>5. On \subseteq D \X (0..(m * n))  BY DEF ProductOn
<1>6. ASSUME NEW s \in D PROVE <<home[s], 0>> \in On
  <2>1. PICK a \in D1 : \E b \in D2 : s = Product(a, b)  BY <1>s
  <2>2. PICK b \in D2 : s = Product(a, b)  BY <2>1
  <2> DEFINE c == next1[home1[a]].scan
  <2>3. home[Product(a, b)] = Product(c, home2[b])  BY ProductHomeIs DEF home, c
  <2>4. c \in D1 /\ home2[b] \in D2 /\ home1[a] \in D1 /\ <<home1[a], 0>> \in On1
        /\ <<home2[b], 0>> \in On2
    BY <1>2, <1>n
  <2>5. 0 \in 0..m /\ 0 < m /\ 0 + 1 = 1 /\ 1 \in 1..m /\ 0 \in 0..n  OBVIOUS
  <2>6. <<c, 1>> \in On1  BY <1>2, <2>4, <2>5
  <2>7. (1 - 1) * n + 0 = 0  OBVIOUS
  <2> HIDE DEF On, home, c
  <2>8. <<Product(c, home2[b]), (1 - 1) * n + 0>> \in On  BY <1>o, <2>4, <2>5, <2>6
  <2> QED  BY <2>2, <2>3, <2>7, <2>8
<1>7. ASSUME NEW s \in D, NEW k \in 0..(m * n), <<s, k>> \in On
      PROVE  /\ next[s].found = (k < m * n)
             /\ k < m * n => <<next[s].scan, k + 1>> \in On
  <2>1. PICK a \in D1 : \E b \in D2 : s = Product(a, b)  BY <1>s
  <2>2. PICK b \in D2 : s = Product(a, b)  BY <2>1
  <2>3. s.left = a /\ s.right = b  BY <2>2, ProductIs
  <2>4. PICK i \in 1..m : \E j \in 0..n : /\ <<a, i>> \in On1 /\ <<b, j>> \in On2
                                          /\ i = 1 \/ j # 0
                                          /\ k = (i - 1) * n + j
    BY <1>7, <2>3 DEF ProductOn
  <2>5. PICK j \in 0..n : /\ <<a, i>> \in On1 /\ <<b, j>> \in On2
                          /\ i = 1 \/ j # 0
                          /\ k = (i - 1) * n + j
    BY <2>4
  <2> DEFINE r == next2[b]
             l == next1[a]
             back == home2[r.scan]
             again == next2[back]
  <2>6. next[s] = IF r.found THEN [found |-> TRUE, scan |-> Product(a, r.scan)]
                  ELSE IF l.found
                  THEN [found |-> again.found, scan |-> Product(l.scan, again.scan)]
                  ELSE [found |-> FALSE, scan |-> Product(l.scan, back)]
    BY <2>2, ProductNextIs
  <2>7. /\ i \in 0..m /\ i - 1 \in Nat /\ i \in Nat /\ j \in Nat /\ k \in Nat /\ i + 1 - 1 = i
        /\ (i - 1) * n \in Nat /\ i * n \in Nat /\ m * n \in Nat
    BY <1>7
  <2>8. /\ k \in 0..(m * n)
        /\ (i - 1) * n + n = i * n
        /\ j < n => k < m * n
        /\ i < m /\ n # 0 => i * n < m * n
        /\ n = 0 => m * n = 0 /\ k = 0
    BY <2>5, RowNumbers
  <2>9. /\ r.found = (j < n) /\ (j < n => <<r.scan, j + 1>> \in On2)
        /\ l.found = (i < m) /\ (i < m => <<l.scan, i + 1>> \in On1)
        /\ r.scan \in D2 /\ l.scan \in D1 /\ back \in D2 /\ again.scan \in D2
        /\ <<back, 0>> \in On2
    BY <1>2, <1>n, <2>5, <2>7
  <2>10. again.found = (0 < n) /\ (0 < n => <<again.scan, 1>> \in On2)
    <3>1. 0 \in 0..n /\ 0 + 1 = 1  OBVIOUS
    <3> QED  BY <1>2, <2>9, <3>1
  <2> HIDE DEF D, next, On, r, l, back, again
  <2>11. CASE j < n
    <3>1. next[s].found = TRUE /\ next[s].scan = Product(a, r.scan)
      <4>1. r.found  BY <2>9, <2>11, Zenon
      <4> QED  BY <2>6, <4>1
    <3>2. j + 1 \in 0..n /\ j + 1 # 0  BY <2>7, <2>11
    <3>3. <<Product(a, r.scan), (i - 1) * n + (j + 1)>> \in On
      BY <1>o, <2>5, <2>9, <2>11, <3>2
    <3>4. (i - 1) * n + (j + 1) = k + 1  BY <2>5, <2>7
    <3>5. k < m * n  BY <2>8, <2>11
    <3> QED  BY <3>1, <3>3, <3>4, <3>5
  <2>12. CASE j = n /\ i < m /\ n # 0
    <3>1. ~(j < n) /\ 0 < n  BY <2>12
    <3>2. next[s].found = TRUE /\ next[s].scan = Product(l.scan, again.scan)
      <4>1. ~r.found /\ l.found /\ again.found = TRUE  BY <2>9, <2>10, <2>12, <3>1, Zenon
      <4> QED  BY <2>6, <4>1
    <3>3. k = i * n  BY <2>5, <2>8, <2>12
    <3>4. i + 1 \in 1..m /\ 1 \in 0..n /\ 1 # 0  BY <2>12, <3>1
    <3>5. <<Product(l.scan, again.scan), (i + 1 - 1) * n + 1>> \in On
      BY <1>o, <2>9, <2>10, <2>12, <3>1, <3>4
    <3>6. (i + 1 - 1) * n + 1 = k + 1  BY <2>7, <3>3
    <3>7. k < m * n  BY <2>8, <2>12, <3>3
    <3> QED  BY <3>2, <3>5, <3>6, <3>7
  <2>13. CASE j = n /\ i < m /\ n = 0
    <3>1. ~(j < n) /\ ~(0 < n)  BY <2>13
    <3>2. next[s].found = FALSE
      <4>1. ~r.found /\ l.found  BY <2>9, <2>13, <3>1, Zenon
      <4>2. again.found = FALSE
        <5>1. (0 < n) = FALSE  BY <3>1
        <5> QED  BY <2>10, <5>1, Zenon
      <4> QED  BY <2>6, <4>1, <4>2
    <3>3. k = m * n /\ ~(k < m * n)  BY <2>7, <2>8, <2>13
    <3>4. (k < m * n) = FALSE  BY <3>3
    <3> QED  BY <3>2, <3>3, <3>4, Zenon
  <2>14. CASE j = n /\ i = m
    <3>1. ~(j < n) /\ ~(i < m)  BY <2>7, <2>14
    <3>2. next[s].found = FALSE
      <4>1. ~r.found /\ ~l.found  BY <2>9, <3>1, Zenon
      <4> QED  BY <2>6, <4>1
    <3>3. k = m * n  BY <2>5, <2>8, <2>14
    <3>4. ~(k < m * n)  BY <2>7, <3>3
    <3>5. (k < m * n) = FALSE  BY <3>4
    <3> QED  BY <3>2, <3>4, <3>5, Zenon
  <2>15. j < n \/ j = n  BY <2>7
  <2>16. i < m \/ i = m  BY <2>7
  <2> QED  BY <2>11, <2>12, <2>13, <2>14, <2>15, <2>16
<1>8. \A s \in D : <<home[s], 0>> \in On  BY <1>6
<1>9. \A s \in D, k \in 0..(m * n) : <<s, k>> \in On =>
         next[s].found = (k < m * n) /\ (k < m * n => <<next[s].scan, k + 1>> \in On)
  BY <1>7
<1> HIDE DEF D, next, home, On
<1>10. Lists(D, next, home, On, m * n)  BY <1>3, <1>5, <1>8, <1>9 DEF Lists
<1> QED  BY <1>10 DEF D, next, home, On

-----------------------------------------------------------------------------
(* Scans: that each kind enumerates its rows                               *)

(* row says which row a state is on, num which number a row of R has.       *)
Numbers(On, row, R, num) ==
    /\ num \in [R -> 1..Cardinality(R)]
    /\ \A r \in R, q \in R : num[r] = num[q] => r = q
    /\ \A s, i : <<s, i>> \in On /\ i # 0 => row[s] \in R /\ num[row[s]] = i

(* A scan enumerates R if it lists as many rows and they are those of R,    *)
(* each once.                                                               *)
Enumerates(D, next, home, row, R) ==
    /\ IsFiniteSet(R)
    /\ \E On, num : Lists(D, next, home, On, Cardinality(R)) /\ Numbers(On, row, R, num)

(* visit is where BeforeFirst and then n times Next take a scan.            *)
Walks(D, next, home, n, visit) ==
    /\ visit \in [0..n -> D] /\ \E s \in D : visit[0] = home[s]
    /\ \A i \in 0..n : i < n => visit[i + 1] = next[visit[i]].scan

(* Next says there until when there are more, and the scan has been on      *)
(* every row of R, and on each once.                                        *)
SeesEveryRow(next, row, R, n, visit) ==
    /\ \A i \in 0..n : next[visit[i]].found = (i < n)
    /\ R = {row[visit[i]] : i \in 1..n}
    /\ \A i \in 1..n, j \in 1..n : row[visit[i]] = row[visit[j]] => i = j

(* So it is on every scan that enumerates R.                                *)
LEMMA EveryRowIsVisited ==
    ASSUME NEW D, NEW next, NEW home, NEW row, NEW R, Enumerates(D, next, home, row, R),
           NEW n, n = Cardinality(R), NEW visit, Walks(D, next, home, n, visit)
    PROVE  SeesEveryRow(next, row, R, n, visit)
<1>0. PICK s \in D :
         /\ visit \in [0..n -> D] /\ visit[0] = home[s]
         /\ \A i \in 0..n : i < n => visit[i + 1] = next[visit[i]].scan
  BY DEF Walks
<1>1. IsFiniteSet(R) /\ n \in Nat
  <2>1. IsFiniteSet(R)  BY DEF Enumerates
  <2> QED  BY <2>1, FS_CardinalityType
<1>2. PICK On, num : Lists(D, next, home, On, n) /\ Numbers(On, row, R, num)
  BY DEF Enumerates
<1>3. /\ \A a \in D : <<home[a], 0>> \in On
      /\ \A a \in D, i \in 0..n : <<a, i>> \in On =>
            /\ next[a].found = (i < n)
            /\ i < n => <<next[a].scan, i + 1>> \in On
  BY <1>2 DEF Lists
<1>4. /\ num \in [R -> 1..n]
      /\ \A r \in R, q \in R : num[r] = num[q] => r = q
      /\ \A a, i : <<a, i>> \in On /\ i # 0 => row[a] \in R /\ num[row[a]] = i
  BY <1>2 DEF Numbers
<1>5. \A i \in 0..n : <<visit[i], i>> \in On
  <2> DEFINE Bad == {i \in 0..n : <<visit[i], i>> \notin On}
  <2> SUFFICES ASSUME Bad # {} PROVE FALSE  OBVIOUS
  <2>1. PICK i \in Bad : \A x \in Bad : i <= x
    <3>1. Bad \subseteq 0..n  OBVIOUS
    <3> HIDE DEF Bad
    <3> QED  BY <1>1, <3>1, FirstPosition
  <2>2. i # 0  BY <1>0, <1>3
  <2>3. i - 1 \in 0..n /\ i - 1 < n /\ i - 1 + 1 = i /\ ~(i <= i - 1)  BY <1>1, <2>2
  <2>4. i - 1 \notin Bad  BY <2>1, <2>3
  <2>5. visit[i - 1] \in D /\ <<visit[i - 1], i - 1>> \in On  BY <1>0, <2>3, <2>4
  <2>6. <<next[visit[i - 1]].scan, i - 1 + 1>> \in On  BY <1>3, <2>3, <2>5
  <2>7. visit[i - 1 + 1] = next[visit[i - 1]].scan  BY <1>0, <2>3
  <2> QED  BY <2>3, <2>6, <2>7
<1>6. \A i \in 0..n : next[visit[i]].found = (i < n)
  <2> SUFFICES ASSUME NEW i \in 0..n PROVE next[visit[i]].found = (i < n)  OBVIOUS
  <2>1. visit[i] \in D  BY <1>0
  <2> QED  BY <1>3, <1>5, <2>1, Zenon
<1>7. \A i \in 1..n : row[visit[i]] \in R /\ num[row[visit[i]]] = i
  <2> SUFFICES ASSUME NEW i \in 1..n
               PROVE  row[visit[i]] \in R /\ num[row[visit[i]]] = i
    OBVIOUS
  <2>1. i \in 0..n /\ i # 0  BY <1>1
  <2> QED  BY <1>4, <1>5, <2>1
<1>8. \A r \in R : \E i \in 1..n : r = row[visit[i]]
  <2> SUFFICES ASSUME NEW r \in R PROVE \E i \in 1..n : r = row[visit[i]]  OBVIOUS
  <2>1. PICK i \in 1..n : num[r] = i  BY <1>4
  <2>2. row[visit[i]] \in R /\ num[row[visit[i]]] = num[r]  BY <1>7, <2>1
  <2> QED  BY <1>4, <2>2
<1>9. R = {row[visit[i]] : i \in 1..n}  BY <1>7, <1>8
<1>10. \A i \in 1..n, j \in 1..n : row[visit[i]] = row[visit[j]] => i = j  BY <1>7
<1> QED  BY <1>6, <1>9, <1>10 DEF SeesEveryRow

TableRowOf(t) == [s \in TableStates(t) |-> s.at]

(* The scan of a table enumerates its records: from before the first slot   *)
(* Next comes to each of them once, in the order of their slots, whatever   *)
(* slots are empty; and so again after BeforeFirst.                         *)
THEOREM TableScanEnumerates ==
    ASSUME UpdateTypeOK, NEW t \in Tables
    PROVE  Enumerates(TableStates(t), TableNextOf(t), TableHomeOf(t), TableRowOf(t), Used(t))
<1> DEFINE num == [p \in Used(t) |-> Cardinality(Passed(t, p))]
           m == Cardinality(Used(t))
<1>1. /\ IsFiniteSet(Used(t)) /\ m \in Nat
      /\ Used(t) \subseteq (1..Len(tables[t])) \X (0..NumSlots)
      /\ (1..Len(tables[t])) \X (0..NumSlots) \subseteq Int \X Int
  BY TableFacts
<1>2. Lists(TableStates(t), TableNextOf(t), TableHomeOf(t), TableOn(t), m)
  BY RecordsAreListed
<1>3. num \in [Used(t) -> 1..m]
  <2>1. ASSUME NEW p \in Used(t) PROVE Cardinality(Passed(t, p)) \in 1..m
    <3>1. /\ IsFiniteSet(Passed(t, p)) /\ Cardinality(Passed(t, p)) \in Nat
          /\ Cardinality(Passed(t, p)) <= m
      BY PassedCount
    <3>2. p \in Int \X Int  BY <1>1
    <3>3. p \in Passed(t, p)  BY <3>2, BeforeIsAnOrder DEF Passed
    <3>4. Cardinality(Passed(t, p)) # 0  BY <3>1, <3>3, FS_EmptySet
    <3> HIDE DEF m
    <3> QED  BY <1>1, <3>1, <3>4
  <2> HIDE DEF m
  <2> QED  BY <2>1
<1>4. ASSUME NEW p \in Used(t), NEW q \in Used(t), num[p] = num[q] PROVE p = q
  <2>1. p \in Int \X Int /\ q \in Int \X Int  BY <1>1
  <2>2. /\ Before(p, q) => Cardinality(Passed(t, p)) < Cardinality(Passed(t, q))
        /\ Before(q, p) => Cardinality(Passed(t, q)) < Cardinality(Passed(t, p))
    BY RecordsAreListed
  <2>3. Cardinality(Passed(t, p)) \in Nat /\ Cardinality(Passed(t, q)) \in Nat  BY PassedCount
  <2>4. ~Before(p, q) /\ ~Before(q, p)  BY <1>4, <2>2, <2>3
  <2> QED  BY <2>1, <2>4, BeforeIsAnOrder
<1>5. ASSUME NEW s, NEW i, <<s, i>> \in TableOn(t), i # 0
      PROVE  TableRowOf(t)[s] \in Used(t) /\ num[TableRowOf(t)[s]] = i
  <2>1. /\ s \in TableStates(t) /\ s.at \in Used(t) \cup {FirstBlock}
        /\ i = Cardinality(Passed(t, s.at))
    BY <1>5 DEF TableOn
  <2>2. TableRowOf(t)[s] = s.at  BY <2>1 DEF TableRowOf
  <2>3. s.at # FirstBlock  BY <1>5, <2>1, PassedAtStart
  <2> QED  BY <2>1, <2>2, <2>3
<1>6. Numbers(TableOn(t), TableRowOf(t), Used(t), num)
  <2> HIDE DEF num
  <2> QED  BY <1>3, <1>4, <1>5 DEF Numbers
<1> QED  BY <1>1, <1>2, <1>6 DEF Enumerates

(* An injection does not change the number of elements. *)
LEMMA ImageCount ==
    ASSUME NEW S, IsFiniteSet(S), NEW T, NEW f \in [S -> T],
           \A x \in S, y \in S : f[x] = f[y] => x = y
    PROVE  IsFiniteSet({f[x] : x \in S}) /\ Cardinality({f[x] : x \in S}) = Cardinality(S)
<1> DEFINE I == {f[x] : x \in S}
<1>1. f \in [S -> I]  OBVIOUS
<1>2. f \in Surjection(S, I) /\ f \in Injection(S, I)
  BY <1>1 DEF Surjection, Injection, IsInjective
<1> HIDE DEF I
<1>3. IsFiniteSet(I) /\ Cardinality(I) = Cardinality(S)  BY <1>2, FS_Surjection
<1> QED  BY <1>3 DEF I

SelectRowOf(pred, D, row) == [s \in SelectStates(pred, D) |-> row[s.scan]]

(* A selection on a scan that enumerates R enumerates those rows of R whose *)
(* record satisfies the predicate, in their order: the loop of              *)
(* SelectScan::Next stops at the first one behind the row it is on, or      *)
(* goes through to the end.                                                 *)
THEOREM SelectScanEnumerates ==
    ASSUME NEW D, NEW next, NEW home, NEW row, NEW R, Enumerates(D, next, home, row, R),
           NEW pred, NEW Matching, NEW sel,
           SelectNextIs(pred, D, next, [a \in D |-> row[a] \in Matching], sel)
    PROVE  Enumerates(SelectStates(pred, D), sel, SelectHomeOf(pred, D, home),
                      SelectRowOf(pred, D, row), R \cap Matching)
<1> DEFINE S == R \cap Matching
           m == Cardinality(R)
           passes == [a \in D |-> row[a] \in Matching]
<1>1. IsFiniteSet(R) /\ m \in Nat /\ IsFiniteSet(S)
  <2>1. IsFiniteSet(R)  BY DEF Enumerates
  <2>2. S \in SUBSET R  OBVIOUS
  <2> QED  BY <2>1, <2>2, FS_CardinalityType, FS_Subset
<1>2. PICK On, num : Lists(D, next, home, On, m) /\ Numbers(On, row, R, num)
  BY DEF Enumerates
<1> DEFINE Kept == {num[r] : r \in S}
           Upto(i) == {j \in Kept : j <= i}
           E == SelectStates(pred, D)
           Now == SelectOn(pred, D, On, Kept)
           pick == [r \in S |-> Cardinality(Upto(num[r]))]
           line == SelectRowOf(pred, D, row)
<1>3. /\ num \in [R -> 1..m]
      /\ \A r \in R, q \in R : num[r] = num[q] => r = q
      /\ \A s, i : <<s, i>> \in On /\ i # 0 => row[s] \in R /\ num[row[s]] = i
  BY <1>2 DEF Numbers
<1>4. Kept \subseteq 1..m  BY <1>3
<1>5. IsFiniteSet(Kept) /\ Cardinality(Kept) = Cardinality(S)
  <2> DEFINE f == [r \in S |-> num[r]]
  <2>1. f \in [S -> 1..m] /\ \A x \in S, y \in S : f[x] = f[y] => x = y  BY <1>3
  <2>2. Kept = {f[r] : r \in S}  OBVIOUS
  <2> HIDE DEF f, S, Kept
  <2>3. IsFiniteSet({f[r] : r \in S}) /\ Cardinality({f[r] : r \in S}) = Cardinality(S)
    BY <1>1, <2>1, ImageCount, SMTT(30)
  <2> QED  BY <2>2, <2>3, Zenon
<1>6. ASSUME NEW a \in D, NEW i \in 1..m, <<a, i>> \in On
      PROVE  passes[a] = (i \in Kept)
  <2>1. row[a] \in R /\ num[row[a]] = i  BY <1>3, <1>6
  <2>2. row[a] \in Matching => i \in Kept  BY <2>1
  <2>3. i \in Kept => row[a] \in Matching
    <3> SUFFICES ASSUME i \in Kept PROVE row[a] \in Matching  OBVIOUS
    <3>1. PICK r \in S : num[r] = i  OBVIOUS
    <3> QED  BY <1>3, <2>1, <3>1
  <2>4. passes[a] = (row[a] \in Matching)  OBVIOUS
  <2> HIDE DEF Kept, passes
  <2> QED  BY <2>2, <2>3, <2>4
<1>7. Lists(E, sel, SelectHomeOf(pred, D, home), Now, Cardinality(S))
  <2>1. passes \in [D -> BOOLEAN]  OBVIOUS
  <2>2. \A a \in D, i \in 1..m : <<a, i>> \in On => passes[a] = (i \in Kept)  BY <1>6
  <2>3. SelectNextIs(pred, D, next, passes, sel)  OBVIOUS
  <2> HIDE DEF passes, Kept, S, m
  <2>4. Lists(E, sel, SelectHomeOf(pred, D, home), Now, Cardinality(Kept))
    BY <1>1, <1>2, <1>4, <2>1, <2>2, <2>3, KeptRowsAreListed
  <2> QED  BY <1>5, <2>4
<1>8. ASSUME NEW i \in Kept
      PROVE  /\ IsFiniteSet(Upto(i)) /\ i \in Upto(i)
             /\ Cardinality(Upto(i)) \in 1..Cardinality(S)
  <2>1. Upto(i) \in SUBSET Kept  OBVIOUS
  <2>2. i \in 1..m /\ i <= i  BY <1>4
  <2>3. i \in Upto(i)  BY <2>2
  <2> HIDE DEF Upto, Kept, S
  <2>4. IsFiniteSet(Upto(i)) /\ Cardinality(Upto(i)) <= Cardinality(S)
    BY <1>5, <2>1, FS_Subset
  <2>5. Cardinality(Upto(i)) \in Nat /\ Cardinality(Upto(i)) # 0
    BY <2>3, <2>4, FS_CardinalityType, FS_EmptySet
  <2>6. Cardinality(S) \in Nat  BY <1>1, FS_CardinalityType
  <2> QED  BY <2>3, <2>4, <2>5, <2>6
<1>9. ASSUME NEW i \in Kept, NEW j \in Kept, i < j
      PROVE  Cardinality(Upto(i)) < Cardinality(Upto(j))
  <2>1. \A x \in Kept : x \in Int  BY <1>4
  <2>2. Upto(i) \cup {j} \subseteq Upto(j) /\ j \notin Upto(i)
    <3>1. ~(j <= i) /\ j <= j /\ \A x \in Kept : x <= i => x <= j
      <4> HIDE DEF Kept
      <4> QED  BY <1>9, <2>1
    <3> QED  BY <3>1, Zenon
  <2>3. /\ IsFiniteSet(Upto(i)) /\ IsFiniteSet(Upto(j))
        /\ Cardinality(Upto(i)) \in Nat /\ Cardinality(Upto(j)) \in Nat
    <3> HIDE DEF Kept, Upto
    <3> QED  BY <1>8, FS_CardinalityType
  <2> HIDE DEF Upto
  <2>4. Cardinality(Upto(i) \cup {j}) = Cardinality(Upto(i)) + 1  BY <2>2, <2>3, FS_AddElement
  <2>5. Cardinality(Upto(i) \cup {j}) <= Cardinality(Upto(j))  BY <2>2, <2>3, FS_Subset
  <2> QED  BY <2>3, <2>4, <2>5
<1>10. pick \in [S -> 1..Cardinality(S)]
  <2>1. \A r \in S : num[r] \in Kept  OBVIOUS
  <2> HIDE DEF Kept, Upto, S
  <2> QED  BY <1>8, <2>1
<1>11. ASSUME NEW r \in S, NEW q \in S, pick[r] = pick[q] PROVE r = q
  <2>1. num[r] \in Kept /\ num[q] \in Kept  OBVIOUS
  <2>2. num[r] \in Int /\ num[q] \in Int  BY <1>4, <2>1
  <2>3. /\ Cardinality(Upto(num[r])) = Cardinality(Upto(num[q]))
        /\ Cardinality(Upto(num[r])) \in Int
    <3>1. Cardinality(Upto(num[r])) \in 1..Cardinality(S)
      <4> HIDE DEF Upto, Kept
      <4> QED  BY <1>8, <2>1
    <3>2. Cardinality(Upto(num[r])) \in Int  BY <3>1
    <3> HIDE DEF Upto
    <3> QED  BY <1>11, <3>2
  <2>4. ~(num[r] < num[q]) /\ ~(num[q] < num[r])
    <3> HIDE DEF Upto, Kept
    <3> QED  BY <1>9, <2>1, <2>3
  <2>5. num[r] = num[q]  BY <2>2, <2>4
  <2> QED  BY <1>3, <2>5
<1>12. ASSUME NEW s, NEW k, <<s, k>> \in Now, k # 0
       PROVE  line[s] \in S /\ pick[line[s]] = k
  <2>1. s \in E /\ \E i \in Kept \cup {0} : <<s.scan, i>> \in On /\ k = Cardinality(Upto(i))
    BY <1>12 DEF SelectOn
  <2>2. PICK i \in Kept \cup {0} : <<s.scan, i>> \in On /\ k = Cardinality(Upto(i))
    BY <2>1
  <2>3. i # 0
    <3>1. ASSUME i = 0 PROVE FALSE
      <4>1. \A j \in Kept : j \in 1..m  BY <1>4
      <4>2. \A j \in Kept : ~(j <= 0)  BY <4>1
      <4>3. Upto(i) = {}  BY <3>1, <4>2
      <4> QED  BY <1>12, <2>2, <4>3, FS_EmptySet
    <3> QED  BY <3>1
  <2>4. line[s] = row[s.scan]  BY <2>1 DEF SelectRowOf
  <2>5. row[s.scan] \in R /\ num[row[s.scan]] = i  BY <1>3, <2>2, <2>3
  <2>6. row[s.scan] \in S
    <3>1. i \in Kept  BY <2>3
    <3>2. PICK r \in S : num[r] = i  BY <3>1
    <3> QED  BY <1>3, <2>5, <3>2
  <2> HIDE DEF Upto, S, line
  <2> QED  BY <2>2, <2>4, <2>5, <2>6
<1>13. Numbers(Now, line, S, pick)
  <2> HIDE DEF Now, line, S, pick
  <2> QED  BY <1>10, <1>11, <1>12 DEF Numbers
<1> HIDE DEF E, Now, line, S, pick
<1>14. Enumerates(E, sel, SelectHomeOf(pred, D, home), line, S)
  BY <1>1, <1>7, <1>13 DEF Enumerates
<1> QED  BY <1>14 DEF E, line, S

ProductRowOf(D1, D2, row1, row2) ==
    [s \in ProductStates(D1, D2) |-> <<row1[s.left], row2[s.right]>>]

(* With no row on its right a product lists none, whatever is on its left.  *)
LEMMA NoPairIsListed ==
    ASSUME NEW D1, NEW next1 \in [D1 -> [found : BOOLEAN, scan : D1]], NEW home1 \in [D1 -> D1],
           NEW D2, NEW next2, NEW home2, NEW On2, Lists(D2, next2, home2, On2, 0)
    PROVE  Lists(ProductStates(D1, D2), ProductNextOf(D1, D2, next1, next2, home2),
                 ProductHomeOf(D1, D2, next1, home1, home2),
                 {x \in ProductStates(D1, D2) \X {0} : <<x[1].right, 0>> \in On2}, 0)
<1> DEFINE D == ProductStates(D1, D2)
           next == ProductNextOf(D1, D2, next1, next2, home2)
           home == ProductHomeOf(D1, D2, next1, home1, home2)
           On == {x \in D \X {0} : <<x[1].right, 0>> \in On2}
<1>1. /\ next2 \in [D2 -> [found : BOOLEAN, scan : D2]] /\ home2 \in [D2 -> D2]
      /\ \A b \in D2 : <<home2[b], 0>> \in On2
      /\ \A b \in D2 : <<b, 0>> \in On2 => next2[b].found = FALSE
  <2>1. /\ next2 \in [D2 -> [found : BOOLEAN, scan : D2]] /\ home2 \in [D2 -> D2]
        /\ \A b \in D2 : <<home2[b], 0>> \in On2
        /\ \A b \in D2, j \in 0..0 : <<b, j>> \in On2 => next2[b].found = (j < 0)
    BY DEF Lists
  <2>2. 0 \in 0..0 /\ (0 < 0) = FALSE  OBVIOUS
  <2> QED  BY <2>1, <2>2, Zenon
<1>2. next \in [D -> [found : BOOLEAN, scan : D]] /\ home \in [D -> D]  BY <1>1, ProductTyped
<1>3. On \subseteq D \X (0..0)  OBVIOUS
<1>4. ASSUME NEW a \in D1, NEW b \in D2
      PROVE  <<Product(a, b), 0>> \in On <=> <<b, 0>> \in On2
  <2>1. Product(a, b) \in D  BY DEF ProductStates
  <2>2. Product(a, b).right = b  BY ProductIs
  <2> DEFINE x == <<Product(a, b), 0>>
  <2>3. x \in D \X {0} /\ x[1] = Product(a, b)  BY <2>1
  <2>4. x[1].right = b  BY <2>2, <2>3, Zenon
  <2> HIDE DEF x
  <2>5. x \in On <=> <<b, 0>> \in On2  BY <2>3, <2>4
  <2> QED  BY <2>5 DEF x
<1>5. ASSUME NEW s \in D
      PROVE  <<home[s], 0>> \in On /\ (<<s, 0>> \in On => next[s].found = FALSE)
  <2>1. PICK a \in D1 : \E b \in D2 : s = Product(a, b)  BY DEF ProductStates
  <2>2. PICK b \in D2 : s = Product(a, b)  BY <2>1
  <2>3. home[Product(a, b)] = Product(next1[home1[a]].scan, home2[b])
    BY ProductHomeIs DEF home
  <2>4. next1[home1[a]].scan \in D1 /\ home2[b] \in D2 /\ <<home2[b], 0>> \in On2  BY <1>1
  <2>5. <<home[s], 0>> \in On
    <3> HIDE DEF On, home
    <3>1. <<Product(next1[home1[a]].scan, home2[b]), 0>> \in On  BY <1>4, <2>4
    <3> QED  BY <2>2, <2>3, <3>1
  <2>6. ASSUME <<s, 0>> \in On PROVE next[s].found = FALSE
    <3> DEFINE r == next2[b]
               l == next1[a]
               back == home2[r.scan]
               again == next2[back]
    <3>1. <<b, 0>> \in On2
      <4> HIDE DEF On
      <4> QED  BY <1>4, <2>2, <2>6
    <3>2. r.found = FALSE /\ r.scan \in D2  BY <1>1, <3>1
    <3>3. back \in D2 /\ <<back, 0>> \in On2  BY <1>1, <3>2
    <3>4. again.found = FALSE  BY <1>1, <3>3
    <3>5. next[s] = IF r.found THEN [found |-> TRUE, scan |-> Product(a, r.scan)]
                    ELSE IF l.found
                    THEN [found |-> again.found, scan |-> Product(l.scan, again.scan)]
                    ELSE [found |-> FALSE, scan |-> Product(l.scan, back)]
      BY <2>2, ProductNextIs
    <3> HIDE DEF next, r, l, back, again
    <3> QED  BY <3>2, <3>4, <3>5
  <2> QED  BY <2>5, <2>6
<1>6. \A s \in D, k \in 0..0 : <<s, k>> \in On =>
         next[s].found = (k < 0) /\ (k < 0 => <<next[s].scan, k + 1>> \in On)
  <2> SUFFICES ASSUME NEW s \in D, NEW k \in 0..0, <<s, k>> \in On
               PROVE  next[s].found = (k < 0) /\ (k < 0 => <<next[s].scan, k + 1>> \in On)
    OBVIOUS
  <2>1. k = 0 /\ ~(k < 0) /\ (k < 0) = FALSE  OBVIOUS
  <2> HIDE DEF On, next
  <2>2. next[s].found = FALSE  BY <1>5, <2>1
  <2> QED  BY <2>1, <2>2, Zenon
<1>7. \A s \in D : <<home[s], 0>> \in On  BY <1>5
<1> HIDE DEF D, next, home, On
<1>8. Lists(D, next, home, On, 0)  BY <1>2, <1>3, <1>6, <1>7 DEF Lists
<1> QED  BY <1>8 DEF D, next, home, On

(* A product of two scans that enumerate R1 and R2 enumerates the pairs of  *)
(* their rows, the right side's for each of the left side's in turn: no     *)
(* pair is left out and none comes twice.  If the right side has rows, the  *)
(* left side must have one, too: with none, BeforeFirst goes on all the     *)
(* same, and Next goes through the right side's rows.                       *)
THEOREM ProductScanEnumerates ==
    ASSUME NEW D1, NEW next1, NEW home1, NEW row1, NEW R1,
           Enumerates(D1, next1, home1, row1, R1),
           NEW D2, NEW next2, NEW home2, NEW row2, NEW R2,
           Enumerates(D2, next2, home2, row2, R2),
           R1 # {} \/ R2 = {}
    PROVE  Enumerates(ProductStates(D1, D2), ProductNextOf(D1, D2, next1, next2, home2),
                      ProductHomeOf(D1, D2, next1, home1, home2),
                      ProductRowOf(D1, D2, row1, row2), R1 \X R2)
<1>1. PICK m, n : m = Cardinality(R1) /\ n = Cardinality(R2)  OBVIOUS
<1>2. /\ IsFiniteSet(R1) /\ IsFiniteSet(R2) /\ IsFiniteSet(R1 \X R2)
      /\ m \in Nat /\ n \in Nat /\ Cardinality(R1 \X R2) = m * n
      /\ (m = 0 <=> R1 = {}) /\ (n = 0 <=> R2 = {})
  <2>1. IsFiniteSet(R1) /\ IsFiniteSet(R2)  BY DEF Enumerates
  <2> QED  BY <1>1, <2>1, FS_CardinalityType, FS_Product, FS_EmptySet
<1>3. PICK On1, num1 : Lists(D1, next1, home1, On1, m) /\ Numbers(On1, row1, R1, num1)
  BY <1>1 DEF Enumerates
<1>4. PICK On2, num2 : Lists(D2, next2, home2, On2, n) /\ Numbers(On2, row2, R2, num2)
  BY <1>1 DEF Enumerates
<1>5. /\ num1 \in [R1 -> 1..m] /\ num2 \in [R2 -> 1..n]
      /\ \A r \in R1, q \in R1 : num1[r] = num1[q] => r = q
      /\ \A r \in R2, q \in R2 : num2[r] = num2[q] => r = q
      /\ \A s, i : <<s, i>> \in On1 /\ i # 0 => row1[s] \in R1 /\ num1[row1[s]] = i
      /\ \A s, i : <<s, i>> \in On2 /\ i # 0 => row2[s] \in R2 /\ num2[row2[s]] = i
  BY <1>1, <1>3, <1>4 DEF Numbers
<1> DEFINE D == ProductStates(D1, D2)
           next == ProductNextOf(D1, D2, next1, next2, home2)
           home == ProductHomeOf(D1, D2, next1, home1, home2)
           row == ProductRowOf(D1, D2, row1, row2)
           R == R1 \X R2
<1>6. CASE n # 0
  <2> DEFINE On == ProductOn(D1, D2, On1, On2, m, n)
             num == [r \in R |-> (num1[r[1]] - 1) * n + num2[r[2]]]
  <2>1. m \in Nat \ {0} /\ n \in Nat  BY <1>2, <1>6
  <2>2. Lists(D, next, home, On, m * n)  BY <1>3, <1>4, <2>1, PairsAreListed
  <2>3. num \in [R -> 1..(m * n)]
    <3> SUFFICES ASSUME NEW r \in R PROVE (num1[r[1]] - 1) * n + num2[r[2]] \in 1..(m * n)
      OBVIOUS
    <3>1. PICK i \in 1..m : i = num1[r[1]]  BY <1>5
    <3>2. PICK j \in 1..n : j = num2[r[2]]  BY <1>5
    <3>3. j \in 0..n  OBVIOUS
    <3>4. (i - 1) * n + j \in 0..(m * n)  BY <2>1, <3>3, RowNumbers
    <3>5. (i - 1) * n + j # 0
      <4>1. PICK e \in Nat : i = e + 1
        <5>1. i - 1 \in Nat /\ i = i - 1 + 1  OBVIOUS
        <5> QED  BY <5>1
      <4>2. e * n \in Nat /\ (i - 1) * n = e * n  BY <2>1, <4>1
      <4> QED  BY <4>2
    <3>6. m * n \in Nat  BY <2>1
    <3> QED  BY <3>1, <3>2, <3>4, <3>5, <3>6
  <2>4. ASSUME NEW r \in R, NEW q \in R, num[r] = num[q] PROVE r = q
    <3>1. /\ r[1] \in R1 /\ r[2] \in R2 /\ q[1] \in R1 /\ q[2] \in R2
          /\ r = <<r[1], r[2]>> /\ q = <<q[1], q[2]>>
      OBVIOUS
    <3>2. (num1[r[1]] - 1) * n + num2[r[2]] = (num1[q[1]] - 1) * n + num2[q[2]]  BY <2>4
    <3>3. /\ num1[r[1]] \in 1..m /\ num1[q[1]] \in 1..m
          /\ num2[r[2]] \in 1..n /\ num2[q[2]] \in 1..n
      BY <1>5, <3>1
    <3>4. num1[r[1]] = num1[q[1]] /\ num2[r[2]] = num2[q[2]]
      <4>1. PICK i, k, j, l : /\ i = num1[r[1]] /\ k = num1[q[1]]
                              /\ j = num2[r[2]] /\ l = num2[q[2]]
        OBVIOUS
      <4>2. /\ i \in Nat \ {0} /\ k \in Nat \ {0} /\ j \in 1..n /\ l \in 1..n
            /\ (i - 1) * n + j = (k - 1) * n + l
        BY <3>2, <3>3, <4>1
      <4>3. i = k /\ j = l  BY <2>1, <4>2, RowNumbersDiffer
      <4> QED  BY <4>1, <4>3
    <3>5. r[1] = q[1] /\ r[2] = q[2]  BY <1>5, <3>1, <3>4
    <3> QED  BY <3>1, <3>5
  <2>5. ASSUME NEW s, NEW k, <<s, k>> \in On, k # 0
        PROVE  row[s] \in R /\ num[row[s]] = k
    <3>1. s \in D /\ \E i \in 1..m, j \in 0..n : /\ <<s.left, i>> \in On1
                                                 /\ <<s.right, j>> \in On2
                                                 /\ i = 1 \/ j # 0
                                                 /\ k = (i - 1) * n + j
      BY <2>5 DEF ProductOn
    <3>2. PICK i \in 1..m : \E j \in 0..n : /\ <<s.left, i>> \in On1
                                            /\ <<s.right, j>> \in On2
                                            /\ i = 1 \/ j # 0
                                            /\ k = (i - 1) * n + j
      BY <3>1
    <3>3. PICK j \in 0..n : /\ <<s.left, i>> \in On1
                            /\ <<s.right, j>> \in On2
                            /\ i = 1 \/ j # 0
                            /\ k = (i - 1) * n + j
      BY <3>2
    <3>4. j # 0
      <4>1. ASSUME i = 1, j = 0 PROVE FALSE
        <5>1. (i - 1) * n + j = 0  BY <2>1, <4>1
        <5> QED  BY <2>5, <3>3, <5>1
      <4> QED  BY <3>3, <4>1
    <3>5. i # 0  OBVIOUS
    <3>6. row[s] = <<row1[s.left], row2[s.right]>>  BY <3>1 DEF ProductRowOf
    <3>7. /\ row1[s.left] \in R1 /\ num1[row1[s.left]] = i
          /\ row2[s.right] \in R2 /\ num2[row2[s.right]] = j
      BY <1>5, <3>3, <3>4, <3>5
    <3>8. row[s] \in R /\ row[s][1] = row1[s.left] /\ row[s][2] = row2[s.right]
      <4> HIDE DEF row
      <4> QED  BY <3>6, <3>7
    <3> HIDE DEF row
    <3>9. num[row[s]] = (num1[row1[s.left]] - 1) * n + num2[row2[s.right]]  BY <3>8
    <3> HIDE DEF num
    <3>10. num[row[s]] = (i - 1) * n + j  BY <3>7, <3>9, Zenon
    <3> QED  BY <3>3, <3>8, <3>10, Zenon
  <2>6. Numbers(On, row, R, num)
    <3> HIDE DEF On, row, R, num
    <3> QED  BY <1>2, <2>3, <2>4, <2>5 DEF Numbers, R
  <2> HIDE DEF D, next, home, On, row, R, num
  <2>7. Enumerates(D, next, home, row, R)  BY <1>2, <2>2, <2>6 DEF Enumerates, R
  <2> QED  BY <2>7 DEF D, next, home, row, R
<1>7. CASE n = 0
  <2> DEFINE On == {x \in D \X {0} : <<x[1].right, 0>> \in On2}
  <2>1. R = {} /\ m * n = 0  BY <1>2, <1>7
  <2>2. Lists(D, next, home, On, 0)
    <3>1. next1 \in [D1 -> [found : BOOLEAN, scan : D1]] /\ home1 \in [D1 -> D1]
      BY <1>3 DEF Lists
    <3>2. Lists(D2, next2, home2, On2, 0)  BY <1>4, <1>7
    <3> QED  BY <3>1, <3>2, NoPairIsListed
  <2>3. Numbers(On, row, R, [r \in {} |-> 0])
    <3>1. [r \in {} |-> 0] \in [{} -> 1..Cardinality(R)]  OBVIOUS
    <3>2. \A s, i : <<s, i>> \in On => i = 0  OBVIOUS
    <3> HIDE DEF On, row, R
    <3> QED  BY <2>1, <3>1, <3>2 DEF Numbers
  <2>4. Cardinality(R) = 0  BY <1>2, <2>1
  <2> HIDE DEF D, next, home, On, row, R
  <2>5. Enumerates(D, next, home, row, R)  BY <1>2, <2>2, <2>3, <2>4 DEF Enumerates, R
  <2> QED  BY <2>5 DEF D, next, home, row, R
<1> QED  BY <1>6, <1>7

Project(fields, a) == [op |-> "project", fields |-> fields, scan |-> a]

ProjectStates(fields, D) == {Project(fields, a) : a \in D}
ProjectNextOf(fields, D, next) ==
    [s \in ProjectStates(fields, D) |-> ProjectNext(s, next[s.scan])]
ProjectHomeOf(fields, D, home) ==
    [s \in ProjectStates(fields, D) |-> Project(fields, home[s.scan])]
ProjectRowOf(fields, D, row) == [s \in ProjectStates(fields, D) |-> row[s.scan]]

LEMMA ProjectIs ==
    ASSUME NEW fields, NEW a, NEW n
    PROVE  /\ Project(fields, a).scan = a
           /\ ProjectNext(Project(fields, a), n) =
                [found |-> n.found, scan |-> Project(fields, n.scan)]
  BY DEF Project, ProjectNext

(* A projection enumerates the rows of the scan below it, in their order.   *)
THEOREM ProjectScanEnumerates ==
    ASSUME NEW D, NEW next, NEW home, NEW row, NEW R, Enumerates(D, next, home, row, R),
           NEW fields
    PROVE  Enumerates(ProjectStates(fields, D), ProjectNextOf(fields, D, next),
                      ProjectHomeOf(fields, D, home), ProjectRowOf(fields, D, row), R)
<1> DEFINE E == ProjectStates(fields, D)
           step == ProjectNextOf(fields, D, next)
           back == ProjectHomeOf(fields, D, home)
           line == ProjectRowOf(fields, D, row)
<1>1. PICK m : m = Cardinality(R)  OBVIOUS
<1>2. PICK On, num : Lists(D, next, home, On, m) /\ Numbers(On, row, R, num)
  BY <1>1 DEF Enumerates
<1> DEFINE Now == {x \in E \X (0..m) : <<x[1].scan, x[2]>> \in On}
<1>3. /\ next \in [D -> [found : BOOLEAN, scan : D]] /\ home \in [D -> D]
      /\ \A a \in D : <<home[a], 0>> \in On
      /\ \A a \in D, i \in 0..m : <<a, i>> \in On =>
            next[a].found = (i < m) /\ (i < m => <<next[a].scan, i + 1>> \in On)
      /\ IsFiniteSet(R) /\ m \in Nat
  <2>1. IsFiniteSet(R) /\ m \in Nat  BY <1>1, FS_CardinalityType DEF Enumerates
  <2> QED  BY <1>2, <2>1 DEF Lists
<1>4. ASSUME NEW a \in D
      PROVE  /\ Project(fields, a) \in E /\ next[a].scan \in D /\ home[a] \in D
             /\ step[Project(fields, a)] =
                  [found |-> next[a].found, scan |-> Project(fields, next[a].scan)]
             /\ back[Project(fields, a)] = Project(fields, home[a])
             /\ line[Project(fields, a)] = row[a]
  <2>1. Project(fields, a) \in E /\ next[a].scan \in D /\ home[a] \in D
    BY <1>3 DEF ProjectStates
  <2>2. Project(fields, a).scan = a  BY ProjectIs
  <2> HIDE DEF E
  <2>3. step[Project(fields, a)] = ProjectNext(Project(fields, a), next[a])
    BY <2>1, <2>2 DEF E, ProjectNextOf
  <2>4. back[Project(fields, a)] = Project(fields, home[a])
    BY <2>1, <2>2 DEF E, ProjectHomeOf
  <2>5. line[Project(fields, a)] = row[a]
    BY <2>1, <2>2 DEF E, ProjectRowOf
  <2> HIDE DEF step, back, line
  <2> QED  BY <2>1, <2>3, <2>4, <2>5, ProjectIs
<1>5. \A s \in E : \E a \in D : s = Project(fields, a)  BY DEF ProjectStates
<1>6. ASSUME NEW a \in D, NEW i \in 0..m
      PROVE  <<Project(fields, a), i>> \in Now <=> <<a, i>> \in On
  <2> DEFINE x == <<Project(fields, a), i>>
  <2>1. Project(fields, a) \in E  BY <1>4
  <2>2. x \in E \X (0..m) /\ x[1] = Project(fields, a) /\ x[2] = i  BY <2>1
  <2>3. x[1].scan = a  BY <2>2, ProjectIs, Zenon
  <2> HIDE DEF x, E
  <2>4. x \in Now <=> <<a, i>> \in On  BY <2>2, <2>3
  <2> QED  BY <2>4 DEF x
<1> HIDE DEF E, step, back, line
<1>7. step \in [E -> [found : BOOLEAN, scan : E]]
  <2>1. step = [s \in E |-> step[s]]  BY DEF step, E, ProjectNextOf
  <2>2. ASSUME NEW s \in E PROVE step[s] \in [found : BOOLEAN, scan : E]
    <3>1. PICK a \in D : s = Project(fields, a)  BY <1>5
    <3>2. next[a].found \in BOOLEAN /\ next[a].scan \in D  BY <1>3
    <3>3. Project(fields, next[a].scan) \in E  BY <1>4, <3>2
    <3>4. step[s] = [found |-> next[a].found, scan |-> Project(fields, next[a].scan)]
      BY <1>4, <3>1, Zenon
    <3> QED  BY <3>2, <3>3, <3>4
  <2> QED  BY <2>1, <2>2
<1>8. back \in [E -> E]
  <2>1. back = [s \in E |-> back[s]]  BY DEF back, E, ProjectHomeOf
  <2>2. ASSUME NEW s \in E PROVE back[s] \in E
    <3>1. PICK a \in D : s = Project(fields, a)  BY <1>5
    <3>2. home[a] \in D /\ back[s] = Project(fields, home[a])  BY <1>4, <3>1, Zenon
    <3>3. Project(fields, home[a]) \in E  BY <1>4, <3>2
    <3> QED  BY <3>2, <3>3
  <2> QED  BY <2>1, <2>2
<1>9. \A s \in E : <<back[s], 0>> \in Now
  <2> SUFFICES ASSUME NEW s \in E PROVE <<back[s], 0>> \in Now  OBVIOUS
  <2>1. PICK a \in D : s = Project(fields, a)  BY <1>5
  <2>2. 0 \in 0..m /\ <<home[a], 0>> \in On /\ home[a] \in D  BY <1>3
  <2> HIDE DEF Now
  <2>3. <<Project(fields, home[a]), 0>> \in Now  BY <1>6, <2>2
  <2> QED  BY <1>4, <2>1, <2>3
<1>10. \A s \in E, i \in 0..m : <<s, i>> \in Now =>
          step[s].found = (i < m) /\ (i < m => <<step[s].scan, i + 1>> \in Now)
  <2> SUFFICES ASSUME NEW s \in E, NEW i \in 0..m, <<s, i>> \in Now
               PROVE  step[s].found = (i < m) /\ (i < m => <<step[s].scan, i + 1>> \in Now)
    OBVIOUS
  <2>1. PICK a \in D : s = Project(fields, a)  BY <1>5
  <2> HIDE DEF Now
  <2>2. <<a, i>> \in On  BY <1>6, <2>1
  <2>3. next[a].found = (i < m) /\ (i < m => <<next[a].scan, i + 1>> \in On)  BY <1>3, <2>2
  <2>4. step[s].found = next[a].found /\ step[s].scan = Project(fields, next[a].scan)
    <3>1. step[s] = [found |-> next[a].found, scan |-> Project(fields, next[a].scan)]
      BY <1>4, <2>1, Zenon
    <3> QED  BY <3>1
  <2>5. i < m => <<step[s].scan, i + 1>> \in Now
    <3>1. i < m => i + 1 \in 0..m  BY <1>3
    <3> QED  BY <1>4, <1>6, <2>3, <2>4, <3>1
  <2> QED  BY <2>3, <2>4, <2>5, Zenon
<1>11. Lists(E, step, back, Now, m)
  <2>1. Now \subseteq E \X (0..m)  OBVIOUS
  <2> HIDE DEF Now
  <2> QED  BY <1>7, <1>8, <1>9, <1>10, <2>1 DEF Lists
<1>12. Numbers(Now, line, R, num)
  <2>1. ASSUME NEW s, NEW i, <<s, i>> \in Now, i # 0
        PROVE  line[s] \in R /\ num[line[s]] = i
    <3>1. s \in E /\ i \in 0..m  BY <2>1
    <3>2. PICK a \in D : s = Project(fields, a)  BY <1>5, <3>1
    <3> HIDE DEF Now
    <3>3. <<a, i>> \in On  BY <1>6, <2>1, <3>1, <3>2
    <3>4. row[a] \in R /\ num[row[a]] = i  BY <1>2, <2>1, <3>3 DEF Numbers
    <3> QED  BY <1>4, <3>2, <3>4
  <2> HIDE DEF Now
  <2> QED  BY <1>2, <2>1 DEF Numbers
<1> HIDE DEF Now
<1>13. Enumerates(E, step, back, line, R)  BY <1>1, <1>3, <1>11, <1>12 DEF Enumerates
<1> QED  BY <1>13 DEF E, step, back, line

-----------------------------------------------------------------------------
(* Plans: that the scan a plan opens enumerates the rows the plan is for.   *)
(* scanOf[p] is that scan: its states, its Next and BeforeFirst, the row a  *)
(* state is on, and the rows it is for.                                     *)

OpensTable(o, t) ==
    /\ o.states = TableStates(t) /\ o.next = TableNextOf(t) /\ o.home = TableHomeOf(t)
    /\ o.row = TableRowOf(t) /\ o.rows = Used(t)

OpensProduct(o, l, r) ==
    /\ o.states = ProductStates(l.states, r.states)
    /\ o.next = ProductNextOf(l.states, r.states, l.next, r.next, r.home)
    /\ o.home = ProductHomeOf(l.states, r.states, l.next, l.home, r.home)
    /\ o.row = ProductRowOf(l.states, r.states, l.row, r.row)
    /\ o.rows = l.rows \X r.rows

(* Matching is the rows whose records satisfy the predicate.                *)
OpensSelect(o, a, pred, Matching) ==
    /\ o.states = SelectStates(pred, a.states)
    /\ SelectNextIs(pred, a.states, a.next, [s \in a.states |-> a.row[s] \in Matching], o.next)
    /\ o.home = SelectHomeOf(pred, a.states, a.home)
    /\ o.row = SelectRowOf(pred, a.states, a.row) /\ o.rows = a.rows \cap Matching

OpensProject(o, a, fields) ==
    /\ o.states = ProjectStates(fields, a.states)
    /\ o.next = ProjectNextOf(fields, a.states, a.next)
    /\ o.home = ProjectHomeOf(fields, a.states, a.home)
    /\ o.row = ProjectRowOf(fields, a.states, a.row) /\ o.rows = a.rows

ListsItsRows(o) == Enumerates(o.states, o.next, o.home, o.row, o.rows)

(* The plans of P, with the plans they are made of; no product has an empty *)
(* left side and a right one that is not.                                   *)
ArePlans(P, depth, scanOf, matching) ==
    \A p \in P :
       \/ p.op = "table" /\ p.table \in Tables /\ OpensTable(scanOf[p], p.table)
       \/ /\ p.op = "product" /\ p.left \in P /\ p.right \in P
          /\ depth[p.left] < depth[p] /\ depth[p.right] < depth[p]
          /\ OpensProduct(scanOf[p], scanOf[p.left], scanOf[p.right])
          /\ scanOf[p.left].rows # {} \/ scanOf[p.right].rows = {}
       \/ /\ p.op = "select" /\ p.scan \in P /\ depth[p.scan] < depth[p]
          /\ OpensSelect(scanOf[p], scanOf[p.scan], p.pred, matching[p])
       \/ /\ p.op = "project" /\ p.scan \in P /\ depth[p.scan] < depth[p]
          /\ OpensProject(scanOf[p], scanOf[p.scan], p.fields)

(* Each scan enumerates its rows if those below it do.                      *)
LEMMA ScanAboveScans ==
    ASSUME UpdateTypeOK, NEW P, NEW depth, NEW scanOf, NEW matching,
           ArePlans(P, depth, scanOf, matching), NEW p \in P,
           \A q \in P : depth[q] < depth[p] => ListsItsRows(scanOf[q])
    PROVE  ListsItsRows(scanOf[p])
<1> DEFINE o == scanOf[p]
<1>1. CASE p.op = "table" /\ p.table \in Tables /\ OpensTable(o, p.table)
  <2>1. Enumerates(TableStates(p.table), TableNextOf(p.table), TableHomeOf(p.table),
                   TableRowOf(p.table), Used(p.table))
    BY <1>1, TableScanEnumerates
  <2> HIDE DEF o
  <2>2. ListsItsRows(o)  BY <1>1, <2>1, Zenon DEF ListsItsRows, OpensTable
  <2> QED  BY <2>2 DEF o
<1>2. CASE /\ p.left \in P /\ p.right \in P
           /\ depth[p.left] < depth[p] /\ depth[p.right] < depth[p]
           /\ OpensProduct(o, scanOf[p.left], scanOf[p.right])
           /\ scanOf[p.left].rows # {} \/ scanOf[p.right].rows = {}
  <2> DEFINE l == scanOf[p.left]
             r == scanOf[p.right]
  <2>1. ListsItsRows(l) /\ ListsItsRows(r)  BY <1>2
  <2>2. OpensProduct(o, l, r) /\ (l.rows # {} \/ r.rows = {})  BY <1>2
  <2> HIDE DEF o, l, r
  <2>3. /\ Enumerates(l.states, l.next, l.home, l.row, l.rows)
        /\ Enumerates(r.states, r.next, r.home, r.row, r.rows)
    BY <2>1 DEF ListsItsRows
  <2>4. Enumerates(ProductStates(l.states, r.states),
                   ProductNextOf(l.states, r.states, l.next, r.next, r.home),
                   ProductHomeOf(l.states, r.states, l.next, l.home, r.home),
                   ProductRowOf(l.states, r.states, l.row, r.row), l.rows \X r.rows)
    BY <2>2, <2>3, ProductScanEnumerates, Zenon
  <2>5. ListsItsRows(o)  BY <2>2, <2>4, Zenon DEF ListsItsRows, OpensProduct
  <2> QED  BY <2>5 DEF o
<1>3. CASE /\ p.scan \in P /\ depth[p.scan] < depth[p]
           /\ OpensSelect(o, scanOf[p.scan], p.pred, matching[p])
  <2> DEFINE a == scanOf[p.scan]
             pred == p.pred
             M == matching[p]
  <2>1. ListsItsRows(a) /\ OpensSelect(o, a, pred, M)  BY <1>3
  <2> HIDE DEF o, a, pred, M
  <2>2. /\ Enumerates(a.states, a.next, a.home, a.row, a.rows)
        /\ SelectNextIs(pred, a.states, a.next, [s \in a.states |-> a.row[s] \in M], o.next)
    BY <2>1 DEF ListsItsRows, OpensSelect
  <2>3. Enumerates(SelectStates(pred, a.states), o.next, SelectHomeOf(pred, a.states, a.home),
                   SelectRowOf(pred, a.states, a.row), a.rows \cap M)
    BY <2>2, SelectScanEnumerates, Zenon
  <2>4. ListsItsRows(o)  BY <2>1, <2>3, Zenon DEF ListsItsRows, OpensSelect
  <2> QED  BY <2>4 DEF o
<1>4. CASE /\ p.scan \in P /\ depth[p.scan] < depth[p]
           /\ OpensProject(o, scanOf[p.scan], p.fields)
  <2> DEFINE a == scanOf[p.scan]
             fields == p.fields
  <2>1. ListsItsRows(a) /\ OpensProject(o, a, fields)  BY <1>4
  <2> HIDE DEF o, a, fields
  <2>2. Enumerates(a.states, a.next, a.home, a.row, a.rows)  BY <2>1 DEF ListsItsRows
  <2>3. Enumerates(ProjectStates(fields, a.states), ProjectNextOf(fields, a.states, a.next),
                   ProjectHomeOf(fields, a.states, a.home),
                   ProjectRowOf(fields, a.states, a.row), a.rows)
    BY <2>2, ProjectScanEnumerates, Zenon
  <2>4. ListsItsRows(o)  BY <2>1, <2>3, Zenon DEF ListsItsRows, OpensProject
  <2> QED  BY <2>4 DEF o
<1> QED  BY <1>1, <1>2, <1>3, <1>4 DEF ArePlans

(* However scans are put together, the scan a plan opens enumerates the     *)
(* rows the plan is for: the products of its tables' records, as far as the *)
(* selections keep them.  By induction on the depth of the plan.            *)
THEOREM PlansListTheirRows ==
    ASSUME UpdateTypeOK, NEW P, NEW depth \in [P -> Nat], NEW scanOf, NEW matching,
           ArePlans(P, depth, scanOf, matching)
    PROVE  \A p \in P : ListsItsRows(scanOf[p])
<1> SUFFICES ASSUME NEW p \in P, ~ListsItsRows(scanOf[p]) PROVE FALSE  OBVIOUS
<1> DEFINE n == depth[p]
           Bad == {i \in 0..n : \E q \in P : depth[q] = i /\ ~ListsItsRows(scanOf[q])}
<1>1. n \in Nat /\ n \in Bad
  <2>1. n \in Nat /\ n \in 0..n  OBVIOUS
  <2> HIDE DEF n
  <2>2. depth[p] = n  BY DEF n
  <2> QED  BY <2>1, <2>2
<1>2. Bad \subseteq 0..n /\ Bad # {}  BY <1>1
<1>3. PICK i \in Bad : \A j \in Bad : i <= j
  <2> HIDE DEF n, Bad
  <2> QED  BY <1>1, <1>2, FirstPosition
<1>4. PICK q \in P : depth[q] = i /\ ~ListsItsRows(scanOf[q])  BY <1>3
<1>5. \A r \in P : depth[r] < depth[q] => ListsItsRows(scanOf[r])
  <2> SUFFICES ASSUME NEW r \in P, depth[r] < depth[q], ~ListsItsRows(scanOf[r]) PROVE FALSE
    OBVIOUS
  <2>1. depth[r] \in Nat /\ i \in 0..n /\ depth[r] < i  BY <1>4
  <2> HIDE DEF n
  <2>2. depth[r] \in 0..n /\ ~(i <= depth[r])  BY <1>1, <2>1
  <2>3. depth[r] \in Bad  BY <2>2
  <2> QED  BY <1>3, <2>2, <2>3
<1>6. ListsItsRows(scanOf[q])
  <2> HIDE DEF n, Bad
  <2> QED  BY <1>5, ScanAboveScans
<1> QED  BY <1>4, <1>6

(* What a client sees of the scan that a plan opens, whatever the plan is   *)
(* made of: BeforeFirst from wherever the scan is, and then Next, answer    *)
(* true exactly as often as the plan has rows, and come to every one of     *)
(* them and to none twice: the loop of a client who reads ends, and misses  *)
(* nothing.                                                                 *)
THEOREM ClientSeesEveryRow ==
    ASSUME UpdateTypeOK, NEW P, NEW depth \in [P -> Nat], NEW scanOf, NEW matching,
           ArePlans(P, depth, scanOf, matching), NEW p \in P,
           NEW n, n = Cardinality(scanOf[p].rows), NEW s \in scanOf[p].states,
           NEW visit \in [0..n -> scanOf[p].states], visit[0] = scanOf[p].home[s],
           \A i \in 0..n : i < n => visit[i + 1] = scanOf[p].next[visit[i]].scan
    PROVE  /\ \A i \in 0..n : scanOf[p].next[visit[i]].found = (i < n)
           /\ scanOf[p].rows = {scanOf[p].row[visit[i]] : i \in 1..n}
           /\ \A i \in 1..n, j \in 1..n :
                 scanOf[p].row[visit[i]] = scanOf[p].row[visit[j]] => i = j
<1> DEFINE o == scanOf[p]
<1>1. ListsItsRows(o)  BY PlansListTheirRows
<1>2. /\ n = Cardinality(o.rows) /\ s \in o.states
      /\ visit \in [0..n -> o.states] /\ visit[0] = o.home[s]
      /\ \A i \in 0..n : i < n => visit[i + 1] = o.next[visit[i]].scan
  OBVIOUS
<1> HIDE DEF o
<1>3. Enumerates(o.states, o.next, o.home, o.row, o.rows)  BY <1>1 DEF ListsItsRows
<1>4. Walks(o.states, o.next, o.home, n, visit)  BY <1>2 DEF Walks
<1>5. SeesEveryRow(o.next, o.row, o.rows, n, visit)
  <2>1. n = Cardinality(o.rows)  BY <1>2
  <2> QED  BY <1>3, <1>4, <2>1, EveryRowIsVisited, Zenon
<1> QED  BY <1>5 DEF o, SeesEveryRow

=============================================================================
