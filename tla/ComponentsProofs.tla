-------------------------- MODULE ComponentsProofs --------------------------
(***************************************************************************)
(* Proofs about the components that share no state with the others: the    *)
(* listings, the part list of a completion, authentication, and their      *)
(* composition with the upload locks, the connections and the migrations,  *)
(* whose proofs are in modules of their own.                               *)
(*                                                                         *)
(* A page is the first entries of what comes after its marker, in the      *)
(* order of the keys.  The argument about all the pages of a listing: the  *)
(* marker of the next page is never before the last entry listed, and a    *)
(* row that was there all along has been listed or is still behind that    *)
(* marker, with its group.  For a completion: what the loop has made of    *)
(* the first k entries of the list has each number once, with its last     *)
(* entry, in the order in which the numbers were first named.              *)
(***************************************************************************)
EXTENDS MCComponents, UploadLocksProofs, WriteTimeoutProofs, MigrationsProofs,
        FiniteSetTheorems, WellFoundedInduction, TLAPS

-----------------------------------------------------------------------------
(* The order of keys                                                       *)

\* A set of numbers has a smallest one.  Induction over positions and lengths
\* is an argument by the smallest counterexample.
LEMMA Smallest ==
    ASSUME NEW T, T \subseteq Nat, T # {}
    PROVE  \E n \in T : \A m \in T : n <= m
<1>1. IsWellFoundedOn(OpToRel(<, Nat), Nat)
  BY NatLessThanWellFounded
<1>2. PICK n \in T : \A m \in T : ~(<<m, n>> \in OpToRel(<, Nat))
  BY <1>1, WFMin
<1>3. \A m \in T : ~(m < n)
  BY <1>2 DEF OpToRel
<1> QED BY <1>3

\* A sequence of numbers, seen as its length and its elements.
LEMMA KeyIs ==
    ASSUME NEW s \in Seq(Nat)
    PROVE  Len(s) \in Nat /\ DOMAIN s = 1..Len(s) /\ \A i \in 1..Len(s) : s[i] \in Nat
OBVIOUS

\* Less orders the keys strictly: no key is before itself,
LEMMA LessIrreflexive ==
    ASSUME NEW s \in Seq(Nat)
    PROVE  ~Less(s, s)
BY KeyIs DEF Less

\* A witness of the order is a position.
LEMMA LessAt ==
    ASSUME NEW s \in Seq(Nat), NEW t \in Seq(Nat), NEW i \in Nat, i >= 1,
           i <= Len(t), i <= Len(s) + 1, \A j \in 1..(i - 1) : s[j] = t[j],
           i <= Len(s) => s[i] < t[i]
    PROVE  Less(s, t)
BY KeyIs DEF Less

\* the order is transitive,
LEMMA LessTransitive ==
    ASSUME NEW s \in Seq(Nat), NEW t \in Seq(Nat), NEW u \in Seq(Nat), Less(s, t), Less(t, u)
    PROVE  Less(s, u)
<1>0. /\ Len(s) \in Nat /\ Len(t) \in Nat /\ Len(u) \in Nat
      /\ \A i \in 1..Len(s) : s[i] \in Nat
      /\ \A i \in 1..Len(t) : t[i] \in Nat
      /\ \A i \in 1..Len(u) : u[i] \in Nat
  OBVIOUS
<1>1. PICK i \in 1..Len(t) : /\ i <= Len(s) + 1 /\ \A j \in 1..(i - 1) : s[j] = t[j]
                             /\ i <= Len(s) => s[i] < t[i]
  BY DEF Less
<1>2. PICK k \in 1..Len(u) : /\ k <= Len(t) + 1 /\ \A j \in 1..(k - 1) : t[j] = u[j]
                             /\ k <= Len(t) => t[k] < u[k]
  BY DEF Less
<1>3. CASE i < k
  <2>1. i \in Nat /\ i >= 1 /\ i <= Len(u) /\ i <= Len(s) + 1 /\ t[i] = u[i]
    BY <1>0, <1>1, <1>2, <1>3
  <2>2. \A j \in 1..(i - 1) : s[j] = u[j]
    BY <1>0, <1>1, <1>2, <1>3
  <2> QED BY <1>1, <2>1, <2>2, LessAt
<1>4. CASE i >= k
  <2>1. k \in Nat /\ k >= 1 /\ k <= Len(u) /\ k <= Len(s) + 1 /\ k <= Len(t)
    BY <1>0, <1>1, <1>2, <1>4, SMTT(30)
  <2>2. \A j \in 1..(k - 1) : s[j] = u[j]
    BY <1>0, <1>1, <1>2, <1>4
  <2>3. ASSUME k <= Len(s) PROVE s[k] < u[k]
    <3>1. s[k] \in Nat /\ t[k] \in Nat /\ u[k] \in Nat /\ t[k] < u[k]
      BY <1>0, <1>2, <2>1, <2>3
    <3>2. s[k] = t[k] \/ s[k] < t[k]
      <4>1. CASE i = k
        BY <1>1, <2>3, <4>1
      <4>2. CASE i > k
        BY <1>1, <2>1, <4>2
      <4> QED BY <1>4, <2>1, <4>1, <4>2
    <3> QED BY <3>1, <3>2, SMTT(30)
  <2> QED BY <2>1, <2>2, <2>3, LessAt
<1> QED BY <1>0, <1>1, <1>2, <1>3, <1>4

\* and of two keys one comes first.
LEMMA LessTotal ==
    ASSUME NEW s \in Seq(Nat), NEW t \in Seq(Nat), s # t
    PROVE  Less(s, t) \/ Less(t, s)
<1>0. /\ Len(s) \in Nat /\ Len(t) \in Nat
      /\ \A i \in 1..Len(s) : s[i] \in Nat
      /\ \A i \in 1..Len(t) : t[i] \in Nat
  OBVIOUS
<1> DEFINE T == {i \in Nat : i >= 1 /\ (i > Len(s) \/ i > Len(t) \/ s[i] # t[i])}
<1>1. T # {} /\ T \subseteq Nat
  <2>1. Len(s) + 1 \in T
    BY <1>0
  <2> QED BY <2>1
<1>2. PICK i \in T : \A m \in T : i <= m
  BY <1>1, Smallest
<1>3. i \in Nat /\ i >= 1 /\ (i > Len(s) \/ i > Len(t) \/ s[i] # t[i])
  BY <1>2
<1>4. \A j \in 1..(i - 1) : j <= Len(s) /\ j <= Len(t) /\ s[j] = t[j]
  <2> TAKE j \in 1..(i - 1)
  <2>1. j \in Nat /\ j >= 1 /\ ~(i <= j)
    BY <1>3
  <2>2. j \notin T
    <3> HIDE DEF T
    <3> QED BY <1>2, <2>1
  <2> QED BY <1>0, <2>1, <2>2, SMTT(30)
<1>5. i <= Len(s) + 1 /\ i <= Len(t) + 1
  <2>1. i - 1 = 0 \/ i - 1 \in 1..(i - 1)
    BY <1>3
  <2> QED BY <1>0, <1>3, <1>4, <2>1
<1>6. CASE i > Len(s) /\ i > Len(t)
  <2>1. Len(s) = Len(t) /\ i - 1 = Len(s)
    BY <1>0, <1>3, <1>5, <1>6
  <2>2. s = t
    BY <1>4, <2>1, SMTT(30)
  <2> QED BY <2>2
<1>7. CASE i <= Len(t) /\ (i > Len(s) \/ (i <= Len(s) /\ s[i] < t[i]))
  BY <1>0, <1>3, <1>4, <1>5, <1>7, LessAt
<1>8. CASE i <= Len(s) /\ (i > Len(t) \/ (i <= Len(t) /\ t[i] < s[i]))
  <2>1. \A j \in 1..(i - 1) : t[j] = s[j]
    BY <1>4
  <2> QED BY <1>0, <1>3, <2>1, <1>5, <1>8, LessAt
<1>9. i <= Len(s) /\ i <= Len(t) => s[i] \in Nat /\ t[i] \in Nat /\ s[i] # t[i]
  BY <1>0, <1>3
<1> QED BY <1>0, <1>3, <1>6, <1>7, <1>8, <1>9, SMTT(30)

\* Keys in order are different, and not in order the other way round.
LEMMA LessAsymmetric ==
    ASSUME NEW s \in Seq(Nat), NEW t \in Seq(Nat), Less(s, t)
    PROVE  ~Less(t, s) /\ s # t
BY LessIrreflexive, LessTransitive

\* The empty key comes first.
LEMMA EmptyFirst ==
    ASSUME NEW s \in Seq(Nat), s # <<>>
    PROVE  Less(<<>>, s)
<1>1. 1 \in 1..Len(s) /\ Len(<<>>) = 0
  OBVIOUS
<1> QED BY <1>1 DEF Less

-----------------------------------------------------------------------------
(* Sorting                                                                 *)

\* Entries as a page can hold them: finitely many, told apart by their values.
Sortable(E) ==
    /\ IsFiniteSet(E)
    /\ \A e \in E : e.value \in Seq(Nat)
    /\ \A e, f \in E : e.value = f.value => e = f

\* The entries that come before one.
Below(E, e) == {f \in E : Less(f.value, e.value)}

\* Entries have different numbers of entries below them.
LEMMA RanksAscend ==
    ASSUME NEW E, Sortable(E), NEW e \in E, NEW f \in E, Less(e.value, f.value)
    PROVE  /\ Cardinality(Below(E, e)) \in Nat
           /\ Cardinality(Below(E, f)) \in Nat
           /\ Cardinality(Below(E, e)) < Cardinality(Below(E, f))
<1>1. Below(E, e) \subseteq Below(E, f)
  BY LessTransitive DEF Below, Sortable
<1>2. e \in Below(E, f) /\ e \notin Below(E, e)
  BY LessIrreflexive DEF Below, Sortable
<1>3. IsFiniteSet(Below(E, f))
  <2>1. Below(E, f) \in SUBSET E
    BY DEF Below
  <2> QED BY <2>1, FS_Subset DEF Sortable
<1>4. IsFiniteSet(Below(E, e)) /\ Cardinality(Below(E, e)) <= Cardinality(Below(E, f))
      /\ Cardinality(Below(E, e)) # Cardinality(Below(E, f))
  BY <1>1, <1>2, <1>3, FS_Subset
<1>5. Cardinality(Below(E, e)) \in Nat /\ Cardinality(Below(E, f)) \in Nat
  BY <1>3, <1>4, FS_CardinalityType
<1> QED BY <1>4, <1>5

\* There is a place for every entry.
LEMMA RankBounded ==
    ASSUME NEW E, Sortable(E), NEW e \in E
    PROVE  Cardinality(Below(E, e)) \in 0..(Cardinality(E) - 1)
<1>1. Below(E, e) \in SUBSET E /\ e \notin Below(E, e)
  BY LessIrreflexive DEF Below, Sortable
<1>2. IsFiniteSet(Below(E, e)) /\ Cardinality(Below(E, e)) <= Cardinality(E)
      /\ Cardinality(Below(E, e)) # Cardinality(E)
  BY <1>1, FS_Subset DEF Sortable
<1>3. Cardinality(Below(E, e)) \in Nat /\ Cardinality(E) \in Nat
  BY <1>2, FS_CardinalityType DEF Sortable
<1> QED BY <1>2, <1>3

\* Every number below the size is the rank of an entry.
LEMMA RankTaken ==
    ASSUME NEW E, Sortable(E), NEW n \in 0..(Cardinality(E) - 1)
    PROVE  \E e \in E : Cardinality(Below(E, e)) = n
<1> DEFINE T == 0..(Cardinality(E) - 1)
           rank == [e \in E |-> Cardinality(Below(E, e))]
<1>1. Cardinality(E) \in Nat
  BY FS_CardinalityType DEF Sortable
<1>2. IsFiniteSet(T) /\ Cardinality(T) = Cardinality(E)
  <2>1. 0 \in Int /\ Cardinality(E) - 1 \in Int
    BY <1>1
  <2>2. IsFiniteSet(T) /\ Cardinality(T) = IF 0 > Cardinality(E) - 1 THEN 0 ELSE (Cardinality(E) - 1) - 0 + 1
    BY <2>1, FS_Interval
  <2> QED BY <1>1, <2>2
<1>3. rank \in [E -> T]
  BY RankBounded
<1>4. \A e, f \in E : rank[e] = rank[f] => e = f
  <2> SUFFICES ASSUME NEW e \in E, NEW f \in E, rank[e] = rank[f], e # f PROVE FALSE
    OBVIOUS
  <2>1. e.value \in Seq(Nat) /\ f.value \in Seq(Nat) /\ e.value # f.value
    BY DEF Sortable
  <2>2. Less(e.value, f.value) \/ Less(f.value, e.value)
    BY <2>1, LessTotal
  <2> QED BY <2>2, RanksAscend
<1>5. rank \in Injection(E, T)
  BY <1>3, <1>4 DEF Injection, IsInjective
<1>6. rank \in Surjection(E, T)
  BY <1>2, <1>5, FS_Injection
<1> QED BY <1>6 DEF Surjection

\* The order by value: all entries, strictly ascending.
LEMMA SortedIs ==
    ASSUME NEW E, Sortable(E)
    PROVE  /\ Cardinality(E) \in Nat
           /\ Sorted(E) \in Seq(E) /\ Len(Sorted(E)) = Cardinality(E)
           /\ \A i, j \in 1..Cardinality(E) : i < j => Less(Sorted(E)[i].value, Sorted(E)[j].value)
           /\ \A e \in E : \E i \in 1..Cardinality(E) : Sorted(E)[i] = e
<1> DEFINE n == Cardinality(E)
           s == Sorted(E)
<1>1. n \in Nat
  BY FS_CardinalityType DEF Sortable
<1>2. s = [i \in 1..n |-> CHOOSE e \in E : Cardinality(Below(E, e)) = i - 1]
  BY DEF Sorted, Below
<1>3. \A i \in 1..n : s[i] \in E /\ Cardinality(Below(E, s[i])) = i - 1
  <2> TAKE i \in 1..n
  <2>1. i - 1 \in 0..(n - 1)
    BY <1>1
  <2>2. \E e \in E : Cardinality(Below(E, e)) = i - 1
    BY <2>1, RankTaken
  <2>3. s[i] = CHOOSE e \in E : Cardinality(Below(E, e)) = i - 1
    <3> HIDE DEF s, n
    <3> QED BY <1>2
  <2> HIDE DEF s
  <2> QED BY <2>2, <2>3
<1> HIDE DEF s, n
<1>4. s \in Seq(E) /\ Len(s) = n
  <2>1. s \in [1..n -> E]
    BY <1>2, <1>3
  <2> QED BY <1>1, <2>1
<1>5. ASSUME NEW i \in 1..n, NEW j \in 1..n, i < j PROVE Less(s[i].value, s[j].value)
  <2>1. s[i].value \in Seq(Nat) /\ s[j].value \in Seq(Nat)
    BY <1>3 DEF Sortable
  <2>2. i \in Nat /\ j \in Nat /\ i - 1 < j - 1
    BY <1>1, <1>5
  <2>3. s[i] # s[j]
    BY <1>3, <2>2
  <2>4. s[i].value # s[j].value
    BY <1>3, <2>3 DEF Sortable
  <2>5. ~Less(s[j].value, s[i].value)
    BY <1>3, <2>2, RanksAscend
  <2> QED BY <2>1, <2>4, <2>5, LessTotal
<1>6. ASSUME NEW e \in E PROVE \E i \in 1..n : s[i] = e
  <2> DEFINE r == Cardinality(Below(E, e))
  <2>1. r \in 0..(n - 1)
    BY RankBounded DEF n
  <2>2. r + 1 \in 1..n /\ (r + 1) - 1 = r
    BY <1>1, <2>1
  <2>3. s[r + 1] \in E /\ Cardinality(Below(E, s[r + 1])) = r
    BY <1>3, <2>2
  <2>4. s[r + 1] = e
    <3> SUFFICES ASSUME s[r + 1] # e PROVE FALSE
      OBVIOUS
    <3>1. PICK f \in E : f = s[r + 1] /\ Cardinality(Below(E, f)) = r /\ f # e
      BY <2>3
    <3>2. e.value \in Seq(Nat) /\ f.value \in Seq(Nat) /\ e.value # f.value
      BY <3>1 DEF Sortable
    <3>3. Less(e.value, f.value) \/ Less(f.value, e.value)
      BY <3>2, LessTotal
    <3> QED BY <3>1, <3>3, RanksAscend
  <2> QED BY <2>2, <2>4
<1> QED BY <1>1, <1>4, <1>5, <1>6 DEF s, n

\* Keys that are finitely many, and at least one, have a last one.
LEMMA LastExists ==
    ASSUME NEW G, IsFiniteSet(G), G # {}, G \subseteq Seq(Nat)
    PROVE  \E k \in G : \A l \in G : ~Less(k, l)
<1> DEFINE E == {Entry(k, k) : k \in G}
           n == Cardinality(E)
           s == Sorted(E)
<1>1. IsFiniteSet(E)
  <2> DEFINE f == [k \in G |-> Entry(k, k)]
  <2>1. f \in Surjection(G, E)
    BY DEF Surjection
  <2> QED BY <2>1, FS_Surjection
<1>2. Sortable(E)
  <2>1. \A e \in E : e.value \in G /\ e = Entry(e.value, e.value)
    BY DEF Entry
  <2> HIDE DEF E
  <2> QED BY <1>1, <2>1 DEF Sortable
<1>3. \A k \in G : Entry(k, k) \in E /\ Entry(k, k).value = k
  BY DEF Entry
<1>4. /\ n \in Nat /\ s \in Seq(E) /\ Len(s) = n
      /\ \A i, j \in 1..n : i < j => Less(s[i].value, s[j].value)
      /\ \A e \in E : \E i \in 1..n : s[i] = e
  BY <1>2, SortedIs
<1>5. \A e \in E : e.value \in G
  BY DEF Entry
<1> HIDE DEF E, n, s
<1>6. n \in 1..n /\ s[n] \in E
  <2>1. PICK k \in G : TRUE
    OBVIOUS
  <2>2. \E i \in 1..n : s[i] = Entry(k, k)
    BY <1>3, <1>4
  <2> QED BY <1>4, <2>2
<1>7. ASSUME NEW l \in G PROVE ~Less(s[n].value, l)
  <2>1. PICK i \in 1..n : s[i] = Entry(l, l)
    BY <1>3, <1>4
  <2>2. s[n].value \in Seq(Nat) /\ l \in Seq(Nat) /\ s[i].value = l
    BY <1>3, <1>5, <1>6, <2>1
  <2>3. CASE i = n
    BY <2>2, <2>3, LessIrreflexive
  <2>4. CASE i # n
    <3>1. i < n
      BY <1>4, <2>4
    <3>2. Less(l, s[n].value)
      BY <1>4, <1>6, <2>2, <3>1
    <3> QED BY <2>2, <3>2, LessAsymmetric
  <2> QED BY <2>3, <2>4
<1> QED BY <1>5, <1>6, <1>7

\* Min of two numbers.
LEMMA LesserIs ==
    ASSUME NEW a \in Nat, NEW b \in Nat
    PROVE  Min({a, b}) = IF a <= b THEN a ELSE b
<1>1. \E x \in {a, b} : \A y \in {a, b} : x <= y
  OBVIOUS
<1>2. Min({a, b}) \in {a, b} /\ \A y \in {a, b} : Min({a, b}) <= y
  BY <1>1 DEF Min
<1> QED BY <1>2

\* What a handler answers of what it has read.
PageOf(fetched, limit) == IF Len(fetched) > limit THEN SubSeq(fetched, 1, limit) ELSE fetched

\* A page has the first entries in ascending order; if it is not truncated it
\* has them all.
FirstOf(page, E, more) ==
    /\ page \in Seq(E) /\ Len(page) \in Nat
    /\ \A i, j \in 1..Len(page) : i < j => Less(page[i].value, page[j].value)
    /\ ~more => \A e \in E : \E i \in 1..Len(page) : page[i] = e
    /\ more => /\ Len(page) >= 1
               /\ \A e \in E : \/ \E i \in 1..Len(page) : page[i] = e
                               \/ Less(page[Len(page)].value, e.value)

\* One entry more than the limit is read to see whether there are more; the
\* answer has the first entries of what there is.
LEMMA PageIs ==
    ASSUME NEW E, Sortable(E), NEW limit \in Nat, limit # 0
    PROVE  FirstOf(PageOf(Limited(E, limit), limit), E, Len(Limited(E, limit)) > limit)
<1>f. PICK fetched : fetched = Limited(E, limit)
  OBVIOUS
<1>p. PICK page : page = PageOf(fetched, limit)
  OBVIOUS
<1> DEFINE n == Cardinality(E)
           s == Sorted(E)
           m == IF limit + 1 <= n THEN limit + 1 ELSE n
<1>1. /\ n \in Nat /\ s \in Seq(E) /\ Len(s) = n
      /\ \A i, j \in 1..n : i < j => Less(s[i].value, s[j].value)
      /\ \A e \in E : \E i \in 1..n : s[i] = e
  BY SortedIs
<1>2. fetched = SubSeq(s, 1, m)
  BY <1>f, <1>1, LesserIs DEF Limited
<1> HIDE DEF n, s
<1>3. m \in 0..n
  BY <1>1
<1>4. fetched \in Seq(E) /\ Len(fetched) = m /\ \A i \in 1..m : fetched[i] = s[i]
  BY <1>1, <1>2, <1>3
<1>5. m > limit <=> n > limit
  BY <1>1
<1>6. m > limit \/ m = n
  BY <1>1
<1> HIDE DEF m
<1> DEFINE q == IF m > limit THEN limit ELSE m
<1>7. q \in 0..n /\ q <= m
  BY <1>1, <1>3, <1>5
<1>8. page \in Seq(E) /\ Len(page) = q /\ \A i \in 1..q : page[i] = s[i]
  <2>1. CASE m > limit
    <3>1. page = SubSeq(fetched, 1, limit) /\ q = limit /\ limit \in 1..m
      BY <1>p, <1>3, <1>4, <2>1 DEF PageOf
    <3> QED BY <1>3, <1>4, <3>1
  <2>2. CASE ~(m > limit)
    BY <1>p, <1>4, <2>2 DEF PageOf
  <2> QED BY <2>1, <2>2
<1>9. m > limit => q = limit
  OBVIOUS
<1>10. ~(m > limit) => q = n
  BY <1>6
<1> HIDE DEF q
<1>11. \A i, j \in 1..q : i < j => Less(page[i].value, page[j].value)
  BY <1>1, <1>7, <1>8
<1>12. ~(m > limit) => \A e \in E : \E i \in 1..q : page[i] = e
  BY <1>1, <1>8, <1>10
<1>13. ASSUME m > limit, NEW e \in E
       PROVE (\E i \in 1..q : page[i] = e) \/ Less(page[q].value, e.value)
  <2>1. PICK i \in 1..n : s[i] = e
    BY <1>1
  <2>2. q \in 1..q /\ q \in 1..n
    BY <1>7, <1>9, <1>13
  <2>3. CASE i <= q
    <3>1. i \in 1..q
      BY <1>7, <2>3
    <3> QED BY <1>8, <2>1, <3>1
  <2>4. CASE ~(i <= q)
    <3>1. q < i
      BY <1>1, <1>7, <2>4
    <3> QED BY <1>1, <1>8, <2>1, <2>2, <3>1
  <2> QED BY <2>3, <2>4
<1>14. m > limit => q >= 1
  BY <1>9
<1>15. FirstOf(page, E, Len(fetched) > limit)
  BY <1>4, <1>7, <1>8, <1>11, <1>12, <1>13, <1>14 DEF FirstOf
<1> QED BY <1>f, <1>p, <1>15

-----------------------------------------------------------------------------
(* Common prefixes                                                         *)

\* A virtual key is a prefix of its key: all of it, or up to the first
\* delimiter after the prefix asked for.
LEMMA VirtualIs ==
    ASSUME NEW k \in Seq(Nat), NEW p \in Seq(Nat)
    PROVE  /\ VirtualKey(k, p) \in Seq(Nat)
           /\ k # <<>> => VirtualKey(k, p) # <<>>
           /\ \E n \in 0..Len(k) :
                /\ Len(VirtualKey(k, p)) = n
                /\ \A j \in 1..n : VirtualKey(k, p)[j] = k[j]
                /\ n = Len(k) \/ (n > Len(p) /\ k[n] = Delimiter)
                /\ \A j \in (Len(p) + 1)..(n - 1) : k[j] # Delimiter
<1> DEFINE at == {i \in (Len(p) + 1)..Len(k) : k[i] = Delimiter}
           first == CHOOSE i \in at : \A j \in at : i <= j
<1>0. Len(k) \in Nat /\ Len(p) \in Nat
  OBVIOUS
<1>1. VirtualKey(k, p) = IF at = {} THEN k ELSE SubSeq(k, 1, first)
  BY DEF VirtualKey
<1>2. CASE at = {}
  <2>1. VirtualKey(k, p) = k
    BY <1>1, <1>2
  <2>2. \A j \in (Len(p) + 1)..(Len(k) - 1) : k[j] # Delimiter
    <3> TAKE j \in (Len(p) + 1)..(Len(k) - 1)
    <3>1. j \in (Len(p) + 1)..Len(k)
      BY <1>0
    <3> QED BY <1>2, <3>1
  <2>3. Len(k) \in 0..Len(k)
    BY <1>0
  <2> QED BY <2>1, <2>2, <2>3
<1>3. CASE at # {}
  <2>1. at \subseteq Nat
    BY <1>0
  <2>2. \E i \in at : \A j \in at : i <= j
    BY <1>3, <2>1, Smallest
  <2>3. first \in at /\ \A j \in at : first <= j
    BY <2>2
  <2>4. VirtualKey(k, p) = SubSeq(k, 1, first)
    BY <1>1, <1>3
  <2>5. first \in Nat /\ first >= Len(p) + 1 /\ first <= Len(k) /\ k[first] = Delimiter
    BY <1>0, <2>3
  <2>6. \A j \in (Len(p) + 1)..(first - 1) : k[j] # Delimiter
    <3> HIDE DEF first
    <3> TAKE j \in (Len(p) + 1)..(first - 1)
    <3>1. j \in (Len(p) + 1)..Len(k) /\ ~(first <= j)
      BY <1>0, <2>5
    <3> QED BY <2>3, <3>1
  <2> HIDE DEF first
  <2>7. PICK v : v = SubSeq(k, 1, first)
    OBVIOUS
  <2>8. v \in Seq(Nat) /\ Len(v) = first /\ \A j \in 1..first : v[j] = k[j]
    BY <1>0, <2>5, <2>7
  <2>9. v # <<>>
    BY <1>0, <2>5, <2>8
  <2>10. first \in 0..Len(k) /\ first > Len(p)
    BY <1>0, <2>5
  <2> QED BY <2>4, <2>5, <2>6, <2>7, <2>8, <2>9, <2>10
<1> QED BY <1>2, <1>3

\* It does not come after its key.
LEMMA VirtualNotAfter ==
    ASSUME NEW k \in Seq(Nat), NEW p \in Seq(Nat)
    PROVE  ~Less(k, VirtualKey(k, p))
<1>1. PICK v \in Seq(Nat), n \in 0..Len(k) :
        v = VirtualKey(k, p) /\ Len(v) = n /\ \A j \in 1..n : v[j] = k[j]
  BY VirtualIs
<1>2. Len(k) \in Nat /\ \A i \in 1..Len(k) : k[i] \in Nat
  OBVIOUS
<1>3. ASSUME Less(k, v) PROVE FALSE
  <2>1. PICK i \in 1..n : i <= Len(k) => k[i] < v[i]
    BY <1>1, <1>3 DEF Less
  <2>2. i \in 1..Len(k) /\ i <= Len(k)
    BY <1>2
  <2> QED BY <1>1, <1>2, <2>1, <2>2
<1> QED BY <1>1, <1>3

\* What comes before a virtual key comes before its key.
LEMMA BeforeKey ==
    ASSUME NEW k \in Seq(Nat), NEW p \in Seq(Nat), NEW x \in Seq(Nat), Less(x, VirtualKey(k, p))
    PROVE  Less(x, k)
<1>1. PICK v \in Seq(Nat) : v = VirtualKey(k, p)
  BY VirtualIs
<1>2. v = k \/ Less(v, k)
  BY <1>1, LessTotal, VirtualNotAfter
<1> QED BY <1>1, <1>2, LessTransitive

\* A later group lies after all keys of an earlier one.
LEMMA GroupsApart ==
    ASSUME NEW c \in Seq(Nat), NEW r \in Seq(Nat), NEW p \in Seq(Nat),
           Less(VirtualKey(c, p), VirtualKey(r, p))
    PROVE  Less(c, VirtualKey(r, p))
<1>a. PICK a \in Seq(Nat) : a = VirtualKey(c, p)
  BY VirtualIs
<1>b. PICK b \in Seq(Nat) : b = VirtualKey(r, p)
  BY VirtualIs
<1>1. PICK n \in 0..Len(c) :
        /\ Len(VirtualKey(c, p)) = n
        /\ \A j \in 1..n : VirtualKey(c, p)[j] = c[j]
        /\ n = Len(c) \/ (n > Len(p) /\ c[n] = Delimiter)
        /\ \A j \in (Len(p) + 1)..(n - 1) : c[j] # Delimiter
  BY VirtualIs
<1>2. PICK m \in 0..Len(r) :
        /\ Len(VirtualKey(r, p)) = m
        /\ \A j \in 1..m : VirtualKey(r, p)[j] = r[j]
        /\ m = Len(r) \/ (m > Len(p) /\ r[m] = Delimiter)
        /\ \A j \in (Len(p) + 1)..(m - 1) : r[j] # Delimiter
  BY VirtualIs
<1>3. PICK i \in 1..m : /\ i <= n + 1 /\ \A j \in 1..(i - 1) : a[j] = b[j]
                        /\ i <= n => a[i] < b[i]
  BY <1>a, <1>b, <1>1, <1>2 DEF Less
<1>4. Len(c) \in Nat /\ Len(r) \in Nat /\ Len(p) \in Nat /\ n \in Nat /\ m \in Nat /\ i \in Nat
  BY <1>3
<1>5. \A j \in 1..(i - 1) : c[j] = b[j]
  <2> TAKE j \in 1..(i - 1)
  <2>1. j \in 1..n
    BY <1>3, <1>4
  <2> QED BY <1>a, <1>1, <1>3, <2>1
<1>6. CASE i <= n
  <2>1. i \in 1..n /\ i <= Len(c) + 1 /\ c[i] < b[i]
    <3>1. i \in 1..n /\ i <= Len(c) + 1
      BY <1>3, <1>4, <1>6
    <3> QED BY <1>a, <1>1, <1>3, <1>6, <3>1
  <2>2. i <= Len(c) => c[i] < b[i]
    BY <2>1
  <2>3. i >= 1 /\ i <= Len(b)
    BY <1>b, <1>2, <1>3, <1>4
  <2> QED BY <1>b, <1>4, <1>5, <2>1, <2>2, <2>3, LessAt
<1>7. CASE i = n + 1 /\ n = Len(c)
  <2>1. ~(i <= Len(c)) /\ i <= Len(c) + 1
    BY <1>4, <1>7
  <2>2. i >= 1 /\ i <= Len(b)
    BY <1>b, <1>2, <1>3, <1>4
  <2> QED BY <1>b, <1>4, <1>5, <2>1, <2>2, LessAt
<1>8. CASE i = n + 1 /\ n # Len(c)
  <2>1. n > Len(p) /\ c[n] = Delimiter
    BY <1>1, <1>8
  <2>2. n \in 1..(i - 1) /\ n \in (Len(p) + 1)..(m - 1) /\ n \in 1..m
    BY <1>3, <1>4, <1>8, <2>1
  <2>3. c[n] = b[n] /\ b[n] = r[n] /\ r[n] # Delimiter
    BY <1>b, <1>2, <1>5, <2>2
  <2> QED BY <2>1, <2>3
<1> QED BY <1>3, <1>4, <1>6, <1>7, <1>8

-----------------------------------------------------------------------------
(* The inductive invariant                                                 *)

\* What the handlers let through.
QueryOK ==
    /\ query \in Query
    /\ query.delimited => query.api \in {"objects", "management"}
    /\ query.api \in {"uploads", "parts"} => query.prefix = <<>>
    /\ query.limit = 0 => query.api = "objects"

\* A row is still to come: the next page starts before it and its group.
ToCome(r) == ~ended /\ Less(after, r) /\ Less(after, ListedAs(r))

\* The next page starts no earlier than where the pages so far end.
CursorAtEnd == ~ended /\ listed # <<>> => ~Less(after, listed[Len(listed)])

\* A row that was there all along has been listed or is still to come.
SteadyRowsFound ==
    query.limit > 0 =>
        \A r \in steady : IsPrefix(query.prefix, r) =>
            (\E i \in DOMAIN listed : listed[i] = ListedAs(r)) \/ ToCome(r)

\* The inductive invariant.  The order of the listed keys needs the cursor,
\* and the steady rows need that the cursor skips none of them.
ListInv ==
    /\ QueryOK
    /\ rows \subseteq RowsOf(query.api)
    /\ after \in RowsOf(query.api) \cup {<<>>}
    /\ listed \in Seq(Seq(Nat))
    /\ ended \in BOOLEAN
    /\ steady \subseteq rows
    /\ changes \in 0..MaxChanges
    /\ ListsEachOnce
    /\ CursorAtEnd
    /\ SteadyRowsFound

\* Rows are keys, and not empty.
LEMMA RowIs ==
    ASSUME ListInv
    PROVE  /\ \A r \in RowsOf(query.api) : r \in Seq(Nat) /\ r # <<>>
           /\ IsFiniteSet(rows)
           /\ after \in Seq(Nat)
           /\ query.prefix \in Seq(Nat)
           /\ query.limit \in Nat
           /\ \A r \in RowsOf(query.api) : ListedAs(r) \in Seq(Nat) /\ ListedAs(r) # <<>>
<1> USE ListingAssumption
<1>1. \A r \in RowsOf(query.api) : r \in Seq(Nat) /\ r # <<>>
  <2>1. \A u \in UploadRows \cup PartRows : u \in Seq(Nat) /\ Len(u) \in {1, 2}
    OBVIOUS
  <2>2. \A u \in UploadRows \cup PartRows : u # <<>>
    <3> HIDE ListingAssumption
    <3>1. Len(<<>>) \notin {1, 2}
      OBVIOUS
    <3> QED BY <2>1, <3>1, Zenon
  <2>3. RowsOf(query.api) \in {UploadRows, PartRows, ObjectRows}
    BY DEF RowsOf
  <2> QED BY <2>1, <2>2, <2>3
<1>2. IsFiniteSet(rows)
  <2>1. IsFiniteSet(RowsOf(query.api))
    BY DEF RowsOf
  <2> QED BY <2>1, FS_Subset DEF ListInv
<1>3. query.prefix \in Seq(Nat) /\ query.limit \in Nat
  BY DEF ListInv, QueryOK, Query
<1>4. after \in Seq(Nat)
  <2>1. <<>> \in Seq(Nat)
    OBVIOUS
  <2>2. after \in RowsOf(query.api) \cup {<<>>}
    BY DEF ListInv
  <2> HIDE ListingAssumption
  <2> QED BY <1>1, <2>1, <2>2
<1>5. ASSUME NEW r \in RowsOf(query.api) PROVE ListedAs(r) \in Seq(Nat) /\ ListedAs(r) # <<>>
  <2>1. r \in Seq(Nat) /\ r # <<>>
    BY <1>1
  <2>2. VirtualKey(r, query.prefix) \in Seq(Nat) /\ VirtualKey(r, query.prefix) # <<>>
    BY <1>3, <2>1, VirtualIs
  <2> QED BY <2>1, <2>2 DEF ListedAs
<1> QED BY <1>1, <1>2, <1>3, <1>4, <1>5

-----------------------------------------------------------------------------
(* What a page is cut out of                                               *)

\* Entries for what the next page may list: after the marker, with a cursor
\* that skips nothing but what they stand for.
Pageable(E) ==
    /\ Sortable(E)
    /\ \A e \in E : /\ e.cursor \in rows
                    /\ ~Less(e.cursor, e.value)
                    /\ Less(after, e.value)
    /\ \A r \in rows : IsPrefix(query.prefix, r) /\ Less(after, r) /\ Less(after, ListedAs(r))
                        => \E e \in E : e.value = ListedAs(r)
    /\ \A e \in E, r \in rows : Less(e.value, ListedAs(r))
                        => Less(e.cursor, r) /\ Less(e.cursor, ListedAs(r))

\* What the query matches.
Raw == {r \in rows : Less(after, r) /\ IsPrefix(query.prefix, r)}

\* Rows that are listed as they are.
LEMMA PlainPageable ==
    ASSUME ListInv, ~query.delimited
    PROVE  Pageable({Entry(k, k) : k \in Raw})
<1> DEFINE E == {Entry(k, k) : k \in Raw}
<1>1. /\ \A r \in rows : r \in Seq(Nat) /\ ListedAs(r) = r
      /\ IsFiniteSet(rows) /\ after \in Seq(Nat)
  BY RowIs DEF ListInv, ListedAs
<1>2. IsFiniteSet(E)
  <2> DEFINE f == [k \in Raw |-> Entry(k, k)]
  <2>1. Raw \in SUBSET rows
    BY DEF Raw
  <2>2. IsFiniteSet(Raw)
    BY <1>1, <2>1, FS_Subset
  <2>3. f \in Surjection(Raw, E)
    BY DEF Surjection
  <2> QED BY <2>2, <2>3, FS_Surjection
<1>3. \A e \in E : e.value \in Raw /\ e.cursor = e.value /\ e = Entry(e.value, e.value)
  BY DEF Entry
<1>4. \A k \in Raw : \E e \in E : e.value = k
  <2>1. \A k \in Raw : Entry(k, k) \in E /\ Entry(k, k).value = k
    BY DEF Entry
  <2> HIDE DEF E
  <2> QED BY <2>1
<1> HIDE DEF E
<1>5. \A k \in Raw : k \in rows /\ Less(after, k)
  BY DEF Raw
<1>6. Sortable(E)
  BY <1>1, <1>2, <1>3, <1>5 DEF Sortable
<1>7. \A e \in E : e.cursor \in rows /\ ~Less(e.cursor, e.value) /\ Less(after, e.value)
  BY <1>1, <1>3, <1>5, LessIrreflexive
<1>8. \A r \in rows : IsPrefix(query.prefix, r) /\ Less(after, r) /\ Less(after, ListedAs(r))
                        => \E e \in E : e.value = ListedAs(r)
  BY <1>1, <1>4 DEF Raw
<1>9. \A e \in E, r \in rows : Less(e.value, ListedAs(r))
                        => Less(e.cursor, r) /\ Less(e.cursor, ListedAs(r))
  BY <1>1, <1>3
<1> QED BY <1>6, <1>7, <1>8, <1>9 DEF Pageable, E

\* Rows that are listed by their groups.
Group(v) == {k \in Raw : VirtualKey(k, query.prefix) = v}
LastOf(v) == CHOOSE k \in Group(v) : \A l \in Group(v) : ~Less(k, l)
Grouped == {v \in {VirtualKey(k, query.prefix) : k \in Raw} : Less(after, v)}

\* Groups, each with its last row as the cursor, make up a page too.
LEMMA GroupsPageable ==
    ASSUME ListInv, query.delimited
    PROVE  Pageable({Entry(v, LastOf(v)) : v \in Grouped})
<1> DEFINE E == {Entry(v, LastOf(v)) : v \in Grouped}
           V(k) == VirtualKey(k, query.prefix)
<1>1. /\ \A r \in rows : r \in Seq(Nat) /\ ListedAs(r) = V(r)
      /\ IsFiniteSet(rows) /\ after \in Seq(Nat) /\ query.prefix \in Seq(Nat)
  BY RowIs DEF ListInv, ListedAs
<1>2. Raw \in SUBSET rows
  BY DEF Raw
<1>3. IsFiniteSet(Raw)
  BY <1>1, <1>2, FS_Subset
<1>4. \A r \in rows : V(r) \in Seq(Nat)
  BY <1>1, VirtualIs
<1>5. IsFiniteSet(Grouped)
  <2> DEFINE I == {V(k) : k \in Raw}
             f == [k \in Raw |-> V(k)]
  <2>1. f \in Surjection(Raw, I)
    BY DEF Surjection
  <2>2. IsFiniteSet(I)
    BY <1>3, <2>1, FS_Surjection
  <2>3. Grouped \in SUBSET I
    BY DEF Grouped
  <2> QED BY <2>2, <2>3, FS_Subset
<1>6. IsFiniteSet(E)
  <2> DEFINE f == [v \in Grouped |-> Entry(v, LastOf(v))]
  <2>1. f \in Surjection(Grouped, E)
    BY DEF Surjection
  <2> QED BY <1>5, <2>1, FS_Surjection
<1>7. ASSUME NEW v \in Grouped
      PROVE  LastOf(v) \in Raw /\ V(LastOf(v)) = v /\ v \in Seq(Nat) /\ Less(after, v)
  <2>1. PICK k \in Raw : v = V(k)
    BY DEF Grouped
  <2>2. Group(v) # {} /\ Group(v) \subseteq Raw
    BY <2>1 DEF Group
  <2>3. IsFiniteSet(Group(v)) /\ Group(v) \subseteq Seq(Nat)
    BY <1>1, <1>2, <1>3, <2>2, FS_Subset
  <2>4. LastOf(v) \in Group(v)
    BY <2>2, <2>3, LastExists DEF LastOf
  <2> QED BY <1>2, <1>4, <2>1, <2>4 DEF Group, Grouped
<1>8. \A e \in E : e.value \in Grouped /\ e.cursor = LastOf(e.value) /\ e = Entry(e.value, LastOf(e.value))
  BY DEF Entry
<1>9. \A v \in Grouped : \E e \in E : e.value = v
  <2>1. \A v \in Grouped : Entry(v, LastOf(v)) \in E /\ Entry(v, LastOf(v)).value = v
    BY DEF Entry
  <2> HIDE DEF E
  <2> QED BY <2>1
<1> HIDE DEF E
<1>10. Sortable(E)
  BY <1>6, <1>7, <1>8 DEF Sortable
<1>11. \A e \in E : e.cursor \in rows /\ ~Less(e.cursor, e.value) /\ Less(after, e.value)
  BY <1>1, <1>2, <1>7, <1>8, VirtualNotAfter
<1>12. \A r \in rows : IsPrefix(query.prefix, r) /\ Less(after, r) /\ Less(after, ListedAs(r))
                        => \E e \in E : e.value = ListedAs(r)
  <2> SUFFICES ASSUME NEW r \in rows, IsPrefix(query.prefix, r), Less(after, r), Less(after, V(r))
               PROVE  \E e \in E : e.value = V(r)
    BY <1>1
  <2>1. V(r) \in Grouped
    BY DEF Raw, Grouped
  <2> QED BY <1>9, <2>1
<1>13. ASSUME NEW e \in E, NEW r \in rows, Less(e.value, V(r))
       PROVE  Less(e.cursor, r) /\ Less(e.cursor, V(r))
  <2>1. e.cursor \in Seq(Nat) /\ V(e.cursor) = e.value
    BY <1>1, <1>7, <1>8, <1>11
  <2>2. Less(e.cursor, V(r))
    BY <1>1, <1>13, <2>1, GroupsApart
  <2> QED BY <1>1, <2>1, <2>2, BeforeKey
<1>14. \A e \in E, r \in rows : Less(e.value, ListedAs(r))
                         => Less(e.cursor, r) /\ Less(e.cursor, ListedAs(r))
  <2> HIDE DEF E
  <2> QED BY <1>1, <1>13
<1>15. Pageable(E)
  <2> HIDE DEF E, V
  <2> QED BY <1>10, <1>11, <1>12, <1>14 DEF Pageable
<1> QED BY <1>15 DEF E

\* Every key has the empty prefix.
LEMMA EmptyPrefix ==
    ASSUME NEW r \in Seq(Nat)
    PROVE  IsPrefix(<<>>, r)
<1>1. Len(<<>>) = 0 /\ Len(r) \in Nat
  OBVIOUS
<1>2. SubSeq(<<>>, 1, 0) = <<>> /\ SubSeq(r, 1, 0) = <<>>
  OBVIOUS
<1> QED BY <1>1, <1>2 DEF IsPrefix

\* The order of pairs as the query of the uploads spells it out.
LEMMA LessPair ==
    ASSUME NEW s \in Seq(Nat), NEW t \in Seq(Nat), Len(s) = 2, Len(t) = 2
    PROVE  Less(s, t) <=> (t[1] > s[1] \/ (t[1] = s[1] /\ t[2] > s[2]))
<1>1. s[1] \in Nat /\ s[2] \in Nat /\ t[1] \in Nat /\ t[2] \in Nat
  <2>1. 1 \in 1..2 /\ 2 \in 1..2
    OBVIOUS
  <2> QED BY <2>1, KeyIs
<1>2. ASSUME Less(s, t) PROVE t[1] > s[1] \/ (t[1] = s[1] /\ t[2] > s[2])
  <2>1. PICK i \in 1..2 : (\A j \in 1..(i - 1) : s[j] = t[j]) /\ s[i] < t[i]
    BY <1>2 DEF Less
  <2>2. CASE i = 1
    BY <1>1, <2>1, <2>2
  <2>3. CASE i = 2
    <3>1. 1 \in 1..(i - 1)
      BY <2>3
    <3> QED BY <1>1, <2>1, <2>3, <3>1
  <2> QED BY <2>2, <2>3
<1>3. ASSUME t[1] > s[1] PROVE Less(s, t)
  <2>1. s[1] < t[1] /\ \A j \in 1..(1 - 1) : s[j] = t[j]
    BY <1>1, <1>3
  <2> QED BY <2>1, LessAt, SMTT(30)
<1>4. ASSUME t[1] = s[1], t[2] > s[2] PROVE Less(s, t)
  <2>1. s[2] < t[2]
    BY <1>1, <1>4
  <2>2. \A j \in 1..(2 - 1) : s[j] = t[j]
    <3>1. \A j \in 1..(2 - 1) : j = 1
      OBVIOUS
    <3> QED BY <1>4, <3>1
  <2>3. 2 \in Nat /\ 2 >= 1 /\ 2 <= Len(t) /\ 2 <= Len(s) + 1
    OBVIOUS
  <2> QED BY <2>1, <2>2, <2>3, LessAt, SMTT(30)
<1> QED BY <1>2, <1>3, <1>4

\* The order of single numbers.
LEMMA LessSingle ==
    ASSUME NEW s \in Seq(Nat), NEW t \in Seq(Nat), Len(s) = 1, Len(t) = 1
    PROVE  Less(s, t) <=> t[1] > s[1]
<1>1. s[1] \in Nat /\ t[1] \in Nat
  OBVIOUS
<1>2. ASSUME Less(s, t) PROVE t[1] > s[1]
  <2>1. PICK i \in 1..1 : s[i] < t[i]
    BY <1>2 DEF Less
  <2>2. i = 1
    OBVIOUS
  <2> QED BY <1>1, <2>1, <2>2
<1>3. ASSUME t[1] > s[1] PROVE Less(s, t)
  <2>1. s[1] < t[1] /\ \A j \in 1..(1 - 1) : s[j] = t[j]
    BY <1>1, <1>3
  <2> QED BY <2>1, LessAt
<1> QED BY <1>2, <1>3

\* Every handler reads the first limit + 1 of the entries after its marker.
LEMMA FetchedIs ==
    ASSUME ListInv
    PROVE  \/ query.limit = 0 /\ Fetched = <<>>
           \/ query.limit # 0 /\ \E E : Pageable(E) /\ Fetched = Limited(E, query.limit)
<1> DEFINE plain == {Entry(k, k) : k \in Raw}
           groups == {Entry(v, LastOf(v)) : v \in Grouped}
<1> USE ListingAssumption
<1>0. /\ \A r \in rows : r \in RowsOf(query.api) /\ r \in Seq(Nat) /\ r # <<>>
      /\ after \in RowsOf(query.api) \cup {<<>>}
      /\ QueryOK
  BY RowIs DEF ListInv
<1>1. List(rows, query.prefix, after, query.limit) = Limited(plain, query.limit)
  BY DEF List, Raw
<1>2. ListDelimited(rows, query.prefix, after, query.limit) = Limited(groups, query.limit)
  BY Zenon DEF ListDelimited, Raw, Group, LastOf, Grouped
<1>3. query.api \in Apis /\ query.delimited \in BOOLEAN
  BY <1>0 DEF QueryOK, Query
<1>4. ~query.delimited => Pageable(plain)
  BY PlainPageable
<1>5. query.delimited => Pageable(groups)
  BY GroupsPageable
<1> HIDE DEF plain, groups
<1>6. CASE query.api \in {"objects", "management", "versions"}
  <2>1. query.api = "objects" => Fetched = ListObjects
    BY DEF Fetched
  <2>2. query.api = "management" => Fetched = ManagementListObjects
    BY DEF Fetched
  <2>3. query.api = "versions" => Fetched = ListObjectVersions
    BY DEF Fetched
  <2>4. CASE query.delimited
    <3>1. query.api # "versions"
      BY <1>0, <2>4 DEF QueryOK
    <3>2. Fetched = IF query.api = "objects" /\ query.limit = 0 THEN <<>> ELSE Limited(groups, query.limit)
      BY <1>2, <1>6, <2>1, <2>2, <2>4, <3>1 DEF ListObjects, ManagementListObjects
    <3> QED BY <1>0, <1>5, <2>4, <3>2 DEF QueryOK
  <2>5. CASE ~query.delimited
    <3>1. Fetched = IF query.api = "objects" /\ query.limit = 0 THEN <<>> ELSE Limited(plain, query.limit)
      BY <1>1, <1>6, <2>1, <2>2, <2>3, <2>5 DEF ListObjects, ManagementListObjects, ListObjectVersions
    <3> QED BY <1>0, <1>4, <2>5, <3>1 DEF QueryOK
  <2> QED BY <2>4, <2>5
<1>7. CASE query.api = "uploads"
  <2>1. query.prefix = <<>> /\ ~query.delimited /\ query.limit # 0
    BY <1>0, <1>7 DEF QueryOK
  <2> DEFINE later(u) == \/ after = <<>>
                         \/ u[1] > after[1]
                         \/ u[1] = after[1] /\ u[2] > after[2]
  <2>2. ASSUME NEW u \in rows PROVE later(u) <=> (Less(after, u) /\ IsPrefix(query.prefix, u))
    <3>1. u \in Seq(Nat) /\ Len(u) = 2 /\ u # <<>>
      BY <1>0, <1>7 DEF RowsOf
    <3>2. IsPrefix(query.prefix, u)
      BY <2>1, <3>1, EmptyPrefix
    <3>3. CASE after = <<>>
      BY <3>1, <3>2, <3>3, EmptyFirst
    <3>4. CASE after # <<>>
      <4>1. after \in Seq(Nat) /\ Len(after) = 2
        BY <1>0, <1>7, <3>4 DEF RowsOf
      <4> QED BY <3>1, <3>2, <3>4, <4>1, LessPair
    <3> QED BY <3>3, <3>4
  <2>3. Fetched = Limited({Entry(r, r) : r \in {u \in rows : later(u)}}, query.limit)
    BY <1>7 DEF Fetched, ListMultipartUploads, ListByBucket
  <2> HIDE DEF later
  <2>4. {u \in rows : later(u)} = Raw
    BY <2>2 DEF Raw
  <2>5. Fetched = Limited(plain, query.limit)
    BY <2>3, <2>4 DEF plain
  <2> QED BY <1>4, <2>1, <2>5
<1>8. CASE query.api = "parts"
  <2>1. query.prefix = <<>> /\ ~query.delimited /\ query.limit # 0
    BY <1>0, <1>8 DEF QueryOK
  <2> DEFINE number == IF after = <<>> THEN 0 ELSE after[1]
  <2>2. ASSUME NEW u \in rows PROVE u[1] > number <=> (Less(after, u) /\ IsPrefix(query.prefix, u))
    <3>1. u \in Seq(Nat) /\ Len(u) = 1 /\ u # <<>> /\ u[1] > 0
      BY <1>0, <1>8 DEF RowsOf
    <3>2. IsPrefix(query.prefix, u)
      BY <2>1, <3>1, EmptyPrefix
    <3>3. CASE after = <<>>
      BY <3>1, <3>2, <3>3, EmptyFirst
    <3>4. CASE after # <<>>
      <4>1. after \in Seq(Nat) /\ Len(after) = 1
        BY <1>0, <1>8, <3>4 DEF RowsOf
      <4> QED BY <3>1, <3>2, <3>4, <4>1, LessSingle
    <3> QED BY <3>3, <3>4
  <2>3. Fetched = Limited({Entry(r, r) : r \in {u \in rows : u[1] > number}}, query.limit)
    BY <1>8 DEF Fetched, ListParts, PartsAfterMarker
  <2> HIDE DEF number
  <2>4. {u \in rows : u[1] > number} = Raw
    BY <2>2 DEF Raw
  <2>5. Fetched = Limited(plain, query.limit)
    BY <2>3, <2>4 DEF plain
  <2> QED BY <1>4, <2>1, <2>5
<1> QED BY <1>3, <1>6, <1>7, <1>8 DEF Apis

-----------------------------------------------------------------------------
(* Steps                                                                   *)

\* A page goes on where the one before ended, and takes from the rows still
\* to come exactly those that it lists.
LEMMA NextPageInv ==
    ASSUME ListInv, NextPage
    PROVE  ListInv'
<1> DEFINE page == PageOf(Fetched, query.limit)
           more == Len(Fetched) > query.limit
           new == [i \in 1..Len(page) |-> page[i].value]
<1>1. /\ ~ended
      /\ listed' = listed \o new
      /\ after' = IF more THEN page[Len(page)].cursor ELSE after
      /\ ended' = ~more
      /\ UNCHANGED <<rows, query, steady, changes>>
  BY DEF NextPage, PageOf
<1>2. /\ QueryOK /\ query.limit \in Nat /\ after \in Seq(Nat)
      /\ rows \subseteq RowsOf(query.api) /\ after \in RowsOf(query.api) \cup {<<>>}
      /\ listed \in Seq(Seq(Nat)) /\ steady \subseteq rows /\ changes \in 0..MaxChanges
      /\ \A r \in rows : r \in Seq(Nat) /\ ListedAs(r) \in Seq(Nat)
  BY RowIs DEF ListInv
<1>3. /\ QueryOK' /\ \A r : ListedAs(r)' = ListedAs(r)
      /\ RowsOf(query.api)' = RowsOf(query.api)
  BY <1>1, <1>2 DEF QueryOK, ListedAs, RowsOf
<1>4. CASE query.limit = 0 /\ Fetched = <<>>
  <2>1. ~more /\ page = <<>>
    BY <1>4 DEF PageOf
  <2>2. listed' = listed /\ after' = after /\ ended' = TRUE
    <3> HIDE DEF page, more
    <3>1. new = <<>>
      BY <2>1
    <3>2. listed \o <<>> = listed
      BY <1>2
    <3> HIDE DEF new
    <3>3. more = FALSE
      BY <2>1
    <3> QED BY <1>1, <3>1, <3>2, <3>3
  <2>3. ListsEachOnce'
    BY <2>2 DEF ListInv, ListsEachOnce
  <2>4. CursorAtEnd' /\ SteadyRowsFound'
    BY <1>1, <1>4, <2>2 DEF CursorAtEnd, SteadyRowsFound
  <2> QED BY <1>1, <1>2, <1>3, <2>2, <2>3, <2>4 DEF ListInv
<1>5. CASE query.limit # 0 /\ \E E : Pageable(E) /\ Fetched = Limited(E, query.limit)
  <2>1. PICK E : Pageable(E) /\ Fetched = Limited(E, query.limit)
    BY <1>5
  <2>2. /\ page \in Seq(E) /\ Len(page) \in Nat
        /\ \A i, j \in 1..Len(page) : i < j => Less(page[i].value, page[j].value)
        /\ ~more => \A e \in E : \E i \in 1..Len(page) : page[i] = e
        /\ more => /\ Len(page) >= 1
                   /\ \A e \in E : \/ \E i \in 1..Len(page) : page[i] = e
                                   \/ Less(page[Len(page)].value, e.value)
    <3>1. FirstOf(page, E, more)
      <4>1. Sortable(E)
        BY <2>1 DEF Pageable
      <4>2. FirstOf(PageOf(Limited(E, query.limit), query.limit), E,
                    Len(Limited(E, query.limit)) > query.limit)
        BY <1>2, <1>5, <4>1, PageIs
      <4> QED BY <2>1, <4>2
    <3> HIDE DEF page, more
    <3> QED BY <3>1 DEF FirstOf
  <2>m. more \in BOOLEAN
    OBVIOUS
  <2> HIDE DEF page, more
  <2>3. \A e \in E : /\ e.value \in Seq(Nat) /\ e.cursor \in rows
                     /\ ~Less(e.cursor, e.value) /\ Less(after, e.value)
    BY <2>1 DEF Pageable, Sortable
  <2>4. \A i \in 1..Len(page) : page[i] \in E
    BY <2>2
  <2>5. new \in Seq(Seq(Nat)) /\ Len(new) = Len(page) /\ \A i \in 1..Len(page) : new[i] = page[i].value
    <3>1. \A i \in 1..Len(page) : page[i].value \in Seq(Nat)
      BY <2>3, <2>4
    <3>2. new \in [1..Len(page) -> Seq(Nat)] /\ \A i \in 1..Len(page) : new[i] = page[i].value
      BY <3>1
    <3> HIDE DEF new
    <3>3. PICK n \in Nat : n = Len(page)
      BY <2>2
    <3>4. new \in [1..n -> Seq(Nat)]
      BY <3>2, <3>3
    <3>5. new \in Seq(Seq(Nat)) /\ Len(new) = n
      BY <3>4
    <3> QED BY <3>2, <3>3, <3>5
  <2> HIDE DEF new
  <2>6. /\ listed' \in Seq(Seq(Nat)) /\ Len(listed') = Len(listed) + Len(page) /\ Len(listed) \in Nat
        /\ \A i \in 1..Len(listed) : listed'[i] = listed[i]
        /\ \A i \in 1..Len(page) : listed'[Len(listed) + i] = page[i].value
    <3>1. PICK s \in Seq(Seq(Nat)) : s = listed
      BY <1>2
    <3>2. PICK z \in Seq(Seq(Nat)) : z = new
      BY <2>5
    <3>3. /\ s \o z \in Seq(Seq(Nat)) /\ Len(s \o z) = Len(s) + Len(z) /\ Len(s) \in Nat /\ Len(z) \in Nat
          /\ \A i \in 1..Len(s) : (s \o z)[i] = s[i]
          /\ \A i \in 1..Len(z) : (s \o z)[Len(s) + i] = z[i]
      OBVIOUS
    <3> QED BY <1>1, <2>5, <3>1, <3>2, <3>3
  <2>7. ListsEachOnce'
    <3> SUFFICES ASSUME NEW i \in 2..Len(listed') PROVE Less(listed'[i - 1], listed'[i])
      BY DEF ListsEachOnce
    <3> DEFINE n == Len(listed)
    <3>0. i \in Nat /\ i >= 2 /\ i <= n + Len(page) /\ n \in Nat
      BY <2>2, <2>6
    <3>1. CASE i <= n
      <4>1. i \in 1..n /\ i - 1 \in 1..n /\ i \in 2..n
        BY <3>0, <3>1
      <4> QED BY <2>6, <4>1 DEF ListInv, ListsEachOnce
    <3>2. CASE i = n + 1
      <4>1. n \in 1..n /\ 1 \in 1..Len(page) /\ i - 1 = n
        BY <2>2, <3>0, <3>2
      <4>2. listed # <<>> /\ listed[n] \in Seq(Nat)
        BY <1>2, <4>1
      <4>3. ~Less(after, listed[n])
        BY <1>1, <4>2 DEF ListInv, CursorAtEnd
      <4>4. page[1].value \in Seq(Nat) /\ Less(after, page[1].value)
        BY <2>3, <2>4, <4>1
      <4>5. Less(listed[n], page[1].value)
        <5>1. CASE after = listed[n]
          BY <4>4, <5>1
        <5>2. CASE after # listed[n]
          <6>1. Less(listed[n], after)
            BY <1>2, <4>2, <4>3, <5>2, LessTotal
          <6> QED BY <1>2, <4>2, <4>4, <6>1, LessTransitive
        <5> QED BY <5>1, <5>2
      <4>6. listed'[i - 1] = listed[n] /\ listed'[i] = page[1].value
        BY <2>6, <3>2, <4>1
      <4> QED BY <4>5, <4>6
    <3>3. CASE i > n + 1
      <4>1. i - n \in 1..Len(page) /\ (i - 1) - n \in 1..Len(page) /\ (i - 1) - n < i - n
        BY <2>2, <3>0, <3>3
      <4>2. n + (i - n) = i /\ n + ((i - 1) - n) = i - 1
        BY <3>0
      <4>3. listed'[i] = page[i - n].value /\ listed'[i - 1] = page[(i - 1) - n].value
        BY <2>6, <4>1, <4>2
      <4> QED BY <2>2, <4>1, <4>3
    <3> QED BY <3>0, <3>1, <3>2, <3>3
  <2>8. more => /\ page[Len(page)] \in E /\ after' = page[Len(page)].cursor
                /\ after' \in rows /\ Len(page) \in 1..Len(page)
    BY <1>1, <2>2, <2>3, <2>4
  <2>9. after' \in RowsOf(query.api) \cup {<<>>}
    BY <1>1, <1>2, <2>8, <2>m
  <2>10. CursorAtEnd'
    <3> SUFFICES ASSUME more PROVE ~Less(after', listed'[Len(listed')])
      BY <1>1 DEF CursorAtEnd
    <3>1. listed'[Len(listed')] = page[Len(page)].value
      BY <2>6, <2>8
    <3> QED BY <2>3, <2>8, <3>1
  <2>11. SteadyRowsFound'
    <3> SUFFICES ASSUME NEW r \in steady, IsPrefix(query.prefix, r)
                 PROVE  (\E i \in DOMAIN listed' : listed'[i] = ListedAs(r))
                        \/ (~ended' /\ Less(after', r) /\ Less(after', ListedAs(r)))
      BY <1>1, <1>3 DEF SteadyRowsFound, ToCome
    <3>0. DOMAIN listed' = 1..(Len(listed) + Len(page)) /\ DOMAIN listed = 1..Len(listed)
          /\ Len(listed) \in Nat
      BY <1>2, <2>6
    <3>1. CASE \E i \in DOMAIN listed : listed[i] = ListedAs(r)
      <4>1. PICK i \in DOMAIN listed : listed[i] = ListedAs(r)
        BY <3>1
      <4>2. i \in DOMAIN listed' /\ listed'[i] = listed[i]
        BY <2>2, <2>6, <3>0
      <4> QED BY <4>1, <4>2
    <3>2. CASE ToCome(r)
      <4>1. PICK e \in E : e.value = ListedAs(r)
        BY <1>2, <2>1, <3>2 DEF Pageable, ToCome
      <4>2. CASE \E i \in 1..Len(page) : page[i] = e
        <5>1. PICK i \in 1..Len(page) : page[i] = e
          BY <4>2
        <5>2. Len(listed) + i \in DOMAIN listed' /\ listed'[Len(listed) + i] = ListedAs(r)
          <6>1. Len(listed) + i \in 1..(Len(listed) + Len(page))
            BY <2>2, <3>0
          <6> QED BY <2>6, <3>0, <4>1, <5>1, <6>1
        <5> QED BY <5>2
      <4>3. CASE more /\ Less(page[Len(page)].value, e.value)
        <5>1. ended' = FALSE
          BY <1>1, <4>3
        <5>2. Less(after', r) /\ Less(after', ListedAs(r))
          <6>1. PICK c \in E : c = page[Len(page)] /\ Less(c.value, ListedAs(r)) /\ after' = c.cursor
            BY <2>8, <4>1, <4>3
          <6>2. r \in rows
            BY <1>2
          <6>3. \A x \in E, y \in rows : Less(x.value, ListedAs(y))
                        => Less(x.cursor, y) /\ Less(x.cursor, ListedAs(y))
            BY <2>1 DEF Pageable
          <6> QED BY <6>1, <6>2, <6>3
        <5> QED BY <5>1, <5>2
      <4> QED BY <2>2, <2>m, <4>2, <4>3
    <3>3. query.limit > 0
      BY <1>2, <1>5
    <3> QED BY <3>1, <3>2, <3>3 DEF ListInv, SteadyRowsFound
  <2>12. ended' \in BOOLEAN
    BY <1>1, <2>m
  <2> QED BY <1>1, <1>2, <1>3, <2>6, <2>7, <2>9, <2>10, <2>11, <2>12 DEF ListInv
<1> QED BY <1>4, <1>5, FetchedIs

\* Other rows come and go; the pages so far and the next one's start remain.
LEMMA RowsInv ==
    ASSUME ListInv, NEW r, InsertRow(r) \/ RemoveRow(r)
    PROVE  ListInv'
<1> USE ListingAssumption
<1>1. /\ UNCHANGED <<query, after, listed, ended>>
      /\ changes \in Nat /\ changes < MaxChanges /\ changes' = changes + 1
      /\ rows' \subseteq RowsOf(query.api)
      /\ steady' \subseteq rows' /\ steady' \subseteq steady
  BY DEF InsertRow, RemoveRow, ListInv
<1>2. changes' \in 0..MaxChanges
  BY <1>1
<1>3. QueryOK' /\ ListsEachOnce' /\ CursorAtEnd'
  BY <1>1 DEF ListInv, QueryOK, ListsEachOnce, CursorAtEnd
<1>4. SteadyRowsFound'
  BY <1>1 DEF ListInv, SteadyRowsFound, ToCome, ListedAs
<1>5. RowsOf(query.api)' = RowsOf(query.api)
  BY <1>1 DEF RowsOf
<1> QED BY <1>1, <1>2, <1>3, <1>4, <1>5 DEF ListInv

\* A listing starts before the first key, with every row still to come.
LEMMA ListInitInv == ListInit => ListInv
<1> USE ListingAssumption
<1> SUFFICES ASSUME ListInit PROVE ListInv
  OBVIOUS
<1>1. PICK api \in Apis, p \in ListPrefixes, d \in BOOLEAN, asked \in Limits :
        /\ Answered(api, p, d, asked)
        /\ query = [api |-> api, prefix |-> p, delimited |-> d, limit |-> ListLimit(api, asked)]
        /\ rows \in SUBSET RowsOf(api)
  BY DEF ListInit
<1>2. /\ steady = rows /\ after = <<>> /\ listed = <<>> /\ ended = FALSE /\ changes = 0
  BY DEF ListInit
<1>3. asked \in Nat /\ ListLimit(api, asked) \in Nat
  BY DEF ListLimit
<1>4. /\ query \in Query /\ query.api = api /\ query.prefix = p /\ query.delimited = d
      /\ query.limit = ListLimit(api, asked)
  BY <1>1, <1>3 DEF Query
<1>5. ListLimit(api, asked) = 0 => api = "objects"
  BY <1>1, <1>3 DEF ListLimit, Answered, Apis
<1>6. QueryOK
  BY <1>1, <1>4, <1>5 DEF QueryOK, Answered
<1>7. \A r \in RowsOf(api) : r \in Seq(Nat) /\ r # <<>>
  <2>1. \A u \in UploadRows \cup PartRows : u \in Seq(Nat) /\ Len(u) \in {1, 2}
    OBVIOUS
  <2>2. \A u \in UploadRows \cup PartRows : u # <<>>
    <3> HIDE ListingAssumption
    <3>1. Len(<<>>) \notin {1, 2}
      OBVIOUS
    <3> QED BY <2>1, <3>1, Zenon
  <2>3. RowsOf(api) \in {UploadRows, PartRows, ObjectRows}
    BY DEF RowsOf
  <2> QED BY <2>1, <2>2, <2>3
<1>8. SteadyRowsFound
  <2> SUFFICES ASSUME NEW r \in steady PROVE Less(<<>>, r) /\ Less(<<>>, ListedAs(r))
    BY <1>2 DEF SteadyRowsFound, ToCome
  <2>1. r \in Seq(Nat) /\ r # <<>> /\ p \in Seq(Nat)
    BY <1>1, <1>2, <1>7
  <2>2. ListedAs(r) \in Seq(Nat) /\ ListedAs(r) # <<>>
    <3>1. VirtualKey(r, p) \in Seq(Nat) /\ VirtualKey(r, p) # <<>>
      BY <2>1, VirtualIs
    <3> QED BY <1>4, <2>1, <3>1 DEF ListedAs
  <2> QED BY <2>1, <2>2, EmptyFirst
<1>9. ListsEachOnce /\ CursorAtEnd
  BY <1>2 DEF ListsEachOnce, CursorAtEnd
<1>10. listed \in Seq(Seq(Nat)) /\ 0 \in 0..MaxChanges
  BY <1>2
<1> HIDE ListingAssumption
<1> QED BY <1>1, <1>2, <1>4, <1>6, <1>8, <1>9, <1>10 DEF ListInv

\* Pages and changes of the table keep the inductive invariant.
THEOREM ListInvariance == ListSpec => []ListInv
<1>1. ASSUME ListInv, [ListNext]_listVars PROVE ListInv'
  <2>1. CASE ListNext
    BY <1>1, <2>1, NextPageInv, RowsInv DEF ListNext
  <2>2. CASE UNCHANGED listVars
    BY <1>1, <2>2 DEF listVars, ListInv, QueryOK, RowsOf, ListsEachOnce, CursorAtEnd,
                      SteadyRowsFound, ToCome, ListedAs
  <2> QED BY <1>1, <2>1, <2>2
<1> QED BY <1>1, ListInitInv, PTL DEF ListSpec

\* No page of any listing repeats a key or a common prefix, whatever is
\* inserted and removed between pages.
THEOREM EachIsListedOnce == ListSpec => []ListsEachOnce
<1>1. ListInv => ListsEachOnce
  BY DEF ListInv
<1> QED BY <1>1, ListInvariance, PTL

\* A listing that has ended has listed every row that was there all along.
THEOREM SteadyRowsAreListed == ListSpec => []ListsSteadyRows
<1>1. ListInv => ListsSteadyRows
  BY DEF ListInv, SteadyRowsFound, ToCome, ListsSteadyRows
<1> QED BY <1>1, ListInvariance, PTL

-----------------------------------------------------------------------------
(* The part list of a completion                                           *)

\* The equation of the loop in NormalizeCompletedParts.
Rounds(g, list, n) ==
    g = [k \in 0..n |-> IF k = 0 THEN <<>> ELSE AddPart(g[k - 1], list[k])]

\* There is a function that satisfies it.
LEMMA RoundsExist ==
    ASSUME NEW list, NEW N \in Nat
    PROVE  \E g : Rounds(g, list, N)
<1> DEFINE T == {n \in Nat : ~\E g : Rounds(g, list, n)}
<1>1. 0 \notin T
  <2> DEFINE g == [k \in 0..0 |-> <<>>]
  <2>1. Rounds(g, list, 0)
    BY DEF Rounds
  <2> HIDE DEF g
  <2> QED BY <2>1
<1>2. ASSUME T # {} PROVE FALSE
  <2>1. PICK n \in Nat : n \in T /\ \A m \in T : n <= m
    BY <1>2, Smallest
  <2>2. n # 0 /\ n - 1 \in Nat
    BY <1>1, <2>1
  <2>3. n - 1 \notin T
    <3> HIDE DEF T
    <3> QED BY <2>1, <2>2
  <2>4. PICK g : Rounds(g, list, n - 1)
    BY <2>2, <2>3
  <2> DEFINE h == [k \in 0..n |-> IF k = 0 THEN <<>> ELSE AddPart(g[k - 1], list[k])]
  <2>5. \A k \in 0..(n - 1) : h[k] = g[k]
    <3> DEFINE v(k) == IF k = 0 THEN <<>> ELSE AddPart(g[k - 1], list[k])
    <3>1. g = [k \in 0..(n - 1) |-> v(k)]
      BY <2>4 DEF Rounds
    <3>2. h = [k \in 0..n |-> v(k)]
      OBVIOUS
    <3>3. \A k \in 0..(n - 1) : k \in 0..n
      BY <2>2
    <3> HIDE DEF h, v
    <3>4. \A k \in 0..(n - 1) : g[k] = v(k)
      BY <3>1
    <3> QED BY <3>2, <3>3, <3>4
  <2>6. \A k \in 0..n : k # 0 => k - 1 \in 0..(n - 1)
    BY <2>2
  <2>7. Rounds(h, list, n)
    BY <2>5, <2>6 DEF Rounds
  <2> HIDE DEF h
  <2> QED BY <2>1, <2>7
<1> QED BY <1>2

\* u is what the first k entries of the list come to: each number once, with
\* its last entry, in the order in which the numbers are first named.
OncePer(u) == \A i, j \in 1..Len(u) : u[i].number = u[j].number => i = j

Covers(u, list, k) == \A m \in 1..k : \E i \in 1..Len(u) : u[i].number = list[m].number

HasLast(u, list, k) ==
    \A i \in 1..Len(u) : \E m \in 1..k :
        list[m] = u[i] /\ \A l \in (m + 1)..k : list[l].number # u[i].number

ByFirst(u, list, k) ==
    \A i, j \in 1..Len(u) : i < j =>
        \E m \in 1..k : /\ list[m].number = u[i].number
                        /\ \A l \in 1..m : list[l].number # u[j].number

Unique(u, list, k) ==
    u \in Seq(CompletePart) /\ OncePer(u) /\ Covers(u, list, k) /\ HasLast(u, list, k) /\ ByFirst(u, list, k)

\* One round.
LEMMA AddPartUnique ==
    ASSUME NEW list \in Seq(CompletePart), NEW k \in 1..Len(list), NEW u, Unique(u, list, k - 1)
    PROVE  Unique(AddPart(u, list[k]), list, k)
<1> DEFINE part == list[k]
           w == AddPart(u, part)
<1>0. /\ k \in Nat /\ k >= 1 /\ part \in CompletePart /\ u \in Seq(CompletePart) /\ Len(u) \in Nat
      /\ DOMAIN u = 1..Len(u) /\ \A i \in 1..Len(u) : u[i] \in CompletePart
  BY DEF Unique
<1>a. \A m \in 1..k : m = k \/ m \in 1..(k - 1)
  BY <1>0
<1>b. k \in 1..k /\ \A m \in 1..(k - 1) : m \in 1..k
  BY <1>0
<1>c. /\ OncePer(u) /\ Covers(u, list, k - 1) /\ HasLast(u, list, k - 1) /\ ByFirst(u, list, k - 1)
  BY DEF Unique
<1>d. \A m \in 1..k : \A l \in (m + 1)..k : l = k \/ l \in (m + 1)..(k - 1)
  BY <1>0
<1>e. \A l \in (k + 1)..k : FALSE
  BY <1>0
<1> HIDE DEF part
<1>1. CASE \E i \in 1..Len(u) : u[i].number = part.number
  <2>1. w = [i \in 1..Len(u) |-> IF u[i].number = part.number THEN part ELSE u[i]]
    BY <1>0, <1>1 DEF AddPart
  <2> HIDE DEF w
  <2>2. /\ \A i \in 1..Len(u) : w[i] = IF u[i].number = part.number THEN part ELSE u[i]
        /\ w \in [1..Len(u) -> CompletePart]
    BY <1>0, <2>1
  <2>3. w \in Seq(CompletePart) /\ Len(w) = Len(u)
    BY <1>0, <2>2
  <2>4. \A i \in 1..Len(u) : w[i].number = u[i].number
    BY <2>2
  <2>5. OncePer(w)
    BY <1>c, <2>3, <2>4 DEF OncePer
  <2>6. Covers(w, list, k)
    <3> SUFFICES ASSUME NEW m \in 1..k PROVE \E i \in 1..Len(u) : w[i].number = list[m].number
      BY <2>3 DEF Covers
    <3>1. CASE m = k
      BY <1>1, <2>4, <3>1 DEF part
    <3>2. CASE m \in 1..(k - 1)
      BY <1>c, <2>4, <3>2 DEF Covers
    <3> QED BY <1>a, <3>1, <3>2
  <2>7. HasLast(w, list, k)
    <3> SUFFICES ASSUME NEW i \in 1..Len(u)
                 PROVE  \E m \in 1..k : list[m] = w[i] /\ \A l \in (m + 1)..k : list[l].number # w[i].number
      BY <2>3 DEF HasLast
    <3>1. CASE u[i].number = part.number
      <4>1. list[k] = w[i]
        BY <2>2, <3>1 DEF part
      <4> QED BY <1>b, <1>e, <4>1
    <3>2. CASE u[i].number # part.number
      <4>1. PICK m \in 1..(k - 1) :
              list[m] = u[i] /\ \A l \in (m + 1)..(k - 1) : list[l].number # u[i].number
        BY <1>c DEF HasLast
      <4>2. m \in 1..k /\ w[i] = u[i]
        BY <1>b, <2>2, <3>2
      <4>3. \A l \in (m + 1)..k : list[l].number # u[i].number
        BY <1>d, <3>2, <4>1, <4>2 DEF part
      <4> QED BY <4>1, <4>2, <4>3
    <3> QED BY <3>1, <3>2
  <2>8. ByFirst(w, list, k)
    <3> SUFFICES ASSUME NEW i \in 1..Len(u), NEW j \in 1..Len(u), i < j
                 PROVE  \E m \in 1..k : /\ list[m].number = w[i].number
                                        /\ \A l \in 1..m : list[l].number # w[j].number
      BY <2>3 DEF ByFirst
    <3>1. PICK m \in 1..(k - 1) : /\ list[m].number = u[i].number
                                  /\ \A l \in 1..m : list[l].number # u[j].number
      BY <1>c DEF ByFirst
    <3> QED BY <1>b, <2>4, <3>1
  <2> QED BY <2>3, <2>5, <2>6, <2>7, <2>8, SMTT(30) DEF Unique, w, part
<1>2. CASE ~\E i \in 1..Len(u) : u[i].number = part.number
  <2>1. w = Append(u, part)
    BY <1>0, <1>2 DEF AddPart
  <2> HIDE DEF w
  <2>2. /\ w \in Seq(CompletePart) /\ Len(w) = Len(u) + 1 /\ w[Len(u) + 1] = part
        /\ \A i \in 1..Len(u) : w[i] = u[i]
    BY <1>0, <2>1
  <2>3. \A i \in 1..(Len(u) + 1) : i = Len(u) + 1 \/ i \in 1..Len(u)
    BY <1>0
  <2>4. Len(u) + 1 \in 1..(Len(u) + 1) /\ \A i \in 1..Len(u) : i \in 1..(Len(u) + 1)
    BY <1>0
  <2>5. \A l \in 1..(k - 1) : list[l].number # part.number
    BY <1>c, <1>2 DEF Covers
  <2>6. OncePer(w)
    BY <1>c, <1>2, <2>2, <2>3 DEF OncePer
  <2>7. Covers(w, list, k)
    <3> SUFFICES ASSUME NEW m \in 1..k PROVE \E i \in 1..(Len(u) + 1) : w[i].number = list[m].number
      BY <2>2 DEF Covers
    <3>1. CASE m = k
      BY <2>2, <2>4, <3>1 DEF part
    <3>2. CASE m \in 1..(k - 1)
      <4>1. PICK i \in 1..Len(u) : u[i].number = list[m].number
        BY <1>c, <3>2 DEF Covers
      <4> QED BY <2>2, <2>4, <4>1
    <3> QED BY <1>a, <3>1, <3>2
  <2>8. HasLast(w, list, k)
    <3> SUFFICES ASSUME NEW i \in 1..(Len(u) + 1)
                 PROVE  \E m \in 1..k : list[m] = w[i] /\ \A l \in (m + 1)..k : list[l].number # w[i].number
      BY <2>2 DEF HasLast
    <3>1. CASE i = Len(u) + 1
      <4>1. list[k] = w[i]
        BY <2>2, <3>1 DEF part
      <4> QED BY <1>b, <1>e, <4>1
    <3>2. CASE i \in 1..Len(u)
      <4>1. PICK m \in 1..(k - 1) :
              list[m] = u[i] /\ \A l \in (m + 1)..(k - 1) : list[l].number # u[i].number
        BY <1>c, <3>2 DEF HasLast
      <4>2. m \in 1..k /\ w[i] = u[i] /\ u[i].number # part.number
        BY <1>b, <1>2, <2>2, <3>2
      <4>3. \A l \in (m + 1)..k : list[l].number # u[i].number
        BY <1>d, <4>1, <4>2 DEF part
      <4> QED BY <4>1, <4>2, <4>3
    <3> QED BY <2>3, <3>1, <3>2
  <2>9. ByFirst(w, list, k)
    <3>0. ByFirst(w, list, k) <=>
            \A i, j \in 1..(Len(u) + 1) : i < j =>
                \E m \in 1..k : /\ list[m].number = w[i].number
                                /\ \A l \in 1..m : list[l].number # w[j].number
      BY <2>2 DEF ByFirst
    <3> SUFFICES ASSUME NEW i \in 1..(Len(u) + 1), NEW j \in 1..(Len(u) + 1), i < j
                 PROVE  \E m \in 1..k : /\ list[m].number = w[i].number
                                        /\ \A l \in 1..m : list[l].number # w[j].number
      BY <3>0
    <3>1. i \in 1..Len(u) /\ w[i] = u[i]
      <4>1. i \in 1..Len(u)
        BY <1>0
      <4> QED BY <2>2, <4>1
    <3>2. CASE j = Len(u) + 1
      <4>1. PICK m \in 1..(k - 1) : list[m] = u[i]
        BY <1>c, <3>1 DEF HasLast
      <4>2. \A l \in 1..m : l \in 1..(k - 1)
        BY <1>0
      <4>3. \A l \in 1..m : list[l].number # w[j].number
        BY <2>2, <2>5, <3>2, <4>2
      <4> QED BY <1>b, <3>1, <4>1, <4>3
    <3>3. CASE j \in 1..Len(u)
      <4>1. PICK m \in 1..(k - 1) : /\ list[m].number = u[i].number
                                    /\ \A l \in 1..m : list[l].number # u[j].number
        BY <1>c, <3>1, <3>3 DEF ByFirst
      <4> QED BY <1>b, <2>2, <3>1, <3>3, <4>1
    <3> QED BY <2>3, <3>2, <3>3
  <2> QED BY <2>2, <2>6, <2>7, <2>8, <2>9 DEF Unique, w, part
<1> QED BY <1>1, <1>2

\* The whole loop.
LEMMA NormalizeIs ==
    ASSUME NEW list \in Seq(CompletePart)
    PROVE  \E u : /\ Unique(u, list, Len(list))
                  /\ NormalizeCompletedParts(list) =
                       CASE list = <<>> -> Refused("errNoCompletedParts")
                         [] \E i \in 2..Len(u) : u[i].number < u[i - 1].number
                                        -> Refused("errPartOrder")
                         [] OTHER       -> Accepted(u)
<1>0. Len(list) \in Nat
  OBVIOUS
<1>1. PICK g : g = CHOOSE h : Rounds(h, list, Len(list))
  OBVIOUS
<1>2. Rounds(g, list, Len(list))
  BY <1>0, <1>1, RoundsExist
<1>3. NormalizeCompletedParts(list) =
        CASE list = <<>> -> Refused("errNoCompletedParts")
          [] \E i \in 2..Len(g[Len(list)]) : g[Len(list)][i].number < g[Len(list)][i - 1].number
                         -> Refused("errPartOrder")
          [] OTHER       -> Accepted(g[Len(list)])
  BY <1>1, Zenon DEF NormalizeCompletedParts, Rounds
<1> DEFINE T == {k \in Nat : k <= Len(list) /\ ~Unique(g[k], list, k)}
<1>4. g[0] = <<>> /\ \A k \in 1..Len(list) : g[k] = AddPart(g[k - 1], list[k])
  BY <1>0, <1>2 DEF Rounds
<1>5. Unique(g[0], list, 0)
  <2>1. g[0] \in Seq(CompletePart) /\ Len(g[0]) = 0
    BY <1>4
  <2> QED BY <2>1 DEF Unique, OncePer, Covers, HasLast, ByFirst
<1>6. T = {}
  <2> SUFFICES ASSUME T # {} PROVE FALSE
    OBVIOUS
  <2>1. PICK n \in Nat : n \in T /\ \A m \in T : n <= m
    BY Smallest
  <2>2. n <= Len(list) /\ ~Unique(g[n], list, n)
    BY <2>1
  <2>3. n # 0 /\ n - 1 \in Nat /\ n - 1 <= Len(list) /\ n \in 1..Len(list)
    BY <1>0, <1>5, <2>2
  <2>4. n - 1 \notin T
    <3> HIDE DEF T
    <3> QED BY <2>1, <2>3
  <2>5. Unique(g[n - 1], list, n - 1)
    BY <2>3, <2>4
  <2> QED BY <1>4, <2>2, <2>3, <2>5, AddPartUnique
<1>7. Unique(g[Len(list)], list, Len(list))
  BY <1>0, <1>6
<1> QED BY <1>3, <1>7

\* A number that is named has a first entry.
LEMMA FirstAtIs ==
    ASSUME NEW list \in Seq(CompletePart), NEW n \in Named(list)
    PROVE  /\ FirstAt(list, n) \in 1..Len(list)
           /\ list[FirstAt(list, n)].number = n
           /\ \A j \in 1..(FirstAt(list, n) - 1) : list[j].number # n
<1>0. Len(list) \in Nat /\ DOMAIN list = 1..Len(list)
  OBVIOUS
<1> DEFINE T == {i \in 1..Len(list) : list[i].number = n}
<1>1. T # {} /\ T \subseteq Nat
  BY <1>0 DEF Named
<1>2. PICK i \in T : \A j \in T : i <= j
  BY <1>1, Smallest
<1>3. \A j \in 1..(i - 1) : list[j].number # n
  <2> TAKE j \in 1..(i - 1)
  <2>1. j \in 1..Len(list) /\ ~(i <= j)
    BY <1>0
  <2> QED BY <1>2, <2>1
<1>4. \E k \in 1..Len(list) : list[k].number = n /\ \A j \in 1..(k - 1) : list[j].number # n
  BY <1>2, <1>3
<1> QED BY <1>0, <1>4 DEF FirstAt

\* The last entry for a number is the one that the loop has kept.
LEMMA LastForIs ==
    ASSUME NEW list \in Seq(CompletePart), NEW m \in 1..Len(list),
           \A l \in (m + 1)..Len(list) : list[l].number # list[m].number
    PROVE  LastFor(list, list[m].number) = list[m]
<1>0. Len(list) \in Nat /\ DOMAIN list = 1..Len(list)
  OBVIOUS
<1> DEFINE n == list[m].number
           P(i) == list[i].number = n /\ \A j \in (i + 1)..Len(list) : list[j].number # n
<1>1. P(m)
  OBVIOUS
<1>2. LastFor(list, n) = list[CHOOSE i \in 1..Len(list) : P(i)]
  BY <1>0, Zenon DEF LastFor
<1>3. PICK i \in 1..Len(list) : P(i) /\ LastFor(list, n) = list[i]
  <2> HIDE DEF P
  <2> QED BY <1>1, <1>2
<1>4. i = m
  <2>1. ~(i < m)
    <3>1. i < m => m \in (i + 1)..Len(list)
      BY <1>0
    <3> QED BY <1>3, <3>1
  <2>2. ~(m < i)
    <3>1. m < i => i \in (m + 1)..Len(list)
      BY <1>0
    <3> QED BY <1>1, <1>3, <3>1
  <2> QED BY <1>0, <2>1, <2>2
<1> QED BY <1>3, <1>4

\* The numbers named, and the entries kept for them.
LEMMA UniqueIs ==
    ASSUME NEW list \in Seq(CompletePart), NEW u, Unique(u, list, Len(list))
    PROVE  /\ Len(u) \in Nat /\ DOMAIN u = 1..Len(u)
           /\ \A i \in 1..Len(u) : /\ u[i] \in CompletePart /\ u[i].number \in Nat
                                   /\ u[i].number \in Named(list)
                                   /\ LastFor(list, u[i].number) = u[i]
           /\ \A n \in Named(list) : \E i \in 1..Len(u) : u[i].number = n
           /\ list # <<>> <=> Len(u) # 0
<1>0. Len(list) \in Nat /\ DOMAIN list = 1..Len(list)
  OBVIOUS
<1>1. u \in Seq(CompletePart) /\ Covers(u, list, Len(list)) /\ HasLast(u, list, Len(list))
  BY DEF Unique
<1>2. Len(u) \in Nat /\ DOMAIN u = 1..Len(u) /\ \A i \in 1..Len(u) : u[i] \in CompletePart
  BY <1>1
<1>3. \A i \in 1..Len(u) : u[i].number \in Nat
  BY <1>2, CompletedPartsAssumption DEF CompletePart
<1>4. ASSUME NEW i \in 1..Len(u) PROVE u[i].number \in Named(list) /\ LastFor(list, u[i].number) = u[i]
  <2>1. PICK m \in 1..Len(list) :
          list[m] = u[i] /\ \A l \in (m + 1)..Len(list) : list[l].number # u[i].number
    BY <1>1 DEF HasLast
  <2> QED BY <1>0, <2>1, LastForIs DEF Named
<1>5. \A n \in Named(list) : \E i \in 1..Len(u) : u[i].number = n
  BY <1>0, <1>1 DEF Named, Covers
<1>6. list # <<>> <=> Len(u) # 0
  <2>1. list # <<>> <=> Len(list) # 0
    OBVIOUS
  <2>2. ASSUME Len(list) # 0 PROVE Len(u) # 0
    <3>1. 1 \in 1..Len(list)
      BY <1>0, <2>2
    <3> QED BY <1>1, <1>2, <3>1 DEF Covers
  <2>3. ASSUME Len(u) # 0 PROVE Len(list) # 0
    <3>1. 1 \in 1..Len(u)
      BY <1>2, <2>3
    <3> QED BY <1>0, <1>1, <3>1 DEF HasLast
  <2> QED BY <2>1, <2>2, <2>3
<1> QED BY <1>2, <1>3, <1>4, <1>5, <1>6

\* Numbers kept earlier are named earlier.
LEMMA FirstNamed ==
    ASSUME NEW list \in Seq(CompletePart), NEW u, Unique(u, list, Len(list)),
           NEW i \in 1..Len(u), NEW j \in 1..Len(u), i < j
    PROVE  FirstAt(list, u[i].number) < FirstAt(list, u[j].number)
<1>0. Len(list) \in Nat
  OBVIOUS
<1>1. PICK m \in 1..Len(list) : /\ list[m].number = u[i].number
                                /\ \A l \in 1..m : list[l].number # u[j].number
  BY DEF Unique, ByFirst
<1>2. u[i].number \in Named(list) /\ u[j].number \in Named(list)
  BY UniqueIs
<1>3. PICK a \in 1..Len(list) : /\ a = FirstAt(list, u[i].number)
                                /\ \A l \in 1..(a - 1) : list[l].number # u[i].number
  <2>1. PICK n \in Named(list) : n = u[i].number
    BY <1>2
  <2>2. /\ FirstAt(list, n) \in 1..Len(list)
        /\ \A l \in 1..(FirstAt(list, n) - 1) : list[l].number # n
    BY FirstAtIs
  <2> QED BY <2>1, <2>2
<1>4. PICK b \in 1..Len(list) : b = FirstAt(list, u[j].number) /\ list[b].number = u[j].number
  <2>1. PICK n \in Named(list) : n = u[j].number
    BY <1>2
  <2>2. FirstAt(list, n) \in 1..Len(list) /\ list[FirstAt(list, n)].number = n
    BY FirstAtIs
  <2> QED BY <2>1, <2>2
<1>5. a <= m
  <2>1. ~(a <= m) => m \in 1..(a - 1)
    BY <1>0
  <2> QED BY <1>1, <1>3, <2>1
<1>6. m < b
  <2>1. ~(m < b) => b \in 1..m
    BY <1>0
  <2> QED BY <1>1, <1>4, <2>1
<1> QED BY <1>0, <1>3, <1>4, <1>5, <1>6

\* Neighbours are in order.
Ascending(u) == \A i \in 2..Len(u) : u[i - 1].number < u[i].number

\* Neighbours in order are enough for all to be.
LEMMA AscendingAll ==
    ASSUME NEW u, Len(u) \in Nat, \A i \in 1..Len(u) : u[i].number \in Nat, Ascending(u)
    PROVE  \A i, j \in 1..Len(u) : i < j => u[i].number < u[j].number
<1> SUFFICES ASSUME NEW i \in 1..Len(u) PROVE \A j \in 1..Len(u) : i < j => u[i].number < u[j].number
  OBVIOUS
<1> DEFINE T == {j \in Nat : j <= Len(u) /\ i < j /\ ~(u[i].number < u[j].number)}
<1>1. ASSUME T # {} PROVE FALSE
  <2>1. PICK j \in Nat : j \in T /\ \A m \in T : j <= m
    BY <1>1, Smallest
  <2>2. j <= Len(u) /\ i < j /\ ~(u[i].number < u[j].number)
    BY <2>1
  <2>3. j \in 2..Len(u) /\ j - 1 \in Nat /\ j - 1 \in 1..Len(u) /\ j \in 1..Len(u)
    BY <2>2
  <2>4. u[j - 1].number < u[j].number
    BY <2>3 DEF Ascending
  <2>5. CASE i = j - 1
    BY <2>2, <2>4, <2>5
  <2>6. CASE i < j - 1
    <3>1. j - 1 \notin T
      <4> HIDE DEF T
      <4> QED BY <2>1, <2>3
    <3>2. u[i].number < u[j - 1].number
      BY <2>3, <2>6, <3>1
    <3> QED BY <2>2, <2>3, <2>4, <3>2
  <2> QED BY <2>2, <2>3, <2>5, <2>6
<1> QED BY <1>1

\* The loop's test of the order is the order of the list.
LEMMA OrderIs ==
    ASSUME NEW list \in Seq(CompletePart), NEW u, Unique(u, list, Len(list))
    PROVE  /\ InOrder(list) <=> ~\E i \in 2..Len(u) : u[i].number < u[i - 1].number
           /\ InOrder(list) => Ascending(u)
<1>0. /\ Len(u) \in Nat
      /\ \A i \in 1..Len(u) : u[i].number \in Nat /\ u[i].number \in Named(list)
      /\ \A n \in Named(list) : \E i \in 1..Len(u) : u[i].number = n
      /\ OncePer(u)
  BY UniqueIs DEF Unique
<1>a. \A i \in 2..Len(u) : i \in 1..Len(u) /\ i - 1 \in 1..Len(u) /\ i - 1 < i /\ i # i - 1
  BY <1>0
<1>b. \A n \in Named(list) : FirstAt(list, n) \in Nat
  BY FirstAtIs
<1>1. ASSUME InOrder(list), NEW i \in 2..Len(u), u[i].number < u[i - 1].number PROVE FALSE
  <2>1. FirstAt(list, u[i].number) < FirstAt(list, u[i - 1].number)
    BY <1>0, <1>a, <1>1 DEF InOrder
  <2>2. FirstAt(list, u[i - 1].number) < FirstAt(list, u[i].number)
    BY <1>a, FirstNamed
  <2>3. FirstAt(list, u[i].number) \in Nat /\ FirstAt(list, u[i - 1].number) \in Nat
    BY <1>0, <1>a, <1>b
  <2> QED BY <2>1, <2>2, <2>3
<1>2. ASSUME ~\E i \in 2..Len(u) : u[i].number < u[i - 1].number PROVE Ascending(u)
  <2> SUFFICES ASSUME NEW i \in 2..Len(u) PROVE u[i - 1].number < u[i].number
    BY DEF Ascending
  <2>1. u[i].number # u[i - 1].number
    BY <1>0, <1>a DEF OncePer
  <2>2. ~(u[i].number < u[i - 1].number)
    BY <1>2
  <2> QED BY <1>0, <1>a, <2>1, <2>2
<1>3. ASSUME Ascending(u) PROVE InOrder(list)
  <2> SUFFICES ASSUME NEW m \in Named(list), NEW n \in Named(list), m < n
               PROVE  FirstAt(list, m) < FirstAt(list, n)
    BY DEF InOrder
  <2>1. PICK i \in 1..Len(u) : u[i].number = m
    BY <1>0
  <2>2. PICK j \in 1..Len(u) : u[j].number = n
    BY <1>0
  <2>3. \A x, y \in 1..Len(u) : x < y => u[x].number < u[y].number
    BY <1>0, <1>3, AscendingAll
  <2>4. i < j
    <3>1. m \in Nat /\ n \in Nat
      BY <1>0, <2>1, <2>2
    <3>2. i # j /\ ~(j < i)
      BY <2>1, <2>2, <2>3, <3>1
    <3> QED BY <1>0, <3>2
  <2> QED BY <2>1, <2>2, <2>4, FirstNamed
<1> QED BY <1>1, <1>2, <1>3

\* The rows of an upload's parts.
StoredParts == [PartNumbers -> {NotStored} \cup [etag : PartETags, size : Nat]]

\* The checks against the stored parts, entry by entry, are those of the list.
LEMMA MatchIs ==
    ASSUME NEW list \in Seq(CompletePart), NEW u, Unique(u, list, Len(list)), Ascending(u),
           NEW stored \in StoredParts
    PROVE  /\ (\A i \in 1..Len(u) : PartError(u, stored, i) = "none")
                <=> AllStored(list, stored) /\ AllLarge(list, stored)
           /\ \A i \in 1..Len(u) : PartError(u, stored, i) = "errUnknownPart" => ~AllStored(list, stored)
           /\ \A i \in 1..Len(u) : PartError(u, stored, i) = "errPartTooSmall" => ~AllLarge(list, stored)
<1>0. /\ Len(u) \in Nat
      /\ \A i \in 1..Len(u) : /\ u[i].number \in Nat /\ u[i].number \in Named(list)
                              /\ LastFor(list, u[i].number) = u[i] /\ u[i].number \in PartNumbers
      /\ \A n \in Named(list) : \E i \in 1..Len(u) : u[i].number = n
  <2>1. \A i \in 1..Len(u) : u[i] \in CompletePart
    BY UniqueIs
  <2>2. \A i \in 1..Len(u) : u[i].number \in PartNumbers
    BY <2>1 DEF CompletePart
  <2> QED BY <2>2, UniqueIs
<1>1. \A x, y \in 1..Len(u) : x < y => u[x].number < u[y].number
  BY <1>0, AscendingAll
<1>2. \A n \in PartNumbers : stored[n] # NotStored => stored[n].size \in Nat
  BY DEF StoredParts
<1>3. MinPartSize \in Nat
  BY CompletedPartsAssumption
<1>4. ASSUME NEW i \in 1..Len(u), PartError(u, stored, i) = "errUnknownPart"
      PROVE  ~AllStored(list, stored)
  <2>1. stored[u[i].number] = NotStored \/ stored[u[i].number].etag # u[i].etag
    BY <1>4 DEF PartError
  <2> QED BY <1>0, <2>1 DEF AllStored
<1>5. ASSUME NEW i \in 1..Len(u), PartError(u, stored, i) = "errPartTooSmall"
      PROVE  ~AllLarge(list, stored)
  <2>1. stored[u[i].number] # NotStored /\ i < Len(u) /\ stored[u[i].number].size < MinPartSize
    BY <1>5 DEF PartError
  <2>2. i + 1 \in 1..Len(u) /\ i < i + 1
    BY <1>0, <2>1
  <2>3. u[i].number < u[i + 1].number
    BY <1>1, <2>2
  <2>4. ~(stored[u[i].number].size >= MinPartSize)
    BY <1>0, <1>2, <1>3, <2>1
  <2> QED BY <1>0, <2>1, <2>2, <2>3, <2>4 DEF AllLarge
<1>6. \A i \in 1..Len(u) : PartError(u, stored, i) \in {"none", "errUnknownPart", "errPartTooSmall"}
  BY DEF PartError
<1>7. ASSUME \A i \in 1..Len(u) : PartError(u, stored, i) = "none"
      PROVE  AllStored(list, stored) /\ AllLarge(list, stored)
  <2>1. \A i \in 1..Len(u) : /\ stored[u[i].number] # NotStored
                             /\ stored[u[i].number].etag = u[i].etag
                             /\ i < Len(u) => ~(stored[u[i].number].size < MinPartSize)
    BY <1>7 DEF PartError
  <2>2. AllStored(list, stored)
    <3> SUFFICES ASSUME NEW n \in Named(list)
                 PROVE  stored[n] # NotStored /\ stored[n].etag = LastFor(list, n).etag
      BY DEF AllStored
    <3>1. PICK i \in 1..Len(u) : u[i].number = n
      BY <1>0
    <3> QED BY <1>0, <2>1, <3>1
  <2>3. AllLarge(list, stored)
    <3> SUFFICES ASSUME NEW m \in Named(list), NEW n \in Named(list), m < n, stored[m] # NotStored
                 PROVE  stored[m].size >= MinPartSize
      BY DEF AllLarge
    <3>1. PICK i \in 1..Len(u) : u[i].number = m
      BY <1>0
    <3>2. PICK j \in 1..Len(u) : u[j].number = n
      BY <1>0
    <3>3. m \in Nat /\ n \in Nat /\ m \in PartNumbers
      BY <1>0, <3>1, <3>2
    <3>4. i # Len(u)
      <4>1. ~(j < i) /\ j # i
        BY <1>1, <3>1, <3>2, <3>3
      <4> QED BY <1>0, <4>1
    <3>5. i < Len(u)
      BY <1>0, <3>4
    <3> QED BY <1>2, <1>3, <2>1, <3>1, <3>3, <3>5
  <2> QED BY <2>2, <2>3
<1>8. ASSUME AllStored(list, stored), AllLarge(list, stored), NEW i \in 1..Len(u)
      PROVE  PartError(u, stored, i) = "none"
  BY <1>4, <1>5, <1>6, <1>8
<1> QED BY <1>4, <1>5, <1>7, <1>8

\* For every list and every state of the parts: a completion is accepted
\* exactly if its list names stored parts in order, large enough but for the
\* last, and the object is made of the parts named last.
THEOREM CompletionExact ==
    ASSUME NEW list \in Seq(CompletePart), NEW stored \in StoredParts
    PROVE  CompletesExactly(list, stored)
<1>1. PICK u : /\ Unique(u, list, Len(list))
               /\ NormalizeCompletedParts(list) =
                       CASE list = <<>> -> Refused("errNoCompletedParts")
                         [] \E i \in 2..Len(u) : u[i].number < u[i - 1].number
                                        -> Refused("errPartOrder")
                         [] OTHER       -> Accepted(u)
  BY NormalizeIs
<1>2. /\ Len(u) \in Nat /\ DOMAIN u = 1..Len(u)
      /\ \A i \in 1..Len(u) : u[i].number \in Named(list) /\ LastFor(list, u[i].number) = u[i]
      /\ \A n \in Named(list) : \E i \in 1..Len(u) : u[i].number = n
      /\ list # <<>> <=> Len(u) # 0
  BY <1>1, UniqueIs
<1>3. /\ InOrder(list) <=> ~\E i \in 2..Len(u) : u[i].number < u[i - 1].number
      /\ InOrder(list) => Ascending(u)
  BY <1>1, OrderIs
<1> DEFINE answer == Completion(list, stored)
<1>4. CASE list = <<>>
  <2>1. ~\E i \in 2..Len(u) : u[i].number < u[i - 1].number
    BY <1>2, <1>4
  <2>2. NormalizeCompletedParts(list) = Refused("errNoCompletedParts")
    BY <1>1, <1>4, <2>1
  <2>3. answer.ok = FALSE /\ answer.reason = "errNoCompletedParts"
    BY <2>2 DEF Completion, Refused
  <2> HIDE DEF answer
  <2> QED BY <1>4, <2>3 DEF CompletesExactly, answer
<1>5. CASE list # <<>> /\ ~InOrder(list)
  <2>1. NormalizeCompletedParts(list) = Refused("errPartOrder")
    BY <1>1, <1>3, <1>5
  <2>2. answer.ok = FALSE /\ answer.reason = "errPartOrder"
    BY <2>1 DEF Completion, Refused
  <2> HIDE DEF answer
  <2> QED BY <1>5, <2>2 DEF CompletesExactly, answer
<1>6. CASE list # <<>> /\ InOrder(list)
  <2>1. NormalizeCompletedParts(list) = Accepted(u)
    BY <1>1, <1>3, <1>6
  <2>2. answer = MatchStoredParts(u, stored)
    BY <2>1 DEF Completion, Accepted
  <2> HIDE DEF answer
  <2>3. /\ (\A i \in 1..Len(u) : PartError(u, stored, i) = "none")
                <=> AllStored(list, stored) /\ AllLarge(list, stored)
        /\ \A i \in 1..Len(u) : PartError(u, stored, i) = "errUnknownPart" => ~AllStored(list, stored)
        /\ \A i \in 1..Len(u) : PartError(u, stored, i) = "errPartTooSmall" => ~AllLarge(list, stored)
    BY <1>1, <1>3, <1>6, MatchIs
  <2> DEFINE wrong == {i \in 1..Len(u) : PartError(u, stored, i) # "none"}
             first == CHOOSE i \in wrong : \A j \in wrong : i <= j
  <2>4. answer = IF wrong = {} THEN Accepted(u) ELSE Refused(PartError(u, stored, first))
    BY <1>2, <2>2 DEF MatchStoredParts
  <2>5. CASE wrong = {}
    <3>1. answer.ok = TRUE /\ answer.reason = "none" /\ answer.parts = u
      BY <2>4, <2>5 DEF Accepted
    <3>2. AllStored(list, stored) /\ AllLarge(list, stored)
      BY <2>3, <2>5
    <3>3. {u[i] : i \in DOMAIN u} = {LastFor(list, n) : n \in Named(list)}
      BY <1>2
    <3>4. \A i \in 2..Len(u) : u[i - 1].number < u[i].number
      BY <1>3, <1>6 DEF Ascending
    <3> QED BY <1>6, <3>1, <3>2, <3>3, <3>4 DEF CompletesExactly, answer
  <2>6. CASE wrong # {}
    <3>1. wrong \subseteq Nat
      BY <1>2
    <3>2. \E i \in wrong : \A j \in wrong : i <= j
      BY <2>6, <3>1, Smallest
    <3>3. first \in wrong
      BY <3>2
    <3>4. PICK f \in 1..Len(u) : f = first /\ PartError(u, stored, f) # "none"
      BY <3>3
    <3>5. answer = Refused(PartError(u, stored, f))
      BY <2>4, <2>6, <3>4
    <3>6. answer.ok = FALSE /\ answer.reason = PartError(u, stored, f)
      <4>1. PICK e : e = PartError(u, stored, f)
        OBVIOUS
      <4>2. answer = Refused(e)
        BY <3>5, <4>1
      <4> HIDE DEF answer
      <4>3. answer.ok = FALSE /\ answer.reason = e
        BY <4>2 DEF Refused
      <4> QED BY <4>1, <4>3
    <3>7. PartError(u, stored, f) \in {"errUnknownPart", "errPartTooSmall"}
      BY <3>4, Zenon DEF PartError
    <3>8. ~(AllStored(list, stored) /\ AllLarge(list, stored))
      BY <2>3, <3>4
    <3> QED BY <2>3, <3>6, <3>7, <3>8 DEF CompletesExactly, answer
  <2> QED BY <2>5, <2>6
<1> QED BY <1>4, <1>5, <1>6

-----------------------------------------------------------------------------
(* Authentication                                                          *)

\* For every credential, clock, account row and outcome of the lookup: a
\* request is admitted exactly with current credentials of an active account,
\* the genuine owner of an inactive one gets 403 from either scheme, and a
\* failing lookup is 500 (auth/middleware.go, auth/sigv4.go, auth/bearer.go).
THEOREM AuthenticationExact ==
    ASSUME NEW c \in Credential, NEW row, row = None \/ row.active \in BOOLEAN, NEW now \in Int,
           NEW fails \in BOOLEAN
    PROVE  AuthenticatesExactly(c, row, now, fails)
<1> USE CredentialsAssumption
<1>1. /\ c.scheme \in Schemes /\ c.wellFormed \in BOOLEAN /\ c.genuine \in BOOLEAN
      /\ c.dated \in BOOLEAN /\ c.at \in Int /\ c.expires \in Int
  BY DEF Credential
<1>2. row # None => row.active \in BOOLEAN
  OBVIOUS
<1> DEFINE live == row # None /\ c.genuine /\ row.active
           known == row # None /\ ~row.active
           Checked(x) == /\ x = "ok" <=> ~fails /\ live
                         /\ x = "Internal" <=> fails
                         /\ x = "InactiveUser" => ~fails /\ known
                         /\ ~fails /\ known /\ c.genuine => x = "InactiveUser"
                         /\ x \in {"ok", "Internal", "InactiveUser", "InvalidCredentials"}
\* The two orders of the row's checks differ only in what a forger is told.
<1>3. Checked(CheckSecretFirst(c, row, fails)) /\ Checked(CheckActiveFirst(c, row, fails))
  BY <1>1, <1>2 DEF CheckSecretFirst, CheckActiveFirst
<1> DEFINE good == c.wellFormed /\ Fresh(c, now)
           Settled(x) == \/ good /\ Checked(x)
                         \/ ~good /\ x \in {"MalformedToken", "InvalidCredentials",
                                           "UnsupportedScheme", "MissingAuth"}
<1>4. Settled(ChainAuthenticate(c, row, now, fails))
  <2> DEFINE bearer == BearerAuthenticate(c, row, fails)
             sigv4 == SigV4Authenticate(c, row, now, fails)
  <2>1. CASE c.scheme = "bearer"
    <3>1. sigv4 = "NotApplicable"
      BY <2>1 DEF SigV4Authenticate
    <3>2. Settled(bearer) /\ bearer # "NotApplicable"
      BY <1>1, <1>3, <2>1 DEF BearerAuthenticate, Fresh
    <3>3. ChainAuthenticate(c, row, now, fails) = bearer
      <4> HIDE DEF bearer, sigv4
      <4> QED BY <3>1, <3>2 DEF ChainAuthenticate, bearer, sigv4
    <3> QED BY <3>2, <3>3
  <2>2. CASE c.scheme = "sigv4"
    <3>1. bearer = "NotApplicable"
      BY <2>2 DEF BearerAuthenticate
    <3>2. ValidTimestamp(c, now) <=> Fresh(c, now)
      BY <1>1, <2>2 DEF ValidTimestamp, Fresh
    <3>3. Settled(sigv4) /\ sigv4 # "NotApplicable"
      <4> HIDE DEF Checked
      <4>1. sigv4 = AuthenticateHeader(c, row, now, fails)
        BY <2>2 DEF SigV4Authenticate
      <4>2. CASE good
        BY <1>1, <1>3, <3>2, <4>1, <4>2 DEF AuthenticateHeader, Checked
      <4>3. CASE ~good
        BY <1>1, <3>2, <4>1, <4>3 DEF AuthenticateHeader
      <4> QED BY <4>2, <4>3
    <3>4. ChainAuthenticate(c, row, now, fails) = sigv4
      <4> HIDE DEF bearer, sigv4
      <4> QED BY <3>1, <3>3 DEF ChainAuthenticate, bearer, sigv4
    <3> QED BY <3>3, <3>4
  <2>3. CASE c.scheme = "presigned"
    <3>1. bearer = "NotApplicable"
      BY <2>3 DEF BearerAuthenticate
    <3>2. /\ ~c.dated => ~Fresh(c, now)
          /\ now > c.at + MaxAge => ~Fresh(c, now)
          /\ c.at > now + Skew => ~Fresh(c, now)
          /\ c.expires \notin 1..MaxAge => ~Fresh(c, now)
          /\ now > c.at + c.expires => ~Fresh(c, now)
          /\ /\ c.dated /\ ~(c.at > now + Skew) /\ c.expires \in 1..MaxAge
             /\ ~(now > c.at + c.expires)
             => Fresh(c, now)
      BY <1>1, <2>3 DEF Fresh
    <3>3. Settled(sigv4) /\ sigv4 # "NotApplicable"
      <4> HIDE DEF Checked
      <4>1. sigv4 = AuthenticateQuery(c, row, now, fails)
        BY <2>3 DEF SigV4Authenticate
      <4>2. CASE good
        <5>1. sigv4 = CheckActiveFirst(c, row, fails)
          BY <1>1, <3>2, <4>1, <4>2 DEF AuthenticateQuery
        <5> QED BY <1>3, <4>2, <5>1 DEF Checked
      <4>3. CASE ~good
        <5>1. sigv4 \in {"MalformedToken", "InvalidCredentials"}
          BY <1>1, <3>2, <4>1, <4>3 DEF AuthenticateQuery
        <5> QED BY <4>3, <5>1
      <4> QED BY <4>2, <4>3
    <3>4. ChainAuthenticate(c, row, now, fails) = sigv4
      <4> HIDE DEF bearer, sigv4
      <4> QED BY <3>1, <3>3 DEF ChainAuthenticate, bearer, sigv4
    <3> QED BY <3>3, <3>4
  <2>4. CASE c.scheme \in {"none", "other"}
    <3>1. bearer = "NotApplicable" /\ sigv4 = "NotApplicable" /\ ~Fresh(c, now)
      BY <2>4 DEF BearerAuthenticate, SigV4Authenticate, Fresh
    <3>2. ChainAuthenticate(c, row, now, fails) \in {"UnsupportedScheme", "MissingAuth"}
      <4> HIDE DEF bearer, sigv4
      <4> QED BY <3>1 DEF ChainAuthenticate, bearer, sigv4
    <3> QED BY <3>1, <3>2
  <2> QED BY <1>1, <2>1, <2>2, <2>3, <2>4 DEF Schemes
<1> DEFINE x == ChainAuthenticate(c, row, now, fails)
           status == AuthStatus(x)
<1>5. /\ status = 200 <=> x = "ok"
      /\ status = 403 <=> x = "InactiveUser"
      /\ status = 500 <=> x = "Internal"
  BY DEF AuthStatus
<1>6. AuthenticatesExactly(c, row, now, fails) <=>
        /\ status = 500 <=> good /\ fails
        /\ status = 200 <=> good /\ ~fails /\ row # None /\ c.genuine /\ row.active
        /\ (good /\ ~fails /\ row # None /\ c.genuine /\ ~row.active) => status = 403
        /\ status = 403 => row # None /\ ~row.active
  BY DEF AuthenticatesExactly
<1> HIDE DEF x, status, good
<1> QED BY <1>4, <1>5, <1>6 DEF x

-----------------------------------------------------------------------------
(* The components side by side                                             *)

\* A step of one component leaves the others alone, so each of them sees its
\* own steps and stuttering.
LEMMA StepsApart ==
    ASSUME [Next]_vars
    PROVE  /\ [LockNext]_lockVars
           /\ [SendNext]_sendVars
           /\ [MigrateNext]_migrateVars
           /\ [ListNext]_listVars
           /\ UNCHANGED functionVars
<1>1. CASE Locking
  BY <1>1 DEF Locking, FunctionsRest, lockVars, sendVars, migrateVars, listVars, functionVars
<1>2. CASE Sending
  BY <1>2 DEF Sending, FunctionsRest, lockVars, sendVars, migrateVars, listVars, functionVars
<1>3. CASE Migrating
  BY <1>3 DEF Migrating, FunctionsRest, lockVars, sendVars, migrateVars, listVars, functionVars
<1>4. CASE Paging
  BY <1>4 DEF Paging, FunctionsRest, lockVars, sendVars, migrateVars, listVars, functionVars
<1>5. CASE UNCHANGED vars
  BY <1>5 DEF vars, lockVars, sendVars, migrateVars, listVars, functionVars
<1> QED BY <1>1, <1>2, <1>3, <1>4, <1>5 DEF Next

\* Each component starts in one of its initial states.
LEMMA InitsApart ==
    ASSUME Init
    PROVE  LockInit /\ SendInit /\ MigrateInit /\ ListInit
BY DEF Init, LocksRest, MigrateRest, ListRest

\* The composition implements each of its components.
THEOREM Composes == Spec => LockSpec /\ SendSpec /\ MigrateSpec /\ ListSpec
BY InitsApart, StepsApart, PTL DEF Spec, LockSpec, SendSpec, MigrateSpec, ListSpec

\* The variables of the upload locks, the connections, the migrations and
\* the listings have their types.
THEOREM ComponentsTypes == Spec => []TypeOK
<1>1. LockInv /\ SendInv /\ MigrateInv => LockTypeOK /\ SendTypeOK /\ MigrateTypeOK
  BY DEF LockInv, SendInv, MigrateInv
<1>2. ASSUME ListInv PROVE ListTypeOK
  <2>1. after \in Seq(Nat)
    BY <1>2, RowIs
  <2>2. \A i \in DOMAIN listed : listed[i] \in Seq(Nat)
    BY <1>2 DEF ListInv
  <2> QED BY <1>2, <2>1, <2>2 DEF ListInv, ListTypeOK, QueryOK
<1> QED BY <1>1, <1>2, Composes, LockInvariance, SendInvariance, MigrateInvariance, ListInvariance,
           PTL DEF TypeOK

\* The chain of authenticators is exact in every state.
THEOREM AttemptsAreExact == Spec => []AuthenticationIsExact
<1> DEFINE Inv == attempt \in Attempts \cup {AnAttempt}
<1>1. Init => Inv
  BY DEF Init
<1>2. Inv /\ [Next]_vars => Inv'
  BY StepsApart DEF functionVars
<1>3. Inv => AuthenticationIsExact
  <2> SUFFICES ASSUME Inv PROVE AuthenticationIsExact
    OBVIOUS
  <2>1. MaxAge \in Nat /\ u1 \in Users
    BY CredentialsAssumption, ComponentsAssumption
  <2>2. /\ attempt.credential \in Credential
        /\ attempt.row = None \/ attempt.row.active \in BOOLEAN
        /\ attempt.now \in Int
        /\ attempt.fails \in BOOLEAN
    <3>1. CASE attempt = AnAttempt
      BY <2>1, <3>1 DEF AnAttempt, Credential, Schemes
    <3>2. CASE attempt \in Attempts
      BY <2>1, <3>2 DEF Attempts, Credential
    <3> QED BY <3>1, <3>2
  <2> QED BY <2>2, AuthenticationExact DEF AuthenticationIsExact
<1> QED BY <1>1, <1>2, <1>3, PTL DEF Spec

\* What a completion makes of its list is exact in every state.
THEOREM CompletionsAreExact == Spec => []CompletionIsExact
<1> DEFINE Inv == completion \in Completions \cup {ACompletion}
<1>1. Init => Inv
  BY DEF Init
<1>2. Inv /\ [Next]_vars => Inv'
  BY StepsApart DEF functionVars
<1>3. Inv => CompletionIsExact
  <2> SUFFICES ASSUME Inv PROVE CompletionIsExact
    OBVIOUS
  <2>1. MinPartSize \in Nat /\ MinPartSize - 1 \in Nat
    BY CompletedPartsAssumption, ComponentsAssumption
  <2>2. completion.list \in Seq(CompletePart) /\ completion.stored \in StoredParts
    <3>1. CASE completion = ACompletion
      BY <3>1 DEF ACompletion, StoredParts
    <3>2. CASE completion \in Completions
      <4>1. PICK n \in 0..3 : completion.list \in [1..n -> CompletePart]
        BY <3>2 DEF Completions
      <4>2. completion.list \in Seq(CompletePart)
        BY <4>1
      <4>3. completion.stored \in
              [PartNumbers -> {NotStored} \cup [etag : PartETags, size : {MinPartSize - 1, MinPartSize}]]
        BY <3>2 DEF Completions
      <4>4. completion.stored \in StoredParts
        BY <2>1, <4>3 DEF StoredParts
      <4> QED BY <4>2, <4>4
    <3> QED BY <3>1, <3>2
  <2> QED BY <2>2, CompletionExact DEF CompletionIsExact
<1> QED BY <1>1, <1>2, <1>3, PTL DEF Spec

=============================================================================
