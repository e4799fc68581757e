---------------------------- MODULE TopkMasksProofs ----------------------------
(***************************************************************************)
(* Facts about the operators of TopkMasks.  First what masked_select and   *)
(* the masked scatter do to a flattened tensor.  Then what the masks do to *)
(* one row: the kernel leaves as many slots as there are misses, and a row *)
(* whose slots take its misses holds the new tokens.  Last what the        *)
(* scatter does to a batch of such rows: none gets a token of another.     *)
(***************************************************************************)
EXTENDS TopkMasks, FunctionTheorems, FiniteSetTheorems, TLAPS

-----------------------------------------------------------------------------
(* Counting.                                                               *)

\* A one-to-one correspondence preserves the number of elements.
LEMMA SameCount ==
    ASSUME NEW S, NEW T, IsFiniteSet(S), NEW f \in [S -> T],
           \A a, b \in S : f[a] = f[b] => a = b,
           \A t \in T : \E s \in S : f[s] = t
    PROVE  IsFiniteSet(T) /\ Cardinality(T) = Cardinality(S)
<1>1. f \in Bijection(S, T)
    BY Fun_IsBij
<1> QED
    BY <1>1, Fun_ExistsBij, FS_Bijection

\* A row has finitely many columns, TopK of them.
LEMMA SlotFinite ==
    /\ IsFiniteSet(Slot)
    /\ Cardinality(Slot) = TopK
    /\ \A S \in SUBSET Slot : IsFiniteSet(S) /\ Cardinality(S) \in Nat
<1>1. IsFiniteSet(Slot) /\ Cardinality(Slot) = TopK
    BY TopKAssumption, FS_Interval DEF Slot
<1> QED
    BY <1>1, FS_Subset, FS_CardinalityType

-----------------------------------------------------------------------------
(* The order in which a flattened mask is walked.                          *)

\* A mask over the first n rows.
IsMask(mask, n) == mask \in [0 .. n - 1 -> SUBSET Slot]

\* A mask has finitely many true cells.
LEMMA CellsFinite ==
    ASSUME NEW n \in Nat, NEW mask, IsMask(mask, n)
    PROVE  /\ IsFiniteSet(Cells(mask))
           /\ Cardinality(Cells(mask)) \in Nat
           /\ \A p \in Cells(mask) : /\ p = <<p[1], p[2]>>
                                     /\ p[1] \in 0 .. n - 1
                                     /\ p[2] \in mask[p[1]] /\ p[2] \in Slot
<1>1. DOMAIN mask = 0 .. n - 1
    BY DEF IsMask
<1>2. IsFiniteSet((0 .. n - 1) \X Slot)
  <2>1. IsFiniteSet(0 .. n - 1)
      BY FS_Interval
  <2> QED
      BY <2>1, SlotFinite, FS_Product
<1>3. Cells(mask) \in SUBSET ((0 .. n - 1) \X Slot)
    BY <1>1 DEF Cells
<1>4. IsFiniteSet(Cells(mask))
    BY <1>2, <1>3, FS_Subset
<1> QED
    BY <1>1, <1>4, FS_CardinalityType DEF Cells

\* NotAfter is a total order on cells.
LEMMA CellOrder ==
    ASSUME NEW p \in Nat \X Nat, NEW q \in Nat \X Nat
    PROVE  /\ NotAfter(p, p)
           /\ NotAfter(p, q) \/ NotAfter(q, p)
           /\ NotAfter(p, q) /\ NotAfter(q, p) => p = q
           /\ \A x \in Nat \X Nat : NotAfter(x, p) /\ NotAfter(p, q) => NotAfter(x, q)
<1>1. /\ p = <<p[1], p[2]>> /\ p[1] \in Nat /\ p[2] \in Nat
      /\ q = <<q[1], q[2]>> /\ q[1] \in Nat /\ q[2] \in Nat
    OBVIOUS
<1>2. ASSUME NEW x \in Nat \X Nat, NotAfter(x, p), NotAfter(p, q)
      PROVE  NotAfter(x, q)
    BY <1>1, <1>2 DEF NotAfter
<1>3. NotAfter(p, q) /\ NotAfter(q, p) => p[1] = q[1] /\ p[2] = q[2]
    BY <1>1 DEF NotAfter
<1> QED
    BY <1>1, <1>2, <1>3 DEF NotAfter

\* Cells are pairs of naturals.
LEMMA CellsArePairs ==
    ASSUME NEW n \in Nat, NEW mask, IsMask(mask, n)
    PROVE  Cells(mask) \subseteq Nat \X Nat
<1>1. \A p \in Cells(mask) : p = <<p[1], p[2]>> /\ p[1] \in Nat /\ p[2] \in Nat
    BY CellsFinite DEF Slot
<1> QED
    BY <1>1

\* A later cell has a larger rank.
LEMMA RankGrows ==
    ASSUME NEW n \in Nat, NEW mask, IsMask(mask, n),
           NEW p \in Cells(mask), NEW q \in Cells(mask)
    PROVE  /\ Rank(mask, p) \in 1 .. Cardinality(Cells(mask))
           /\ NotAfter(p, q) => Rank(mask, p) <= Rank(mask, q)
           /\ Rank(mask, p) = Rank(mask, q) => p = q
<1> DEFINE Upto(x) == {y \in Cells(mask) : NotAfter(y, x)}
<1>1. Cells(mask) \subseteq Nat \X Nat
    BY CellsArePairs
<1>2. \A x : /\ IsFiniteSet(Upto(x)) /\ Cardinality(Upto(x)) \in Nat
             /\ Cardinality(Upto(x)) <= Cardinality(Cells(mask))
             /\ Rank(mask, x) = Cardinality(Upto(x))
    BY CellsFinite, FS_Subset, FS_CardinalityType DEF Rank
<1>3. p \in Upto(p)
    BY <1>1, CellOrder
<1>4. Cardinality(Upto(p)) # 0
    BY <1>2, <1>3, FS_EmptySet
<1>5. ASSUME NEW x \in Cells(mask), NEW y \in Cells(mask), NotAfter(x, y)
      PROVE  /\ Cardinality(Upto(x)) <= Cardinality(Upto(y))
             /\ Cardinality(Upto(x)) = Cardinality(Upto(y)) => x = y
  <2>1. Upto(x) \in SUBSET Upto(y)
      BY <1>1, <1>5, CellOrder
  <2>2. /\ Cardinality(Upto(x)) <= Cardinality(Upto(y))
        /\ Cardinality(Upto(x)) = Cardinality(Upto(y)) => Upto(x) = Upto(y)
      BY <1>2, <2>1, FS_Subset
  <2>3. y \in Upto(y)
      BY <1>1, CellOrder
  <2>4. Upto(x) = Upto(y) => NotAfter(y, x)
      BY <2>3
  <2> QED
      BY <1>1, <1>5, <2>2, <2>4, CellOrder
<1>6. NotAfter(p, q) \/ NotAfter(q, p)
    BY <1>1, CellOrder
<1> HIDE DEF Upto
<1> QED
    BY <1>2, <1>4, <1>5, <1>6, CellsFinite

\* The ranks of the true cells are 1 .. N, each taken once.
LEMMA RankReached ==
    ASSUME NEW n \in Nat, NEW mask, IsMask(mask, n),
           NEW k \in 1 .. Cardinality(Cells(mask))
    PROVE  \E p \in Cells(mask) : Rank(mask, p) = k
<1> DEFINE N == Cardinality(Cells(mask))
           f == [p \in Cells(mask) |-> Rank(mask, p)]
<1>1. f \in [Cells(mask) -> 1 .. N]
    BY RankGrows
<1>2. \A p, q \in Cells(mask) : f[p] = f[q] => p = q
    BY RankGrows
<1>3. f \in Injection(Cells(mask), 1 .. N)
    BY <1>1, <1>2, Fun_IsInj
<1>4. N \in Nat /\ IsFiniteSet(1 .. N) /\ Cardinality(1 .. N) = N
    BY CellsFinite, FS_Interval
<1>5. f \in Surjection(Cells(mask), 1 .. N)
    BY <1>3, <1>4, FS_Injection
<1>6. \A t \in 1 .. N : \E p \in Cells(mask) : f[p] = t
    BY <1>5 DEF Surjection
<1> QED
    BY <1>6

\* A tensor over the first n rows, with elements of S.
IsTensor(x, n, S) == x \in [0 .. n - 1 -> [Slot -> S]]

\* masked_select returns as many elements as the mask has true cells: element
\* k is the one at the true cell of rank k.
LEMMA MaskedSelectIs ==
    ASSUME NEW n \in Nat, NEW mask, IsMask(mask, n),
           NEW S, NEW x, IsTensor(x, n, S)
    PROVE  /\ MaskedSelect(x, mask) \in [1 .. Cardinality(Cells(mask)) -> S]
           /\ \A p \in Cells(mask) : MaskedSelect(x, mask)[Rank(mask, p)] = x[p[1]][p[2]]
<1> DEFINE N    == Cardinality(Cells(mask))
           c(k) == CHOOSE p \in Cells(mask) : Rank(mask, p) = k
<1>1. ASSUME NEW k \in 1 .. N
      PROVE  c(k) \in Cells(mask) /\ Rank(mask, c(k)) = k
  <2>1. \E p \in Cells(mask) : Rank(mask, p) = k
      BY RankReached
  <2> QED
      BY <2>1
<1>2. \A p \in Cells(mask) : x[p[1]][p[2]] \in S
    BY CellsFinite DEF IsTensor
<1>3. MaskedSelect(x, mask) = [k \in 1 .. N |-> x[c(k)[1]][c(k)[2]]]
    BY DEF MaskedSelect
<1>4. \A p \in Cells(mask) : Rank(mask, p) \in 1 .. N /\ c(Rank(mask, p)) = p
  <2>1. TAKE p \in Cells(mask)
  <2>2. Rank(mask, p) \in 1 .. N
      BY RankGrows
  <2>3. c(Rank(mask, p)) \in Cells(mask) /\ Rank(mask, c(Rank(mask, p))) = Rank(mask, p)
      BY <1>1, <2>2
  <2> QED
      BY <2>2, <2>3, RankGrows
<1> HIDE DEF c, N
<1>5. \A k \in 1 .. N : x[c(k)[1]][c(k)[2]] \in S
    BY <1>1, <1>2
<1> QED
    BY <1>3, <1>4, <1>5 DEF N

\* The masked scatter keeps the shape, whatever the masks and the source.
LEMMA MaskedScatterType ==
    ASSUME NEW n \in Nat, NEW mask, NEW S, NEW self, IsTensor(self, n, S),
           NEW N \in Nat, NEW source \in [1 .. N -> S], NEW junk \in S
    PROVE  IsTensor(MaskedScatter(self, mask, source, junk), n, S)
<1>1. DOMAIN self = 0 .. n - 1 /\ \A r \in 0 .. n - 1, i \in Slot : self[r][i] \in S
    BY DEF IsTensor
<1> QED
    BY <1>1 DEF IsTensor, MaskedScatter

-----------------------------------------------------------------------------
(* Counting the columns of a row from the left.                            *)

\* How many columns of S stand at or before column i.
RowRank(S, i) == Cardinality({j \in S : j <= i})

\* A column further right has a larger rank.
LEMMA RowRankGrows ==
    ASSUME NEW S \in SUBSET Slot, NEW i \in S, NEW j \in S
    PROVE  /\ RowRank(S, i) \in 1 .. Cardinality(S)
           /\ RowRank(S, i) = RowRank(S, j) => i = j
<1> DEFINE Upto(x) == {y \in S : y <= x}
<1>1. S \subseteq Int /\ IsFiniteSet(S) /\ Cardinality(S) \in Nat
    BY SlotFinite DEF Slot
<1>2. \A x : /\ IsFiniteSet(Upto(x)) /\ Cardinality(Upto(x)) \in Nat
             /\ Cardinality(Upto(x)) <= Cardinality(S)
             /\ RowRank(S, x) = Cardinality(Upto(x))
    BY <1>1, FS_Subset, FS_CardinalityType DEF RowRank
<1>3. i \in Upto(i)
    BY <1>1
<1>4. Cardinality(Upto(i)) # 0
    BY <1>2, <1>3, FS_EmptySet
<1>5. ASSUME NEW x \in S, NEW y \in S, x < y
      PROVE  Cardinality(Upto(x)) # Cardinality(Upto(y))
  <2>0. x \in Int /\ y \in Int /\ \A z \in S : z \in Int
      BY <1>1
  <2>1. Upto(x) \in SUBSET Upto(y)
    <3>1. \A z \in S : z <= x => z <= y
        BY <1>5, <2>0
    <3> QED
        BY <3>1
  <2>2. y \in Upto(y) /\ y \notin Upto(x)
      BY <1>1, <1>5
  <2> QED
      BY <1>2, <2>1, <2>2, FS_Subset
<1>6. i < j \/ j < i \/ i = j
    BY <1>1
<1> HIDE DEF Upto
<1>7. RowRank(S, i) \in 1 .. Cardinality(S)
    BY <1>1, <1>2, <1>4
<1>8. RowRank(S, i) = RowRank(S, j) => i = j
    BY <1>2, <1>5, <1>6
<1> QED
    BY <1>7, <1>8

\* The ranks of the columns of S are 1 .. |S|, each taken once.
LEMMA RowRankReached ==
    ASSUME NEW S \in SUBSET Slot, NEW k \in 1 .. Cardinality(S)
    PROVE  \E i \in S : RowRank(S, i) = k
<1> DEFINE N == Cardinality(S)
           f == [i \in S |-> RowRank(S, i)]
<1>1. f \in [S -> 1 .. N] /\ \A i, j \in S : f[i] = f[j] => i = j
    BY RowRankGrows
<1>2. f \in Injection(S, 1 .. N)
    BY <1>1, Fun_IsInj
<1>3. N \in Nat /\ IsFiniteSet(S)
    BY SlotFinite
<1>4. IsFiniteSet(1 .. N) /\ Cardinality(1 .. N) = N
    BY <1>3, FS_Interval
<1>5. f \in Surjection(S, 1 .. N)
    BY <1>2, <1>3, <1>4, FS_Injection
<1>6. \A t \in 1 .. N : \E i \in S : f[i] = t
    BY <1>5 DEF Surjection
<1> QED
    BY <1>6

\* The kernel's running sum is the rank among the empty columns.
LEMMA CumsumIsRank ==
    ASSUME NEW row, NEW i \in Slot
    PROVE  EmptyCumsum(row, i) = RowRank(EmptyCols(row), i)
<1>1. {j \in 0 .. i : row[j] = Empty} = {j \in EmptyCols(row) : j <= i}
    BY TopKAssumption DEF EmptyCols, Slot
<1> QED
    BY <1>1 DEF EmptyCumsum, RowRank

\* The kernel's loop selects as many empty slots as are missing, if the row
\* has that many, and none if none is.
LEMMA SelectEmptyCount ==
    ASSUME NEW row, NEW s \in 0 .. Cardinality(EmptyCols(row))
    PROVE  Cardinality(SelectEmpty(row, s)) = s
<1> DEFINE E == EmptyCols(row)
           f == [i \in SelectEmpty(row, s) |-> RowRank(E, i)]
<1>1. E \in SUBSET Slot /\ IsFiniteSet(E) /\ Cardinality(E) \in Nat
  <2>1. E \in SUBSET Slot
      BY DEF EmptyCols
  <2> QED
      BY <2>1, SlotFinite
<1>2. SelectEmpty(row, s) = {i \in E : RowRank(E, i) <= s}
    BY <1>1, CumsumIsRank DEF SelectEmpty
<1>3. IsFiniteSet(SelectEmpty(row, s))
    BY <1>1, <1>2, FS_Subset
<1>4. /\ f \in [SelectEmpty(row, s) -> 1 .. s]
      /\ \A i, j \in SelectEmpty(row, s) : f[i] = f[j] => i = j
  <2>1. \A i \in E : RowRank(E, i) \in 1 .. Cardinality(E)
      BY <1>1, RowRankGrows
  <2>2. \A i, j \in E : RowRank(E, i) = RowRank(E, j) => i = j
      BY <1>1, RowRankGrows
  <2> HIDE DEF E
  <2> QED
      BY <1>1, <1>2, <2>1, <2>2
<1>5. ASSUME NEW k \in 1 .. s
      PROVE  \E i \in SelectEmpty(row, s) : f[i] = k
  <2>1. k \in 1 .. Cardinality(E) /\ k <= s
      BY <1>1
  <2>2. PICK i \in E : RowRank(E, i) = k
      BY <1>1, <2>1, RowRankReached
  <2> QED
      BY <1>2, <2>1, <2>2
<1>6. Cardinality(1 .. s) = Cardinality(SelectEmpty(row, s))
  <2> HIDE DEF f
  <2> QED
      BY <1>3, <1>4, <1>5, SameCount
<1> QED
    BY <1>6, FS_Interval

-----------------------------------------------------------------------------
(* Slots and misses balance.                                               *)

\* The elements of two disjoint sets are counted apart.
LEMMA DisjointCount ==
    ASSUME NEW S, NEW T, IsFiniteSet(S), IsFiniteSet(T), S \cap T = {}
    PROVE  Cardinality(S \cup T) = Cardinality(S) + Cardinality(T)
<1>1. Cardinality(S \cup T) = Cardinality(S) + Cardinality(T) - Cardinality(S \cap T)
    BY FS_Union
<1>2. Cardinality(S \cap T) = 0 /\ Cardinality(S) \in Nat /\ Cardinality(T) \in Nat
    BY FS_EmptySet, FS_CardinalityType
<1> QED
    BY <1>1, <1>2

\* The columns of a whose token is in b too.
Matched(a, b) == {i \in Slot : a[i] # Empty /\ \E j \in Slot : a[i] = b[j]}

\* Two rows have as many hits, seen from either side.
LEMMA MatchedCount ==
    ASSUME NEW a, NEW b, Distinct(a), Distinct(b)
    PROVE  Cardinality(Matched(a, b)) = Cardinality(Matched(b, a))
<1> DEFINE c(i) == CHOOSE j \in Slot : a[i] = b[j]
           f    == [i \in Matched(a, b) |-> c(i)]
<1>1. ASSUME NEW i \in Matched(a, b)
      PROVE  c(i) \in Matched(b, a) /\ a[i] = b[c(i)]
  <2>1. c(i) \in Slot /\ a[i] = b[c(i)]
      BY DEF Matched
  <2> QED
      BY <2>1 DEF Matched
<1>2. \A i, j \in Matched(a, b) : f[i] = f[j] => i = j
    BY <1>1 DEF Matched, Distinct
<1>3. ASSUME NEW j \in Matched(b, a)
      PROVE  \E i \in Matched(a, b) : f[i] = j
  <2>1. PICK i \in Slot : b[j] = a[i]
      BY DEF Matched
  <2>2. i \in Matched(a, b)
      BY <2>1 DEF Matched
  <2>3. c(i) \in Slot /\ b[c(i)] = b[j] /\ b[j] # Empty /\ j \in Slot
      BY <1>1, <2>1, <2>2 DEF Matched
  <2>4. c(i) = j
      BY <2>3 DEF Distinct
  <2> QED
      BY <2>2, <2>4
<1>4. f \in [Matched(a, b) -> Matched(b, a)]
    BY <1>1
<1>5. IsFiniteSet(Matched(a, b))
    BY SlotFinite DEF Matched
<1> HIDE DEF f
<1> QED
    BY <1>2, <1>3, <1>4, <1>5, SameCount

\* How many columns are different: those that hold a token the other row does
\* not, and the empty ones when the other row has none.
LEMMA DiffCount ==
    ASSUME NEW a, NEW b
    PROVE  Cardinality(DiffCols(a, b)) =
              TopK - Cardinality(Matched(a, b))
                   - IF EmptyCols(b) = {} THEN 0 ELSE Cardinality(EmptyCols(a))
<1> DEFINE E == IF EmptyCols(b) = {} THEN {} ELSE EmptyCols(a)
           M == Matched(a, b)
<1>1. DiffCols(a, b) = Slot \ (M \cup E)
    BY DEF DiffCols, Matched, EmptyCols
<1>2. M \in SUBSET Slot /\ E \in SUBSET Slot /\ M \cap E = {}
    BY DEF Matched, EmptyCols
<1>3. /\ IsFiniteSet(M) /\ Cardinality(M) \in Nat
      /\ IsFiniteSet(E) /\ Cardinality(E) \in Nat
    BY <1>2, SlotFinite
<1>4. Cardinality(M \cup E) = Cardinality(M) + Cardinality(E)
    BY <1>2, <1>3, DisjointCount
<1>5. Cardinality(E) = IF EmptyCols(b) = {} THEN 0 ELSE Cardinality(EmptyCols(a))
    BY FS_EmptySet
<1> HIDE DEF M, E
<1>6. Slot \cap (M \cup E) = M \cup E
    BY <1>2
<1>7. Cardinality(Slot \ (M \cup E)) = TopK - Cardinality(M \cup E)
  <2>1. Cardinality(Slot \ (M \cup E)) = Cardinality(Slot) - Cardinality(Slot \cap (M \cup E))
      BY SlotFinite, FS_Difference
  <2> QED
      BY <1>6, <2>1, SlotFinite
<1> QED
    BY <1>1, <1>3, <1>4, <1>5, <1>7, TopKAssumption DEF M

\* For rows without repetition and under PadOK, the kernel leaves exactly as
\* many slots to fill as there are tokens to load.
LEMMA KernelRowBalances ==
    ASSUME NEW new, NEW old, Distinct(new), Distinct(old), PadOK(new, old)
    PROVE  Cardinality(KernelRow(DiffCols(new, old), DiffCols(old, new), old)) =
              Cardinality(DiffCols(new, old))
<1> DEFINE m == Cardinality(DiffCols(new, old))
           a == Cardinality(DiffCols(old, new))
           N == Cardinality(EmptyCols(new))
           O == Cardinality(EmptyCols(old))
           h == Cardinality(Matched(new, old))
           X == SelectEmpty(old, m - a)
<1>1. /\ N \in Nat /\ O \in Nat /\ h \in Nat /\ m \in Nat /\ a \in Nat
      /\ IsFiniteSet(DiffCols(old, new))
      /\ N = 0 <=> EmptyCols(new) = {}
      /\ O = 0 <=> EmptyCols(old) = {}
  <2>1. /\ EmptyCols(new) \in SUBSET Slot /\ EmptyCols(old) \in SUBSET Slot
        /\ DiffCols(new, old) \in SUBSET Slot /\ DiffCols(old, new) \in SUBSET Slot
        /\ Matched(new, old) \in SUBSET Slot
      BY DEF EmptyCols, DiffCols, Matched
  <2> QED
      BY <2>1, SlotFinite, FS_EmptySet
<1>2. /\ m = TopK - h - (IF O = 0 THEN 0 ELSE N)
      /\ a = TopK - h - (IF N = 0 THEN 0 ELSE O)
    BY <1>1, DiffCount, MatchedCount
<1>3. IF N = 0 \/ O = 0 THEN m - a = 0 ELSE m - a = O - N /\ N <= O
  <2>1. N <= O \/ O = 0
      BY <1>1 DEF PadOK
  <2> HIDE DEF m, a, N, O, h
  <2> QED
      BY <1>1, <1>2, <2>1, TopKAssumption
<1>4. m - a \in 0 .. O
  <2> HIDE DEF m, a, N, O, h
  <2> QED
      BY <1>1, <1>3
<1>5. Cardinality(X) = m - a
    BY <1>4, SelectEmptyCount
<1>6. X \in SUBSET EmptyCols(old) /\ IsFiniteSet(X)
  <2>1. X \in SUBSET EmptyCols(old) /\ X \in SUBSET Slot
      BY DEF SelectEmpty, EmptyCols
  <2> QED
      BY <2>1, SlotFinite
<1>7. DiffCols(old, new) \cap X = {}
  <2>1. CASE N = 0 \/ O = 0
    <3>1. Cardinality(X) = 0
        BY <1>3, <1>5, <2>1
    <3> QED
        BY <1>6, <3>1, FS_EmptySet
  <2>2. CASE N # 0
    <3>1. PICK j \in Slot : new[j] = Empty
        BY <1>1, <2>2 DEF EmptyCols
    <3> QED
        BY <1>6, <3>1 DEF DiffCols, EmptyCols
  <2> QED
      BY <2>1, <2>2
<1>8. Cardinality(DiffCols(old, new) \cup X) = a + Cardinality(X)
    BY <1>1, <1>6, <1>7, DisjointCount
<1> HIDE DEF X, m, a
<1> QED
    BY <1>1, <1>5, <1>8 DEF KernelRow, X, m, a

-----------------------------------------------------------------------------
(* A row that is served.                                                   *)

\* Row old after its slots have taken the misses of new: slot i of the mask
\* `slots` takes column f[i] of new.
Filled(old, new, slots, f) ==
    [i \in Slot |-> IF i \in slots THEN new[f[i]] ELSE old[i]]

\* f gives every slot to fill a miss of its own and leaves out no miss.
Assigns(f, slots, misses) ==
    /\ f \in [slots -> misses]
    /\ \A i, j \in slots : f[i] = f[j] => i = j
    /\ \A j \in misses : \E i \in slots : f[i] = j

\* Whatever the assignment, the row then holds the new tokens and no other,
\* none of them twice, and a token that was there already has not moved.
LEMMA RowServed ==
    ASSUME NEW new, NEW old, Distinct(new), Distinct(old),
           NEW slots, slots = KernelRow(DiffCols(new, old), DiffCols(old, new), old),
           NEW f, Assigns(f, slots, DiffCols(new, old))
    PROVE  /\ Held(Filled(old, new, slots, f)) = Held(new)
           /\ Distinct(Filled(old, new, slots, f))
           /\ \A i \in Slot : old[i] \in Held(new) => i \notin slots
<1> DEFINE row == Filled(old, new, slots, f)
<1>1. \A i \in Slot :
         /\ i \notin slots => \E j \in Slot : old[i] = new[j]
         /\ old[i] \in Held(new) => i \notin slots
  <2>1. SelectEmpty(old, Cardinality(DiffCols(new, old)) - Cardinality(DiffCols(old, new)))
           \subseteq EmptyCols(old)
      BY DEF SelectEmpty
  <2>2. DiffCols(old, new) \subseteq slots /\ slots \subseteq DiffCols(old, new) \cup EmptyCols(old)
      BY <2>1 DEF KernelRow
  <2> QED
      BY <2>2 DEF DiffCols, EmptyCols, Held
<1>2. \A i \in slots : f[i] \in Slot /\ \A j \in Slot : new[f[i]] # old[j]
    BY DEF Assigns, DiffCols
<1>3. \A i \in Slot : row[i] = IF i \in slots THEN new[f[i]] ELSE old[i]
    BY DEF Filled
<1>4. Held(row) \subseteq Held(new)
    BY <1>1, <1>2, <1>3 DEF Held
<1>5. ASSUME NEW j \in Slot, new[j] # Empty
      PROVE  \E i \in Slot : row[i] = new[j]
  <2>1. CASE j \in DiffCols(new, old)
    <3>1. PICK i \in slots : f[i] = j
        BY <2>1 DEF Assigns
    <3>2. i \in Slot
        BY DEF KernelRow, DiffCols, SelectEmpty, EmptyCols
    <3> QED
        BY <1>3, <3>1, <3>2
  <2>2. CASE j \notin DiffCols(new, old)
    <3>1. PICK i \in Slot : new[j] = old[i]
        BY <2>2 DEF DiffCols
    <3>2. i \notin slots
        BY <1>1, <1>5, <3>1 DEF Held
    <3> QED
        BY <1>3, <3>1, <3>2
  <2> QED
      BY <2>1, <2>2
<1>6. Held(new) \subseteq Held(row)
    BY <1>5 DEF Held
<1>7. Distinct(row)
  <2>1. SUFFICES ASSUME NEW i \in Slot, NEW j \in Slot, row[i] = row[j], row[i] # Empty
                 PROVE  i = j
      BY DEF Distinct
  <2>2. CASE i \in slots /\ j \in slots
      BY <1>2, <1>3, <2>1, <2>2 DEF Distinct, Assigns
  <2>3. CASE i \notin slots /\ j \notin slots
      BY <1>3, <2>1, <2>3 DEF Distinct
  <2>4. CASE i \in slots /\ j \notin slots
      BY <1>2, <1>3, <2>1, <2>4
  <2>5. CASE i \notin slots /\ j \in slots
      BY <1>2, <1>3, <2>1, <2>5
  <2> QED
      BY <2>2, <2>3, <2>4, <2>5
<1> QED
    BY <1>1, <1>4, <1>6, <1>7

-----------------------------------------------------------------------------
(* masked_select and the masked scatter over a batch.                      *)

\* The true cells of the mask in the rows before row r.
Before(mask, r) == {p \in Cells(mask) : p[1] < r}

\* The rank of a cell is the number of cells in the rows before its own and
\* its rank in its own row.
LEMMA RankIsSum ==
    ASSUME NEW n \in Nat, NEW mask, IsMask(mask, n),
           NEW r \in 0 .. n - 1, NEW i \in Slot
    PROVE  /\ Rank(mask, <<r, i>>) = Cardinality(Before(mask, r)) + RowRank(mask[r], i)
           /\ Cardinality(Before(mask, r)) \in Nat
           /\ RowRank(mask[r], i) \in Nat
<1> DEFINE p == <<r, i>>
           H == {q \in Cells(mask) : q[1] = r /\ q[2] <= i}
           J == {j \in mask[r] : j <= i}
           f == [j \in J |-> <<r, j>>]
<1>1. /\ IsFiniteSet(Cells(mask))
      /\ \A q \in Cells(mask) : /\ q = <<q[1], q[2]>> /\ q[1] \in 0 .. n - 1
                                /\ q[2] \in mask[q[1]] /\ q[2] \in Slot
    BY CellsFinite
<1>2. {q \in Cells(mask) : NotAfter(q, p)} = Before(mask, r) \cup H
    BY DEF NotAfter, Before
<1>3. /\ IsFiniteSet(Before(mask, r)) /\ Cardinality(Before(mask, r)) \in Nat
      /\ IsFiniteSet(H) /\ Cardinality(H) \in Nat
    BY <1>1, FS_Subset, FS_CardinalityType DEF Before
<1>4. Before(mask, r) \cap H = {}
    BY <1>1 DEF Before
<1>5. mask[r] \in SUBSET Slot /\ DOMAIN mask = 0 .. n - 1
    BY DEF IsMask
<1>6. IsFiniteSet(J) /\ Cardinality(J) \in Nat
    BY <1>5, SlotFinite
<1>7. f \in [J -> H]
  <2>1. \A j \in J : <<r, j>> \in Cells(mask)
      BY <1>5 DEF Cells
  <2> QED
      BY <2>1
<1>8. \A a, b \in J : f[a] = f[b] => a = b
    OBVIOUS
<1>9. \A q \in H : \E j \in J : f[j] = q
    BY <1>1
<1>10. Cardinality(H) = Cardinality(J)
  <2> HIDE DEF f, H, J
  <2> QED
      BY <1>6, <1>7, <1>8, <1>9, SameCount
<1> HIDE DEF H
<1> QED
    BY <1>2, <1>3, <1>4, <1>6, <1>10, DisjointCount DEF Rank, RowRank

\* Two masks with equal counts in every row have equal counts before any row.
LEMMA SameBefore ==
    ASSUME NEW n \in Nat, NEW A, IsMask(A, n), NEW M, IsMask(M, n),
           \A r \in 0 .. n - 1 : Cardinality(A[r]) = Cardinality(M[r]),
           NEW r \in 0 .. n - 1
    PROVE  Cardinality(Before(A, r)) = Cardinality(Before(M, r))
<1> DEFINE g(q) == CHOOSE f \in Bijection(A[q], M[q]) : TRUE
           h    == [p \in Before(A, r) |-> <<p[1], g(p[1])[p[2]]>>]
<1>1. ASSUME NEW q \in 0 .. n - 1
      PROVE  /\ g(q) \in [A[q] -> M[q]]
             /\ \A i, j \in A[q] : g(q)[i] = g(q)[j] => i = j
             /\ \A j \in M[q] : \E i \in A[q] : g(q)[i] = j
  <2>1. A[q] \in SUBSET Slot /\ M[q] \in SUBSET Slot
      BY DEF IsMask
  <2>2. ExistsBijection(A[q], M[q])
      BY <2>1, SlotFinite, FS_SameCardinalityBij
  <2>3. g(q) \in Bijection(A[q], M[q])
      BY <2>2, Fun_ExistsBij
  <2> QED
      BY <2>3 DEF Bijection, Injection, Surjection, IsInjective
<1>2. /\ DOMAIN A = 0 .. n - 1 /\ DOMAIN M = 0 .. n - 1
      /\ \A q \in 0 .. n - 1 : M[q] \subseteq Slot /\ A[q] \subseteq Slot
    BY DEF IsMask
<1>3. \A p \in Before(A, r) : /\ p = <<p[1], p[2]>> /\ p[1] \in 0 .. n - 1
                              /\ p[2] \in A[p[1]] /\ p[1] < r
    BY CellsFinite DEF Before
<1>4. \A p \in Before(M, r) : /\ p = <<p[1], p[2]>> /\ p[1] \in 0 .. n - 1
                              /\ p[2] \in M[p[1]] /\ p[1] < r
    BY CellsFinite DEF Before
<1> HIDE DEF g
<1>5. h \in [Before(A, r) -> Before(M, r)]
  <2>1. ASSUME NEW p \in Before(A, r) PROVE <<p[1], g(p[1])[p[2]]>> \in Before(M, r)
    <3>1. g(p[1])[p[2]] \in M[p[1]]
        BY <1>1, <1>3
    <3> QED
        BY <1>2, <1>3, <3>1 DEF Before, Cells
  <2> QED
      BY <2>1
<1>6. ASSUME NEW p \in Before(A, r), NEW q \in Before(A, r), h[p] = h[q]
      PROVE  p = q
  <2>1. p[1] = q[1] /\ g(p[1])[p[2]] = g(q[1])[q[2]]
      BY <1>6
  <2> QED
      BY <1>1, <1>3, <2>1
<1>7. ASSUME NEW q \in Before(M, r)
      PROVE  \E p \in Before(A, r) : h[p] = q
  <2>1. PICK i \in A[q[1]] : g(q[1])[i] = q[2]
      BY <1>1, <1>4
  <2>2. <<q[1], i>> \in Before(A, r)
      BY <1>2, <1>4, <2>1 DEF Before, Cells
  <2> QED
      BY <1>4, <2>1, <2>2
<1>8. IsFiniteSet(Before(A, r))
    BY CellsFinite, FS_Subset DEF Before
<1> HIDE DEF h
<1> QED
    BY <1>5, <1>6, <1>7, <1>8, SameCount

\* The miss that slot i takes: the one of the same rank in the row.
Partner(slots, misses) ==
    [i \in slots |-> CHOOSE j \in misses : RowRank(misses, j) = RowRank(slots, i)]

\* Every slot of a balanced row has a partner of its own, and every miss one.
LEMMA PartnerAssigns ==
    ASSUME NEW slots \in SUBSET Slot, NEW misses \in SUBSET Slot,
           Cardinality(slots) = Cardinality(misses)
    PROVE  /\ Assigns(Partner(slots, misses), slots, misses)
           /\ \A i \in slots : RowRank(misses, Partner(slots, misses)[i]) = RowRank(slots, i)
<1> DEFINE f == Partner(slots, misses)
<1>1. ASSUME NEW i \in slots
      PROVE  f[i] \in misses /\ RowRank(misses, f[i]) = RowRank(slots, i)
  <2>1. RowRank(slots, i) \in 1 .. Cardinality(misses)
      BY RowRankGrows
  <2>2. \E j \in misses : RowRank(misses, j) = RowRank(slots, i)
      BY <2>1, RowRankReached
  <2> QED
      BY <2>2 DEF Partner
<1>2. \A i, j \in slots : f[i] = f[j] => i = j
    BY <1>1, RowRankGrows
<1>3. ASSUME NEW j \in misses
      PROVE  \E i \in slots : f[i] = j
  <2>1. RowRank(misses, j) \in 1 .. Cardinality(slots)
      BY RowRankGrows
  <2>2. PICK i \in slots : RowRank(slots, i) = RowRank(misses, j)
      BY <2>1, RowRankReached
  <2> QED
      BY <1>1, <2>2, RowRankGrows
<1>4. f \in [slots -> misses]
    BY <1>1 DEF Partner
<1> QED
    BY <1>1, <1>2, <1>3, <1>4 DEF Assigns

\* If every row has as many slots as misses, each slot of row r gets a miss of
\* row r, whatever the other rows hold and whatever lies beyond the load list.
LEMMA ScatterIsRowLocal ==
    ASSUME NEW n \in Nat, NEW A, IsMask(A, n), NEW M, IsMask(M, n),
           \A r \in 0 .. n - 1 : Cardinality(A[r]) = Cardinality(M[r]),
           NEW S, NEW x, IsTensor(x, n, S), NEW T, NEW self, IsTensor(self, n, T),
           NEW junk, NEW r \in 0 .. n - 1, NEW i \in Slot
    PROVE  MaskedScatter(self, A, MaskedSelect(x, M), junk)[r][i] =
              IF i \in A[r] THEN x[r][Partner(A[r], M[r])[i]] ELSE self[r][i]
<1> DEFINE src == MaskedSelect(x, M)
           k   == Rank(A, <<r, i>>)
<1>1. DOMAIN self = 0 .. n - 1
    BY DEF IsTensor
<1>2. MaskedScatter(self, A, src, junk)[r][i] =
         IF i \notin A[r] THEN self[r][i]
         ELSE IF k \in DOMAIN src THEN src[k] ELSE junk
    BY <1>1 DEF MaskedScatter
<1>3. ASSUME i \in A[r]
      PROVE  k \in DOMAIN src /\ src[k] = x[r][Partner(A[r], M[r])[i]]
  <2> DEFINE j == Partner(A[r], M[r])[i]
  <2>1. A[r] \in SUBSET Slot /\ M[r] \in SUBSET Slot /\ DOMAIN M = 0 .. n - 1
      BY DEF IsMask
  <2>2. j \in M[r] /\ RowRank(M[r], j) = RowRank(A[r], i)
      BY <1>3, <2>1, PartnerAssigns DEF Assigns
  <2> HIDE DEF j
  <2>3. j \in Slot /\ <<r, j>> \in Cells(M)
      BY <2>1, <2>2 DEF Cells
  <2>4. Rank(M, <<r, j>>) = k
      BY <2>2, <2>3, RankIsSum, SameBefore
  <2>5. src[Rank(M, <<r, j>>)] = x[r][j] /\ src \in [1 .. Cardinality(Cells(M)) -> S]
    <3>1. \A p \in Cells(M) : src[Rank(M, p)] = x[p[1]][p[2]]
        BY MaskedSelectIs
    <3> QED
        BY <2>3, <3>1, MaskedSelectIs
  <2>6. Rank(M, <<r, j>>) \in 1 .. Cardinality(Cells(M))
      BY <2>3, RankGrows
  <2> QED
      BY <2>4, <2>5, <2>6 DEF j
<1> HIDE DEF src, k
<1> QED
    BY <1>2, <1>3 DEF src, k
================================================================================
