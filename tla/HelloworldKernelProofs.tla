------------------------ MODULE HelloworldKernelProofs ------------------------
(***************************************************************************)
(* The helloworld operator, for every shape and every number of blocks,    *)
(* tiles and buffers: what its sums are worth at any time, and which of    *)
(* them are missing at the end.                                            *)
(***************************************************************************)
EXTENDS HelloworldKernel, FiniteSetTheorems, WellFoundedInduction, TLAPS

-----------------------------------------------------------------------------
(* Induction, as a fact about a set of numbers.                            *)

LEMMA SetInduction ==
    ASSUME NEW G, G \subseteq Nat, 0 \in G, \A n \in G : n + 1 \in G
    PROVE  G = Nat
<1> DEFINE T == Nat \ G
<1>1. SUFFICES ASSUME T # {} PROVE FALSE
    OBVIOUS
<1>2. PICK x \in T : \A y \in T : ~ (<<y, x>> \in OpToRel(<, Nat))
    BY <1>1, WFMin, NatLessThanWellFounded
<1>3. x \in Nat /\ x # 0 /\ x - 1 \in Nat /\ x - 1 < x
    OBVIOUS
<1>4. <<x - 1, x>> \in OpToRel(<, Nat)
    BY <1>3 DEF OpToRel
<1>5. x - 1 \in G
    BY <1>2, <1>3, <1>4
<1>6. (x - 1) + 1 \in G /\ (x - 1) + 1 = x
    BY <1>3, <1>5
<1> QED
    BY <1>6

-----------------------------------------------------------------------------
(* The element count: a fold over the shape.                               *)

Pick(s) == CHOOSE x \in s : TRUE

\* A fold over a finite set, one subset at a time: h[x][r] is the result after
\* x when r is the result before.
FoldStep(g, s, h) == IF s = {} THEN 1 ELSE h[Pick(s)][g[s \ {Pick(s)}]]

LEMMA PickFact ==
    ASSUME NEW S, IsFiniteSet(S), NEW s \in SUBSET S, s # {}
    PROVE  /\ Pick(s) \in s /\ Pick(s) \in S
           /\ s \ {Pick(s)} \in SUBSET S
           /\ Cardinality(s) \in Nat \ {0}
           /\ Cardinality(s \ {Pick(s)}) = Cardinality(s) - 1
<1>1. Pick(s) \in s
    BY DEF Pick
<1>2. IsFiniteSet(s)
    BY FS_Subset
<1>3. Cardinality(s) \in Nat /\ Cardinality(s) # 0
    BY <1>2, FS_CardinalityType, FS_EmptySet
<1> QED
    BY <1>1, <1>2, <1>3, FS_RemoveElement

\* There is a function that the fold defines: one for the subsets of each size
\* gives one for the next size.
LEMMA FoldExists ==
    ASSUME NEW S, IsFiniteSet(S), NEW h \in [S -> [Nat -> Nat]]
    PROVE  \E g \in [SUBSET S -> Nat] : \A s \in SUBSET S : g[s] = FoldStep(g, s, h)
<1> DEFINE Sub(n) == {s \in SUBSET S : Cardinality(s) <= n}
           G == {n \in Nat : \E g \in [Sub(n) -> Nat] :
                                \A s \in Sub(n) : g[s] = FoldStep(g, s, h)}
<1>1. \A s \in SUBSET S : IsFiniteSet(s) /\ Cardinality(s) \in Nat /\ Cardinality(s) <= Cardinality(S)
    BY FS_Subset, FS_CardinalityType
<1>2. 0 \in G
    <2> DEFINE g == [s \in Sub(0) |-> 1]
    <2>1. \A s \in Sub(0) : s = {}
        BY <1>1, FS_EmptySet
    <2>2. \A s \in Sub(0) : g[s] = FoldStep(g, s, h)
        BY <2>1 DEF FoldStep
    <2>3. g \in [Sub(0) -> Nat]
        OBVIOUS
    <2> QED
        BY <2>2, <2>3
<1>3. ASSUME NEW n \in G PROVE n + 1 \in G
    <2>1. PICK g \in [Sub(n) -> Nat] : \A s \in Sub(n) : g[s] = FoldStep(g, s, h)
        OBVIOUS
    <2> DEFINE k == [s \in Sub(n + 1) |-> FoldStep(g, s, h)]
    <2>2. ASSUME NEW s \in Sub(n + 1), s # {}
          PROVE  s \ {Pick(s)} \in Sub(n) /\ Pick(s) \in S /\ s \ {Pick(s)} \in Sub(n + 1)
        BY <2>2, PickFact
    <2>3. ASSUME NEW s \in Sub(n) PROVE s \in Sub(n + 1) /\ k[s] = g[s]
        BY <1>1, <2>1
    <2>4. ASSUME NEW s \in Sub(n + 1) PROVE k[s] \in Nat
        <3>1. k[s] = FoldStep(g, s, h)
            OBVIOUS
        <3>2. CASE s = {}
            BY <3>1, <3>2 DEF FoldStep
        <3>3. CASE s # {}
            <4>1. g[s \ {Pick(s)}] \in Nat /\ h[Pick(s)] \in [Nat -> Nat]
                BY <2>1, <2>2, <3>3
            <4>2. h[Pick(s)][g[s \ {Pick(s)}]] \in Nat
                BY <4>1
            <4> QED
                BY <3>1, <3>3, <4>2 DEF FoldStep
        <3> QED
            BY <3>2, <3>3
    <2>5. k \in [Sub(n + 1) -> Nat]
        BY <2>4
    <2>6. ASSUME NEW s \in Sub(n + 1) PROVE k[s] = FoldStep(k, s, h)
        <3>1. k[s] = FoldStep(g, s, h)
            OBVIOUS
        <3>2. s # {} => k[s \ {Pick(s)}] = g[s \ {Pick(s)}]
            BY <2>2, <2>3
        <3> HIDE DEF k
        <3> QED
            BY <3>1, <3>2 DEF FoldStep
    <2> HIDE DEF k
    <2>7. n + 1 \in Nat
        OBVIOUS
    <2>8. \E f \in [Sub(n + 1) -> Nat] : \A s \in Sub(n + 1) : f[s] = FoldStep(f, s, h)
        BY <2>5, <2>6
    <2> HIDE DEF Sub
    <2> QED
        BY <2>7, <2>8
<1> HIDE DEF G
<1>4. G = Nat
    <2>1. G \subseteq Nat
        BY DEF G
    <2> QED
        BY <1>2, <1>3, <2>1, SetInduction
<1>5. Cardinality(S) \in Nat /\ Sub(Cardinality(S)) = SUBSET S
    BY <1>1
<1> QED
    BY <1>4, <1>5 DEF G

Product(sh) == FoldFunction(LAMBDA a, b : a * b, 1, sh)

\* The two folds as functions on the subsets of the dimensions.
Products(sh) ==
    CHOOSE f : f = [s \in SUBSET DOMAIN sh |->
                      IF s = {} THEN 1 ELSE sh[Pick(s)] * f[s \ {Pick(s)}]]

Lengths(sh) ==
    CHOOSE f : f = [s \in SUBSET DOMAIN sh |->
                      IF s = {} THEN 1 ELSE (f[s \ {Pick(s)}] * (sh[Pick(s)] % Word)) % Word]

LEMMA FoldsAre ==
    ASSUME NEW sh
    PROVE  /\ Product(sh) = Products(sh)[DOMAIN sh]
           /\ TotalLength(sh) = Lengths(sh)[DOMAIN sh]
    BY DEF Product, Products, TotalLength, Lengths, Pick, FoldFunction, FoldFunctionOnSet,
           MapThenFoldSet

\* A remainder is the one number below the divisor that is left over.
LEMMA ModFact ==
    ASSUME NEW a \in Nat, NEW d \in Nat \ {0}
    PROVE  /\ a % d \in 0 .. d - 1 /\ a \div d \in Nat
           /\ a = d * (a \div d) + (a % d)
    OBVIOUS

LEMMA QuotientUnique ==
    ASSUME NEW d \in Nat \ {0}, NEW q \in Int, NEW r \in 0 .. d - 1,
           NEW k \in Int, NEW s \in 0 .. d - 1, d * q + r = d * k + s
    PROVE  q = k /\ r = s
<1>1. ASSUME NEW x \in Int, NEW y \in Int, x < y PROVE d * x + d <= d * y
    <2>1. d * (x + 1) <= d * y
        BY <1>1
    <2>2. d * (x + 1) = d * x + d
        OBVIOUS
    <2> QED
        BY <2>1, <2>2
<1> DEFINE A == d * q
           B == d * k
<1>2. A \in Int /\ B \in Int /\ A + r = B + s
    OBVIOUS
<1>3. (q < k => A + d <= B) /\ (k < q => B + d <= A)
    BY <1>1
<1>4. q = k => A = B
    OBVIOUS
<1> HIDE DEF A, B
<1> QED
    BY <1>2, <1>3, <1>4

LEMMA ModAdd ==
    ASSUME NEW d \in Nat \ {0}, NEW k \in Nat, NEW r \in Nat
    PROVE  (d * k + r) % d = r % d
<1> DEFINE q == r \div d
           m == r % d
           a == d * k + r
<1>1. q \in Nat /\ m \in 0 .. d - 1 /\ r = d * q + m
    BY ModFact
<1>2. a \in Nat
    OBVIOUS
<1>3. a \div d \in Nat /\ a % d \in 0 .. d - 1 /\ a = d * (a \div d) + (a % d)
    BY <1>2, ModFact
<1> HIDE DEF q, m
<1>4. a = d * (k + q) + m /\ k + q \in Nat
    <2>1. d * (k + q) = d * k + d * q
        BY <1>1
    <2>2. d * k \in Nat /\ d * q \in Nat
        BY <1>1
    <2> QED
        BY <1>1, <2>1, <2>2
<1> DEFINE v == a \div d
           w == a % d
           u == k + q
<1>5. /\ v \in Int /\ u \in Int /\ w \in 0 .. d - 1 /\ m \in 0 .. d - 1
      /\ d * v + w = d * u + m
    BY <1>1, <1>3, <1>4
<1> HIDE DEF v, w, u
<1>6. w = m
    BY <1>5, QuotientUnique
<1> QED
    BY <1>6 DEF w, m

LEMMA ModSmall ==
    ASSUME NEW d \in Nat \ {0}, NEW r \in 0 .. d - 1
    PROVE  r % d = r
<1> DEFINE v == r \div d
           w == r % d
<1>1. v \in Int /\ w \in 0 .. d - 1 /\ r = d * v + w /\ r = d * 0 + r
    BY ModFact
<1> HIDE DEF v, w
<1>2. d * v + w = d * 0 + r
    BY <1>1
<1>3. w = r
    BY <1>1, <1>2, QuotientUnique
<1> QED
    BY <1>3 DEF w

\* One dimension more: the uint32 product is no larger than the true one, and
\* differs from it by a multiple of the word.
LEMMA CountStep ==
    ASSUME NEW x \in Nat, NEW p \in Nat, NEW l \in Nat, l <= p, l % Word = p % Word
    PROVE  LET n == (l * (x % Word)) % Word
           IN  n \in Nat /\ n <= x * p /\ n % Word = (x * p) % Word
<1> DEFINE y == x % Word
           r == p % Word
           a == x \div Word
           b == l \div Word
           c == p \div Word
           m == l * y
           n == m % Word
<1>1. Word \in Nat \ {0}
    BY ParameterAssumption
<1>2. /\ y \in 0 .. Word - 1 /\ a \in Nat /\ x = Word * a + y
      /\ r \in 0 .. Word - 1 /\ c \in Nat /\ p = Word * c + r
      /\ b \in Nat /\ l = Word * b + r
    BY <1>1, ModFact
<1>3. y <= x
    <2>1. Word * a \in Nat
        BY <1>1, <1>2
    <2> QED
        BY <1>2, <2>1
<1> HIDE DEF y, r, a, b, c
<1>4. m \in Nat /\ m <= x * p
    <2>1. l * y <= p * y
        BY <1>2
    <2>2. p * y <= p * x
        BY <1>2, <1>3
    <2>3. l * y \in Nat /\ p * y \in Nat /\ p * x \in Nat /\ p * x = x * p
        BY <1>2
    <2> QED
        BY <2>1, <2>2, <2>3
<1>5. m = Word * (b * y) + r * y /\ b * y \in Nat /\ r * y \in Nat
    <2>1. b * y \in Nat /\ r * y \in Nat
        BY <1>2
    <2>2. (Word * b + r) * y = Word * (b * y) + r * y
        BY <1>1, <1>2
    <2> QED
        BY <1>2, <2>1, <2>2
<1>6. x * p = Word * (a * p + y * c) + r * y /\ a * p + y * c \in Nat
    <2>1. a * p \in Nat /\ y * c \in Nat
        BY <1>2
    <2>2. x * p = Word * a * p + y * p
        BY <1>1, <1>2
    <2>3. Word * a * p = Word * (a * p)
        BY <1>1, <1>2
    <2>4. y * p = Word * (y * c) + r * y
        BY <1>1, <1>2
    <2>5. Word * (a * p + y * c) = Word * (a * p) + Word * (y * c)
        BY <1>1, <2>1
    <2>6. Word * (a * p) \in Nat /\ Word * (y * c) \in Nat /\ r * y \in Nat /\ x * p \in Nat
        BY <1>1, <1>2, <2>1
    <2> DEFINE A == Word * (a * p)
               B == Word * (y * c)
               C == r * y
               D == x * p
    <2>7. D = A + y * p /\ y * p = B + C
        BY <2>2, <2>3, <2>4
    <2>8. D = A + (B + C)
        BY <2>7
    <2>9. A \in Nat /\ B \in Nat /\ C \in Nat /\ Word * (a * p + y * c) = A + B
        BY <2>5, <2>6
    <2> HIDE DEF A, B, C, D
    <2>10. D = Word * (a * p + y * c) + C
        BY <2>8, <2>9
    <2> QED
        BY <2>1, <2>10 DEF C, D
<1>7. m % Word = (r * y) % Word /\ (x * p) % Word = (r * y) % Word
    <2>1. Word \in Nat \ {0} /\ b * y \in Nat /\ r * y \in Nat /\ a * p + y * c \in Nat
        BY <1>1, <1>5, <1>6
    <2>2. (Word * (b * y) + r * y) % Word = (r * y) % Word
        BY <2>1, ModAdd
    <2>3. (Word * (a * p + y * c) + r * y) % Word = (r * y) % Word
        BY <2>1, ModAdd
    <2> QED
        BY <1>5, <1>6, <2>2, <2>3
<1>8. n \in Nat /\ n <= m /\ n % Word = n
    <2> HIDE DEF m
    <2>1. n \in 0 .. Word - 1 /\ m = Word * (m \div Word) + n /\ m \div Word \in Nat
        BY <1>1, <1>4, ModFact
    <2>2. Word * (m \div Word) \in Nat
        BY <1>1, <2>1
    <2>3. n % Word = n
        BY <1>1, <2>1, ModSmall
    <2>4. n <= m
        <3> DEFINE k == Word * (m \div Word)
        <3>1. k \in Nat /\ m = k + n
            BY <2>1, <2>2
        <3> HIDE DEF k
        <3> QED
            BY <2>1, <3>1
    <2> QED
        BY <2>1, <2>3, <2>4
<1>9. n <= x * p /\ n % Word = (x * p) % Word
    <2> DEFINE v == x * p
    <2>1. v \in Nat
        OBVIOUS
    <2>2. m <= v /\ m % Word = v % Word
        BY <1>4, <1>7
    <2> HIDE DEF v, m, n
    <2>3. n <= v /\ n % Word = v % Word
        BY <1>4, <1>8, <2>1, <2>2 DEF n
    <2> QED
        BY <2>3 DEF v
<1> QED
    BY <1>8, <1>9 DEF y

\* The two folds over any function to the natural numbers, dimension by
\* dimension.
LEMMA FoldsAgree ==
    ASSUME NEW S, IsFiniteSet(S), NEW sh \in [S -> Nat]
    PROVE  /\ Product(sh) \in Nat /\ TotalLength(sh) \in Nat
           /\ TotalLength(sh) <= Product(sh)
           /\ TotalLength(sh) % Word = Product(sh) % Word
<1> DEFINE P == Products(sh)
           L == Lengths(sh)
           hP == [x \in S |-> [r \in Nat |-> sh[x] * r]]
           hL == [x \in S |-> [r \in Nat |-> (r * (sh[x] % Word)) % Word]]
<1>1. DOMAIN sh = S /\ \A x \in S : sh[x] \in Nat
    OBVIOUS
<1>2. hP \in [S -> [Nat -> Nat]]
    BY <1>1
<1>3. hL \in [S -> [Nat -> Nat]]
    <2>1. ASSUME NEW n \in Nat, NEW r \in Nat PROVE (r * (n % Word)) % Word \in Nat
        <3>1. Word \in Nat \ {0}
            BY ParameterAssumption
        <3>2. n % Word \in Nat
            BY <3>1
        <3>3. r * (n % Word) \in Nat
            BY <3>2
        <3> QED
            BY <3>1, <3>3
    <2> QED
        BY <1>1, <2>1
<1>4. P = [s \in SUBSET S |-> IF s = {} THEN 1 ELSE sh[Pick(s)] * P[s \ {Pick(s)}]]
    <2>1. PICK g \in [SUBSET S -> Nat] : \A s \in SUBSET S : g[s] = FoldStep(g, s, hP)
        BY <1>2, FoldExists
    <2>2. ASSUME NEW s \in SUBSET S
          PROVE  g[s] = IF s = {} THEN 1 ELSE sh[Pick(s)] * g[s \ {Pick(s)}]
        <3>1. CASE s = {}
            BY <2>1, <3>1 DEF FoldStep
        <3>2. CASE s # {}
            <4>1. Pick(s) \in S /\ s \ {Pick(s)} \in SUBSET S
                BY <3>2, PickFact
            <4>2. g[s \ {Pick(s)}] \in Nat /\ g[s] = hP[Pick(s)][g[s \ {Pick(s)}]]
                BY <2>1, <3>2, <4>1 DEF FoldStep
            <4> QED
                BY <3>2, <4>1, <4>2
        <3> QED
            BY <3>1, <3>2
    <2>3. g = [s \in SUBSET S |-> IF s = {} THEN 1 ELSE sh[Pick(s)] * g[s \ {Pick(s)}]]
        BY <2>2
    <2> QED
        BY <1>1, <2>3 DEF Products
<1>5. L = [s \in SUBSET S |->
              IF s = {} THEN 1 ELSE (L[s \ {Pick(s)}] * (sh[Pick(s)] % Word)) % Word]
    <2>1. PICK g \in [SUBSET S -> Nat] : \A s \in SUBSET S : g[s] = FoldStep(g, s, hL)
        BY <1>3, FoldExists
    <2>2. ASSUME NEW s \in SUBSET S
          PROVE  g[s] = IF s = {} THEN 1
                        ELSE (g[s \ {Pick(s)}] * (sh[Pick(s)] % Word)) % Word
        <3>1. CASE s = {}
            BY <2>1, <3>1 DEF FoldStep
        <3>2. CASE s # {}
            <4>1. Pick(s) \in S /\ s \ {Pick(s)} \in SUBSET S
                BY <3>2, PickFact
            <4>2. g[s \ {Pick(s)}] \in Nat /\ g[s] = hL[Pick(s)][g[s \ {Pick(s)}]]
                BY <2>1, <3>2, <4>1 DEF FoldStep
            <4> QED
                BY <3>2, <4>1, <4>2
        <3> QED
            BY <3>1, <3>2
    <2>3. g = [s \in SUBSET S |->
                  IF s = {} THEN 1 ELSE (g[s \ {Pick(s)}] * (sh[Pick(s)] % Word)) % Word]
        BY <2>2
    <2> QED
        BY <1>1, <2>3 DEF Lengths
<1> HIDE DEF P, L, hP, hL
<1> DEFINE Right(s) == /\ P[s] \in Nat /\ L[s] \in Nat /\ L[s] <= P[s]
                       /\ L[s] % Word = P[s] % Word
           G == {n \in Nat : \A s \in SUBSET S : Cardinality(s) = n => Right(s)}
<1>6. 0 \in G
    <2>1. ASSUME NEW s \in SUBSET S, Cardinality(s) = 0 PROVE Right(s)
        <3>1. s = {}
            BY <2>1, FS_Subset, FS_EmptySet
        <3> QED
            BY <1>4, <1>5, <3>1
    <2> QED
        BY <2>1
<1>7. ASSUME NEW n \in Nat, n \in G PROVE n + 1 \in G
    <2>1. ASSUME NEW s \in SUBSET S, Cardinality(s) = n + 1 PROVE Right(s)
        <3>1. s # {}
            <4>1. n + 1 # 0
                OBVIOUS
            <4> QED
                BY <2>1, <4>1, FS_EmptySet
        <3>2. /\ Pick(s) \in S /\ s \ {Pick(s)} \in SUBSET S
              /\ Cardinality(s \ {Pick(s)}) = n
            BY <2>1, <3>1, PickFact
        <3>3. Right(s \ {Pick(s)})
            BY <1>7, <3>2
        <3> DEFINE x == sh[Pick(s)]
                   p == P[s \ {Pick(s)}]
                   l == L[s \ {Pick(s)}]
        <3>4. P[s] = x * p /\ L[s] = (l * (x % Word)) % Word
            BY <1>4, <1>5, <3>1
        <3>5. x \in Nat /\ p \in Nat /\ l \in Nat /\ l <= p /\ l % Word = p % Word
            BY <1>1, <3>2, <3>3
        <3> HIDE DEF x, p, l
        <3>6. LET y == (l * (x % Word)) % Word
              IN  y \in Nat /\ y <= x * p /\ y % Word = (x * p) % Word
            BY <3>5, CountStep
        <3>7. x * p \in Nat
            BY <3>5
        <3> QED
            BY <3>4, <3>6, <3>7
    <2>2. n + 1 \in Nat
        OBVIOUS
    <2> HIDE DEF Right
    <2> QED
        BY <2>1, <2>2
<1>8. G = Nat
    <2> HIDE DEF Right
    <2>1. G \subseteq Nat
        OBVIOUS
    <2> HIDE DEF G
    <2> QED
        BY <1>6, <1>7, <2>1, SetInduction
<1>9. Right(S)
    <2>1. Cardinality(S) \in G
        BY <1>8, FS_CardinalityType
    <2> HIDE DEF Right
    <2> QED
        BY <2>1
<1> QED
    BY <1>1, <1>9, FoldsAre DEF P, L

\* For every shape the count that the host hands to the kernel is the number of
\* elements, less what the wrapping product loses: a multiple of the word.
THEOREM CountFact ==
    ASSUME NEW sh \in Seq(Nat)
    PROVE  /\ Product(sh) \in Nat /\ TotalLength(sh) \in Nat
           /\ TotalLength(sh) <= Product(sh)
           /\ TotalLength(sh) % Word = Product(sh) % Word
<1>1. Len(sh) \in Nat /\ sh \in [1 .. Len(sh) -> Nat]
    OBVIOUS
<1>2. IsFiniteSet(1 .. Len(sh))
    BY <1>1, FS_Interval
<1> QED
    BY <1>1, <1>2, FoldsAgree

LEMMA ElementsAre ==
    ASSUME NEW sh \in Seq(Nat)
    PROVE  /\ Elements(sh) = 0 .. Product(sh) - 1
           /\ Elements(sh) \subseteq Nat
<1>1. Elements(sh) = 0 .. Product(sh) - 1
    BY DEF Elements, Product
<1>2. Product(sh) \in Nat
    BY CountFact
<1> QED
    BY <1>1, <1>2

-----------------------------------------------------------------------------
(* Shares and tiles.                                                       *)

\* Dividing once more: b shares of d * b instead of d.
LEMMA DivideAgain ==
    ASSUME NEW t \in Nat, NEW d \in Nat \ {0}, NEW b \in Nat \ {0}, NEW q \in Nat,
           d * q <= t, t < d * q + d
    PROVE  LET w == q \div b
           IN  /\ w \in Nat /\ b * w <= q
               /\ (d * b) * w <= t /\ t < (d * b) * w + d * b
<1> DEFINE w == q \div b
           m == q % b
<1>1. w \in Nat /\ m \in 0 .. b - 1 /\ q = b * w + m
    BY ModFact
<1> HIDE DEF w, m
<1>2. d * q = (d * b) * w + d * m
    BY <1>1
<1>3. d * m \in Nat /\ d * m + d <= d * b
    <2>1. d * (m + 1) <= d * b /\ d * (m + 1) = d * m + d
        BY <1>1
    <2> QED
        BY <1>1, <2>1
<1>4. (d * b) * w \in Nat /\ d * b \in Nat /\ b * w \in Nat
    BY <1>1
<1>5. b * w <= q
    BY <1>1, <1>4
<1> DEFINE x == (d * b) * w
           y == d * b
           u == d * q
           v == d * m
<1>6. u = x + v /\ v \in Nat /\ v + d <= y /\ x \in Nat /\ y \in Nat /\ u <= t /\ t < u + d
    BY <1>2, <1>3, <1>4
<1> HIDE DEF x, y, u, v
<1>7. x <= t /\ t < x + y
    BY <1>6
<1> QED
    BY <1>1, <1>5, <1>7 DEF w, x, y

\* The blocks' shares and their tiles fit, and the three divisions come to one.
LEMMA SizesFact ==
    ASSUME shape \in Shapes
    PROVE  /\ BlockLength \in Nat /\ TileLength \in Nat
           /\ BlockDim \in Nat \ {0} /\ BUFFER_NUM \in Nat \ {0} /\ LoopCount \in Nat \ {0}
           /\ BlockDim * BlockLength <= TotalLength(shape)
           /\ LoopCount * TileLength <= BlockLength
           /\ (BlockDim * LoopCount) * TileLength
                 = TotalLength(shape) - (TotalLength(shape) % (BlockDim * LoopCount))
<1> DEFINE t == TotalLength(shape)
           B == BlockLength
           q == B \div TileNum
           W == TileLength
<1>1. /\ BlockDim \in Nat \ {0} /\ BUFFER_NUM \in Nat \ {0} /\ TileNum \in Nat \ {0}
      /\ LoopCount = TileNum * BUFFER_NUM /\ LoopCount \in Nat \ {0}
    BY ParameterAssumption DEF LoopCount
<1>2. t \in Nat
    BY ShapesAssumption, CountFact
<1>3. B = t \div BlockDim /\ W = q \div BUFFER_NUM
    BY DEF BlockLength, TileLength
<1> HIDE DEF t, B, W
<1>4. B \in Nat /\ BlockDim * B <= t /\ t < BlockDim * B + BlockDim
    BY <1>1, <1>2, <1>3
<1>5. /\ q \in Nat /\ TileNum * q <= B
      /\ (BlockDim * TileNum) * q <= t /\ t < (BlockDim * TileNum) * q + BlockDim * TileNum
    BY <1>1, <1>2, <1>4, DivideAgain
<1> HIDE DEF q
<1>6. BlockDim * TileNum \in Nat \ {0}
    BY <1>1
<1> DEFINE d == BlockDim * TileNum
<1>7. d \in Nat \ {0} /\ d * q <= t /\ t < d * q + d
    BY <1>5, <1>6
<1> HIDE DEF d
<1>8. /\ W \in Nat /\ BUFFER_NUM * W <= q
      /\ (d * BUFFER_NUM) * W <= t /\ t < (d * BUFFER_NUM) * W + d * BUFFER_NUM
    BY <1>1, <1>2, <1>3, <1>5, <1>7, DivideAgain
<1> DEFINE N == BlockDim * LoopCount
<1>9. d * BUFFER_NUM = N
    BY <1>1 DEF d
<1>10. N * W = t - (t % N)
    <2>1. N \in Nat \ {0}
        BY <1>1
    <2> HIDE DEF N
    <2>2. N * W <= t /\ t < N * W + N
        BY <1>8, <1>9
    <2> DEFINE k == t \div N
               m == t % N
               y == N * W
               r == t - y
    <2>3. k \in Int /\ m \in 0 .. N - 1 /\ t = N * k + m
        BY <1>2, <2>1, ModFact
    <2>4. y \in Int /\ r \in 0 .. N - 1 /\ t = y + r
        <3>1. y \in Int /\ y <= t /\ t < y + N
            BY <1>8, <2>1, <2>2
        <3> HIDE DEF y
        <3> QED
            BY <1>2, <2>1, <3>1
    <2>5. /\ N * k + m = N * W + r
          /\ k \in Int /\ W \in Int /\ m \in 0 .. N - 1 /\ r \in 0 .. N - 1
        BY <1>8, <2>3, <2>4
    <2> HIDE DEF k, m, r, y
    <2>6. m = r
        BY <2>1, <2>5, QuotientUnique
    <2> QED
        BY <1>2, <2>4, <2>6 DEF m, r, y
<1>11. LoopCount * W <= B
    <2>1. TileNum * (BUFFER_NUM * W) <= TileNum * q
        BY <1>1, <1>5, <1>8
    <2>2. LoopCount * W = TileNum * (BUFFER_NUM * W)
        BY <1>1, <1>8
    <2>3. TileNum * (BUFFER_NUM * W) \in Nat /\ TileNum * q \in Nat
        BY <1>1, <1>5, <1>8
    <2> QED
        BY <1>4, <1>5, <2>1, <2>2, <2>3
<1> QED
    BY <1>1, <1>4, <1>8, <1>10, <1>11 DEF t, B, W

-----------------------------------------------------------------------------
(* The invariant.                                                          *)

Typed ==
    /\ shape \in Shapes
    /\ z \in [Elements(shape) -> Int]
    /\ read \in [Block -> 0 .. LoopCount]
    /\ added \in [Block -> 0 .. LoopCount]
    /\ wrote \in [Block -> 0 .. LoopCount]
    /\ inBuf \in [Block -> [Buffer -> Int]]
    /\ outBuf \in [Block -> [Buffer -> Int]]

\* No stage is ahead of the one before it, nor more than a queue behind it.
Paced ==
    \A c \in Block :
        /\ wrote[c] <= added[c] /\ added[c] <= read[c]
        /\ read[c] <= added[c] + BUFFER_NUM /\ added[c] <= wrote[c] + BUFFER_NUM

\* Every tile between two stages is in the buffer where the next looks for it.
InFlight ==
    \A c \in Block :
        /\ \A i \in added[c] .. read[c] - 1 : inBuf[c][i % BUFFER_NUM] = Tile(c, i)
        /\ \A i \in wrote[c] .. added[c] - 1 : outBuf[c][i % BUFFER_NUM] = Tile(c, i)

\* The place a is in a tile that block c has copied out.
CoveredBy(a, c) ==
    BlockLength * c <= a /\ a < BlockLength * c + wrote[c] * TileLength

\* Every block has written the first part of its share, and nothing else.
Filled ==
    \A a \in Elements(shape) :
        z[a] = IF \E c \in Block : CoveredBy(a, c) THEN a ELSE Stale

Sound == Typed /\ Paced /\ InFlight /\ Filled

LEMMA SoundInit == Init => Sound
<1> SUFFICES ASSUME Init PROVE Sound
    OBVIOUS
<1>1. shape \in Shapes /\ BlockLength \in Nat /\ TileLength \in Nat
      /\ BUFFER_NUM \in Nat \ {0} /\ LoopCount \in Nat \ {0}
    BY SizesFact DEF Init
<1>2. /\ \A c \in Block : read[c] = 0 /\ added[c] = 0 /\ wrote[c] = 0
      /\ \A a \in Elements(shape) : z[a] = Stale
    BY DEF Init
<1>3. Typed
    BY <1>1 DEF Init, Typed, Stale
<1>4. Paced /\ InFlight
    BY <1>1, <1>2 DEF Paced, InFlight
<1>5. ASSUME NEW a \in Elements(shape), NEW c \in Block PROVE ~ CoveredBy(a, c)
    <2>1. a \in Int /\ c \in Int /\ 0 * TileLength = 0
        BY <1>1, ShapesAssumption, ElementsAre DEF Block
    <2>2. BlockLength * c \in Int
        BY <1>1, <2>1
    <2>3. wrote[c] * TileLength = 0
        BY <1>2, <2>1
    <2> QED
        BY <2>1, <2>2, <2>3 DEF CoveredBy
<1>6. Filled
    BY <1>2, <1>5 DEF Filled
<1> QED
    BY <1>3, <1>4, <1>6 DEF Sound

\* Two tiles less than a queue apart are in different buffers.
LEMMA BuffersDiffer ==
    ASSUME NEW b \in Nat \ {0}, NEW i \in Nat, NEW j \in Nat, i < j, j < i + b
    PROVE  i % b # j % b
<1> DEFINE p == i \div b
           q == j \div b
           r == i % b
           s == j % b
<1>1. /\ p \in Int /\ q \in Int /\ r \in 0 .. b - 1 /\ s \in 0 .. b - 1
      /\ i = b * p + r /\ j = b * q + s
    BY ModFact
<1> HIDE DEF p, q, r, s
<1>2. SUFFICES ASSUME r = s PROVE FALSE
    BY DEF r, s
<1>3. p < q => b * p + b <= b * q
    <2>1. p < q => b * (p + 1) <= b * q
        BY <1>1
    <2> QED
        BY <1>1, <2>1
<1>4. q <= p => b * q <= b * p
    BY <1>1
<1> DEFINE x == b * p
           y == b * q
<1>5. x \in Int /\ y \in Int /\ i = x + r /\ j = y + s /\ (p < q => x + b <= y) /\ (q <= p => y <= x)
    BY <1>1, <1>3, <1>4
<1> HIDE DEF x, y
<1> QED
    BY <1>1, <1>2, <1>5

\* The sizes depend on the shape alone.
LEMMA SizesStay ==
    ASSUME UNCHANGED shape
    PROVE  /\ BlockLength' = BlockLength /\ TileLength' = TileLength
           /\ \A c, i : Tile(c, i)' = Tile(c, i)
<1>1. BlockLength' = BlockLength
    BY DEF BlockLength
<1>2. TileLength' = TileLength
    BY <1>1 DEF TileLength
<1> QED
    BY <1>1, <1>2 DEF Tile

LEMMA TileType ==
    ASSUME Typed, NEW c \in Block, NEW i \in Nat
    PROVE  Tile(c, i) \in Int
<1>1. BlockLength \in Int /\ TileLength \in Int /\ c \in Int /\ i \in Int
    BY SizesFact DEF Typed, Block
<1>2. BlockLength * c \in Int /\ i * TileLength \in Int
    BY <1>1
<1> QED
    BY <1>2 DEF Tile

\* What every action leaves alone keeps its meaning.
LEMMA FilledStays ==
    ASSUME Filled, UNCHANGED <<shape, z, wrote>>
    PROVE  Filled'
<1>1. /\ Elements(shape)' = Elements(shape) /\ Block' = Block /\ z' = z /\ wrote' = wrote
      /\ BlockLength' = BlockLength /\ TileLength' = TileLength
    BY SizesStay DEF Block
<1> QED
    BY <1>1 DEF Filled, CoveredBy

\* The counters and buffers of one block change in one place.
LEMMA OneBuffer ==
    ASSUME NEW buf \in [Block -> [Buffer -> Int]], NEW c \in Block, NEW k \in Buffer, NEW v \in Int
    PROVE  LET new == [buf EXCEPT ![c][k] = v]
           IN  /\ new \in [Block -> [Buffer -> Int]]
               /\ new[c][k] = v
               /\ \A j \in Buffer \ {k} : new[c][j] = buf[c][j]
               /\ \A d \in Block \ {c} : new[d] = buf[d]
    OBVIOUS

LEMMA OneCount ==
    ASSUME NEW f \in [Block -> 0 .. LoopCount], NEW c \in Block, f[c] < LoopCount, LoopCount \in Nat
    PROVE  LET new == [f EXCEPT ![c] = @ + 1]
           IN  /\ new \in [Block -> 0 .. LoopCount]
               /\ new[c] = f[c] + 1
               /\ \A d \in Block \ {c} : new[d] = f[d]
<1>1. f[c] + 1 \in 0 .. LoopCount
    OBVIOUS
<1> QED
    BY <1>1

\* The tile goes to the buffer of none that is still to be added.
LEMMA CopyInStep ==
    ASSUME Sound, NEW c \in Block, CopyIn(c)
    PROVE  Sound'
<1> DEFINE k == read[c] % BUFFER_NUM
<1>1. /\ shape \in Shapes /\ LoopCount \in Nat /\ BUFFER_NUM \in Nat \ {0}
      /\ read[c] \in Nat /\ added[c] \in Nat /\ wrote[c] \in Nat
      /\ added[c] <= read[c] /\ read[c] < LoopCount /\ read[c] < added[c] + BUFFER_NUM
    BY SizesFact DEF Sound, Typed, Paced, CopyIn
<1>2. k \in Buffer /\ Tile(c, read[c]) \in Int
    BY <1>1, ModFact, TileType DEF Sound, Buffer
<1>3. /\ inBuf' \in [Block -> [Buffer -> Int]]
      /\ inBuf'[c][k] = Tile(c, read[c])
      /\ \A j \in Buffer \ {k} : inBuf'[c][j] = inBuf[c][j]
      /\ \A d \in Block \ {c} : inBuf'[d] = inBuf[d]
    BY <1>2, OneBuffer DEF Sound, Typed, CopyIn
<1>4. /\ read' \in [Block -> 0 .. LoopCount] /\ read'[c] = read[c] + 1
      /\ \A d \in Block \ {c} : read'[d] = read[d]
    BY <1>1, OneCount DEF Sound, Typed, CopyIn
<1>5. /\ UNCHANGED <<shape, z, added, wrote, outBuf>>
      /\ Block' = Block /\ Buffer' = Buffer /\ LoopCount' = LoopCount
      /\ \A d, i : Tile(d, i)' = Tile(d, i)
      /\ Elements(shape)' = Elements(shape)
    BY SizesStay DEF CopyIn, Block, Buffer, LoopCount
<1>6. Typed'
    BY <1>3, <1>4, <1>5 DEF Sound, Typed
<1>7. Paced'
    BY <1>1, <1>4, <1>5 DEF Sound, Typed, Paced
<1>8. ASSUME NEW i \in added[c] .. read[c]
      PROVE  inBuf'[c][i % BUFFER_NUM] = Tile(c, i)
    <2>1. CASE i = read[c]
        BY <1>3, <2>1
    <2>2. CASE i # read[c]
        <3>1. i \in added[c] .. read[c] - 1 /\ i \in Nat /\ i < read[c] /\ read[c] < i + BUFFER_NUM
            BY <1>1, <2>2
        <3>2. i % BUFFER_NUM # k /\ i % BUFFER_NUM \in Buffer
            BY <1>1, <3>1, BuffersDiffer, ModFact DEF Buffer
        <3>3. inBuf[c][i % BUFFER_NUM] = Tile(c, i)
            BY <3>1 DEF Sound, InFlight
        <3> QED
            BY <1>3, <3>2, <3>3
    <2> QED
        BY <2>1, <2>2
<1>9. InFlight'
    <2>1. read'[c] - 1 = read[c]
        BY <1>1, <1>4
    <2>2. ASSUME NEW i \in added[c] .. read'[c] - 1
          PROVE  inBuf'[c][i % BUFFER_NUM] = Tile(c, i)
        BY <1>8, <2>1
    <2> QED
        BY <1>3, <1>4, <1>5, <2>2 DEF Sound, InFlight
<1>10. Filled'
    BY <1>5, FilledStays DEF Sound
<1> QED
    BY <1>6, <1>7, <1>9, <1>10 DEF Sound

\* The sum goes to the buffer of none that is still to be copied out, and is
\* that of the oldest tile.
LEMMA ComputeStep ==
    ASSUME Sound, NEW c \in Block, Compute(c)
    PROVE  Sound'
<1> DEFINE k == added[c] % BUFFER_NUM
<1>1. /\ shape \in Shapes /\ LoopCount \in Nat /\ BUFFER_NUM \in Nat \ {0}
      /\ read[c] \in Nat /\ added[c] \in Nat /\ wrote[c] \in Nat
      /\ wrote[c] <= added[c] /\ added[c] < read[c] /\ added[c] < wrote[c] + BUFFER_NUM
      /\ added[c] < LoopCount /\ read[c] <= added[c] + BUFFER_NUM
    BY SizesFact DEF Sound, Typed, Paced, Compute
<1>2. k \in Buffer /\ Tile(c, added[c]) \in Int /\ inBuf[c][k] = Tile(c, added[c])
    <2>1. added[c] \in added[c] .. read[c] - 1
        BY <1>1
    <2> QED
        BY <1>1, <2>1, ModFact, TileType DEF Sound, Buffer, InFlight
<1>3. /\ outBuf' \in [Block -> [Buffer -> Int]]
      /\ outBuf'[c][k] = Tile(c, added[c])
      /\ \A j \in Buffer \ {k} : outBuf'[c][j] = outBuf[c][j]
      /\ \A d \in Block \ {c} : outBuf'[d] = outBuf[d]
    BY <1>2, OneBuffer DEF Sound, Typed, Compute
<1>4. /\ added' \in [Block -> 0 .. LoopCount] /\ added'[c] = added[c] + 1
      /\ \A d \in Block \ {c} : added'[d] = added[d]
    BY <1>1, OneCount DEF Sound, Typed, Compute
<1>5. /\ UNCHANGED <<shape, z, read, wrote, inBuf>>
      /\ Block' = Block /\ Buffer' = Buffer /\ LoopCount' = LoopCount
      /\ \A d, i : Tile(d, i)' = Tile(d, i)
      /\ Elements(shape)' = Elements(shape)
    BY SizesStay DEF Compute, Block, Buffer, LoopCount
<1>6. Typed'
    BY <1>3, <1>4, <1>5 DEF Sound, Typed
<1>7. Paced'
    BY <1>1, <1>4, <1>5 DEF Sound, Typed, Paced
<1>8. ASSUME NEW i \in wrote[c] .. added[c]
      PROVE  outBuf'[c][i % BUFFER_NUM] = Tile(c, i)
    <2>1. CASE i = added[c]
        BY <1>3, <2>1
    <2>2. CASE i # added[c]
        <3>1. i \in wrote[c] .. added[c] - 1 /\ i \in Nat /\ i < added[c] /\ added[c] < i + BUFFER_NUM
            BY <1>1, <2>2
        <3>2. i % BUFFER_NUM # k /\ i % BUFFER_NUM \in Buffer
            BY <1>1, <3>1, BuffersDiffer, ModFact DEF Buffer
        <3>3. outBuf[c][i % BUFFER_NUM] = Tile(c, i)
            BY <3>1 DEF Sound, InFlight
        <3> QED
            BY <1>3, <3>2, <3>3
    <2> QED
        BY <2>1, <2>2
<1>9. InFlight'
    <2>1. added'[c] - 1 = added[c]
        BY <1>1, <1>4
    <2>2. ASSUME NEW i \in wrote[c] .. added'[c] - 1
          PROVE  outBuf'[c][i % BUFFER_NUM] = Tile(c, i)
        BY <1>8, <2>1
    <2>3. ASSUME NEW i \in added'[c] .. read[c] - 1
          PROVE  inBuf[c][i % BUFFER_NUM] = Tile(c, i)
        <3>1. i \in added[c] .. read[c] - 1
            BY <1>1, <1>4, <2>3
        <3> QED
            BY <3>1 DEF Sound, InFlight
    <2> QED
        BY <1>3, <1>4, <1>5, <2>2, <2>3 DEF Sound, InFlight
<1>10. Filled'
    BY <1>5, FilledStays DEF Sound
<1> QED
    BY <1>6, <1>7, <1>9, <1>10 DEF Sound

\* A tile that is copied out carries on where the block's part of z ended.
LEMMA CopyOutStep ==
    ASSUME Sound, NEW c \in Block, CopyOut(c)
    PROVE  Sound'
<1> DEFINE to == Tile(c, wrote[c])
           W == TileLength
           B == BlockLength
           n == wrote[c]
<1>1. /\ shape \in Shapes /\ LoopCount \in Nat /\ BUFFER_NUM \in Nat \ {0}
      /\ read[c] \in Nat /\ added[c] \in Nat /\ n \in Nat
      /\ n < added[c] /\ added[c] <= n + BUFFER_NUM /\ n < LoopCount
      /\ W \in Nat /\ B \in Nat /\ c \in Int
    BY SizesFact DEF Sound, Typed, Paced, CopyOut, Block
<1>2. outBuf[c][n % BUFFER_NUM] = to /\ to \in Int
    <2>1. n \in n .. added[c] - 1
        BY <1>1
    <2> QED
        BY <1>1, <2>1, TileType DEF Sound, InFlight
<1>3. /\ wrote' \in [Block -> 0 .. LoopCount] /\ wrote'[c] = n + 1
      /\ \A d \in Block \ {c} : wrote'[d] = wrote[d]
    BY <1>1, OneCount DEF Sound, Typed, CopyOut
<1>4. /\ UNCHANGED <<shape, read, added, inBuf, outBuf>>
      /\ Block' = Block /\ Buffer' = Buffer /\ LoopCount' = LoopCount
      /\ B' = B /\ W' = W
      /\ \A d, i : Tile(d, i)' = Tile(d, i)
      /\ Elements(shape)' = Elements(shape)
    BY SizesStay DEF CopyOut, Block, Buffer, LoopCount
<1>5. z' = [a \in Elements(shape) |-> IF a \in to .. to + W - 1 THEN a ELSE z[a]]
    <2>1. DOMAIN z = Elements(shape)
        BY DEF Sound, Typed
    <2>2. z' = [a \in DOMAIN z |->
                   IF a \in to .. to + W - 1 THEN to + (a - to) ELSE z[a]]
        BY <1>2 DEF CopyOut
    <2>3. \A a \in to .. to + W - 1 : to + (a - to) = a
        BY <1>1, <1>2
    <2> QED
        BY <2>1, <2>2, <2>3
<1>6. Typed'
    <2>1. z' \in [Elements(shape) -> Int]
        BY <1>1, <1>2, <1>5 DEF Sound, Typed
    <2> QED
        BY <1>3, <1>4, <2>1 DEF Sound, Typed
<1>7. Paced'
    BY <1>1, <1>3, <1>4 DEF Sound, Typed, Paced
<1>8. InFlight'
    <2>1. ASSUME NEW i \in wrote'[c] .. added[c] - 1
          PROVE  outBuf[c][i % BUFFER_NUM] = Tile(c, i)
        <3>1. i \in n .. added[c] - 1
            BY <1>1, <1>3, <2>1
        <3> QED
            BY <3>1 DEF Sound, InFlight
    <2> QED
        BY <1>3, <1>4, <2>1 DEF Sound, InFlight
<1>9. ASSUME NEW a \in Elements(shape)
      PROVE  (\E d \in Block : CoveredBy(a, d)') <=>
                 (\E d \in Block : CoveredBy(a, d)) \/ a \in to .. to + W - 1
    <2>1. a \in Int
        BY <1>1, ShapesAssumption, ElementsAre
    <2>2. \A d \in Block \ {c} : CoveredBy(a, d)' <=> CoveredBy(a, d)
        BY <1>3, <1>4 DEF CoveredBy
    <2>3. CoveredBy(a, c)' <=> CoveredBy(a, c) \/ a \in to .. to + W - 1
        <3> DEFINE x == B * c
                   y == n * W
        <3>1. x \in Int /\ y \in Nat /\ (n + 1) * W = y + W
            BY <1>1
        <3>2. to = x + y
            BY DEF Tile
        <3>3. CoveredBy(a, c)' <=> x <= a /\ a < x + (n + 1) * W
            BY <1>3, <1>4 DEF CoveredBy
        <3>4. CoveredBy(a, c) <=> x <= a /\ a < x + y
            BY DEF CoveredBy
        <3> HIDE DEF x, y, to, W
        <3>5. CoveredBy(a, c)' <=> x <= a /\ a < x + (y + W)
            BY <3>1, <3>3
        <3> QED
            BY <1>1, <2>1, <3>1, <3>2, <3>4, <3>5
    <2> QED
        BY <2>2, <2>3
<1>10. Filled'
    <2>1. ASSUME NEW a \in Elements(shape)
          PROVE  z'[a] = IF \E d \in Block : CoveredBy(a, d)' THEN a ELSE Stale
        <3>1. z[a] = IF \E d \in Block : CoveredBy(a, d) THEN a ELSE Stale
            BY DEF Sound, Filled
        <3>2. z'[a] = IF a \in to .. to + W - 1 THEN a ELSE z[a]
            BY <1>5
        <3> HIDE DEF to, W
        <3> QED
            BY <1>9, <3>1, <3>2
    <2> QED
        BY <1>4, <2>1 DEF Filled, Stale
<1> QED
    BY <1>6, <1>7, <1>8, <1>10 DEF Sound

LEMMA SoundStep == Sound /\ [Next]_vars => Sound'
<1> SUFFICES ASSUME Sound, [Next]_vars PROVE Sound'
    OBVIOUS
<1>1. ASSUME NEW c \in Block, BlockStep(c) PROVE Sound'
    BY <1>1, CopyInStep, ComputeStep, CopyOutStep DEF BlockStep
<1>2. CASE UNCHANGED vars
    <2>1. /\ UNCHANGED <<shape, z, read, added, wrote, inBuf, outBuf>>
          /\ Block' = Block /\ Buffer' = Buffer /\ LoopCount' = LoopCount
          /\ \A d, i : Tile(d, i)' = Tile(d, i)
          /\ Elements(shape)' = Elements(shape)
        BY <1>2, SizesStay DEF vars, Block, Buffer, LoopCount
    <2>2. Typed' /\ Paced' /\ InFlight'
        BY <2>1 DEF Sound, Typed, Paced, InFlight
    <2> QED
        BY <2>1, <2>2, FilledStays DEF Sound
<1> QED
    BY <1>1, <1>2 DEF Next, Finished

LEMMA AlwaysSound == Spec => []Sound
BY SoundInit, SoundStep, PTL DEF Spec

-----------------------------------------------------------------------------
(* The theorems.                                                           *)

\* At any time, for any interleaving of the stages and any number of buffers,
\* an element of z is stale or has its own sum.
THEOREM SumsAlwaysInPlace == Spec => []SumsInPlace
<1>1. Sound => SumsInPlace
    BY DEF Sound, Typed, Filled, SumsInPlace
<1> QED
    BY <1>1, AlwaysSound, PTL

\* The first parts of the shares of k blocks, n elements each.
Parts(k, n) == {a \in Nat : \E c \in 0 .. k - 1 : BlockLength * c <= a /\ a < BlockLength * c + n}

\* Shares do not overlap, so the parts of k blocks have k * n elements.
LEMMA PartsCount ==
    ASSUME BlockLength \in Nat, NEW n \in Nat, n <= BlockLength, NEW k \in Nat
    PROVE  IsFiniteSet(Parts(k, n)) /\ Cardinality(Parts(k, n)) = k * n
<1> DEFINE B == BlockLength
           G == {j \in Nat : IsFiniteSet(Parts(j, n)) /\ Cardinality(Parts(j, n)) = j * n}
<1>1. 0 \in G
    <2>1. Parts(0, n) = {}
        BY DEF Parts
    <2> QED
        BY <2>1, FS_EmptySet
<1>2. ASSUME NEW j \in Nat, j \in G PROVE j + 1 \in G
    <2> DEFINE x == B * j
               T == x .. x + n - 1
    <2>1. x \in Nat /\ x + n - 1 \in Int
        OBVIOUS
    <2>2. \A c : c \in 0 .. (j + 1) - 1 <=> c \in 0 .. j - 1 \/ c = j
        OBVIOUS
    <2>3. T = {a \in Nat : x <= a /\ a < x + n}
        <3> HIDE DEF x
        <3> QED
            BY <2>1
    <2>4. Parts(j + 1, n) = Parts(j, n) \cup T
        <3> HIDE DEF T
        <3> QED
            BY <2>2, <2>3 DEF Parts
    <2>5. Parts(j, n) \cap T = {}
        <3>1. SUFFICES ASSUME NEW a \in Parts(j, n), a \in T PROVE FALSE
            OBVIOUS
        <3>2. PICK c \in 0 .. j - 1 : B * c <= a /\ a < B * c + n
            BY DEF Parts
        <3>3. B * (c + 1) <= B * j /\ B * (c + 1) = B * c + B /\ B * c \in Nat
            OBVIOUS
        <3> DEFINE y == B * c
        <3>4. y \in Nat /\ y + B <= x /\ a < y + n /\ a \in Nat /\ x <= a
            BY <2>1, <2>3, <3>1, <3>2, <3>3
        <3> HIDE DEF x, y
        <3> QED
            BY <2>1, <3>4
    <2>6. IsFiniteSet(T) /\ Cardinality(T) = n
        <3> HIDE DEF x
        <3>1. /\ IsFiniteSet(x .. x + n - 1)
              /\ Cardinality(x .. x + n - 1) = IF x > x + n - 1 THEN 0 ELSE (x + n - 1) - x + 1
            BY <2>1, FS_Interval
        <3> QED
            BY <2>1, <3>1
    <2> HIDE DEF T
    <2>7. /\ IsFiniteSet(Parts(j + 1, n))
          /\ Cardinality(Parts(j + 1, n)) = j * n + n
        <3>1. /\ IsFiniteSet(Parts(j, n) \cup T)
              /\ Cardinality(Parts(j, n) \cup T)
                    = Cardinality(Parts(j, n)) + Cardinality(T) - Cardinality(Parts(j, n) \cap T)
            BY <1>2, <2>6, FS_Union
        <3>2. j * n \in Nat
            OBVIOUS
        <3> DEFINE u == j * n
        <3>3. Cardinality(Parts(j, n)) = u /\ Cardinality(Parts(j, n) \cap T) = 0
            BY <1>2, <2>5, FS_EmptySet
        <3> HIDE DEF u
        <3>4. Cardinality(Parts(j, n) \cup T) = u + n
            BY <2>6, <3>1, <3>2, <3>3 DEF u
        <3> QED
            BY <2>4, <3>1, <3>4 DEF u
    <2>8. (j + 1) * n = j * n + n
        OBVIOUS
    <2> QED
        BY <2>7, <2>8
<1>3. G = Nat
    <2>1. G \subseteq Nat
        OBVIOUS
    <2> HIDE DEF G
    <2> QED
        BY <1>1, <1>2, <2>1, SetInduction
<1> QED
    BY <1>3

\* When every block has ended, the elements left out are the remainder modulo
\* all tiles of all blocks, and those that the uint32 count has lost.
THEOREM OnlyRemainderEverLeftOut == Spec => []OnlyRemainderLeftOut
<1>1. Sound => OnlyRemainderLeftOut
    <2> SUFFICES ASSUME Sound, AllDone
                 PROVE  Cardinality({a \in DOMAIN z : z[a] = Stale})
                          = Cardinality(Elements(shape)) - TotalLength(shape)
                                + (TotalLength(shape) % (BlockDim * LoopCount))
        BY DEF OnlyRemainderLeftOut
    <2> DEFINE B == BlockLength
               n == LoopCount * TileLength
               T == TotalLength(shape)
               P == Product(shape)
               E == Elements(shape)
               Done == Parts(BlockDim, n)
               Left == {a \in DOMAIN z : z[a] = Stale}
    <2>1. shape \in Shapes /\ shape \in Seq(Nat)
        BY ShapesAssumption DEF Sound, Typed
    <2>2. /\ B \in Nat /\ BlockDim \in Nat \ {0} /\ n \in Nat /\ n <= B
          /\ BlockDim * B <= T /\ T \in Nat /\ P \in Nat /\ T <= P
          /\ BlockDim * n = T - (T % (BlockDim * LoopCount))
        <3>1. /\ BlockLength \in Nat /\ TileLength \in Nat /\ BlockDim \in Nat \ {0}
              /\ LoopCount \in Nat /\ BlockDim * BlockLength <= T /\ n <= BlockLength
              /\ (BlockDim * LoopCount) * TileLength = T - (T % (BlockDim * LoopCount))
            BY <2>1, SizesFact
        <3>2. (BlockDim * LoopCount) * TileLength = BlockDim * n /\ n \in Nat
            BY <3>1
        <3>3. T \in Nat /\ P \in Nat /\ T <= P
            BY <2>1, CountFact
        <3> QED
            BY <3>1, <3>2, <3>3
    <2>3. E = 0 .. P - 1 /\ IsFiniteSet(E) /\ Cardinality(E) = P
        <3>1. E = 0 .. P - 1
            BY <2>1, ElementsAre
        <3> HIDE DEF E, P
        <3> DEFINE p == P - 1
        <3>2. p \in Int /\ 0 \in Int
            BY <2>2
        <3> HIDE DEF p
        <3>3. IsFiniteSet(0 .. p) /\ Cardinality(0 .. p) = IF 0 > p THEN 0 ELSE p - 0 + 1
            BY <3>2, FS_Interval
        <3>4. IsFiniteSet(0 .. P - 1) /\ Cardinality(0 .. P - 1) = P
            BY <2>2, <3>3 DEF p
        <3> QED
            BY <2>2, <3>1, <3>4
    <2>4. IsFiniteSet(Done) /\ Cardinality(Done) = BlockDim * n
        BY <2>2, PartsCount
    <2>5. \A c \in Block : wrote[c] = LoopCount
        BY DEF AllDone
    <2>6. \A a \in E : (\E c \in Block : CoveredBy(a, c)) <=> a \in Done
        BY <2>3, <2>5 DEF CoveredBy, Parts, Block
    <2>7. \A a \in Done : a \in Nat /\ a < T
        <3> SUFFICES ASSUME NEW a \in Done PROVE a \in Nat /\ a < T
            OBVIOUS
        <3>1. PICK c \in 0 .. BlockDim - 1 : B * c <= a /\ a < B * c + n
            BY DEF Parts
        <3>2. B * (c + 1) <= BlockDim * B /\ B * (c + 1) = B * c + B
            BY <2>2
        <3> DEFINE x == B * c
                   y == BlockDim * B
        <3>3. a \in Nat /\ x \in Nat /\ y \in Nat /\ x + B <= y /\ y <= T /\ a < x + n /\ n <= B
            BY <2>2, <3>1, <3>2 DEF Parts
        <3> HIDE DEF x, y, n, T, B
        <3> QED
            BY <2>2, <3>3
    <2>8. Done \subseteq E
        <3> HIDE DEF Done, T, P, E
        <3> QED
            BY <2>2, <2>3, <2>7
    <2>9. Left = E \ Done
        <3>1. DOMAIN z = E
            BY DEF Sound, Typed
        <3>2. \A a \in E : z[a] = Stale <=> ~ \E c \in Block : CoveredBy(a, c)
            <4>1. \A a \in E : z[a] = IF \E c \in Block : CoveredBy(a, c) THEN a ELSE Stale
                BY DEF Sound, Filled
            <4>2. \A a \in E : a # Stale
                BY <2>3 DEF Stale
            <4> HIDE DEF E
            <4> QED
                BY <4>1, <4>2
        <3> HIDE DEF E, Done
        <3> QED
            BY <2>6, <3>1, <3>2
    <2>10. Cardinality(Left) = Cardinality(E) - Cardinality(E \cap Done)
        <3> HIDE DEF E, Done, Left
        <3> QED
            BY <2>3, <2>9, FS_Difference
    <2>11. E \cap Done = Done
        BY <2>8
    <2>12. Cardinality(Left) = P - BlockDim * n
        BY <2>3, <2>4, <2>10, <2>11
    <2> DEFINE y == BlockDim * n
               r == T % (BlockDim * LoopCount)
    <2>13. y = T - r /\ r \in Int /\ y \in Int
        <3>1. BlockDim * LoopCount \in Nat \ {0}
            BY <2>1, SizesFact
        <3>2. r \in Int
            <4> DEFINE N == BlockDim * LoopCount
            <4>1. N \in Nat \ {0}
                BY <3>1
            <4> HIDE DEF N, T
            <4>2. T % N \in 0 .. N - 1
                BY <2>2, <4>1, ModFact
            <4> QED
                BY <4>1, <4>2 DEF N
        <3>3. y \in Int
            BY <2>2
        <3> QED
            BY <2>2, <3>2, <3>3
    <2>14. Cardinality(Left) = P - y
        BY <2>12
    <2> HIDE DEF y, r, Left, T, P, E, n
    <2>15. Cardinality(Left) = Cardinality(E) - T + r
        BY <2>2, <2>3, <2>13, <2>14
    <2> QED
        BY <2>15 DEF Left, E, T, r
<1> QED
    BY <1>1, AlwaysSound, PTL
==============================================================================
