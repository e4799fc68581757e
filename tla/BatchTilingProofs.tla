--------------------------- MODULE BatchTilingProofs ---------------------------
(***************************************************************************)
(* The tiling of cache_miss_topk gives every row of the batch to one block *)
(* and to no other, for every batch size and every number of cores.        *)
(***************************************************************************)
EXTENDS BatchTiling, TLAPS

\* What \div returns: the largest q with d * q <= a.
LEMMA DivFact ==
    ASSUME NEW a \in Nat, NEW d \in Nat \ {0}
    PROVE  /\ a \div d \in Nat
           /\ d * (a \div d) <= a
           /\ a < d * (a \div d) + d
    OBVIOUS

\* Arithmetic that stays below 2^32 does not wrap.
LEMMA NoWrap ==
    ASSUME NEW x \in Nat, x < Word
    PROVE  U(x) = x
    BY WordAssumption DEF U

\* A product is no smaller than a factor when the other one is positive.
LEMMA Monotone ==
    ASSUME NEW d \in Nat, NEW k \in Int, NEW l \in Int, k <= l
    PROVE  d * k <= d * l
    OBVIOUS

\* Rounding up: q shares of d cover a, and q - 1 do not.
LEMMA CeilFact ==
    ASSUME NEW a \in Nat \ {0}, NEW d \in Nat \ {0}, a + d <= Word
    PROVE  LET q == CeilDivU(a, d)
           IN  q \in Nat \ {0} /\ a <= d * q /\ d * (q - 1) < a
<1> DEFINE q == (a + d - 1) \div d
<1>1. a + d - 1 \in Nat /\ a + d - 1 < Word
    BY WordAssumption
<1>2. CeilDivU(a, d) = q
    BY <1>1, NoWrap DEF CeilDivU
<1>3. q \in Nat /\ d * q <= a + d - 1 /\ a + d - 1 < d * q + d
    BY <1>1, DivFact
<1>4. d * (q - 1) = d * q - d
    BY <1>3
<1>5. q # 0
    BY <1>3
<1> QED
    BY <1>2, <1>3, <1>4, <1>5

\* The facts about a tiling that the loop of a block relies on.
TilingFits(t) ==
    /\ t.batchSize \in Nat \ {0} /\ t.batchSize < Word
    /\ t.formerLength \in Nat \ {0}
    /\ t.formerNum \in Nat
    /\ t.tailNum = 1
    /\ t.tailLength \in 1 .. t.formerLength
    /\ t.formerLength * t.formerNum + t.tailLength = t.batchSize
    /\ t.formerNum + 1 < Word

\* The tiling cuts the batch into full shares and one last share that is not
\* empty, and uses no more blocks than there are cores, as long as twice the
\* batch, and the batch and the cores together, stay within uint32.
THEOREM TilingCovers ==
    ASSUME NEW B \in Nat \ {0}, NEW C \in Nat \ {0}, B + C <= Word, 2 * B <= Word
    PROVE  /\ TilingFits(Tiling(B, C))
           /\ UsedCoreNum(Tiling(B, C)) <= C
           /\ BlockDim(Tiling(B, C)) = UsedCoreNum(Tiling(B, C))
           /\ Tiling(B, C).batchSize = B
<1> DEFINE bpc    == CeilDivU(B, C)
           used   == CeilDivU(B, bpc)
           former == U(used - 1)
           tail   == U(B - U(former * bpc))
           t      == Tiling(B, C)
<1>1. bpc \in Nat \ {0} /\ B <= C * bpc /\ C * (bpc - 1) < B
    BY CeilFact
<1>2. bpc <= B
  <2>1. bpc - 1 <= C * (bpc - 1)
    <3> HIDE DEF bpc
    <3>1. bpc - 1 \in Nat /\ C - 1 \in Nat
        BY <1>1
    <3>2. (C - 1) * (bpc - 1) >= 0
        BY <3>1
    <3> QED
        BY <1>1, <3>2
  <2> QED
    BY <1>1, <2>1
<1>3. B + bpc <= Word
    BY <1>1, <1>2, WordAssumption
<1>4. used \in Nat \ {0} /\ B <= bpc * used /\ bpc * (used - 1) < B
    BY <1>1, <1>3, CeilFact
<1> HIDE DEF bpc, used
<1>5. B < Word /\ Word \in Nat
    BY WordAssumption
<1>6. used <= B
  <2>1. (bpc - 1) * (used - 1) >= 0
    BY <1>1, <1>4
  <2> QED
    BY <1>1, <1>4, <2>1
<1>7. former = used - 1
  <2>1. used - 1 \in Nat /\ used - 1 < Word
    BY <1>4, <1>5, <1>6
  <2> QED
    BY <2>1, NoWrap
<1> HIDE DEF former
<1>8. former * bpc \in Nat /\ former * bpc = bpc * (used - 1) /\ former * bpc < B
    BY <1>1, <1>4, <1>7
<1>9. U(former * bpc) = former * bpc
  <2>1. former * bpc < Word
    BY <1>5, <1>8
  <2> QED
    BY <1>8, <2>1, NoWrap
<1>10. bpc * used = bpc * (used - 1) + bpc
    BY <1>1, <1>4
<1>11. B - former * bpc \in 1 .. bpc
    BY <1>1, <1>4, <1>8, <1>10
<1>12. tail = B - former * bpc
  <2>1. B - former * bpc \in Nat /\ B - former * bpc < Word
    BY <1>1, <1>2, <1>5, <1>8, <1>11
  <2>2. U(B - former * bpc) = B - former * bpc
    BY <2>1, NoWrap
  <2> QED
    BY <1>9, <2>2
<1>13. t = [batchSize |-> B, formerNum |-> former, formerLength |-> bpc,
            tailNum |-> 1, tailLength |-> tail]
  <2>1. ~ (tail <= 0 /\ former > 0)
    BY <1>1, <1>8, <1>11, <1>12
  <2> QED
    BY <2>1 DEF Tiling, bpc, used, former
<1> HIDE DEF tail, t
<1>14. UsedCoreNum(t) = used /\ BlockDim(t) = used
  <2>1. former + 1 = used /\ used < Word
    BY <1>4, <1>5, <1>6, <1>7
  <2>2. U(former + 1) = used
    BY <1>4, <2>1, NoWrap
  <2> QED
    BY <1>13, <2>2 DEF UsedCoreNum, BlockDim
<1>15. used <= C
  <2>1. SUFFICES ASSUME used >= C + 1 PROVE FALSE
    BY <1>4
  <2>2. used - 1 \in Nat /\ C <= used - 1
    BY <1>4, <2>1
  <2>3. bpc * C <= bpc * (used - 1)
    BY <1>1, <2>2, Monotone
  <2>4. bpc * C = C * bpc
    BY <1>1
  <2> QED
    BY <1>1, <1>4, <2>3, <2>4
<1>16. TilingFits(t)
  <2>1. bpc * former + tail = B
    BY <1>1, <1>4, <1>7, <1>8, <1>12
  <2> QED
    BY <1>1, <1>4, <1>5, <1>6, <1>7, <1>11, <1>12, <1>13, <2>1, SMTT(30) DEF TilingFits
<1> QED
    BY <1>13, <1>14, <1>15, <1>16 DEF t

\* A block takes a run of consecutive rows, all of the batch: the end of the
\* batch never cuts a share short.
LEMMA BlockRowsAre ==
    ASSUME NEW t, TilingFits(t), NEW c \in 0 .. t.formerNum
    PROVE  LET F    == t.formerLength
               last == F * c + BlockBatches(t, c) - 1
           IN  /\ BlockBatches(t, c) \in 1 .. F
               /\ last < t.batchSize
               /\ c < t.formerNum => BlockBatches(t, c) = F
               /\ BlockRows(t, c) = F * c .. last
               /\ \A b \in 0 .. BlockBatches(t, c) - 1 : BatchIdx(t, c, b) = F * c + b
<1> DEFINE F == t.formerLength
           n == BlockBatches(t, c)
<1>1. /\ t.batchSize \in Nat /\ t.batchSize < Word /\ Word \in Nat
      /\ F \in Nat \ {0} /\ t.formerNum \in Nat /\ c \in Nat
      /\ t.tailLength \in 1 .. F
      /\ F * t.formerNum + t.tailLength = t.batchSize
    BY WordAssumption DEF TilingFits
<1>2. n = IF c = t.formerNum THEN t.tailLength ELSE F
  <2>1. UsedCoreNum(t) = t.formerNum + 1
      BY <1>1, NoWrap DEF UsedCoreNum, TilingFits
  <2>2. U(t.formerNum) = t.formerNum
      BY <1>1, NoWrap DEF TilingFits
  <2> QED
      BY <1>1, <2>1, <2>2 DEF BlockBatches
<1> HIDE DEF n
<1>3. n \in 1 .. F
    BY <1>1, <1>2
<1> HIDE DEF F
<1>4. F * c + n <= t.batchSize
  <2>1. CASE c = t.formerNum
      BY <1>1, <1>2, <2>1
  <2>2. CASE c # t.formerNum
    <3>1. F * (c + 1) <= F * t.formerNum
      <4>1. c + 1 <= t.formerNum /\ c + 1 \in Int /\ t.formerNum \in Int /\ F \in Nat
          BY <1>1, <2>2
      <4> QED
          BY <4>1, Monotone
    <3>2. F * (c + 1) = F * c + F
        BY <1>1
    <3>3. F * t.formerNum \in Nat
        BY <1>1
    <3> QED
        BY <1>1, <1>2, <2>2, <3>1, <3>2, <3>3
  <2> QED
      BY <2>1, <2>2
<1>5. StartBatch(t, c) = F * c
  <2>1. F * c \in Nat /\ F * c < Word /\ c * F = F * c
      BY <1>1, <1>3, <1>4
  <2> QED
      BY <2>1, NoWrap DEF StartBatch, F
<1>6. ASSUME NEW b \in 0 .. n - 1
      PROVE  BatchIdx(t, c, b) = F * c + b /\ F * c + b < t.batchSize
  <2>1. F * c + b \in Nat /\ F * c + b < t.batchSize /\ F * c + b < Word
      BY <1>1, <1>3, <1>4
  <2> QED
      BY <1>5, <2>1, NoWrap DEF BatchIdx
<1>7. ASSUME NEW b \in 0 .. n - 1
      PROVE  Takes(t, c, b)
    BY <1>3, <1>6 DEF Takes, n
<1>8. BlockRows(t, c) = {F * c + b : b \in 0 .. n - 1}
  <2>1. {a \in 0 .. n - 1 : Takes(t, c, a)} = 0 .. n - 1
      BY <1>7
  <2>2. BlockRows(t, c) = {BatchIdx(t, c, b) : b \in 0 .. n - 1}
      BY <2>1 DEF BlockRows, n
  <2> QED
      BY <1>6, <2>2
<1>9. {F * c + b : b \in 0 .. n - 1} = F * c .. F * c + n - 1
  <2>1. F * c \in Nat
      BY <1>1
  <2>2. ASSUME NEW r \in F * c .. F * c + n - 1
        PROVE  \E b \in 0 .. n - 1 : r = F * c + b
    <3>1. r - F * c \in 0 .. n - 1 /\ r = F * c + (r - F * c)
        BY <1>3, <2>1
    <3> QED
        BY <3>1
  <2> QED
      BY <1>3, <2>1, <2>2
<1> QED
    BY <1>1, <1>2, <1>3, <1>4, <1>6, <1>8, <1>9 DEF n, F

\* The blocks partition the batch: every row belongs to some block, no row to
\* two, and no block takes a row that is not there.
THEOREM BlocksPartitionBatch ==
    ASSUME NEW t, TilingFits(t)
    PROVE  /\ UNION {BlockRows(t, c) : c \in 0 .. t.formerNum} = 0 .. t.batchSize - 1
           /\ \A c, d \in 0 .. t.formerNum :
                 c # d => BlockRows(t, c) \cap BlockRows(t, d) = {}
<1> DEFINE F == t.formerLength
<1>1. /\ t.batchSize \in Nat /\ F \in Nat \ {0} /\ t.formerNum \in Nat
      /\ t.tailLength \in 1 .. F
      /\ F * t.formerNum + t.tailLength = t.batchSize
    BY DEF TilingFits
<1>2. ASSUME NEW c \in 0 .. t.formerNum
      PROVE  /\ BlockBatches(t, c) \in 1 .. F
             /\ F * c + BlockBatches(t, c) - 1 < t.batchSize
             /\ c < t.formerNum => BlockBatches(t, c) = F
             /\ BlockRows(t, c) = F * c .. F * c + BlockBatches(t, c) - 1
    BY BlockRowsAre
<1> HIDE DEF F
<1>3. ASSUME NEW c \in 0 .. t.formerNum
      PROVE  BlockRows(t, c) \subseteq 0 .. t.batchSize - 1
  <2> DEFINE n     == BlockBatches(t, c)
             first == F * c
  <2>1. first \in Nat /\ n \in Nat /\ first + n - 1 < t.batchSize
      BY <1>1, <1>2
  <2>2. BlockRows(t, c) = first .. first + n - 1
      BY <1>2
  <2> HIDE DEF n, first
  <2>3. \A r \in first .. first + n - 1 : r \in 0 .. t.batchSize - 1
      BY <1>1, <2>1
  <2> QED
      BY <2>2, <2>3
<1>4. ASSUME NEW r \in 0 .. t.batchSize - 1
      PROVE  \E c \in 0 .. t.formerNum : r \in BlockRows(t, c)
  <2> DEFINE c == r \div F
  <2>1. c \in Nat /\ F * c <= r /\ r < F * c + F
      BY <1>1, DivFact
  <2> HIDE DEF c
  <2>2. c <= t.formerNum
    <3>1. SUFFICES ASSUME c >= t.formerNum + 1 PROVE FALSE
        BY <1>1, <2>1
    <3>2. F * (t.formerNum + 1) <= F * c
        BY <1>1, <2>1, <3>1, Monotone
    <3>3. F * (t.formerNum + 1) = F * t.formerNum + F
        BY <1>1
    <3>4. F * t.formerNum \in Nat
        BY <1>1
    <3> QED
        BY <1>1, <2>1, <3>2, <3>3, <3>4
  <2>3. c \in 0 .. t.formerNum
      BY <1>1, <2>1, <2>2
  <2>4. r <= F * c + BlockBatches(t, c) - 1
    <3>1. CASE c < t.formerNum
        BY <1>1, <1>2, <2>1, <2>3, <3>1
    <3>2. CASE c = t.formerNum
      <4>1. BlockBatches(t, c) = t.tailLength
        <5>1. UsedCoreNum(t) = t.formerNum + 1 /\ U(t.formerNum) = t.formerNum
            BY WordAssumption, NoWrap DEF UsedCoreNum, TilingFits
        <5> QED
            BY <1>1, <3>2, <5>1 DEF BlockBatches
      <4> QED
          BY <1>1, <2>1, <3>2, <4>1
    <3> QED
        BY <1>1, <2>1, <2>2, <3>1, <3>2
  <2>5. r \in BlockRows(t, c)
      BY <1>1, <1>2, <2>1, <2>3, <2>4
  <2> QED
      BY <2>3, <2>5
<1>5. ASSUME NEW c \in 0 .. t.formerNum, NEW d \in 0 .. t.formerNum, c < d
      PROVE  BlockRows(t, c) \cap BlockRows(t, d) = {}
  <2>1. F * (c + 1) <= F * d
      BY <1>1, <1>5, Monotone
  <2>2. F * (c + 1) = F * c + F /\ F * c \in Nat /\ F * d \in Nat
      BY <1>1
  <2>3. \A r \in BlockRows(t, c) : r \in Int /\ r < F * c + F
    <3> DEFINE n == BlockBatches(t, c)
    <3>1. BlockRows(t, c) = F * c .. F * c + n - 1 /\ n \in 1 .. F
        BY <1>2
    <3> HIDE DEF n
    <3> QED
        BY <1>1, <2>2, <3>1
  <2>4. \A r \in BlockRows(t, d) : r \in Int /\ F * d <= r
    <3> DEFINE n == BlockBatches(t, d)
    <3>1. BlockRows(t, d) = F * d .. F * d + n - 1 /\ n \in 1 .. F
        BY <1>2
    <3> HIDE DEF n
    <3> QED
        BY <1>1, <2>2, <3>1
  <2> QED
      BY <1>1, <2>1, <2>2, <2>3, <2>4
<1>6. ASSUME NEW c \in 0 .. t.formerNum, NEW d \in 0 .. t.formerNum, c # d
      PROVE  BlockRows(t, c) \cap BlockRows(t, d) = {}
  <2>1. c < d \/ d < c
      BY <1>1, <1>6
  <2> QED
      BY <1>5, <2>1
<1> QED
    BY <1>3, <1>4, <1>6
==============================================================================
